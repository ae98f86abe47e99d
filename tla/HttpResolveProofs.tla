-------------------------- MODULE HttpResolveProofs --------------------------
(***************************************************************************)
(* Proofs about HttpResolve for any number of remotes, addresses, external *)
(* events and any limits.                                                  *)
(***************************************************************************)
EXTENDS HttpResolve, TLAPS

(***************************************************************************)
(* The inductive invariant.  Budget: the remotes before "at" have used at  *)
(* most one request limit each.  Watched: what the lookup holds, and what  *)
(* the responders could still say, has been seen.  Covered: the remotes    *)
(* before "at" that did not change and did not fail are in the result.     *)
(***************************************************************************)
Budget ==
  phase \in Asking =>
    /\ at \in Remotes /\ spent <= RequestLimit
    /\ now <= (at - 1) * RequestLimit + spent

Watched ==
  /\ phase \in Asking => Known \subseteq seen /\ UNION result \subseteq seen
  /\ phase = "body" => UNION response \subseteq seen

Holds(i, r) == \A a \in lxd[i] : r # None /\ a \subseteq UNION r

Covered ==
  /\ phase \in Asking => \A i \in steady \ failed : i < at => Holds(i, result)
  /\ phase = "body" /\ at \in steady => response = lxd[at]

IInv ==
  /\ TypeOK
  /\ Budget /\ DiscardedOnlyLate
  /\ Watched /\ AnswerFresh
  /\ Covered /\ SteadyIsFound
-----------------------------------------------------------------------------
LEMMA Times ==
  ASSUME NEW a \in Nat, NEW b \in Nat, NEW r \in Nat, a <= b
  PROVE  a * r \in Nat /\ a * r <= b * r /\ (a + 1) * r = a * r + r
  OBVIOUS

LEMMA MergeFacts ==
  ASSUME NEW r \in LocalResult, result \in LocalResult
  PROVE  /\ Merge(r) \in LocalResult
         /\ UNION Merge(r) = (UNION result) \cup (UNION r)
         /\ r # None => Merge(r) # None
         /\ result # None => Merge(r) # None
<1>1. CASE r = None
  BY <1>1 DEF Merge, None
<1>2. CASE r # None
  <2>1. (UNION result) \cup (UNION r) \in SUBSET Addrs
    BY DEF LocalResult, None, Some
  <2>2. Merge(r) = {(UNION result) \cup (UNION r)}
    BY <1>2 DEF Merge, Some
  <2>3. Merge(r) \in LocalResult
    BY <2>1, <2>2 DEF LocalResult, Some
  <2>4. UNION Merge(r) = (UNION result) \cup (UNION r)
    BY <2>2
  <2>5. Merge(r) # None
    BY <2>2 DEF None
  <2>. QED BY <2>3, <2>4, <2>5
<1>. QED BY <1>1, <1>2

LEMMA KnownOf ==
  ASSUME NEW f \in [Remotes -> LocalResult]
  PROVE  UNION UNION {f[i] : i \in Remotes} \subseteq Addrs
  BY DEF LocalResult, None, Some

LEMMA HttpInit == Init => IInv
<1> SUFFICES ASSUME Init PROVE IInv
  OBVIOUS
<1>. USE HttpAssumption DEF Init
<1>1. TypeOK
  BY DEF TypeOK, LocalResult, None, Remotes
<1>. QED BY <1>1 DEF IInv, Budget, DiscardedOnlyLate, Watched, AnswerFresh, Covered, SteadyIsFound,
                Asking

LEMMA AskInv == ASSUME IInv, Ask PROVE IInv'
<1>1. TypeOK'
  BY HttpAssumption, KnownOf
     DEF IInv, TypeOK, Ask, AskWith, hostVars, Asking, LocalResult, None, Remotes, Known
<1>2. Budget' /\ DiscardedOnlyLate'
  BY HttpAssumption DEF Ask, AskWith, Budget, DiscardedOnlyLate, Asking, Remotes
<1>3. Watched' /\ AnswerFresh'
  BY DEF Ask, AskWith, hostVars, Watched, AnswerFresh, Asking, Known, None
<1>4. Covered' /\ SteadyIsFound'
  BY HttpAssumption DEF Ask, AskWith, hostVars, Covered, SteadyIsFound, Asking, Remotes
<1>. QED BY <1>1, <1>2, <1>3, <1>4 DEF IInv

\* The step to the next remote, for a result r that holds all it should.
LEMMA ProceedInv ==
  ASSUME IInv, phase \in Asking, NEW r \in LocalResult, Proceed(r),
         failed' \in SUBSET Remotes, failed \subseteq failed',
         UNION r \subseteq seen,
         \A i \in steady \ failed : Holds(i, result) => Holds(i, r),
         at \in steady \ failed' => Holds(at, r)
  PROVE  IInv'
<1>1. /\ at \in Remotes /\ N \in Nat /\ RequestLimit \in Nat /\ now \in Nat
      /\ now <= at * RequestLimit
  <2>1. at \in Remotes /\ spent <= RequestLimit /\ now <= (at - 1) * RequestLimit + spent
    BY DEF IInv, Budget
  <2>2. at - 1 \in Nat /\ at \in Nat
    BY <2>1, HttpAssumption DEF Remotes
  <2>3. ((at - 1) + 1) * RequestLimit = (at - 1) * RequestLimit + RequestLimit
        /\ (at - 1) * RequestLimit \in Nat
    BY <2>2, HttpAssumption, Times
  <2>4. (at - 1) + 1 = at
    BY <2>2
  <2>. QED BY <2>1, <2>2, <2>3, <2>4, HttpAssumption DEF IInv, TypeOK
<1>2. /\ UNCHANGED <<now, response, lxd, lxcUp, events, seen, steady>>
      /\ result' = r /\ spent' = 0 /\ at' = at + 1
      /\ \/ at # N /\ phase' = "connect" /\ answer' = answer
         \/ at = N /\ phase' = "answered" /\ answer' = r
  BY DEF Proceed, hostVars
<1>3. TypeOK'
  BY <1>1, <1>2 DEF IInv, TypeOK, Asking, Remotes
<1>4. Budget' /\ DiscardedOnlyLate'
  <2>1. at # N => at + 1 \in Remotes
    BY <1>1 DEF Remotes
  <2>2. now <= (at' - 1) * RequestLimit + spent'
    <3>1. at' - 1 = at
      BY <1>1, <1>2 DEF Remotes
    <3>2. at * RequestLimit \in Nat
      BY <1>1, Times DEF Remotes
    <3>. QED BY <1>1, <1>2, <3>1, <3>2
  <2>. QED BY <1>1, <1>2, <2>1, <2>2 DEF Budget, DiscardedOnlyLate, Asking
<1>5. Watched' /\ AnswerFresh'
  BY <1>2 DEF IInv, Watched, AnswerFresh, Known, Asking
<1>6. \A i \in steady \ failed' : i <= at => Holds(i, r)
  BY <1>1 DEF IInv, Covered, TypeOK, Remotes
<1>7. Covered'
  <2>. SUFFICES ASSUME NEW i \in steady \ failed', i < at'
                PROVE  Holds(i, result)'
    BY <1>2 DEF Covered
  <2>1. i <= at
    BY <1>1, <1>2 DEF IInv, TypeOK, Remotes
  <2>. QED BY <1>2, <1>6, <2>1 DEF Holds
<1>8. SteadyIsFound'
  <2>. SUFFICES ASSUME at = N, NEW i \in steady \ failed'
                PROVE  Holds(i, r)
    BY <1>2 DEF SteadyIsFound, Holds
  <2>1. i <= at
    BY <1>1 DEF IInv, TypeOK, Remotes
  <2>. QED BY <1>6, <2>1
<1>. QED BY <1>3, <1>4, <1>5, <1>7, <1>8 DEF IInv

LEMMA CompleteInv == ASSUME IInv, Complete PROVE IInv'
<1>1. /\ phase = "body" /\ phase \in Asking /\ Proceed(Merge(response)) /\ failed' = failed
      /\ response \in LocalResult /\ result \in LocalResult /\ failed \in SUBSET Remotes
  BY DEF Complete, Asking, IInv, TypeOK
<1>2. /\ Merge(response) \in LocalResult
      /\ UNION Merge(response) = (UNION result) \cup (UNION response)
      /\ response # None => Merge(response) # None
      /\ result # None => Merge(response) # None
  BY <1>1, MergeFacts
<1>3. UNION Merge(response) \subseteq seen
  BY <1>1, <1>2 DEF IInv, Watched
<1>4. \A i : Holds(i, result) => Holds(i, Merge(response))
  BY <1>2 DEF Holds
<1>5. at \in steady \ failed' => Holds(at, Merge(response))
  <2>. SUFFICES ASSUME at \in steady, NEW a \in response
                PROVE  Merge(response) # None /\ a \subseteq UNION Merge(response)
    BY <1>1 DEF Holds, IInv, Covered
  <2>1. response # None
    BY DEF None
  <2>. QED BY <1>2, <2>1
<1>. QED BY <1>1, <1>2, <1>3, <1>4, <1>5, ProceedInv

LEMMA FailInv == ASSUME IInv, Fail PROVE IInv'
<1>1. /\ phase \in Asking /\ Proceed(result) /\ failed' = failed \cup {at}
      /\ result \in LocalResult /\ failed' \in SUBSET Remotes
  BY DEF Fail, IInv, TypeOK, Budget
<1>2. UNION result \subseteq seen
  BY <1>1 DEF IInv, Watched
<1>. QED BY <1>1, <1>2, ProceedInv

LEMMA OuterInv == ASSUME IInv, OuterTimeout PROVE IInv'
<1>1. /\ phase \in Asking /\ phase' = "discarded" /\ now >= Outer
      /\ UNCHANGED <<at, spent, now, response, result, answer, failed, lxd, lxcUp, events,
                     seen, steady>>
  BY DEF OuterTimeout, hostVars
<1>2. at * RequestLimit >= Outer
  <2>1. at \in Remotes /\ spent <= RequestLimit /\ now <= (at - 1) * RequestLimit + spent
    BY <1>1 DEF IInv, Budget
  <2>2. at - 1 \in Nat /\ at \in Nat
    BY <2>1, HttpAssumption DEF Remotes
  <2>3. /\ ((at - 1) + 1) * RequestLimit = (at - 1) * RequestLimit + RequestLimit
        /\ (at - 1) * RequestLimit \in Nat
        /\ at * RequestLimit \in Nat
    BY <2>2, HttpAssumption, Times
  <2>4. (at - 1) + 1 = at
    BY <2>2
  <2>. QED BY <1>1, <2>1, <2>3, <2>4, HttpAssumption DEF IInv, TypeOK
<1>3. TypeOK'
  BY <1>1 DEF IInv, TypeOK
<1>. QED BY <1>1, <1>2, <1>3
         DEF IInv, Budget, DiscardedOnlyLate, Watched, AnswerFresh, Covered, SteadyIsFound,
             Asking

\* The steps between the sending of a request and its end.
LEMMA RequestInv == ASSUME IInv, Connected \/ Serve \/ Tick PROVE IInv'
<1>1. CASE Connected
  BY <1>1 DEF Connected, hostVars, IInv, TypeOK, Budget, DiscardedOnlyLate, Watched, Known, AnswerFresh,
              Covered, Holds, SteadyIsFound, Asking
<1>2. CASE Serve
  <2>1. at \in Remotes
    BY <1>2 DEF IInv, Budget, Serve, Asking
  <2>2. lxd[at] \in LocalResult /\ UNION lxd[at] \subseteq Known
    BY <2>1 DEF IInv, TypeOK, Known
  <2>3. Known \subseteq seen
    BY <1>2 DEF IInv, Watched, Serve, Asking
  <2>4. TypeOK' /\ Budget' /\ DiscardedOnlyLate'
    BY <1>2, <2>2 DEF Serve, hostVars, IInv, TypeOK, Budget, DiscardedOnlyLate, Asking
  <2>5. Watched' /\ AnswerFresh'
    BY <1>2, <2>2, <2>3 DEF Serve, hostVars, IInv, Watched, Known, AnswerFresh, Asking
  <2>6. Covered' /\ SteadyIsFound'
    BY <1>2 DEF Serve, hostVars, IInv, Covered, Holds, SteadyIsFound, Asking
  <2>. QED BY <2>4, <2>5, <2>6 DEF IInv
<1>3. CASE Tick
  <2>1. /\ phase \in Asking /\ spent < RequestLimit
        /\ now' = now + 1 /\ spent' = spent + 1
        /\ UNCHANGED <<phase, at, response, result, answer, failed, lxd, lxcUp, events,
                       seen, steady>>
    BY <1>3, HttpAssumption DEF Tick, Overdue, hostVars, IInv, TypeOK
  <2>2. TypeOK'
    BY <2>1 DEF IInv, TypeOK
  <2>3. Budget'
    <3>1. at \in Remotes /\ now <= (at - 1) * RequestLimit + spent
      BY <2>1 DEF IInv, Budget
    <3>2. at - 1 \in Nat
      BY <3>1, HttpAssumption DEF Remotes
    <3>3. (at - 1) * RequestLimit \in Nat
      BY <3>2, HttpAssumption, Times
    <3>4. now' <= (at - 1) * RequestLimit + spent' /\ spent' <= RequestLimit
      BY <2>1, <3>1, <3>3, HttpAssumption DEF IInv, TypeOK
    <3>. QED BY <2>1, <3>1, <3>4 DEF Budget, Asking
  <2>4. DiscardedOnlyLate' /\ Watched' /\ AnswerFresh' /\ Covered' /\ SteadyIsFound'
    BY <2>1 DEF IInv, DiscardedOnlyLate, Asking, Watched, Known, AnswerFresh, Covered, Holds, SteadyIsFound
  <2>. QED BY <2>2, <2>3, <2>4 DEF IInv
<1>. QED BY <1>1, <1>2, <1>3

LEMMA HostsInv ==
  ASSUME IInv, NEW i \in Remotes, InstanceChange(i) \/ LxcFails(i) \/ LxcRecovers(i)
  PROVE  IInv'
<1>1. CASE InstanceChange(i)
  <2>1. /\ UNCHANGED <<phase, at, spent, now, response, result, answer, failed, lxcUp>>
        /\ lxd' \in [Remotes -> LocalResult]
        /\ \A j \in Remotes \ {i} : lxd'[j] = lxd[j]
        /\ seen' = IF phase \in Asking THEN seen \cup Known' ELSE seen
        /\ steady' = steady \ {i}
        /\ events' = events + 1
    BY <1>1 DEF InstanceChange, Event, queryVars, IInv, TypeOK
  <2>2. Known' \subseteq Addrs
    <3>1. UNION UNION {lxd'[j] : j \in Remotes} \subseteq Addrs
      BY ONLY <2>1, KnownOf
    <3>. QED BY ONLY <3>1 DEF Known
  <2>3. TypeOK' /\ Budget' /\ DiscardedOnlyLate'
    BY <2>1, <2>2 DEF IInv, TypeOK, Budget, DiscardedOnlyLate
  <2>4. Watched' /\ AnswerFresh'
    BY <2>1 DEF IInv, Watched, AnswerFresh, Asking
  <2>5. Covered' /\ SteadyIsFound'
    BY <2>1 DEF IInv, TypeOK, Covered, Holds, SteadyIsFound
  <2>. QED BY <2>3, <2>4, <2>5 DEF IInv
<1>2. CASE LxcFails(i) \/ LxcRecovers(i)
  <2>1. /\ UNCHANGED <<phase, at, spent, now, response, result, answer, failed, lxd, seen,
                       steady>>
        /\ lxcUp' \in SUBSET Remotes /\ events' \in Nat
    BY <1>2 DEF LxcFails, LxcRecovers, Event, queryVars, IInv, TypeOK
  <2>. QED BY <2>1 DEF IInv, TypeOK, Budget, DiscardedOnlyLate, Watched, Known, AnswerFresh, Covered, Holds,
                       SteadyIsFound
<1>. QED BY <1>1, <1>2

LEMMA HttpStep == IInv /\ [Next]_vars => IInv'
<1> SUFFICES ASSUME IInv, [Next]_vars PROVE IInv'
  OBVIOUS
<1>1. CASE UNCHANGED vars
  BY <1>1 DEF vars, queryVars, hostVars, IInv, TypeOK, Budget, DiscardedOnlyLate, Watched, Known, AnswerFresh,
              Covered, Holds, SteadyIsFound
<1>. QED BY <1>1, AskInv, CompleteInv, FailInv, OuterInv, RequestInv, HostsInv DEF Next

LEMMA HttpInv == Spec => []IInv
  BY HttpInit, HttpStep, PTL DEF Spec

\* Every variable keeps its type, for all values of the constants.
THEOREM HttpTypeCorrect == Spec => []TypeOK
<1>1. IInv => TypeOK
  BY DEF IInv
<1>. QED BY <1>1, HttpInv, PTL

\* No address in an answer is one that no host reported during the lookup.
THEOREM HttpAnswersAreFresh == Spec => []AnswerFresh
<1>1. IInv => AnswerFresh
  BY DEF IInv
<1>. QED BY <1>1, HttpInv, PTL

\* A remote that keeps the instance and whose request works is in the answer.
THEOREM SteadyHostsFound == Spec => []SteadyIsFound
<1>1. IInv => SteadyIsFound
  BY DEF IInv
<1>. QED BY <1>1, HttpInv, PTL

\* The handler's limit only discards a lookup whose remotes may have used it up.
THEOREM OnlyLateDiscarded == Spec => []DiscardedOnlyLate
<1>1. IInv => DiscardedOnlyLate
  BY DEF IInv
<1>. QED BY <1>1, HttpInv, PTL
-----------------------------------------------------------------------------
(***************************************************************************)
(* The lookup implements Resolve.  Until it ends it has no answer; without *)
(* remotes there is nothing to know and nothing to answer, ever.           *)
(***************************************************************************)
Unanswered ==
  /\ phase \in Asking => answer = None
  /\ N = 0 => phase \notin Asking /\ seen = {} /\ answer = None

LEMMA UnansweredStep ==
  ASSUME Unanswered, [Next]_vars PROVE Unanswered'
<1>1. CASE Complete \/ Fail
  BY <1>1 DEF Complete, Fail, Proceed, Unanswered, Asking
<1>2. CASE Connected \/ Serve \/ OuterTimeout \/ Tick
  BY <1>2 DEF Connected, Serve, OuterTimeout, Tick, Unanswered, Asking
<1>5. CASE Ask
  BY <1>5, HttpAssumption DEF Ask, AskWith, Unanswered, Asking, Known, Remotes
<1>3. CASE UNCHANGED vars
  BY <1>3 DEF vars, queryVars, Unanswered
<1>4. ASSUME NEW i \in Remotes, InstanceChange(i) \/ LxcFails(i) \/ LxcRecovers(i)
      PROVE  Unanswered'
  <2>1. UNCHANGED queryVars /\ N # 0
    BY <1>4, HttpAssumption DEF InstanceChange, LxcFails, LxcRecovers, Remotes
  <2>. QED BY <2>1 DEF queryVars, Unanswered
<1>. QED BY <1>1, <1>2, <1>3, <1>4, <1>5 DEF Next

Askers == IF phase \in Asking THEN {"handler"} ELSE {}

PromiseStep == [Promise!Next]_(Promise!vars)

LEMMA StaysPromise ==
  ASSUME UNCHANGED <<Askers, seen, answer>> PROVE PromiseStep
  BY DEF PromiseStep, Askers, Promise!vars

LEMMA EndPromise ==
  ASSUME IInv', phase \in Asking, phase' \notin Asking, UNCHANGED seen,
         UNION answer' \subseteq seen
  PROVE  PromiseStep
<1>1. Promise!Answer("handler")
  BY DEF Promise!Answer
<1>. QED BY <1>1 DEF PromiseStep, Promise!Next

LEMMA ProceedPromise ==
  ASSUME IInv, IInv', phase \in Asking, NEW r, Proceed(r)
  PROVE  PromiseStep
<1>1. CASE at = N
  <2>1. phase' = "answered" /\ UNCHANGED seen
    BY <1>1 DEF Proceed
  <2>2. UNION answer' \subseteq seen
    BY <2>1 DEF IInv, AnswerFresh
  <2>. QED BY <2>1, <2>2, EndPromise DEF Asking
<1>2. CASE at # N
  BY <1>2, StaysPromise DEF Proceed, Askers, Asking
<1>. QED BY <1>1, <1>2

\* Every behaviour of the HTTPS deployment is one that Resolve allows.
THEOREM HttpKeepsPromise == Spec => ImplementsResolve
<1>1. Init => Promise!Init /\ Unanswered
  BY DEF Init, Promise!Init, Asking, None, Unanswered
<1>2. IInv /\ IInv' /\ Unanswered /\ [Next]_vars => PromiseStep
  <2>. SUFFICES ASSUME IInv, IInv', Unanswered, [Next]_vars PROVE PromiseStep
    OBVIOUS
  <2>1. CASE Ask
    <3>1. Known \in SUBSET Addrs
      BY <2>1 DEF Ask, AskWith, IInv, TypeOK
    <3>2. seen' = Known /\ answer' = None /\ UNION answer' = {} /\ phase \notin Asking
      BY <2>1 DEF Ask, AskWith, None
    <3>3. CASE N = 0
      <4>1. phase' \notin Asking /\ Known = {}
        BY <2>1, <3>3 DEF Ask, AskWith, Asking, Known, Remotes
      <4>. QED BY <3>2, <3>3, <4>1, StaysPromise DEF Unanswered, Askers
    <3>4. CASE N # 0
      <4>1. phase' \in Asking
        BY <2>1, <3>4, HttpAssumption DEF Ask, AskWith, Asking
      <4>2. Promise!Ask("handler")
        BY <3>1, <3>2, <4>1 DEF Promise!Ask
      <4>. QED BY <4>2 DEF PromiseStep, Promise!Next
    <3>. QED BY <3>3, <3>4
  <2>2. CASE Complete \/ Fail
    BY <2>2, ProceedPromise DEF Complete, Fail, Asking
  <2>3. CASE Connected \/ Serve \/ Tick
    BY <2>3, StaysPromise DEF Connected, Serve, Tick, Askers, Asking
  <2>4. CASE OuterTimeout
    <3>1. phase' = "discarded" /\ UNCHANGED <<answer, seen>> /\ phase \in Asking
      BY <2>4 DEF OuterTimeout
    <3>2. UNION answer' = {}
      BY <3>1 DEF Unanswered, None
    <3>. QED BY <3>1, <3>2, EndPromise DEF Asking
  <2>5. ASSUME NEW i \in Remotes, InstanceChange(i) PROVE PromiseStep
    <3>1. UNCHANGED <<Askers, answer>>
      BY <2>5 DEF InstanceChange, queryVars, Askers
    <3>2. seen' \in SUBSET Addrs
      BY DEF IInv, TypeOK
    <3>3. IF phase \in Asking THEN seen \subseteq seen' ELSE seen' = seen
      BY <2>5 DEF InstanceChange
    <3>4. Promise!Learn
      BY <3>1, <3>2, <3>3 DEF Promise!Learn, Askers
    <3>. QED BY <3>4 DEF PromiseStep, Promise!Next
  <2>6. ASSUME NEW i \in Remotes, LxcFails(i) \/ LxcRecovers(i) PROVE PromiseStep
    BY <2>6, StaysPromise DEF LxcFails, LxcRecovers, queryVars, Askers
  <2>7. CASE UNCHANGED vars
    BY <2>7, StaysPromise DEF vars, queryVars, Askers
  <2>. QED BY <2>1, <2>2, <2>3, <2>4, <2>5, <2>6, <2>7 DEF Next
<1>3. ImplementsResolve <=> Promise!Init /\ [][Promise!Next]_(Promise!vars)
  BY DEF ImplementsResolve, Promise!Spec
<1>. QED BY <1>1, <1>2, <1>3, UnansweredStep, HttpInit, HttpStep, PTL DEF Spec, PromiseStep
=============================================================================

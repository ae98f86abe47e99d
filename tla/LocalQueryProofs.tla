--------------------------- MODULE LocalQueryProofs ---------------------------
(***************************************************************************)
(* Proofs about LocalQuery for any instances, names and addresses.         *)
(***************************************************************************)
EXTENDS LocalQuery, SequenceTheorems, TLAPS

LOCAL INSTANCE SequencesExt

(***************************************************************************)
(* The inductive invariant.  The histories hold what there is now; an      *)
(* instance that was chosen matches the name, and is the only one while    *)
(* there are no others, so that its absence was the host's; and an         *)
(* instance of the very name is chosen if it has always existed.           *)
(***************************************************************************)
Recorded == /\ Outcomes \subseteq observed
            /\ OfWanted \subseteq exact
            /\ clear => Unambiguous
            /\ present => Wanted \in Existing

Chosen ==
  pc = "state" =>
    /\ chosen \in Matching(Instances)
    /\ clear => chosen \in Existing \/ None \in observed
    /\ present => chosen = Wanted

IInv == TypeOK /\ Recorded /\ Chosen /\ LooksAtomic /\ ExactWins
-----------------------------------------------------------------------------
(***************************************************************************)
(* The code's match and the histories' are the same.                       *)
(***************************************************************************)
LEMMA PrefixIsSubSeq ==
  ASSUME NEW a \in Seq(0..9), NEW b \in Seq(0..9)
  PROVE  IsPrefix(a, b) <=> \E k \in 0..Len(b) : SubSeq(b, 1, k) = a
<1>1. SubSeq(a, 1, Len(a)) = a /\ Len(a) \in Nat /\ Len(b) \in Nat
  BY LenProperties, SubSeqProperties
<1>2. \A k \in 0..Len(b) : Len(SubSeq(b, 1, k)) = k
  BY <1>1, SubSeqProperties
<1>3. ASSUME IsPrefix(a, b) PROVE Len(a) \in 0..Len(b) /\ SubSeq(b, 1, Len(a)) = a
  BY <1>1, <1>3 DEF IsPrefix
<1>4. ASSUME NEW k \in 0..Len(b), SubSeq(b, 1, k) = a PROVE IsPrefix(a, b)
  <2>1. Len(a) = k
    BY <1>2, <1>4
  <2>. QED BY <1>1, <1>4, <2>1 DEF IsPrefix
<1>. QED BY <1>3, <1>4

LEMMA MatchingAnswers == Matching(Existing) = Answering
<1>. SUFFICES ASSUME NEW i \in Instances
              PROVE  Exact(i) \/ PrefixMatch(i) <=>
                       /\ i.base = Wanted.base
                       /\ \E k \in 0..Len(i.digits) : SubSeq(i.digits, 1, k) = Wanted.digits
  BY DEF Matching, Existing, Answering
<1>1. i.digits \in Seq(0..9) /\ Wanted.digits \in Seq(0..9)
  BY NameAssumption
<1>2. IsPrefix(Wanted.digits, i.digits) <=>
        \E k \in 0..Len(i.digits) : SubSeq(i.digits, 1, k) = Wanted.digits
  BY <1>1, PrefixIsSubSeq
<1>3. Exact(i) => i.base = Wanted.base /\ IsPrefix(Wanted.digits, i.digits)
  BY <1>1, LenProperties DEF Exact, IsPrefix
<1>. QED BY <1>2, <1>3 DEF PrefixMatch

(***************************************************************************)
(* What is reported of a state is what can be seen of it, and well-formed. *)
(***************************************************************************)
LEMMA Reports ==
  ASSUME NEW s \in States
  PROVE  Report(s) = Visible(s) /\ Visible(s) \in LocalResult
<1>1. CASE s \in {Absent, Stopped}
  BY <1>1 DEF Report, Visible, Absent, Stopped, None, LocalResult
<1>2. ASSUME NEW n \in {None} \cup {Some(a) : a \in SUBSET Assigned}, s = Running(n)
      PROVE  Report(s) = Visible(s) /\ Visible(s) \in LocalResult
  <2>1. Report(s) = Visible(s)
    BY <1>2 DEF Report, Visible, Running, Global
  <2>2. n = None => Visible(s) \in LocalResult
    BY <1>2 DEF Visible, Running, None, LocalResult
  <2>3. ASSUME NEW a \in SUBSET Assigned, n = Some(a)
        PROVE  Visible(s) \in LocalResult
    <3>1. Visible(s) = {Global(a)}
      BY <1>2, <2>3 DEF Visible, Running, Some, Global
    <3>2. Global(a) \subseteq Addrs
      BY AddrAssumption DEF Global
    <3>. QED BY <3>1, <3>2 DEF LocalResult, Some
  <2>. QED BY <2>1, <2>2, <2>3
<1>. QED BY <1>1, <1>2 DEF States

LEMMA Histories ==
  ASSUME state \in [Instances -> States]
  PROVE  Outcomes \subseteq LocalResult /\ OfWanted \subseteq LocalResult
BY Reports DEF Outcomes, OfWanted, Answering, Existing, LocalResult

LEMMA LocalInit == Init => IInv
<1>. SUFFICES ASSUME Init PROVE IInv
  OBVIOUS
<1>1. TypeOK
  BY Histories DEF Init, TypeOK, LocalResult, Unambiguous
<1>. QED BY <1>1 DEF Init, IInv, Recorded, Chosen, LooksAtomic, ExactWins
-----------------------------------------------------------------------------
LEMMA StepList ==
  ASSUME IInv, List
  PROVE  IInv'
<1>. USE DEF IInv
<1>1. UNCHANGED <<state, observed, clear, exact, present>> /\ pc = "list"
  BY DEF List, histories
<1>2. Recorded'
  BY <1>1 DEF Recorded, Outcomes, OfWanted, Unambiguous, Existing, Answering
<1>3. CASE Matching(Existing) = {} /\ Return(None) /\ UNCHANGED chosen
  <2>1. pc' = "done" /\ result' = None
    BY <1>3 DEF Return
  <2>2. None \in observed
    BY <1>3, MatchingAnswers DEF Recorded, Outcomes
  <2>3. ~ present
    BY <1>3 DEF Recorded, Matching, Exact
  <2>4. TypeOK'
    BY <1>1, <1>3, <2>1 DEF TypeOK, LocalResult
  <2>. QED BY <1>1, <1>2, <2>1, <2>2, <2>3, <2>4 DEF Chosen, LooksAtomic, ExactWins
<1>4. CASE chosen' \in Picks(Existing) /\ pc' = "state" /\ UNCHANGED result
  <2>1. chosen' \in Matching(Existing) /\ chosen' \in Existing
    BY <1>4 DEF Picks, Matching, Exact
  <2>2. chosen' \in Matching(Instances) /\ chosen' \in Instances
    BY <2>1 DEF Matching, Existing
  <2>3. present => chosen' = Wanted
    BY <1>4 DEF Picks, Recorded
  <2>4. TypeOK'
    BY <1>1, <1>4, <2>2 DEF TypeOK
  <2>5. Chosen'
    BY <1>1, <1>4, <2>1, <2>2, <2>3 DEF Chosen, Existing, Matching, Exact, PrefixMatch
  <2>. QED BY <1>2, <1>4, <2>4, <2>5 DEF LooksAtomic, ExactWins
<1>. QED BY <1>3, <1>4 DEF List

LEMMA StepReadState ==
  ASSUME IInv, ReadState
  PROVE  IInv'
<1>. USE DEF IInv
<1>1. /\ UNCHANGED <<state, chosen, observed, clear, exact, present>>
      /\ pc = "state" /\ pc' = "done" /\ result' = Report(state[chosen])
  BY DEF ReadState, Return, histories
<1>2. Recorded' /\ Chosen'
  BY <1>1 DEF Recorded, Chosen, Outcomes, OfWanted, Unambiguous, Existing, Answering
<1>3. chosen \in Instances /\ state[chosen] \in States
  BY <1>1 DEF Chosen, Matching, TypeOK
<1>4. Report(state[chosen]) = Visible(state[chosen]) /\ result' \in LocalResult
  BY <1>1, <1>3, Reports
<1>5. TypeOK'
  BY <1>1, <1>4 DEF TypeOK
<1>6. ASSUME clear PROVE result' \in observed
  <2>1. CASE chosen \in Existing
    <3>1. chosen \in Answering
      BY <1>1, <2>1, MatchingAnswers DEF Chosen, Matching
    <3>. QED BY <1>1, <1>4, <3>1 DEF Recorded, Outcomes
  <2>2. CASE chosen \notin Existing
    <3>1. state[chosen] = Absent
      BY <1>3, <2>2 DEF Existing
    <3>2. Report(state[chosen]) = None
      BY <3>1 DEF Report, Absent, None
    <3>. QED BY <1>1, <1>6, <2>2, <3>2 DEF Chosen
  <2>. QED BY <2>1, <2>2
<1>7. ASSUME present PROVE result' \in exact
  BY <1>1, <1>3, <1>4, <1>7 DEF Chosen, Recorded, OfWanted
<1>. QED BY <1>1, <1>2, <1>5, <1>6, <1>7 DEF LooksAtomic, ExactWins

LEMMA StepCommandFails ==
  ASSUME IInv, CommandFails
  PROVE  IInv'
<1>. USE DEF IInv
<1>1. /\ UNCHANGED <<state, chosen, observed, clear, exact, present>>
      /\ pc' = "done" /\ result' = Failed
  BY DEF CommandFails, Return, histories
<1>2. Recorded' /\ Chosen'
  BY <1>1 DEF Recorded, Chosen, Outcomes, OfWanted, Unambiguous, Existing, Answering
<1>3. TypeOK'
  BY <1>1 DEF TypeOK
<1>. QED BY <1>1, <1>2, <1>3 DEF LooksAtomic, ExactWins

(***************************************************************************)
(* One instance changes at a time: when the chosen one goes, no other has  *)
(* come at the same moment.                                                *)
(***************************************************************************)
LEMMA StepChange ==
  ASSUME IInv, NEW i \in Instances, Change(i)
  PROVE  IInv'
<1>. USE DEF IInv
<1>1. /\ pc # "done" /\ UNCHANGED <<pc, chosen, result>>
      /\ observed' = observed \cup Outcomes' /\ exact' = exact \cup OfWanted'
      /\ clear' = (clear /\ Unambiguous') /\ present' = (present /\ Wanted \in Existing')
  BY DEF Change
<1>2. /\ state' \in [Instances -> States]
      /\ \A j \in Instances \ {i} : state'[j] = state[j]
  BY DEF Change, TypeOK
<1>3. Outcomes' \subseteq LocalResult /\ OfWanted' \subseteq LocalResult
  BY <1>2, Reports DEF Outcomes, OfWanted, Answering, Existing, LocalResult
<1>4. TypeOK'
  BY <1>1, <1>2, <1>3 DEF TypeOK
<1>5. Recorded'
  BY <1>1 DEF Recorded
<1>6. ASSUME pc = "state", clear, Unambiguous', chosen \in Existing, chosen \notin Existing'
      PROVE  None \in Outcomes'
  <2>1. chosen \in Answering
    BY <1>6, MatchingAnswers DEF Chosen, Matching
  <2>2. Answering = {chosen}
    BY <1>6, <2>1 DEF Recorded, Unambiguous
  <2>3. chosen = i
    BY <1>2, <1>6 DEF Existing
  <2>4. Answering' = {}
    BY <1>2, <1>6, <2>2, <2>3 DEF Answering, Existing
  <2>. QED BY <2>4 DEF Outcomes
<1>7. Chosen'
  BY <1>1, <1>6 DEF Chosen, Matching, Exact, PrefixMatch, None
<1>. QED BY <1>1, <1>4, <1>5, <1>7 DEF LooksAtomic, ExactWins

LEMMA LocalStep == IInv /\ [Next]_vars => IInv'
<1>. SUFFICES ASSUME IInv, [Next]_vars PROVE IInv'
  OBVIOUS
<1>1. CASE UNCHANGED vars
  BY <1>1 DEF vars, histories, IInv, TypeOK, Recorded, Chosen, LooksAtomic, ExactWins,
    Outcomes, OfWanted, Unambiguous, Existing, Answering
<1>. QED BY <1>1, StepList, StepReadState, StepCommandFails, StepChange DEF Next
-----------------------------------------------------------------------------
(***************************************************************************)
(* The state of a lookup on a host is well-formed, and its result an error *)
(* or an optional list of global addresses (lxd.rs:335-345).               *)
(***************************************************************************)
THEOREM LocalTypeCorrect == Spec => []TypeOK
<1>1. IInv => TypeOK
  BY DEF IInv
<1>. QED BY <1>1, LocalInit, LocalStep, PTL DEF Spec

(***************************************************************************)
(* The two commands look like one (lxd.rs:201, 290), for any instances     *)
(* that change in any way as long as only one matches at a time.           *)
(***************************************************************************)
THEOREM LocalLooksAtomic == Spec => []LooksAtomic
<1>1. IInv => LooksAtomic
  BY DEF IInv
<1>. QED BY <1>1, LocalInit, LocalStep, PTL DEF Spec

(***************************************************************************)
(* The instance of the very name is the one reported (lxd.rs:267), for any *)
(* others that match.                                                      *)
(***************************************************************************)
THEOREM LocalExactWins == Spec => []ExactWins
<1>1. IInv => ExactWins
  BY DEF IInv
<1>. QED BY <1>1, LocalInit, LocalStep, PTL DEF Spec
=============================================================================

----------------------------- MODULE HttpResolve -----------------------------
(***************************************************************************)
(* The HTTPS deployment: one lookup of RemoteQuery.remote_query            *)
(* (src/http/query.rs) under the handler's limit (src/pdns_io.rs) against  *)
(* the responders of the hosts (src/http/responder.rs), while instances    *)
(* come and go and the lxc command fails.  The remotes are asked one after *)
(* the other: a request is sent when the one before it has ended.          *)
(*                                                                         *)
(* Time is a number of units of a size the model leaves open; the steps    *)
(* of the code take none, it passes while a remote is waited for.          *)
(***************************************************************************)
EXTENDS Lxd, Integers, FiniteSets

CONSTANTS
  N,              \* number of remotes configured
  ConnectLimit,   \* connect_timeout of the client (500 ms)
  RequestLimit,   \* timeout of the client, for a whole request (1500 ms)
  Outer,          \* limit of the handler (4500 ms)
  MaxEvents       \* bound of the model: external events in a behaviour

ASSUME HttpAssumption ==
  /\ N \in Nat /\ ConnectLimit \in Nat /\ RequestLimit \in Nat /\ Outer \in Nat
  /\ MaxEvents \in Nat

Remotes == 1..N

VARIABLES
  phase,      \* where the lookup is
  at,         \* the remote asked, or to be asked next
  spent,      \* time since its request began
  now,        \* time since the lookup began
  response,   \* its responder's answer, on the way back
  result,     \* Option: addresses merged so far
  answer,     \* Option: what the lookup returned to the handler
  lxd,        \* lxd[i]: what local_query returns on remote i now (external)
  lxcUp,      \* the remotes where the lxc command works now (external)
  seen,       \* history: addresses of the container since the lookup began
  steady,     \* history: remotes whose LXD did not change since then
  failed,     \* history: remotes whose request failed in this lookup
  events      \* external events so far

queryVars == <<phase, at, spent, now, response, result, answer, failed>>

hostVars == <<lxd, lxcUp, events>>

vars == <<queryVars, hostVars, seen, steady>>

(***************************************************************************)
(* connect: reaching the remote; serve: its responder looks the name up;   *)
(* body, error: Ok or InternalServerError is on its way.  The other phases *)
(* are the handler's: before the first lookup, and after one that was      *)
(* answered or discarded.                                                  *)
(***************************************************************************)
Asking == {"connect", "serve", "body", "error"}

Init ==
  /\ phase = "idle"
  /\ at = 1 /\ spent = 0 /\ now = 0
  /\ response = None /\ result = None /\ answer = None
  /\ lxd \in [Remotes -> LocalResult]
  /\ lxcUp = Remotes
  /\ seen = {} /\ steady = {} /\ failed = {}
  /\ events = 0

Known == UNION UNION {lxd[i] : i \in Remotes}

AskWith(r) ==
  /\ phase \notin Asking
  /\ phase' = IF N > 0 THEN "connect" ELSE "answered"
  /\ at' = 1 /\ spent' = 0 /\ now' = 0
  /\ result' = r
  /\ answer' = None
  /\ failed' = {}
  /\ seen' = Known
  /\ steady' = Remotes
  /\ UNCHANGED <<response, hostVars>>

AskKeeps == AskWith(result)   \* mistake: the addresses of the lookup before stay

\* The handler calls remote_query, which sends to the first remote; without
\* any remote configured it returns None at once.
Ask == AskWith(None)

Connected ==
  /\ phase = "connect"
  /\ phase' = "serve"
  /\ UNCHANGED <<at, spent, now, response, result, answer, failed, hostVars, seen, steady>>

\* The resolve handler of the remote: local_query, and NoMatch, AnyMatch or
\* InternalServerError for its outcome.
Serve ==
  /\ phase = "serve"
  /\ \/ at \in lxcUp /\ phase' = "body" /\ response' = lxd[at]
     \/ at \notin lxcUp /\ phase' = "error" /\ UNCHANGED response
  /\ UNCHANGED <<at, spent, now, result, answer, failed, hostVars, seen, steady>>

\* The stream moves to the next remote; after the last one r is returned.
Proceed(r) ==
  /\ result' = r
  /\ spent' = 0
  /\ at' = at + 1
  /\ IF at = N THEN phase' = "answered" /\ answer' = r
               ELSE phase' = "connect" /\ UNCHANGED answer
  /\ UNCHANGED <<now, response, hostVars, seen, steady>>

MergeApart(r) == result \cup r   \* mistake: matches are not joined

MergeLast(r) == IF r = None THEN result ELSE r   \* mistake: a match replaces

Merge(r) ==
  IF r = None THEN result ELSE Some((UNION result) \cup (UNION r))

Complete ==
  /\ phase = "body"
  /\ Proceed(Merge(response))
  /\ UNCHANGED failed

\* An error status, a refused or broken connection, a body that is no
\* ApiResponse, or one of the client's timeouts: the remote is skipped.
Fail ==
  /\ phase \in Asking
  /\ Proceed(result)
  /\ failed' = failed \cup {at}

OverdueNever == FALSE   \* mistake: the client has no timeouts

Overdue == spent >= RequestLimit \/ (phase = "connect" /\ spent >= ConnectLimit)

\* The handler's limit: the future is dropped with what it merged.
OuterTimeout ==
  /\ phase \in Asking
  /\ now >= Outer
  /\ phase' = "discarded"
  /\ UNCHANGED <<at, spent, now, response, result, answer, failed, hostVars, seen, steady>>

Tick ==
  /\ phase \in Asking
  /\ ~ Overdue
  /\ now < Outer
  /\ now' = now + 1
  /\ spent' = spent + 1
  /\ UNCHANGED <<phase, at, response, result, answer, failed, hostVars, seen, steady>>

(***************************************************************************)
(* External events.                                                        *)
(***************************************************************************)
Event ==
  /\ events < MaxEvents
  /\ events' = events + 1

\* An instance starts, stops, moves or changes its addresses on remote i.
InstanceChange(i) ==
  /\ Event
  /\ \E a \in LocalResult \ {lxd[i]} : lxd' = [lxd EXCEPT ![i] = a]
  /\ seen' = IF phase \in Asking THEN seen \cup Known' ELSE seen
  /\ steady' = steady \ {i}
  /\ UNCHANGED <<queryVars, lxcUp>>

LxcFails(i) ==
  /\ Event
  /\ i \in lxcUp
  /\ lxcUp' = lxcUp \ {i}
  /\ UNCHANGED <<queryVars, lxd, seen, steady>>

LxcRecovers(i) ==
  /\ i \notin lxcUp
  /\ lxcUp' = lxcUp \cup {i}
  /\ UNCHANGED <<queryVars, lxd, events, seen, steady>>

Next ==
  \/ Ask \/ Connected \/ Serve \/ Complete \/ Fail \/ OuterTimeout \/ Tick
  \/ \E i \in Remotes : InstanceChange(i) \/ LxcFails(i) \/ LxcRecovers(i)

Spec == Init /\ [][Next]_vars
-----------------------------------------------------------------------------
TypeOK ==
  /\ phase \in {"idle", "answered", "discarded"} \cup Asking
  /\ at \in 1..(N + 1)
  /\ spent \in Nat
  /\ now \in Nat
  /\ response \in LocalResult
  /\ result \in LocalResult
  /\ answer \in LocalResult
  /\ lxd \in [Remotes -> LocalResult]
  /\ lxcUp \in SUBSET Remotes
  /\ seen \in SUBSET Addrs
  /\ steady \in SUBSET Remotes
  /\ failed \in SUBSET Remotes
  /\ events \in Nat

(***************************************************************************)
(* An answer is fresh: every address in it was reported by some host for   *)
(* the container at some moment since the lookup began, although a remote  *)
(* may have been asked long before the answer is given.                    *)
(***************************************************************************)
AnswerFresh == phase = "answered" => UNION answer \subseteq seen

(***************************************************************************)
(* The lookup does what Resolve promises, with one asker: an answer is     *)
(* given once and stays, made of what was known since the question.        *)
(***************************************************************************)
Promise == INSTANCE Resolve WITH
  Askers <- {"handler"},
  asking <- IF phase \in Asking THEN {"handler"} ELSE {},
  known  <- [c \in {"handler"} |-> seen],
  answer <- [c \in {"handler"} |-> UNION answer]

ImplementsResolve == Promise!Spec

(***************************************************************************)
(* A host that runs the instance throughout the lookup is in the answer    *)
(* with all its addresses, unless the request to it failed: asking the     *)
(* remotes in turn misses or doubles instances that move, never ones that  *)
(* stay.                                                                   *)
(***************************************************************************)
SteadyIsFound ==
  phase = "answered" =>
    \A i \in steady \ failed :
      \A a \in lxd[i] : answer # None /\ a \subseteq UNION answer

(***************************************************************************)
(* The handler's limit discards a lookup only where the remotes asked so   *)
(* far may have taken all of it: of 1500 ms each, the third one or a later *)
(* one.  A list of two is never cut off, however many remotes hang.        *)
(***************************************************************************)
DiscardedOnlyLate == phase = "discarded" => at * RequestLimit >= Outer

(***************************************************************************)
(* src/pdns.rs:193 promises a AAAA for a container that exists, NXDOMAIN   *)
(* only when it does not: addresses that were received should be answered. *)
(***************************************************************************)
FoundIsAnswered == phase = "discarded" => UNION result = {}
=============================================================================

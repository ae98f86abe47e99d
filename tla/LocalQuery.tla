------------------------------ MODULE LocalQuery ------------------------------
(***************************************************************************)
(* local_query (src/lxd.rs): one lookup on a host, made of two lxc         *)
(* commands with the instances of the host changing in between.  The first *)
(* lists the instances, of which one is chosen; the second reads its state *)
(* by name.                                                                *)
(***************************************************************************)
EXTENDS Lxd, Naturals, Sequences

LOCAL INSTANCE SequencesExt

CONSTANTS
  Instances,   \* instance names a host can have, as [base, digits] records
  Wanted,      \* the name asked for, one of the same kind
  Assigned     \* addresses an instance can have, with family and scope

ASSUME NameAssumption ==
  \A i \in Instances \cup {Wanted} :
    i = [base |-> i.base, digits |-> i.digits] /\ i.digits \in Seq(0..9)

ASSUME AddrAssumption ==
  \A x \in Assigned : x.scope = "global" /\ x.family = "inet6" => x.addr \in Addrs

(***************************************************************************)
(* A name is cut before its trailing digits.  An instance matches when its *)
(* name is the one asked for, or that name followed by digits.             *)
(***************************************************************************)
Exact(i) == i = Wanted

PrefixMatchLoose(i) == i.base = Wanted.base   \* mistake: any trailing digits

PrefixMatch(i) ==
  ~ Exact(i) /\ i.base = Wanted.base /\ IsPrefix(Wanted.digits, i.digits)

Matching(S) == {i \in S : Exact(i) \/ PrefixMatch(i)}

(***************************************************************************)
(* The exact match if there is one, else the first of the others; the      *)
(* order of the listing is LXD's.                                          *)
(***************************************************************************)
PicksAny(S) == Matching(S)   \* mistake: the first match is taken

Picks(S) == IF Wanted \in S THEN {Wanted} ELSE Matching(S)

(***************************************************************************)
(* The state of an instance on the host: it does not exist, or does not    *)
(* run, or runs without a network section, or runs with these addresses.   *)
(***************************************************************************)
Absent == [status |-> "absent", network |-> None]

Stopped == [status |-> "stopped", network |-> None]

Running(network) == [status |-> "Running", network |-> network]

States ==
  {Absent, Stopped} \cup {Running(n) : n \in {None} \cup {Some(a) : a \in SUBSET Assigned}}

Global(a) == {x.addr : x \in {y \in a : y.scope = "global" /\ y.family = "inet6"}}

ReportUnfiltered(s) == {{x.addr : x \in a} : a \in s.network}   \* mistake: all addresses

\* What the second command makes of the state it finds.
Report(s) == {Global(a) : a \in s.network}

VARIABLES
  state,     \* state[i]: the instance i on this host (external)
  pc,        \* list, state: the command waited for; done
  chosen,    \* the instance whose state is read
  result,    \* Option, or a set with Err
  observed,  \* history: what a lookup in no time would have returned so far
  clear,     \* history: at most one instance has matched at any moment
  exact,     \* history: what there was to report of Wanted itself so far
  present    \* history: Wanted has existed at every moment

histories == <<observed, clear, exact, present>>

vars == <<state, pc, chosen, result, histories>>

Failed == {{"err"}}   \* Err: a command failed, or its output did not parse

Existing == {i \in Instances : state[i] # Absent}

(***************************************************************************)
(* What the histories record, stated without the operators of the code.    *)
(***************************************************************************)
Visible(s) ==
  {{x.addr : x \in {y \in a : y.scope = "global" /\ y.family = "inet6"}} :
     a \in IF s.status = "Running" THEN s.network ELSE None}

Answering ==
  {i \in Existing : /\ i.base = Wanted.base
                    /\ \E k \in 0..Len(i.digits) : SubSeq(i.digits, 1, k) = Wanted.digits}

Outcomes ==
  IF Answering = {} THEN {None} ELSE {Visible(state[i]) : i \in Answering}

Unambiguous == \A i, j \in Answering : i = j

OfWanted == IF Wanted \in Instances THEN {Visible(state[Wanted])} ELSE {}

Init ==
  /\ state \in [Instances -> States]
  /\ pc = "list"
  /\ chosen = Wanted
  /\ result = None
  /\ observed = Outcomes
  /\ clear = Unambiguous
  /\ exact = OfWanted
  /\ present = (Wanted \in Existing)

Return(r) == pc' = "done" /\ result' = r

(***************************************************************************)
(* The listing comes back: no match ends the lookup.                       *)
(***************************************************************************)
List ==
  /\ pc = "list"
  /\ \/ /\ Matching(Existing) = {}
        /\ Return(None)
        /\ UNCHANGED chosen
     \/ /\ chosen' \in Picks(Existing)
        /\ pc' = "state"
        /\ UNCHANGED result
  /\ UNCHANGED <<state, histories>>

(***************************************************************************)
(* The state comes back; an instance that is gone by now is "not found",   *)
(* which is None like one that does not run.                               *)
(***************************************************************************)
ReadState ==
  /\ pc = "state"
  /\ Return(Report(state[chosen]))
  /\ UNCHANGED <<state, chosen, histories>>

CommandFails ==
  /\ pc \in {"list", "state"}
  /\ Return(Failed)
  /\ UNCHANGED <<state, chosen, histories>>

\* An instance is created, deleted, started or stopped, or its network changes.
Change(i) ==
  /\ pc # "done"
  /\ \E s \in States \ {state[i]} : state' = [state EXCEPT ![i] = s]
  /\ observed' = observed \cup Outcomes'
  /\ clear' = (clear /\ Unambiguous')
  /\ exact' = exact \cup OfWanted'
  /\ present' = (present /\ Wanted \in Existing')
  /\ UNCHANGED <<pc, chosen, result>>

Next == List \/ ReadState \/ CommandFails \/ \E i \in Instances : Change(i)

Spec == Init /\ [][Next]_vars
-----------------------------------------------------------------------------
TypeOK ==
  /\ state \in [Instances -> States]
  /\ pc \in {"list", "state", "done"}
  /\ chosen \in Instances \cup {Wanted}
  /\ result \in {Failed} \cup LocalResult
  /\ observed \in SUBSET LocalResult
  /\ exact \in SUBSET LocalResult
  /\ clear \in BOOLEAN /\ present \in BOOLEAN

(***************************************************************************)
(* The two commands together look like one: as long as no two instances of *)
(* the host match the name at a time ("this assumes that all matches are   *)
(* either exact or there is only one local instance matching",             *)
(* lxd.rs:265), a result is one that a lookup in no time would have given  *)
(* at some moment since the call.  The responders are modelled on it.      *)
(***************************************************************************)
LooksAtomic == pc = "done" /\ clear => result \in observed \cup {Failed}

(***************************************************************************)
(* An instance that has the very name asked for, and keeps it, is the one  *)
(* reported, however many others match and come and go.                    *)
(***************************************************************************)
ExactWins == pc = "done" /\ present => result \in exact \cup {Failed}

(***************************************************************************)
(* lxd.rs:189 documents Ok(None) for an instance that was not found        *)
(* locally, a list of addresses, possibly empty, for one that was found.   *)
(***************************************************************************)
FoundIsSome ==
  pc = "done" /\ result = None /\ chosen \in Instances => state[chosen] = Absent
=============================================================================

-------------------------------- MODULE Resolve --------------------------------
(***************************************************************************)
(* What a lookup promises, whatever the backend (trait RemoteQuery and its *)
(* caller, src/pdns_io.rs): one answer to each question, made of addresses *)
(* some host had for the container meanwhile, possibly of none; or no      *)
(* answer because the process ends.  Which addresses are known when is up  *)
(* to the hosts.                                                           *)
(***************************************************************************)
CONSTANTS
  Askers,   \* those that ask, each one question at a time
  Addrs     \* global IPv6 addresses

VARIABLES
  asking,   \* those with a question that is not answered
  known,    \* known[c]: what was known since c asked, until its answer
  answer    \* answer[c]: the answer to c's last question, or nothing yet

vars == <<asking, known, answer>>

Init ==
  /\ asking = {}
  /\ known = [c \in Askers |-> {}]
  /\ answer = [c \in Askers |-> {}]

Ask(c) ==
  /\ c \notin asking
  /\ asking' = asking \cup {c}
  /\ \E k \in SUBSET Addrs : known' = [known EXCEPT ![c] = k]
  /\ answer' = [answer EXCEPT ![c] = {}]

\* The hosts come to know more, for any of the containers asked for.
Learn ==
  /\ known' \in [Askers -> SUBSET Addrs]
  /\ \A c \in asking : known[c] \subseteq known'[c]
  /\ \A c \in Askers \ asking : known'[c] = known[c]
  /\ UNCHANGED <<asking, answer>>

Answer(c) ==
  /\ c \in asking
  /\ asking' = asking \ {c}
  /\ \E a \in SUBSET known[c] : answer' = [answer EXCEPT ![c] = a]
  /\ UNCHANGED known

Abandon ==
  /\ asking' = {}
  /\ UNCHANGED <<known, answer>>

Next ==
  \/ \E c \in Askers : Ask(c) \/ Answer(c)
  \/ Learn
  \/ Abandon

Spec == Init /\ [][Next]_vars
=============================================================================

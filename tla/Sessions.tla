------------------------------- MODULE Sessions -------------------------------
(***************************************************************************)
(* PowerDNS's conversations with one socket server (Unix.run of            *)
(* src/amqp/unix.rs and src/http/unix.rs, PdnsStreamHandler.run of         *)
(* src/pdns_io.rs) in time.  The server answers a line within Limit;       *)
(* PowerDNS waits Patience for it, then closes the connection, opens one   *)
(* more and asks again.  The handler of the closed connection does not     *)
(* watch it while it looks up, and keeps its slot.                         *)
(*                                                                         *)
(* Time is a number of units of a size the model leaves open.  Opening a   *)
(* handler takes none: over AMQP this supposes a broker that declares a    *)
(* queue at once.                                                          *)
(***************************************************************************)
EXTENDS Integers, Sequences, FiniteSets

CONSTANTS
  Clients,    \* backend instances of PowerDNS, each with one connection
  Slots,      \* the handlers that may run at once (unix_workers)
  Limit,      \* limit of a lookup (4500 ms)
  Patience,   \* timeout of PowerDNS (5000 ms)
  Backlog,    \* connections that may wait to be accepted
  MaxEvents,  \* bound of the model: times PowerDNS goes in the middle of a lookup
  Nobody,     \* the client of a connection that PowerDNS has closed
  Free        \* a slot without a handler

ASSUME SessionsAssumption ==
  /\ Limit \in Nat /\ Patience \in Nat /\ Backlog \in Nat /\ MaxEvents \in Nat
  /\ Limit < Patience
  /\ Nobody \notin Clients
  /\ IsFiniteSet(Clients) /\ IsFiniteSet(Slots)

(***************************************************************************)
(* A connection: who has its other end, and whether a line was written to  *)
(* it that is not answered.  Its handler has spent some time on that line. *)
(***************************************************************************)
Connection == [by : Clients \cup {Nobody}, asked : BOOLEAN, spent : 0..Limit]

ASSUME FreeAssumption == Free \notin Connection

VARIABLES
  backlog,   \* connections not accepted yet, in their order
  slots,     \* slots[s]: the connection whose handler has slot s, or Free
  waited,    \* waited[k]: for how long k has waited for an answer, if it does
  events,    \* times PowerDNS has gone in the middle of a lookup
  roomy      \* history: there was a slot for everybody since a calm moment

vars == <<backlog, slots, waited, events, roomy>>

Init ==
  /\ backlog = <<>>
  /\ slots = [s \in Slots |-> Free]
  /\ waited = [k \in Clients |-> 0]
  /\ events = 0
  /\ roomy = TRUE

Busy == {s \in Slots : slots[s] # Free}

Open == {backlog[i] : i \in DOMAIN backlog} \cup {slots[s] : s \in Busy}

Connected == {k \in Clients : \E c \in Open : c.by = k}

Asking == {k \in Clients : \E c \in Open : c.by = k /\ c.asked}

Room == Cardinality(Connected) <= Cardinality(Slots)

\* Nothing is left of an overload: each line not answered was just written.
Calm ==
  /\ Room
  /\ \A c \in Open : c.asked => c.by \in Clients /\ waited[c.by] = 0

Asked(c) == [c EXCEPT !.asked = TRUE]

Left(c) == [c EXCEPT !.by = Nobody]

\* The connection of k, wherever it is, becomes F of it.
Update(k, F(_)) ==
  /\ backlog' = [i \in DOMAIN backlog |->
                   IF backlog[i].by = k THEN F(backlog[i]) ELSE backlog[i]]
  /\ slots' = [s \in Slots |->
                 IF s \in Busy /\ slots[s].by = k THEN F(slots[s]) ELSE slots[s]]
-----------------------------------------------------------------------------
(***************************************************************************)
(* PowerDNS.                                                               *)
(***************************************************************************)
Connect(k) ==
  /\ k \notin Connected
  /\ Len(backlog) < Backlog
  /\ backlog' = Append(backlog, [by |-> k, asked |-> FALSE, spent |-> 0])
  /\ roomy' = (roomy /\ Cardinality(Connected) < Cardinality(Slots))
  /\ UNCHANGED <<slots, waited, events>>

Write(k) ==
  /\ k \in Connected \ Asking
  /\ Update(k, Asked)
  /\ waited' = [waited EXCEPT ![k] = 0]
  /\ UNCHANGED <<events, roomy>>

Close(k) ==
  /\ Update(k, Left)
  /\ waited' = [waited EXCEPT ![k] = 0]

GiveUp(k) ==
  /\ k \in Asking
  /\ waited[k] >= Patience
  /\ Close(k)
  /\ UNCHANGED <<events, roomy>>

HangUp(k) ==
  /\ k \in Connected \ Asking
  /\ Close(k)
  /\ roomy' = (roomy \/ Calm')
  /\ UNCHANGED events

\* PowerDNS is stopped, or started anew, with a line not answered.
Restart(k) ==
  /\ k \in Asking
  /\ events < MaxEvents
  /\ Close(k)
  /\ events' = events + 1
  /\ roomy' = FALSE
-----------------------------------------------------------------------------
(***************************************************************************)
(* The server.                                                             *)
(***************************************************************************)
Accept(s) ==
  /\ slots[s] = Free
  /\ backlog # <<>>
  /\ slots' = [slots EXCEPT ![s] = Head(backlog)]
  /\ backlog' = Tail(backlog)
  /\ UNCHANGED <<waited, events, roomy>>

\* The lookup returns, or its limit has passed, and the answer is written: to
\* nobody the write fails, and the handler ends.
Answer(s) ==
  /\ s \in Busy
  /\ slots[s].asked
  /\ slots' = [slots EXCEPT ![s] =
       IF @.by = Nobody THEN Free ELSE [@ EXCEPT !.asked = FALSE, !.spent = 0]]
  /\ waited' = [k \in Clients |-> IF k = slots[s].by THEN 0 ELSE waited[k]]
  /\ UNCHANGED <<backlog, events>>
  /\ roomy' = (roomy \/ Calm')

Ended(c) == c.by = Nobody /\ ~ c.asked

\* The handler reads the end of its input.
Ends(s) ==
  /\ s \in Busy
  /\ Ended(slots[s])
  /\ slots' = [slots EXCEPT ![s] = Free]
  /\ UNCHANGED <<backlog, waited, events, roomy>>

\* mistake: the limit is PowerDNS's own
TimesOutLate(c) == c.asked /\ c.spent >= Patience

TimesOut(c) == c.asked /\ c.spent >= Limit

(***************************************************************************)
(* Time passes only when the server has nothing to do but wait for lookups *)
(* and lines, and nobody's patience is at its end.                         *)
(***************************************************************************)
Tick ==
  /\ backlog = <<>> \/ Busy = Slots
  /\ \A s \in Busy : ~ TimesOut(slots[s]) /\ ~ Ended(slots[s])
  /\ \A k \in Asking : waited[k] < Patience
  /\ slots' = [s \in Slots |->
       IF s \in Busy /\ slots[s].asked THEN [slots[s] EXCEPT !.spent = @ + 1]
                                       ELSE slots[s]]
  /\ waited' = [k \in Clients |-> IF k \in Asking THEN waited[k] + 1 ELSE waited[k]]
  /\ UNCHANGED <<backlog, events, roomy>>

ServerStep(s) == Accept(s) \/ Answer(s) \/ Ends(s)

Next ==
  \/ \E k \in Clients : Connect(k) \/ Write(k) \/ GiveUp(k) \/ HangUp(k) \/ Restart(k)
  \/ \E s \in Slots : ServerStep(s)
  \/ Tick

Spec == Init /\ [][Next]_vars
-----------------------------------------------------------------------------
TypeOK ==
  /\ backlog \in Seq(Connection) /\ Len(backlog) <= Backlog
  /\ slots \in [Slots -> Connection \cup {Free}]
  /\ waited \in [Clients -> 0..Patience]
  /\ events \in 0..MaxEvents
  /\ roomy \in BOOLEAN

(***************************************************************************)
(* With a slot for everybody PowerDNS never gives up: as long as it has at *)
(* most unix_workers connections and does not go in the middle of a        *)
(* lookup, each line is taken up at once and answered in time, however     *)
(* long lookups take and however often connections are opened and closed   *)
(* (unix.rs:91, pdns_io.rs:132).  The same holds again after an overload,  *)
(* from the first moment on at which nothing is left of it.                *)
(***************************************************************************)
PromptWhenRoomy == [][roomy => \A k \in Clients : ~ GiveUp(k)]_vars

(***************************************************************************)
(* An overload passes: lookups PowerDNS has given up keep their slots, so  *)
(* that the next ones start late and may be given up, too; yet once there  *)
(* are no more connections than slots, from some time on nobody gives up,  *)
(* although every lookup may take all its time.                            *)
(***************************************************************************)
Recovers ==
  <>[]Room =>
    <>[][\A k \in Clients : ~ GiveUp(k)]_vars
=============================================================================

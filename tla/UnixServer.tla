------------------------------ MODULE UnixServer ------------------------------
(***************************************************************************)
(* The socket servers PowerDNS connects to (src/amqp/unix.rs and           *)
(* src/http/unix.rs, Unix.run): several processes that were given one path *)
(* start, serve and end in any order.  A process connects to the broker,   *)
(* if its backend has one, looks at what is at the path, removes a socket  *)
(* it takes for stale, binds its own, and serves the connections it        *)
(* accepts, at most Workers at a time.  remove_file at the end of run is   *)
(* never reached: the stream of connections has no end, and an error       *)
(* leaves run before it.                                                   *)
(***************************************************************************)
EXTENDS Naturals, Sequences, FiniteSets

CONSTANTS
  Procs,     \* server processes with the same --socket path
  Clients,   \* connections PowerDNS can hold; each can be opened again
  Workers,   \* unix_workers; 0 means no limit
  Broker     \* whether the backend has a broker, whose errors end the server

ASSUME ServerAssumption == Workers \in Nat /\ Broker \in BOOLEAN

(***************************************************************************)
(* What can be at the path besides a process' own socket.                  *)
(***************************************************************************)
CONSTANTS
  Nothing,   \* no file
  Leftover,  \* a socket of an earlier run
  PlainFile  \* something that is no socket

ASSUME PathAssumption ==
  /\ {Nothing, Leftover, PlainFile} \cap Procs = {}
  /\ Cardinality({Nothing, Leftover, PlainFile}) = 3

VARIABLES
  path,      \* what is at the path
  pc,        \* pc[p]: the await p is at, or off
  backlog,   \* backlog[p]: connections p has not accepted, in their order
  slots,     \* slots[p]: connections p has a handler for
  hungUp,    \* connections PowerDNS has closed and the server has not
  batch      \* history: the processes started since all were last down; empty
             \* once one of them has ended that had looked at the path

vars == <<path, pc, backlog, slots, hungUp, batch>>

Init ==
  /\ path \in {Nothing, Leftover, PlainFile}
  /\ pc = [p \in Procs |-> "off"]
  /\ backlog = [p \in Procs |-> <<>>]
  /\ slots = [p \in Procs |-> {}]
  /\ hungUp = {}
  /\ batch = {}

Goto(p, label) == pc' = [pc EXCEPT ![p] = label]

Up(p) == pc[p] \notin {"off", "refused"}

Waiting(p) == {backlog[p][i] : i \in 1..Len(backlog[p])}

Held(p) == Waiting(p) \cup slots[p]

Attached == UNION {Held(p) : p \in Procs}

-----------------------------------------------------------------------------
(***************************************************************************)
(* Starting: Connection::connect, metadata, remove_file, bind.             *)
(***************************************************************************)
Start(p) ==
  /\ ~ Up(p)
  /\ Goto(p, IF Broker THEN "connect" ELSE "check")
  /\ batch' = IF \A q \in Procs : ~ Up(q) THEN {p}
              ELSE IF batch = {} THEN {} ELSE batch \cup {p}
  /\ UNCHANGED <<path, backlog, slots, hungUp>>

Connected(p) ==
  /\ pc[p] = "connect"
  /\ Goto(p, "check")
  /\ UNCHANGED <<path, backlog, slots, hungUp, batch>>

\* mistake: a socket at the path is left where it is
CheckLeaves(p) ==
  /\ pc[p] = "check"
  /\ Goto(p, IF path = PlainFile THEN "refused" ELSE "bind")
  /\ UNCHANGED <<path, backlog, slots, hungUp, batch>>

\* What is no socket ends the start.
Check(p) ==
  /\ pc[p] = "check"
  /\ \/ path = Nothing /\ Goto(p, "bind")
     \/ path = PlainFile /\ Goto(p, "refused")
     \/ path \notin {Nothing, PlainFile} /\ Goto(p, "remove")
  /\ UNCHANGED <<path, backlog, slots, hungUp, batch>>

\* It is an error if nothing is there any more.
RemoveSocket(p) ==
  /\ pc[p] = "remove"
  /\ Goto(p, IF path = Nothing THEN "refused" ELSE "bind")
  /\ path' = Nothing
  /\ UNCHANGED <<backlog, slots, hungUp, batch>>

\* mistake: the socket is removed at the end of run after an error, too
BindCleansUp(p) ==
  /\ pc[p] = "bind"
  /\ IF path = Nothing THEN Goto(p, "serve") /\ path' = p
                       ELSE Goto(p, "refused") /\ path' = Nothing
  /\ UNCHANGED <<backlog, slots, hungUp, batch>>

\* It is an error if something is there already.
Bind(p) ==
  /\ pc[p] = "bind"
  /\ IF path = Nothing THEN Goto(p, "serve") /\ path' = p
                       ELSE Goto(p, "refused") /\ UNCHANGED path
  /\ UNCHANGED <<backlog, slots, hungUp, batch>>

-----------------------------------------------------------------------------
(***************************************************************************)
(* Serving: try_for_each_concurrent takes the next connection when fewer   *)
(* than Workers handlers are running.                                      *)
(***************************************************************************)
AcceptAll(p) ==   \* mistake: no limit
  /\ pc[p] = "serve"
  /\ backlog[p] # <<>>
  /\ slots' = [slots EXCEPT ![p] = @ \cup {Head(backlog[p])}]
  /\ backlog' = [backlog EXCEPT ![p] = Tail(@)]
  /\ UNCHANGED <<path, pc, hungUp, batch>>

Accept(p) ==
  /\ pc[p] = "serve"
  /\ backlog[p] # <<>>
  /\ Workers = 0 \/ Cardinality(slots[p]) < Workers
  /\ slots' = [slots EXCEPT ![p] = @ \cup {Head(backlog[p])}]
  /\ backlog' = [backlog EXCEPT ![p] = Tail(@)]
  /\ UNCHANGED <<path, pc, hungUp, batch>>

\* mistake: a handler that meets the end of its input goes on reading
HandlerReads(p, k) ==
  /\ k \in slots[p] \cap hungUp
  /\ UNCHANGED vars

\* The handler meets the end of its input and returns; the slot is free.
HandlerEnds(p, k) ==
  /\ k \in slots[p] \cap hungUp
  /\ slots' = [slots EXCEPT ![p] = @ \ {k}]
  /\ hungUp' = hungUp \ {k}
  /\ UNCHANGED <<path, pc, backlog, batch>>

\* The handler closes the connection: a line it cannot read or parse.
HandlerBreaks(p, k) ==
  /\ k \in slots[p] \ hungUp
  /\ slots' = [slots EXCEPT ![p] = @ \ {k}]
  /\ UNCHANGED <<path, pc, backlog, hungUp, batch>>

\* The process is gone, with its connections; the socket stays at the path.
Gone(p) ==
  /\ Goto(p, "off")
  /\ backlog' = [backlog EXCEPT ![p] = <<>>]
  /\ slots' = [slots EXCEPT ![p] = {}]
  /\ hungUp' = hungUp \ Held(p)
  /\ batch' = IF pc[p] \in {"connect", "check"} THEN batch \ {p} ELSE {}
  /\ UNCHANGED path

\* mistake: the error leaves run, the other connections stay
HandlerFailsAlone(p, k) ==
  /\ Broker
  /\ k \in slots[p]
  /\ Goto(p, "off")
  /\ slots' = [slots EXCEPT ![p] = @ \ {k}]
  /\ hungUp' = hungUp \ {k}
  /\ batch' = {}
  /\ UNCHANGED <<path, backlog>>

\* A handler fails: run returns its error, dropping the other handlers.
HandlerFails(p, k) ==
  /\ Broker
  /\ k \in slots[p]
  /\ Gone(p)

\* The process is killed, it does not reach the broker, or accepting fails.
Killed(p) == Up(p) /\ Gone(p)

-----------------------------------------------------------------------------
(***************************************************************************)
(* PowerDNS.                                                               *)
(***************************************************************************)
Connect(k) ==
  /\ k \notin Attached
  /\ \E p \in Procs :
       /\ path = p /\ pc[p] = "serve"
       /\ backlog' = [backlog EXCEPT ![p] = Append(@, k)]
  /\ UNCHANGED <<path, pc, slots, hungUp, batch>>

HangUp(k) ==
  /\ k \in Attached \ hungUp
  /\ hungUp' = hungUp \cup {k}
  /\ UNCHANGED <<path, pc, backlog, slots, batch>>

ServerStep(p) ==
  \/ Start(p) \/ Connected(p) \/ Check(p) \/ RemoveSocket(p) \/ Bind(p) \/ Accept(p) \/ Killed(p)
  \/ \E k \in Clients : HandlerEnds(p, k) \/ HandlerBreaks(p, k) \/ HandlerFails(p, k)

Next ==
  \/ \E p \in Procs : ServerStep(p)
  \/ \E k \in Clients : Connect(k) \/ HangUp(k)

Spec == Init /\ [][Next]_vars

(***************************************************************************)
(* Fairness.  tokio polls the listener and every handler; a handler whose  *)
(* peer is gone comes to read the end of its input, since a lookup ends    *)
(* within 4500 ms; that also supposes that opening the handler ends, the   *)
(* broker calls of amqp/unix.rs:98-101, which have no limit of time.       *)
(* Nothing is assumed of PowerDNS or of the starts.                        *)
(***************************************************************************)
FairSpec ==
  /\ Spec
  /\ \A p \in Procs : /\ WF_vars(Accept(p))
                      /\ \A k \in Clients : WF_vars(HandlerEnds(p, k))
-----------------------------------------------------------------------------
TypeOK ==
  /\ path \in {Nothing, Leftover, PlainFile} \cup Procs
  /\ pc \in [Procs -> {"off", "connect", "check", "remove", "bind", "serve", "refused"}]
  /\ backlog \in [Procs -> Seq(Clients)]
  /\ slots \in [Procs -> SUBSET Clients]
  /\ hungUp \in SUBSET Clients
  /\ batch \in SUBSET Procs
  /\ Workers > 0 => \A p \in Procs : Cardinality(slots[p]) <= Workers

(***************************************************************************)
(* After any crash a restart works: a process that is alone is not refused *)
(* the path, unless something that is no socket is there, and once it      *)
(* serves, the path leads to it (unix.rs:65-88).                           *)
(***************************************************************************)
LoneStartWorks ==
  \A p \in Procs : batch = {p} =>
    /\ pc[p] = "refused" => path = PlainFile
    /\ pc[p] = "serve" => path = p

(***************************************************************************)
(* Processes that start together refuse each other and take each other's   *)
(* socket away, but once they have settled the path leads to one of them   *)
(* that serves, in whatever order their steps came, as long as none ended  *)
(* in between (unix.rs:65-88).                                             *)
(***************************************************************************)
Settled ==
  /\ \E p \in batch : pc[p] \in {"serve", "refused"}
  /\ \A p \in Procs : pc[p] \notin {"check", "remove", "bind"}

StartsConverge ==
  Settled => path = PlainFile \/ \E p \in batch : path = p /\ pc[p] = "serve"

(***************************************************************************)
(* No connection is left to a process that does not serve it: when one     *)
(* handler fails or the process is killed all its connections are closed,  *)
(* the accepted and the waiting ones, in the middle of their lookups, so   *)
(* that PowerDNS can open each of them anew at another process; none is    *)
(* held by two (unix.rs:91-109).                                           *)
(***************************************************************************)
AttachedIsServed ==
  \A p \in Procs : \A k \in Held(p) :
    pc[p] = "serve" /\ \A q \in Procs \ {p} : k \notin Held(q)

(***************************************************************************)
(* No connection waits for ever behind the limit: if PowerDNS hangs up     *)
(* every connection some time, every connection is accepted, or the server *)
(* ends.                                                                   *)
(***************************************************************************)
ServedInTurn ==
  (\A k \in Clients : []<>(k \in hungUp \/ k \notin Attached)) =>
    \A p \in Procs, k \in Clients : k \in Waiting(p) ~> k \notin Waiting(p)
=============================================================================

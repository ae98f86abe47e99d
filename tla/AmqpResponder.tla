---------------------------- MODULE AmqpResponder ----------------------------
(***************************************************************************)
(* src/amqp/responder.rs: one responder per host.  It consumes the host's  *)
(* queue with at most Workers deliveries in flight, looks the name up in   *)
(* the local LXD, publishes the addresses to the queue named by reply_to,  *)
(* and settles the delivery.  Any error of a broker call ends Responder.run *)
(* and with it every delivery in flight.                                   *)
(***************************************************************************)
EXTENDS AmqpBroker, FiniteSets

CONSTANT Workers   \* responder_workers; 0 means no limit

ASSUME WorkersAssumption == Workers \in Nat

VARIABLES
  tasks,    \* tasks[n]: deliveries n is working on
  lxd,      \* lxd[n][x]: what local_query(x) returns on n now (external)
  lxcUp,    \* lxcUp[n]: the names n's lxc commands work for now (external)
  replied   \* history: <<n, id>> once n has published a reply to id

responderVars == <<tasks, lxd, lxcUp, replied>>

(***************************************************************************)
(* step is the await the delivery is at: the lookup, the publication of    *)
(* the reply, or the settlement as an ack, a reject, or a reject with      *)
(* requeue.  Only a name that parsed as a ContainerName is looked up.  A   *)
(* hung lookup waits for an lxc command that does not end.                 *)
(***************************************************************************)
Task == {t \in [msg   : Request,
                step  : {"lookup", "hung", "reply", "ack", "reject", "requeue"},
                addrs : SUBSET Addrs] :
           t.step \in {"lookup", "hung"} => t.msg.name \in Names}

ResponderTypeOK ==
  /\ tasks \in [Nodes -> SUBSET Task]
  /\ lxd \in [Nodes -> [Names -> LocalResult]]
  /\ lxcUp \in [Nodes -> SUBSET Names]
  /\ replied \in SUBSET (Nodes \X Nat)

ResponderInit ==
  /\ tasks = [n \in Nodes |-> {}]
  /\ lxd \in [Nodes -> [Names -> LocalResult]]
  /\ lxcUp = [n \in Nodes |-> Names]
  /\ replied = {}

(***************************************************************************)
(* The addresses some host would report for x now.                         *)
(***************************************************************************)
Known(x) == UNION UNION {lxd[n][x] : n \in Nodes}

Become(n, t, u) == tasks' = [tasks EXCEPT ![n] = (@ \ {t}) \cup {u}]

(***************************************************************************)
(* A free slot takes the next delivery.  A name that does not parse, or a  *)
(* request without reply_to or correlation_id, goes straight to reject.    *)
(***************************************************************************)
Accept(n) ==
  /\ n \in bound
  /\ Workers = 0 \/ Cardinality(tasks[n]) < Workers
  /\ \E m \in requests[n] :
       /\ requests' = [requests EXCEPT ![n] = @ \ {m}]
       /\ tasks' = [tasks EXCEPT ![n] = @ \cup
            {[msg   |-> m,
              step  |-> IF m.name = BadName \/ m.id = NoId
                        THEN "reject" ELSE "lookup",
              addrs |-> {}]}]
  /\ UNCHANGED <<bound, replies, lxd, lxcUp, replied>>

(***************************************************************************)
(* local_query answers.  A failing command, which may be one instance's    *)
(* state query alone, sends the request back to the queue; an unknown      *)
(* instance is rejected for good.                                          *)
(***************************************************************************)
Lookup(n, t) ==
  LET here == lxd[n][t.msg.name]
      works == t.msg.name \in lxcUp[n]
  IN
  /\ t.step = "lookup"
  /\ \/ /\ ~ works
        /\ Become(n, t, [t EXCEPT !.step = "requeue"])
     \/ /\ works
        /\ here = None
        /\ Become(n, t, [t EXCEPT !.step = "reject"])
     \/ /\ works
        /\ \E a \in here :
             Become(n, t, [t EXCEPT !.step = "reply", !.addrs = a])
  /\ UNCHANGED <<brokerVars, lxd, lxcUp, replied>>

(***************************************************************************)
(* The command neither returns nor fails.  Nothing limits its time, and    *)
(* the delivery keeps its slot until the responder exits.                  *)
(***************************************************************************)
Hang(n, t) ==
  /\ t.step = "lookup"
  /\ Become(n, t, [t EXCEPT !.step = "hung"])
  /\ UNCHANGED <<brokerVars, lxd, lxcUp, replied>>

(***************************************************************************)
(* The reply is published before the delivery is acknowledged.             *)
(***************************************************************************)
PublishAddresses(n, t) ==
  /\ t.step = "reply"
  /\ PublishReply(t.msg.replyTo, [id |-> t.msg.id, from |-> n,
                                  ok |-> TRUE, addrs |-> t.addrs])
  /\ Become(n, t, [t EXCEPT !.step = "ack"])
  /\ replied' = replied \cup {<<n, t.msg.id>>}
  /\ UNCHANGED <<bound, requests, lxd, lxcUp>>

\* mistake: a failed lookup is rejected for good
SettleDiscards(n, t) ==
  /\ t.step \in {"ack", "reject", "requeue"}
  /\ tasks' = [tasks EXCEPT ![n] = @ \ {t}]
  /\ UNCHANGED <<brokerVars, lxd, lxcUp, replied>>

Settle(n, t) ==
  /\ t.step \in {"ack", "reject", "requeue"}
  /\ tasks' = [tasks EXCEPT ![n] = @ \ {t}]
  /\ requests' = IF t.step = "requeue"
                 THEN [requests EXCEPT ![n] = @ \cup {t.msg}]
                 ELSE requests
  /\ UNCHANGED <<bound, replies, lxd, lxcUp, replied>>

(***************************************************************************)
(* A broker call fails, the stream reports an error, or the process is     *)
(* killed: run returns, and the connection and its queue are gone.         *)
(***************************************************************************)
\* mistake: the queue outlives the responder and takes its deliveries back
ExitRequeues(n) ==
  /\ n \in bound
  /\ bound' = bound \ {n}
  /\ requests' = [requests EXCEPT ![n] = @ \cup {t.msg : t \in tasks[n]}]
  /\ tasks' = [tasks EXCEPT ![n] = {}]
  /\ UNCHANGED <<replies, lxd, lxcUp, replied>>

Exit(n) ==
  /\ n \in bound
  /\ DropQueue(n)
  /\ tasks' = [tasks EXCEPT ![n] = {}]
  /\ UNCHANGED <<replies, lxd, lxcUp, replied>>

Start(n) ==
  /\ n \notin bound
  /\ DeclareQueue(n)
  /\ UNCHANGED <<replies, responderVars>>

ResponderStep(n) ==
  \/ Accept(n)
  \/ \E t \in tasks[n] : Lookup(n, t) \/ PublishAddresses(n, t) \/ Settle(n, t)
=============================================================================

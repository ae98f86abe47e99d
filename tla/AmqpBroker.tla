------------------------------ MODULE AmqpBroker ------------------------------
(***************************************************************************)
(* The message broker (RabbitMQ, reached through lapin) as far as lxddns   *)
(* uses it: the fanout exchange "lxddns", the queue each responder binds   *)
(* to it, and the server-named response queue each backend connection      *)
(* declares.  The broker is not part of the repository; what is written    *)
(* here is what the calls in src/amqp ask of it.                           *)
(*                                                                         *)
(* A queue is a set of messages.  The code relies on no arrival order: a   *)
(* requeued request goes back to its old place, and consumers that share a *)
(* queue are served in turn.                                               *)
(***************************************************************************)
EXTENDS Lxd, Naturals

CONSTANTS
  Nodes,     \* the hosts that run a responder
  Conns,     \* PowerDNS connections; each is opened at most once
  Names,     \* valid container names
  BadName    \* payload of a request that is no valid container name

ASSUME BadNameAssumption == BadName \notin Names

(***************************************************************************)
(* Correlation ids are version 4 UUIDs, modelled as numbers that are never *)
(* drawn twice.  NoId is a missing or unparsable correlation id (or, on a  *)
(* request, a missing reply_to).                                           *)
(***************************************************************************)
NoId == 0

Request == [id : Nat, name : Names \cup {BadName}, replyTo : Conns]

(***************************************************************************)
(* "ok" says that the payload is a whole number of 16-byte addresses.      *)
(* "from" is not on the wire: it lets the properties tell replies apart.   *)
(***************************************************************************)
Reply == [id : Nat, from : Nodes, ok : BOOLEAN, addrs : SUBSET Addrs]

VARIABLES
  bound,     \* the responders whose queue exists and is bound to the exchange
  requests,  \* requests[n]: requests ready in n's queue
  replies    \* replies[c]: replies ready in c's response queue

brokerVars == <<bound, requests, replies>>

BrokerTypeOK ==
  /\ bound \in SUBSET Nodes
  /\ requests \in [Nodes -> SUBSET Request]
  /\ replies \in [Conns -> SUBSET Reply]

BrokerInit ==
  /\ bound = Nodes
  /\ requests = [n \in Nodes |-> {}]
  /\ replies = [c \in Conns |-> {}]

(***************************************************************************)
(* basic_publish to the exchange: one copy for every bound queue.          *)
(***************************************************************************)
PublishFanout(m) ==
  requests' = [n \in Nodes |->
                 IF n \in bound THEN requests[n] \cup {m} ELSE requests[n]]

(***************************************************************************)
(* basic_publish to the default exchange, routed by queue name.  Response  *)
(* queues are declared with exclusive and auto_delete off, so the queue of *)
(* a closed connection still takes the message.                            *)
(***************************************************************************)
PublishReply(c, m) == replies' = [replies EXCEPT ![c] = @ \cup {m}]

TakeReply(c, m) == replies' = [replies EXCEPT ![c] = @ \ {m}]

(***************************************************************************)
(* A responder's queue is exclusive and auto_delete: it, and all that is   *)
(* in it or unacknowledged, goes away with the responder's connection.     *)
(***************************************************************************)
DropQueue(n) ==
  /\ bound' = bound \ {n}
  /\ requests' = [requests EXCEPT ![n] = {}]

DeclareQueue(n) ==
  /\ bound' = bound \cup {n}
  /\ UNCHANGED requests
=============================================================================

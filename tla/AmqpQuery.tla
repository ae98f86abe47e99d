------------------------------ MODULE AmqpQuery ------------------------------
(***************************************************************************)
(* The asking side over AMQP: src/pdns_io.rs (the handler of one PowerDNS  *)
(* connection, for the lookups that need the backend) and                  *)
(* src/amqp/query.rs (RemoteQuery.remote_query).  A connection serves one  *)
(* lookup at a time.  All its lookups share one channel and one response   *)
(* queue; each registers a new consumer on that queue.                     *)
(***************************************************************************)
EXTENDS AmqpBroker

CONSTANT MaxId   \* bound of the model: lookups that are ever published

ASSUME MaxIdAssumption == MaxId \in Nat

VARIABLES
  pc,       \* pc[c]: where c's handler is
  name,     \* name[c]: container of the current or last lookup
  corr,     \* corr[c]: its correlation id
  result,   \* result[c]: replies merged so far ({} is None)
  answer,   \* answer[c]: the addresses written for the last lookup
  stale,    \* the connections with a dropped consumer the broker still serves
  lost,     \* history: <<n, id>> once a dropped consumer took the reply
  nextId    \* the next correlation id

queryVars == <<pc, name, corr, result, answer, stale, lost, nextId>>

(***************************************************************************)
(* The awaits of remote_query: basic_consume, basic_publish, the next      *)
(* delivery, and the ack or reject of a delivery.                          *)
(***************************************************************************)
Asking == {"consume", "publish", "collect", "settle"}

QueryTypeOK ==
  /\ pc \in [Conns -> {"new", "idle", "closed"} \cup Asking]
  /\ name \in [Conns -> Names]
  /\ corr \in [Conns -> Nat]
  /\ result \in [Conns -> SUBSET Reply]
  /\ answer \in [Conns -> SUBSET Addrs]
  /\ stale \in SUBSET Conns
  /\ lost \in SUBSET (Nodes \X Nat)
  /\ nextId \in Nat \ {0}

QueryInit ==
  /\ pc = [c \in Conns |-> "new"]
  /\ name \in [Conns -> Names]   \* unused before the first lookup
  /\ corr = [c \in Conns |-> NoId]
  /\ result = [c \in Conns |-> {}]
  /\ answer = [c \in Conns |-> {}]
  /\ stale = {}
  /\ lost = {}
  /\ nextId = 1

Goto(c, label) == pc' = [pc EXCEPT ![c] = label]

AddressesNested(rs) == {m.addrs : m \in rs}   \* mistake: replies not flattened

Addresses(rs) == UNION {m.addrs : m \in rs}

(***************************************************************************)
(* PowerDNS connects: a channel is created and a response queue declared.  *)
(***************************************************************************)
Open(c) ==
  /\ pc[c] = "new"
  /\ Goto(c, "idle")
  /\ UNCHANGED <<brokerVars, name, corr, result, answer, stale, lost, nextId>>

(***************************************************************************)
(* A line is read and type_for_domain makes it a lookup of container x.    *)
(***************************************************************************)
Ask(c, x) ==
  /\ pc[c] = "idle"
  /\ Goto(c, "consume")
  /\ name' = [name EXCEPT ![c] = x]
  /\ result' = [result EXCEPT ![c] = {}]
  /\ answer' = [answer EXCEPT ![c] = {}]
  /\ UNCHANGED <<brokerVars, corr, stale, lost, nextId>>

(***************************************************************************)
(* basic_consume returns; the correlation id is drawn.                     *)
(***************************************************************************)
Consume(c) ==
  /\ pc[c] = "consume"
  /\ nextId <= MaxId
  /\ Goto(c, "publish")
  /\ corr' = [corr EXCEPT ![c] = nextId]
  /\ nextId' = nextId + 1
  /\ UNCHANGED <<brokerVars, name, result, answer, stale, lost>>

Publish(c) ==
  /\ pc[c] = "publish"
  /\ Goto(c, "collect")
  /\ PublishFanout([id |-> corr[c], name |-> name[c], replyTo |-> c])
  /\ UNCHANGED <<bound, replies, name, corr, result, answer, stale, lost, nextId>>

(***************************************************************************)
(* The loop takes a delivery.  It is merged when it carries this lookup's  *)
(* correlation id and a well-formed payload, and rejected otherwise; the   *)
(* handler then waits for the ack or reject to go out.                     *)
(***************************************************************************)
MergesAny(c, m) == m.ok   \* mistake: the correlation id is not compared

Merges(c, m) == m.id = corr[c] /\ m.ok

\* mistake: a reply replaces what was merged (get_or_insert_with, extend)
ReceiveReplaces(c) ==
  /\ pc[c] = "collect"
  /\ \E m \in replies[c] :
       /\ TakeReply(c, m)
       /\ result' = [result EXCEPT ![c] = IF Merges(c, m) THEN {m} ELSE @]
  /\ Goto(c, "settle")
  /\ UNCHANGED <<bound, requests, name, corr, answer, stale, lost, nextId>>

Receive(c) ==
  /\ pc[c] = "collect"
  /\ \E m \in replies[c] :
       /\ TakeReply(c, m)
       /\ result' = [result EXCEPT ![c] = IF Merges(c, m) THEN @ \cup {m} ELSE @]
  /\ Goto(c, "settle")
  /\ UNCHANGED <<bound, requests, name, corr, answer, stale, lost, nextId>>

Settled(c) ==
  /\ pc[c] = "settle"
  /\ Goto(c, "collect")
  /\ UNCHANGED <<brokerVars, name, corr, result, answer, stale, lost, nextId>>

(***************************************************************************)
(* The response line is written and the consumer dropped; the broker hears *)
(* of the cancellation later.                                              *)
(***************************************************************************)
\* mistake: the loop goes on after the response
RespondStays(c, addrs) ==
  /\ Goto(c, "collect")
  /\ answer' = [answer EXCEPT ![c] = addrs]
  /\ stale' = stale \cup {c}
  /\ UNCHANGED <<brokerVars, name, corr, result, lost, nextId>>

Respond(c, addrs) ==
  /\ Goto(c, "idle")
  /\ answer' = [answer EXCEPT ![c] = addrs]
  /\ stale' = stale \cup {c}
  /\ UNCHANGED <<brokerVars, name, corr, result, lost, nextId>>

(***************************************************************************)
(* The quiet-period timer fires, or the delivery stream ends or fails: the *)
(* loop ends and what was merged is the answer.                            *)
(***************************************************************************)
Quiet(c) == pc[c] = "collect" /\ Respond(c, Addresses(result[c]))

(***************************************************************************)
(* The 4500 ms limit around remote_query fires at any of its awaits: the   *)
(* future is dropped with what it merged, and None is answered.            *)
(***************************************************************************)
\* mistake: only the wait for deliveries is limited
OuterTimeoutCollecting(c) == pc[c] = "collect" /\ Respond(c, {})

OuterTimeout(c) == pc[c] \in Asking /\ Respond(c, {})

(***************************************************************************)
(* A broker call of remote_query fails.  The error leaves the handler      *)
(* (MessageQueueTaint), then Unix.run, and the process exits: every        *)
(* connection is closed.                                                   *)
(***************************************************************************)
Taint(c) ==
  /\ pc[c] \in {"consume", "publish", "settle"}
  /\ pc' = [d \in Conns |-> IF pc[d] = "new" THEN "new" ELSE "closed"]
  /\ stale' = {}
  /\ UNCHANGED <<brokerVars, name, corr, result, answer, lost, nextId>>

(***************************************************************************)
(* PowerDNS hangs up, or a line cannot be read, parsed or answered.        *)
(***************************************************************************)
Close(c) ==
  /\ pc[c] = "idle"
  /\ Goto(c, "closed")
  /\ stale' = stale \ {c}
  /\ UNCHANGED <<brokerVars, name, corr, result, answer, lost, nextId>>

(***************************************************************************)
(* A consumer that was dropped but not yet cancelled takes a reply; nobody *)
(* reads it.                                                               *)
(***************************************************************************)
StaleTake(c) ==
  /\ c \in stale
  /\ \E m \in replies[c] :
       /\ TakeReply(c, m)
       /\ lost' = lost \cup {<<m.from, m.id>>}
  /\ UNCHANGED <<bound, requests, pc, name, corr, result, answer, stale, nextId>>

StaleCancelled(c) ==
  /\ c \in stale
  /\ stale' = stale \ {c}
  /\ UNCHANGED <<brokerVars, pc, name, corr, result, answer, lost, nextId>>

HandlerStep(c) ==
  \/ Consume(c) \/ Publish(c) \/ Receive(c) \/ Settled(c)
  \/ Quiet(c) \/ OuterTimeout(c)
=============================================================================

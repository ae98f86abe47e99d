---------------------------- MODULE AmqpOnceProofs ----------------------------
(***************************************************************************)
(* Proofs about AmqpResolve: no host answers a lookup twice, no reply is   *)
(* dropped while its lookup runs, and nothing of a host that stays is lost *)
(* between the two.                                                        *)
(***************************************************************************)
EXTENDS AmqpResolveProofs

(***************************************************************************)
(* The host side of the invariant.  An id that was drawn but not published *)
(* is nowhere; then there is at most one copy of its request on a host,    *)
(* ready or in flight, and none that could be answered after a reply.      *)
(***************************************************************************)
RepliedDrawn == \A r \in replied : r[2] < nextId

Distinct ==
  \A c, d \in Conns : corr[c] = corr[d] => c = d \/ corr[c] = NoId

Unsent ==
  \A c \in Conns : pc[c] = "publish" =>
    \A n \in Nodes :
      /\ <<n, corr[c]>> \notin replied
      /\ \A m \in requests[n] : m.id # corr[c]
      /\ \A t \in tasks[n] : t.msg.id # corr[c]

OneCopy ==
  \A n \in Nodes :
    /\ \A m1, m2 \in requests[n] : m1.id = m2.id => m1 = m2 \/ m1.id = NoId
    /\ \A t1, t2 \in tasks[n] : t1.msg.id = t2.msg.id => t1 = t2 \/ t1.msg.id = NoId
    /\ \A m \in requests[n], t \in tasks[n] : m.id = t.msg.id => m.id = NoId

Unreplied ==
  \A n \in Nodes :
    /\ \A m \in requests[n] : <<n, m.id>> \in replied => m.id = NoId
    /\ \A t \in tasks[n] : t.step \in {"lookup", "reply", "requeue"} =>
         t.msg.id # NoId /\ <<n, t.msg.id>> \notin replied

Owned ==
  \A c \in Conns, n \in Nodes :
    /\ \A m \in requests[n] : m.id = corr[c] => m.replyTo = c \/ m.id = NoId
    /\ \A t \in tasks[n] : t.msg.id = corr[c] => t.msg.replyTo = c \/ t.msg.id = NoId

HostPart == RepliedDrawn /\ Distinct /\ Unsent /\ OneCopy /\ Unreplied /\ Owned

(***************************************************************************)
(* The asking side: the replies that could be merged are recorded as given *)
(* and there is one of each; the ones still to come are conserved.         *)
(***************************************************************************)
Mergeable(m) == m.ok /\ m.id # NoId

Recorded ==
  \A c \in Conns :
    /\ \A m \in replies[c] : Mergeable(m) => <<m.from, m.id>> \in replied
    /\ \A m \in result[c] :
         Mergeable(m) /\ m.id = corr[c] /\ <<m.from, m.id>> \in replied
    /\ pc[c] = "consume" => result[c] = {}

OneReply ==
  \A c \in Conns : \A m1, m2 \in replies[c] \cup result[c] :
    Mergeable(m1) /\ Mergeable(m2) /\ m1.id = m2.id /\ m1.from = m2.from => m1 = m2

ReplyPart == Recorded /\ OneReply /\ ReplyConserved

OInv == IInv /\ HostPart /\ ReplyPart
-----------------------------------------------------------------------------
(***************************************************************************)
(* Steps that leave one side alone.                                        *)
(***************************************************************************)
LEMMA OInvInit == Init => OInv
<1>. SUFFICES ASSUME Init PROVE OInv
  OBVIOUS
<1>1. IInv
  BY IInvInit
<1>2. /\ \A c \in Conns : pc[c] = "new" /\ corr[c] = NoId /\ result[c] = {} /\ replies[c] = {}
      /\ \A n \in Nodes : requests[n] = {} /\ tasks[n] = {}
      /\ replied = {}
  BY DEF Init, BrokerInit, QueryInit, ResponderInit
<1>3. HostPart
  BY <1>2 DEF HostPart, RepliedDrawn, Distinct, Unsent, OneCopy, Unreplied, Owned
<1>4. ReplyPart
  BY <1>2 DEF ReplyPart, Recorded, OneReply, ReplyConserved
<1>. QED BY <1>1, <1>3, <1>4 DEF OInv

\* Nothing is drawn, published or taken back: messages may only vanish.
LEMMA HostKeeps ==
  ASSUME HostPart, UNCHANGED <<replied, corr, nextId>>,
         \A n \in Nodes : requests'[n] \subseteq requests[n],
         \A n \in Nodes : tasks'[n] \subseteq tasks[n],
         \A c \in Conns : pc'[c] = "publish" => pc[c] = "publish"
  PROVE  HostPart'
<1>1. RepliedDrawn' /\ Distinct'
  BY DEF HostPart, RepliedDrawn, Distinct
<1>2. Unsent'
  BY DEF HostPart, Unsent
<1>3. OneCopy'
  <2>. SUFFICES ASSUME NEW n \in Nodes
                PROVE  /\ \A m1, m2 \in requests'[n] : m1.id = m2.id => m1 = m2 \/ m1.id = NoId
                       /\ \A t1, t2 \in tasks'[n] :
                            t1.msg.id = t2.msg.id => t1 = t2 \/ t1.msg.id = NoId
                       /\ \A m \in requests'[n], t \in tasks'[n] :
                            m.id = t.msg.id => m.id = NoId
    BY DEF OneCopy
  <2>. QED BY DEF HostPart, OneCopy
<1>4. Unreplied'
  BY DEF HostPart, Unreplied
<1>5. Owned'
  BY DEF HostPart, Owned
<1>. QED BY <1>1, <1>2, <1>3, <1>4, <1>5 DEF HostPart

\* No reply is given or taken, and no lookup begins to wait.
LEMMA ReplyKeeps ==
  ASSUME ReplyPart, UNCHANGED <<replies, result, replied, corr>>, lost \subseteq lost',
         \A c \in Conns : pc'[c] = "consume" => pc[c] = "consume",
         \A c \in Conns : pc'[c] \in Asking \ {"consume"} => pc[c] \in Asking \ {"consume"}
  PROVE  ReplyPart'
<1>1. Recorded' /\ OneReply'
  BY DEF ReplyPart, Recorded, OneReply, Mergeable
<1>2. ReplyConserved'
  BY DEF ReplyPart, ReplyConserved
<1>. QED BY <1>1, <1>2 DEF ReplyPart
-----------------------------------------------------------------------------
(***************************************************************************)
(* The asking side.                                                        *)
(***************************************************************************)
LEMMA AskOnce ==
  ASSUME OInv, NEW c \in Conns, AskAndWatch(c)
  PROVE  HostPart' /\ ReplyPart'
<1>1. PICK x \in Names : Ask(c, x) /\ UNCHANGED responderVars
  BY DEF AskAndWatch
<1>2. /\ UNCHANGED <<requests, tasks, replied, corr, nextId, replies, lost>>
      /\ \A d \in Conns : pc'[d] = IF d = c THEN "consume" ELSE pc[d]
      /\ \A d \in Conns : result'[d] = IF d = c THEN {} ELSE result[d]
  BY <1>1 DEF Ask, Goto, brokerVars, responderVars, OInv, IInv, TypeOK, QueryTypeOK
<1>3. HostPart'
  BY <1>2, HostKeeps DEF OInv
<1>4. Recorded' /\ OneReply'
  BY <1>2 DEF OInv, ReplyPart, Recorded, OneReply, Mergeable
<1>5. ReplyConserved'
  BY <1>2 DEF OInv, ReplyPart, ReplyConserved
<1>. QED BY <1>3, <1>4, <1>5 DEF ReplyPart

LEMMA ConsumeOnce ==
  ASSUME OInv, NEW c \in Conns, Consume(c), UNCHANGED responderVars
  PROVE  HostPart' /\ ReplyPart'
<1>1. /\ UNCHANGED <<requests, tasks, replied, replies, result, lost>>
      /\ pc[c] = "consume"
      /\ \A d \in Conns : pc'[d] = IF d = c THEN "publish" ELSE pc[d]
      /\ \A d \in Conns : corr'[d] = IF d = c THEN nextId ELSE corr[d]
      /\ nextId' = nextId + 1
  BY DEF Consume, Goto, brokerVars, responderVars, OInv, IInv, TypeOK, QueryTypeOK
<1>2. /\ nextId \in Nat
      /\ \A d \in Conns : corr[d] \in Nat /\ corr[d] # nextId
      /\ \A n \in Nodes : \A m \in requests[n] : m.id # nextId
      /\ \A n \in Nodes : \A t \in tasks[n] : t.msg.id # nextId
  <2>1. \A d \in Conns : corr[d] \in Nat
    BY DEF OInv, IInv, TypeOK, QueryTypeOK
  <2>2. \A n \in Nodes : \A m \in requests[n] : m.id \in Nat
    BY DEF OInv, IInv, TypeOK, BrokerTypeOK, Request
  <2>3. \A n \in Nodes : \A t \in tasks[n] : t.msg.id \in Nat
    BY DEF OInv, IInv, TypeOK, ResponderTypeOK, Task, Request
  <2>. QED BY <2>1, <2>2, <2>3 DEF OInv, IInv, IdsDrawn, TypeOK, QueryTypeOK
<1>3. \A n \in Nodes : <<n, nextId>> \notin replied
  BY <1>2 DEF OInv, HostPart, RepliedDrawn
<1>4. RepliedDrawn'
  <2>1. \A r \in replied : r[2] \in Nat
    BY DEF OInv, IInv, TypeOK, ResponderTypeOK
  <2>. QED BY <1>1, <1>2, <2>1 DEF OInv, HostPart, RepliedDrawn
<1>5. Distinct'
  BY <1>1, <1>2 DEF OInv, HostPart, Distinct
<1>6. Unsent'
  BY <1>1, <1>2, <1>3 DEF OInv, HostPart, Unsent
<1>7. OneCopy' /\ Unreplied'
  BY <1>1 DEF OInv, HostPart, OneCopy, Unreplied
<1>8. Owned'
  BY <1>1, <1>2 DEF OInv, HostPart, Owned
<1>9. Recorded'
  BY <1>1 DEF OInv, ReplyPart, Recorded, Mergeable
<1>10. OneReply'
  BY <1>1 DEF OInv, ReplyPart, OneReply, Mergeable
<1>11. ReplyConserved'
  BY <1>1, <1>3 DEF OInv, ReplyPart, ReplyConserved
<1>. QED BY <1>4, <1>5, <1>6, <1>7, <1>8, <1>9, <1>10, <1>11 DEF HostPart, ReplyPart

\* A message whose id is no id, or is c's that was on no host so far, is queued.
LEMMA QueueOnce ==
  ASSUME OInv, NEW q, NEW c \in Conns, q.replyTo = c,
         q.id = NoId \/ (pc[c] = "publish" /\ q.id = corr[c]),
         \A n \in Nodes : \A m \in requests'[n] : m \in requests[n] \/ m = q,
         UNCHANGED <<tasks, replied, corr, nextId>>,
         \A d \in Conns : pc'[d] = "publish" => pc[d] = "publish",
         q.id # NoId => pc'[c] # "publish"
  PROVE  HostPart'
<1>1. RepliedDrawn' /\ Distinct'
  BY DEF OInv, HostPart, RepliedDrawn, Distinct
<1>2. \A d \in Conns : d # c /\ corr[d] = q.id => q.id = NoId
  BY DEF OInv, HostPart, Distinct
<1>3. \A d \in Conns : pc[d] = "publish" => corr[d] # NoId
  BY DEF OInv, IInv, IdsReal, Asking
<1>4. q.id # NoId =>
        \A n \in Nodes : /\ <<n, q.id>> \notin replied
                         /\ \A m \in requests[n] : m.id # q.id
                         /\ \A t \in tasks[n] : t.msg.id # q.id
  BY DEF OInv, HostPart, Unsent
<1>5. Unsent'
  <2>. SUFFICES ASSUME NEW d \in Conns, pc'[d] = "publish", NEW n \in Nodes
                PROVE  /\ <<n, corr[d]>> \notin replied
                       /\ \A m \in requests'[n] : m.id # corr[d]
                       /\ \A t \in tasks[n] : t.msg.id # corr[d]
    BY DEF Unsent
  <2>1. q.id # corr[d]
    BY <1>2, <1>3
  <2>. QED BY <2>1 DEF OInv, HostPart, Unsent
<1>6. OneCopy'
  <2>. SUFFICES ASSUME NEW n \in Nodes
                PROVE  /\ \A m1, m2 \in requests'[n] : m1.id = m2.id => m1 = m2 \/ m1.id = NoId
                       /\ \A t1, t2 \in tasks[n] :
                            t1.msg.id = t2.msg.id => t1 = t2 \/ t1.msg.id = NoId
                       /\ \A m \in requests'[n], t \in tasks[n] :
                            m.id = t.msg.id => m.id = NoId
    BY DEF OneCopy
  <2>. QED BY <1>4 DEF OInv, HostPart, OneCopy
<1>7. Unreplied'
  BY <1>4 DEF OInv, HostPart, Unreplied
<1>8. Owned'
  BY <1>2 DEF OInv, HostPart, Owned
<1>. QED BY <1>1, <1>5, <1>6, <1>7, <1>8 DEF HostPart

LEMMA PublishOnce ==
  ASSUME OInv, NEW c \in Conns, Publish(c), UNCHANGED responderVars
  PROVE  HostPart' /\ ReplyPart'
<1>. DEFINE q == [id |-> corr[c], name |-> name[c], replyTo |-> c]
<1>1. /\ UNCHANGED <<tasks, replied, corr, nextId, replies, result, lost>>
      /\ pc[c] = "publish"
      /\ \A d \in Conns : pc'[d] = IF d = c THEN "collect" ELSE pc[d]
  BY DEF Publish, Goto, responderVars, OInv, IInv, TypeOK, QueryTypeOK
<1>2. \A n \in Nodes : \A m \in requests'[n] : m \in requests[n] \/ m = q
  BY DEF Publish, PublishFanout
<1>3. q.replyTo = c /\ q.id = corr[c]
  OBVIOUS
<1>. HIDE DEF q
<1>4. HostPart'
  BY <1>1, <1>2, <1>3, QueueOnce
<1>5. ReplyPart'
  BY <1>1, ReplyKeeps DEF OInv, Asking
<1>. QED BY <1>4, <1>5

LEMMA ReceiveOnce ==
  ASSUME OInv, NEW c \in Conns, Receive(c), UNCHANGED responderVars
  PROVE  HostPart' /\ ReplyPart'
<1>1. /\ UNCHANGED <<requests, tasks, replied, corr, nextId, lost>>
      /\ pc[c] = "collect"
      /\ \A d \in Conns : pc'[d] = IF d = c THEN "settle" ELSE pc[d]
  BY DEF Receive, Goto, responderVars, OInv, IInv, TypeOK, QueryTypeOK
<1>2. HostPart'
  BY <1>1, HostKeeps DEF OInv
<1>3. PICK m \in replies[c] :
        /\ TakeReply(c, m)
        /\ result' = [result EXCEPT ![c] = IF Merges(c, m) THEN @ \cup {m} ELSE @]
  BY DEF Receive
<1>4. /\ \A d \in Conns : replies'[d] = IF d = c THEN replies[d] \ {m} ELSE replies[d]
      /\ \A d \in Conns : result'[d] = IF d = c /\ Merges(c, m) THEN result[d] \cup {m}
                                                                ELSE result[d]
  BY <1>3 DEF TakeReply, OInv, IInv, TypeOK, BrokerTypeOK, QueryTypeOK
<1>5. corr[c] # NoId
  BY <1>1 DEF OInv, IInv, IdsReal, Asking
<1>6. Merges(c, m) => Mergeable(m) /\ m.id = corr[c] /\ <<m.from, m.id>> \in replied
  BY <1>5 DEF Merges, Mergeable, OInv, ReplyPart, Recorded
<1>7. Recorded'
  <2>. SUFFICES ASSUME NEW d \in Conns
                PROVE  /\ \A r \in replies'[d] : Mergeable(r) => <<r.from, r.id>> \in replied
                       /\ \A r \in result'[d] : /\ Mergeable(r) /\ r.id = corr[d]
                                                /\ <<r.from, r.id>> \in replied
                       /\ pc'[d] = "consume" => result'[d] = {}
    BY <1>1 DEF Recorded, Mergeable
  <2>1. \A r \in replies[d] : Mergeable(r) => <<r.from, r.id>> \in replied
    BY DEF OInv, ReplyPart, Recorded
  <2>2. /\ \A r \in result[d] : Mergeable(r) /\ r.id = corr[d] /\ <<r.from, r.id>> \in replied
        /\ pc[d] = "consume" => result[d] = {}
    BY DEF OInv, ReplyPart, Recorded
  <2>3. replies'[d] \subseteq replies[d]
    BY <1>4
  <2>4. \A r \in result'[d] : r \in result[d] \/ (d = c /\ Merges(c, m) /\ r = m)
    BY <1>4
  <2>5. pc'[d] = "consume" => d # c /\ pc[d] = "consume" /\ result'[d] = result[d]
    BY <1>1, <1>4
  <2>. QED BY <1>6, <2>1, <2>2, <2>3, <2>4, <2>5
<1>8. \A d \in Conns : replies'[d] \cup result'[d] \subseteq replies[d] \cup result[d]
  BY <1>4
<1>9. OneReply'
  BY <1>8 DEF OInv, ReplyPart, OneReply, Mergeable
<1>10. ReplyConserved'
  <2>. SUFFICES ASSUME NEW d \in Conns, NEW n \in Nodes, pc'[d] \in Asking \ {"consume"},
                       <<n, corr[d]>> \in replied \ lost
                PROVE  \E r \in replies'[d] \cup result'[d] :
                         r.from = n /\ r.id = corr[d] /\ r.ok
    BY <1>1 DEF ReplyConserved
  <2>1. pc[d] \in Asking \ {"consume"}
    BY <1>1 DEF Asking
  <2>2. PICK r \in replies[d] \cup result[d] : r.from = n /\ r.id = corr[d] /\ r.ok
    BY <2>1 DEF OInv, ReplyPart, ReplyConserved
  <2>3. r \in replies'[d] \cup result'[d]
    BY <1>4, <2>2 DEF Merges
  <2>. QED BY <2>2, <2>3
<1>. QED BY <1>2, <1>7, <1>9, <1>10 DEF ReplyPart

LEMMA StaleTakeOnce ==
  ASSUME OInv, NEW c \in Conns, StaleTake(c), UNCHANGED responderVars
  PROVE  HostPart' /\ ReplyPart'
<1>1. UNCHANGED <<requests, tasks, replied, corr, nextId, pc, result>>
  BY DEF StaleTake, responderVars
<1>2. HostPart'
  BY <1>1, HostKeeps DEF OInv
<1>3. PICK m \in replies[c] : TakeReply(c, m) /\ lost' = lost \cup {<<m.from, m.id>>}
  BY DEF StaleTake
<1>4. \A d \in Conns : replies'[d] = IF d = c THEN replies[d] \ {m} ELSE replies[d]
  BY <1>3 DEF TakeReply, OInv, IInv, TypeOK, BrokerTypeOK
<1>5. Recorded'
  BY <1>1, <1>4 DEF OInv, ReplyPart, Recorded, Mergeable
<1>6. OneReply'
  <2>1. \A d \in Conns : replies'[d] \cup result'[d] \subseteq replies[d] \cup result[d]
    BY <1>1, <1>4
  <2>. QED BY <2>1 DEF OInv, ReplyPart, OneReply, Mergeable
<1>7. ReplyConserved'
  <2>. SUFFICES ASSUME NEW d \in Conns, NEW n \in Nodes, pc[d] \in Asking \ {"consume"},
                       <<n, corr[d]>> \in replied \ lost'
                PROVE  \E r \in replies'[d] \cup result[d] :
                         r.from = n /\ r.id = corr[d] /\ r.ok
    BY <1>1 DEF ReplyConserved
  <2>1. PICK r \in replies[d] \cup result[d] : r.from = n /\ r.id = corr[d] /\ r.ok
    BY <1>3 DEF OInv, ReplyPart, ReplyConserved
  <2>2. r # m
    BY <1>3, <2>1
  <2>. QED BY <1>4, <2>1, <2>2
<1>. QED BY <1>2, <1>5, <1>6, <1>7 DEF ReplyPart

LEMMA BackendOnce ==
  ASSUME OInv, NEW c \in Conns, BackendStep(c)
  PROVE  HostPart' /\ ReplyPart'
<1>0. UNCHANGED responderVars
  BY DEF BackendStep
<1>1. CASE Consume(c) \/ Publish(c) \/ Receive(c) \/ StaleTake(c)
  BY <1>0, <1>1, ConsumeOnce, PublishOnce, ReceiveOnce, StaleTakeOnce
<1>2. CASE \/ Open(c) \/ Settled(c) \/ Quiet(c) \/ OuterTimeout(c) \/ Taint(c) \/ Close(c)
           \/ StaleCancelled(c)
  <2>1. UNCHANGED <<requests, tasks, replied, corr, nextId, replies, result, lost>>
    BY <1>0, <1>2 DEF Open, Settled, Quiet, OuterTimeout, Respond, Taint, Close,
                      StaleCancelled, brokerVars, responderVars
  <2>2. \A d \in Conns : /\ pc'[d] = "publish" => pc[d] = "publish"
                         /\ pc'[d] = "consume" => pc[d] = "consume"
                         /\ pc'[d] \in Asking \ {"consume"} => pc[d] \in Asking \ {"consume"}
    BY <1>2 DEF Open, Settled, Quiet, OuterTimeout, Respond, Taint, Close, StaleCancelled,
                Goto, Asking, OInv, IInv, TypeOK, QueryTypeOK
  <2>. QED BY <2>1, <2>2, HostKeeps, ReplyKeeps DEF OInv
<1>. QED BY <1>1, <1>2 DEF BackendStep, HandlerStep
-----------------------------------------------------------------------------
(***************************************************************************)
(* The responders.  What they hold after a step, they held before it.      *)
(***************************************************************************)
LEMMA HeldBefore ==
  ASSUME OInv, UNCHANGED <<pc, corr>>,
         \A h \in Nodes : \A m \in requests'[h] :
           m \in requests[h] \/ \E t \in tasks[h] : m = t.msg,
         \A h \in Nodes : \A x \in tasks'[h] :
           x.msg \in requests[h] \/ \E t \in tasks[h] : x.msg = t.msg,
         \A h \in Nodes, c \in Conns : <<h, corr[c]>> \in replied' =>
           <<h, corr[c]>> \in replied \/ \E t \in tasks[h] : t.msg.id = corr[c]
  PROVE  Unsent' /\ Owned'
<1>1. Unsent'
  <2>. SUFFICES ASSUME NEW c \in Conns, pc[c] = "publish", NEW h \in Nodes
                PROVE  /\ <<h, corr[c]>> \notin replied'
                       /\ \A m \in requests'[h] : m.id # corr[c]
                       /\ \A t \in tasks'[h] : t.msg.id # corr[c]
    BY DEF Unsent
  <2>1. /\ <<h, corr[c]>> \notin replied
        /\ \A m \in requests[h] : m.id # corr[c]
        /\ \A t \in tasks[h] : t.msg.id # corr[c]
    BY DEF OInv, HostPart, Unsent
  <2>. QED BY <2>1
<1>2. Owned'
  <2>. SUFFICES ASSUME NEW c \in Conns, NEW h \in Nodes
                PROVE  /\ \A m \in requests'[h] : m.id = corr[c] => m.replyTo = c \/ m.id = NoId
                       /\ \A t \in tasks'[h] :
                            t.msg.id = corr[c] => t.msg.replyTo = c \/ t.msg.id = NoId
    BY DEF Owned
  <2>1. /\ \A m \in requests[h] : m.id = corr[c] => m.replyTo = c \/ m.id = NoId
        /\ \A t \in tasks[h] :
             t.msg.id = corr[c] => t.msg.replyTo = c \/ t.msg.id = NoId
    BY DEF OInv, HostPart, Owned
  <2>. QED BY <2>1
<1>. QED BY <1>1, <1>2

LEMMA AcceptOnce ==
  ASSUME OInv, NEW n \in Nodes, Accept(n), UNCHANGED queryVars
  PROVE  HostPart' /\ ReplyPart'
<1>1. PICK m \in requests[n] :
        /\ requests' = [requests EXCEPT ![n] = @ \ {m}]
        /\ tasks' = [tasks EXCEPT ![n] = @ \cup
             {[msg   |-> m,
               step  |-> IF m.name = BadName \/ m.id = NoId THEN "reject" ELSE "lookup",
               addrs |-> {}]}]
  BY DEF Accept
<1>. DEFINE u == [msg   |-> m,
                  step  |-> IF m.name = BadName \/ m.id = NoId THEN "reject" ELSE "lookup",
                  addrs |-> {}]
<1>2. /\ UNCHANGED <<replies, replied, pc, corr, result, lost, nextId>>
      /\ \A h \in Nodes : requests'[h] = IF h = n THEN requests[h] \ {m} ELSE requests[h]
      /\ \A h \in Nodes : tasks'[h] = IF h = n THEN tasks[h] \cup {u} ELSE tasks[h]
  BY <1>1 DEF Accept, queryVars, OInv, IInv, TypeOK, BrokerTypeOK, ResponderTypeOK
<1>3. u.msg = m /\ (u.step \in {"lookup", "reply", "requeue"} => m.id # NoId)
  OBVIOUS
<1>. HIDE DEF u
<1>4. RepliedDrawn' /\ Distinct'
  BY <1>2 DEF OInv, HostPart, RepliedDrawn, Distinct
<1>5. Unsent' /\ Owned'
  <2>1. \A h \in Nodes : \A x \in tasks'[h] : x \in tasks[h] \/ (h = n /\ x = u)
    BY <1>2
  <2>2. \A h \in Nodes : \A x \in requests'[h] : x \in requests[h]
    BY <1>2
  <2>. QED BY <1>2, <1>3, <2>1, <2>2, HeldBefore
<1>6. OneCopy'
  <2>. SUFFICES ASSUME NEW h \in Nodes
                PROVE  /\ \A m1, m2 \in requests'[h] : m1.id = m2.id => m1 = m2 \/ m1.id = NoId
                       /\ \A t1, t2 \in tasks'[h] :
                            t1.msg.id = t2.msg.id => t1 = t2 \/ t1.msg.id = NoId
                       /\ \A m1 \in requests'[h], t \in tasks'[h] :
                            m1.id = t.msg.id => m1.id = NoId
    BY DEF OneCopy
  <2>1. CASE h # n
    BY <1>2, <2>1 DEF OInv, HostPart, OneCopy
  <2>2. CASE h = n
    <3>1. \A m1, m2 \in requests'[h] : m1.id = m2.id => m1 = m2 \/ m1.id = NoId
      BY <1>2, <2>2 DEF OInv, HostPart, OneCopy
    <3>2. \A t \in tasks[h] : m.id = t.msg.id => m.id = NoId
      BY <2>2 DEF OInv, HostPart, OneCopy
    <3>. \A x \in tasks'[h] : x \in tasks[h] \/ x = u
      BY <1>2, <2>2
    <3>3. \A t1, t2 \in tasks'[h] : t1.msg.id = t2.msg.id => t1 = t2 \/ t1.msg.id = NoId
      <4>1. \A t1, t2 \in tasks[h] : t1.msg.id = t2.msg.id => t1 = t2 \/ t1.msg.id = NoId
        BY DEF OInv, HostPart, OneCopy
      <4>. QED BY <1>3, <3>2, <4>1
    <3>4. \A m1 \in requests'[h], t \in tasks'[h] : m1.id = t.msg.id => m1.id = NoId
      <4>1. \A m1 \in requests[h], t \in tasks[h] : m1.id = t.msg.id => m1.id = NoId
        BY DEF OInv, HostPart, OneCopy
      <4>2. \A m1 \in requests[h] : m1.id = m.id => m1 = m \/ m1.id = NoId
        BY <2>2 DEF OInv, HostPart, OneCopy
      <4>3. \A m1 \in requests'[h] : m1 \in requests[h] /\ m1 # m
        BY <1>2, <2>2
      <4>. QED BY <1>3, <4>1, <4>2, <4>3
    <3>. QED BY <3>1, <3>3, <3>4
  <2>. QED BY <2>1, <2>2
<1>7. Unreplied'
  <2>. SUFFICES ASSUME NEW h \in Nodes
                PROVE  /\ \A m1 \in requests'[h] : <<h, m1.id>> \in replied => m1.id = NoId
                       /\ \A t \in tasks'[h] : t.step \in {"lookup", "reply", "requeue"} =>
                            t.msg.id # NoId /\ <<h, t.msg.id>> \notin replied
    BY <1>2 DEF Unreplied
  <2>1. /\ \A m1 \in requests[h] : <<h, m1.id>> \in replied => m1.id = NoId
        /\ \A t \in tasks[h] : t.step \in {"lookup", "reply", "requeue"} =>
             t.msg.id # NoId /\ <<h, t.msg.id>> \notin replied
    BY DEF OInv, HostPart, Unreplied
  <2>2. \A x \in tasks'[h] : x \in tasks[h] \/ (m \in requests[h] /\ x = u)
    BY <1>2
  <2>3. \A x \in requests'[h] : x \in requests[h]
    BY <1>2
  <2>. QED BY <1>3, <2>1, <2>2, <2>3
<1>8. ReplyPart'
  BY <1>2, ReplyKeeps DEF OInv
<1>. QED BY <1>4, <1>5, <1>6, <1>7, <1>8 DEF HostPart

\* A delivery that could be answered moves on, answered now or not.
LEMMA BecomeOnce ==
  ASSUME OInv, NEW n \in Nodes, NEW t \in tasks[n], NEW u, u.msg = t.msg,
         t.step \in {"lookup", "reply", "requeue"}, Become(n, t, u),
         \/ replied' = replied
         \/ /\ replied' = replied \cup {<<n, t.msg.id>>}
            /\ u.step \notin {"lookup", "reply", "requeue"},
         UNCHANGED <<requests, pc, corr, nextId>>
  PROVE  HostPart'
<1>1. \A h \in Nodes : tasks'[h] = IF h = n THEN (tasks[h] \ {t}) \cup {u} ELSE tasks[h]
  BY DEF Become, OInv, IInv, TypeOK, ResponderTypeOK
<1>2. \A r \in replied' : r \in replied \/ r = <<n, t.msg.id>>
  OBVIOUS
<1>3. t.msg.id # NoId /\ <<n, t.msg.id>> \notin replied
  BY DEF OInv, HostPart, Unreplied
<1>4. RepliedDrawn' /\ Distinct'
  <2>1. t.msg.id < nextId
    BY DEF OInv, IInv, IdsDrawn
  <2>. QED BY <1>2, <2>1 DEF OInv, HostPart, RepliedDrawn, Distinct
<1>5. Unsent' /\ Owned'
  <2>1. \A h \in Nodes : \A x \in tasks'[h] : x \in tasks[h] \/ (h = n /\ x = u)
    BY <1>1
  <2>2. \A h \in Nodes, c \in Conns : <<h, corr[c]>> \in replied' =>
          <<h, corr[c]>> \in replied \/ (h = n /\ corr[c] = t.msg.id)
    BY <1>2
  <2>. QED BY <2>1, <2>2, HeldBefore
<1>6. /\ \A m \in requests[n] : m.id # t.msg.id
      /\ \A t2 \in tasks[n] : t2.msg.id = t.msg.id => t2 = t
  BY <1>3 DEF OInv, HostPart, OneCopy
<1>7. OneCopy'
  <2>. SUFFICES ASSUME NEW h \in Nodes
                PROVE  /\ \A m1, m2 \in requests[h] : m1.id = m2.id => m1 = m2 \/ m1.id = NoId
                       /\ \A t1, t2 \in tasks'[h] :
                            t1.msg.id = t2.msg.id => t1 = t2 \/ t1.msg.id = NoId
                       /\ \A m1 \in requests[h], t2 \in tasks'[h] :
                            m1.id = t2.msg.id => m1.id = NoId
    BY DEF OneCopy
  <2>1. CASE h # n
    BY <1>1, <2>1 DEF OInv, HostPart, OneCopy
  <2>2. CASE h = n
    <3>1. /\ \A m1, m2 \in requests[n] : m1.id = m2.id => m1 = m2 \/ m1.id = NoId
          /\ \A t1, t2 \in tasks[n] :
               t1.msg.id = t2.msg.id => t1 = t2 \/ t1.msg.id = NoId
          /\ \A m1 \in requests[n], t2 \in tasks[n] : m1.id = t2.msg.id => m1.id = NoId
      BY DEF OInv, HostPart, OneCopy
    <3>2. \A x \in tasks'[n] : (x \in tasks[n] /\ x # t) \/ x = u
      BY <1>1
    <3>. QED BY <1>6, <2>2, <3>1, <3>2
  <2>. QED BY <2>1, <2>2
<1>8. Unreplied'
  <2>. SUFFICES ASSUME NEW h \in Nodes
                PROVE  /\ \A m \in requests[h] : <<h, m.id>> \in replied' => m.id = NoId
                       /\ \A t2 \in tasks'[h] : t2.step \in {"lookup", "reply", "requeue"} =>
                            t2.msg.id # NoId /\ <<h, t2.msg.id>> \notin replied'
    BY DEF Unreplied
  <2>1. CASE h # n
    BY <1>1, <1>2, <2>1 DEF OInv, HostPart, Unreplied
  <2>2. CASE h = n
    <3>1. \A m \in requests[h] : <<h, m.id>> \in replied' => m.id = NoId
      BY <1>2, <1>6, <2>2 DEF OInv, HostPart, Unreplied
    <3>2. \A t2 \in tasks[n] \ {t} : t2.step \in {"lookup", "reply", "requeue"} =>
            t2.msg.id # NoId /\ <<n, t2.msg.id>> \notin replied'
      BY <1>2, <1>6 DEF OInv, HostPart, Unreplied
    <3>3. u.step \in {"lookup", "reply", "requeue"} =>
            u.msg.id # NoId /\ <<n, u.msg.id>> \notin replied'
      BY <1>3
    <3>. QED BY <1>1, <2>2, <3>1, <3>2, <3>3
  <2>. QED BY <2>1, <2>2
<1>. QED BY <1>4, <1>5, <1>7, <1>8 DEF HostPart

LEMMA LookupOnce ==
  ASSUME OInv, NEW n \in Nodes, NEW t \in tasks[n], Lookup(n, t), UNCHANGED queryVars
  PROVE  HostPart' /\ ReplyPart'
<1>1. PICK u : Become(n, t, u) /\ u.msg = t.msg
  <2>1. t \in Task
    BY DEF OInv, IInv, TypeOK, ResponderTypeOK
  <2>2. t = [msg |-> t.msg, step |-> t.step, addrs |-> t.addrs]
    BY <2>1 DEF Task
  <2>3. /\ [t EXCEPT !.step = "requeue"].msg = t.msg
        /\ [t EXCEPT !.step = "reject"].msg = t.msg
        /\ \A a : [t EXCEPT !.step = "reply", !.addrs = a].msg = t.msg
    BY <2>2
  <2>. QED BY <2>3 DEF Lookup
<1>2. /\ t.step = "lookup"
      /\ UNCHANGED <<replied, requests, replies, pc, corr, result, lost, nextId>>
  BY DEF Lookup, brokerVars, queryVars
<1>. QED BY <1>1, <1>2, BecomeOnce, ReplyKeeps DEF OInv

LEMMA PublishAddressesOnce ==
  ASSUME OInv, NEW n \in Nodes, NEW t \in tasks[n], PublishAddresses(n, t),
         UNCHANGED queryVars
  PROVE  HostPart' /\ ReplyPart'
<1>. DEFINE u == [t EXCEPT !.step = "ack"]
            r == [id |-> t.msg.id, from |-> n, ok |-> TRUE, addrs |-> t.addrs]
            d == t.msg.replyTo
<1>1. /\ t.step = "reply" /\ Become(n, t, u)
      /\ replied' = replied \cup {<<n, t.msg.id>>}
      /\ UNCHANGED <<requests, pc, corr, nextId, result, lost>>
  BY DEF PublishAddresses, queryVars
<1>2. t = [msg |-> t.msg, step |-> t.step, addrs |-> t.addrs] /\ d \in Conns
  BY DEF OInv, IInv, TypeOK, ResponderTypeOK, Task, Request
<1>3. u.msg = t.msg /\ u.step = "ack"
  BY <1>2
<1>4. HostPart'
  BY <1>1, <1>3, BecomeOnce
<1>5. \A c \in Conns : replies'[c] = IF c = d THEN replies[c] \cup {r} ELSE replies[c]
  BY <1>2 DEF PublishAddresses, PublishReply, OInv, IInv, TypeOK, BrokerTypeOK
<1>6. r.id = t.msg.id /\ r.from = n /\ r.ok
  OBVIOUS
<1>. HIDE DEF r, u
<1>7. t.msg.id # NoId /\ <<n, t.msg.id>> \notin replied
  BY <1>1 DEF OInv, HostPart, Unreplied
<1>8. Recorded'
  <2>. SUFFICES ASSUME NEW c \in Conns
                PROVE  /\ \A m \in replies'[c] : Mergeable(m) => <<m.from, m.id>> \in replied'
                       /\ \A m \in result[c] : /\ Mergeable(m) /\ m.id = corr[c]
                                               /\ <<m.from, m.id>> \in replied'
                       /\ pc[c] = "consume" => result[c] = {}
    BY <1>1 DEF Recorded, Mergeable
  <2>1. /\ \A m \in replies[c] : Mergeable(m) => <<m.from, m.id>> \in replied
        /\ \A m \in result[c] : Mergeable(m) /\ m.id = corr[c] /\ <<m.from, m.id>> \in replied
        /\ pc[c] = "consume" => result[c] = {}
    BY DEF OInv, ReplyPart, Recorded
  <2>2. \A m \in replies'[c] : m \in replies[c] \/ m = r
    BY <1>5
  <2>3. <<r.from, r.id>> \in replied' /\ replied \subseteq replied'
    BY <1>1, <1>6
  <2>. QED BY <2>1, <2>2, <2>3
<1>9. \A c \in Conns : \A m \in replies[c] \cup result[c] :
        Mergeable(m) /\ m.id = r.id => m.from # r.from
  BY <1>6, <1>7 DEF OInv, ReplyPart, Recorded
<1>10. \A c \in Conns : \A m \in replies'[c] \cup result[c] :
         m \in replies[c] \cup result[c] \/ m = r
  BY <1>5
<1>11. OneReply'
  <2>. SUFFICES ASSUME NEW c \in Conns, NEW m1 \in replies'[c] \cup result[c],
                       NEW m2 \in replies'[c] \cup result[c], Mergeable(m1), Mergeable(m2),
                       m1.id = m2.id, m1.from = m2.from
                PROVE  m1 = m2
    BY <1>1 DEF OneReply, Mergeable
  <2>. QED BY <1>9, <1>10 DEF OInv, ReplyPart, OneReply
<1>12. ReplyConserved'
  <2>. SUFFICES ASSUME NEW c \in Conns, NEW h \in Nodes, pc[c] \in Asking \ {"consume"},
                       <<h, corr[c]>> \in replied' \ lost
                PROVE  \E m \in replies'[c] \cup result[c] :
                         m.from = h /\ m.id = corr[c] /\ m.ok
    BY <1>1 DEF ReplyConserved
  <2>1. CASE <<h, corr[c]>> \in replied
    BY <1>5, <2>1 DEF OInv, ReplyPart, ReplyConserved
  <2>2. CASE <<h, corr[c]>> \notin replied
    <3>1. h = n /\ corr[c] = t.msg.id
      BY <1>1, <2>2
    <3>2. c = d
      BY <1>7, <3>1 DEF OInv, HostPart, Owned
    <3>. QED BY <1>5, <1>6, <3>1, <3>2
  <2>. QED BY <2>1, <2>2
<1>. QED BY <1>4, <1>8, <1>11, <1>12 DEF ReplyPart

LEMMA SettleOnce ==
  ASSUME OInv, NEW n \in Nodes, NEW t \in tasks[n], Settle(n, t), UNCHANGED queryVars
  PROVE  HostPart' /\ ReplyPart'
<1>1. /\ UNCHANGED <<replies, replied, pc, corr, result, lost, nextId>>
      /\ \A h \in Nodes : tasks'[h] = IF h = n THEN tasks[h] \ {t} ELSE tasks[h]
      /\ \A h \in Nodes : requests'[h] = IF h = n /\ t.step = "requeue"
                                         THEN requests[h] \cup {t.msg} ELSE requests[h]
  BY DEF Settle, queryVars, OInv, IInv, TypeOK, BrokerTypeOK, ResponderTypeOK
<1>2. ReplyPart'
  BY <1>1, ReplyKeeps DEF OInv
<1>3. CASE t.step # "requeue"
  BY <1>1, <1>2, <1>3, HostKeeps DEF OInv
<1>4. CASE t.step = "requeue"
  <2>1. /\ t.msg.id # NoId /\ <<n, t.msg.id>> \notin replied
        /\ \A m \in requests[n] : m.id # t.msg.id
        /\ \A t2 \in tasks[n] \ {t} : t2.msg.id # t.msg.id
    BY <1>4 DEF OInv, HostPart, Unreplied, OneCopy
  <2>2. RepliedDrawn' /\ Distinct'
    BY <1>1 DEF OInv, HostPart, RepliedDrawn, Distinct
  <2>3. Unsent' /\ Owned'
    <3>1. \A h \in Nodes : \A x \in tasks'[h] : x \in tasks[h]
      BY <1>1
    <3>2. \A h \in Nodes : \A x \in requests'[h] : x \in requests[h] \/ (h = n /\ x = t.msg)
      BY <1>1
    <3>. QED BY <1>1, <3>1, <3>2, HeldBefore
  <2>4. OneCopy'
    <3>. SUFFICES ASSUME NEW h \in Nodes
                  PROVE  /\ \A m1, m2 \in requests'[h] :
                              m1.id = m2.id => m1 = m2 \/ m1.id = NoId
                         /\ \A t1, t2 \in tasks'[h] :
                              t1.msg.id = t2.msg.id => t1 = t2 \/ t1.msg.id = NoId
                         /\ \A m \in requests'[h], t2 \in tasks'[h] :
                              m.id = t2.msg.id => m.id = NoId
      BY DEF OneCopy
    <3>1. CASE h # n
      BY <1>1, <3>1 DEF OInv, HostPart, OneCopy
    <3>2. CASE h = n
      <4>1. /\ \A m1, m2 \in requests[n] : m1.id = m2.id => m1 = m2 \/ m1.id = NoId
            /\ \A t1, t2 \in tasks[n] :
                 t1.msg.id = t2.msg.id => t1 = t2 \/ t1.msg.id = NoId
            /\ \A m \in requests[n], t2 \in tasks[n] : m.id = t2.msg.id => m.id = NoId
        BY DEF OInv, HostPart, OneCopy
      <4>2. \A x \in tasks'[n] : x \in tasks[n] /\ x # t
        BY <1>1
      <4>3. \A x \in requests'[n] : x \in requests[n] \/ x = t.msg
        BY <1>1
      <4>. QED BY <2>1, <3>2, <4>1, <4>2, <4>3
    <3>. QED BY <3>1, <3>2
  <2>5. Unreplied'
    BY <1>1, <2>1 DEF OInv, HostPart, Unreplied
  <2>. QED BY <1>2, <2>2, <2>3, <2>4, <2>5 DEF HostPart
<1>. QED BY <1>3, <1>4
-----------------------------------------------------------------------------
(***************************************************************************)
(* The environment, and the theorems.                                      *)
(***************************************************************************)
LEMMA StrayReplyOnce ==
  ASSUME OInv, NEW c \in Conns, StrayReply(c)
  PROVE  HostPart' /\ ReplyPart'
<1>1. PICK n \in Nodes, id \in {NoId, corr[c]}, ok \in BOOLEAN :
        /\ id = NoId \/ ~ok
        /\ PublishReply(c, [id |-> id, from |-> n, ok |-> ok, addrs |-> {}])
  BY DEF StrayReply
<1>. DEFINE r == [id |-> id, from |-> n, ok |-> ok, addrs |-> {}]
<1>2. ~ Mergeable(r)
  BY <1>1 DEF Mergeable
<1>3. \A d \in Conns : replies'[d] = IF d = c THEN replies[d] \cup {r} ELSE replies[d]
  BY <1>1 DEF PublishReply, OInv, IInv, TypeOK, BrokerTypeOK
<1>. HIDE DEF r
<1>4. UNCHANGED <<requests, tasks, replied, pc, corr, nextId, result, lost>>
  BY DEF StrayReply, queryVars, responderVars
<1>5. HostPart'
  BY <1>4, HostKeeps DEF OInv
<1>6. Recorded'
  BY <1>2, <1>3, <1>4 DEF OInv, ReplyPart, Recorded, Mergeable
<1>7. OneReply'
  <2>1. \A d \in Conns : \A m \in replies'[d] \cup result[d] :
          Mergeable(m) => m \in replies[d] \cup result[d]
    BY <1>2, <1>3
  <2>. QED BY <1>4, <2>1 DEF OInv, ReplyPart, OneReply, Mergeable
<1>8. ReplyConserved'
  <2>1. \A d \in Conns : replies[d] \subseteq replies'[d]
    BY <1>3
  <2>. QED BY <1>4, <2>1 DEF OInv, ReplyPart, ReplyConserved
<1>. QED BY <1>5, <1>6, <1>7, <1>8 DEF ReplyPart

LEMMA EnvironmentOnce ==
  ASSUME OInv, Environment
  PROVE  HostPart' /\ ReplyPart'
<1>1. ASSUME NEW n \in Nodes,
             \/ \E x \in Names : InstanceChange(n, x)
             \/ LxcFails(n) \/ LxcRecovers(n) \/ ResponderExits(n) \/ ResponderStarts(n)
      PROVE  HostPart' /\ ReplyPart'
  <2>1. /\ UNCHANGED <<queryVars, replies, replied>>
        /\ \A h \in Nodes : requests'[h] \subseteq requests[h] /\ tasks'[h] \subseteq tasks[h]
    BY <1>1 DEF InstanceChange, LxcFails, LxcRecovers, ResponderExits, ResponderStarts, Exit,
                Start, DropQueue, DeclareQueue, brokerVars, responderVars, OInv, IInv, TypeOK,
                BrokerTypeOK, ResponderTypeOK
  <2>. QED BY <2>1, HostKeeps, ReplyKeeps DEF OInv, queryVars
<1>2. CASE StrayRequest
  <2>1. PICK x \in Names \cup {BadName}, c \in Conns :
          PublishFanout([id |-> NoId, name |-> x, replyTo |-> c])
    BY <1>2 DEF StrayRequest
  <2>. DEFINE q == [id |-> NoId, name |-> x, replyTo |-> c]
  <2>2. /\ \A h \in Nodes : \A m \in requests'[h] : m \in requests[h] \/ m = q
        /\ UNCHANGED <<queryVars, tasks, replied, replies>>
    BY <1>2, <2>1 DEF StrayRequest, PublishFanout, responderVars
  <2>3. q.id = NoId /\ q.replyTo = c
    OBVIOUS
  <2>. HIDE DEF q
  <2>4. HostPart'
    BY <2>2, <2>3, QueueOnce DEF queryVars
  <2>5. ReplyPart'
    BY <2>2, ReplyKeeps DEF OInv, queryVars
  <2>. QED BY <2>4, <2>5
<1>3. ASSUME NEW n \in Nodes, LxcHangs(n) PROVE HostPart' /\ ReplyPart'
  <2>1. PICK t \in tasks[n] : Hang(n, t)
    BY <1>3 DEF LxcHangs
  <2>. DEFINE u == [t EXCEPT !.step = "hung"]
  <2>2. t \in Task
    BY DEF OInv, IInv, TypeOK, ResponderTypeOK
  <2>3. u.msg = t.msg /\ t.step = "lookup" /\ Become(n, t, u)
    BY <2>1, <2>2 DEF Task, Hang
  <2>4. UNCHANGED <<replied, requests, replies, pc, corr, result, lost, nextId>>
    BY <1>3, <2>1 DEF LxcHangs, Hang, brokerVars, queryVars
  <2>. HIDE DEF u
  <2>. QED BY <2>3, <2>4, BecomeOnce, ReplyKeeps DEF OInv
<1>. QED BY <1>1, <1>2, <1>3, StrayReplyOnce DEF Environment

LEMMA OInvStep == OInv /\ [Next]_vars => OInv'
<1>. SUFFICES ASSUME OInv, [Next]_vars PROVE OInv'
  OBVIOUS
<1>1. IInv'
  BY IInvStep DEF OInv
<1>2. ASSUME NEW n \in Nodes, HostStep(n) PROVE HostPart' /\ ReplyPart'
  BY <1>2, AcceptOnce, LookupOnce, PublishAddressesOnce, SettleOnce DEF HostStep, ResponderStep
<1>3. ASSUME UNCHANGED vars PROVE HostPart' /\ ReplyPart'
  BY <1>3, HostKeeps, ReplyKeeps DEF OInv, vars, brokerVars, queryVars, responderVars
<1>4. HostPart' /\ ReplyPart'
  BY <1>2, <1>3, AskOnce, BackendOnce, EnvironmentOnce DEF Next
<1>. QED BY <1>1, <1>4 DEF OInv

LEMMA OnceInv == Spec => []OInv
  BY OInvInit, OInvStep, PTL DEF Spec

\* A host that published its reply has no delivery left to answer again, and
\* no answer merges two replies of a host, for all values of the constants.
THEOREM HostsAnswerOnce == Spec => []HostAnswersOnce
<1>1. OInv => HostAnswersOnce
  <2>. SUFFICES ASSUME OInv PROVE HostAnswersOnce
    OBVIOUS
  <2>1. \A n \in Nodes : \A t \in tasks[n] : t.step = "reply" => <<n, t.msg.id>> \notin replied
    BY DEF OInv, HostPart, Unreplied
  <2>2. ASSUME NEW c \in Conns, NEW m1 \in result[c], NEW m2 \in result[c], m1.from = m2.from
        PROVE  m1 = m2
    BY <2>2 DEF OInv, ReplyPart, Recorded, OneReply
  <2>. QED BY <2>1, <2>2 DEF HostAnswersOnce
<1>. QED BY <1>1, OnceInv, PTL

\* While a lookup runs, a reply that was published for it is in its queue or
\* merged, unless an earlier consumer took it, for all values of the constants.
THEOREM RepliesAreConserved == Spec => []ReplyConserved
<1>1. OInv => ReplyConserved
  BY DEF OInv, ReplyPart
<1>. QED BY <1>1, OnceInv, PTL
-----------------------------------------------------------------------------
(***************************************************************************)
(* What a steady host has for a lookup that runs.  Until it has replied it *)
(* holds the request; a task that is to be rejected found no instance, and *)
(* what is replied is what the host still reports.                         *)
(***************************************************************************)
Published(c) == pc[c] \in {"collect", "settle"}

SteadyTasks(c, n) ==
  \A t \in tasks[n] : Awaiting(c, t.msg.id) =>
    /\ t.step = "reply" => t.addrs \in lxd[n][name[c]]
    /\ t.step = "reject" => lxd[n][name[c]] = None

SteadyReplies(c, n) ==
  \A m \in replies[c] \cup result[c] :
    Awaiting(c, m.id) /\ m.from = n /\ m.ok => m.addrs \in lxd[n][name[c]]

SteadyKept(c, n) ==
  Published(c) /\ lxd[n][name[c]] # None =>
    AtHost(n, name[c], corr[c]) \/ <<n, corr[c]>> \in replied

SteadyPair(c, n) == SteadyTasks(c, n) /\ SteadyReplies(c, n) /\ SteadyKept(c, n)

SteadyUp == \A c \in Conns : steady[c] \subseteq bound

Acked == \A n \in Nodes : \A t \in tasks[n] : t.step = "ack" => <<n, t.msg.id>> \in replied

SteadyPart ==
  /\ SteadyUp
  /\ Acked
  /\ \A c \in Conns : \A n \in steady[c] : SteadyPair(c, n)

SInv == OInv /\ SteadyPart

\* The container a request with the id of a running lookup asks for.
LEMMA NamedByLookup ==
  ASSUME OInv, NEW c \in Conns, NEW n \in Nodes
  PROVE  /\ \A m \in requests[n] : Awaiting(c, m.id) => m.name = name[c]
         /\ \A t \in tasks[n] : Awaiting(c, t.msg.id) => t.msg.name = name[c]
<1>1. \A id : Awaiting(c, id) => id = corr[c] /\ id # NoId
  BY DEF Awaiting, OInv, IInv, IdsReal
<1>2. \A m \in requests[n] : Awaiting(c, m.id) => m.replyTo = c
  BY <1>1 DEF OInv, HostPart, Owned
<1>3. \A t \in tasks[n] : Awaiting(c, t.msg.id) => t.msg.replyTo = c
  BY <1>1 DEF OInv, HostPart, Owned
<1>4. \A m \in requests[n] : Awaiting(c, m.id) => m.name = name[c]
  BY <1>2 DEF OInv, IInv, RequestsNamed
<1>5. \A t \in tasks[n] : Awaiting(c, t.msg.id) => t.msg.name = name[c]
  BY <1>3 DEF OInv, IInv, TasksNamed
<1>. QED BY <1>4, <1>5

\* The pairs keep what they have when messages only vanish from the side of the
\* connection, requests only come, and no lookup is taken as published.
LEMMA PairKeeps ==
  ASSUME NEW c \in Conns, NEW n \in Nodes, SteadyPair(c, n),
         UNCHANGED <<tasks, replied>>, name'[c] = name[c], corr'[c] = corr[c],
         lxd'[n][name[c]] = lxd[n][name[c]],
         requests[n] \subseteq requests'[n],
         replies'[c] \cup result'[c] \subseteq replies[c] \cup result[c],
         pc'[c] \in Asking \ {"consume"} => pc[c] \in Asking \ {"consume"},
         Published(c)' => Published(c)
  PROVE  SteadyPair(c, n)'
<1>1. \A id : Awaiting(c, id)' => Awaiting(c, id)
  BY DEF Awaiting
<1>2. SteadyTasks(c, n)'
  BY <1>1 DEF SteadyPair, SteadyTasks
<1>3. SteadyReplies(c, n)'
  BY <1>1 DEF SteadyPair, SteadyReplies
<1>4. SteadyKept(c, n)'
  BY DEF SteadyPair, SteadyKept, AtHost
<1>. QED BY <1>2, <1>3, <1>4 DEF SteadyPair

LEMMA SInvInit == Init => SInv
<1>. SUFFICES ASSUME Init PROVE SInv
  OBVIOUS
<1>1. OInv
  BY OInvInit
<1>2. /\ \A c \in Conns : steady[c] = {}
      /\ \A n \in Nodes : tasks[n] = {}
  BY DEF Init, ResponderInit
<1>. QED BY <1>1, <1>2 DEF SInv, SteadyPart, SteadyUp, Acked
-----------------------------------------------------------------------------
(***************************************************************************)
(* The asking side.                                                        *)
(***************************************************************************)
LEMMA AskSteady ==
  ASSUME SInv, NEW c \in Conns, AskAndWatch(c)
  PROVE  SteadyPart'
<1>1. PICK x \in Names : Ask(c, x) /\ UNCHANGED responderVars
  BY DEF AskAndWatch
<1>2. /\ UNCHANGED <<bound, requests, tasks, lxd, replied, corr, replies>>
      /\ \A d \in Conns : pc'[d] = IF d = c THEN "consume" ELSE pc[d]
      /\ \A d \in Conns \ {c} : result'[d] = result[d] /\ name'[d] = name[d]
      /\ \A d \in Conns : steady'[d] = IF d = c THEN bound ELSE steady[d]
  BY <1>1 DEF AskAndWatch, Ask, Goto, brokerVars, responderVars, SInv, OInv, IInv, TypeOK,
              QueryTypeOK
<1>3. SteadyUp' /\ Acked'
  BY <1>2 DEF SInv, SteadyPart, SteadyUp, Acked
<1>4. ASSUME NEW d \in Conns, NEW n \in steady'[d] PROVE SteadyPair(d, n)'
  <2>1. n \in Nodes
    BY <1>2 DEF SInv, SteadyPart, SteadyUp, OInv, IInv, TypeOK, BrokerTypeOK
  <2>2. CASE d = c
    BY <1>2, <2>1, <2>2 DEF SteadyPair, SteadyTasks, SteadyReplies, SteadyKept, Awaiting,
                            Published
  <2>3. CASE d # c
    <3>1. SteadyPair(d, n)
      BY <1>2, <2>3 DEF SInv, SteadyPart
    <3>. QED BY <1>2, <2>1, <2>3, <3>1, PairKeeps DEF Published
  <2>. QED BY <2>2, <2>3
<1>. QED BY <1>3, <1>4 DEF SteadyPart

LEMMA ConsumeSteady ==
  ASSUME SInv, NEW c \in Conns, Consume(c), UNCHANGED <<responderVars, steady>>
  PROVE  SteadyPart'
<1>1. /\ UNCHANGED <<bound, requests, tasks, lxd, replied, replies, result, name, steady>>
      /\ pc[c] = "consume"
      /\ \A d \in Conns : pc'[d] = IF d = c THEN "publish" ELSE pc[d]
      /\ \A d \in Conns : corr'[d] = IF d = c THEN nextId ELSE corr[d]
  BY DEF Consume, Goto, brokerVars, responderVars, SInv, OInv, IInv, TypeOK, QueryTypeOK
<1>2. SteadyUp' /\ Acked'
  BY <1>1 DEF SInv, SteadyPart, SteadyUp, Acked
<1>3. /\ result[c] = {}
      /\ \A m \in replies[c] : m.id # nextId
      /\ \A n \in Nodes : \A t \in tasks[n] : t.msg.id # nextId
  <2>1. /\ nextId \in Nat
        /\ \A m \in replies[c] : m.id \in Nat
        /\ \A n \in Nodes : \A t \in tasks[n] : t.msg.id \in Nat
    BY DEF SInv, OInv, IInv, TypeOK, QueryTypeOK, BrokerTypeOK, ResponderTypeOK, Reply, Task,
           Request
  <2>2. result[c] = {}
    BY <1>1 DEF SInv, OInv, ReplyPart, Recorded
  <2>. QED BY <2>1, <2>2 DEF SInv, OInv, IInv, IdsDrawn
<1>4. ASSUME NEW d \in Conns, NEW n \in steady'[d] PROVE SteadyPair(d, n)'
  <2>1. n \in Nodes /\ SteadyPair(d, n)
    BY <1>1 DEF SInv, SteadyPart, SteadyUp, OInv, IInv, TypeOK, BrokerTypeOK
  <2>2. CASE d = c
    BY <1>1, <1>3, <2>1, <2>2 DEF SteadyPair, SteadyTasks, SteadyReplies, SteadyKept,
                                  Awaiting, Published
  <2>3. CASE d # c
    BY <1>1, <2>1, <2>3, PairKeeps DEF Published
  <2>. QED BY <2>2, <2>3
<1>. QED BY <1>2, <1>4 DEF SteadyPart

LEMMA PublishSteady ==
  ASSUME SInv, NEW c \in Conns, Publish(c), UNCHANGED <<responderVars, steady>>
  PROVE  SteadyPart'
<1>. DEFINE q == [id |-> corr[c], name |-> name[c], replyTo |-> c]
<1>1. /\ UNCHANGED <<bound, tasks, lxd, replied, replies, result, name, corr, steady>>
      /\ pc[c] = "publish"
      /\ \A d \in Conns : pc'[d] = IF d = c THEN "collect" ELSE pc[d]
  BY DEF Publish, Goto, responderVars, SInv, OInv, IInv, TypeOK, QueryTypeOK
<1>2. /\ \A n \in Nodes : requests[n] \subseteq requests'[n]
      /\ \A n \in bound : q \in requests'[n]
  BY DEF Publish, PublishFanout, SInv, OInv, IInv, TypeOK, BrokerTypeOK
<1>3. q.id = corr[c] /\ q.name = name[c]
  OBVIOUS
<1>. HIDE DEF q
<1>4. SteadyUp' /\ Acked'
  BY <1>1 DEF SInv, SteadyPart, SteadyUp, Acked
<1>5. ASSUME NEW d \in Conns, NEW n \in steady'[d] PROVE SteadyPair(d, n)'
  <2>1. n \in Nodes /\ n \in bound /\ SteadyPair(d, n)
    BY <1>1 DEF SInv, SteadyPart, SteadyUp, OInv, IInv, TypeOK, BrokerTypeOK
  <2>2. CASE d = c
    <3>1. SteadyTasks(c, n)' /\ SteadyReplies(c, n)'
      BY <1>1, <2>1, <2>2 DEF SteadyPair, SteadyTasks, SteadyReplies, Awaiting, Asking
    <3>2. AtHost(n, name[c], corr[c])'
      BY <1>1, <1>2, <1>3, <2>1 DEF AtHost
    <3>. QED BY <2>2, <3>1, <3>2 DEF SteadyPair, SteadyKept
  <2>3. CASE d # c
    BY <1>1, <1>2, <2>1, <2>3, PairKeeps DEF Published
  <2>. QED BY <2>2, <2>3
<1>. QED BY <1>4, <1>5 DEF SteadyPart

LEMMA BackendSteady ==
  ASSUME SInv, NEW c \in Conns, BackendStep(c)
  PROVE  SteadyPart'
<1>. UNCHANGED <<responderVars, tasks, lxd, replied, steady>>
  BY DEF BackendStep, responderVars
<1>1. ASSUME UNCHANGED <<bound, requests, name, corr>>,
             \A d \in Conns : replies'[d] \cup result'[d] \subseteq replies[d] \cup result[d],
             \A d \in Conns : pc'[d] \in Asking \ {"consume"} => pc[d] \in Asking \ {"consume"},
             \A d \in Conns : Published(d)' => Published(d)
      PROVE  SteadyPart'
  <2>1. SteadyUp' /\ Acked'
    BY <1>1 DEF SInv, SteadyPart, SteadyUp, Acked
  <2>2. ASSUME NEW d \in Conns, NEW n \in steady[d] PROVE SteadyPair(d, n)'
    <3>1. n \in Nodes /\ SteadyPair(d, n)
      BY DEF SInv, SteadyPart, SteadyUp, OInv, IInv, TypeOK, BrokerTypeOK
    <3>. QED BY <1>1, <3>1, PairKeeps
  <2>. QED BY <2>1, <2>2 DEF SteadyPart
<1>. USE DEF SInv, OInv, IInv, TypeOK, QueryTypeOK, BrokerTypeOK, Goto, Asking, brokerVars,
             Published
<1>2. CASE Open(c)
  BY <1>1, <1>2 DEF Open
<1>3. CASE Receive(c)
  <2>1. PICK m \in replies[c] :
          /\ TakeReply(c, m)
          /\ result' = [result EXCEPT ![c] = IF Merges(c, m) THEN @ \cup {m} ELSE @]
    BY <1>3 DEF Receive
  <2>2. \A d \in Conns : replies'[d] \cup result'[d] \subseteq replies[d] \cup result[d]
    BY <2>1 DEF TakeReply
  <2>. QED BY <1>1, <1>3, <2>2 DEF Receive
<1>4. CASE Settled(c)
  BY <1>1, <1>4 DEF Settled
<1>5. ASSUME NEW a, Respond(c, a) PROVE SteadyPart'
  BY <1>1, <1>5 DEF Respond
<1>6. CASE Taint(c)
  BY <1>1, <1>6 DEF Taint
<1>7. CASE Close(c)
  BY <1>1, <1>7 DEF Close
<1>8. CASE StaleTake(c)
  <2>1. PICK m \in replies[c] : TakeReply(c, m)
    BY <1>8 DEF StaleTake
  <2>2. \A d \in Conns : replies'[d] \cup result'[d] \subseteq replies[d] \cup result[d]
    BY <1>8, <2>1 DEF TakeReply, StaleTake
  <2>. QED BY <1>1, <1>8, <2>2 DEF StaleTake
<1>9. CASE StaleCancelled(c)
  BY <1>1, <1>9 DEF StaleCancelled
<1>. QED BY <1>2, <1>3, <1>4, <1>5, <1>6, <1>7, <1>8, <1>9, ConsumeSteady, PublishSteady
         DEF BackendStep, HandlerStep, Quiet, OuterTimeout
-----------------------------------------------------------------------------
(***************************************************************************)
(* The responders.                                                         *)
(***************************************************************************)
LEMMA SteadyNode ==
  ASSUME SInv, NEW c \in Conns, NEW n \in steady[c]
  PROVE  n \in Nodes /\ n \in bound /\ SteadyPair(c, n)
  BY DEF SInv, SteadyPart, SteadyUp, OInv, IInv, TypeOK, BrokerTypeOK

\* A host keeps a request that it has when its copy moves and, being a task,
\* takes one step; what it may reply with or reject is what it knows.
LEMMA TaskSteady ==
  ASSUME SInv, NEW n \in Nodes, NEW t \in tasks[n], NEW u, Become(n, t, u), u.msg = t.msg,
         u.step = "ack" => <<n, t.msg.id>> \in replied',
         \A c \in Conns : n \in steady[c] /\ Awaiting(c, t.msg.id) =>
           /\ u.step = "reply" => u.addrs \in lxd[n][name[c]]
           /\ u.step = "reject" => lxd[n][name[c]] = None,
         \A c \in Conns : \A h \in steady[c] : \A m \in replies'[c] \ replies[c] :
           Awaiting(c, m.id) /\ m.from = h /\ m.ok => m.addrs \in lxd[h][name[c]],
         replied \subseteq replied',
         UNCHANGED <<pc, name, corr, result, bound, requests, lxd, steady>>
  PROVE  SteadyPart'
<1>1. \A h \in Nodes : tasks'[h] = IF h = n THEN (tasks[h] \ {t}) \cup {u} ELSE tasks[h]
  BY DEF Become, SInv, OInv, IInv, TypeOK, ResponderTypeOK
<1>2. SteadyUp'
  BY DEF SInv, SteadyPart, SteadyUp
<1>3. Acked'
  <2>1. \A h \in Nodes : \A x \in tasks'[h] : x \in tasks[h] \/ (h = n /\ x = u)
    BY <1>1
  <2>2. \A h \in Nodes : \A x \in tasks[h] : x.step = "ack" => <<h, x.msg.id>> \in replied'
    BY DEF SInv, SteadyPart, Acked
  <2>. QED BY <2>1, <2>2 DEF Acked
<1>4. ASSUME NEW c \in Conns, NEW h \in steady[c] PROVE SteadyPair(c, h)'
  <2>1. h \in Nodes /\ SteadyPair(c, h)
    BY SteadyNode
  <2>2. \A id : Awaiting(c, id)' <=> Awaiting(c, id)
    BY DEF Awaiting
  <2>3. \A x \in tasks'[h] : x \in tasks[h] \/ (h = n /\ x = u)
    BY <1>1, <2>1
  <2>4. SteadyTasks(c, h)'
    BY <2>1, <2>2, <2>3 DEF SteadyPair, SteadyTasks
  <2>5. SteadyReplies(c, h)'
    BY <2>1, <2>2 DEF SteadyPair, SteadyReplies
  <2>6. AtHost(h, name[c], corr[c]) => AtHost(h, name[c], corr[c])'
    BY <1>1, <2>1 DEF AtHost
  <2>7. SteadyKept(c, h)'
    BY <2>1, <2>6 DEF SteadyPair, SteadyKept, Published
  <2>. QED BY <2>4, <2>5, <2>7 DEF SteadyPair
<1>. QED BY <1>2, <1>3, <1>4 DEF SteadyPart

LEMMA AcceptSteady ==
  ASSUME SInv, NEW n \in Nodes, Accept(n), UNCHANGED <<queryVars, steady>>
  PROVE  SteadyPart'
<1>1. PICK m \in requests[n] :
        /\ requests' = [requests EXCEPT ![n] = @ \ {m}]
        /\ tasks' = [tasks EXCEPT ![n] = @ \cup
             {[msg   |-> m,
               step  |-> IF m.name = BadName \/ m.id = NoId THEN "reject" ELSE "lookup",
               addrs |-> {}]}]
  BY DEF Accept
<1>. DEFINE u == [msg   |-> m,
                  step  |-> IF m.name = BadName \/ m.id = NoId THEN "reject" ELSE "lookup",
                  addrs |-> {}]
<1>2. /\ UNCHANGED <<bound, replies, lxd, replied, pc, name, corr, result, steady>>
      /\ \A h \in Nodes : requests'[h] = IF h = n THEN requests[h] \ {m} ELSE requests[h]
      /\ \A h \in Nodes : tasks'[h] = IF h = n THEN tasks[h] \cup {u} ELSE tasks[h]
  BY <1>1 DEF Accept, queryVars, SInv, OInv, IInv, TypeOK, BrokerTypeOK, ResponderTypeOK
<1>3. u.msg = m /\ u.step \notin {"ack", "reply"}
      /\ (u.step = "reject" => m.name = BadName \/ m.id = NoId)
  OBVIOUS
<1>. HIDE DEF u
<1>4. SteadyUp'
  BY <1>2 DEF SInv, SteadyPart, SteadyUp
<1>5. Acked'
  BY <1>2, <1>3 DEF SInv, SteadyPart, Acked
<1>6. ASSUME NEW c \in Conns, NEW h \in steady[c] PROVE SteadyPair(c, h)'
  <2>1. h \in Nodes /\ SteadyPair(c, h)
    BY SteadyNode
  <2>2. \A id : Awaiting(c, id)' <=> Awaiting(c, id)
    BY <1>2 DEF Awaiting
  <2>3. Awaiting(c, m.id) => m.name # BadName /\ m.id # NoId
    <3>1. Awaiting(c, m.id) => m.name = name[c]
      BY NamedByLookup DEF SInv
    <3>2. name[c] \in Names
      BY DEF SInv, OInv, IInv, TypeOK, QueryTypeOK
    <3>. QED BY <3>1, <3>2, BadNameAssumption DEF Awaiting, SInv, OInv, IInv, IdsReal
  <2>4. \A x \in tasks'[h] : x \in tasks[h] \/ (h = n /\ x = u)
    BY <1>2, <2>1
  <2>5. SteadyTasks(c, h)'
    BY <1>2, <1>3, <2>1, <2>2, <2>3, <2>4 DEF SteadyPair, SteadyTasks
  <2>6. SteadyReplies(c, h)'
    BY <1>2, <2>1, <2>2 DEF SteadyPair, SteadyReplies
  <2>7. AtHost(h, name[c], corr[c]) => AtHost(h, name[c], corr[c])'
    BY <1>2, <1>3, <2>1 DEF AtHost
  <2>8. SteadyKept(c, h)'
    BY <1>2, <2>1, <2>7 DEF SteadyPair, SteadyKept, Published
  <2>. QED BY <2>5, <2>6, <2>8 DEF SteadyPair
<1>. QED BY <1>2, <1>4, <1>5, <1>6 DEF SteadyPart

LEMMA LookupSteady ==
  ASSUME SInv, NEW n \in Nodes, NEW t \in tasks[n], Lookup(n, t),
         UNCHANGED <<queryVars, steady>>
  PROVE  SteadyPart'
<1>1. t = [msg |-> t.msg, step |-> t.step, addrs |-> t.addrs]
  BY DEF SInv, OInv, IInv, TypeOK, ResponderTypeOK, Task
<1>2. PICK u : /\ Become(n, t, u) /\ u.msg = t.msg /\ u.step # "ack"
               /\ u.step = "reply" => u.addrs \in lxd[n][t.msg.name]
               /\ u.step = "reject" => lxd[n][t.msg.name] = None
  <2>1. CASE Become(n, t, [t EXCEPT !.step = "requeue"])
    BY <1>1, <2>1
  <2>2. CASE Become(n, t, [t EXCEPT !.step = "reject"]) /\ lxd[n][t.msg.name] = None
    BY <1>1, <2>2
  <2>3. ASSUME NEW a \in lxd[n][t.msg.name],
               Become(n, t, [t EXCEPT !.step = "reply", !.addrs = a])
        PROVE  \E u : /\ Become(n, t, u) /\ u.msg = t.msg /\ u.step # "ack"
                      /\ u.step = "reply" => u.addrs \in lxd[n][t.msg.name]
                      /\ u.step = "reject" => lxd[n][t.msg.name] = None
    <3>1. [t EXCEPT !.step = "reply", !.addrs = a].msg = t.msg
      BY <1>1
    <3>2. [t EXCEPT !.step = "reply", !.addrs = a].step = "reply"
      BY <1>1
    <3>3. [t EXCEPT !.step = "reply", !.addrs = a].addrs = a
      BY <1>1
    <3>. QED BY <2>3, <3>1, <3>2, <3>3
  <2>. QED BY <2>1, <2>2, <2>3 DEF Lookup
<1>3. \A c \in Conns : Awaiting(c, t.msg.id) => t.msg.name = name[c]
  BY NamedByLookup DEF SInv
<1>4. UNCHANGED <<replied, replies, pc, name, corr, result, bound, requests, lxd, steady>>
  BY DEF Lookup, brokerVars, queryVars
<1>5. \A c \in Conns : n \in steady[c] /\ Awaiting(c, t.msg.id) =>
        /\ u.step = "reply" => u.addrs \in lxd[n][name[c]]
        /\ u.step = "reject" => lxd[n][name[c]] = None
  BY <1>2, <1>3
<1>6. \A c \in Conns : replies'[c] \ replies[c] = {}
  BY <1>4
<1>. QED BY <1>2, <1>4, <1>5, <1>6, TaskSteady

LEMMA PublishAddressesSteady ==
  ASSUME SInv, NEW n \in Nodes, NEW t \in tasks[n], PublishAddresses(n, t),
         UNCHANGED <<queryVars, steady>>
  PROVE  SteadyPart'
<1>. DEFINE u == [t EXCEPT !.step = "ack"]
            r == [id |-> t.msg.id, from |-> n, ok |-> TRUE, addrs |-> t.addrs]
            d == t.msg.replyTo
<1>1. /\ t.step = "reply" /\ Become(n, t, u)
      /\ replied' = replied \cup {<<n, t.msg.id>>}
      /\ UNCHANGED <<pc, name, corr, result, bound, requests, lxd, steady>>
  BY DEF PublishAddresses, queryVars
<1>2. t = [msg |-> t.msg, step |-> t.step, addrs |-> t.addrs]
  BY DEF SInv, OInv, IInv, TypeOK, ResponderTypeOK, Task
<1>3. u.msg = t.msg /\ u.step = "ack"
  BY <1>2
<1>4. \A c \in Conns : \A m \in replies'[c] \ replies[c] : m = r
  BY DEF PublishAddresses, PublishReply, SInv, OInv, IInv, TypeOK, BrokerTypeOK
<1>5. r.id = t.msg.id /\ r.from = n /\ r.addrs = t.addrs
  OBVIOUS
<1>. HIDE DEF r, u
<1>6. \A c \in Conns : n \in steady[c] /\ Awaiting(c, t.msg.id) => t.addrs \in lxd[n][name[c]]
  BY <1>1, SteadyNode DEF SteadyPair, SteadyTasks
<1>. QED BY <1>1, <1>3, <1>4, <1>5, <1>6, TaskSteady

LEMMA SettleSteady ==
  ASSUME SInv, NEW n \in Nodes, NEW t \in tasks[n], Settle(n, t),
         UNCHANGED <<queryVars, steady>>
  PROVE  SteadyPart'
<1>1. /\ t.step \in {"ack", "reject", "requeue"}
      /\ UNCHANGED <<bound, replies, replied, lxd, pc, name, corr, result, steady>>
      /\ \A h \in Nodes : tasks'[h] = IF h = n THEN tasks[h] \ {t} ELSE tasks[h]
      /\ \A h \in Nodes : requests'[h] = IF h = n /\ t.step = "requeue"
                                         THEN requests[h] \cup {t.msg} ELSE requests[h]
  BY DEF Settle, queryVars, SInv, OInv, IInv, TypeOK, BrokerTypeOK, ResponderTypeOK
<1>2. SteadyUp' /\ Acked'
  BY <1>1 DEF SInv, SteadyPart, SteadyUp, Acked
<1>3. ASSUME NEW c \in Conns, NEW h \in steady[c] PROVE SteadyPair(c, h)'
  <2>1. h \in Nodes /\ SteadyPair(c, h)
    BY SteadyNode
  <2>2. \A id : Awaiting(c, id)' <=> Awaiting(c, id)
    BY <1>1 DEF Awaiting
  <2>3. SteadyTasks(c, h)'
    BY <1>1, <2>1, <2>2 DEF SteadyPair, SteadyTasks
  <2>4. SteadyReplies(c, h)'
    BY <1>1, <2>1, <2>2 DEF SteadyPair, SteadyReplies
  <2>5. SteadyKept(c, h)'
    <3>. SUFFICES ASSUME Published(c), lxd[h][name[c]] # None, <<h, corr[c]>> \notin replied
                  PROVE  AtHost(h, name[c], corr[c])'
      BY <1>1 DEF SteadyKept, Published
    <3>1. PICK m \in requests[h] \cup {x.msg : x \in tasks[h]} :
            m.id = corr[c] /\ m.name = name[c]
      BY <2>1 DEF SteadyPair, SteadyKept, AtHost
    <3>2. CASE m \in requests[h] \/ \E x \in tasks[h] : m = x.msg /\ (h # n \/ x # t)
      BY <1>1, <2>1, <3>1, <3>2 DEF AtHost
    <3>3. CASE h = n /\ m = t.msg
      <4>1. Awaiting(c, t.msg.id)
        BY <3>1, <3>3 DEF Awaiting, Published, Asking
      <4>2. t.step # "ack"
        BY <3>1, <3>3 DEF SInv, SteadyPart, Acked
      <4>3. t.step # "reject"
        BY <2>1, <3>3, <4>1 DEF SteadyPair, SteadyTasks
      <4>4. m \in requests'[h]
        BY <1>1, <2>1, <3>3, <4>2, <4>3
      <4>. QED BY <1>1, <3>1, <4>4 DEF AtHost
    <3>. QED BY <3>1, <3>2, <3>3
  <2>. QED BY <2>3, <2>4, <2>5 DEF SteadyPair
<1>. QED BY <1>1, <1>2, <1>3 DEF SteadyPart
-----------------------------------------------------------------------------
(***************************************************************************)
(* The environment, and the theorem.                                       *)
(***************************************************************************)
\* Pairs that stay and look the same keep what they have.
LEMMA FrameSteady ==
  ASSUME SInv, UNCHANGED <<queryVars, replied>>, SteadyUp',
         \A c \in Conns : \A n \in steady'[c] :
           n \in steady[c] /\ lxd'[n][name[c]] = lxd[n][name[c]] /\ tasks'[n] = tasks[n]
             /\ requests[n] \subseteq requests'[n],
         \A c \in Conns : \A m \in replies'[c] \ replies[c] : ~ m.ok \/ m.id = NoId,
         \A n \in Nodes : tasks'[n] \subseteq tasks[n]
  PROVE  SteadyPart'
<1>1. Acked'
  BY DEF SInv, SteadyPart, Acked
<1>2. ASSUME NEW c \in Conns, NEW n \in steady'[c] PROVE SteadyPair(c, n)'
  <2>1. n \in steady[c] /\ lxd'[n][name[c]] = lxd[n][name[c]] /\ tasks'[n] = tasks[n]
          /\ requests[n] \subseteq requests'[n]
    BY <1>2
  <2>2. SteadyPair(c, n)
    BY <2>1, SteadyNode
  <2>3. UNCHANGED <<pc, name, corr, result>>
    BY DEF queryVars
  <2>4. \A id : Awaiting(c, id)' => Awaiting(c, id) /\ id # NoId
    BY <2>3 DEF Awaiting, SInv, OInv, IInv, IdsReal
  <2>5. SteadyTasks(c, n)'
    BY <2>1, <2>2, <2>3, <2>4 DEF SteadyPair, SteadyTasks
  <2>6. SteadyReplies(c, n)'
    <3>. SUFFICES ASSUME NEW m \in replies'[c] \cup result[c], Awaiting(c, m.id)',
                         m.from = n, m.ok
                  PROVE  m.addrs \in lxd[n][name[c]]
      BY <2>1, <2>3 DEF SteadyReplies
    <3>1. m \in replies[c] \cup result[c]
      BY <2>4
    <3>. QED BY <2>2, <2>4, <3>1 DEF SteadyPair, SteadyReplies
  <2>7. SteadyKept(c, n)'
    BY <2>1, <2>2, <2>3 DEF SteadyPair, SteadyKept, AtHost, Published
  <2>. QED BY <2>5, <2>6, <2>7 DEF SteadyPair
<1>. QED BY <1>1, <1>2 DEF SteadyPart

LEMMA HangSteady ==
  ASSUME SInv, NEW n \in Nodes, LxcHangs(n)
  PROVE  SteadyPart'
<1>1. PICK t \in tasks[n] : Hang(n, t)
  BY DEF LxcHangs
<1>. DEFINE u == [t EXCEPT !.step = "hung"]
<1>2. t \in Task
  BY DEF SInv, OInv, IInv, TypeOK, ResponderTypeOK
<1>3. u.msg = t.msg /\ u.step = "hung" /\ Become(n, t, u)
  BY <1>1, <1>2 DEF Task, Hang
<1>4. UNCHANGED <<replied, replies, pc, name, corr, result, bound, requests, lxd, steady>>
  BY <1>1 DEF LxcHangs, Hang, brokerVars, queryVars
<1>5. \A c \in Conns : replies'[c] \ replies[c] = {}
  BY <1>4
<1>. HIDE DEF u
<1>. QED BY <1>3, <1>4, <1>5, TaskSteady

LEMMA EnvironmentSteady ==
  ASSUME SInv, Environment
  PROVE  SteadyPart'
<1>. USE DEF brokerVars, responderVars
<1>1. /\ SteadyUp
      /\ bound \subseteq Nodes
      /\ \A c \in Conns : steady[c] \subseteq Nodes /\ name[c] \in Names
      /\ lxd \in [Nodes -> [Names -> LocalResult]]
      /\ requests \in [Nodes -> SUBSET Request]
      /\ tasks \in [Nodes -> SUBSET Task]
      /\ replies \in [Conns -> SUBSET Reply]
  BY DEF SInv, SteadyPart, SteadyUp, OInv, IInv, TypeOK, BrokerTypeOK, QueryTypeOK,
         ResponderTypeOK
<1>2. ASSUME NEW n \in Nodes, NEW x \in Names, InstanceChange(n, x) PROVE SteadyPart'
  <2>1. /\ UNCHANGED <<queryVars, replied, bound, requests, replies, tasks>>
        /\ \A c \in Conns :
             steady'[c] = IF name[c] = x THEN steady[c] \ {n} ELSE steady[c]
        /\ \A h \in Nodes, y \in Names : h # n \/ y # x => lxd'[h][y] = lxd[h][y]
    BY <1>1, <1>2 DEF InstanceChange
  <2>2. SteadyUp'
    BY <1>1, <2>1 DEF SteadyUp
  <2>. QED BY <1>1, <2>1, <2>2, FrameSteady
<1>3. ASSUME NEW n \in Nodes, LxcFails(n) \/ LxcRecovers(n) PROVE SteadyPart'
  <2>1. UNCHANGED <<queryVars, replied, bound, requests, replies, tasks, lxd, steady>>
    BY <1>3 DEF LxcFails, LxcRecovers
  <2>2. SteadyUp'
    BY <1>1, <2>1 DEF SteadyUp
  <2>. QED BY <2>1, <2>2, FrameSteady
<1>4. ASSUME NEW n \in Nodes, ResponderExits(n) PROVE SteadyPart'
  <2>1. /\ UNCHANGED <<queryVars, replied, replies, lxd>>
        /\ bound' = bound \ {n}
        /\ \A c \in Conns : steady'[c] = steady[c] \ {n}
        /\ \A h \in Nodes : requests'[h] = IF h = n THEN {} ELSE requests[h]
        /\ \A h \in Nodes : tasks'[h] = IF h = n THEN {} ELSE tasks[h]
    BY <1>1, <1>4 DEF ResponderExits, Exit, DropQueue
  <2>2. SteadyUp'
    BY <1>1, <2>1 DEF SteadyUp
  <2>. QED BY <1>1, <2>1, <2>2, FrameSteady
<1>5. ASSUME NEW n \in Nodes, ResponderStarts(n) PROVE SteadyPart'
  <2>1. /\ UNCHANGED <<queryVars, replied, requests, replies, tasks, lxd, steady>>
        /\ bound' = bound \cup {n}
    BY <1>5 DEF ResponderStarts, Start, DeclareQueue
  <2>2. SteadyUp'
    BY <1>1, <2>1 DEF SteadyUp
  <2>. QED BY <2>1, <2>2, FrameSteady
<1>6. CASE StrayRequest
  <2>1. /\ UNCHANGED <<queryVars, replied, bound, replies, tasks, lxd, steady>>
        /\ \A h \in Nodes : requests[h] \subseteq requests'[h]
    BY <1>1, <1>6 DEF StrayRequest, PublishFanout
  <2>2. SteadyUp'
    BY <1>1, <2>1 DEF SteadyUp
  <2>. QED BY <1>1, <2>1, <2>2, FrameSteady
<1>7. ASSUME NEW c \in Conns, StrayReply(c) PROVE SteadyPart'
  <2>1. PICK n \in Nodes, id \in {NoId, corr[c]}, ok \in BOOLEAN :
          /\ id = NoId \/ ~ok
          /\ PublishReply(c, [id |-> id, from |-> n, ok |-> ok, addrs |-> {}])
    BY <1>7 DEF StrayReply
  <2>. DEFINE r == [id |-> id, from |-> n, ok |-> ok, addrs |-> {}]
  <2>2. ~ r.ok \/ r.id = NoId
    BY <2>1
  <2>3. \A d \in Conns : \A m \in replies'[d] \ replies[d] : m = r
    BY <1>1, <2>1 DEF PublishReply
  <2>. HIDE DEF r
  <2>4. UNCHANGED <<queryVars, replied, bound, requests, tasks, lxd, steady>>
    BY <1>7 DEF StrayReply
  <2>5. SteadyUp'
    BY <1>1, <2>4 DEF SteadyUp
  <2>6. \A d \in Conns : \A m \in replies'[d] \ replies[d] : ~ m.ok \/ m.id = NoId
    BY <2>2, <2>3
  <2>. QED BY <2>4, <2>5, <2>6, FrameSteady
<1>. QED BY <1>2, <1>3, <1>4, <1>5, <1>6, <1>7, HangSteady DEF Environment

LEMMA SInvStep == SInv /\ [Next]_vars => SInv'
<1>. SUFFICES ASSUME SInv, [Next]_vars PROVE SInv'
  OBVIOUS
<1>1. OInv'
  BY OInvStep DEF SInv
<1>2. ASSUME NEW n \in Nodes, HostStep(n) PROVE SteadyPart'
  BY <1>2, AcceptSteady, LookupSteady, PublishAddressesSteady, SettleSteady
  DEF HostStep, ResponderStep
<1>3. ASSUME UNCHANGED vars PROVE SteadyPart'
  <2>1. SteadyUp'
    BY <1>3 DEF vars, brokerVars, SInv, SteadyPart, SteadyUp
  <2>2. UNCHANGED <<queryVars, replied, replies, requests, tasks, lxd, steady>>
    BY <1>3 DEF vars, brokerVars, responderVars
  <2>. QED BY <2>1, <2>2, FrameSteady
<1>4. SteadyPart'
  BY <1>2, <1>3, AskSteady, BackendSteady, EnvironmentSteady DEF Next
<1>. QED BY <1>1, <1>4 DEF SInv

\* What a host that stays has for a running lookup is with it, on its way or
\* merged, unless an earlier consumer took it, for all values of the constants.
THEOREM SteadyHostsServed == Spec => []SteadyIsServed
<1>1. SInv => SteadyIsServed
  <2>. SUFFICES ASSUME SInv, NEW c \in Conns, Published(c), NEW n \in steady[c],
                       NEW a \in lxd[n][name[c]], ~ AtHost(n, name[c], corr[c]),
                       <<n, corr[c]>> \notin lost
                PROVE  \E m \in replies[c] \cup result[c] :
                         m.from = n /\ m.id = corr[c] /\ m.ok /\ m.addrs = a
    BY DEF SteadyIsServed, Published
  <2>1. n \in Nodes /\ SteadyPair(c, n)
    BY SteadyNode
  <2>2. <<n, corr[c]>> \in replied
    BY <2>1 DEF SteadyPair, SteadyKept, None
  <2>3. PICK m \in replies[c] \cup result[c] : m.from = n /\ m.id = corr[c] /\ m.ok
    BY <2>1, <2>2 DEF SInv, OInv, ReplyPart, ReplyConserved, Published, Asking
  <2>4. m.addrs \in lxd[n][name[c]]
    BY <2>1, <2>3 DEF SteadyPair, SteadyReplies, Awaiting, Published, Asking
  <2>5. lxd[n][name[c]] \in LocalResult
    BY <2>1 DEF SInv, OInv, IInv, TypeOK, QueryTypeOK, ResponderTypeOK
  <2>6. m.addrs = a
    BY <2>4, <2>5 DEF LocalResult, None, Some
  <2>. QED BY <2>3, <2>6
<1>2. Spec => []SInv
  BY SInvInit, SInvStep, PTL DEF Spec
<1>. QED BY <1>1, <1>2, PTL
=============================================================================

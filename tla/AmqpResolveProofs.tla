-------------------------- MODULE AmqpResolveProofs --------------------------
(***************************************************************************)
(* Proofs about AmqpResolve for all sets of hosts, connections, names and  *)
(* addresses and any number of workers, lookups and external events.       *)
(***************************************************************************)
EXTENDS AmqpResolve, TLAPS

(***************************************************************************)
(* The invariant behind AnswerFresh.  While a lookup has drawn its         *)
(* correlation id and has not ended, that id identifies it: requests with  *)
(* the id carry its name, and what hosts reply to it was seen since the    *)
(* lookup began.                                                           *)
(***************************************************************************)
Awaiting(c, id) == pc[c] \in Asking \ {"consume"} /\ id = corr[c]

IdsDrawn ==
  /\ \A c \in Conns : corr[c] < nextId
  /\ \A n \in Nodes : \A m \in requests[n] : m.id < nextId
  /\ \A n \in Nodes : \A t \in tasks[n] : t.msg.id < nextId
  /\ \A c \in Conns : \A m \in replies[c] : m.id < nextId

IdsReal ==
  \A c \in Conns : pc[c] \in Asking \ {"consume"} => corr[c] # NoId

Watched ==
  \A c \in Conns : pc[c] \in Asking => Known(name[c]) \subseteq seen[c]

RequestsNamed ==
  \A n \in Nodes : \A m \in requests[n] :
    Awaiting(m.replyTo, m.id) => m.name = name[m.replyTo]

TasksNamed ==
  \A n \in Nodes : \A t \in tasks[n] :
    Awaiting(t.msg.replyTo, t.msg.id) =>
      /\ t.msg.name = name[t.msg.replyTo]
      /\ t.addrs \subseteq seen[t.msg.replyTo]

RepliesSeen ==
  \A c \in Conns : \A m \in replies[c] :
    Awaiting(c, m.id) => m.addrs \subseteq seen[c]

IInv ==
  /\ TypeOK
  /\ IdsDrawn
  /\ IdsReal
  /\ Watched
  /\ RequestsNamed
  /\ TasksNamed
  /\ RepliesSeen
  /\ AnswerFresh
-----------------------------------------------------------------------------
(***************************************************************************)
(* Type correctness.                                                       *)
(***************************************************************************)
LEMMA NoIdNat == NoId \in Nat /\ NoId < 1
  BY DEF NoId

LEMMA TypeInit == Init => TypeOK
  BY DEF Init, BrokerInit, QueryInit, ResponderInit, TypeOK, BrokerTypeOK,
         QueryTypeOK, ResponderTypeOK, NoId

\* What the operators the actions share do to the types.
LEMMA BecomeType ==
  ASSUME ResponderTypeOK, NEW n \in Nodes, NEW t \in tasks[n], NEW u \in Task,
         Become(n, t, u)
  PROVE  tasks' \in [Nodes -> SUBSET Task]
  BY DEF ResponderTypeOK, Become

LEMMA FanoutType ==
  ASSUME BrokerTypeOK, NEW m \in Request, PublishFanout(m)
  PROVE  requests' \in [Nodes -> SUBSET Request]
  BY DEF BrokerTypeOK, PublishFanout

LEMMA ReplyType ==
  ASSUME BrokerTypeOK, NEW c \in Conns, NEW m \in Reply, PublishReply(c, m)
  PROVE  replies' \in [Conns -> SUBSET Reply]
  BY DEF BrokerTypeOK, PublishReply

LEMMA TakeType ==
  ASSUME BrokerTypeOK, NEW c \in Conns, NEW m \in Reply, TakeReply(c, m)
  PROVE  replies' \in [Conns -> SUBSET Reply]
  BY DEF BrokerTypeOK, TakeReply

LEMMA AddressesType == ASSUME NEW rs \in SUBSET Reply PROVE Addresses(rs) \subseteq Addrs
  BY DEF Addresses, Reply

LEMMA KnownOf ==
  ASSUME NEW f \in [Nodes -> [Names -> LocalResult]], NEW x \in Names
  PROVE  UNION UNION {f[n][x] : n \in Nodes} \subseteq Addrs
  BY DEF LocalResult, None, Some

LEMMA KnownType ==
  ASSUME ResponderTypeOK, NEW x \in Names PROVE Known(x) \subseteq Addrs
  BY KnownOf DEF ResponderTypeOK, Known

LEMMA RespondType ==
  ASSUME TypeOK, NEW c \in Conns, NEW a \in SUBSET Addrs, Respond(c, a)
  PROVE  BrokerTypeOK' /\ QueryTypeOK'
  BY DEF TypeOK, BrokerTypeOK, QueryTypeOK, Respond, Goto, brokerVars

LEMMA BackendType ==
  ASSUME TypeOK, NEW c \in Conns, BackendStep(c)
  PROVE  TypeOK'
<1> USE DEF TypeOK, QueryTypeOK, BrokerTypeOK, Goto, Asking, brokerVars
<1>1. /\ ResponderTypeOK' /\ seen' \in [Conns -> SUBSET Addrs]
      /\ steady' \in [Conns -> SUBSET Nodes] /\ events' \in Nat
  BY DEF BackendStep, responderVars, ResponderTypeOK
<1>2. BrokerTypeOK' /\ QueryTypeOK'
  <2>1. CASE Open(c)
    BY <2>1 DEF Open
  <2>2. CASE Consume(c)
    BY <2>2 DEF Consume
  <2>3. CASE Publish(c)
    <3>1. [id |-> corr[c], name |-> name[c], replyTo |-> c] \in Request
      BY DEF Request
    <3>2. requests' \in [Nodes -> SUBSET Request]
      BY <2>3, <3>1, FanoutType DEF Publish
    <3>. QED BY <2>3, <3>2 DEF Publish
  <2>4. CASE Receive(c)
    <3>1. PICK m \in replies[c] :
            /\ TakeReply(c, m)
            /\ result' = [result EXCEPT ![c] = IF Merges(c, m) THEN @ \cup {m} ELSE @]
      BY <2>4 DEF Receive
    <3>2. replies' \in [Conns -> SUBSET Reply]
      BY <3>1, TakeType
    <3>3. result' \in [Conns -> SUBSET Reply]
      BY <3>1
    <3>. QED BY <2>4, <3>2, <3>3 DEF Receive
  <2>5. CASE Settled(c)
    BY <2>5 DEF Settled
  <2>6. CASE Quiet(c)
    BY <2>6, AddressesType, RespondType DEF Quiet
  <2>7. CASE OuterTimeout(c)
    BY <2>7, RespondType DEF OuterTimeout
  <2>8. CASE Taint(c)
    BY <2>8 DEF Taint
  <2>9. CASE Close(c)
    BY <2>9 DEF Close
  <2>10. CASE StaleTake(c)
    <3>1. PICK m \in replies[c] : TakeReply(c, m) /\ lost' = lost \cup {<<m.from, m.id>>}
      BY <2>10 DEF StaleTake
    <3>2. m \in Reply /\ <<m.from, m.id>> \in Nodes \X Nat
      BY DEF Reply
    <3>3. replies' \in [Conns -> SUBSET Reply] /\ lost' \in SUBSET (Nodes \X Nat)
      BY <3>1, <3>2, TakeType
    <3>. QED BY <2>10, <3>3 DEF StaleTake
  <2>11. CASE StaleCancelled(c)
    BY <2>11 DEF StaleCancelled
  <2>. QED BY <2>1, <2>2, <2>3, <2>4, <2>5, <2>6, <2>7, <2>8, <2>9, <2>10, <2>11
           DEF BackendStep, HandlerStep
<1>. QED BY <1>1, <1>2

LEMMA HostType ==
  ASSUME TypeOK, NEW n \in Nodes, HostStep(n)
  PROVE  TypeOK'
<1> USE DEF TypeOK, BrokerTypeOK, ResponderTypeOK, brokerVars
<1>1. /\ QueryTypeOK' /\ seen' \in [Conns -> SUBSET Addrs]
      /\ steady' \in [Conns -> SUBSET Nodes] /\ events' \in Nat
  BY DEF HostStep, queryVars, QueryTypeOK
<1>2. BrokerTypeOK' /\ ResponderTypeOK'
  <2>1. CASE Accept(n)
    <3>1. PICK m \in requests[n] :
            /\ requests' = [requests EXCEPT ![n] = @ \ {m}]
            /\ tasks' = [tasks EXCEPT ![n] = @ \cup
                 {[msg   |-> m,
                   step  |-> IF m.name = BadName \/ m.id = NoId
                             THEN "reject" ELSE "lookup",
                   addrs |-> {}]}]
      BY <2>1 DEF Accept
    <3>2. [msg   |-> m,
           step  |-> IF m.name = BadName \/ m.id = NoId THEN "reject" ELSE "lookup",
           addrs |-> {}] \in Task
      BY DEF Task, Request
    <3>3. requests' \in [Nodes -> SUBSET Request]
      BY <3>1
    <3>4. tasks' \in [Nodes -> SUBSET Task]
      BY <3>1, <3>2
    <3>. QED BY <2>1, <3>3, <3>4 DEF Accept
  <2>2. ASSUME NEW t \in tasks[n], Lookup(n, t) PROVE BrokerTypeOK' /\ ResponderTypeOK'
    <3>1. t \in Task
      OBVIOUS
    <3>2. tasks' \in [Nodes -> SUBSET Task]
      <4>1. CASE Become(n, t, [t EXCEPT !.step = "requeue"])
        BY <3>1, <4>1, BecomeType DEF Task
      <4>2. CASE Become(n, t, [t EXCEPT !.step = "reject"])
        BY <3>1, <4>2, BecomeType DEF Task
      <4>3. CASE \E a \in lxd[n][t.msg.name] :
                   Become(n, t, [t EXCEPT !.step = "reply", !.addrs = a])
        <5>1. PICK a \in lxd[n][t.msg.name] :
                Become(n, t, [t EXCEPT !.step = "reply", !.addrs = a])
          BY <4>3
        <5>2. t.msg.name \in Names
          BY <2>2, <3>1 DEF Lookup, Task
        <5>3. a \in SUBSET Addrs
          <6>1. lxd[n][t.msg.name] \in LocalResult
            BY <5>2
          <6>. QED BY ONLY <5>1, <6>1 DEF LocalResult, None, Some
        <5>4. [t EXCEPT !.step = "reply", !.addrs = a] \in Task
          BY <3>1, <5>3 DEF Task
        <5>. QED BY <5>1, <5>4, BecomeType
      <4>. QED BY <2>2, <4>1, <4>2, <4>3 DEF Lookup
    <3>. QED BY <2>2, <3>2 DEF Lookup
  <2>3. ASSUME NEW t \in tasks[n], PublishAddresses(n, t)
        PROVE  BrokerTypeOK' /\ ResponderTypeOK'
    <3>1. t \in Task /\ t.msg \in Request /\ t.addrs \in SUBSET Addrs
      BY DEF Task
    <3>2. t.msg.id \in Nat /\ t.msg.replyTo \in Conns
      BY <3>1 DEF Request
    <3>3. [id |-> t.msg.id, from |-> n, ok |-> TRUE, addrs |-> t.addrs] \in Reply
      BY <3>1, <3>2 DEF Reply
    <3>4. replies' \in [Conns -> SUBSET Reply]
      BY <2>3, <3>2, <3>3, ReplyType DEF PublishAddresses
    <3>5. [t EXCEPT !.step = "ack"] \in Task
      BY <3>1 DEF Task
    <3>6. tasks' \in [Nodes -> SUBSET Task]
      BY <2>3, <3>5, BecomeType DEF PublishAddresses
    <3>7. replied' \in SUBSET (Nodes \X Nat)
      BY <2>3, <3>2 DEF PublishAddresses
    <3>. QED BY <2>3, <3>4, <3>6, <3>7 DEF PublishAddresses
  <2>4. ASSUME NEW t \in tasks[n], Settle(n, t)
        PROVE  BrokerTypeOK' /\ ResponderTypeOK'
    <3>1. t.msg \in Request
      BY DEF Task
    <3>2. requests' \in [Nodes -> SUBSET Request]
      BY <2>4, <3>1 DEF Settle
    <3>. QED BY <2>4, <3>2 DEF Settle
  <2>. QED BY <2>1, <2>2, <2>3, <2>4 DEF HostStep, ResponderStep
<1>. QED BY <1>1, <1>2

LEMMA EnvironmentType == ASSUME TypeOK, Environment PROVE TypeOK'
<1> USE DEF TypeOK, BrokerTypeOK, QueryTypeOK, ResponderTypeOK, Event,
            brokerVars, queryVars, responderVars
<1>1. ASSUME NEW n \in Nodes, NEW x \in Names, InstanceChange(n, x) PROVE TypeOK'
  <2>1. ResponderTypeOK'
    BY <1>1 DEF InstanceChange
  <2>2. Known(x)' \subseteq Addrs
    <3>1. lxd' \in [Nodes -> [Names -> LocalResult]]
      BY <2>1
    <3>. HIDE DEF ResponderTypeOK
    <3>2. UNION UNION {lxd'[h][x] : h \in Nodes} \subseteq Addrs
      BY ONLY <3>1, KnownOf, x \in Names
    <3>. QED BY ONLY <3>2 DEF Known
  <2>. QED BY <1>1, <2>1, <2>2 DEF InstanceChange
<1>2. ASSUME NEW n \in Nodes, LxcFails(n) \/ LxcRecovers(n) PROVE TypeOK'
  <2>1. PICK xs \in SUBSET Names : lxcUp' = [lxcUp EXCEPT ![n] = xs]
    <3>1. lxcUp[n] \in SUBSET Names
      OBVIOUS
    <3>2. CASE LxcFails(n)
      BY <3>1, <3>2 DEF LxcFails
    <3>3. CASE LxcRecovers(n)
      <4>1. PICK x \in Names : lxcUp' = [lxcUp EXCEPT ![n] = @ \cup {x}]
        BY <3>3 DEF LxcRecovers
      <4>2. lxcUp[n] \cup {x} \in SUBSET Names
        BY <3>1
      <4>. QED BY <4>1, <4>2
    <3>. QED BY <1>2, <3>2, <3>3
  <2>2. lxcUp' \in [Nodes -> SUBSET Names]
    BY <2>1
  <2>. QED BY <1>2, <2>2 DEF LxcFails, LxcRecovers
<1>3. ASSUME NEW n \in Nodes, ResponderExits(n) PROVE TypeOK'
  BY <1>3 DEF ResponderExits, Exit, DropQueue
<1>4. ASSUME NEW n \in Nodes, ResponderStarts(n) PROVE TypeOK'
  BY <1>4 DEF ResponderStarts, Start, DeclareQueue
<1>5. CASE StrayRequest
  <2>1. PICK x \in Names \cup {BadName}, c \in Conns :
          PublishFanout([id |-> NoId, name |-> x, replyTo |-> c])
    BY <1>5 DEF StrayRequest
  <2>2. [id |-> NoId, name |-> x, replyTo |-> c] \in Request
    BY NoIdNat DEF Request
  <2>3. requests' \in [Nodes -> SUBSET Request]
    BY <2>1, <2>2, FanoutType
  <2>. QED BY <1>5, <2>3 DEF StrayRequest
<1>6. ASSUME NEW c \in Conns, StrayReply(c) PROVE TypeOK'
  <2>1. PICK n \in Nodes, id \in {NoId, corr[c]}, ok \in BOOLEAN :
          PublishReply(c, [id |-> id, from |-> n, ok |-> ok, addrs |-> {}])
    BY <1>6 DEF StrayReply
  <2>2. [id |-> id, from |-> n, ok |-> ok, addrs |-> {}] \in Reply
    BY NoIdNat DEF Reply
  <2>3. replies' \in [Conns -> SUBSET Reply]
    BY <2>1, <2>2, ReplyType
  <2>. QED BY <1>6, <2>3 DEF StrayReply
<1>7. ASSUME NEW n \in Nodes, LxcHangs(n) PROVE TypeOK'
  <2>1. PICK t \in tasks[n] : Hang(n, t)
    BY <1>7 DEF LxcHangs
  <2>2. t \in Task /\ t.step = "lookup"
    BY <2>1 DEF Hang
  <2>3. [t EXCEPT !.step = "hung"] \in Task
    BY <2>2 DEF Task
  <2>4. tasks' \in [Nodes -> SUBSET Task]
    BY <2>1, <2>3, BecomeType DEF Hang
  <2>. QED BY <1>7, <2>1, <2>4 DEF LxcHangs, Hang
<1>. QED BY <1>1, <1>2, <1>3, <1>4, <1>5, <1>6, <1>7 DEF Environment

LEMMA AskType ==
  ASSUME TypeOK, NEW c \in Conns, AskAndWatch(c)
  PROVE  TypeOK'
<1> USE DEF TypeOK, BrokerTypeOK, QueryTypeOK, ResponderTypeOK, brokerVars,
            responderVars, Goto, Asking
<1>1. PICK x \in Names : /\ Ask(c, x)
                         /\ seen' = [seen EXCEPT ![c] = Known(x)]
                         /\ steady' = [steady EXCEPT ![c] = bound]
                         /\ UNCHANGED <<responderVars, events>>
  BY DEF AskAndWatch
<1>2. Known(x) \subseteq Addrs
  BY KnownType
<1>. QED BY <1>1, <1>2 DEF Ask

LEMMA StutterType == ASSUME TypeOK, UNCHANGED vars PROVE TypeOK'
  BY DEF vars, TypeOK, BrokerTypeOK, QueryTypeOK, ResponderTypeOK, brokerVars,
         queryVars, responderVars

LEMMA TypeStep == TypeOK /\ [Next]_vars => TypeOK'
  BY AskType, BackendType, HostType, EnvironmentType, StutterType DEF Next

\* Every variable keeps its type, for all values of the constants.
THEOREM TypeCorrect == Spec => []TypeOK
  BY TypeInit, TypeStep, PTL DEF Spec
-----------------------------------------------------------------------------
(***************************************************************************)
(* Freshness of answers.                                                   *)
(***************************************************************************)
LEMMA IInvInit == Init => IInv
<1> SUFFICES ASSUME Init PROVE IInv
  OBVIOUS
<1>1. TypeOK
  BY TypeInit
<1>2. \A c \in Conns : pc[c] = "new" /\ answer[c] = {} /\ corr[c] = NoId
  BY DEF Init, QueryInit
<1>3. IdsDrawn
  BY NoIdNat DEF Init, BrokerInit, QueryInit, ResponderInit, IdsDrawn
<1>4. RequestsNamed /\ TasksNamed /\ RepliesSeen
  BY DEF Init, BrokerInit, ResponderInit, RequestsNamed, TasksNamed, RepliesSeen
<1>. QED BY <1>1, <1>2, <1>3, <1>4 DEF IInv, IdsReal, Watched, AnswerFresh, Asking

\* The asking side leaves alone what the other parts own.
LEMMA BackendFrame ==
  ASSUME NEW c \in Conns, BackendStep(c)
  PROVE  UNCHANGED <<tasks, lxd, seen>>
  BY DEF BackendStep, responderVars

\* A step that draws no id, publishes nothing and moves no handler of another
\* connection keeps the ids and the names.
LEMMA BackendKeepsIds ==
  ASSUME IInv, NEW c \in Conns, BackendStep(c), UNCHANGED <<corr, nextId, name, requests>>,
         \A d \in Conns : Awaiting(d, corr[d])' => Awaiting(d, corr[d]),
         \A d \in Conns : replies'[d] \subseteq replies[d]
  PROVE  /\ IdsDrawn' /\ IdsReal' /\ RequestsNamed' /\ TasksNamed' /\ RepliesSeen'
<1> USE BackendFrame
<1>1. \A d \in Conns : \A i : Awaiting(d, i)' => Awaiting(d, i)
  BY DEF Awaiting
<1>2. IdsDrawn' /\ IdsReal'
  BY <1>1 DEF IInv, IdsDrawn, IdsReal, Awaiting
<1>3. RequestsNamed'
  <2>. SUFFICES ASSUME NEW n \in Nodes, NEW m \in requests[n], Awaiting(m.replyTo, m.id)'
                PROVE  m.name = name[m.replyTo]
    BY DEF RequestsNamed
  <2>1. m.replyTo \in Conns
    BY DEF IInv, TypeOK, BrokerTypeOK, Request
  <2>. QED BY <1>1, <2>1 DEF IInv, RequestsNamed
<1>4. TasksNamed'
  <2>. SUFFICES ASSUME NEW n \in Nodes, NEW t \in tasks[n],
                       Awaiting(t.msg.replyTo, t.msg.id)'
                PROVE  /\ t.msg.name = name[t.msg.replyTo]
                       /\ t.addrs \subseteq seen[t.msg.replyTo]
    BY DEF TasksNamed
  <2>1. t.msg.replyTo \in Conns
    BY DEF IInv, TypeOK, ResponderTypeOK, Task, Request
  <2>. QED BY <1>1, <2>1 DEF IInv, TasksNamed
<1>5. RepliesSeen'
  BY <1>1 DEF IInv, RepliesSeen
<1>. QED BY <1>2, <1>3, <1>4, <1>5

LEMMA BackendWatched ==
  ASSUME IInv, NEW c \in Conns, BackendStep(c), UNCHANGED name,
         \A d \in Conns : pc'[d] \in Asking => pc[d] \in Asking
  PROVE  Watched'
  BY BackendFrame DEF IInv, Watched, Known

LEMMA RespondInv ==
  ASSUME IInv, NEW c \in Conns, BackendStep(c), NEW a \in SUBSET Addrs,
         Respond(c, a), a \subseteq seen[c]
  PROVE  IInv'
<1> USE BackendFrame
<1>1. TypeOK'
  BY BackendType DEF IInv
<1>2. /\ UNCHANGED <<corr, nextId, name, requests, replies, result>>
      /\ \A d \in Conns : pc'[d] = IF d = c THEN "idle" ELSE pc[d]
      /\ \A d \in Conns : answer'[d] = IF d = c THEN a ELSE answer[d]
  BY DEF Respond, Goto, brokerVars, IInv, TypeOK, QueryTypeOK
<1>3. \A d \in Conns : Awaiting(d, corr[d])' => Awaiting(d, corr[d])
  BY <1>2 DEF Awaiting, Asking
<1>4. IdsDrawn' /\ IdsReal' /\ RequestsNamed' /\ TasksNamed' /\ RepliesSeen'
  BY <1>2, <1>3, BackendKeepsIds
<1>5. Watched'
  BY <1>2, BackendWatched DEF Asking
<1>6. AnswerFresh'
  BY <1>2 DEF IInv, AnswerFresh, Asking, Addresses
<1>. QED BY <1>1, <1>4, <1>5, <1>6 DEF IInv

LEMMA ConsumeInv ==
  ASSUME IInv, NEW c \in Conns, BackendStep(c), Consume(c)
  PROVE  IInv'
<1> USE BackendFrame
<1>1. TypeOK'
  BY BackendType DEF IInv
<1>2. /\ UNCHANGED <<name, requests, replies, result, answer>>
      /\ pc[c] = "consume"
      /\ nextId \in Nat \ {0} /\ nextId' = nextId + 1
      /\ \A d \in Conns : pc'[d] = IF d = c THEN "publish" ELSE pc[d]
      /\ \A d \in Conns : corr'[d] = IF d = c THEN nextId ELSE corr[d]
      /\ corr \in [Conns -> Nat]
  BY DEF Consume, Goto, brokerVars, IInv, TypeOK, QueryTypeOK
<1>3. IdsDrawn'
  <2>1. \A n \in Nodes : \A m \in requests[n] : m.id \in Nat
    BY DEF IInv, TypeOK, BrokerTypeOK, Request
  <2>2. \A n \in Nodes : \A t \in tasks[n] : t.msg.id \in Nat
    BY DEF IInv, TypeOK, ResponderTypeOK, Task, Request
  <2>3. \A d \in Conns : \A m \in replies[d] : m.id \in Nat
    BY DEF IInv, TypeOK, BrokerTypeOK, Reply
  <2>. QED BY <1>2, <2>1, <2>2, <2>3 DEF IInv, IdsDrawn
<1>4. IdsReal'
  BY <1>2 DEF IInv, IdsReal, NoId
<1>5. \A d \in Conns, i \in Nat : i < nextId /\ Awaiting(d, i)' => Awaiting(d, i)
  BY <1>2 DEF Awaiting
<1>6. RequestsNamed'
  <2>. SUFFICES ASSUME NEW n \in Nodes, NEW m \in requests[n], Awaiting(m.replyTo, m.id)'
                PROVE  m.name = name[m.replyTo]
    BY <1>2 DEF RequestsNamed
  <2>1. m.replyTo \in Conns /\ m.id \in Nat /\ m.id < nextId
    BY DEF IInv, TypeOK, BrokerTypeOK, Request, IdsDrawn
  <2>. QED BY <1>5, <2>1 DEF IInv, RequestsNamed
<1>7. TasksNamed'
  <2>. SUFFICES ASSUME NEW n \in Nodes, NEW t \in tasks[n],
                       Awaiting(t.msg.replyTo, t.msg.id)'
                PROVE  /\ t.msg.name = name[t.msg.replyTo]
                       /\ t.addrs \subseteq seen[t.msg.replyTo]
    BY <1>2 DEF TasksNamed
  <2>1. t.msg.replyTo \in Conns /\ t.msg.id \in Nat /\ t.msg.id < nextId
    BY DEF IInv, TypeOK, ResponderTypeOK, Task, Request, IdsDrawn
  <2>. QED BY <1>5, <2>1 DEF IInv, TasksNamed
<1>8. RepliesSeen'
  <2>1. \A d \in Conns : \A m \in replies[d] : m.id \in Nat /\ m.id < nextId
    BY DEF IInv, TypeOK, BrokerTypeOK, Reply, IdsDrawn
  <2>. QED BY <1>2, <1>5, <2>1 DEF IInv, RepliesSeen
<1>9. Watched'
  BY <1>2, BackendWatched DEF Asking
<1>10. AnswerFresh'
  BY <1>2 DEF IInv, AnswerFresh, Asking, Addresses
<1>. QED BY <1>1, <1>3, <1>4, <1>6, <1>7, <1>8, <1>9, <1>10 DEF IInv

LEMMA PublishInv ==
  ASSUME IInv, NEW c \in Conns, BackendStep(c), Publish(c)
  PROVE  IInv'
<1> USE BackendFrame
<1> DEFINE q == [id |-> corr[c], name |-> name[c], replyTo |-> c]
<1>1. TypeOK'
  BY BackendType DEF IInv
<1>2. /\ UNCHANGED <<name, corr, nextId, replies, result, answer>>
      /\ pc[c] = "publish"
      /\ \A d \in Conns : pc'[d] = IF d = c THEN "collect" ELSE pc[d]
      /\ \A n \in Nodes : \A m \in requests'[n] : m \in requests[n] \/ m = q
  BY DEF Publish, PublishFanout, Goto, IInv, TypeOK, QueryTypeOK
<1>3. \A d \in Conns : \A i : Awaiting(d, i)' => Awaiting(d, i)
  BY <1>2 DEF Awaiting, Asking
<1>4. IdsDrawn' /\ IdsReal'
  BY <1>2 DEF IInv, IdsDrawn, IdsReal, Asking
<1>5. RequestsNamed'
  <2>. SUFFICES ASSUME NEW n \in Nodes, NEW m \in requests'[n], Awaiting(m.replyTo, m.id)'
                PROVE  m.name = name[m.replyTo]
    BY <1>2 DEF RequestsNamed
  <2>1. m.replyTo \in Conns
    BY <1>1 DEF TypeOK, BrokerTypeOK, Request
  <2>. QED BY <1>2, <1>3, <2>1 DEF IInv, RequestsNamed
<1>6. TasksNamed'
  <2>1. \A n \in Nodes : \A t \in tasks[n] : t.msg.replyTo \in Conns
    BY DEF IInv, TypeOK, ResponderTypeOK, Task, Request
  <2>. QED BY <1>2, <1>3, <2>1 DEF IInv, TasksNamed
<1>7. RepliesSeen'
  BY <1>2, <1>3 DEF IInv, RepliesSeen
<1>8. Watched'
  BY <1>2, BackendWatched DEF Asking
<1>9. AnswerFresh'
  BY <1>2 DEF IInv, AnswerFresh, Asking, Addresses
<1>. QED BY <1>1, <1>4, <1>5, <1>6, <1>7, <1>8, <1>9 DEF IInv

LEMMA ReceiveInv ==
  ASSUME IInv, NEW c \in Conns, BackendStep(c), Receive(c)
  PROVE  IInv'
<1> USE BackendFrame
<1>1. TypeOK'
  BY BackendType DEF IInv
<1>2. PICK m \in replies[c] :
        /\ TakeReply(c, m)
        /\ result' = [result EXCEPT ![c] = IF Merges(c, m) THEN @ \cup {m} ELSE @]
  BY DEF Receive
<1>3. /\ UNCHANGED <<name, corr, nextId, requests, answer>>
      /\ pc[c] = "collect"
      /\ \A d \in Conns : pc'[d] = IF d = c THEN "settle" ELSE pc[d]
      /\ \A d \in Conns : replies'[d] \subseteq replies[d]
      /\ \A d \in Conns : result'[d] = IF d = c /\ Merges(c, m)
                                       THEN result[d] \cup {m} ELSE result[d]
  BY <1>2 DEF Receive, Goto, TakeReply, IInv, TypeOK, QueryTypeOK, BrokerTypeOK
<1>4. IdsDrawn' /\ IdsReal' /\ RequestsNamed' /\ TasksNamed' /\ RepliesSeen'
  BY <1>3, BackendKeepsIds DEF Awaiting, Asking
<1>5. Watched'
  BY <1>3, BackendWatched DEF Asking
<1>6. Merges(c, m) => m.addrs \subseteq seen[c]
  BY <1>3 DEF Merges, IInv, RepliesSeen, Awaiting, Asking
<1>7. AnswerFresh'
  BY <1>3, <1>6 DEF IInv, AnswerFresh, Asking, Addresses
<1>. QED BY <1>1, <1>4, <1>5, <1>7 DEF IInv

LEMMA BackendInv ==
  ASSUME IInv, NEW c \in Conns, BackendStep(c)
  PROVE  IInv'
<1>1. CASE Quiet(c)
  <2>1. Addresses(result[c]) \in SUBSET Addrs
    BY AddressesType DEF IInv, TypeOK, QueryTypeOK
  <2>2. Addresses(result[c]) \subseteq seen[c]
    BY <1>1 DEF Quiet, IInv, AnswerFresh, Asking
  <2>. QED BY <1>1, <2>1, <2>2, RespondInv DEF Quiet
<1>2. CASE OuterTimeout(c)
  BY <1>2, RespondInv DEF OuterTimeout
<1>3. CASE \/ Open(c) \/ Settled(c) \/ Taint(c) \/ Close(c)
           \/ StaleTake(c) \/ StaleCancelled(c)
  <2>1. TypeOK'
    BY BackendType DEF IInv
  <2>2. /\ UNCHANGED <<name, corr, nextId, requests, result, answer>>
        /\ \A d \in Conns : replies'[d] \subseteq replies[d]
        /\ \A d \in Conns : pc'[d] \in Asking => pc[d] \in Asking \ {"consume"} \/ pc'[d] = pc[d]
    BY <1>3 DEF Open, Settled, Taint, Close, StaleTake, StaleCancelled, TakeReply,
         Goto, Asking, brokerVars, IInv, TypeOK, BrokerTypeOK, QueryTypeOK
  <2>3. IdsDrawn' /\ IdsReal' /\ RequestsNamed' /\ TasksNamed' /\ RepliesSeen'
    BY <2>2, BackendKeepsIds DEF Awaiting
  <2>4. Watched'
    BY <2>2, BackendWatched
  <2>5. AnswerFresh'
    BY <2>2, BackendFrame DEF IInv, AnswerFresh
  <2>. QED BY <2>1, <2>3, <2>4, <2>5 DEF IInv
<1>. QED BY <1>1, <1>2, <1>3, ConsumeInv, PublishInv, ReceiveInv
         DEF BackendStep, HandlerStep

\* A step that leaves the asking side, the instances and the history alone
\* only has to be checked for the messages it moves.
LEMMA MessagesInv ==
  ASSUME IInv, TypeOK', UNCHANGED <<queryVars, lxd, seen>>,
         \A n \in Nodes : \A m \in requests'[n] :
           m.id < nextId /\ (Awaiting(m.replyTo, m.id) => m.name = name[m.replyTo]),
         \A n \in Nodes : \A t \in tasks'[n] :
           /\ t.msg.id < nextId
           /\ Awaiting(t.msg.replyTo, t.msg.id) =>
                /\ t.msg.name = name[t.msg.replyTo]
                /\ t.addrs \subseteq seen[t.msg.replyTo],
         \A c \in Conns : \A m \in replies'[c] :
           m.id < nextId /\ (Awaiting(c, m.id) => m.addrs \subseteq seen[c])
  PROVE  IInv'
<1>1. UNCHANGED <<pc, name, corr, result, answer, nextId>>
  BY DEF queryVars
<1>2. \A c, i : Awaiting(c, i)' <=> Awaiting(c, i)
  BY <1>1 DEF Awaiting
<1>3. IdsDrawn' /\ IdsReal' /\ Watched' /\ AnswerFresh'
  BY <1>1 DEF IInv, IdsDrawn, IdsReal, Watched, Known, AnswerFresh
<1>4. RequestsNamed' /\ TasksNamed' /\ RepliesSeen'
  BY <1>1, <1>2 DEF RequestsNamed, TasksNamed, RepliesSeen
<1>. QED BY <1>3, <1>4 DEF IInv

\* What IInv says of the messages before the step, in the form of MessagesInv.
LEMMA MessagesBefore ==
  ASSUME IInv
  PROVE  /\ \A n \in Nodes : \A m \in requests[n] :
              m.id < nextId /\ (Awaiting(m.replyTo, m.id) => m.name = name[m.replyTo])
         /\ \A n \in Nodes : \A t \in tasks[n] :
              /\ t.msg.id < nextId
              /\ Awaiting(t.msg.replyTo, t.msg.id) =>
                   /\ t.msg.name = name[t.msg.replyTo]
                   /\ t.addrs \subseteq seen[t.msg.replyTo]
         /\ \A c \in Conns : \A m \in replies[c] :
              m.id < nextId /\ (Awaiting(c, m.id) => m.addrs \subseteq seen[c])
  BY DEF IInv, IdsDrawn, RequestsNamed, TasksNamed, RepliesSeen

\* Delivery t of host n becomes u: the same request, with addresses that a
\* lookup waiting for them has seen.
LEMMA BecomeInv ==
  ASSUME IInv, TypeOK', UNCHANGED <<queryVars, lxd, seen, requests>>,
         NEW n \in Nodes, NEW t \in tasks[n], NEW u, Become(n, t, u),
         u.msg = t.msg,
         Awaiting(t.msg.replyTo, t.msg.id) => u.addrs \subseteq seen[t.msg.replyTo],
         \A c \in Conns : \A m \in replies'[c] :
           m.id < nextId /\ (Awaiting(c, m.id) => m.addrs \subseteq seen[c])
  PROVE  IInv'
<1>1. \A h \in Nodes : \A v \in tasks'[h] : v \in tasks[h] \/ (h = n /\ v = u)
  BY DEF Become, IInv, TypeOK, ResponderTypeOK
<1>2. /\ t.msg.id < nextId
      /\ Awaiting(t.msg.replyTo, t.msg.id) => t.msg.name = name[t.msg.replyTo]
  BY MessagesBefore
<1>3. \A h \in Nodes : \A v \in tasks'[h] :
        /\ v.msg.id < nextId
        /\ Awaiting(v.msg.replyTo, v.msg.id) =>
             /\ v.msg.name = name[v.msg.replyTo]
             /\ v.addrs \subseteq seen[v.msg.replyTo]
  <2>. SUFFICES ASSUME NEW h \in Nodes, NEW v \in tasks'[h]
                PROVE  /\ v.msg.id < nextId
                       /\ Awaiting(v.msg.replyTo, v.msg.id) =>
                            /\ v.msg.name = name[v.msg.replyTo]
                            /\ v.addrs \subseteq seen[v.msg.replyTo]
    OBVIOUS
  <2>1. CASE v \in tasks[h]
    BY <2>1, MessagesBefore
  <2>2. CASE v = u
    BY <2>2, <1>2
  <2>. QED BY <1>1, <2>1, <2>2
<1>. QED BY <1>3, MessagesBefore, MessagesInv

LEMMA HostInv ==
  ASSUME IInv, NEW n \in Nodes, HostStep(n)
  PROVE  IInv'
<1>1. TypeOK'
  BY HostType DEF IInv
<1>2. UNCHANGED <<queryVars, seen, lxd>>
  BY DEF HostStep, ResponderStep, Accept, Lookup, PublishAddresses, Settle
<1>3. CASE Accept(n)
  <2>1. PICK m \in requests[n] :
          /\ requests' = [requests EXCEPT ![n] = @ \ {m}]
          /\ tasks' = [tasks EXCEPT ![n] = @ \cup
               {[msg   |-> m,
                 step  |-> IF m.name = BadName \/ m.id = NoId
                           THEN "reject" ELSE "lookup",
                 addrs |-> {}]}]
    BY <1>3 DEF Accept
  <2>2. /\ \A h \in Nodes : requests'[h] \subseteq requests[h]
        /\ \A h \in Nodes : \A t \in tasks'[h] :
             t \in tasks[h] \/ (t.msg = m /\ t.addrs = {})
        /\ UNCHANGED replies
    BY <1>3, <2>1 DEF Accept, IInv, TypeOK, BrokerTypeOK, ResponderTypeOK
  <2>. QED BY <1>1, <1>2, <2>2, MessagesBefore, MessagesInv
<1>4. ASSUME NEW t \in tasks[n], Lookup(n, t) PROVE IInv'
  <2>1. t \in Task /\ t.step = "lookup" /\ UNCHANGED <<requests, replies>>
    BY <1>4 DEF Lookup, brokerVars, IInv, TypeOK, ResponderTypeOK
  <2>2. CASE \/ Become(n, t, [t EXCEPT !.step = "requeue"])
             \/ Become(n, t, [t EXCEPT !.step = "reject"])
    <3>1. ASSUME NEW s, Become(n, t, [t EXCEPT !.step = s]) PROVE IInv'
      <4> DEFINE u == [t EXCEPT !.step = s]
      <4>1. u.msg = t.msg /\ u.addrs = t.addrs
        BY <2>1 DEF Task
      <4>. QED BY <1>1, <1>2, <2>1, <3>1, <4>1, MessagesBefore, BecomeInv
    <3>. QED BY <2>2, <3>1
  <2>3. CASE \E a \in lxd[n][t.msg.name] :
               Become(n, t, [t EXCEPT !.step = "reply", !.addrs = a])
    <3>1. PICK a \in lxd[n][t.msg.name] :
            Become(n, t, [t EXCEPT !.step = "reply", !.addrs = a])
      BY <2>3
    <3> DEFINE u == [t EXCEPT !.step = "reply", !.addrs = a]
    <3>2. u.msg = t.msg /\ u.addrs = a
      BY <2>1 DEF Task
    <3>3. a \subseteq Known(t.msg.name)
      BY DEF Known
    <3>4. t.msg.replyTo \in Conns
      BY <2>1 DEF Task, Request
    <3>5. Awaiting(t.msg.replyTo, t.msg.id) => a \subseteq seen[t.msg.replyTo]
      BY <3>3, <3>4, MessagesBefore DEF IInv, Watched, Awaiting
    <3>. QED BY <1>1, <1>2, <2>1, <3>1, <3>2, <3>5, MessagesBefore, BecomeInv
  <2>. QED BY <1>4, <2>2, <2>3 DEF Lookup
<1>5. ASSUME NEW t \in tasks[n], PublishAddresses(n, t) PROVE IInv'
  <2> DEFINE r == [id |-> t.msg.id, from |-> n, ok |-> TRUE, addrs |-> t.addrs]
             u == [t EXCEPT !.step = "ack"]
  <2>1. t \in Task
    BY DEF IInv, TypeOK, ResponderTypeOK
  <2>2. u.msg = t.msg /\ u.addrs = t.addrs
    BY <2>1 DEF Task
  <2>3. /\ PublishReply(t.msg.replyTo, r)
        /\ Become(n, t, u)
        /\ UNCHANGED requests
    BY <1>5 DEF PublishAddresses
  <2>4. \A c \in Conns : \A m \in replies'[c] :
          m \in replies[c] \/ (c = t.msg.replyTo /\ m = r)
    BY <2>3 DEF PublishReply, IInv, TypeOK, BrokerTypeOK
  <2>5. r.id = t.msg.id /\ r.addrs = t.addrs
    OBVIOUS
  <2>6. \A c \in Conns : \A m \in replies'[c] :
          m.id < nextId /\ (Awaiting(c, m.id) => m.addrs \subseteq seen[c])
    <3>. HIDE DEF r
    <3>. QED BY <2>4, <2>5, MessagesBefore
  <2>. HIDE DEF r, u
  <2>. QED BY <1>1, <1>2, <2>2, <2>3, <2>6, MessagesBefore, BecomeInv
<1>6. ASSUME NEW t \in tasks[n], Settle(n, t) PROVE IInv'
  <2>1. /\ \A h \in Nodes : \A m \in requests'[h] : m \in requests[h] \/ (h = n /\ m = t.msg)
        /\ \A h \in Nodes : tasks'[h] \subseteq tasks[h]
        /\ UNCHANGED replies
    BY <1>6 DEF Settle, IInv, TypeOK, BrokerTypeOK, ResponderTypeOK
  <2>. QED BY <1>1, <1>2, <2>1, MessagesBefore, MessagesInv
<1>. QED BY <1>3, <1>4, <1>5, <1>6 DEF HostStep, ResponderStep

LEMMA AskInv ==
  ASSUME IInv, NEW c \in Conns, AskAndWatch(c)
  PROVE  IInv'
<1>1. PICK x \in Names : /\ Ask(c, x)
                         /\ seen' = [seen EXCEPT ![c] = Known(x)]
                         /\ UNCHANGED <<responderVars, events>>
  BY DEF AskAndWatch
<1>2. TypeOK'
  BY AskType DEF IInv
<1>3. /\ UNCHANGED <<requests, replies, corr, nextId, tasks, lxd>>
      /\ \A d \in Conns : pc'[d] = IF d = c THEN "consume" ELSE pc[d]
      /\ \A d \in Conns : name'[d] = IF d = c THEN x ELSE name[d]
      /\ \A d \in Conns : seen'[d] = IF d = c THEN Known(x) ELSE seen[d]
      /\ \A d \in Conns : result'[d] = IF d = c THEN {} ELSE result[d]
      /\ \A d \in Conns : answer'[d] = IF d = c THEN {} ELSE answer[d]
  BY <1>1 DEF Ask, Goto, brokerVars, responderVars, IInv, TypeOK, QueryTypeOK
<1>4. \A d \in Conns : \A i : Awaiting(d, i)' => d # c /\ Awaiting(d, i)
  BY <1>3 DEF Awaiting
<1>5. IdsDrawn' /\ IdsReal'
  BY <1>3 DEF IInv, IdsDrawn, IdsReal
<1>6. Watched'
  <2>. SUFFICES ASSUME NEW d \in Conns, pc'[d] \in Asking
                PROVE  Known(name[d])' \subseteq seen'[d]
    BY DEF Watched
  <2>1. CASE d = c
    <3>1. name'[d] = x /\ seen'[d] = Known(x) /\ lxd' = lxd
      BY <1>3, <2>1
    <3>2. Known(name[d])' = Known(x)
      BY <3>1 DEF Known
    <3>. QED BY <3>1, <3>2
  <2>2. CASE d # c
    <3>1. Known(name[d])' = Known(name[d])
      BY <1>3, <2>2 DEF Known
    <3>. QED BY <1>3, <2>2, <3>1 DEF IInv, Watched
  <2>. QED BY <2>1, <2>2
<1>7. RequestsNamed'
  <2>. SUFFICES ASSUME NEW n \in Nodes, NEW m \in requests[n], Awaiting(m.replyTo, m.id)'
                PROVE  m.name = name'[m.replyTo]
    BY <1>3 DEF RequestsNamed
  <2>1. m.replyTo \in Conns
    BY DEF IInv, TypeOK, BrokerTypeOK, Request
  <2>. QED BY <1>3, <1>4, <2>1 DEF IInv, RequestsNamed
<1>8. TasksNamed'
  <2>. SUFFICES ASSUME NEW n \in Nodes, NEW t \in tasks[n],
                       Awaiting(t.msg.replyTo, t.msg.id)'
                PROVE  /\ t.msg.name = name'[t.msg.replyTo]
                       /\ t.addrs \subseteq seen'[t.msg.replyTo]
    BY <1>3 DEF TasksNamed
  <2>1. t.msg.replyTo \in Conns
    BY DEF IInv, TypeOK, ResponderTypeOK, Task, Request
  <2>. QED BY <1>3, <1>4, <2>1 DEF IInv, TasksNamed
<1>9. RepliesSeen'
  BY <1>3, <1>4 DEF IInv, RepliesSeen
<1>10. AnswerFresh'
  BY <1>3 DEF IInv, AnswerFresh, Addresses
<1>. QED BY <1>2, <1>5, <1>6, <1>7, <1>8, <1>9, <1>10 DEF IInv

LEMMA InstanceChangeInv ==
  ASSUME IInv, NEW n \in Nodes, NEW x \in Names, InstanceChange(n, x), TypeOK'
  PROVE  IInv'
<1>1. /\ UNCHANGED <<requests, replies, tasks, pc, name, corr, result, answer, nextId>>
      /\ \A h \in Nodes : \A y \in Names : y # x => lxd'[h][y] = lxd[h][y]
      /\ \A c \in Conns :
           seen'[c] = IF name[c] = x /\ pc[c] \in Asking
                      THEN seen[c] \cup Known(x)' ELSE seen[c]
  BY DEF InstanceChange, brokerVars, queryVars, IInv, TypeOK, ResponderTypeOK
<1>2. \A c, i : Awaiting(c, i)' <=> Awaiting(c, i)
  BY <1>1 DEF Awaiting
<1>3. \A c \in Conns : seen[c] \subseteq seen'[c]
  BY <1>1
<1>4. IdsDrawn' /\ IdsReal' /\ RequestsNamed'
  BY <1>1, <1>2 DEF IInv, IdsDrawn, IdsReal, RequestsNamed
<1>5. \A y \in Names : y # x => Known(y)' = Known(y)
  BY <1>1 DEF Known
<1>6. Watched'
  BY <1>1, <1>5 DEF IInv, TypeOK, QueryTypeOK, Watched
<1>7. TasksNamed'
  <2>1. \A h \in Nodes : \A t \in tasks[h] : t.msg.replyTo \in Conns
    BY DEF IInv, TypeOK, ResponderTypeOK, Task, Request
  <2>. QED BY <1>1, <1>2, <1>3, <2>1 DEF IInv, TasksNamed
<1>8. RepliesSeen' /\ AnswerFresh'
  BY <1>1, <1>2, <1>3 DEF IInv, RepliesSeen, AnswerFresh
<1>. QED BY <1>4, <1>6, <1>7, <1>8 DEF IInv

LEMMA EnvironmentInv == ASSUME IInv, Environment PROVE IInv'
<1>1. TypeOK'
  BY EnvironmentType DEF IInv
<1>2. ASSUME NEW n \in Nodes, NEW x \in Names, InstanceChange(n, x) PROVE IInv'
  BY <1>1, <1>2, InstanceChangeInv
<1>3. ASSUME NEW n \in Nodes, LxcFails(n) \/ LxcRecovers(n) PROVE IInv'
  <2>1. UNCHANGED <<queryVars, lxd, seen, requests, replies, tasks>>
    BY <1>3 DEF LxcFails, LxcRecovers, brokerVars
  <2>. QED BY <1>1, <2>1, MessagesBefore, MessagesInv
<1>4. ASSUME NEW n \in Nodes, ResponderExits(n) \/ ResponderStarts(n) PROVE IInv'
  <2>1. /\ UNCHANGED <<queryVars, lxd, seen, replies>>
        /\ \A h \in Nodes : requests'[h] \subseteq requests[h]
        /\ \A h \in Nodes : tasks'[h] \subseteq tasks[h]
    BY <1>4 DEF ResponderExits, Exit, DropQueue, ResponderStarts, Start, DeclareQueue,
                responderVars, IInv, TypeOK, BrokerTypeOK, ResponderTypeOK
  <2>. QED BY <1>1, <2>1, MessagesBefore, MessagesInv
<1>5. CASE StrayRequest
  <2>1. PICK x \in Names \cup {BadName}, c \in Conns :
          PublishFanout([id |-> NoId, name |-> x, replyTo |-> c])
    BY <1>5 DEF StrayRequest
  <2> DEFINE q == [id |-> NoId, name |-> x, replyTo |-> c]
  <2>2. /\ \A h \in Nodes : \A m \in requests'[h] : m \in requests[h] \/ m = q
        /\ UNCHANGED <<queryVars, lxd, seen, tasks, replies>>
    BY <1>5, <2>1 DEF StrayRequest, PublishFanout, responderVars, IInv, TypeOK, BrokerTypeOK
  <2>3. q.id < nextId /\ ~ Awaiting(q.replyTo, q.id)
    BY DEF NoId, Awaiting, IInv, IdsReal, TypeOK, QueryTypeOK
  <2>. HIDE DEF q
  <2>. QED BY <1>1, <2>2, <2>3, MessagesBefore, MessagesInv
<1>6. ASSUME NEW c \in Conns, StrayReply(c) PROVE IInv'
  <2>1. PICK n \in Nodes, id \in {NoId, corr[c]}, ok \in BOOLEAN :
          PublishReply(c, [id |-> id, from |-> n, ok |-> ok, addrs |-> {}])
    BY <1>6 DEF StrayReply
  <2> DEFINE r == [id |-> id, from |-> n, ok |-> ok, addrs |-> {}]
  <2>2. /\ \A d \in Conns : \A m \in replies'[d] : m \in replies[d] \/ m = r
        /\ UNCHANGED <<queryVars, lxd, seen, tasks, requests>>
    BY <1>6, <2>1 DEF StrayReply, PublishReply, responderVars, IInv, TypeOK, BrokerTypeOK
  <2>3. r.id < nextId /\ r.addrs = {}
    BY DEF NoId, IInv, IdsDrawn, TypeOK, QueryTypeOK
  <2>. HIDE DEF r
  <2>4. \A d \in Conns : \A m \in replies'[d] :
          m.id < nextId /\ (Awaiting(d, m.id) => m.addrs \subseteq seen[d])
    BY <2>2, <2>3, MessagesBefore
  <2>. QED BY <1>1, <2>2, <2>4, MessagesBefore, MessagesInv
<1>7. ASSUME NEW n \in Nodes, LxcHangs(n) PROVE IInv'
  <2>1. PICK t \in tasks[n] : Hang(n, t)
    BY <1>7 DEF LxcHangs
  <2>2. t \in Task /\ UNCHANGED <<queryVars, lxd, seen, requests, replies>>
    BY <1>7, <2>1 DEF LxcHangs, Hang, brokerVars, IInv, TypeOK, ResponderTypeOK
  <2>. DEFINE u == [t EXCEPT !.step = "hung"]
  <2>3. u.msg = t.msg /\ u.addrs = t.addrs /\ Become(n, t, u)
    BY <2>1, <2>2 DEF Task, Hang
  <2>. HIDE DEF u
  <2>. QED BY <1>1, <2>2, <2>3, MessagesBefore, BecomeInv
<1>. QED BY <1>2, <1>3, <1>4, <1>5, <1>6, <1>7 DEF Environment

LEMMA StutterInv == ASSUME IInv, UNCHANGED vars PROVE IInv'
<1>1. TypeOK'
  BY StutterType DEF IInv
<1>2. UNCHANGED <<queryVars, lxd, seen, requests, replies, tasks>>
  BY DEF vars, brokerVars, responderVars
<1>. QED BY <1>1, <1>2, MessagesBefore, MessagesInv

LEMMA IInvStep == IInv /\ [Next]_vars => IInv'
  BY AskInv, BackendInv, HostInv, EnvironmentInv, StutterInv DEF Next

\* No answer holds an address that no host reported for the container while
\* the lookup ran, for all values of the constants: the correlation check of
\* query.rs:165 suffices to keep late replies and other lookups apart.
THEOREM AnswersAreFresh == Spec => []AnswerFresh
<1>1. IInv => AnswerFresh
  BY DEF IInv
<1>. QED BY <1>1, IInvInit, IInvStep, PTL DEF Spec
-----------------------------------------------------------------------------
(***************************************************************************)
(* The deployment implements Resolve.                                      *)
(***************************************************************************)
Askers == {c \in Conns : pc[c] \in Asking}

Stays == UNCHANGED <<Askers, seen, answer>>

PromiseStep == [Promise!Next]_(Promise!vars)

LEMMA StaysPromise == Stays => PromiseStep
  BY DEF Stays, PromiseStep, Askers, Promise!vars

\* Each way a lookup ends is the one answer of its question.
LEMMA RespondPromise ==
  ASSUME IInv, NEW c \in Conns, pc[c] \in Asking, NEW a \in SUBSET seen[c],
         Respond(c, a), UNCHANGED seen
  PROVE  PromiseStep
<1>1. /\ c \in Askers
      /\ Askers' = Askers \ {c}
      /\ answer' = [answer EXCEPT ![c] = a]
  BY DEF Askers, Respond, Goto, Asking, IInv, TypeOK, QueryTypeOK
<1>2. Promise!Answer(c)
  BY <1>1 DEF Promise!Answer, Askers
<1>. QED BY <1>2 DEF PromiseStep, Promise!Next

LEMMA BackendPromise ==
  ASSUME IInv, NEW c \in Conns, BackendStep(c)
  PROVE  PromiseStep
<1>0. UNCHANGED seen
  BY BackendFrame
<1>1. CASE Quiet(c)
  <2>1. Addresses(result[c]) \in SUBSET seen[c]
    BY <1>1 DEF Quiet, Asking, IInv, AnswerFresh
  <2>. QED BY <1>0, <1>1, <2>1, RespondPromise DEF Quiet, Asking
<1>2. CASE OuterTimeout(c)
  <2>1. {} \in SUBSET seen[c]
    OBVIOUS
  <2>. QED BY <1>0, <1>2, <2>1, RespondPromise DEF OuterTimeout
<1>3. CASE Taint(c)
  <2>1. Askers' = {} /\ UNCHANGED answer
    BY <1>3 DEF Taint, Askers, Asking
  <2>2. Promise!Abandon
    BY <1>0, <2>1 DEF Promise!Abandon, Askers
  <2>. QED BY <2>2 DEF PromiseStep, Promise!Next
<1>4. CASE \/ Open(c) \/ Consume(c) \/ Publish(c) \/ Receive(c) \/ Settled(c) \/ Close(c)
  <2>1. \A d \in Conns : pc'[d] \in Asking <=> pc[d] \in Asking
    BY <1>4 DEF Open, Consume, Publish, Receive, Settled, Close, Goto, Asking, IInv,
                TypeOK, QueryTypeOK
  <2>2. UNCHANGED answer
    BY <1>4 DEF Open, Consume, Publish, Receive, Settled, Close
  <2>3. Stays
    BY <1>0, <2>1, <2>2 DEF Stays, Askers
  <2>. QED BY <2>3, StaysPromise
<1>5. CASE StaleTake(c) \/ StaleCancelled(c)
  <2>1. Stays
    BY <1>0, <1>5 DEF StaleTake, StaleCancelled, Stays, Askers
  <2>. QED BY <2>1, StaysPromise
<1>. QED BY <1>1, <1>2, <1>3, <1>4, <1>5 DEF BackendStep, HandlerStep

LEMMA AskPromise ==
  ASSUME IInv, NEW c \in Conns, AskAndWatch(c)
  PROVE  PromiseStep
<1>1. PICK x \in Names : Ask(c, x) /\ seen' = [seen EXCEPT ![c] = Known(x)]
  BY DEF AskAndWatch
<1>2. ResponderTypeOK
  BY DEF IInv, TypeOK
<1>3. Known(x) \in SUBSET Addrs
  BY <1>2, KnownType
<1>4. /\ c \notin Askers
      /\ Askers' = Askers \cup {c}
      /\ answer' = [answer EXCEPT ![c] = {}]
  BY <1>1 DEF Ask, Goto, Askers, Asking, IInv, TypeOK, QueryTypeOK
<1>5. Promise!Ask(c)
  BY <1>1, <1>3, <1>4 DEF Promise!Ask, Askers
<1>. QED BY <1>5 DEF PromiseStep, Promise!Next

LEMMA EnvironmentPromise ==
  ASSUME IInv, Environment
  PROVE  PromiseStep
<1>1. ASSUME NEW n \in Nodes, NEW x \in Names, InstanceChange(n, x)
      PROVE  PromiseStep
  <2>1. UNCHANGED <<Askers, answer>>
    BY <1>1 DEF InstanceChange, queryVars, Askers
  <2>2. TypeOK'
    BY EnvironmentType DEF IInv
  <2>3. seen' \in [Conns -> SUBSET Addrs]
    BY <2>2 DEF TypeOK
  <2>4. \A c \in Conns : IF c \in Askers THEN seen[c] \subseteq seen'[c]
                                         ELSE seen'[c] = seen[c]
    BY <1>1 DEF InstanceChange, Askers
  <2>5. Promise!Learn
    BY <2>1, <2>3, <2>4 DEF Promise!Learn, Askers
  <2>. QED BY <2>5 DEF PromiseStep, Promise!Next
<1>2. ASSUME ~ \E n \in Nodes, x \in Names : InstanceChange(n, x)
      PROVE  PromiseStep
  <2>1. UNCHANGED <<queryVars, seen>>
    BY <1>2 DEF Environment, LxcFails, LxcRecovers, LxcHangs, ResponderExits, ResponderStarts,
                StrayRequest, StrayReply
  <2>2. Stays
    BY <2>1 DEF queryVars, Stays, Askers
  <2>. QED BY <2>2, StaysPromise
<1>. QED BY <1>1, <1>2

\* Every behaviour of the AMQP deployment is one that Resolve allows.
THEOREM AmqpKeepsPromise == Spec => ImplementsResolve
<1>1. Init => Promise!Init
  BY DEF Init, QueryInit, Promise!Init, Asking
<1>2. IInv /\ [Next]_vars => PromiseStep
  <2>1. ASSUME IInv, NEW n \in Nodes, HostStep(n) PROVE PromiseStep
    BY <2>1, StaysPromise DEF HostStep, queryVars, Stays, Askers
  <2>2. ASSUME UNCHANGED vars PROVE PromiseStep
    BY <2>2, StaysPromise DEF vars, queryVars, Stays, Askers
  <2>. QED BY <2>1, <2>2, BackendPromise, AskPromise, EnvironmentPromise DEF Next
<1>3. ImplementsResolve <=> Promise!Init /\ [][Promise!Next]_(Promise!vars)
  BY DEF ImplementsResolve, Promise!Spec
<1>. QED BY <1>1, <1>2, <1>3, IInvInit, IInvStep, PTL DEF Spec, PromiseStep
=============================================================================

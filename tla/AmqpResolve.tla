----------------------------- MODULE AmqpResolve -----------------------------
(***************************************************************************)
(* The AMQP deployment: the PowerDNS connections of one backend process    *)
(* (AmqpQuery) and the responders of all hosts (AmqpResponder), joined by  *)
(* the broker, while instances come and go, the lxc command fails and      *)
(* responders exit and start.                                              *)
(***************************************************************************)
EXTENDS AmqpQuery, AmqpResponder

CONSTANT MaxEvents   \* bound of the model: external events in a behaviour

ASSUME MaxEventsAssumption == MaxEvents \in Nat

VARIABLES
  seen,     \* history: addresses of the container since c's lookup began
  steady,   \* history: hosts that were up and knew the same of it since then
  events    \* external events so far

vars == <<brokerVars, queryVars, responderVars, seen, steady, events>>

Init ==
  /\ BrokerInit
  /\ QueryInit
  /\ ResponderInit
  /\ seen = [c \in Conns |-> {}]
  /\ steady = [c \in Conns |-> {}]
  /\ events = 0

(***************************************************************************)
(* The backend moves.  A new lookup starts the history of its container.   *)
(***************************************************************************)
AskAndWatch(c) ==
  \E x \in Names :
    /\ Ask(c, x)
    /\ seen' = [seen EXCEPT ![c] = Known(x)]
    /\ steady' = [steady EXCEPT ![c] = bound]
    /\ UNCHANGED <<responderVars, events>>

BackendStep(c) ==
  /\ \/ Open(c) \/ HandlerStep(c) \/ Taint(c) \/ Close(c)
     \/ StaleTake(c) \/ StaleCancelled(c)
  /\ UNCHANGED <<responderVars, seen, steady, events>>

HostStep(n) ==
  /\ ResponderStep(n)
  /\ UNCHANGED <<queryVars, seen, steady, events>>

(***************************************************************************)
(* External events.                                                        *)
(***************************************************************************)
Event ==
  /\ events < MaxEvents
  /\ events' = events + 1

\* An instance starts, stops, moves or changes its addresses on host n.
InstanceChange(n, x) ==
  /\ Event
  /\ \E a \in LocalResult \ {lxd[n][x]} :
       lxd' = [lxd EXCEPT ![n][x] = a]
  /\ seen' = [c \in Conns |-> IF name[c] = x /\ pc[c] \in Asking
                              THEN seen[c] \cup Known(x)' ELSE seen[c]]
  /\ steady' = [c \in Conns |-> IF name[c] = x THEN steady[c] \ {n} ELSE steady[c]]
  /\ UNCHANGED <<brokerVars, queryVars, tasks, lxcUp, replied>>

\* The lxc commands fail on host n for some or for all of the names ...
LxcFails(n) ==
  /\ Event
  /\ \E xs \in SUBSET lxcUp[n] \ {lxcUp[n]} : lxcUp' = [lxcUp EXCEPT ![n] = xs]
  /\ UNCHANGED <<brokerVars, queryVars, tasks, lxd, replied, seen, steady>>

\* ... and work again for one of them.
LxcRecovers(n) ==
  /\ \E x \in Names \ lxcUp[n] : lxcUp' = [lxcUp EXCEPT ![n] = @ \cup {x}]
  /\ UNCHANGED <<brokerVars, queryVars, tasks, lxd, replied, seen, steady, events>>

LxcHangs(n) ==
  /\ Event
  /\ \E t \in tasks[n] : Hang(n, t)
  /\ UNCHANGED <<queryVars, seen, steady>>

ResponderExits(n) ==
  /\ Event
  /\ Exit(n)
  /\ steady' = [c \in Conns |-> steady[c] \ {n}]
  /\ UNCHANGED <<queryVars, seen>>

ResponderStarts(n) ==
  /\ Start(n)
  /\ UNCHANGED <<queryVars, seen, steady, events>>

\* Another program publishes to the exchange what is no lxddns request ...
StrayRequest ==
  /\ Event
  /\ \E x \in Names \cup {BadName}, c \in Conns :
       PublishFanout([id |-> NoId, name |-> x, replyTo |-> c])
  /\ UNCHANGED <<bound, replies, queryVars, responderVars, seen, steady>>

\* ... or to a response queue what is no lxddns reply.
StrayReply(c) ==
  /\ Event
  /\ \E n \in Nodes, id \in {NoId, corr[c]}, ok \in BOOLEAN :
       /\ id = NoId \/ ~ok
       /\ PublishReply(c, [id |-> id, from |-> n, ok |-> ok, addrs |-> {}])
  /\ UNCHANGED <<bound, requests, queryVars, responderVars, seen, steady>>

Environment ==
  \/ \E n \in Nodes : \/ \E x \in Names : InstanceChange(n, x)
                      \/ LxcFails(n) \/ LxcRecovers(n) \/ LxcHangs(n)
                      \/ ResponderExits(n) \/ ResponderStarts(n)
  \/ StrayRequest
  \/ \E c \in Conns : StrayReply(c)

Next ==
  \/ \E c \in Conns : AskAndWatch(c) \/ BackendStep(c)
  \/ \E n \in Nodes : HostStep(n)
  \/ Environment

Spec == Init /\ [][Next]_vars

(***************************************************************************)
(* Fairness.  The 4500 ms timer is a timer of the tokio runtime and fires. *)
(* A responder that is up works on each of its deliveries: tokio polls     *)
(* every ready task, and lookups that do not hang return or fail.  It      *)
(* takes up each request some time if slots become free over and over: no  *)
(* prefetch limit is set, so that a request waits in the consumer's own    *)
(* buffer, in its turn, and one that is sent back comes again behind it.   *)
(* Nothing is assumed of the broker otherwise, of PowerDNS or of the       *)
(* consumers that were dropped.                                            *)
(***************************************************************************)
TimeoutStep(c) == OuterTimeout(c) /\ UNCHANGED <<responderVars, seen, steady, events>>

TimersFire == \A c \in Conns : WF_vars(TimeoutStep(c))

WorkOn(n, id) ==
  /\ \E t \in tasks[n] :
       t.msg.id = id /\ (Lookup(n, t) \/ PublishAddresses(n, t) \/ Settle(n, t))
  /\ UNCHANGED <<queryVars, seen, steady, events>>

TakeUp(n, id) ==
  /\ Accept(n)
  /\ \E m \in requests[n] : m.id = id /\ m \notin requests'[n]
  /\ UNCHANGED <<queryVars, seen, steady, events>>

RespondersRun ==
  \A n \in Nodes, id \in 0..MaxId : WF_vars(WorkOn(n, id)) /\ SF_vars(TakeUp(n, id))

FairSpec == Spec /\ TimersFire /\ RespondersRun
-----------------------------------------------------------------------------
TypeOK ==
  /\ BrokerTypeOK
  /\ QueryTypeOK
  /\ ResponderTypeOK
  /\ seen \in [Conns -> SUBSET Addrs]
  /\ steady \in [Conns -> SUBSET Nodes]
  /\ events \in Nat

(***************************************************************************)
(* An answer is fresh: every address in it was reported by some host for   *)
(* this very container at some moment between the question and the answer. *)
(* Replies that come late for an earlier lookup of the connection, for     *)
(* another container or from an earlier placement of the instance never    *)
(* leak into it (the correlation check of query.rs:165).                   *)
(***************************************************************************)
AnswerFresh ==
  \A c \in Conns :
    /\ pc[c] \in Asking => Addresses(result[c]) \subseteq seen[c]
    /\ answer[c] \subseteq seen[c]

(***************************************************************************)
(* The deployment does what Resolve promises: each question of PowerDNS is *)
(* answered once, from what was known meanwhile, and neither late replies  *)
(* nor timers nor the end of another connection change an answer that was  *)
(* given.                                                                  *)
(***************************************************************************)
Promise == INSTANCE Resolve WITH
  Askers <- Conns, asking <- {c \in Conns : pc[c] \in Asking}, known <- seen

ImplementsResolve == Promise!Spec

(***************************************************************************)
(* No host answers a lookup twice: a responder that is about to publish    *)
(* has not published for that request before, whatever was requeued or     *)
(* restarted in between, and no answer merges two replies of one host.     *)
(***************************************************************************)
HostAnswersOnce ==
  /\ \A n \in Nodes : \A t \in tasks[n] :
       t.step = "reply" => <<n, t.msg.id>> \notin replied
  /\ \A c \in Conns : \A m1, m2 \in result[c] :
       m1.from = m2.from => m1 = m2

(***************************************************************************)
(* No reply is dropped on the asking side: while a lookup runs, a reply    *)
(* that was published for it is waiting in the response queue or merged,   *)
(* unless a consumer left over from an earlier lookup took it.             *)
(***************************************************************************)
ReplyConserved ==
  \A c \in Conns, n \in Nodes :
    (/\ pc[c] \in Asking \ {"consume"}
     /\ <<n, corr[c]>> \in replied \ lost) =>
      \E m \in replies[c] \cup result[c] :
        m.from = n /\ m.id = corr[c] /\ m.ok

(***************************************************************************)
(* Nothing of a host that stays is lost on the way: while a lookup runs    *)
(* that was published, a host that was up and had the same addresses all   *)
(* the time still has the request, requeued or not, or its reply with      *)
(* these addresses is waiting in the response queue or merged, unless a    *)
(* consumer left over from an earlier lookup took it (responder.rs:145-189 *)
(* and query.rs:117-195 together).                                         *)
(***************************************************************************)
AtHost(n, x, id) ==
  \E m \in requests[n] \cup {t.msg : t \in tasks[n]} : m.id = id /\ m.name = x

SteadyIsServed ==
  \A c \in Conns : pc[c] \in {"collect", "settle"} =>
    \A n \in steady[c] : \A a \in lxd[n][name[c]] :
      \/ AtHost(n, name[c], corr[c])
      \/ <<n, corr[c]>> \in lost
      \/ \E m \in replies[c] \cup result[c] :
           m.from = n /\ m.id = corr[c] /\ m.ok /\ m.addrs = a

(***************************************************************************)
(* Whatever the broker and the responders do, a lookup comes to an end.    *)
(***************************************************************************)
LookupEnds ==
  \A c \in Conns : pc[c] \in Asking ~> pc[c] \notin Asking

(***************************************************************************)
(* A failing lxc command only delays a reply (the reject with requeue of   *)
(* responder.rs:169), and one that hangs costs its own request only: a     *)
(* host that stays connected, keeps the instance, can query it in the end  *)
(* and never has all its slots taken by hung commands replies to every     *)
(* request for it that has reached the host, but for those whose own       *)
(* command hangs, even while the queries of other instances fail for ever  *)
(* and their requests come back again and again.                           *)
(***************************************************************************)
Hung(n) == {t \in tasks[n] : t.step = "hung"}

FailureOnlyDelays ==
  \A n \in Nodes, id \in 1..MaxId :
    (/\ [](n \in bound /\ \A x \in Names : AtHost(n, x, id) => lxd[n][x] # None)
     /\ [](Workers = 0 \/ Cardinality(Hung(n)) < Workers)
     /\ <>[](\A x \in Names : AtHost(n, x, id) => x \in lxcUp[n])) =>
      []((\E x \in Names : AtHost(n, x, id)) =>
           <>(<<n, id>> \in replied \/ \E t \in Hung(n) : t.msg.id = id))
=============================================================================

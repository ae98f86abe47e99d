# Verification of lxddns

lxddns answers AAAA lookups of PowerDNS for the LXD instances of a set of
hosts. PowerDNS writes one JSON line per lookup to a pipe or a unix socket; a
backend process asks all hosts where the container runs, over a message queue
or over HTTPS; a responder on every host asks its local LXD with two `lxc`
commands. This directory holds TLA+ models of these parts, the TLC runs that
check them on small instances, and proofs, checked by TLAPS, of what holds for
every instance. Paths below are relative to `src/` of the repository.

## The system

| part | code | state it keeps | operations |
|---|---|---|---|
| PowerDNS stream handler | `pdns_io.rs` | the lookup being answered | read a line, ask the backend under a 4500 ms limit, write and flush the answer |
| DNS logic | `pdns.rs` | none | decide from name and type whether the backend is asked; make the records |
| AMQP resolver | `amqp/query.rs` | response queue, correlation id, merged addresses, quiet-period timer | `new`, `remote_query` |
| AMQP responder | `amqp/responder.rs` | deliveries in flight | `run`: declare and bind, look up, reply, ack / reject / requeue |
| broker | external | exchange, queues | publish, deliver, requeue, drop queues |
| HTTP resolver | `http/query.rs` | the remote asked, merged addresses | `remote_query`: remotes in turn, 500 and 1500 ms client timeouts |
| HTTP responder | `http/responder.rs` | none | `resolve` |
| local LXD query | `lxd.rs` | none of its own; LXD changes under it | list, choose, read state |
| socket servers | `amqp/unix.rs`, `http/unix.rs` | socket file, handlers running | connect to the broker, remove a stale socket, bind, accept up to `unix_workers` |
| pipes | `amqp/pipe.rs`, `http/pipe.rs` | none | open the backend, hold one conversation on standard input and output, end |
| PowerDNS | external | connections, a line not answered | connect, write a line, give up after 5000 ms, hang up, launch a pipe |
| command line, NixOS module | `bin/`, `module.nix` | none | start one of the above |

How they interact, and what is hard about it:

* The connections of one backend process ask independently, each with a
  response queue of its own that all its lookups share. A lookup ends when no
  reply came for a while, not when all hosts have replied, so that **replies
  come late** and are delivered to the next lookup of the connection. A
  consumer is registered per lookup; the one of the lookup before may still be
  served by the broker when the next one waits.
* A request fans out to all hosts. A responder works on several at a time,
  sends a request back to its queue when `lxc` fails, and publishes its reply
  before it acknowledges the request, in **steps that others interleave with**.
  Any failing broker call ends it, and a **command that hangs** holds its slot.
* Two timers guard a lookup: a **quiet period that moves with each reply** and
  a **fixed limit that drops the future** at whichever await it is.
* Over HTTPS the remotes are asked one after the other, while instances **move
  between hosts**.
* `local_query` reads the list and the state with two commands; the host
  **changes in between**.
* A backend process that ends for the error of one connection takes all others
  with it and leaves its socket behind. Processes that **start together** take
  the socket away from each other.
* PowerDNS gives up a lookup on a clock of its own and connects anew, while the
  handler of the closed connection **keeps its slot**.

What makes each part correct: answers hold only addresses of the container
asked for, known to some host during the lookup; no reply is dropped or doubled
by the code; every lookup ends; the timers do not cut off what they are meant to
let through; a lookup on a host looks atomic; the answer to a line is the
documented one whatever happened before; starts and restarts leave the path with
a process that serves; PowerDNS does not give up unless it is given fewer slots
than it has connections, and an overload passes. The list of hazards, each at its line, is in `PROJECT.json`.

## The modules

| module | models | composed of |
|---|---|---|
| `Lxd` | the outcome of `local_query` as its callers see it | |
| `Resolve` | the promise of `trait RemoteQuery` and its caller: the abstract lookup | |
| `AmqpBroker` | what the calls in `src/amqp` ask of the broker (external) | `Lxd` |
| `AmqpQuery` | handler and `remote_query` over AMQP, per connection | `AmqpBroker` |
| `AmqpResponder` | the responders | `AmqpBroker` |
| `AmqpResolve` | the AMQP deployment with its environment; the properties | `AmqpQuery`, `AmqpResponder`; implements `Resolve` |
| `QueryTimer` | the two timers of an AMQP lookup, with time | |
| `HttpResolve` | the HTTPS deployment: resolver, responders, timeouts | `Lxd`; implements `Resolve` |
| `LocalQuery` | `local_query` against a host that changes | `Lxd` |
| `PdnsLookup` | `type_for_domain`, `SmartResponse`, `DumbResponse` | `Lxd` |
| `PdnsStream` | the pipes and the handler's loop, with any backend | `PdnsLookup` |
| `UnixServer` | the socket servers of both backends, starting and serving | |
| `Sessions` | PowerDNS's connections to a socket server, with time | |
| `MC*` | constants and symmetry for TLC | |
| `*Proofs` | theorems | |

An operator marked `mistake` is not part of a model: it is a wrong version of
the definition after it, used to see that a property notices.

### How state and actions correspond to the code

**Resolve.** The abstract specification of a lookup: it is asked, the hosts learn
addresses meanwhile, it is answered once with some of what they knew, or it is
abandoned because the process ends. The mapping reads `asking` off the await a
handler is at and `known` off the history `seen`. A late reply, a timer or the end
of another connection that changed a given answer, or a second answer, would be a
step `Resolve` does not have.

**AmqpQuery.** `pc[c]` is the await a connection's handler is at: `consume`
(`basic_consume`, query.rs:103), `publish` (:117), `collect` (the `timeout` of
`consumer.next()`, :132), `settle` (an `ack` or `reject`, :143-195); `idle` is
between lines. The merge is part of `Receive` because the code merges before it
awaits the ack. `Quiet` is each way out of the loop: timer, end or error of the
stream. `OuterTimeout` may happen at any await. `Taint` is any broker error of
`remote_query`, which leaves the process. A version 4 UUID is a number never
drawn twice; a missing or unparsable id is `NoId`. Timers are not in this
module: they may fire whenever they are armed, which allows more than the code.

**AmqpBroker.** Queues are sets; no order of delivery is assumed. A responder's
queue is exclusive and auto-deleted, a response queue neither. A dropped consumer
stays in `stale` until the broker hears of its cancellation; until then it may
take replies (`StaleTake`).

**AmqpResponder.** A task is a delivery and the await it is at. `local_query` is
one step, which `LooksAtomic` of `LocalQuery` justifies as long as no two
instances of a host match a name; a lookup whose command never ends is a task at
`hung`, which only the end of the process removes. `lxcUp[n]` are the names whose
lxc commands work on `n`: the query of one instance may fail alone (lxd.rs:317). `replied` is a history variable.

**AmqpResolve** joins the three and adds the environment and two histories of a
running lookup: `seen`, what some host knew for the container meanwhile, and `steady`,
the hosts that were up and knew the same all the time. `AnswerFresh` bounds an answer
from above by the first, `SteadyIsServed` what may be missing in it by the second.

**QueryTimer.** Time is an integer in an unspecified unit. The code's own steps
take no time; it passes in `Tick`, in the setup, while the loop waits and while an
ack or a reject is awaited (`settle`, counted in `stalled`). A loop that waits takes
a delivery that is ready before time passes, since `timeout()` polls the future
before the clock. The loop of query.rs:132 has three exits: `Quiet` when the timer
is due, `StreamEnds` for the end and the error of the stream, as early as they like;
`Fail` is any `?`, `OuterTimeout` the handler's limit at any await. What the stream
received before its end it hands out first, which is how lapin's consumer queues
them. `Extended` keeps the integer division of query.rs:175.

**HttpResolve.** One lookup at a time with the state of all remotes; `Fail` is
each reason to skip a remote; without any remote `Ask` is answered with `None` at
once; `Overdue` stops the clock until the client's timeout
has fired.

**LocalQuery.** Names are a base and trailing digits, which is all the matching
looks at. The listing's order is LXD's, so that the first of several prefix
matches is any of them. The histories say what a lookup in no time would have
returned, in words of their own (`Answering`, `Visible`).

**PdnsLookup / PdnsStream.** A conversation begins with opening the backend:
`create_channel` and `RemoteQuery::new` over AMQP, the making of the HTTP client
over HTTPS; on a pipe `Pipe.run` does no more than that and run the handler, and
PowerDNS launches the command again when it has ended (`Relaunch`). The history
`returned` is what the backend returned for this lookup, nothing when it was cut off. A name is a sequence of labels, a label a text and
whether it has upper case letters. `Documented` restates the table in the
comments of pdns.rs:126-389 on whole names.

**UnixServer.** `Connection::connect`, `metadata`, `remove_file` and `bind` are
four steps of processes that share the path. `remove_file` at the end of `run` is
not reached: the stream of connections has no end. With `Broker` a start first
connects to it, and the failure of a handler ends the process; `remote_query` over
HTTPS returns no error, so there it is FALSE. `batch` is a history: the processes
that started while none that had looked at the path has ended.

**Sessions.** A connection is in the backlog or in a slot, and remembers who has
its other end, whether a line on it is unanswered and how long its handler has
spent on that line. `GiveUp` is PowerDNS's timeout: the other end becomes `Nobody`,
the handler goes on until `Answer` finds nobody to write to. `Tick` passes only when
the server has nothing to do, since the code's own steps take no time. That opening
a handler takes none either is an abstraction: over AMQP it needs the broker, under
no limit of time (amqp/unix.rs:98-101).

## The runs

`tlc -workers 2 -config <run>.cfg <module>`

| run | instance | what it shows |
|---|---|---|
| `resolve_late` | 1 host, 1 connection, 2 names, 2 lookups, 2 events | answers are fresh although replies of the first lookup reach the second; nothing of a host that stays is lost; `Resolve` is implemented |
| `resolve_hosts` | 2 hosts, 1 lookup, 2 events | each host answers once across requeue, exit and start; replies are conserved |
| `resolve_liveness` | 1 host with 2 slots, 1 connection, 2 names, 2 lookups, 1 event, fairness | lookups end; a failing `lxc` only delays, also beside another instance's that fails for ever; a hung one holds its slot and no other |
| `timer` | 2 deliveries at every time up to 3500 ms, stalled acks, an end of the stream, 250 ms units | close replies are answered together; silence is waited out; no exit of the loop leaves a reply behind; how early replies are safe from the limit |
| `timer_found` | the same | *violated*: a merged reply is discarded |
| `http` | 3 remotes, 1 address, 2 events, 500 ms units | stable hosts are found; answers are fresh when lookups are cut off and follow each other; only the third remote can meet the handler's limit; `Resolve` is implemented |
| `http_found` | 4 remotes, no event | *violated*: addresses that were received are discarded |
| `local` | 3 instances, 2 addresses, any changes | the two commands look like one; the exact name wins |
| `local_found` | the same | *violated*: a stopped instance is reported as not found |
| `stream` | names up to 4 labels, 3 domains | answers are the documented ones, with the addresses the backend returned for that line; delegations resolve |
| `server` | 3 processes, 2 connections, 1 slot, fairness | starts together leave a process that serves; a restart that is alone works; no connection outlives its process; waiting connections get their turn |
| `sessions` | 3 clients, 2 slots, limits 2 and 3, 2 events | with a slot for everybody PowerDNS never gives up, nor again from the first calm moment after an overload; an overload passes |

**Bounds.** `MaxId` bounds the lookups published, `MaxEvents` the external events
(an instance changes, `lxc` fails, a responder exits, a foreign message; recovery
is free), `Latest` the arrival of deliveries, `MaxLabels` the names. Two lookups
are the least in which a late reply meets a later lookup, two hosts the least in
which replies are merged or doubled, two events the least for fail-and-move or
exit-and-stray. `resolve_liveness` is about requests, not addresses, and has none of
these; its one event is a failure of one or of both names, a hang, an exit or a
foreign message. `resolve_*` share out these dimensions because all at once is out
of TLC's reach (two connections, which share nothing but the responders and the
fate of their process, are left to the proofs); the theorems below have none of
these bounds. `timer` reaches
every order of two deliveries against both limits with the code's own ratio
2000 : 250 : 4500; the arithmetic itself is proved for all times. In `http*` the
limits are 1, 3 and 9 units of 500 ms; the requests of three remotes use up the
handler's limit exactly, four exceed it. In `sessions` 2 and 3 stand for 4500 and
5000 ms, and three clients on two slots are the least overload; the backlog has room
for all of them, and `MaxEvents` bounds only how often PowerDNS goes in the middle of
a lookup. Hosts, connections and names are interchangeable, hence the symmetry
sets (not used with liveness). `LocalQuery`, `UnixServer` need no bound beyond
their constants.

**Deadlock** is checked in `http`, `stream` and `sessions`, where a lookup or a
conversation follows the last. The other models may stop: at a lookup that was answered, a connection that was closed, a
process that is refused, a spent `MaxId`.

**Fairness.** `LookupEnds` assumes only that the 4500 ms timer fires: it is a
timer of the tokio runtime, and `timeout()` completes when it does.
`FailureOnlyDelays` assumes that a responder that is up works on each delivery it has
taken up: `try_for_each_concurrent` polls all of them. It also assumes that a request
gets its turn if slots become free over and over (strong fairness of `TakeUp`): no
`basic_qos` limits what the broker hands over, so that requests wait in the consumer's
own buffer, and one that is rejected with requeue arrives behind them again. A command may hang: what the property
promises it promises as long as commands that hang do not hold every slot, for a
lookup whose own command does not. Nothing is assumed of the broker or PowerDNS. `ServedInTurn` assumes that accepting and the reading
of an end of input happen, which supposes that opening a handler ends (the broker
calls of amqp/unix.rs:98-101 have no limit of time); that PowerDNS hangs up is a premise of the property. `Recovers` assumes nothing: it
says what never happens again, not that something happens; its premise is that there
are no more connections than slots from some time on. Without it three clients can
keep two slots in overload for ever, each lookup that is given up delaying the next.

### What the violated runs show

* `timer_found`: the reply of one host at 2000 ms and of another at 3000 ms move
  the quiet period to 4750 ms, beyond the limit of 4500 ms, which discards both:
  an existing container is NXDOMAIN although pdns.rs:193 promises its AAAA.
  `PromptIsAnswered` says how early replies have to be for this not to happen.
* `http_found`: three remotes, slow or hanging, use up 4500 ms, and the addresses
  one of them returned are discarded. `DiscardedOnlyLate` says how many
  remotes the limits have room for: two, and a third unless all of them hang.
* `local_found`: lxd.rs:189 documents `Ok(None)` for an instance that was not
  found; the code returns it also for one that is stopped or has no network.

## What is proved

TLAPS checks the following for every value of the constants, under the named
assumptions of the modules (`BadNameAssumption`: the bad name is no name;
`MaxIdAssumption`, `WorkersAssumption`, `MaxEventsAssumption`, `TimesAssumption`,
`HttpAssumption`, `ServerAssumption`: bounds and times are naturals, flags are
Booleans; `PathAssumption`: what can be at the path differs; `SessionsAssumption`:
clients and slots are finite sets and the server's limit is below PowerDNS's;
`FreeAssumption`: a free slot is no connection; `NameAssumption`, `AddrAssumption`:
instance names end in a sequence of digits, global addresses are addresses;
`LookupAssumption`, `DomainAssumption`: the challenge label is no container name, a
domain is a non-empty sequence of labels).

* `AmqpResolveProofs`: `TypeCorrect`, then `AnswersAreFresh`. `AnswerFresh` is not
  inductive: an address may travel in a request, a task, a reply and a merged
  result before it is an answer. `IInv` therefore says that ids in use were drawn
  before (`IdsDrawn`, `IdsReal`), that the history of a lookup covers what its
  container has now (`Watched`), that requests and tasks with the id of a running
  lookup carry its name (`RequestsNamed`, `TasksNamed`), and that the addresses of
  tasks and replies with that id are in the history (`TasksNamed`, `RepliesSeen`).
  A fresh id makes the last four vacuous; the id comparison of `Receive` carries
  them into the result. `AmqpKeepsPromise` shows that the deployment implements
  `Resolve`: the answering step is where `IInv` is needed, every other step asks,
  learns, abandons or stutters.
* `AmqpOnceProofs`: `HostsAnswerOnce`, `RepliesAreConserved`, `SteadyHostsServed`. The invariant adds
  to `IInv` that an id drawn and not yet published is on no host (`Unsent`), that a
  host holds at most one copy of a request, ready or in flight (`OneCopy`), and none
  that may be answered once it has replied (`Unreplied`); on the asking side, that a
  reply that could be merged is recorded in `replied` (`Recorded`) and is the only one
  of its host and id (`OneReply`). A requeue, an exit or a restart can then neither
  double a request nor bring an answered one back. For the third theorem `SInv` says
  of a host that stays that it is up (`SteadyUp`, so that the fanout reaches it), holds
  the request or has replied (`SteadyKept`), that it drops a request only where its
  instance has nothing or after the reply (`SteadyTasks`, `Acked`), and that its reply,
  waiting or merged, has what it still reports (`SteadyReplies`). It is where the two sides meet: the
  request is at the host until `replied` has it, and from there on `ReplyConserved`
  takes over. This is what of `FailureOnlyDelays` can be proved: nothing is lost; that
  the host gets round to it is left to TLC.
* `QueryTimerProofs`: `CloseRepliesKept`, `SilenceKept`, `NothingIsLeft`, `PromptKept`.
  The invariant relates the timer to the own replies taken (`TimerBounds`), and the
  time to the deliveries: one that is not taken yet is late by no more than the acks
  stalled (`Looping`), and time runs beyond the quiet period only in such a stall
  (`InTime`, `Settling`). `CloseReplies` and `SilenceIsWaitedOut` except a stream that
  ends, as the code then stops waiting at once; `NothingLeftBehind` does not.
* `HttpResolveProofs`: `HttpTypeCorrect`, `HttpAnswersAreFresh`,
  `SteadyHostsFound`, `OnlyLateDiscarded`. The invariant says what of the remotes
  before `at` is merged, that the response on its way is seen, and that the time
  gone is at most `RequestLimit` per remote behind plus what the current one spent.
  `HttpKeepsPromise` shows that it implements `Resolve`.
* `UnixServerProofs`: `ServerTypeCorrect`, `LoneStartsWork`, `StartsDoConverge`,
  `AttachedAreServed`. The last is inductive with the types. For the starts the
  invariant says that while none of a batch has ended, every process that is up
  belongs to it, a path with nothing at it has a process about to bind unless none
  has got past its check (`OnNothing`), and a socket nobody serves has a process about
  to remove it, or none past its check (`OnSocket`). A removal and a bind hand the
  path from one case to the other.
* `SessionsProofs`: `SessionsTypeCorrect`, `PromptWithRoom`. A client has one connection
  at most; as long as there is room, no time has passed for a line on a connection in
  the backlog, and none for one in a slot but what its handler has spent. When time
  passes with a connection in the backlog every slot is taken, so that the slots map
  one-to-one to connected clients; with room that map is onto, and nobody is left to
  be in the backlog. After an overload the same begins anew at a moment at which each
  line that is not answered was just written (`CalmIsTimely`); that such a moment or
  another end of the overload comes is `Recovers`, left to TLC.
* `LocalQueryProofs`: `LocalTypeCorrect`, `LocalLooksAtomic`, `LocalExactWins`. While at
  most one instance matches, the chosen one exists, or there was a moment without any
  match, because instances change one at a time.
* `PdnsStreamProofs`: `StreamTypeCorrect`, `StreamAnswersDocumented`,
  `DelegationsResolve`. Lemmas on sequences show that a name cut at a suffix is what is
  left followed by the suffix, and that what is left is unique; the code's cuts and the
  whole names of `Documented` are then the same, case by case. That the AAAA records
  are those of this lookup needs that nothing was returned for it while the backend is
  asked (`Asked`).

Only model-checked: the liveness properties `LookupEnds`, `FailureOnlyDelays`,
`ServedInTurn` and `Recovers`, which are outside the prover's reach.

## What is not modelled

* Command line, error types and builders: sequential, without state of their own.
* The HTTP responder beyond `resolve`: its connection limit is actix', and the loading
  of keys is a sequence of library calls before the first request.
* TTLs and the wording of records; the NixOS module, apart from what it says about
  restarts.
* Broker internals beyond what the code uses, such as flow control; a broker that
  stalls while a connection is opened.
* A container name that more than one instance of a host matches is modelled in
  `LocalQuery` only.
* The number of response queues that closed connections leave at the broker: they stay
  in the model as they do in the code, which has no bound to state.
* A crash between `remove_file` and `bind` while another process serves leaves that
  process without its path; `StartsConverge` is about starts none of which ends.
* A hung `lxc` over HTTPS is a request that is never answered, which `HttpResolve` has;
  the process that was started and goes on is not counted.

## Plan

Done, in this order: `Lxd`, `AmqpBroker`, `AmqpQuery`, `AmqpResponder`,
`AmqpResolve` with its proofs; `QueryTimer` with its proofs; `HttpResolve` with its
proofs; `LocalQuery`; `PdnsLookup`, `PdnsStream`; `UnixServer` with its proof; the
abstract `Resolve` and the two refinements; `AmqpOnceProofs`; hung commands; starts
together; the pipes; `Sessions` with its proof; `LocalQueryProofs`,
`PdnsStreamProofs`; what a lookup may miss (`SteadyIsServed`), what an answer is made
of (`returned`) and the calm after an overload, with their proofs; the end of the
stream and stalled acks in `QueryTimer` (`NothingLeftBehind`), the connections a failing
handler takes along (`AttachedIsServed`), `lxc` failing for one instance.

Next, as far as the code gives it something to say:

1. An opening of the handler that takes time in `Sessions`, once the code limits it.
2. The number of response queues, once the code deletes them.

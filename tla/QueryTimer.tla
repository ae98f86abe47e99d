------------------------------ MODULE QueryTimer ------------------------------
(***************************************************************************)
(* The two timers of one AMQP lookup: the quiet period of remote_query     *)
(* (src/amqp/query.rs), which moves with every reply, and the 4500 ms      *)
(* limit the handler puts around it (src/pdns_io.rs).                      *)
(*                                                                         *)
(* Time is a number of units of a size the model leaves open.  The code's  *)
(* own steps take no time: it passes while remote_query waits for the      *)
(* broker, for a delivery or for an ack or a reject to be sent.  A         *)
(* timeout() polls what it guards before it looks at the clock, so a       *)
(* delivery that is ready is taken even when the timer is due.             *)
(***************************************************************************)
EXTENDS Naturals

CONSTANTS
  Hosts,       \* senders of deliveries; each sends one
  Initial,     \* quiet period before the first reply (2000 ms)
  Extension,   \* constant part of the later ones (250 ms)
  Outer,       \* limit of the handler (4500 ms)
  Latest       \* bound of the model: latest delivery, counted from the publish

ASSUME TimesAssumption ==
  Initial \in Nat /\ Extension \in Nat /\ Outer \in Nat /\ Latest \in Nat

(***************************************************************************)
(* What a delivery can be: a well-formed reply to this lookup, one whose   *)
(* payload cannot be split into addresses, or one with another, a broken   *)
(* or no correlation id.                                                   *)
(***************************************************************************)
Kinds == {"reply", "garbled", "unrelated"}

VARIABLES
  arrival,   \* arrival[h]: when h's delivery is ready, counted from the publish
  kind,      \* kind[h]: what it is
  phase,     \* setup: basic_consume and basic_publish; collect: the loop waits;
             \* settle: an ack or a reject is awaited; then how it ended
  now,       \* time since remote_query was called
  start,     \* when the loop began ("instant")
  timer,     \* quiet period, counted from start
  taken,     \* the hosts whose delivery was taken
  answer,    \* the hosts whose addresses the answer holds
  stalled    \* history: time spent on acks and rejects

vars == <<arrival, kind, phase, now, start, timer, taken, answer, stalled>>

Asking == {"setup", "collect", "settle"}

\* Answered by remote_query: after the quiet period, or as the stream ended.
Answered == {"quiet", "ended"}

Init ==
  /\ arrival \in [Hosts -> 0..Latest]
  /\ kind \in [Hosts -> Kinds]
  /\ phase = "setup"
  /\ now = 0
  /\ start = 0
  /\ timer = Initial
  /\ taken = {}
  /\ answer = {}
  /\ stalled = 0

Elapsed == now - start

Ready == {h \in Hosts \ taken : arrival[h] <= Elapsed}

Merged == {h \in taken : kind[h] = "reply"}

(***************************************************************************)
(* elapsed + (elapsed + 2*extension)/2; a Duration is divided as an        *)
(* integer.                                                                *)
(***************************************************************************)
ExtendedBare(e) == e + e \div 2   \* mistake: no constant part

ExtendedTight(e) == 2 * e + Extension   \* mistake: grows twice as fast

Extended(e) == e + (e + 2 * Extension) \div 2

Due == Elapsed >= timer

\* The request is published and the loop begins.
Begin ==
  /\ phase = "setup"
  /\ phase' = "collect"
  /\ start' = now
  /\ UNCHANGED <<arrival, kind, now, timer, taken, answer, stalled>>

TakeWith(h, t) ==
  /\ phase = "collect"
  /\ h \in Ready
  /\ phase' = "settle"
  /\ taken' = taken \cup {h}
  /\ timer' = t
  /\ UNCHANGED <<arrival, kind, now, start, answer, stalled>>

\* mistake: the timer moves before the correlation id is compared
TakeExtends(h) == TakeWith(h, Extended(Elapsed))

\* A delivery is taken.  Only one with this lookup's correlation id moves the
\* timer, whether or not its payload can be used.
Take(h) ==
  TakeWith(h, IF kind[h] = "unrelated" THEN timer ELSE Extended(Elapsed))

\* The ack or the reject is sent.
Settled ==
  /\ phase = "settle"
  /\ phase' = "collect"
  /\ UNCHANGED <<arrival, kind, now, start, timer, taken, answer, stalled>>

EndWith(p, a) ==
  /\ phase' = p
  /\ answer' = a
  /\ UNCHANGED <<arrival, kind, now, start, timer, taken, stalled>>

\* The quiet period is over: what was merged is returned.
Quiet ==
  /\ phase = "collect"
  /\ Ready = {}
  /\ Due
  /\ EndWith("quiet", Merged)

\* mistake: an error of the stream is answered as an empty result
StreamEndsEmpty == phase = "collect" /\ Ready = {} /\ EndWith("ended", {})

(***************************************************************************)
(* The stream ends (Ok(None)) or fails (Ok(Some(Err))), however early: the *)
(* loop ends as it does when the quiet period is over.  The stream hands   *)
(* out what came before its end first.                                     *)
(***************************************************************************)
StreamEnds == phase = "collect" /\ Ready = {} /\ EndWith("ended", Merged)

\* A broker call fails: an error is returned, and the process will end.
Fail == phase \in {"setup", "settle"} /\ EndWith("failed", {})

\* The handler's limit: the future is dropped with what it merged.
OuterTimeout == phase \in Asking /\ now >= Outer /\ EndWith("discarded", {})

Tick ==
  /\ phase \in Asking
  /\ phase = "collect" => Ready = {} /\ ~ Due
  /\ now < Outer
  /\ now' = now + 1
  /\ stalled' = IF phase = "settle" THEN stalled + 1 ELSE stalled
  /\ UNCHANGED <<arrival, kind, phase, start, timer, taken, answer>>

Next ==
  \/ Begin
  \/ \E h \in Hosts : Take(h)
  \/ Settled
  \/ Quiet
  \/ StreamEnds
  \/ Fail
  \/ OuterTimeout
  \/ Tick

Spec == Init /\ [][Next]_vars
-----------------------------------------------------------------------------
TypeOK ==
  /\ arrival \in [Hosts -> 0..Latest]
  /\ kind \in [Hosts -> Kinds]
  /\ phase \in Asking \cup Answered \cup {"failed", "discarded"}
  /\ now \in Nat
  /\ start \in Nat /\ start <= now
  /\ timer \in Nat
  /\ taken \in SUBSET Hosts
  /\ answer \in SUBSET Hosts
  /\ stalled \in Nat

(***************************************************************************)
(* The first reply shortens the wait from Initial to a fraction of it, yet *)
(* no reply is cut off by another that came at most Extension before it:   *)
(* an answer that holds one holds the other (query.rs:126-129, "latency    *)
(* between hosts, in my case ~250ms at most"), unless the stream ended     *)
(* between the two.                                                        *)
(***************************************************************************)
CloseReplies ==
  phase \in Answered =>
    \A g \in answer, h \in Hosts :
      /\ kind[h] = "reply"
      /\ arrival[h] <= arrival[g] + Extension
      /\ phase = "ended" => arrival[h] <= Elapsed
      => h \in answer

(***************************************************************************)
(* Late replies to earlier lookups do not shorten the wait: a lookup that  *)
(* got nothing of its own waits Initial, whatever arrives, unless the      *)
(* stream ends.                                                            *)
(***************************************************************************)
SilenceIsWaitedOut ==
  phase = "quiet" /\ (\A h \in taken : kind[h] = "unrelated") =>
    Elapsed >= Initial

(***************************************************************************)
(* However the loop ends on its own, by the clock, by the end of the       *)
(* stream or by an error of it, the answer holds every reply that was      *)
(* there by then, also those that came while an ack was being sent         *)
(* (query.rs:132, the three exits of the loop).                            *)
(***************************************************************************)
NothingLeftBehind ==
  phase \in Answered =>
    \A h \in Hosts :
      kind[h] = "reply" /\ arrival[h] <= Elapsed => h \in answer

(***************************************************************************)
(* When every delivery comes before two thirds of the time the limit       *)
(* leaves, less the extension and less what the acks and rejects take,     *)
(* nothing that was merged is discarded.                                   *)
(***************************************************************************)
PromptIsAnswered ==
  /\ phase = "discarded"
  /\ \A h \in Hosts :
       2 * start + 3 * (arrival[h] + stalled) + 2 * Extension < 2 * Outer
  => Merged = {}

(***************************************************************************)
(* src/pdns.rs:193 promises a AAAA for a container that exists, NXDOMAIN   *)
(* only when it does not: what was merged should be answered, at least     *)
(* when the request went out at once and no ack was kept waiting.          *)
(***************************************************************************)
FoundIsAnswered ==
  phase = "discarded" /\ start = 0 /\ stalled = 0 => Merged = {}
=============================================================================

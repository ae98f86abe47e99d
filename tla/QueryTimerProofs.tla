--------------------------- MODULE QueryTimerProofs ---------------------------
(***************************************************************************)
(* Proofs about QueryTimer for all hosts, delivery times and timer values. *)
(***************************************************************************)
EXTENDS QueryTimer, TLAPS

(***************************************************************************)
(* The invariant behind the properties: until a delivery with this         *)
(* lookup's id is taken the timer stands at Initial, and from then on it   *)
(* is at least what each such delivery set it to (a later one sets it      *)
(* higher).  Deliveries are taken the moment they are ready, or as late as *)
(* the acks and rejects before them made it.                               *)
(***************************************************************************)
Ours == {h \in taken : kind[h] # "unrelated"}

TimerBounds ==
  /\ \A h \in Ours : timer >= arrival[h] + Extension
  /\ Ours = {} => timer = Initial
  /\ Ours # {} =>
       \E h \in Ours : 2 * timer <= 3 * (arrival[h] + stalled) + 2 * Extension

\* The time is within the quiet period, or as late as a delivery was settled.
InTime ==
  \/ now <= start + timer
  \/ \E h \in taken : now <= start + arrival[h] + stalled

Looping ==
  phase \in {"collect", "settle"} =>
    /\ InTime
    /\ \A h \in Hosts \ taken : now <= start + arrival[h] + stalled

Settling ==
  phase = "settle" => \E h \in taken : now <= start + arrival[h] + stalled

Past == \A h \in taken : phase # "setup" /\ start + arrival[h] <= now

Ended ==
  /\ phase \in Answered => answer = Merged /\ Ready = {}
  /\ phase = "quiet" => Due
  /\ phase = "discarded" => now >= Outer /\ (taken = {} \/ InTime)

IInv == TypeOK /\ TimerBounds /\ Looping /\ Settling /\ Past /\ Ended
-----------------------------------------------------------------------------
LEMMA ExtendedBounds ==
  ASSUME NEW e \in Nat
  PROVE  /\ Extended(e) \in Nat
         /\ Extended(e) >= e + Extension
         /\ 2 * Extended(e) <= 3 * e + 2 * Extension
  BY TimesAssumption DEF Extended

LEMMA TimerInit == Init => IInv
  BY TimesAssumption
     DEF Init, IInv, TypeOK, TimerBounds, Ours, InTime, Looping, Settling, Past, Ended,
         Asking, Answered

LEMMA TakeInv ==
  ASSUME IInv, NEW h \in Hosts, Take(h)
  PROVE  IInv'
<1>1. /\ arrival \in [Hosts -> Nat] /\ start \in Nat /\ now \in Nat /\ timer \in Nat
      /\ stalled \in Nat /\ start <= now /\ taken \subseteq Hosts
  BY DEF IInv, TypeOK
<1>2. /\ phase = "collect" /\ phase' = "settle"
      /\ h \in Hosts \ taken
      /\ taken' = taken \cup {h}
      /\ UNCHANGED <<arrival, kind, now, start, answer, stalled>>
      /\ timer' = IF kind[h] = "unrelated" THEN timer ELSE Extended(Elapsed)
  BY DEF Take, TakeWith, Ready
<1>3. /\ Elapsed \in Nat /\ now = start + Elapsed
      /\ arrival[h] <= Elapsed
      /\ Elapsed <= arrival[h] + stalled
  BY <1>1, <1>2 DEF Take, TakeWith, Ready, Elapsed, IInv, Looping
<1>4. timer' \in Nat
  BY <1>1, <1>2, <1>3, ExtendedBounds
<1>5. TypeOK'
  BY <1>2, <1>4 DEF IInv, TypeOK, Asking
<1>6. Past'
  BY <1>1, <1>2, <1>3 DEF IInv, Past
<1>7. Settling' /\ Looping'
  <2>1. now <= start + arrival[h] + stalled
    BY <1>1, <1>3
  <2>. QED BY <1>2, <2>1 DEF Settling, Looping, InTime, IInv
<1>8. TimerBounds'
  <2>1. CASE kind[h] = "unrelated"
    <3>1. Ours' = Ours /\ timer' = timer
      BY <1>2, <2>1 DEF Ours
    <3>. QED BY <1>2, <3>1 DEF IInv, TimerBounds
  <2>2. CASE kind[h] # "unrelated"
    <3>1. Ours' = Ours \cup {h} /\ timer' = Extended(Elapsed)
      BY <1>2, <2>2 DEF Ours
    <3>2. \A g \in Ours' : arrival[g] <= Elapsed /\ arrival[g] \in Nat
      BY <1>1, <1>3, <3>1 DEF Ours, IInv, Past
    <3>3. \A g \in Ours' : timer' >= arrival[g] + Extension
      BY <1>3, <3>1, <3>2, ExtendedBounds, TimesAssumption
    <3>4. 2 * timer' <= 3 * (arrival[h] + stalled) + 2 * Extension /\ h \in Ours'
      BY <1>1, <1>3, <3>1, ExtendedBounds, TimesAssumption
    <3>. QED BY <1>2, <3>3, <3>4 DEF TimerBounds
  <2>. QED BY <2>1, <2>2
<1>9. Ended'
  BY <1>2 DEF Ended, Answered
<1>. QED BY <1>5, <1>6, <1>7, <1>8, <1>9 DEF IInv

\* Time passes: before the loop, in it while nothing is ready, or in a stall.
LEMMA TickInv == ASSUME IInv, Tick PROVE IInv'
<1>1. /\ arrival \in [Hosts -> Nat] /\ start \in Nat /\ now \in Nat /\ timer \in Nat
      /\ stalled \in Nat /\ start <= now /\ taken \subseteq Hosts
      /\ stalled' \in Nat /\ stalled <= stalled'
  BY DEF IInv, TypeOK, Tick
<1>2. /\ phase \in Asking /\ now' = now + 1
      /\ UNCHANGED <<arrival, kind, phase, start, timer, taken, answer>>
  BY DEF Tick
<1>3. TypeOK' /\ Past' /\ Ended'
  BY <1>1, <1>2 DEF IInv, TypeOK, Past, Ended, Asking, Answered
<1>4. TimerBounds'
  <2>1. Ours' = Ours
    BY <1>2 DEF Ours
  <2>2. \A h \in Ours : arrival[h] \in Nat
    BY <1>1 DEF Ours
  <2>. QED BY <1>1, <1>2, <2>1, <2>2, TimesAssumption DEF IInv, TimerBounds
<1>5. Looping' /\ Settling'
  <2>1. CASE phase = "setup"
    BY <1>2, <2>1 DEF Looping, Settling
  <2>2. CASE phase = "collect"
    <3>1. now < start + timer /\ \A h \in Hosts \ taken : now < start + arrival[h]
      BY <1>1, <2>2 DEF Tick, Ready, Due, Elapsed
    <3>. QED BY <1>1, <1>2, <2>2, <3>1 DEF Looping, Settling, InTime
  <2>3. CASE phase = "settle"
    <3>1. stalled' = stalled + 1
      BY <2>3 DEF Tick
    <3>2. \E h \in taken : now' <= start + arrival[h] + stalled'
      BY <1>1, <1>2, <2>3, <3>1 DEF IInv, Settling
    <3>3. \A h \in Hosts \ taken : now' <= start + arrival[h] + stalled'
      BY <1>1, <1>2, <2>3, <3>1 DEF IInv, Looping
    <3>. QED BY <1>2, <2>3, <3>2, <3>3 DEF Looping, Settling, InTime
  <2>. QED BY <1>2, <2>1, <2>2, <2>3 DEF Asking
<1>. QED BY <1>3, <1>4, <1>5 DEF IInv

LEMMA TimerStep == IInv /\ [Next]_vars => IInv'
<1> SUFFICES ASSUME IInv, [Next]_vars PROVE IInv'
  OBVIOUS
<1>1. CASE Begin
  BY <1>1, TimesAssumption
     DEF Begin, IInv, TypeOK, TimerBounds, Ours, InTime, Looping, Settling, Past, Ended,
         Asking, Answered
<1>2. ASSUME NEW h \in Hosts, Take(h) PROVE IInv'
  BY <1>2, TakeInv
<1>3. ASSUME NEW p \in {"quiet", "ended", "failed", "discarded"}, NEW a \in SUBSET Hosts,
             phase \in Asking, EndWith(p, a),
             p \in Answered => phase = "collect" /\ Ready = {} /\ a = Merged,
             p = "quiet" => Due,
             p = "discarded" => now >= Outer
      PROVE  IInv'
  <2>1. /\ phase' = p /\ answer' = a
        /\ UNCHANGED <<arrival, kind, now, start, timer, taken, stalled>>
    BY <1>3 DEF EndWith
  <2>2. TypeOK' /\ Past'
    BY <1>3, <2>1 DEF IInv, TypeOK, Past, Answered
  <2>3. TimerBounds' /\ Looping' /\ Settling'
    BY <2>1 DEF IInv, TimerBounds, Ours, Looping, Settling
  <2>4. Ended'
    <3>1. taken = {} \/ InTime
      BY <1>3 DEF IInv, Looping, Past, Asking
    <3>. QED BY <1>3, <2>1, <3>1 DEF Ended, Answered, InTime, Merged, Ready, Due, Elapsed
  <2>. QED BY <2>2, <2>3, <2>4 DEF IInv
<1>4. CASE Quiet \/ StreamEnds
  <2>1. Merged \in SUBSET Hosts
    BY DEF IInv, TypeOK, Merged
  <2>. QED BY <1>3, <1>4, <2>1 DEF Quiet, StreamEnds, Asking
<1>5. CASE Fail \/ OuterTimeout
  BY <1>3, <1>5 DEF Fail, OuterTimeout, Asking, Answered
<1>6. CASE Settled
  BY <1>6
     DEF Settled, IInv, TypeOK, TimerBounds, Ours, InTime, Looping, Settling, Past, Ended,
         Asking, Answered
<1>7. CASE Tick
  BY <1>7, TickInv
<1>8. CASE UNCHANGED vars
  BY <1>8
     DEF vars, IInv, TypeOK, TimerBounds, Ours, InTime, Looping, Settling, Past, Ended,
         Merged, Ready, Due, Elapsed
<1>. QED BY <1>1, <1>2, <1>4, <1>5, <1>6, <1>7, <1>8 DEF Next

LEMMA TimerInv == Spec => []IInv
  BY TimerInit, TimerStep, PTL DEF Spec

\* The shortened wait cuts off no reply that follows another within Extension,
\* and neither does the end of the stream one that was there before it.
THEOREM CloseRepliesKept == Spec => []CloseReplies
<1>1. IInv => CloseReplies
  <2>. SUFFICES ASSUME IInv, phase \in Answered, NEW g \in answer, NEW h \in Hosts,
                       kind[h] = "reply", arrival[h] <= arrival[g] + Extension,
                       phase = "ended" => arrival[h] <= Elapsed
                PROVE  h \in answer
    BY DEF CloseReplies
  <2>1. answer = Merged /\ Ready = {}
    BY DEF IInv, Ended
  <2>2. arrival[h] <= Elapsed
    <3>1. CASE phase = "ended"
      BY <3>1
    <3>2. CASE phase = "quiet"
      <4>1. Elapsed >= timer
        BY <3>2 DEF IInv, Ended, Due
      <4>2. g \in Ours /\ g \in Hosts
        BY <2>1 DEF Merged, Ours, IInv, TypeOK
      <4>3. timer >= arrival[g] + Extension
        BY <4>2 DEF IInv, TimerBounds
      <4>. QED BY <4>1, <4>2, <4>3, TimesAssumption DEF IInv, TypeOK, Elapsed
    <3>. QED BY <3>1, <3>2 DEF Answered
  <2>3. h \in taken
    BY <2>1, <2>2 DEF Ready
  <2>. QED BY <2>1, <2>3 DEF Merged
<1>. QED BY <1>1, TimerInv, PTL

\* Deliveries of other lookups never shorten the first wait.
THEOREM SilenceKept == Spec => []SilenceIsWaitedOut
<1>1. IInv => SilenceIsWaitedOut
  BY DEF IInv, TimerBounds, Ours, Ended, SilenceIsWaitedOut, Due
<1>. QED BY <1>1, TimerInv, PTL

\* None of the loop's exits loses a reply that was there by then.
THEOREM NothingIsLeft == Spec => []NothingLeftBehind
<1>1. IInv => NothingLeftBehind
  BY DEF IInv, Ended, NothingLeftBehind, Ready, Merged
<1>. QED BY <1>1, TimerInv, PTL

\* Nothing merged is discarded when all deliveries leave the limit its margin.
THEOREM PromptKept == Spec => []PromptIsAnswered
<1>1. IInv => PromptIsAnswered
  <2>. SUFFICES ASSUME IInv, phase = "discarded",
                       \A h \in Hosts :
                         2 * start + 3 * (arrival[h] + stalled) + 2 * Extension < 2 * Outer,
                       Merged # {}
                PROVE  FALSE
    BY DEF PromptIsAnswered
  <2>1. Ours # {} /\ taken # {}
    BY DEF Merged, Ours
  <2>2. PICK h \in Ours : 2 * timer <= 3 * (arrival[h] + stalled) + 2 * Extension
    BY <2>1 DEF IInv, TimerBounds
  <2>3. h \in Hosts /\ taken \subseteq Hosts
    BY DEF IInv, TypeOK, Ours
  <2>4. now >= Outer /\ InTime
    BY <2>1 DEF IInv, Ended
  <2>5. /\ now \in Nat /\ start \in Nat /\ timer \in Nat /\ stalled \in Nat
        /\ \A g \in Hosts : arrival[g] \in Nat
    BY DEF IInv, TypeOK
  <2>6. CASE now <= start + timer
    BY <2>2, <2>3, <2>4, <2>5, <2>6, TimesAssumption
  <2>7. ASSUME NEW g \in taken, now <= start + arrival[g] + stalled PROVE FALSE
    BY <2>3, <2>4, <2>5, <2>7, TimesAssumption
  <2>. QED BY <2>4, <2>6, <2>7 DEF InTime
<1>. QED BY <1>1, TimerInv, PTL
=============================================================================

---------------------------- MODULE SessionsProofs ----------------------------
(***************************************************************************)
(* Proofs about Sessions for any clients, slots, limits and backlog.       *)
(***************************************************************************)
EXTENDS Sessions, FiniteSetTheorems, SequenceTheorems, TLAPS

(***************************************************************************)
(* The inductive invariant.  A client has one connection at most.  While   *)
(* there is a slot for everybody since a calm moment, a connection whose   *)
(* line is not answered has its client, no time has passed since that line *)
(* was written while the connection was in the backlog, and none since but *)
(* what its handler has spent.                                             *)
(***************************************************************************)
OneInBacklog ==
  \A i, j \in DOMAIN backlog :
    backlog[i].by \in Clients /\ backlog[i].by = backlog[j].by => i = j

OneInSlots ==
  \A s, t \in Busy :
    slots[s].by \in Clients /\ slots[s].by = slots[t].by => s = t

OneOfBoth ==
  \A i \in DOMAIN backlog, s \in Busy :
    backlog[i].by \in Clients => backlog[i].by # slots[s].by

OneConnection == OneInBacklog /\ OneInSlots /\ OneOfBoth

BacklogFresh ==
  \A i \in DOMAIN backlog :
    backlog[i].asked => backlog[i].by \in Clients /\ waited[backlog[i].by] = 0

SlotsTimely ==
  \A s \in Busy :
    slots[s].asked => /\ slots[s].by \in Clients
                      /\ waited[slots[s].by] <= slots[s].spent

Timely == roomy => Room /\ BacklogFresh /\ SlotsTimely

IInv == TypeOK /\ OneConnection /\ Timely
-----------------------------------------------------------------------------
LEMMA ConnectedFinite == IsFiniteSet(Connected)
BY FS_Subset, SessionsAssumption DEF Connected

(***************************************************************************)
(* With no more connections than slots and every slot taken by one of      *)
(* them, none waits in the backlog.                                        *)
(***************************************************************************)
LEMMA BacklogUnowned ==
  ASSUME TypeOK, OneConnection, Room,
         \A s \in Slots : s \in Busy /\ slots[s].by \in Clients
  PROVE  \A i \in DOMAIN backlog : backlog[i].by \notin Clients
<1>. SUFFICES ASSUME NEW i \in DOMAIN backlog, backlog[i].by \in Clients
              PROVE  FALSE
  OBVIOUS
<1>. DEFINE Owner == [s \in Slots |-> slots[s].by]
<1>1. Owner \in Injection(Slots, Connected)
  BY DEF OneConnection, OneInSlots, Connected, Open, Injection, IsInjective
<1>2. Cardinality(Slots) <= Cardinality(Connected)
  BY <1>1, FS_Injection, ConnectedFinite
<1>3. Cardinality(Slots) \in Nat /\ Cardinality(Connected) \in Nat
  BY FS_CardinalityType, ConnectedFinite, SessionsAssumption
<1>4. Owner \in Surjection(Slots, Connected)
  BY <1>1, <1>2, <1>3, FS_Injection, ConnectedFinite DEF Room
<1>5. backlog[i].by \in Connected
  BY DEF Connected, Open
<1>6. PICK s \in Slots : slots[s].by = backlog[i].by
  BY <1>4, <1>5 DEF Surjection
<1>. QED BY <1>6 DEF OneConnection, OneOfBoth

(***************************************************************************)
(* A sequence stays one when its elements are replaced.                    *)
(***************************************************************************)
LEMMA Replaced ==
  ASSUME NEW S, NEW old \in Seq(S), NEW new,
         new = [i \in DOMAIN old |-> new[i]],
         \A i \in DOMAIN old : new[i] \in S
  PROVE  new \in Seq(S) /\ Len(new) = Len(old) /\ DOMAIN new = DOMAIN old
<1>1. Len(old) \in Nat /\ DOMAIN old = 1..Len(old)
  BY LenProperties
<1>2. new \in [1..Len(old) -> S]
  BY <1>1
<1>3. new \in Seq(S)
  BY <1>1, <1>2, SeqDef
<1>4. DOMAIN new = 1..Len(new) /\ Len(new) \in Nat
  BY <1>3, LenProperties
<1>. QED BY <1>1, <1>2, <1>3, <1>4

(***************************************************************************)
(* With fewer connections there is no less room.                           *)
(***************************************************************************)
LEMMA RoomStays ==
  ASSUME Room, Connected' \subseteq Connected
  PROVE  Room'
<1>1. Cardinality(Connected') <= Cardinality(Connected)
  BY FS_Subset, ConnectedFinite
<1>2. /\ Cardinality(Connected) \in Nat /\ Cardinality(Slots) \in Nat
      /\ Cardinality(Connected') \in Nat
  BY FS_CardinalityType, FS_Subset, ConnectedFinite, SessionsAssumption
<1>. QED BY <1>1, <1>2 DEF Room

(***************************************************************************)
(* A calm moment begins anew what an overload has ended.                   *)
(***************************************************************************)
LEMMA CalmIsTimely == TypeOK /\ Calm => Room /\ BacklogFresh /\ SlotsTimely
<1>. SUFFICES ASSUME TypeOK, Calm PROVE Room /\ BacklogFresh /\ SlotsTimely
  OBVIOUS
<1>1. /\ \A i \in DOMAIN backlog : backlog[i] \in Open
      /\ \A s \in Busy : slots[s] \in Open /\ slots[s].spent >= 0
  BY SessionsAssumption DEF Open, Busy, TypeOK, Connection
<1>. QED BY <1>1 DEF Calm, BacklogFresh, SlotsTimely

LEMMA SessionsInit == Init => IInv
<1>. SUFFICES ASSUME Init PROVE IInv
  OBVIOUS
<1>1. Busy = {} /\ Open = {} /\ Connected = {}
  BY DEF Init, Busy, Open, Connected
<1>2. TypeOK
  BY SessionsAssumption, EmptySeq DEF Init, TypeOK
<1>3. Room
  BY <1>1, FS_EmptySet, FS_CardinalityType, SessionsAssumption DEF Room
<1>. QED BY <1>1, <1>2, <1>3 DEF Init, IInv, OneConnection, OneInBacklog,
       OneInSlots, OneOfBoth, Timely, BacklogFresh, SlotsTimely
-----------------------------------------------------------------------------
(***************************************************************************)
(* What a client's side of Update leaves: Left and Asked give connections. *)
(***************************************************************************)
LEMMA ConnectionValues ==
  ASSUME NEW c \in Connection
  PROVE  /\ Left(c) \in Connection /\ Left(c).by = Nobody
         /\ Left(c).asked = c.asked /\ Left(c).spent = c.spent
         /\ Asked(c) \in Connection /\ Asked(c).by = c.by
         /\ Asked(c).asked /\ Asked(c).spent = c.spent
BY DEF Connection, Left, Asked

LEMMA ConnectionTimes ==
  ASSUME NEW c \in Connection
  PROVE  /\ c.asked /\ ~ TimesOut(c) => [c EXCEPT !.spent = @ + 1] \in Connection
         /\ [c EXCEPT !.asked = FALSE, !.spent = 0] \in Connection
<1>1. 0 \in 0..Limit
  BY SessionsAssumption
<1>2. [c EXCEPT !.asked = FALSE, !.spent = 0] \in Connection
  BY <1>1 DEF Connection
<1>3. ASSUME c.asked, ~ TimesOut(c)
      PROVE  [c EXCEPT !.spent = @ + 1] \in Connection
  <2>1. c.spent + 1 \in 0..Limit
    BY <1>3, SessionsAssumption DEF Connection, TimesOut
  <2>. QED BY <2>1 DEF Connection
<1>. QED BY <1>2, <1>3

LEMMA Elements ==
  ASSUME TypeOK
  PROVE  /\ \A i \in DOMAIN backlog : backlog[i] \in Connection
         /\ \A s \in Busy : slots[s] \in Connection
         /\ DOMAIN backlog = 1..Len(backlog) /\ Len(backlog) \in Nat
BY LenProperties DEF TypeOK, Busy

(***************************************************************************)
(* One lemma per action.                                                   *)
(***************************************************************************)
LEMMA StepConnect ==
  ASSUME IInv, NEW k \in Clients, Connect(k)
  PROVE  IInv'
<1>. DEFINE new == [by |-> k, asked |-> FALSE, spent |-> 0]
<1>. USE Elements DEF IInv
<1>1. new \in Connection
  BY SessionsAssumption DEF Connection
<1>2. /\ backlog' \in Seq(Connection) /\ Len(backlog') = Len(backlog) + 1
      /\ DOMAIN backlog' = 1..(Len(backlog) + 1)
      /\ \A i \in DOMAIN backlog : backlog'[i] = backlog[i]
      /\ backlog'[Len(backlog) + 1] = new
  BY <1>1, AppendProperties, LenProperties DEF Connect, TypeOK
<1>3. TypeOK'
  BY <1>2, SessionsAssumption DEF Connect, TypeOK
<1>4. Busy' = Busy /\ slots' = slots /\ waited' = waited
  BY DEF Connect, Busy
<1>5. /\ \A i \in DOMAIN backlog : backlog[i].by # k
      /\ \A s \in Busy : slots[s].by # k
  BY DEF Connect, Connected, Open
<1>6. OneConnection'
  BY <1>2, <1>4, <1>5 DEF OneConnection, OneInBacklog, OneInSlots, OneOfBoth
<1>7. ASSUME roomy' PROVE Room' /\ BacklogFresh' /\ SlotsTimely'
  <2>1. roomy /\ Cardinality(Connected) < Cardinality(Slots)
    BY <1>7 DEF Connect, TypeOK
  <2>2. Connected' \subseteq Connected \cup {k}
    BY <1>2, <1>4 DEF Connected, Open
  <2>3. /\ IsFiniteSet(Connected \cup {k})
        /\ Cardinality(Connected \cup {k}) = Cardinality(Connected) + 1
    BY FS_AddElement, ConnectedFinite DEF Connect
  <2>4. /\ Cardinality(Connected') <= Cardinality(Connected \cup {k})
        /\ IsFiniteSet(Connected')
    BY <2>2, <2>3, FS_Subset
  <2>5. /\ Cardinality(Connected') \in Nat /\ Cardinality(Slots) \in Nat
        /\ Cardinality(Connected) \in Nat
    BY <2>4, FS_CardinalityType, ConnectedFinite, SessionsAssumption
  <2>6. Room'
    BY <2>1, <2>3, <2>4, <2>5 DEF Room
  <2>. QED BY <2>1, <2>6, <1>2, <1>4 DEF Timely, BacklogFresh, SlotsTimely
<1>. QED BY <1>3, <1>6, <1>7 DEF Timely

LEMMA StepWrite ==
  ASSUME IInv, NEW k \in Clients, Write(k)
  PROVE  IInv'
<1>. USE Elements, ConnectionValues DEF IInv
<1>1. /\ backlog' \in Seq(Connection) /\ Len(backlog') = Len(backlog)
      /\ DOMAIN backlog' = DOMAIN backlog
  BY Replaced DEF Write, Update, TypeOK
<1>2. \A i \in DOMAIN backlog :
        /\ backlog'[i].by = backlog[i].by
        /\ backlog'[i].asked => backlog[i].asked \/ backlog[i].by = k
  BY DEF Write, Update
<1>3. /\ Busy' = Busy
      /\ \A s \in Busy :
           /\ slots'[s].by = slots[s].by /\ slots'[s].spent = slots[s].spent
           /\ slots'[s].asked => slots[s].asked \/ slots[s].by = k
  BY FreeAssumption DEF Write, Update, Busy
<1>4. TypeOK'
  BY <1>1, SessionsAssumption DEF Write, Update, TypeOK
<1>5. OneConnection'
  BY <1>1, <1>2, <1>3 DEF OneConnection, OneInBacklog, OneInSlots, OneOfBoth
<1>6. ASSUME roomy' PROVE Room' /\ BacklogFresh' /\ SlotsTimely'
  <2>1. roomy
    BY <1>6 DEF Write
  <2>2. Connected' \subseteq Connected
    BY <1>1, <1>2, <1>3 DEF Connected, Open
  <2>3. waited'[k] = 0 /\ \A m \in Clients \ {k} : waited'[m] = waited[m]
    BY DEF Write, TypeOK
  <2>4. BacklogFresh'
    BY <1>1, <1>2, <2>1, <2>3 DEF Timely, BacklogFresh
  <2>5. \A s \in Busy : slots[s].spent \in Nat
    BY SessionsAssumption DEF Connection
  <2>6. SlotsTimely'
    BY <1>3, <2>1, <2>3, <2>5 DEF Timely, SlotsTimely
  <2>. QED BY <2>1, <2>2, <2>4, <2>6, RoomStays DEF Timely
<1>. QED BY <1>4, <1>5, <1>6 DEF Timely

(***************************************************************************)
(* What the three actions that close a connection have in common: with     *)
(* room, they do it between lookups.                                       *)
(***************************************************************************)
LEMMA StepClose ==
  ASSUME IInv, NEW k \in Clients, Close(k), events' \in 0..MaxEvents,
         roomy' \in BOOLEAN, roomy' => Calm' \/ (roomy /\ k \notin Asking)
  PROVE  IInv'
<1>. USE Elements, ConnectionValues DEF IInv
<1>1. /\ backlog' \in Seq(Connection) /\ Len(backlog') = Len(backlog)
      /\ DOMAIN backlog' = DOMAIN backlog
  <2>1. /\ backlog' = [i \in DOMAIN backlog |-> backlog'[i]]
        /\ \A i \in DOMAIN backlog : backlog'[i] \in Connection
    BY DEF Close, Update
  <2>. QED BY <2>1, Replaced DEF TypeOK
<1>2. \A i \in DOMAIN backlog :
        /\ backlog'[i].by = IF backlog[i].by = k THEN Nobody ELSE backlog[i].by
        /\ backlog'[i].asked = backlog[i].asked
  BY DEF Close, Update
<1>3. /\ Busy' = Busy
      /\ \A s \in Busy :
           /\ slots'[s].by = IF slots[s].by = k THEN Nobody ELSE slots[s].by
           /\ slots'[s].spent = slots[s].spent
           /\ slots'[s].asked = slots[s].asked
  BY FreeAssumption DEF Close, Update, Busy
<1>4. TypeOK'
  BY <1>1, SessionsAssumption DEF Close, Update, TypeOK
<1>5. OneConnection'
  BY <1>1, <1>2, <1>3, SessionsAssumption
  DEF OneConnection, OneInBacklog, OneInSlots, OneOfBoth
<1>6. ASSUME roomy, k \notin Asking PROVE Room' /\ BacklogFresh' /\ SlotsTimely'
  <2>1. roomy /\ Room /\ BacklogFresh /\ SlotsTimely
    BY <1>6 DEF Timely
  <2>2. Connected' \subseteq Connected
    BY <1>1, <1>2, <1>3, SessionsAssumption DEF Connected, Open
  <2>3. \A m \in Clients \ {k} : waited'[m] = waited[m]
    BY DEF Close, TypeOK
  <2>4. /\ \A i \in DOMAIN backlog : backlog[i].asked => backlog[i].by # k
        /\ \A s \in Busy : slots[s].asked => slots[s].by # k
    BY <1>6 DEF Asking, Open
  <2>5. BacklogFresh'
    BY <1>1, <1>2, <2>1, <2>3, <2>4 DEF BacklogFresh
  <2>6. SlotsTimely'
    BY <1>3, <2>1, <2>3, <2>4 DEF SlotsTimely
  <2>. QED BY <2>1, <2>2, <2>5, <2>6, RoomStays
<1>7. TypeOK' /\ Calm' => Room' /\ BacklogFresh' /\ SlotsTimely'
  BY CalmIsTimely, PTL
<1>. QED BY <1>4, <1>5, <1>6, <1>7 DEF Timely

LEMMA StepAccept ==
  ASSUME IInv, NEW s \in Slots, Accept(s)
  PROVE  IInv'
<1>. USE Elements DEF IInv
<1>1. /\ Head(backlog) \in Connection /\ Head(backlog) = backlog[1]
      /\ 1 \in DOMAIN backlog
  BY HeadTailProperties, EmptySeq DEF Accept, TypeOK
<1>2. /\ backlog' \in Seq(Connection) /\ Len(backlog') = Len(backlog) - 1
      /\ DOMAIN backlog' = 1..(Len(backlog) - 1)
      /\ \A i \in DOMAIN backlog' :
           i + 1 \in DOMAIN backlog /\ backlog'[i] = backlog[i + 1]
  BY HeadTailProperties, LenProperties DEF Accept, TypeOK
<1>3. /\ Busy' = Busy \cup {s} /\ s \notin Busy
      /\ slots'[s] = backlog[1]
      /\ \A t \in Busy : slots'[t] = slots[t]
  BY <1>1, FreeAssumption DEF Accept, Busy, TypeOK
<1>4. TypeOK'
  BY <1>1, <1>2, SessionsAssumption DEF Accept, TypeOK
<1>5. OneInBacklog'
  BY <1>2 DEF OneConnection, OneInBacklog
<1>6. OneInSlots'
  BY <1>1, <1>3 DEF OneConnection, OneInSlots, OneOfBoth
<1>7. OneOfBoth'
  <2>. SUFFICES ASSUME NEW i \in DOMAIN backlog', NEW t \in Busy',
                       backlog'[i].by \in Clients
                PROVE  backlog'[i].by # slots'[t].by
    BY DEF OneOfBoth
  <2>1. i + 1 \in DOMAIN backlog /\ backlog'[i] = backlog[i + 1] /\ i + 1 # 1
    BY <1>2
  <2>2. CASE t = s
    BY <2>1, <2>2, <1>1, <1>3 DEF OneConnection, OneInBacklog
  <2>3. CASE t \in Busy
    BY <2>1, <2>3, <1>3 DEF OneConnection, OneOfBoth
  <2>. QED BY <2>2, <2>3, <1>3
<1>8. ASSUME roomy' PROVE Room' /\ BacklogFresh' /\ SlotsTimely'
  <2>1. roomy /\ Room /\ BacklogFresh /\ SlotsTimely /\ waited' = waited
    BY <1>8 DEF Timely, Accept
  <2>2. Connected' \subseteq Connected
    BY <1>1, <1>2, <1>3 DEF Connected, Open
  <2>3. BacklogFresh'
    BY <1>2, <2>1 DEF BacklogFresh
  <2>4. backlog[1].spent \in Nat
    BY <1>1, SessionsAssumption DEF Connection
  <2>5. SlotsTimely'
    BY <1>1, <1>3, <2>1, <2>4 DEF SlotsTimely, BacklogFresh
  <2>. QED BY <2>1, <2>2, <2>3, <2>5, RoomStays
<1>. QED BY <1>4, <1>5, <1>6, <1>7, <1>8 DEF OneConnection, Timely

LEMMA StepAnswer ==
  ASSUME IInv, NEW s \in Slots, Answer(s)
  PROVE  IInv'
<1>. USE Elements DEF IInv
<1>1. backlog' = backlog /\ roomy' = (roomy \/ Calm')
  BY DEF Answer
<1>2. /\ Busy' \subseteq Busy
      /\ \A t \in Busy' : slots'[t].by = slots[t].by
      /\ \A t \in Busy' \ {s} : slots'[t] = slots[t]
      /\ s \in Busy' => ~ slots'[s].asked
  BY FreeAssumption DEF Answer, Busy, Connection, TypeOK
<1>3. slots' \in [Slots -> Connection \cup {Free}]
  <2>1. [slots[s] EXCEPT !.asked = FALSE, !.spent = 0] \in Connection
    BY ConnectionTimes DEF Answer
  <2>. QED BY <2>1 DEF Answer, TypeOK
<1>4. TypeOK'
  BY <1>3, SessionsAssumption DEF Answer, TypeOK
<1>5. OneConnection'
  BY <1>1, <1>2 DEF OneConnection, OneInBacklog, OneInSlots, OneOfBoth
<1>6. ASSUME roomy PROVE Room' /\ BacklogFresh' /\ SlotsTimely'
  <2>1. roomy /\ Room /\ BacklogFresh /\ SlotsTimely
    BY <1>6 DEF Timely
  <2>2. Connected' \subseteq Connected
    BY <1>1, <1>2 DEF Connected, Open
  <2>3. \A m \in Clients : waited'[m] = IF m = slots[s].by THEN 0 ELSE waited[m]
    BY DEF Answer
  <2>4. BacklogFresh'
    BY <1>1, <2>1, <2>3 DEF BacklogFresh
  <2>5. \A t \in Busy : slots[t].spent \in Nat
    BY SessionsAssumption DEF Connection
  <2>6. SlotsTimely'
    BY <1>2, <2>1, <2>3, <2>5 DEF SlotsTimely
  <2>. QED BY <2>1, <2>2, <2>4, <2>6, RoomStays
<1>7. TypeOK' /\ Calm' => Room' /\ BacklogFresh' /\ SlotsTimely'
  BY CalmIsTimely, PTL
<1>. QED BY <1>1, <1>4, <1>5, <1>6, <1>7 DEF Timely

LEMMA StepEnds ==
  ASSUME IInv, NEW s \in Slots, Ends(s)
  PROVE  IInv'
<1>. USE Elements DEF IInv
<1>1. backlog' = backlog /\ roomy' = roomy /\ waited' = waited
  BY DEF Ends
<1>2. Busy' \subseteq Busy /\ \A t \in Busy' : slots'[t] = slots[t]
  BY DEF Ends, Busy, TypeOK
<1>3. TypeOK'
  BY DEF Ends, TypeOK
<1>4. OneConnection'
  BY <1>1, <1>2 DEF OneConnection, OneInBacklog, OneInSlots, OneOfBoth
<1>5. Connected' \subseteq Connected
  BY <1>1, <1>2 DEF Connected, Open
<1>. QED BY <1>1, <1>2, <1>3, <1>4, <1>5, RoomStays
         DEF Timely, BacklogFresh, SlotsTimely

(***************************************************************************)
(* Time passes with a line in the backlog only when no slot is free, and   *)
(* then, with room, that line is nobody's.                                 *)
(***************************************************************************)
LEMMA StepTick ==
  ASSUME IInv, Tick
  PROVE  IInv'
<1>. USE Elements DEF IInv
<1>1. backlog' = backlog /\ roomy' = roomy
  BY DEF Tick
<1>2. /\ Busy' = Busy
      /\ \A s \in Busy :
           /\ slots'[s].by = slots[s].by /\ slots'[s].asked = slots[s].asked
           /\ slots[s].asked => slots'[s].spent = slots[s].spent + 1
  BY FreeAssumption, SessionsAssumption DEF Tick, Busy, Connection, TimesOut
<1>3. slots' \in [Slots -> Connection \cup {Free}]
  <2>1. \A s \in Busy : slots[s].asked => [slots[s] EXCEPT !.spent = @ + 1] \in Connection
    BY ConnectionTimes DEF Tick
  <2>. QED BY <2>1 DEF Tick, TypeOK
<1>4. TypeOK'
  BY <1>3, SessionsAssumption DEF Tick, TypeOK
<1>5. OneConnection'
  BY <1>1, <1>2 DEF OneConnection, OneInBacklog, OneInSlots, OneOfBoth
<1>6. ASSUME roomy' PROVE Room' /\ BacklogFresh' /\ SlotsTimely'
  <2>1. roomy /\ Room /\ BacklogFresh /\ SlotsTimely
    BY <1>1, <1>6 DEF Timely
  <2>2. Connected' \subseteq Connected
    BY <1>1, <1>2 DEF Connected, Open
  <2>3. \A i \in DOMAIN backlog : backlog[i].by \notin Clients
    <3>1. CASE backlog = <<>>
      BY <3>1, EmptySeq
    <3>2. CASE Busy = Slots
      <4>1. \A s \in Slots : s \in Busy /\ slots[s].by \in Clients
        BY <2>1, <3>2, SessionsAssumption DEF SlotsTimely, Tick, Ended, Connection
      <4>. QED BY <4>1, <2>1, BacklogUnowned
    <3>. QED BY <3>1, <3>2 DEF Tick
  <2>4. BacklogFresh'
    BY <1>1, <2>1, <2>3 DEF BacklogFresh
  <2>5. \A s \in Busy : slots[s].asked => waited'[slots[s].by] = waited[slots[s].by] + 1
    BY <2>1 DEF Tick, SlotsTimely, Asking, Open
  <2>6. /\ \A s \in Busy : slots[s].spent \in Nat
        /\ \A k \in Clients : waited[k] \in Nat
    BY SessionsAssumption DEF Connection, TypeOK
  <2>7. SlotsTimely'
    BY <1>2, <2>1, <2>5, <2>6 DEF SlotsTimely
  <2>. QED BY <2>1, <2>2, <2>4, <2>7, RoomStays
<1>. QED BY <1>4, <1>5, <1>6 DEF Timely

(***************************************************************************)
(* With room the invariant leaves nobody's patience at its end.            *)
(***************************************************************************)
LEMMA RoomNeverGivesUp ==
  ASSUME IInv, roomy, NEW k \in Clients, GiveUp(k)
  PROVE  FALSE
<1>. USE Elements DEF IInv
<1>1. /\ waited[k] \in Nat /\ waited[k] >= Patience /\ Patience > Limit
      /\ Patience \in Nat /\ Limit \in Nat
  BY SessionsAssumption DEF GiveUp, TypeOK
<1>2. \A i \in DOMAIN backlog : ~ (backlog[i].by = k /\ backlog[i].asked)
  BY <1>1 DEF Timely, BacklogFresh
<1>3. \A s \in Busy : ~ (slots[s].by = k /\ slots[s].asked)
  BY <1>1 DEF Timely, SlotsTimely, Connection
<1>. QED BY <1>2, <1>3 DEF GiveUp, Asking, Open

LEMMA SessionsStep == IInv /\ [Next]_vars => IInv'
<1>. SUFFICES ASSUME IInv, [Next]_vars PROVE IInv'
  OBVIOUS
<1>1. ASSUME NEW k \in Clients, Connect(k) PROVE IInv'
  BY <1>1, StepConnect
<1>2. ASSUME NEW k \in Clients, Write(k) PROVE IInv'
  BY <1>2, StepWrite
<1>3. ASSUME NEW k \in Clients, GiveUp(k) PROVE IInv'
  <2>1. roomy => FALSE
    BY <1>3, RoomNeverGivesUp
  <2>. QED BY <1>3, <2>1, StepClose DEF GiveUp, IInv, TypeOK
<1>4. ASSUME NEW k \in Clients, HangUp(k) PROVE IInv'
  BY <1>4, StepClose DEF HangUp, IInv, TypeOK
<1>5. ASSUME NEW k \in Clients, Restart(k) PROVE IInv'
  <2>1. events + 1 \in 0..MaxEvents
    BY <1>5, SessionsAssumption DEF Restart, IInv, TypeOK
  <2>. QED BY <1>5, <2>1, StepClose DEF Restart
<1>6. ASSUME NEW s \in Slots, ServerStep(s) PROVE IInv'
  BY <1>6, StepAccept, StepAnswer, StepEnds DEF ServerStep
<1>7. CASE Tick
  BY <1>7, StepTick
<1>8. CASE UNCHANGED vars
  BY <1>8 DEF vars, IInv, TypeOK, OneConnection, OneInBacklog, OneInSlots, OneOfBoth,
    Timely, Room, BacklogFresh, SlotsTimely, Connected, Open, Busy
<1>. QED BY <1>1, <1>2, <1>3, <1>4, <1>5, <1>6, <1>7, <1>8 DEF Next
-----------------------------------------------------------------------------
(***************************************************************************)
(* The state of PowerDNS's connections is well-formed: no handler spends   *)
(* more than the limit on a line, and nobody waits longer than its         *)
(* patience (pdns_io.rs:132).                                              *)
(***************************************************************************)
THEOREM SessionsTypeCorrect == Spec => []TypeOK
<1>1. IInv => TypeOK
  BY DEF IInv
<1>. QED BY <1>1, SessionsInit, SessionsStep, PTL DEF Spec

(***************************************************************************)
(* With a slot for everybody since a calm moment PowerDNS never gives up,  *)
(* for any clients, slots and limits with Limit < Patience (unix.rs:91,    *)
(* pdns_io.rs:132).                                                        *)
(***************************************************************************)
THEOREM PromptWithRoom == Spec => PromptWhenRoomy
<1>1. IInv => (roomy => \A k \in Clients : ~ GiveUp(k))
  BY RoomNeverGivesUp
<1>2. IInv /\ [Next]_vars => [roomy => \A k \in Clients : ~ GiveUp(k)]_vars
  BY <1>1
<1>. QED BY <1>2, SessionsInit, SessionsStep, PTL DEF Spec, PromptWhenRoomy
=============================================================================

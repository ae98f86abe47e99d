--------------------------- MODULE UnixServerProofs ---------------------------
(***************************************************************************)
(* Proofs about UnixServer for any processes, connections and limit.       *)
(***************************************************************************)
EXTENDS UnixServer, FiniteSetTheorems, TLAPS

(***************************************************************************)
(* The inductive invariants.  Slots: what TypeOK says, and that slots are  *)
(* finite, so that taking one more counts one more.  Starts: while none of *)
(* a batch has ended, every process that is up belongs to it, what is no   *)
(* socket lets none of it past its check, a path with nothing at it has a  *)
(* process about to bind unless none has got that far, and so has a socket *)
(* nobody serves a process about to remove it.                             *)
(***************************************************************************)
Slots == TypeOK /\ \A p \in Procs : IsFiniteSet(slots[p])

Early == {"connect", "check"}

OnPlainFile ==
  path = PlainFile => \A p \in batch : pc[p] \in Early \cup {"refused"}

OnNothing ==
  path = Nothing => \/ \E p \in batch : pc[p] = "bind"
                    \/ \A p \in batch : pc[p] \in Early

OnSocket ==
  path \notin {Nothing, PlainFile} =>
    \/ \E p \in batch : path = p /\ pc[p] = "serve"
    \/ \A p \in batch : pc[p] \in Early \cup {"remove"}

Members == batch # {} => \A p \in Procs : Up(p) => p \in batch

Starts == Members /\ OnPlainFile /\ OnNothing /\ OnSocket

IInv == Slots /\ Starts

(***************************************************************************)
(* The three values are no processes and differ.                           *)
(***************************************************************************)
LEMMA PathValues ==
  /\ Nothing \notin Procs /\ Leftover \notin Procs /\ PlainFile \notin Procs
  /\ Nothing # PlainFile
<1>1. Nothing \notin Procs /\ Leftover \notin Procs /\ PlainFile \notin Procs
  BY PathAssumption
<1>2. SUFFICES ASSUME Nothing = PlainFile PROVE FALSE
  BY <1>1
<1>3. {Nothing, Leftover, PlainFile} = {Nothing} \cup {Leftover}
  BY <1>2
<1>4. IsFiniteSet({Nothing}) /\ Cardinality({Nothing}) = 1
  BY FS_Singleton
<1>5. Cardinality({Nothing} \cup {Leftover}) \in {1, 2}
  BY <1>4, FS_AddElement
<1>. QED BY <1>3, <1>5, PathAssumption

LEMMA ServerInit == Init => IInv
<1>. SUFFICES ASSUME Init PROVE IInv
  OBVIOUS
<1>1. \A p \in Procs : IsFiniteSet(slots[p]) /\ Cardinality(slots[p]) = 0
  BY FS_EmptySet DEF Init
<1>2. TypeOK
  BY <1>1, ServerAssumption DEF Init, TypeOK
<1>. QED BY <1>1, <1>2 DEF Init, IInv, Slots, Starts, Members, OnPlainFile, OnNothing, OnSocket

(***************************************************************************)
(* Slots.                                                                  *)
(***************************************************************************)
LEMMA FewerSlots ==
  ASSUME Slots, NEW p \in Procs, NEW s \in SUBSET slots[p],
         slots' = [slots EXCEPT ![p] = s]
  PROVE  /\ slots' \in [Procs -> SUBSET Clients]
         /\ \A q \in Procs : IsFiniteSet(slots'[q])
         /\ Workers > 0 => \A q \in Procs : Cardinality(slots'[q]) <= Workers
<1>1. IsFiniteSet(s) /\ Cardinality(s) <= Cardinality(slots[p])
  BY FS_Subset DEF Slots
<1>2. Cardinality(s) \in Nat /\ Cardinality(slots[p]) \in Nat
  BY <1>1, FS_CardinalityType DEF Slots
<1>3. \A q \in Procs : slots'[q] = IF q = p THEN s ELSE slots[q]
  BY DEF Slots, TypeOK
<1>4. slots' \in [Procs -> SUBSET Clients]
  BY DEF Slots, TypeOK
<1>. QED BY <1>1, <1>2, <1>3, <1>4, ServerAssumption DEF Slots, TypeOK

LEMMA AcceptSlots ==
  ASSUME Slots, NEW p \in Procs, Accept(p)
  PROVE  Slots'
<1>. DEFINE k == Head(backlog[p])
<1>1. backlog[p] \in Seq(Clients) /\ backlog[p] # <<>>
  BY DEF Slots, TypeOK, Accept
<1>2. k \in Clients /\ Tail(backlog[p]) \in Seq(Clients)
  BY <1>1
<1>3. backlog' \in [Procs -> Seq(Clients)]
  BY <1>2 DEF Slots, TypeOK, Accept
<1>4. slots' \in [Procs -> SUBSET Clients]
  BY <1>2 DEF Slots, TypeOK, Accept
<1>5. /\ slots'[p] = slots[p] \cup {k}
      /\ \A q \in Procs \ {p} : slots'[q] = slots[q]
  BY DEF Slots, TypeOK, Accept
<1>6. /\ IsFiniteSet(slots'[p])
      /\ Cardinality(slots'[p]) \in {Cardinality(slots[p]), Cardinality(slots[p]) + 1}
  BY <1>5, FS_AddElement DEF Slots
<1>7. Cardinality(slots[p]) \in Nat
  BY FS_CardinalityType DEF Slots
<1>8. Workers > 0 => Cardinality(slots'[p]) <= Workers
  BY <1>6, <1>7, ServerAssumption DEF Accept
<1>9. Workers > 0 => \A q \in Procs : Cardinality(slots'[q]) <= Workers
  BY <1>5, <1>8 DEF Slots, TypeOK
<1>10. \A q \in Procs : IsFiniteSet(slots'[q])
  BY <1>5, <1>6 DEF Slots
<1>11. UNCHANGED <<path, pc, hungUp, batch>>
  BY DEF Accept
<1>. QED BY <1>3, <1>4, <1>9, <1>10, <1>11 DEF Slots, TypeOK

LEMMA GoneSlots ==
  ASSUME Slots, NEW p \in Procs, Gone(p)
  PROVE  Slots'
<1>1. <<>> \in Seq(Clients)
  OBVIOUS
<1>2. backlog' \in [Procs -> Seq(Clients)]
  BY <1>1 DEF Slots, TypeOK, Gone
<1>3. slots' = [slots EXCEPT ![p] = {}]
  BY DEF Gone
<1>4. /\ pc' \in [Procs -> {"off", "connect", "check", "remove", "bind", "serve", "refused"}]
      /\ hungUp' \in SUBSET Clients /\ batch' \in SUBSET Procs /\ path' = path
  BY DEF Slots, TypeOK, Gone, Goto
<1>. QED BY <1>2, <1>3, <1>4, FewerSlots DEF Slots, TypeOK

LEMMA ServerSlots ==
  ASSUME Slots, NEW p \in Procs, ServerStep(p)
  PROVE  Slots'
<1>1. CASE Start(p) \/ Connected(p) \/ Check(p) \/ RemoveSocket(p) \/ Bind(p)
  <2>1. /\ pc' \in [Procs -> {"off", "connect", "check", "remove", "bind", "serve", "refused"}]
        /\ path' \in {Nothing, Leftover, PlainFile} \cup Procs
        /\ batch' \in SUBSET Procs
    <3>1. CASE Start(p) BY <3>1 DEF Slots, TypeOK, Start, Goto
    <3>5. CASE Connected(p) BY <3>5 DEF Slots, TypeOK, Connected, Goto
    <3>2. CASE Check(p) BY <3>2 DEF Slots, TypeOK, Check, Goto
    <3>3. CASE RemoveSocket(p) BY <3>3 DEF Slots, TypeOK, RemoveSocket, Goto
    <3>4. CASE Bind(p) BY <3>4 DEF Slots, TypeOK, Bind, Goto
    <3>. QED BY <1>1, <3>1, <3>2, <3>3, <3>4, <3>5
  <2>2. UNCHANGED <<backlog, slots, hungUp>>
    BY <1>1 DEF Start, Connected, Check, RemoveSocket, Bind
  <2>. QED BY <2>1, <2>2 DEF Slots, TypeOK
<1>2. CASE Accept(p)
  BY <1>2, AcceptSlots
<1>3. CASE Killed(p) \/ \E k \in Clients : HandlerFails(p, k)
  BY <1>3, GoneSlots DEF Killed, HandlerFails
<1>4. ASSUME NEW k \in Clients, HandlerEnds(p, k) \/ HandlerBreaks(p, k)
      PROVE  Slots'
  <2>1. slots' = [slots EXCEPT ![p] = slots[p] \ {k}]
    BY <1>4 DEF HandlerEnds, HandlerBreaks
  <2>2. hungUp' \in SUBSET Clients /\ UNCHANGED <<path, pc, backlog, batch>>
    BY <1>4 DEF HandlerEnds, HandlerBreaks, Slots, TypeOK
  <2>3. slots[p] \ {k} \in SUBSET slots[p]
    OBVIOUS
  <2>. QED BY <2>1, <2>2, <2>3, FewerSlots DEF Slots, TypeOK
<1>. QED BY <1>1, <1>2, <1>3, <1>4 DEF ServerStep

LEMMA ClientSlots ==
  ASSUME Slots, NEW k \in Clients, Connect(k) \/ HangUp(k)
  PROVE  Slots'
<1>1. CASE Connect(k)
  <2>1. PICK p \in Procs : backlog' = [backlog EXCEPT ![p] = Append(@, k)]
    BY <1>1 DEF Connect
  <2>2. Append(backlog[p], k) \in Seq(Clients)
    BY DEF Slots, TypeOK
  <2>3. backlog' \in [Procs -> Seq(Clients)]
    BY <2>1, <2>2 DEF Slots, TypeOK
  <2>. QED BY <1>1, <2>3 DEF Connect, Slots, TypeOK
<1>2. CASE HangUp(k)
  BY <1>2 DEF HangUp, Slots, TypeOK
<1>. QED BY <1>1, <1>2

(***************************************************************************)
(* Starts.                                                                 *)
(***************************************************************************)
LEMMA StartStarts ==
  ASSUME IInv, NEW p \in Procs, Start(p)
  PROVE  Starts'
<1>1. /\ path' = path /\ ~ Up(p)
      /\ pc'[p] \in Early /\ \A q \in Procs \ {p} : pc'[q] = pc[q]
  BY DEF Start, Goto, Early, IInv, Slots, TypeOK
<1>2. pc[p] \notin {"bind", "serve"} /\ batch \subseteq Procs
  BY <1>1 DEF Up, IInv, Slots, TypeOK
<1>3. CASE \A q \in Procs : ~ Up(q)
  <2>1. batch' = {p}
    BY <1>3 DEF Start
  <2>. QED BY <1>1, <1>3, <2>1 DEF Starts, Members, OnPlainFile, OnNothing, OnSocket, Up
<1>4. CASE batch' = {}
  BY <1>4 DEF Starts, Members, OnPlainFile, OnNothing, OnSocket
<1>5. CASE batch # {} /\ batch' = batch \cup {p}
  BY <1>1, <1>2, <1>5 DEF IInv, Starts, Members, OnPlainFile, OnNothing, OnSocket, Up
<1>. QED BY <1>3, <1>4, <1>5 DEF Start

\* The steps of a start: who takes one is of the batch, if there is a batch.
LEMMA SocketStarts ==
  ASSUME IInv, NEW p \in Procs,
         Connected(p) \/ Check(p) \/ RemoveSocket(p) \/ Bind(p)
  PROVE  Starts'
<1>1. /\ batch' = batch /\ Up(p)
      /\ \A q \in Procs \ {p} : pc'[q] = pc[q]
      /\ batch \subseteq Procs
  BY DEF Connected, Check, RemoveSocket, Bind, Goto, Up, IInv, Slots, TypeOK
<1>2. CASE batch = {}
  BY <1>1, <1>2 DEF Starts, Members, OnPlainFile, OnNothing, OnSocket
<1>3. CASE p \in batch
  <2>1. Members'
    BY <1>1, <1>3 DEF IInv, Starts, Members, Up
  <2>2. CASE Connected(p)
    <3>1. path' = path /\ pc[p] = "connect" /\ pc'[p] = "check"
      BY <2>2 DEF Connected, Goto, IInv, Slots, TypeOK
    <3>. QED BY <1>1, <1>3, <2>1, <3>1
             DEF IInv, Starts, OnPlainFile, OnNothing, OnSocket, Early
  <2>3. CASE Check(p)
    <3>1. /\ path' = path /\ pc[p] = "check"
          /\ \/ path = Nothing /\ pc'[p] = "bind"
             \/ path = PlainFile /\ pc'[p] = "refused"
             \/ path \notin {Nothing, PlainFile} /\ pc'[p] = "remove"
      BY <2>3 DEF Check, Goto, IInv, Slots, TypeOK
    <3>. QED BY <1>1, <1>3, <2>1, <3>1, PathValues
             DEF IInv, Starts, OnPlainFile, OnNothing, OnSocket, Early
  <2>4. CASE RemoveSocket(p)
    <3>1. /\ path' = Nothing /\ pc[p] = "remove"
          /\ pc'[p] = IF path = Nothing THEN "refused" ELSE "bind"
      BY <2>4 DEF RemoveSocket, Goto, IInv, Slots, TypeOK
    <3>. QED BY <1>1, <1>3, <2>1, <3>1, PathValues
             DEF IInv, Starts, OnPlainFile, OnNothing, OnSocket, Early
  <2>5. CASE Bind(p)
    <3>1. /\ pc[p] = "bind"
          /\ \/ path = Nothing /\ path' = p /\ pc'[p] = "serve"
             \/ path # Nothing /\ path' = path /\ pc'[p] = "refused"
      BY <2>5 DEF Bind, Goto, IInv, Slots, TypeOK
    <3>. QED BY <1>1, <1>3, <2>1, <3>1, PathValues
             DEF IInv, Starts, OnPlainFile, OnNothing, OnSocket, Early
  <2>. QED BY <2>2, <2>3, <2>4, <2>5
<1>. QED BY <1>1, <1>2, <1>3 DEF IInv, Starts, Members

LEMMA GoneStarts ==
  ASSUME IInv, NEW p \in Procs, Gone(p)
  PROVE  Starts'
<1>1. /\ path' = path /\ pc'[p] = "off"
      /\ \A q \in Procs \ {p} : pc'[q] = pc[q]
      /\ batch \subseteq Procs
      /\ batch' = IF pc[p] \in Early THEN batch \ {p} ELSE {}
  BY DEF Gone, Goto, Early, IInv, Slots, TypeOK
<1>. QED BY <1>1 DEF IInv, Starts, Members, OnPlainFile, OnNothing, OnSocket, Up, Early

LEMMA ServerStarts ==
  ASSUME IInv, NEW p \in Procs, ServerStep(p)
  PROVE  Starts'
<1>1. CASE Killed(p) \/ \E k \in Clients : HandlerFails(p, k)
  BY <1>1, GoneStarts DEF Killed, HandlerFails
<1>2. CASE Accept(p) \/ \E k \in Clients : HandlerEnds(p, k) \/ HandlerBreaks(p, k)
  <2>1. UNCHANGED <<path, pc, batch>>
    BY <1>2 DEF Accept, HandlerEnds, HandlerBreaks
  <2>. QED BY <2>1 DEF IInv, Starts, Members, OnPlainFile, OnNothing, OnSocket, Up
<1>. QED BY <1>1, <1>2, StartStarts, SocketStarts DEF ServerStep

LEMMA ServerInvStep == IInv /\ [Next]_vars => IInv'
<1>. SUFFICES ASSUME IInv, [Next]_vars PROVE IInv'
  OBVIOUS
<1>1. ASSUME NEW p \in Procs, ServerStep(p) PROVE IInv'
  BY <1>1, ServerSlots, ServerStarts DEF IInv
<1>2. ASSUME NEW k \in Clients, Connect(k) \/ HangUp(k) PROVE IInv'
  <2>1. UNCHANGED <<path, pc, batch>>
    BY <1>2 DEF Connect, HangUp
  <2>2. Starts'
    BY <2>1 DEF IInv, Starts, Members, OnPlainFile, OnNothing, OnSocket, Up
  <2>. QED BY <1>2, <2>2, ClientSlots DEF IInv
<1>3. CASE UNCHANGED vars
  BY <1>3 DEF vars, IInv, Slots, TypeOK, Starts, Members, OnPlainFile, OnNothing, OnSocket, Up
<1>. QED BY <1>1, <1>2, <1>3 DEF Next

LEMMA ServerInv == Spec => []IInv
<1>. QED BY ServerInit, ServerInvStep, PTL DEF Spec

(***************************************************************************)
(* Connections.                                                            *)
(***************************************************************************)
LEMMA HeldAfter ==
  ASSUME AttachedIsServed, NEW p \in Procs, Held(p)' \subseteq Held(p),
         \A q \in Procs \ {p} : Held(q)' = Held(q) /\ pc'[q] = pc[q],
         Held(p)' # {} => pc'[p] = pc[p]
  PROVE  AttachedIsServed'
<1>. SUFFICES ASSUME NEW q \in Procs, NEW k \in Held(q)'
              PROVE  pc'[q] = "serve" /\ \A r \in Procs \ {q} : k \notin Held(r)'
  BY DEF AttachedIsServed
<1>1. k \in Held(q) /\ pc'[q] = pc[q]
  OBVIOUS
<1>2. \A r \in Procs \ {q} : k \notin Held(r)
  BY <1>1 DEF AttachedIsServed
<1>. QED BY <1>1, <1>2 DEF AttachedIsServed

LEMMA StartHolds ==
  ASSUME Slots, AttachedIsServed, NEW p \in Procs,
         Start(p) \/ Connected(p) \/ Check(p) \/ RemoveSocket(p) \/ Bind(p)
  PROVE  AttachedIsServed'
<1>1. /\ pc[p] # "serve" /\ UNCHANGED <<backlog, slots>>
      /\ \A q \in Procs \ {p} : pc'[q] = pc[q]
  BY DEF Start, Connected, Check, RemoveSocket, Bind, Goto, Up, Slots, TypeOK
<1>2. Held(p) = {} /\ \A q \in Procs : Held(q)' = Held(q)
  BY <1>1 DEF AttachedIsServed, Held, Waiting
<1>. QED BY <1>1, <1>2, HeldAfter

LEMMA AcceptHolds ==
  ASSUME Slots, AttachedIsServed, NEW p \in Procs, Accept(p)
  PROVE  AttachedIsServed'
<1>1. backlog[p] \in Seq(Clients) /\ backlog[p] # <<>>
  BY DEF Slots, TypeOK, Accept
<1>2. /\ backlog'[p] = Tail(backlog[p]) /\ slots'[p] = slots[p] \cup {Head(backlog[p])}
      /\ \A q \in Procs \ {p} : backlog'[q] = backlog[q] /\ slots'[q] = slots[q]
      /\ pc' = pc
  BY DEF Slots, TypeOK, Accept
<1>3. Waiting(p)' \subseteq Waiting(p)
  <2>1. \A i \in 1..Len(Tail(backlog[p])) :
          i + 1 \in 1..Len(backlog[p]) /\ Tail(backlog[p])[i] = backlog[p][i + 1]
    BY <1>1
  <2>. QED BY <1>2, <2>1 DEF Waiting
<1>4. Head(backlog[p]) \in Waiting(p)
  <2>1. Head(backlog[p]) = backlog[p][1] /\ 1 \in 1..Len(backlog[p])
    BY <1>1
  <2>. QED BY <2>1 DEF Waiting
<1>5. Held(p)' \subseteq Held(p) /\ \A q \in Procs \ {p} : Held(q)' = Held(q)
  BY <1>2, <1>3, <1>4 DEF Held, Waiting
<1>. QED BY <1>2, <1>5, HeldAfter

LEMMA HandlerHolds ==
  ASSUME Slots, AttachedIsServed, NEW p \in Procs, NEW k \in Clients,
         HandlerEnds(p, k) \/ HandlerBreaks(p, k)
  PROVE  AttachedIsServed'
<1>1. /\ slots'[p] = slots[p] \ {k} /\ UNCHANGED <<backlog, pc>>
      /\ \A q \in Procs \ {p} : slots'[q] = slots[q]
  BY DEF HandlerEnds, HandlerBreaks, Slots, TypeOK
<1>2. Held(p)' \subseteq Held(p) /\ \A q \in Procs \ {p} : Held(q)' = Held(q)
  BY <1>1 DEF Held, Waiting
<1>. QED BY <1>1, <1>2, HeldAfter

LEMMA GoneHolds ==
  ASSUME Slots, AttachedIsServed, NEW p \in Procs, Gone(p)
  PROVE  AttachedIsServed'
<1>1. /\ backlog'[p] = <<>> /\ slots'[p] = {}
      /\ \A q \in Procs \ {p} :
           pc'[q] = pc[q] /\ backlog'[q] = backlog[q] /\ slots'[q] = slots[q]
  BY DEF Gone, Goto, Slots, TypeOK
<1>2. Held(p)' = {} /\ \A q \in Procs \ {p} : Held(q)' = Held(q)
  BY <1>1 DEF Held, Waiting
<1>. QED BY <1>1, <1>2, HeldAfter

LEMMA ConnectHolds ==
  ASSUME Slots, AttachedIsServed, NEW k \in Clients, Connect(k)
  PROVE  AttachedIsServed'
<1>1. PICK p \in Procs : pc[p] = "serve" /\ backlog' = [backlog EXCEPT ![p] = Append(@, k)]
  BY DEF Connect
<1>2. /\ backlog'[p] = Append(backlog[p], k) /\ backlog[p] \in Seq(Clients)
      /\ \A q \in Procs \ {p} : backlog'[q] = backlog[q]
      /\ UNCHANGED <<pc, slots>>
  BY <1>1 DEF Connect, Slots, TypeOK
<1>3. Waiting(p)' \subseteq Waiting(p) \cup {k}
  <2>1. \A i \in 1..Len(Append(backlog[p], k)) :
          \/ Append(backlog[p], k)[i] = k
          \/ i \in 1..Len(backlog[p]) /\ Append(backlog[p], k)[i] = backlog[p][i]
    BY <1>2
  <2>. QED BY <1>2, <2>1 DEF Waiting
<1>4. /\ Held(p)' \subseteq Held(p) \cup {k}
      /\ \A q \in Procs \ {p} : Held(q)' = Held(q)
  BY <1>2, <1>3 DEF Held, Waiting
<1>5. \A q \in Procs : k \notin Held(q)
  BY DEF Connect, Attached, Held
<1>. QED BY <1>1, <1>2, <1>4, <1>5 DEF AttachedIsServed

LEMMA HoldsStep == Slots /\ AttachedIsServed /\ [Next]_vars => AttachedIsServed'
<1>. SUFFICES ASSUME Slots, AttachedIsServed, [Next]_vars PROVE AttachedIsServed'
  OBVIOUS
<1>1. ASSUME NEW p \in Procs, ServerStep(p) PROVE AttachedIsServed'
  BY <1>1, StartHolds, AcceptHolds, HandlerHolds, GoneHolds
     DEF ServerStep, Killed, HandlerFails
<1>2. ASSUME UNCHANGED <<pc, backlog, slots>> PROVE AttachedIsServed'
  <2>1. \A p \in Procs : Held(p)' = Held(p) /\ pc'[p] = pc[p]
    BY <1>2 DEF Held, Waiting
  <2>. QED BY <2>1 DEF AttachedIsServed
<1>3. CASE (\E k \in Clients : HangUp(k)) \/ UNCHANGED vars
  BY <1>2, <1>3 DEF HangUp, vars
<1>. QED BY <1>1, <1>3, ConnectHolds DEF Next

(***************************************************************************)
(* The end of a process, by one handler's error or killed, leaves none of  *)
(* its connections open (unix.rs:91-109).                                  *)
(***************************************************************************)
THEOREM AttachedAreServed == Spec => []AttachedIsServed
<1>1. Init => AttachedIsServed
  BY DEF Init, AttachedIsServed, Held, Waiting
<1>2. IInv => Slots
  BY DEF IInv
<1>. QED BY <1>1, <1>2, HoldsStep, ServerInv, PTL DEF Spec

(***************************************************************************)
(* The servers' state is well-formed; above all, never more than Workers   *)
(* connections have a handler.                                             *)
(***************************************************************************)
THEOREM ServerTypeCorrect == Spec => []TypeOK
<1>1. IInv => TypeOK
  BY DEF IInv, Slots
<1>. QED BY <1>1, ServerInv, PTL

(***************************************************************************)
(* A start with no other process beside it works, whatever crash it        *)
(* follows (unix.rs:65-88).                                                *)
(***************************************************************************)
THEOREM LoneStartsWork == Spec => []LoneStartWorks
<1>1. IInv => LoneStartWorks
  <2>. SUFFICES ASSUME IInv, NEW p \in Procs, batch = {p}
                PROVE  /\ pc[p] = "refused" => path = PlainFile
                       /\ pc[p] = "serve" => path = p
    BY DEF LoneStartWorks
  <2>. QED BY DEF IInv, Starts, OnPlainFile, OnNothing, OnSocket, Early
<1>. QED BY <1>1, ServerInv, PTL

(***************************************************************************)
(* Once starts that ran together have settled, the path leads to one that  *)
(* serves, for any number of processes and any order of their steps.       *)
(***************************************************************************)
THEOREM StartsDoConverge == Spec => []StartsConverge
<1>1. IInv => StartsConverge
  <2>. SUFFICES ASSUME IInv, Settled, path # PlainFile
                PROVE  \E p \in batch : path = p /\ pc[p] = "serve"
    BY DEF StartsConverge
  <2>1. PICK p \in batch : pc[p] \in {"serve", "refused"}
    BY DEF Settled
  <2>2. \A q \in batch : pc[q] # "bind"
    BY DEF Settled, IInv, Slots, TypeOK
  <2>. QED BY <2>1, <2>2 DEF IInv, Starts, OnNothing, OnSocket, Early
<1>. QED BY <1>1, ServerInv, PTL
=============================================================================

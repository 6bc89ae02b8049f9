--------------------------- MODULE Device_proofs ---------------------------
(***************************************************************************)
(* Proofs about Device: what each part promises of its own state holds at     *)
(* every step of the main loop, whatever the other parts and the surroundings do *)
(* (Consistent); BlockAckReqs are counted off late enough (BaBeforeBar); and a   *)
(* sleeping host is woken only as it asked (WakeJustified).  For every size of     *)
(* the rings, all frames, requests, commands, users and keys.  First come two    *)
(* parts on their own: what each operation keeps of the state of the receive path, *)
(* and that no entry of the key memory is in use half written, for any users, 64  *)
(* peers and 4 default keys among them, and any keys.                           *)
(***************************************************************************)
EXTENDS Device, RingArithmetic, SequenceTheorems, FiniteSetTheorems, TLAPS

-----------------------------------------------------------------------------
(* The receive path *)

\* The count of BlockAckReqs of the host agrees with the one on its way.
BarCounted == queuedBar = IF bar = "none" THEN 0 ELSE 1

RxInv == RxTypeOK /\ BarsInOrder /\ BarCounted

LEMMA RxStart == RxInit => RxInv
<1> SUFFICES ASSUME RxInit PROVE RxInv
  OBVIOUS
<1>1. NBA \in Nat \ {0} /\ NRX \in Nat
  BY RxAssumption
<1>2. RxTypeOK
  <2>1. /\ rxq \in Seq(Frame) /\ Len(rxq) = 0 /\ up = 0 /\ owed \in Seq(Stations)
        /\ rxFilter \subseteq FilterBits
    BY EmptySeq DEF RxInit
  <2>2. baCache \in [0 .. NBA - 1 -> Stations \cup {NoBar}]
    BY DEF RxInit
  <2>3. /\ baHead \in 0 .. NBA - 1 /\ baTail \in 0 .. NBA - 1 /\ queuedBa \in 0 .. NBA
        /\ fwDesc = "free" /\ bar = "none" /\ queuedBar = 0 /\ overran \in BOOLEAN
    <3>1. 0 \in 0 .. NBA - 1 /\ 0 \in 0 .. NBA
      BY <1>1
    <3>2. overran \in BOOLEAN
      BY DEF RxInit
    <3> QED
      BY <3>1, <3>2 DEF RxInit
  <2> QED
    BY <1>1, <2>1, <2>2, <2>3 DEF RxTypeOK
<1>3. BarsInOrder
  BY <1>1, ModSmall DEF RxInit, BarsInOrder
<1> QED
  BY <1>2, <1>3 DEF RxInit, RxInv, BarCounted

LEMMA RxStutter ==
  ASSUME RxInv, UNCHANGED rxVars
  PROVE  RxInv'
BY DEF RxInv, RxTypeOK, BarsInOrder, BarCounted, rxVars, baVars, txVars

\* A BlockAckReq goes into the slot behind the last one that waits.
LEMMA CacheBarKeeps ==
  ASSUME RxTypeOK, BarsInOrder, NEW f \in Frame, CacheBar(f)
  PROVE  /\ BarsInOrder'
         /\ baCache' \in [0 .. NBA - 1 -> Stations \cup {NoBar}]
         /\ baHead' \in 0 .. NBA - 1 /\ baTail' \in 0 .. NBA - 1 /\ queuedBa' \in 0 .. NBA
         /\ owed' \in Seq(Stations) /\ overran' \in BOOLEAN
<1>0. NBA \in Nat \ {0} /\ f.from \in Stations
  BY RxAssumption DEF Frame
<1>1. baTail' = (baTail + 1) % NBA /\ baHead' = baHead
  BY DEF CacheBar, Step
<1>2. /\ baCache' \in [0 .. NBA - 1 -> Stations \cup {NoBar}]
      /\ baHead' \in 0 .. NBA - 1 /\ queuedBa' \in 0 .. NBA
      /\ owed' \in Seq(Stations) /\ overran' \in BOOLEAN
  BY <1>0, EmptySeq, AppendProperties DEF CacheBar, RxTypeOK
<1>3. baTail' \in 0 .. NBA - 1
  BY <1>0, <1>1, ModIsIndex DEF RxTypeOK
<1>4. ASSUME ~overran' PROVE BarsInOrder'
  <2>1. /\ ~overran /\ queuedBa \in 0 .. NBA - 1 /\ queuedBa' = queuedBa + 1
        /\ owed' = Append(owed, f.from) /\ baCache' = [baCache EXCEPT ![baTail] = f.from]
    <3>1. ~overran /\ queuedBa # NBA
      BY <1>4 DEF CacheBar
    <3> QED
      BY <1>0, <1>4, <3>1 DEF CacheBar, RxTypeOK
  <2>2. /\ Len(owed) = queuedBa /\ baTail = (baHead + queuedBa) % NBA
        /\ \A i \in 1 .. queuedBa : baCache[(baHead + i - 1) % NBA] = owed[i]
    BY <2>1 DEF BarsInOrder
  <2>3. /\ Len(owed') = queuedBa + 1 /\ owed'[queuedBa + 1] = f.from
        /\ \A i \in 1 .. queuedBa : owed'[i] = owed[i]
    <3>1. owed \in Seq(Stations)
      BY DEF RxTypeOK
    <3>2. /\ Len(Append(owed, f.from)) = Len(owed) + 1
          /\ Append(owed, f.from)[Len(owed) + 1] = f.from
      BY <1>0, <3>1, AppendProperties
    <3>3. \A i \in 1 .. Len(owed) : Append(owed, f.from)[i] = owed[i]
      BY <1>0, <3>1, AppendProperties
    <3>4. owed' = Append(owed, f.from) /\ Len(owed) = queuedBa
      BY <2>1, <2>2
    <3> QED
      BY <3>2, <3>3, <3>4
  <2>4. baTail' = (baHead + (queuedBa + 1)) % NBA
    BY <1>0, <1>1, <2>1, <2>2, TailFollows DEF RxTypeOK
  <2>5. ASSUME NEW i \in 1 .. queuedBa + 1
        PROVE  baCache'[(baHead + i - 1) % NBA] = owed'[i]
    <3>0. baHead \in 0 .. NBA - 1 /\ i - 1 \in 0 .. NBA - 1 /\ baHead + i - 1 = baHead + (i - 1)
      BY <1>0, <2>1 DEF RxTypeOK
    <3>1. CASE i = queuedBa + 1
      BY <1>0, <2>1, <2>2, <2>3, <3>0, <3>1 DEF RxTypeOK
    <3>2. CASE i # queuedBa + 1
      <4>1. i \in 1 .. queuedBa /\ i - 1 # queuedBa
        BY <2>1, <3>2
      <4>2. (baHead + (i - 1)) % NBA # baTail
        BY <1>0, <2>1, <2>2, <3>0, <4>1, SlotsDiffer
      <4>3. (baHead + (i - 1)) % NBA \in 0 .. NBA - 1
        BY <1>0, <3>0, ModIsIndex
      <4> QED
        BY <2>1, <2>2, <2>3, <3>0, <4>1, <4>2, <4>3 DEF RxTypeOK
    <3> QED
      BY <3>1, <3>2
  <2> QED
    BY <1>1, <2>1, <2>3, <2>4, <2>5 DEF BarsInOrder
<1> QED
  BY <1>1, <1>2, <1>3, <1>4 DEF BarsInOrder

\* One turn of handle_wlan_rx().
LEMMA RxFrameKeeps ==
  ASSUME RxInv, RxFrame
  PROVE  RxInv'
<1>1. rxq \in Seq(Frame) /\ rxq # <<>> /\ Head(rxq) \in Frame
  BY HeadTailProperties DEF RxInv, RxTypeOK, RxFrame
<1>2. rxq' \in Seq(Frame) /\ Len(rxq') = Len(rxq) - 1 /\ Len(rxq) \in Nat
  BY <1>1, HeadTailProperties, LenProperties DEF RxFrame
<1>3. up' \in {up, up + 1} /\ UNCHANGED <<rxFilter, fwDesc, txVars>>
  BY DEF RxFrame
<1>4. /\ BarsInOrder'
      /\ baCache' \in [0 .. NBA - 1 -> Stations \cup {NoBar}]
      /\ baHead' \in 0 .. NBA - 1 /\ baTail' \in 0 .. NBA - 1 /\ queuedBa' \in 0 .. NBA
      /\ owed' \in Seq(Stations) /\ overran' \in BOOLEAN
  <2>1. CASE CacheBar(Head(rxq))
    BY <1>1, <2>1, CacheBarKeeps DEF RxInv
  <2>2. CASE UNCHANGED baVars
    BY <2>2 DEF RxInv, RxTypeOK, BarsInOrder, baVars
  <2> QED
    BY <2>1, <2>2 DEF RxFrame
<1>5. up' \in 0 .. NRX /\ Len(rxq') + up' <= NRX
  BY <1>2, <1>3, RxAssumption DEF RxInv, RxTypeOK
<1> QED
  BY <1>2, <1>3, <1>4, <1>5 DEF RxInv, RxTypeOK, BarCounted, txVars

\* wlan_send_buffered_ba() takes the oldest request.
LEMMA SendBufferedBaKeeps ==
  ASSUME RxInv, SendBufferedBa, UNCHANGED <<rxq, up, rxFilter, txVars>>
  PROVE  RxInv'
<1>0. NBA \in Nat \ {0}
  BY RxAssumption
<1>1. CASE UNCHANGED <<baVars, fwDesc>>
  BY <1>1, RxStutter DEF rxVars
<1>2. CASE queuedBa > 0 /\ fwDesc = "free"
  <2>1. /\ baHead' = (baHead + 1) % NBA /\ queuedBa' = queuedBa - 1 /\ fwDesc' = "queued"
        /\ owed' = (IF overran THEN <<>> ELSE Tail(owed)) /\ UNCHANGED <<baCache, baTail, overran>>
    BY <1>2 DEF SendBufferedBa, HeadMoves, Step
  <2>2. baHead' \in 0 .. NBA - 1 /\ queuedBa' \in 0 .. NBA
    BY <1>0, <1>2, <2>1, ModIsIndex DEF RxInv, RxTypeOK
  <2>3. CASE overran
    BY <2>1, <2>2, <2>3, EmptySeq DEF RxInv, RxTypeOK, BarsInOrder, BarCounted, txVars
  <2>4. CASE ~overran
    <3>1. /\ Len(owed) = queuedBa /\ baTail = (baHead + queuedBa) % NBA
          /\ \A i \in 1 .. queuedBa : baCache[(baHead + i - 1) % NBA] = owed[i]
          /\ owed \in Seq(Stations) /\ queuedBa \in 1 .. NBA /\ baHead \in 0 .. NBA - 1
      <4>1. /\ Len(owed) = queuedBa /\ baTail = (baHead + queuedBa) % NBA
            /\ \A i \in 1 .. Len(owed) : baCache[(baHead + i - 1) % NBA] = owed[i]
        BY <2>4 DEF RxInv, BarsInOrder
      <4>2. owed \in Seq(Stations) /\ queuedBa \in 1 .. NBA /\ baHead \in 0 .. NBA - 1
        BY <1>0, <1>2 DEF RxInv, RxTypeOK
      <4> QED
        BY <4>1, <4>2
    <3>2. /\ owed' \in Seq(Stations) /\ Len(owed') = queuedBa - 1
          /\ \A i \in 1 .. queuedBa - 1 : owed'[i] = owed[i + 1]
      <4>1. owed # <<>> /\ owed' = Tail(owed)
        BY <2>1, <2>4, <3>1
      <4> QED
        BY <3>1, <4>1, HeadTailProperties
    <3>3. baTail = (baHead' + (queuedBa - 1)) % NBA
      <4>1. /\ queuedBa - 1 \in 0 .. NBA - 1 /\ 1 + (queuedBa - 1) <= NBA
            /\ baHead + 1 <= NBA /\ 1 \in 1 .. NBA /\ 1 + (queuedBa - 1) = queuedBa
        BY <1>0, <3>1
      <4>2. (((baHead + 1) % NBA) + (queuedBa - 1)) % NBA = (baHead + (1 + (queuedBa - 1))) % NBA
        BY <1>0, <3>1, <4>1, StepFromHead
      <4> QED
        BY <2>1, <3>1, <4>1, <4>2
    <3>4. ASSUME NEW i \in 1 .. queuedBa - 1
          PROVE  baCache[(baHead' + i - 1) % NBA] = owed'[i]
      <4>1. (baHead' + (i - 1)) % NBA = (baHead + (1 + (i - 1))) % NBA
        <5>1. i - 1 \in 0 .. NBA - 1 /\ 1 + (i - 1) <= NBA /\ baHead + 1 <= NBA /\ 1 \in 1 .. NBA
          BY <1>0, <3>1
        <5> QED
          BY <1>0, <2>1, <3>1, <5>1, StepFromHead
      <4>2. baHead + (1 + (i - 1)) = baHead + (i + 1) - 1 /\ baHead' + (i - 1) = baHead' + i - 1
            /\ i + 1 \in 1 .. queuedBa
        BY <1>0, <2>2, <3>1
      <4> QED
        BY <3>1, <3>2, <4>1, <4>2
    <3>5. BarsInOrder'
      BY <2>1, <3>2, <3>3, <3>4 DEF BarsInOrder
    <3> QED
      BY <2>1, <2>2, <3>2, <3>5 DEF RxInv, RxTypeOK, BarCounted, txVars
  <2> QED
    BY <2>3, <2>4
<1> QED
  BY <1>1, <1>2 DEF SendBufferedBa

\* The queue of received frames changes, in place or by one frame at its end; a
\* BlockAckReq of the host may get its answer.
LEMMA QueueKeeps ==
  ASSUME RxInv, UNCHANGED <<up, rxFilter, baVars, fwDesc, queuedBar>>,
         rxq' \in Seq(Frame), Len(rxq') + up <= NRX,
         bar' = bar \/ (bar \in {"queued", "answered"} /\ bar' \in {"answered", "sent"})
  PROVE  RxInv'
<1>1. RxTypeOK'
  BY DEF RxInv, RxTypeOK, baVars
<1>2. BarsInOrder' /\ BarCounted'
  BY DEF RxInv, BarsInOrder, BarCounted, baVars
<1> QED
  BY <1>1, <1>2 DEF RxInv

LEMMA ReceiveKeeps ==
  ASSUME RxInv, NEW f \in Frame, Receive(f), UNCHANGED <<up, rxFilter, baVars, fwDesc, queuedBar>>,
         bar' = bar \/ (bar = "queued" /\ bar' = "answered")
  PROVE  RxInv'
<1>1. rxq \in Seq(Frame) /\ up \in Nat /\ Len(rxq) \in Nat /\ NRX \in Nat
  BY RxAssumption, LenProperties DEF RxInv, RxTypeOK
<1>2. rxq' \in Seq(Frame) /\ Len(rxq') = Len(rxq) + 1
  BY <1>1, AppendProperties DEF Receive
<1>3. Len(rxq') + up <= NRX
  BY <1>1, <1>2 DEF Receive
<1> QED
  BY <1>2, <1>3, QueueKeeps

\* The host's BlockAckReq is queued, sent, and counted off once; the firmware's own
\* frame comes home.
LEMMA TransmitKeeps ==
  ASSUME RxInv, QueueBar \/ TxCompletion \/ BarSent \/ FwFrameSent
  PROVE  RxInv'
<1>1. UNCHANGED <<rxq, up, rxFilter, baVars>>
  BY DEF QueueBar, TxCompletion, BarSent, FwFrameSent
<1>2. /\ fwDesc' \in {"free", "queued", "sent"}
      /\ bar' \in {"none", "queued", "answered", "sent"}
      /\ queuedBar' = (IF bar' = "none" THEN 0 ELSE 1)
  BY DEF RxInv, RxTypeOK, BarCounted, QueueBar, TxCompletion, BarSent, FwFrameSent, txVars
<1>3. RxTypeOK' /\ BarsInOrder'
  BY <1>1, <1>2 DEF RxInv, RxTypeOK, BarsInOrder, baVars
<1> QED
  BY <1>2, <1>3 DEF RxInv, BarCounted

\* CARL9170_CMD_RX_FILTER and wol_prepare() set the filter, the upload engine takes a block.
LEMMA FilterKeeps ==
  ASSUME RxInv, UNCHANGED <<rxq, up, baVars, fwDesc, txVars>>, rxFilter' \subseteq FilterBits
  PROVE  RxInv'
BY DEF RxInv, RxTypeOK, BarsInOrder, BarCounted, baVars, txVars

LEMMA UploadKeeps ==
  ASSUME RxInv, Uploaded
  PROVE  RxInv'
<1>1. up' \in 0 .. NRX /\ Len(rxq) + up' <= NRX
  BY RxAssumption, LenProperties DEF RxInv, RxTypeOK, Uploaded
<1> QED
  BY <1>1 DEF RxInv, RxTypeOK, BarsInOrder, BarCounted, Uploaded, baVars, txVars

\* handle_wlan() begins a turn: what waits in rx_queue was there before it.
LEMMA TurnKeeps ==
  ASSUME RxInv, UNCHANGED <<up, rxFilter, baVars, fwDesc, txVars>>,
         rxq' = [i \in DOMAIN rxq |-> [rxq[i] EXCEPT !.late = FALSE]]
  PROVE  RxInv'
<1>1. rxq \in Seq(Frame) /\ DOMAIN rxq = 1 .. Len(rxq) /\ Len(rxq) \in Nat
  BY LenProperties DEF RxInv, RxTypeOK
<1>2. ASSUME NEW i \in DOMAIN rxq PROVE [rxq[i] EXCEPT !.late = FALSE] \in Frame
  <2>1. rxq[i] \in Frame
    BY <1>1, ElementOfSeq
  <2> QED
    BY <2>1 DEF Frame
<1>3. rxq' \in Seq(Frame) /\ Len(rxq') = Len(rxq)
  <2>1. rxq' \in [1 .. Len(rxq) -> Frame]
    BY <1>1, <1>2
  <2> QED
    BY <1>1, <2>1, IsASeq, LenProperties
<1> QED
  BY <1>3, QueueKeeps DEF RxInv, RxTypeOK, txVars

-----------------------------------------------------------------------------
(* The key memory *)

Job == [step : {"type", "mac", "key", "enable"}, user : Users, key : Keys, id : 0 .. 1]

\* What a set_key() under way has written, step by step.
JobWritten ==
  /\ job.step \in {"mac", "key", "enable"} => cam[TypePlace(job.user)] = job.key
  /\ job.step \in {"key", "enable"} => \A p \in MacPlaces(job.user) : cam[p] = job.key
  /\ job.step = "enable" => cam[KeyPlace(job.user, job.id)] = job.key

\* The user of a set_key() is out of use until it is through.
JobApart ==
  job # Idle => /\ job \in Job /\ job.user \notin rollCall
                /\ current[job.user] \in Job
                /\ current[job.user].key = job.key /\ current[job.user].id = job.id

CamInv ==
  /\ CamTypeOK /\ KeysWhole /\ JobApart
  /\ job # Idle => JobWritten
  /\ current \in [Users -> Job \cup {Idle}]
  /\ \A u \in rollCall : current[u] \in Job

-----------------------------------------------------------------------------
(* The rows of the key memory *)

LEMMA UserRange == \A u \in Users : u \in 0 .. 67
BY CamAssumption DEF PEERS

\* Where the entries of a user are: rows 24 to 26 hold the types, those below the
\* addresses, those above the keys.
LEMMA Rows ==
  ASSUME NEW u \in Users
  PROVE  /\ TypePlace(u) = IF u < 64 THEN <<24 + u \div 32, (u \div 8) % 4, u % 8>>
                                     ELSE <<26, 0, (u - 64) % 8>>
         /\ \A p \in MacPlaces(u) : u < 64 /\ \E i \in 0 .. 5 :
               p = <<(u \div 16) * 6 + i, (u \div 4) % 4, u % 4>>
         /\ \A k \in 0 .. 1 : KeyPlace(u, k) = <<27 + u * 2 + k>>
BY DEF TypePlace, MacPlaces, KeyPlace, Peer, PEERS, ENCRY_TYPE_START_ADDR,
       DEFAULT_ENCRY_TYPE, KEY_START_ADDR

\* Places of different shape or row are different.
LEMMA ShapesDiffer ==
  ASSUME NEW a, NEW b, NEW c, NEW d
  PROVE  <<a, b, c>> # <<d>>
<1>1. Len(<<a, b, c>>) = 3 /\ Len(<<d>>) = 1
  OBVIOUS
<1> QED
  BY <1>1

\* A type, an address and a key never share a place, whoever's they are.
LEMMA KindsApart ==
  ASSUME NEW u \in Users, NEW w \in Users, NEW k \in 0 .. 1
  PROVE  /\ TypePlace(u) \notin MacPlaces(w)
         /\ TypePlace(u) # KeyPlace(w, k)
         /\ KeyPlace(w, k) \notin MacPlaces(u)
<1>1. u \in 0 .. 67 /\ w \in 0 .. 67
  BY UserRange
<1>2. ASSUME NEW p \in MacPlaces(w) PROVE p # TypePlace(u)
  <2>1. PICK i \in 0 .. 5 : p = <<(w \div 16) * 6 + i, (w \div 4) % 4, w % 4>> /\ w < 64
    BY <1>2, Rows
  <2>2. (w \div 16) * 6 + i \in 0 .. 23
    BY <1>1, <2>1, SMTT(20)
  <2>3. p[1] \in 0 .. 23
    BY <2>1, <2>2
  <2>4. TypePlace(u)[1] >= 24 /\ TypePlace(u)[1] \in Nat
    BY <1>1, Rows, SMTT(30)
  <2> QED
    BY <2>3, <2>4
<1>3. TypePlace(u) # KeyPlace(w, k)
  BY Rows, ShapesDiffer
<1>4. ASSUME NEW p \in MacPlaces(u) PROVE p # KeyPlace(w, k)
  BY <1>4, Rows, ShapesDiffer
<1> QED
  BY <1>2, <1>3, <1>4

\* Different users share no place, if one of them is a peer.
LEMMA UsersApart ==
  ASSUME NEW u \in Users, NEW w \in Users, u # w, Peer(u),
         NEW k \in 0 .. 1, NEW l \in 0 .. 1
  PROVE  /\ TypePlace(u) # TypePlace(w)
         /\ KeyPlace(u, k) # KeyPlace(w, l)
         /\ MacPlaces(u) \cap MacPlaces(w) = {}
<1>1. u \in 0 .. 63 /\ w \in 0 .. 67
  BY UserRange DEF Peer, PEERS
<1>2. TypePlace(u) # TypePlace(w)
  <2>1. CASE w < 64
    <3>1. ~(u \div 32 = w \div 32 /\ (u \div 8) % 4 = (w \div 8) % 4 /\ u % 8 = w % 8)
      BY <1>1, SMTT(20)
    <3>2. /\ TypePlace(u) = <<24 + u \div 32, (u \div 8) % 4, u % 8>>
          /\ TypePlace(w) = <<24 + w \div 32, (w \div 8) % 4, w % 8>>
      BY <1>1, <2>1, Rows
    <3> QED
      BY <1>1, <3>1, <3>2
  <2>2. CASE w >= 64
    <3>1. TypePlace(u)[1] = 24 + u \div 32 /\ TypePlace(w)[1] = 26
      BY <1>1, <2>2, Rows
    <3>2. u \div 32 \in 0 .. 1
      BY <1>1, SMTT(20)
    <3> QED
      BY <3>1, <3>2
  <2> QED
    BY <1>1, <2>1, <2>2
<1>3. KeyPlace(u, k) # KeyPlace(w, l)
  <2>1. KeyPlace(u, k)[1] = 27 + u * 2 + k /\ KeyPlace(w, l)[1] = 27 + w * 2 + l
    <3>1. KeyPlace(u, k) = <<27 + u * 2 + k>> /\ KeyPlace(w, l) = <<27 + w * 2 + l>>
      BY Rows
    <3> QED
      BY <3>1
  <2> QED
    BY <1>1, <2>1
<1>4. ASSUME NEW p \in MacPlaces(u), p \in MacPlaces(w) PROVE FALSE
  <2>1. PICK i \in 0 .. 5 : p = <<(u \div 16) * 6 + i, (u \div 4) % 4, u % 4>>
    BY <1>4, Rows
  <2>2. PICK j \in 0 .. 5 : p = <<(w \div 16) * 6 + j, (w \div 4) % 4, w % 4>> /\ w < 64
    BY <1>4, Rows
  <2>3. /\ (u \div 16) * 6 + i = (w \div 16) * 6 + j
        /\ (u \div 4) % 4 = (w \div 4) % 4 /\ u % 4 = w % 4
    BY <2>1, <2>2
  <2>4. u \div 16 = w \div 16
    BY <1>1, <2>2, <2>3, SMTT(20)
  <2> QED
    BY <1>1, <2>2, <2>3, <2>4, SMTT(20)
<1> QED
  BY <1>2, <1>3, <1>4

LEMMA PlacesIn ==
  ASSUME NEW u \in Users, NEW k \in 0 .. 1
  PROVE  {TypePlace(u), KeyPlace(u, k)} \cup MacPlaces(u) \subseteq Places
<1>1. k = 0 \/ k = 1
  OBVIOUS
<1> QED
  BY <1>1 DEF Places

-----------------------------------------------------------------------------
(* The steps *)

LEMMA CamStart == CamInit => CamInv
BY DEF CamInit, CamInv, CamTypeOK, KeysWhole, JobApart, Idle

LEMMA CamStutter ==
  ASSUME CamInv, UNCHANGED camVars
  PROVE  CamInv'
BY DEF CamInv, CamTypeOK, KeysWhole, JobApart, JobWritten, camVars

LEMMA SetKeyKeeps ==
  ASSUME CamInv, NEW u \in Users, NEW key \in Keys, NEW id \in 0 .. 1, SetKey(u, key, id)
  PROVE  CamInv'
<1>1. /\ rollCall' = rollCall \ Roll(u) /\ cam' = cam
      /\ job' = [step |-> "type", user |-> u, key |-> key, id |-> id]
      /\ current' = [current EXCEPT ![u] = job']
  BY DEF SetKey, DisableFirst
<1>2. job' \in Job /\ job'.step = "type" /\ job'.user = u /\ job'.key = key /\ job'.id = id
  BY <1>1 DEF Job
<1>3. u \notin rollCall' /\ rollCall' \subseteq rollCall
  <2>1. u \in 0 .. 67 /\ \A w \in rollCall : w < 64
    BY UserRange DEF PEERS, CamInv, CamTypeOK, Peer
  <2>2. ASSUME u \in rollCall PROVE u \in Roll(u)
    <3>1. u \in 0 .. PEERS - 1
      BY <2>1, <2>2 DEF PEERS
    <3> QED
      BY <3>1 DEF Roll
  <2> QED
    BY <1>1, <2>2
<1>4. current' \in [Users -> Job \cup {Idle}] /\ current'[u] = job'
      /\ \A w \in Users : w # u => current'[w] = current[w]
  BY <1>1, <1>2 DEF CamInv
<1>5. CamTypeOK' /\ JobApart' /\ JobWritten'
  BY <1>1, <1>2, <1>3, <1>4 DEF CamInv, CamTypeOK, JobApart, JobWritten
<1>6. KeysWhole' /\ \A w \in rollCall' : current'[w] \in Job
  BY <1>1, <1>3, <1>4 DEF CamInv, CamTypeOK, KeysWhole
<1> QED
  BY <1>4, <1>5, <1>6 DEF CamInv

LEMMA DisableKeyKeeps ==
  ASSUME CamInv, NEW u \in Users, DisableKey(u)
  PROVE  CamInv'
BY DEF CamInv, CamTypeOK, KeysWhole, JobApart, JobWritten, DisableKey

\* What is written at the places of the user of a job concerns no user in use.
LEMMA StoreKeepsOthers ==
  ASSUME CamInv, job # Idle, NEW P \in SUBSET Places, Store(P, job.key), UNCHANGED <<rollCall, current>>,
         \/ P = {TypePlace(job.user)} \/ P = MacPlaces(job.user)
         \/ P = {KeyPlace(job.user, job.id)}
  PROVE  /\ cam' \in [Places -> Keys \cup {0}]
         /\ \A p \in Places : cam'[p] = IF p \in P THEN job.key ELSE cam[p]
         /\ KeysWhole'
<1>1. job \in Job /\ job.user \in Users /\ job.user \notin rollCall /\ job.key \in Keys /\ job.id \in 0 .. 1
  BY DEF CamInv, JobApart, Job
<1>2. /\ cam' \in [Places -> Keys \cup {0}]
      /\ \A p \in Places : cam'[p] = IF p \in P THEN job.key ELSE cam[p]
  BY <1>1 DEF Store, CamInv, CamTypeOK
<1>3. ASSUME NEW u \in rollCall,
             NEW p \in {TypePlace(u), KeyPlace(u, current[u].id)} \cup MacPlaces(u)
      PROVE  cam'[p] = current[u].key
  <2>1. u \in Users /\ Peer(u) /\ u # job.user /\ current[u].id \in 0 .. 1
    BY <1>1 DEF CamInv, CamTypeOK, Job
  <2>2. p \in Places
    BY <2>1, PlacesIn
  <2>3. cam[p] = current[u].key
    BY DEF CamInv, KeysWhole
  <2>4. p \notin P
    BY <1>1, <2>1, KindsApart, UsersApart
  <2> QED
    BY <1>2, <2>2, <2>3, <2>4
<1> QED
  BY <1>2, <1>3 DEF KeysWhole

LEMMA CamStepKeeps ==
  ASSUME CamInv, CamStep
  PROVE  CamInv'
<1>1. job # Idle
  BY DEF CamStep, SetType, SetMac, SetKey128, EnableUser, Idle
<1>2. /\ job \in Job /\ job.user \in Users /\ job.user \notin rollCall
      /\ job.key \in Keys /\ job.id \in 0 .. 1
      /\ current[job.user].key = job.key /\ current[job.user].id = job.id
      /\ current \in [Users -> Job \cup {Idle}] /\ \A u \in rollCall : current[u] \in Job
      /\ JobWritten /\ KeysWhole
  BY <1>1 DEF CamInv, JobApart, Job
<1>3. /\ {TypePlace(job.user), KeyPlace(job.user, job.id)} \cup MacPlaces(job.user) \subseteq Places
      /\ TypePlace(job.user) \notin MacPlaces(job.user)
      /\ TypePlace(job.user) # KeyPlace(job.user, job.id)
      /\ KeyPlace(job.user, job.id) \notin MacPlaces(job.user)
  BY <1>2, PlacesIn, KindsApart
<1>4. ASSUME NEW s \in {"mac", "key", "enable"}, Goto(s)
      PROVE  /\ job' \in Job /\ job'.step = s /\ job' # Idle
             /\ job'.user = job.user /\ job'.key = job.key /\ job'.id = job.id
  <2>1. job' = [job EXCEPT !.step = s]
    BY <1>4 DEF Goto
  <2>2. job' \in Job /\ job'.step = s /\ job'.user = job.user /\ job'.key = job.key /\ job'.id = job.id
    BY <1>2, <2>1 DEF Job
  <2>3. job' # Idle
    BY <2>2 DEF Idle
  <2> QED
    BY <2>2, <2>3
<1>5. CASE SetType
  <2>1. /\ job.step = "type" /\ Store({TypePlace(job.user)}, job.key) /\ Goto("mac")
        /\ UNCHANGED <<rollCall, current>>
    BY <1>5 DEF SetType
  <2>2. /\ cam' \in [Places -> Keys \cup {0}] /\ KeysWhole' /\ cam'[TypePlace(job.user)] = job.key
    BY <1>1, <1>3, <2>1, StoreKeepsOthers
  <2>3. JobWritten' /\ JobApart' /\ CamTypeOK'
    BY <1>2, <1>4, <2>1, <2>2 DEF JobWritten, JobApart, CamInv, CamTypeOK
  <2> QED
    BY <1>2, <2>1, <2>2, <2>3 DEF CamInv
<1>6. CASE SetMac
  <2>1. /\ job.step = "mac" /\ Store(MacPlaces(job.user), job.key) /\ Goto("key")
        /\ UNCHANGED <<rollCall, current>>
    BY <1>6 DEF SetMac
  <2>2. /\ cam' \in [Places -> Keys \cup {0}] /\ KeysWhole' /\ cam'[TypePlace(job.user)] = job.key
        /\ \A p \in MacPlaces(job.user) : cam'[p] = job.key
    BY <1>1, <1>2, <1>3, <2>1, StoreKeepsOthers DEF JobWritten
  <2>3. JobWritten' /\ JobApart' /\ CamTypeOK'
    BY <1>2, <1>4, <2>1, <2>2 DEF JobWritten, JobApart, CamInv, CamTypeOK
  <2> QED
    BY <1>2, <2>1, <2>2, <2>3 DEF CamInv
<1>7. CASE SetKey128
  <2>1. /\ job.step = "key" /\ Store({KeyPlace(job.user, job.id)}, job.key) /\ Goto("enable")
        /\ UNCHANGED <<rollCall, current>>
    BY <1>7 DEF SetKey128
  <2>2. /\ cam' \in [Places -> Keys \cup {0}] /\ KeysWhole' /\ cam'[TypePlace(job.user)] = job.key
        /\ \A p \in MacPlaces(job.user) : cam'[p] = job.key
        /\ cam'[KeyPlace(job.user, job.id)] = job.key
    BY <1>1, <1>2, <1>3, <2>1, StoreKeepsOthers DEF JobWritten
  <2>3. JobWritten' /\ JobApart' /\ CamTypeOK'
    BY <1>2, <1>4, <2>1, <2>2 DEF JobWritten, JobApart, CamInv, CamTypeOK
  <2> QED
    BY <1>2, <2>1, <2>2, <2>3 DEF CamInv
<1>8. CASE EnableUser
  <2>1. /\ job.step = "enable" /\ rollCall' = rollCall \cup Roll(job.user)
        /\ job' = Idle /\ UNCHANGED <<cam, current>>
    BY <1>8 DEF EnableUser
  <2>2. \A u \in rollCall' : u \in rollCall \/ u = job.user
    BY <2>1 DEF Roll
  <2>3. rollCall' \subseteq {u \in Users : Peer(u)}
    BY <1>2, <2>1 DEF Roll, Peer, PEERS, CamInv, CamTypeOK
  <2>4. CamTypeOK' /\ JobApart'
    BY <2>1, <2>3 DEF CamInv, CamTypeOK, JobApart, Idle
  <2>5. /\ cam[TypePlace(job.user)] = job.key /\ cam[KeyPlace(job.user, job.id)] = job.key
        /\ \A p \in MacPlaces(job.user) : cam[p] = job.key
    BY <1>2, <2>1 DEF JobWritten
  <2>6. KeysWhole'
    BY <1>2, <2>1, <2>2, <2>5 DEF KeysWhole
  <2>7. current[job.user] \in Job
    BY <1>1 DEF CamInv, JobApart
  <2> QED
    BY <1>2, <2>1, <2>2, <2>4, <2>6, <2>7 DEF CamInv
<1> QED
  BY <1>5, <1>6, <1>7, <1>8 DEF CamStep

-----------------------------------------------------------------------------
(* The invariant, one part for each component and two for what they share *)

\* The count of PRETBTTs left is the one the host's command leaves.
RadioInv == RadioTypeOK /\ SleepEnds /\ psm = wakeIn /\ (asleep => psm > 0 \/ endless)

\* The MAC took the queued frames it has not marked for ours: by the address it had when
\* they came.
Unmarked ==
  \A i \in DOMAIN rxq : "WRONG_RA" \notin rxq[i].err =>
    rxq[i].to \in IF macReg = Zero /\ i > before THEN {Everyone, Zero}
                                                ELSE {Everyone, Own, Zero}

\* No action of the endpoint is left over for the next interrupt.
UsbInv ==
  /\ UsbTypeOK /\ address \in [addr : 0 .. 127, configured : BOOLEAN]
  /\ ep0Action = {} /\ WakeupAgrees /\ RequestsAnswered

WolInv ==
  /\ WolTypeOK /\ wolCmd \in [flags : SUBSET WolFlags, mac : {Zero}, bssid : {Zero}]
  /\ macReg \in {Own, Zero}
  /\ macReg = Zero => (wakeUp /\ Suspended => trigger) /\ lastBeacon <= sleeping

LoopTypeOK ==
  /\ part \in Parts
  /\ pc \in {"fw", "wlan", "rx", "txc", "janitor", "host", "cmd", "cam", "ep0", "usb",
            "resume", "timer", "rom"}
  /\ intr \subseteq {"RXC", "TXC", "PRETBTT"} /\ seen \subseteq {"RXC", "TXC", "PRETBTT"}
  /\ bus \in {"active", "suspended"} /\ events \subseteq {"RESET", "SUSPEND", "RESUME"}
  /\ clock \in BOOLEAN /\ wdog \in BOOLEAN /\ reboot \in BOOLEAN /\ stuck \in BOOLEAN
  /\ magic \in {"1234", "9876"}
  /\ pin \in 0 .. 1 /\ cachedPin \in 0 .. 1

\* What waits in rx_queue outside of its handler has left its bit; what waits in the
\* completion handler, which comes after it, arrived late.
RxBeforeTxc ==
  /\ pc # "rx" /\ rxq # <<>> => "RXC" \in intr
  /\ pc = "txc" => \A i \in DOMAIN rxq : rxq[i].ans => rxq[i].late

\* The bus and the suspend mode.  While the firmware takes the host for asleep, the
\* bus sleeps, or a RESUME or RESET is on its way to the handler; and if it works in a
\* sleeping bus, the host allowed it to wake it and the MAC has no address.
Leaving == pc \in {"resume", "rom"}
BusInv ==
  /\ ~clock => bus = "suspended"
  /\ wakeUp => suspendMode # "HOST_AWAKE" \/ pc = "rom"
  /\ "SUSPEND" \in events /\ bus = "active" /\ pc # "rom" => events \cap {"RESET", "RESUME"} # {}
  /\ suspendMode # "HOST_AWAKE" /\ ~Leaving =>
       /\ "SUSPEND" \notin events
       /\ bus = "active" => events \cap {"RESET", "RESUME"} # {}
       /\ bus = "suspended" /\ clock => REMOTE_WAKEUP \in feature /\ macReg = Zero

\* The loop hangs nowhere else.
HangsInCam == stuck => pc \in {"cam", "rom"}

IInv == /\ RxInv /\ RadioInv /\ UsbInv /\ CamInv /\ WolInv /\ Unmarked
        /\ LoopTypeOK /\ HangsInCam /\ RxBeforeTxc /\ BusInv /\ Guarded

LEMMA InvImplies == IInv => Consistent
BY DEF IInv, RxInv, RadioInv, UsbInv, CamInv, WolInv, LoopTypeOK, Consistent, TypeOK

LEMMA InitInv == Init => IInv
<1> SUFFICES ASSUME Init PROVE IInv
  OBVIOUS
<1>1. RxInv /\ CamInv
  BY RxStart, CamStart DEF Init
<1>2. RadioInv
  <2>0. MaxPsm \in Nat
    BY RadioAssumption
  <2>1. RadioInit
    BY DEF Init
  <2>2. /\ psm = 0 /\ wakeIn = 0 /\ asleep = FALSE /\ phyOn = FALSE /\ held = FALSE
        /\ endless = FALSE /\ wasOn = FALSE
    BY <2>1 DEF RadioInit
  <2>3. RadioTypeOK
    <3>1. phyOn \in BOOLEAN /\ asleep \in BOOLEAN /\ held \in BOOLEAN /\ endless \in BOOLEAN
          /\ wasOn \in BOOLEAN
      BY <2>2
    <3>2. psm \in 0 .. MaxPsm /\ wakeIn \in 0 .. MaxPsm
      BY <2>0, <2>2
    <3> QED
      BY <3>1, <3>2 DEF RadioTypeOK
  <2> QED
    BY <2>2, <2>3, Zenon DEF RadioInv, SleepEnds
<1>3. UsbInv
  <2>1. UsbInit
    BY DEF Init
  <2>2. address \in [addr : 0 .. 127, configured : BOOLEAN]
    BY <2>1 DEF UsbInit
  <2>3. feature = {0} /\ {0} \subseteq 0 .. 7
    BY <2>1 DEF UsbInit, REMOTE_WAKEUP
  <2>4. /\ config = 1 /\ wakeupReg = TRUE /\ stalled = {} /\ ep0Action = {} /\ answer = {}
        /\ asked = FALSE
    BY <2>1 DEF UsbInit
  <2>5. UsbTypeOK
    <3>1. wakeupReg \in BOOLEAN /\ address.addr \in 0 .. 127 /\ address.configured \in BOOLEAN
      BY <2>2, <2>4
    <3> QED
      BY <2>3, <2>4, <3>1 DEF UsbTypeOK
  <2>6. WakeupAgrees
    BY <2>3, <2>4 DEF WakeupAgrees, REMOTE_WAKEUP
  <2> QED
    BY <2>2, <2>4, <2>5, <2>6, Zenon DEF UsbInv, RequestsAnswered
<1>4. WolInv
  <2>1. WolInit /\ Ap \in Stations
    BY WolAssumption DEF Init
  <2>2. wolCmd \in [flags : SUBSET WolFlags, mac : {Zero}, bssid : {Zero}]
        /\ wolCmd.flags = {} /\ wolCmd.bssid = Zero /\ wolCmd.mac = Zero
    BY <2>1 DEF WolInit
  <2>3. /\ suspendMode = "HOST_AWAKE" /\ wakeUp = FALSE /\ wakeReg = FALSE /\ trigger = FALSE
        /\ bssidReg = Ap /\ lastBeacon \in 0 .. Lost /\ heard \in 0 .. Lost
        /\ macReg = Own /\ sleeping \in 0 .. Lost /\ before = 0
    BY <2>1 DEF WolInit, Lost
  <2>4. macReg # Zero /\ macReg \in Addresses /\ Zero \in Addresses /\ before \in 0 .. NRX
    BY <2>3, RxAssumption DEF Addresses
  <2> QED
    BY <2>1, <2>2, <2>3, <2>4 DEF WolInv, WolTypeOK, Suspended
<1>5. LoopTypeOK
  <2>1. /\ part \in Parts /\ pc = "fw" /\ intr = {} /\ seen = {} /\ bus = "active" /\ events = {}
        /\ magic = "1234" /\ pin = 0 /\ cachedPin = 0
    BY DEF Init
  <2>2. clock \in BOOLEAN /\ wdog \in BOOLEAN /\ reboot \in BOOLEAN /\ stuck \in BOOLEAN
    BY DEF Init
  <2> QED
    BY <2>1, <2>2 DEF LoopTypeOK
<1>6. RxBeforeTxc /\ BusInv /\ Guarded /\ HangsInCam /\ Unmarked
  <2>1. pc = "fw" /\ rxq = <<>> /\ clock = TRUE /\ suspendMode = "HOST_AWAKE" /\ wakeUp = FALSE
        /\ events = {} /\ stuck = FALSE
    BY DEF Init, RxInit, WolInit
  <2> QED
    BY <2>1 DEF RxBeforeTxc, BusInv, Guarded, Leaving, HangsInCam, Unmarked
<1> QED
  BY <1>1, <1>2, <1>3, <1>4, <1>5, <1>6 DEF IInv

-----------------------------------------------------------------------------
(* Radio and control endpoint *)

\* What rf_psm() does, case by case.
LEMMA PsmCases ==
  ASSUME NEW n \in Nat, NEW sleep \in BOOLEAN, RfPsm(n, sleep), phyOn \in BOOLEAN
  PROVE  \/ ~sleep /\ n = 0 /\ psm' = 0 /\ phyOn' = phyOn /\ asleep' = asleep
         \/ sleep /\ psm' = n /\ asleep' = TRUE /\ phyOn' = FALSE
         \/ ~sleep /\ n = 1 /\ psm' = n - 1 /\ asleep' = FALSE /\ phyOn' = TRUE
         \/ ~sleep /\ n > 1 /\ psm' = n - 1 /\ asleep' = asleep /\ phyOn' = phyOn
<1>1. CASE ~sleep /\ n = 0 /\ psm' = 0 /\ UNCHANGED <<phyOn, asleep>>
  BY <1>1, Zenon
<1>2. CASE sleep /\ psm' = n /\ asleep' = TRUE /\ phyOn' = FALSE
  BY <1>2, Zenon
<1>3. CASE /\ ~sleep /\ n > 0 /\ psm' = n - 1
           /\ asleep' = IF Wakes(n) THEN FALSE ELSE asleep
           /\ phyOn' = (phyOn \/ Wakes(n))
  <2>1. CASE Wakes(n)
    <3>1. n = 1
      BY <2>1 DEF Wakes
    <3>2. asleep' = FALSE /\ phyOn' = TRUE
      BY <1>3, <2>1, Zenon
    <3> QED
      BY <1>3, <3>1, <3>2, Zenon
  <2>2. CASE ~Wakes(n)
    <3>0. n > 0
      BY <1>3, Zenon
    <3>1. n > 1
      BY <3>0, <2>2 DEF Wakes
    <3>2. asleep' = asleep /\ phyOn' = phyOn
      BY <1>3, <2>2, Zenon
    <3> QED
      BY <1>3, <3>1, <3>2, Zenon
  <2> QED
    BY <2>1, <2>2
<1> QED
  BY <1>1, <1>2, <1>3, Zenon DEF RfPsm

LEMMA RadioKeeps ==
  ASSUME RadioInv,
         \/ Pretbtt \/ NotifySetChannel \/ RfCmd \/ UNCHANGED radioVars
         \/ \E n \in 0 .. MaxPsm, sleep \in BOOLEAN : PsmCmd(n, sleep)
  PROVE  RadioInv'
<1>0. MaxPsm \in Nat /\ psm \in 0 .. MaxPsm /\ psm = wakeIn
  BY RadioAssumption DEF RadioInv, RadioTypeOK
<1>1. ASSUME NEW n \in 0 .. MaxPsm, NEW sleep \in BOOLEAN, RfPsm(n, sleep),
             wakeIn' = IF sleep \/ n = 0 THEN n ELSE n - 1, held' = held, endless' \in BOOLEAN,
             wasOn' = (wasOn \/ phyOn'),
             n = 0 => endless' \/ (n = psm /\ ~sleep /\ endless' = endless)
      PROVE  RadioInv'
  <2>0. /\ phyOn \in BOOLEAN /\ asleep \in BOOLEAN /\ held \in BOOLEAN /\ wasOn \in BOOLEAN
        /\ asleep => psm > 0 \/ endless
        /\ wasOn /\ ~phyOn => asleep \/ held
    BY DEF RadioInv, RadioTypeOK, SleepEnds
  <2>6. wasOn' \in BOOLEAN /\ (wasOn' /\ ~phyOn' => wasOn)
    BY <1>1, <2>0, Zenon
  <2>1. n \in Nat /\ (sleep \/ n = 0 \/ n - 1 \in 0 .. MaxPsm)
    BY <1>0
  <2>2. CASE ~sleep /\ n = 0 /\ psm' = 0 /\ phyOn' = phyOn /\ asleep' = asleep
    <3>1. psm' = wakeIn' /\ psm' \in 0 .. MaxPsm
      BY <1>0, <1>1, <2>2
    <3>2. ~(psm > 0) \/ endless'
      BY <1>0, <1>1, <2>2
    <3>3. asleep' => endless'
      BY <1>1, <2>0, <2>2, <3>2
    <3> QED
      BY <1>1, <2>0, <2>6, <2>2, <3>1, <3>3 DEF RadioInv, RadioTypeOK, SleepEnds
  <2>3. CASE sleep /\ psm' = n /\ asleep' = TRUE /\ phyOn' = FALSE
    <3>1. psm' = wakeIn' /\ psm' \in 0 .. MaxPsm
      BY <1>1, <2>3
    <3>2. psm' > 0 \/ endless'
      BY <1>1, <2>1, <2>3
    <3> QED
      BY <1>1, <2>0, <2>6, <2>3, <3>1, <3>2 DEF RadioInv, RadioTypeOK, SleepEnds
  <2>4. CASE ~sleep /\ n = 1 /\ psm' = n - 1 /\ asleep' = FALSE /\ phyOn' = TRUE
    <3>1. psm' = wakeIn' /\ psm' \in 0 .. MaxPsm
      BY <1>0, <1>1, <2>4
    <3> QED
      BY <1>1, <2>0, <2>6, <2>4, <3>1 DEF RadioInv, RadioTypeOK, SleepEnds
  <2>5. CASE ~sleep /\ n > 1 /\ psm' = n - 1 /\ asleep' = asleep /\ phyOn' = phyOn
    <3>1. psm' = wakeIn' /\ psm' \in 0 .. MaxPsm /\ psm' > 0
      BY <1>0, <1>1, <2>5
    <3> QED
      BY <1>1, <2>0, <2>6, <2>5, <3>1 DEF RadioInv, RadioTypeOK, SleepEnds
  <2> QED
    BY <1>1, <2>0, <2>1, <2>2, <2>3, <2>4, <2>5, PsmCases
<1>2. CASE Pretbtt
  <2>1. /\ RfPsm(psm, FALSE) /\ wakeIn' = (IF psm > 0 THEN psm - 1 ELSE 0)
        /\ held' = held /\ endless' = endless /\ wasOn' = (wasOn \/ phyOn')
    BY <1>0, <1>2, Zenon DEF Pretbtt
  <2>2. endless \in BOOLEAN
    BY DEF RadioInv, RadioTypeOK
  <2>3. wakeIn' = IF FALSE \/ psm = 0 THEN psm ELSE psm - 1
    BY <1>0, <2>1
  <2>4. FALSE \in BOOLEAN /\ endless' \in BOOLEAN /\ psm \in 0 .. MaxPsm
    BY <1>0, <2>1, <2>2
  <2> QED
    BY <1>1, <2>1, <2>3, <2>4, Zenon
<1>3. CASE NotifySetChannel \/ RfCmd \/ UNCHANGED radioVars
  <2>1. /\ psm' = psm /\ asleep' = asleep /\ wakeIn' = wakeIn /\ endless' = endless
        /\ \/ held' = TRUE /\ phyOn' = FALSE /\ wasOn' = wasOn
           \/ held' = FALSE /\ phyOn' = TRUE /\ wasOn' = TRUE
           \/ held' = held /\ phyOn' = phyOn /\ wasOn' = wasOn
    BY <1>3 DEF NotifySetChannel, RfCmd, radioVars
  <2>2. /\ wasOn' /\ ~phyOn' => asleep' \/ held'
        /\ phyOn' \in BOOLEAN /\ held' \in BOOLEAN /\ wasOn' \in BOOLEAN
    <3>1. CASE held' = TRUE /\ wasOn' = wasOn /\ phyOn' = FALSE
      BY <3>1, Zenon DEF RadioInv, RadioTypeOK
    <3>2. CASE held' = FALSE /\ phyOn' = TRUE /\ wasOn' = TRUE
      BY <3>2, Zenon
    <3>3. CASE held' = held /\ phyOn' = phyOn /\ wasOn' = wasOn
      BY <2>1, <3>3, Zenon DEF RadioInv, RadioTypeOK, SleepEnds
    <3> QED
      BY <2>1, <3>1, <3>2, <3>3, Zenon
  <2> QED
    BY <2>1, <2>2 DEF RadioInv, RadioTypeOK, SleepEnds
<1>4. ASSUME NEW n \in 0 .. MaxPsm, NEW sleep \in BOOLEAN, PsmCmd(n, sleep)
      PROVE  RadioInv'
  <2>1. /\ RfPsm(n, sleep) /\ wakeIn' = (IF sleep \/ n = 0 THEN n ELSE n - 1)
        /\ held' = held /\ endless' = (n = 0) /\ wasOn' = (wasOn \/ phyOn')
    BY <1>4, Zenon DEF PsmCmd
  <2> QED
    BY <1>1, <2>1, Zenon
<1> QED
  BY <1>2, <1>3, <1>4

\* A request is answered once: by a stall if it is refused, or else by the handshake.
LEMMA AnsweredOnce ==
  ASSUME NEW r, NEW l, l \cap {"FAIL", "END"} = {}
  PROVE  Cardinality(Written(ActionOf(r), l)) = 1
<1>1. Written(ActionOf(r), l) \in {{"STALL"}, {"DONE"}}
  BY DEF Written, ActionOf, StallFor
<1> QED
  BY <1>1, FS_Singleton

LEMMA SetupKeeps ==
  ASSUME UsbInv, NEW r \in Setups, Setup(r)
  PROVE  /\ config' \in 0 .. 1 /\ address' \in [addr : 0 .. 127, configured : BOOLEAN]
         /\ feature' \subseteq 0 .. 7 /\ wakeupReg' \in BOOLEAN
         /\ stalled' \subseteq {"in", "out"} \X (1 .. 4) /\ WakeupAgrees'
<1>0. /\ config \in 0 .. 1 /\ address \in [addr : 0 .. 127, configured : BOOLEAN]
      /\ feature \subseteq 0 .. 7 /\ wakeupReg \in BOOLEAN
      /\ stalled \subseteq {"in", "out"} \X (1 .. 4) /\ WakeupAgrees
  BY DEF UsbInv, UsbTypeOK
<1>1. CASE UNCHANGED usbState
  BY <1>0, <1>1 DEF usbState, WakeupAgrees
<1>2. CASE ConfigOk(r) /\ SetConfiguration(r)
  BY <1>0, <1>2 DEF ConfigOk, SetConfiguration, WakeupAgrees
<1>3. CASE AddressOk(r) /\ SetAddress(r)
  <2>1. r.value \in 0 .. 127
    BY <1>3, SetupAssumption DEF AddressOk
  <2> QED
    BY <1>0, <1>3, <2>1 DEF SetAddress, WakeupAgrees
<1>4. CASE FeatureOk(r) /\ ManipulateFeature(r)
  <2>1. UNCHANGED <<config, address>>
    BY <1>4 DEF ManipulateFeature
  <2>2. CASE r.recip = "device"
    <3>1. /\ feature' = (IF r.req = "SET_FEATURE" THEN feature \cup Bits(r.value)
                                                 ELSE feature \ Bits(r.value))
          /\ wakeupReg' = (IF REMOTE_WAKEUP \in Bits(r.value) THEN r.req = "SET_FEATURE" ELSE wakeupReg)
          /\ stalled' = stalled
      BY <1>4, <2>2 DEF ManipulateFeature, Switched
    <3>2. Bits(r.value) \subseteq 0 .. 7
      BY DEF Bits
    <3>3. feature' \subseteq 0 .. 7
      BY <1>0, <3>1, <3>2
    <3>4. wakeupReg' \in BOOLEAN
      BY <1>0, <3>1
    <3>5. WakeupAgrees'
      BY <1>0, <3>1 DEF WakeupAgrees
    <3> QED
      BY <1>0, <2>1, <3>1, <3>3, <3>4, <3>5
  <2>3. CASE r.recip # "device"
    <3>1. /\ stalled' = (IF r.req = "SET_FEATURE" THEN stalled \cup {<<r.side, r.ep>>}
                                                 ELSE stalled \ {<<r.side, r.ep>>})
          /\ UNCHANGED <<feature, wakeupReg>>
      BY <1>4, <2>3 DEF ManipulateFeature
    <3>2. r.ep \in 1 .. 4 /\ r.side \in {"in", "out"}
      BY <1>4, <2>3, SetupAssumption DEF FeatureOk
    <3> QED
      BY <1>0, <2>1, <3>1, <3>2 DEF WakeupAgrees
  <2> QED
    BY <2>2, <2>3
<1> QED
  BY <1>1, <1>2, <1>3, <1>4 DEF Setup

LEMMA Ep0Keeps ==
  ASSUME UsbInv,
         \/ UNCHANGED usbVars
         \/ \E r \in Setups, l \in {{}, {"END"}, {"IN"}, {"FAIL"}} : Ep0Setup(r, l)
         \/ \E l \in {{"END"}, {"FAIL"}, {"OUT"}} : Ep0Other(l)
  PROVE  UsbInv'
<1>1. CASE UNCHANGED usbVars
  BY <1>1 DEF usbVars, UsbInv, UsbTypeOK, WakeupAgrees, RequestsAnswered
<1>2. ASSUME NEW r \in Setups, NEW l \in {{}, {"END"}, {"IN"}, {"FAIL"}}, Ep0Setup(r, l)
      PROVE  UsbInv'
  <2>1. /\ Setup(r) /\ answer' = Written(ActionOf(r), l) /\ ep0Action' = {}
        /\ asked' = (l \cap {"FAIL", "END"} = {})
    BY <1>2 DEF Ep0Setup, UsbInv
  <2>2. answer' \subseteq {"STALL", "DONE"}
    BY <2>1 DEF Written
  <2>3. RequestsAnswered'
    BY <2>1, AnsweredOnce DEF RequestsAnswered
  <2> QED
    BY <2>1, <2>2, <2>3, SetupKeeps DEF UsbInv, UsbTypeOK
<1>3. ASSUME NEW l \in {{"END"}, {"FAIL"}, {"OUT"}}, Ep0Other(l)
      PROVE  UsbInv'
  BY <1>3 DEF Ep0Other, Written, usbState, UsbInv, UsbTypeOK, WakeupAgrees, RequestsAnswered
<1> QED
  BY <1>1, <1>2, <1>3

-----------------------------------------------------------------------------
(* Wake on WLAN *)

LEMMA WolStutter ==
  ASSUME WolInv, UNCHANGED wolVars
  PROVE  WolInv'
BY DEF WolInv, WolTypeOK, Suspended, wolVars

\* A frame that makes the filter ask for a wake-up summons the host: the filter sees
\* neither damaged frames nor, for a farewell, those the MAC has marked.
LEMMA WakeIsTriggered ==
  ASSUME NEW f \in Frame, ~Damaged(f), Disconnects(f) \/ FindsMagic(f), macReg = Zero,
         "WRONG_RA" \notin f.err =>
           f.to \in IF before > 0 THEN {Everyone, Own, Zero} ELSE {Everyone, Zero}
  PROVE  Summons(f)
<1>1. CASE Disconnects(f)
  <2>1. Armed("DISCONNECT") /\ "OTHER_RA" \notin FilterOf(f) /\ Parting(f)
    BY <1>1 DEF Disconnects
  <2>2. "WRONG_RA" \notin f.err
    BY <2>1 DEF FilterOf
  <2> QED
    BY <2>1, <2>2 DEF Summons
<1>2. CASE FindsMagic(f)
  BY <1>2 DEF FindsMagic, Summons
<1> QED
  BY <1>1, <1>2

LEMMA WolRxKeeps ==
  ASSUME WolInv, NEW f \in Frame, WolRx(f),
         "WRONG_RA" \notin f.err =>
           f.to \in IF macReg = Zero /\ 1 > before THEN {Everyone, Zero} ELSE {Everyone, Own, Zero}
  PROVE  WolInv'
<1>0. NRX \in Nat /\ before \in 0 .. NRX
  BY RxAssumption DEF WolInv, WolTypeOK
<1>3. before' \in 0 .. NRX
  <2>1. before' = IF before > 0 THEN before - 1 ELSE 0
    BY DEF WolRx
  <2> QED
    BY <1>0, <2>1
<1>1. CASE UNCHANGED <<suspendMode, wolCmd, wakeUp, macReg, bssidReg, lastBeacon, wakeReg,
                       heard, sleeping, trigger>>
  BY <1>1, <1>3 DEF WolInv, WolTypeOK, Suspended
<1>2. CASE Suspended /\ ~Damaged(f)
  <2>1. /\ wakeUp' = (wakeUp \/ Disconnects(f) \/ FindsMagic(f))
        /\ trigger' = (trigger \/ Summons(f))
        /\ UNCHANGED <<suspendMode, wolCmd, macReg, bssidReg, wakeReg, sleeping>>
    BY <1>2, Zenon DEF WolRx
  <2>2. /\ lastBeacon' \in 0 .. Lost /\ heard' \in 0 .. Lost
        /\ lastBeacon <= sleeping => lastBeacon' <= sleeping
    BY <1>2 DEF WolRx, WolInv, WolTypeOK, Lost
  <2>3. wakeUp' \in BOOLEAN /\ trigger' \in BOOLEAN
    BY <2>1, Zenon DEF WolInv, WolTypeOK
  <2>4. macReg = Zero /\ (Disconnects(f) \/ FindsMagic(f)) => Summons(f)
    <3>1. (1 > before) <=> ~(before > 0)
      BY <1>0
    <3> QED
      BY <1>2, <3>1, WakeIsTriggered
  <2>5. macReg = Zero /\ wakeUp' => trigger'
    BY <1>2, <2>1, <2>4, Zenon DEF WolInv
  <2> QED
    BY <1>3, <2>1, <2>2, <2>3, <2>5 DEF WolInv, WolTypeOK, Suspended
<1> QED
  BY <1>1, <1>2 DEF WolRx

LEMMA WolOtherKeeps ==
  ASSUME WolInv,
         \/ WolTick \/ WolJanitor \/ \E c \in WolCmds : WolCmd(c)
         \/ suspendMode' = "HOST_AWAKE" /\ wakeReg' = FALSE
            /\ UNCHANGED <<wolCmd, wakeUp, macReg, bssidReg, lastBeacon, heard, sleeping,
                           before, trigger>>
  PROVE  WolInv'
<1>1. CASE WolTick
  <2>1. /\ lastBeacon' \in 0 .. Lost /\ heard' \in 0 .. Lost /\ sleeping' \in 0 .. Lost
        /\ lastBeacon <= sleeping => lastBeacon' <= sleeping'
    BY <1>1 DEF WolTick, Older, WolInv, WolTypeOK, Lost
  <2> QED
    BY <1>1, <2>1 DEF WolTick, WolInv, WolTypeOK, Suspended
<1>2. CASE WolJanitor
  <2>1. UNCHANGED <<wolCmd, macReg, bssidReg, lastBeacon, heard, sleeping, before, trigger>>
    BY <1>2 DEF WolJanitor
  <2>2. wakeUp' \in BOOLEAN /\ wakeReg' \in BOOLEAN
    BY <1>2, Zenon DEF WolJanitor, WolInv, WolTypeOK
  <2>3. suspendMode' = IF WakeDue THEN "AWAKE_HOST" ELSE suspendMode
    BY <1>2, Zenon DEF WolJanitor
  <2>4. suspendMode' \in {"HOST_AWAKE", "HOST_SUSPENDED", "AWAKE_HOST"}
    BY <2>3 DEF WolInv, WolTypeOK
  <2>5. Suspended' => Suspended /\ ~WakeDue
    BY <2>3 DEF Suspended
  <2>6. ~(Suspended' /\ wakeUp')
    BY <1>2, <2>5, Zenon DEF WolJanitor, WakeDue
  <2> QED
    BY <2>1, <2>2, <2>4, <2>6 DEF WolInv, WolTypeOK
<1>3. ASSUME NEW c \in WolCmds, WolCmd(c)
      PROVE  WolInv'
  <2>1. /\ wolCmd' = [wolCmd EXCEPT !.flags = c.flags]
        /\ UNCHANGED <<suspendMode, wakeUp, macReg, bssidReg, lastBeacon, wakeReg, heard,
                       sleeping, before, trigger>>
    BY <1>3 DEF WolCmd, CopiedCmd
  <2>2. c.flags \in SUBSET WolFlags
    BY DeviceAssumption
  <2>3. wolCmd' \in [flags : SUBSET WolFlags, mac : {Zero}, bssid : {Zero}]
        /\ wolCmd'.flags \subseteq WolFlags /\ wolCmd'.bssid = Zero /\ wolCmd'.mac = Zero
    BY <2>1, <2>2 DEF WolInv
  <2> QED
    BY <2>1, <2>3 DEF WolInv, WolTypeOK, Suspended, Addresses
<1>4. CASE suspendMode' = "HOST_AWAKE" /\ wakeReg' = FALSE
           /\ UNCHANGED <<wolCmd, wakeUp, macReg, bssidReg, lastBeacon, heard, sleeping,
                          before, trigger>>
  <2>1. wakeReg' \in BOOLEAN
    BY <1>4
  <2> QED
    BY <1>4, <2>1 DEF WolInv, WolTypeOK, Suspended
<1> QED
  BY <1>1, <1>2, <1>3, <1>4

\* The host goes to sleep while no wake-up is due from an earlier night.
LEMMA WolSuspendKeeps ==
  ASSUME WolInv, RxInv, ~wakeUp,
         \/ WolPrepare
         \/ suspendMode' = "HOST_SUSPENDED"
            /\ UNCHANGED <<wolCmd, wakeUp, macReg, bssidReg, lastBeacon, wakeReg, heard, sleeping,
                           before, trigger>>
  PROVE  WolInv'
<1>1. /\ suspendMode' = "HOST_SUSPENDED" /\ UNCHANGED <<wolCmd, wakeUp, wakeReg>>
      /\ bssidReg' \in {bssidReg, wolCmd.bssid} /\ macReg' \in {macReg, wolCmd.mac}
      /\ lastBeacon' \in {lastBeacon, 0} /\ heard' \in {heard, 0} /\ sleeping' \in {sleeping, 0}
  BY DEF WolPrepare, FreshTimer
<1>2. trigger' \in BOOLEAN
  BY DEF WolPrepare, WolInv, WolTypeOK
<1>3. ~wakeUp'
  BY <1>1
<1>4. before' \in 0 .. NRX
  <2>1. Len(rxq) \in 0 .. NRX
    BY RxAssumption, LenProperties DEF RxInv, RxTypeOK
  <2> QED
    BY <2>1 DEF WolPrepare, WolInv, WolTypeOK
<1>5. macReg' = Zero => lastBeacon' <= sleeping'
  <2>1. CASE WolPrepare
    BY <2>1 DEF WolPrepare, FreshTimer
  <2>2. CASE UNCHANGED <<macReg, lastBeacon, sleeping>>
    BY <2>2 DEF WolInv
  <2> QED
    BY <2>1, <2>2
<1>6. macReg' \in {Own, Zero} /\ bssidReg' \in Stations \cup {Zero} /\ macReg' \in Addresses
  BY <1>1 DEF WolInv, WolTypeOK, Addresses
<1>7. lastBeacon' \in 0 .. Lost /\ heard' \in 0 .. Lost /\ sleeping' \in 0 .. Lost
  BY <1>1 DEF WolInv, WolTypeOK, Lost
<1> QED
  BY <1>1, <1>2, <1>3, <1>4, <1>5, <1>6, <1>7 DEF WolInv, WolTypeOK

-----------------------------------------------------------------------------
(* The main loop: each part takes a step of its own, or none *)

\* A frame as it arrives: marked as the address in the MAC's register tells.
LEMMA ArrivingFrame ==
  ASSUME NEW f \in Frames(IF part = "air" THEN Air ELSE IF part = "sleep" THEN Night ELSE {},
                         pc # "wlan")
  PROVE  /\ f \in Frame /\ (f.ans /\ pc # "wlan" => f.late)
         /\ "WRONG_RA" \notin f.err => f.to \in {macReg, Everyone}
<1>1. PICK g \in Air \cup Night :
        f = [g EXCEPT !.late = (pc # "wlan") /\ g.ans, !.err = g.err \cup Marks(g)]
  BY DEF Frames
<1>2. g \in Frame
  BY DeviceAssumption
<1>3. f.to = g.to /\ f.err = g.err \cup Marks(g) /\ f.ans = g.ans /\ f.late = ((pc # "wlan") /\ g.ans)
  BY <1>1, <1>2 DEF Frame
<1>4. f \in Frame
  BY <1>1, <1>2 DEF Frame, Marks
<1>5. f.ans /\ pc # "wlan" => f.late
  BY <1>3, Zenon
<1> QED
  BY <1>3, <1>4, <1>5 DEF Marks

LEMMA RxNext ==
  ASSUME IInv, Next
  PROVE  RxInv'
<1>0. RxInv
  BY DEF IInv
<1>1. CASE HandleWlan
  <2>1. /\ UNCHANGED <<up, rxFilter, baVars, fwDesc, txVars>>
        /\ rxq' = [i \in DOMAIN rxq |-> [rxq[i] EXCEPT !.late = FALSE]]
    BY <1>1 DEF HandleWlan
  <2> QED
    BY <1>0, <2>1, TurnKeeps
<1>2. CASE HandleWlanRx
  BY <1>0, <1>2, RxFrameKeeps DEF HandleWlanRx
<1>3. CASE WlanJanitor
  BY <1>0, <1>3, SendBufferedBaKeeps DEF WlanJanitor
<1>4. CASE HandleTxCompletion \/ HostFrame \/ MacSends
  BY <1>0, <1>4, TransmitKeeps DEF HandleTxCompletion, HostFrame, MacSends
<1>5. CASE HandleUpload
  BY <1>0, <1>5, UploadKeeps DEF HandleUpload
<1>6. CASE HandleCmd
  <2>1. CASE FilterCmd
    <3>1. PICK bits \in Filters : SetRxFilter(bits)
      BY <2>1 DEF FilterCmd
    <3>2. rxFilter' \subseteq FilterBits
      BY <3>1, DeviceAssumption DEF SetRxFilter
    <3> QED
      BY <1>0, <3>1, <3>2, FilterKeeps DEF SetRxFilter
  <2>2. CASE UNCHANGED rxVars
    BY <1>0, <2>2, RxStutter
  <2> QED
    BY <1>6, <2>1, <2>2 DEF HandleCmd, WakeupCmd, RadioCmd, KeyCmd, RebootCmd, NoCmd
<1>7. CASE HostSuspends
  <2>1. CASE WolPrepare
    <3>1. rxFilter' \subseteq FilterBits /\ UNCHANGED <<rxq, up, baVars, fwDesc, txVars>>
      BY <2>1 DEF WolPrepare, EVERYTHING
    <3> QED
      BY <1>0, <3>1, FilterKeeps
  <2>2. CASE UNCHANGED rxVars
    BY <1>0, <2>2, RxStutter
  <2> QED
    BY <1>7, <2>1, <2>2 DEF HostSuspends
<1>8. CASE FrameArrives
  <2>1. PICK f \in Frames(IF part = "air" THEN Air ELSE IF part = "sleep" THEN Night ELSE {}, pc # "wlan") :
          \/ ~f.ans /\ Receive(f) /\ UNCHANGED <<up, rxFilter, baVars, fwDesc, txVars>>
          \/ f.ans /\ BarAnswered(f)
    BY <1>8 DEF FrameArrives
  <2>2. f \in Frame
    BY <2>1, ArrivingFrame
  <2>3. /\ Receive(f) /\ UNCHANGED <<up, rxFilter, baVars, fwDesc, queuedBar>>
        /\ bar' = bar \/ (bar = "queued" /\ bar' = "answered")
    BY <2>1 DEF BarAnswered, txVars
  <2> QED
    BY <1>0, <2>2, <2>3, ReceiveKeeps
<1>9. CASE UNCHANGED rxVars
  BY <1>0, <1>9, RxStutter
<1> QED
  BY <1>1, <1>2, <1>3, <1>4, <1>5, <1>6, <1>7, <1>8, <1>9
     DEF Next, MainLoop, Surroundings, HandleFw, RxDone, LeaveHost, CamReady, HandleEp0, BusReset,
         HostResumes, NoBusEvent, HandleTimer, WatchdogBites, BeaconDue, TimePasses, HostSleeps,
         HostWakes, HostResets, PinChanges, CamHangs, Rom, vars

LEMMA RadioNext ==
  ASSUME IInv, Next
  PROVE  RadioInv'
<1>1. \/ Pretbtt \/ NotifySetChannel \/ RfCmd \/ UNCHANGED radioVars
      \/ \E n \in 0 .. MaxPsm, sleep \in BOOLEAN : PsmCmd(n, sleep)
  BY DEF Next, MainLoop, Surroundings, HandleFw, HandleWlan, HandleWlanRx, RxDone, HandleTxCompletion,
         WlanJanitor, HostFrame, HandleUpload, LeaveHost, FilterCmd, WakeupCmd, RadioCmd, KeyCmd,
         RebootCmd, NoCmd, HandleCmd, CamReady, HandleEp0, BusReset, HostSuspends, HostResumes,
         NoBusEvent, HandleTimer, WatchdogBites, FrameArrives, MacSends, BeaconDue, TimePasses,
         HostSleeps, HostWakes, HostResets, PinChanges, CamHangs, Rom, vars
<1> QED
  BY <1>1, RadioKeeps DEF IInv

LEMMA UsbNext ==
  ASSUME IInv, Next
  PROVE  UsbInv'
<1>0. UsbInv
  BY DEF IInv
<1>1. CASE HandleEp0
  BY <1>0, <1>1, Ep0Keeps DEF HandleEp0
<1>2. CASE BusReset
  BY <1>0, <1>2 DEF BusReset, UsbInv, UsbTypeOK, WakeupAgrees, RequestsAnswered
<1>3. CASE UNCHANGED usbVars
  BY <1>0, <1>3, Ep0Keeps
<1> QED
  BY <1>1, <1>2, <1>3
     DEF Next, MainLoop, Surroundings, HandleFw, HandleWlan, HandleWlanRx, RxDone, HandleTxCompletion,
         WlanJanitor, HostFrame, HandleUpload, LeaveHost, HandleCmd, CamReady, HostSuspends,
         HostResumes, NoBusEvent, HandleTimer, WatchdogBites, FrameArrives, MacSends, BeaconDue,
         TimePasses, HostSleeps, HostWakes, HostResets, PinChanges, CamHangs, Rom, vars

LEMMA CamNext ==
  ASSUME IInv, Next
  PROVE  CamInv'
<1>0. CamInv
  BY DEF IInv
<1>1. CASE HandleCmd
  <2>1. CASE KeyCmd
    BY <1>0, <2>1, SetKeyKeeps, DisableKeyKeeps DEF KeyCmd
  <2>2. CASE UNCHANGED camVars
    BY <1>0, <2>2, CamStutter
  <2> QED
    BY <1>1, <2>1, <2>2 DEF HandleCmd, FilterCmd, WakeupCmd, RadioCmd, RebootCmd, NoCmd
<1>2. CASE CamReady
  BY <1>0, <1>2, CamStepKeeps DEF CamReady
<1>3. CASE UNCHANGED camVars
  BY <1>0, <1>3, CamStutter
<1> QED
  BY <1>1, <1>2, <1>3
     DEF Next, MainLoop, Surroundings, HandleFw, HandleWlan, HandleWlanRx, RxDone, HandleTxCompletion,
         WlanJanitor, HostFrame, HandleUpload, LeaveHost, HandleEp0, BusReset, HostSuspends,
         HostResumes, NoBusEvent, HandleTimer, WatchdogBites, FrameArrives, MacSends, BeaconDue,
         TimePasses, HostSleeps, HostWakes, HostResets, PinChanges, CamHangs, Rom, vars

LEMMA WolNext ==
  ASSUME IInv, Next
  PROVE  WolInv'
<1>0. WolInv
  BY DEF IInv
<1>1. CASE HandleWlanRx
  <2>1. RxFrame /\ WolRx(Head(rxq))
    BY <1>1 DEF HandleWlanRx
  <2>2. Head(rxq) \in Frame
    BY <2>1, HeadTailProperties DEF RxFrame, IInv, RxInv, RxTypeOK
  <2>3. rxq # <<>> /\ Head(rxq) = rxq[1] /\ 1 \in DOMAIN rxq
    BY <2>1, HeadTailProperties DEF RxFrame, IInv, RxInv, RxTypeOK
  <2>4. "WRONG_RA" \notin Head(rxq).err =>
          Head(rxq).to \in IF macReg = Zero /\ 1 > before THEN {Everyone, Zero}
                                                        ELSE {Everyone, Own, Zero}
    BY <2>3 DEF IInv, Unmarked
  <2> QED
    BY <1>0, <2>1, <2>2, <2>4, WolRxKeeps
<1>2. CASE WlanJanitor \/ TimePasses
  BY <1>0, <1>2, WolOtherKeeps DEF WlanJanitor, TimePasses
<1>3. CASE HandleCmd
  <2>1. CASE WakeupCmd
    BY <1>0, <2>1, WolOtherKeeps DEF WakeupCmd
  <2>2. CASE UNCHANGED wolVars
    BY <1>0, <2>2, WolStutter
  <2> QED
    BY <1>3, <2>1, <2>2 DEF HandleCmd, FilterCmd, RadioCmd, KeyCmd, RebootCmd, NoCmd
<1>4. CASE HostSuspends
  <2>1. pc = "usb" /\ "SUSPEND" \in events
    BY <1>4 DEF HostSuspends, Running
  <2>2. ~wakeUp
    BY <2>1 DEF IInv, BusInv, Leaving
  <2>3. \/ WolPrepare
        \/ suspendMode' = "HOST_SUSPENDED"
           /\ UNCHANGED <<wolCmd, wakeUp, macReg, bssidReg, lastBeacon, wakeReg, heard, sleeping,
                          before, trigger>>
    BY <1>4 DEF HostSuspends
  <2>4. RxInv
    BY DEF IInv
  <2> QED
    BY <1>0, <2>2, <2>3, <2>4, WolSuspendKeeps
<1>5. CASE HostResumes
  <2>1. suspendMode' = "HOST_AWAKE" /\ wakeReg' = FALSE
        /\ UNCHANGED <<wolCmd, wakeUp, macReg, bssidReg, lastBeacon, heard, sleeping, before,
                       trigger>>
    BY <1>5 DEF HostResumes
  <2> QED
    BY <1>0, <2>1, WolOtherKeeps
<1>6. CASE UNCHANGED wolVars
  BY <1>0, <1>6, WolStutter
<1> QED
  BY <1>1, <1>2, <1>3, <1>4, <1>5, <1>6
     DEF Next, MainLoop, Surroundings, HandleFw, HandleWlan, RxDone, HandleTxCompletion, HostFrame,
         HandleUpload, LeaveHost, CamReady, HandleEp0, BusReset, NoBusEvent, HandleTimer, WatchdogBites,
         FrameArrives, MacSends, BeaconDue, HostSleeps, HostWakes, HostResets, PinChanges, CamHangs,
         Rom, vars

\* The marks of what is queued keep their meaning when wol_prepare() takes the
\* address from the MAC.
LEMMA UnmarkedNext ==
  ASSUME IInv, Next
  PROVE  Unmarked'
<1>0. /\ Unmarked /\ rxq \in Seq(Frame) /\ DOMAIN rxq = 1 .. Len(rxq) /\ Len(rxq) \in Nat
      /\ before \in Nat
  BY LenProperties, RxAssumption DEF IInv, RxInv, RxTypeOK, WolInv, WolTypeOK
<1>1. CASE UNCHANGED <<rxq, macReg, before>>
  BY <1>0, <1>1 DEF Unmarked
<1>2. CASE HandleWlan
  <2>1. /\ rxq' = [i \in DOMAIN rxq |-> [rxq[i] EXCEPT !.late = FALSE]]
        /\ UNCHANGED <<macReg, before>>
    BY <1>2 DEF HandleWlan, wolVars
  <2>2. DOMAIN rxq' = DOMAIN rxq
    BY <2>1
  <2>3. ASSUME NEW i \in DOMAIN rxq PROVE rxq'[i].to = rxq[i].to /\ rxq'[i].err = rxq[i].err
    <3>1. rxq[i] \in Frame
      BY <1>0
    <3> QED
      BY <2>1, <3>1 DEF Frame
  <2> QED
    BY <1>0, <2>1, <2>2, <2>3 DEF Unmarked
<1>3. CASE HandleWlanRx
  <2>1. /\ rxq # <<>> /\ rxq' = Tail(rxq) /\ before' = IF before > 0 THEN before - 1 ELSE 0
        /\ macReg' = macReg
    BY <1>3 DEF HandleWlanRx, RxFrame, WolRx
  <2>2. DOMAIN rxq' = 1 .. Len(rxq) - 1 /\ \A i \in 1 .. Len(rxq) - 1 : rxq'[i] = rxq[i + 1]
    BY <1>0, <2>1, HeadTailProperties, LenProperties
  <2>3. SUFFICES ASSUME NEW i \in DOMAIN rxq', "WRONG_RA" \notin rxq'[i].err
                 PROVE  rxq'[i].to \in IF macReg' = Zero /\ i > before' THEN {Everyone, Zero}
                                                                   ELSE {Everyone, Own, Zero}
    BY DEF Unmarked
  <2>4. i + 1 \in DOMAIN rxq /\ rxq'[i] = rxq[i + 1] /\ i \in Nat
    BY <1>0, <2>2
  <2>5. i > before' => i + 1 > before
    BY <1>0, <2>1, <2>4
  <2>6. rxq[i + 1].to \in IF macReg = Zero /\ i + 1 > before THEN {Everyone, Zero}
                                                         ELSE {Everyone, Own, Zero}
    BY <1>0, <2>3, <2>4 DEF Unmarked
  <2> QED
    BY <2>1, <2>4, <2>5, <2>6
<1>4. CASE FrameArrives
  <2>1. PICK f \in Frames(IF part = "air" THEN Air ELSE IF part = "sleep" THEN Night ELSE {}, pc # "wlan") :
          Receive(f)
    BY <1>4 DEF FrameArrives, BarAnswered
  <2>2. f \in Frame /\ ("WRONG_RA" \notin f.err => f.to \in {macReg, Everyone})
    BY <2>1, ArrivingFrame
  <2>3. /\ rxq' = Append(rxq, f) /\ rxq'[Len(rxq) + 1] = f
        /\ \A i \in 1 .. Len(rxq) : rxq'[i] = rxq[i]
    BY <1>0, <2>1, <2>2, AppendProperties DEF Receive
  <2>4. DOMAIN rxq' = 1 .. Len(rxq) + 1
    BY <1>0, <2>2, <2>3, AppendProperties, LenProperties
  <2>5. UNCHANGED <<macReg, before>> /\ macReg \in {Own, Zero}
    BY <1>4 DEF FrameArrives, wolVars, IInv, WolInv
  <2>6. SUFFICES ASSUME NEW i \in DOMAIN rxq', "WRONG_RA" \notin rxq'[i].err
                 PROVE  rxq'[i].to \in IF macReg = Zero /\ i > before THEN {Everyone, Zero}
                                                                 ELSE {Everyone, Own, Zero}
    BY <2>5 DEF Unmarked
  <2>7. CASE i = Len(rxq) + 1
    BY <2>2, <2>3, <2>5, <2>6, <2>7
  <2>8. CASE i # Len(rxq) + 1
    <3>1. i \in DOMAIN rxq /\ rxq'[i] = rxq[i]
      BY <1>0, <2>3, <2>4, <2>8
    <3> QED
      BY <1>0, <2>6, <3>1 DEF Unmarked
  <2> QED
    BY <2>7, <2>8
<1>5. CASE HostSuspends
  <2>1. CASE UNCHANGED <<rxq, macReg, before>>
    BY <1>1, <2>1
  <2>2. CASE WolPrepare
    <3>1. rxq' = rxq /\ before' = Len(rxq)
      BY <2>2 DEF WolPrepare
    <3>2. \A i \in DOMAIN rxq : ~(i > before')
      BY <1>0, <3>1
    <3> QED
      BY <1>0, <3>1, <3>2 DEF Unmarked
  <2> QED
    BY <1>5, <2>1, <2>2 DEF HostSuspends, rxVars
<1>6. CASE WlanJanitor \/ HandleTxCompletion \/ HostFrame \/ HandleUpload \/ HandleCmd \/ MacSends
  BY <1>1, <1>6 DEF WlanJanitor, WolJanitor, HandleTxCompletion, TxCompletion, HostFrame, QueueBar,
       HandleUpload, Uploaded, HandleCmd, FilterCmd, SetRxFilter, WakeupCmd, WolCmd, RadioCmd, KeyCmd,
       RebootCmd, NoCmd, MacSends, BarSent, FwFrameSent, rxVars, wolVars
<1> QED
  BY <1>1, <1>2, <1>3, <1>4, <1>5, <1>6
     DEF Next, MainLoop, Surroundings, HandleFw, RxDone, LeaveHost, CamReady, HandleEp0, BusReset,
         HostResumes, NoBusEvent, HandleTimer, WatchdogBites, BeaconDue, TimePasses, WolTick, HostSleeps,
         HostWakes, HostResets, PinChanges, CamHangs, Rom, vars, rxVars, wolVars

\* The state of the loop itself.
LEMMA LoopNext ==
  ASSUME IInv, Next
  PROVE  LoopTypeOK' /\ Guarded'
<1>0. LoopTypeOK /\ Guarded
  BY DEF IInv
<1>1. CASE HandleFw
  BY <1>0, <1>1 DEF HandleFw, Running, Reboot, Serve, LoopTypeOK, Guarded, pinVars
<1>2. CASE HandleWlan
  <2>1. pc' \in {"rx", "txc", "janitor"}
    BY <1>2 DEF HandleWlan, First
  <2>2. /\ intr' = {} /\ seen' \subseteq {"RXC", "TXC", "PRETBTT"} /\ pc = "wlan"
        /\ UNCHANGED <<part, powerVars, pinVars>>
    BY <1>0, <1>2 DEF HandleWlan, Running, LoopTypeOK
  <2> QED
    BY <1>0, <2>1, <2>2 DEF LoopTypeOK, Guarded, powerVars, pinVars
<1>3. CASE RxDone \/ HandleTxCompletion
  <2>1. pc' \in {"txc", "janitor", "rx"} /\ pc \in {"rx", "txc"}
    BY <1>3 DEF RxDone, HandleTxCompletion, AfterRx, AfterTxc, Running
  <2>2. seen' \subseteq {"RXC", "TXC", "PRETBTT"} /\ UNCHANGED <<part, intr, powerVars, pinVars>>
    BY <1>0, <1>3 DEF RxDone, HandleTxCompletion, LoopTypeOK
  <2> QED
    BY <1>0, <2>1, <2>2 DEF LoopTypeOK, Guarded, powerVars, pinVars
<1>4. CASE WlanJanitor \/ LeaveHost \/ CamReady \/ HandleEp0 \/ NoBusEvent
  <2>1. /\ pc' \in {"host", "cmd", "cam", "ep0", "usb", "timer"}
        /\ pc' # "timer" => pc \in {"janitor", "host", "cam", "ep0"}
        /\ UNCHANGED <<part, seen, intr, powerVars, pinVars>>
    BY <1>4 DEF WlanJanitor, LeaveHost, CamReady, HandleEp0, NoBusEvent, Running
  <2> QED
    BY <1>0, <2>1 DEF LoopTypeOK, Guarded, powerVars, pinVars
<1>5. CASE HandleCmd
  <2>1. /\ pc = "cmd" /\ pc' \in {"ep0", "cam"} /\ reboot' \in {reboot, TRUE}
        /\ UNCHANGED <<part, seen, intr, bus, clock, events, wdog, magic, stuck, pinVars>>
    BY <1>5 DEF HandleCmd, Running, FilterCmd, WakeupCmd, RadioCmd, KeyCmd, RebootCmd, NoCmd
  <2> QED
    BY <1>0, <2>1 DEF LoopTypeOK, Guarded, pinVars
<1>6. CASE BusReset
  BY <1>0, <1>6 DEF BusReset, Reboot, LoopTypeOK, Guarded, pinVars
<1>7. CASE HostSuspends
  <2>1. /\ pc' \in {"resume", "timer"} /\ events' \subseteq events
        /\ clock' \in BOOLEAN /\ wdog' \in BOOLEAN /\ magic' \in {"1234", "9876"}
    BY <1>0, <1>7 DEF HostSuspends, LoopTypeOK
  <2>2. UNCHANGED <<part, seen, intr, bus, reboot, stuck, pinVars>>
    BY <1>7 DEF HostSuspends
  <2> QED
    BY <1>0, <2>1, <2>2 DEF LoopTypeOK, Guarded, pinVars
<1>8. CASE HostResumes
  <2>1. /\ events' \subseteq events /\ pc' = "rom" /\ wdog' = FALSE /\ magic' = "9876"
        /\ UNCHANGED <<part, seen, intr, bus, clock, reboot, stuck, pinVars>>
    BY <1>8 DEF HostResumes, Reboot
  <2> QED
    BY <1>0, <2>1 DEF LoopTypeOK, Guarded, pinVars
<1>9. CASE HandleTimer \/ PinChanges
  <2>1. /\ pin' \in 0 .. 1 /\ cachedPin' \in 0 .. 1 /\ (pc' = "fw" \/ pc' = pc)
        /\ UNCHANGED <<part, seen, intr, powerVars>>
    BY <1>0, <1>9 DEF HandleTimer, PinChanges, LoopTypeOK, loopVars
  <2> QED
    BY <1>0, <2>1 DEF LoopTypeOK, Guarded, powerVars
<1>10. CASE FrameArrives \/ MacSends \/ BeaconDue
  <2>1. intr' \subseteq {"RXC", "TXC", "PRETBTT"} /\ UNCHANGED <<loopVars, powerVars, pinVars>>
    BY <1>0, <1>10 DEF FrameArrives, MacSends, BeaconDue, LoopTypeOK
  <2> QED
    BY <1>0, <2>1 DEF LoopTypeOK, Guarded, loopVars, powerVars, pinVars
<1>11. CASE HostSleeps \/ HostWakes \/ HostResets \/ CamHangs
  <2>1. /\ bus' \in {"active", "suspended"} /\ events' \subseteq {"RESET", "SUSPEND", "RESUME"}
        /\ clock' \in {clock, TRUE} /\ stuck' \in {stuck, TRUE}
        /\ UNCHANGED <<loopVars, intr, wdog, magic, reboot, pinVars>>
    BY <1>0, <1>11 DEF HostSleeps, HostWakes, HostResets, CamHangs, LoopTypeOK
  <2> QED
    BY <1>0, <2>1 DEF LoopTypeOK, Guarded, loopVars, pinVars
<1>12. CASE WatchdogBites
  BY <1>0, <1>12 DEF WatchdogBites, LoopTypeOK, Guarded, powerVars, pinVars
<1>13. CASE UNCHANGED <<loopVars, intr, powerVars, pinVars>>
  BY <1>0, <1>13 DEF LoopTypeOK, Guarded, loopVars, powerVars, pinVars
<1> QED
  BY <1>1, <1>2, <1>3, <1>4, <1>5, <1>6, <1>7, <1>8, <1>9, <1>10, <1>11, <1>12, <1>13
     DEF Next, MainLoop, Surroundings, HandleWlanRx, HostFrame, HandleUpload, TimePasses, Rom, vars

\* The hardware is waited for in set_key() only.
LEMMA HangsNext ==
  ASSUME IInv, Next
  PROVE  HangsInCam'
<1>0. HangsInCam
  BY DEF IInv
<1>1. CASE CamHangs
  BY <1>1 DEF CamHangs, HangsInCam, loopVars
<1>2. CASE CamReady \/ WatchdogBites
  BY <1>2 DEF CamReady, WatchdogBites, HangsInCam, powerVars
<1>3. CASE pc \notin {"cam", "rom"} /\ stuck' = stuck
  BY <1>0, <1>3 DEF HangsInCam
<1>4. CASE pc' = pc /\ stuck' = stuck
  BY <1>0, <1>4 DEF HangsInCam
<1>5. CASE \/ HandleFw \/ HandleWlan \/ HandleWlanRx \/ RxDone \/ HandleTxCompletion \/ WlanJanitor
           \/ LeaveHost \/ HandleCmd \/ HandleEp0 \/ BusReset \/ HostSuspends \/ HostResumes
           \/ NoBusEvent \/ HandleTimer \/ HostFrame \/ HandleUpload
  BY <1>3, <1>5 DEF HandleFw, HandleWlan, HandleWlanRx, RxDone, HandleTxCompletion, WlanJanitor,
       LeaveHost, HandleCmd, HandleEp0, BusReset, HostSuspends, HostResumes, NoBusEvent, HandleTimer,
       HostFrame, HandleUpload, Running, powerVars
<1>6. CASE \/ FrameArrives \/ MacSends \/ BeaconDue \/ TimePasses
           \/ HostSleeps \/ HostWakes \/ HostResets \/ PinChanges \/ Rom
  BY <1>4, <1>6 DEF FrameArrives, MacSends, BeaconDue, TimePasses, HostSleeps, HostWakes, HostResets,
       PinChanges, Rom, loopVars, powerVars, vars
<1> QED
  BY <1>1, <1>2, <1>5, <1>6 DEF Next, MainLoop, Surroundings

\* Where a frame that has come is still to be looked at.
LEMMA RxBeforeTxcNext ==
  ASSUME IInv, Next
  PROVE  RxBeforeTxc'
<1>0. RxBeforeTxc /\ rxq \in Seq(Frame) /\ DOMAIN rxq = 1 .. Len(rxq) /\ Len(rxq) \in Nat
  BY LenProperties DEF IInv, RxInv, RxTypeOK
<1>1. CASE HandleWlan
  <2>1. pc = "wlan" /\ rxq' = [i \in DOMAIN rxq |-> [rxq[i] EXCEPT !.late = FALSE]]
    BY <1>1 DEF HandleWlan, Running
  <2>2. CASE "RXC" \in intr
    BY <1>1, <2>2 DEF HandleWlan, First, RxBeforeTxc
  <2>3. CASE "RXC" \notin intr
    <3>1. rxq = <<>>
      BY <1>0, <2>1, <2>3 DEF RxBeforeTxc
    <3>2. DOMAIN rxq = {}
      BY <3>1
    <3>3. rxq' = <<>> /\ DOMAIN rxq' = {}
      BY <2>1, <3>2
    <3> QED
      BY <3>3 DEF RxBeforeTxc
  <2> QED
    BY <2>2, <2>3
<1>2. CASE HandleWlanRx
  <2>1. pc = "rx" /\ pc' = "rx"
    BY <1>2 DEF HandleWlanRx, Running, loopVars
  <2> QED
    BY <2>1 DEF RxBeforeTxc
<1>3. CASE RxDone
  <2>1. rxq' = <<>> /\ DOMAIN rxq' = {}
    BY <1>3 DEF RxDone, rxVars
  <2> QED
    BY <2>1 DEF RxBeforeTxc
<1>4. CASE HandleTxCompletion
  <2>1. rxq' = rxq /\ intr' = intr /\ pc = "txc" /\ pc' = "janitor"
    BY <1>4 DEF HandleTxCompletion, TxCompletion, Running, AfterTxc, First
  <2> QED
    BY <1>0, <2>1 DEF RxBeforeTxc
<1>5. CASE FrameArrives
  <2>1. PICK f \in Frames(IF part = "air" THEN Air ELSE IF part = "sleep" THEN Night ELSE {}, pc # "wlan") :
          Receive(f)
    BY <1>5 DEF FrameArrives, BarAnswered
  <2>2. "RXC" \in intr' /\ pc' = pc
    BY <1>5 DEF FrameArrives, loopVars
  <2>3. f \in Frame /\ (f.ans /\ pc # "wlan" => f.late)
    BY <2>1, ArrivingFrame
  <2>4. /\ rxq' = Append(rxq, f) /\ Len(rxq') = Len(rxq) + 1 /\ rxq'[Len(rxq) + 1] = f
        /\ \A i \in 1 .. Len(rxq) : rxq'[i] = rxq[i]
    BY <1>0, <2>1, <2>3, AppendProperties DEF Receive
  <2>5. DOMAIN rxq' = 1 .. Len(rxq) + 1
    BY <1>0, <2>3, <2>4, AppendProperties, LenProperties
  <2>6. ASSUME pc = "txc", NEW i \in DOMAIN rxq', rxq'[i].ans
        PROVE  rxq'[i].late
    <3>1. CASE i = Len(rxq) + 1
      BY <2>3, <2>4, <2>6, <3>1
    <3>2. CASE i # Len(rxq) + 1
      <4>1. i \in DOMAIN rxq /\ rxq'[i] = rxq[i]
        BY <1>0, <2>4, <2>5, <3>2
      <4> QED
        BY <1>0, <2>6, <4>1 DEF RxBeforeTxc
    <3> QED
      BY <3>1, <3>2
  <2> QED
    BY <2>2, <2>6 DEF RxBeforeTxc
<1>6. CASE /\ rxq' = rxq /\ intr \subseteq intr'
           /\ pc' # pc => pc # "rx" /\ pc' # "txc"
  BY <1>0, <1>6 DEF RxBeforeTxc
<1>7. CASE HandleFw \/ WlanJanitor \/ LeaveHost \/ HandleCmd \/ CamReady \/ HandleEp0
  BY <1>6, <1>7 DEF HandleFw, Reboot, WlanJanitor, LeaveHost, HandleCmd, FilterCmd, SetRxFilter,
       WakeupCmd, RadioCmd, KeyCmd, RebootCmd, NoCmd, CamReady, HandleEp0, Running, rxVars
<1>8. CASE BusReset \/ HostSuspends \/ HostResumes \/ NoBusEvent \/ HandleTimer
  <2>1. rxq' = rxq /\ intr' = intr /\ pc # "rx" /\ pc' # "txc"
    BY <1>8 DEF BusReset, Reboot, HostSuspends, WolPrepare, HostResumes, NoBusEvent, HandleTimer,
         Running, rxVars
  <2> QED
    BY <1>6, <2>1
<1>9. CASE WatchdogBites
  <2>1. pc # "rx" /\ pc' = "rom" /\ rxq' = rxq /\ intr' = intr
    BY <1>9 DEF WatchdogBites, rxVars, IInv, HangsInCam
  <2> QED
    BY <1>6, <2>1
<1>10. CASE HostFrame \/ HandleUpload \/ MacSends \/ BeaconDue \/ TimePasses
  BY <1>6, <1>10 DEF HostFrame, QueueBar, HandleUpload, Uploaded, MacSends, BarSent, FwFrameSent,
       BeaconDue, TimePasses, loopVars, rxVars
<1>11. CASE HostSleeps \/ HostWakes \/ HostResets \/ PinChanges \/ CamHangs \/ Rom
  BY <1>6, <1>11 DEF HostSleeps, HostWakes, HostResets, PinChanges, CamHangs, Rom, loopVars, rxVars, vars
<1> QED
  BY <1>1, <1>2, <1>3, <1>4, <1>5, <1>7, <1>8, <1>9, <1>10, <1>11 DEF Next, MainLoop, Surroundings

\* The bus, the suspend mode and what the host allowed.
LEMMA BusNext ==
  ASSUME IInv, Next
  PROVE  BusInv'
<1>0. /\ BusInv /\ bus \in {"active", "suspended"} /\ clock \in BOOLEAN /\ wakeUp \in BOOLEAN
      /\ suspendMode \in {"HOST_AWAKE", "HOST_SUSPENDED", "AWAKE_HOST"}
  BY DEF IInv, LoopTypeOK, WolInv, WolTypeOK
\* Nothing of it changes, but that the loop goes on or gives up.
<1>1. CASE /\ UNCHANGED <<clock, bus, events, suspendMode, wakeUp, feature, macReg>>
           /\ pc' = pc \/ pc' = "rom" \/ ~Leaving
  BY <1>0, <1>1 DEF BusInv, Leaving
<1>2. CASE HandleFw \/ HandleWlan \/ RxDone \/ HandleTxCompletion
  <2>1. UNCHANGED <<clock, bus, events, suspendMode, wakeUp, feature, macReg>> /\ ~Leaving
    BY <1>2 DEF HandleFw, HandleWlan, RxDone, HandleTxCompletion, Running, Leaving,
         powerVars, usbVars, wolVars
  <2> QED
    BY <1>1, <2>1
<1>3. CASE HostFrame \/ HandleUpload \/ LeaveHost \/ CamReady \/ NoBusEvent \/ HandleTimer
  <2>1. UNCHANGED <<clock, bus, events, suspendMode, wakeUp, feature, macReg>> /\ ~Leaving
    BY <1>3 DEF HostFrame, HandleUpload, LeaveHost, CamReady, NoBusEvent, HandleTimer, Running,
         Leaving, powerVars, usbVars, wolVars
  <2> QED
    BY <1>1, <2>1
<1>4. CASE HandleCmd
  <2>1. UNCHANGED <<clock, bus, events, suspendMode, wakeUp, feature, macReg>> /\ ~Leaving
    BY <1>4 DEF HandleCmd, FilterCmd, WakeupCmd, WolCmd, RadioCmd, KeyCmd, RebootCmd, NoCmd, Running,
         Leaving, usbVars, wolVars
  <2> QED
    BY <1>1, <2>1
<1>5. CASE FrameArrives \/ MacSends \/ BeaconDue \/ TimePasses
  <2>1. UNCHANGED <<clock, bus, events, suspendMode, wakeUp, feature, macReg, pc>>
    BY <1>5 DEF FrameArrives, MacSends, BeaconDue, TimePasses, WolTick, loopVars, powerVars, usbVars, wolVars
  <2> QED
    BY <1>1, <2>1
<1>6. CASE PinChanges \/ CamHangs \/ WatchdogBites \/ Rom
  <2>1. UNCHANGED <<clock, bus, events, suspendMode, wakeUp, feature, macReg>> /\ (pc' = pc \/ pc' = "rom")
    BY <1>6 DEF PinChanges, CamHangs, WatchdogBites, Rom, loopVars, powerVars, usbVars, wolVars, vars
  <2> QED
    BY <1>1, <2>1
<1>7. CASE HandleWlanRx
  <2>1. UNCHANGED <<clock, bus, events, suspendMode, feature, macReg, pc>> /\ pc = "rx"
    BY <1>7 DEF HandleWlanRx, WolRx, Running, loopVars, powerVars, usbVars, wolVars
  <2>2. wakeUp' => wakeUp \/ suspendMode # "HOST_AWAKE"
    <3>1. CASE wakeUp' = wakeUp
      BY <3>1
    <3>2. CASE wakeUp' # wakeUp
      <4>1. Suspended
        BY <1>7, <3>2 DEF HandleWlanRx, WolRx, wolVars
      <4> QED
        BY <4>1 DEF Suspended
    <3> QED
      BY <3>1, <3>2
  <2> QED
    BY <1>0, <2>1, <2>2 DEF BusInv, Leaving
<1>8. CASE WlanJanitor
  <2>1. UNCHANGED <<clock, bus, events, feature, macReg>> /\ pc = "janitor" /\ pc' = "host"
    BY <1>8 DEF WlanJanitor, WolJanitor, Running, powerVars, usbVars
  <2>2. /\ suspendMode' = IF WakeDue THEN "AWAKE_HOST" ELSE suspendMode
        /\ wakeUp' = (wakeUp \/ (Suspended /\ TimedOut))
    BY <1>8, Zenon DEF WlanJanitor, WolJanitor
  <2>3. wakeUp' => wakeUp \/ WakeDue
    BY <2>2, Zenon DEF WakeDue
  <2>4. WakeDue => suspendMode # "HOST_AWAKE"
    BY DEF WakeDue, Suspended
  <2>5. (suspendMode' # "HOST_AWAKE" => suspendMode # "HOST_AWAKE")
        /\ (wakeUp' => suspendMode' # "HOST_AWAKE")
    BY <1>0, <2>1, <2>2, <2>3, <2>4 DEF BusInv
  <2> QED
    BY <1>0, <2>1, <2>5 DEF BusInv, Leaving
<1>9. CASE HandleEp0
  <2>1. /\ UNCHANGED <<clock, bus, events, suspendMode, wakeUp, macReg>> /\ pc = "ep0" /\ pc' = "usb"
        /\ bus = "active" \/ feature' = feature
    BY <1>9 DEF HandleEp0, Running, powerVars, usbVars, wolVars
  <2> QED
    BY <1>0, <2>1 DEF BusInv, Leaving
<1>10. CASE BusReset
  <2>1. pc' = "rom" /\ UNCHANGED <<clock, bus>>
    BY <1>10 DEF BusReset, Reboot
  <2> QED
    BY <1>0, <2>1 DEF BusInv, Leaving
<1>11. CASE HostResumes
  <2>1. pc' = "rom" /\ UNCHANGED <<clock, bus>>
    BY <1>11 DEF HostResumes, Reboot
  <2> QED
    BY <1>0, <2>1 DEF BusInv, Leaving
<1>12. CASE HostSuspends
  <2>1. /\ pc = "usb" /\ "RESET" \notin events /\ "SUSPEND" \in events /\ clock = TRUE
        /\ events' = events \ {"SUSPEND", "RESUME"} /\ suspendMode' = "HOST_SUSPENDED"
        /\ UNCHANGED <<bus, feature, wakeUp>>
        /\ pc' = IF "RESUME" \in events THEN "resume" ELSE "timer"
    BY <1>12 DEF HostSuspends, WolPrepare, Running, usbVars
  <2>2. events' = {}
    BY <2>1 DEF IInv, LoopTypeOK
  <2>3. CASE "RESUME" \in events
    <3>1. ~clock' => bus = "suspended"
      BY <1>0, <1>12, <2>1 DEF HostSuspends
    <3> QED
      BY <1>0, <2>1, <2>2, <2>3, <3>1 DEF BusInv, Leaving
  <2>4. CASE "RESUME" \notin events
    <3>1. bus = "suspended"
      BY <1>0, <2>1, <2>4 DEF BusInv
    <3>2. clock' => REMOTE_WAKEUP \in feature /\ macReg' = Zero
      BY <1>12, <3>1 DEF HostSuspends, MayWake, WolPrepare, IInv, WolInv
    <3> QED
      BY <1>0, <2>1, <2>2, <3>1, <3>2 DEF BusInv, Leaving
  <2> QED
    BY <2>3, <2>4
<1>13. CASE HostSleeps
  <2>1. /\ pc # "rom" /\ bus = "active" /\ events = {} /\ bus' = "suspended"
        /\ UNCHANGED <<pc, clock, suspendMode, wakeUp, feature, macReg>>
    BY <1>13 DEF HostSleeps, loopVars, usbVars, wolVars
  <2>2. suspendMode = "HOST_AWAKE" \/ Leaving
    BY <1>0, <2>1 DEF BusInv
  <2> QED
    BY <1>0, <2>1, <2>2 DEF BusInv, Leaving
<1>14. CASE HostWakes \/ HostResets
  <2>1. /\ bus' = "active" /\ clock' = TRUE
        /\ events' = events \cup {"RESUME"} \/ events' = events \cup {"RESET"}
        /\ UNCHANGED <<pc, suspendMode, wakeUp, feature, macReg>>
    BY <1>14 DEF HostWakes, HostResets, loopVars, usbVars, wolVars
  <2> QED
    BY <1>0, <2>1 DEF BusInv, Leaving
<1> QED
  BY <1>2, <1>3, <1>4, <1>5, <1>6, <1>7, <1>8, <1>9, <1>10, <1>11, <1>12, <1>13, <1>14
     DEF Next, MainLoop, Surroundings

-----------------------------------------------------------------------------
(* The theorems *)

LEMMA InvInductive ==
  ASSUME IInv, [Next]_vars
  PROVE  IInv'
<1>1. CASE Next
  BY <1>1, RxNext, RadioNext, UsbNext, CamNext, WolNext, UnmarkedNext, LoopNext, HangsNext, RxBeforeTxcNext, BusNext
     DEF IInv
<1>2. CASE UNCHANGED vars
  <2>1. Rom \/ pc # "rom"
    BY <1>2 DEF Rom
  <2>2. RxInv' /\ CamInv' /\ WolInv' /\ RadioInv' /\ UsbInv'
    BY <1>2, RxStutter, CamStutter, WolStutter, RadioKeeps, Ep0Keeps DEF IInv, vars
  <2>3. UNCHANGED <<loopVars, intr, powerVars, pinVars, rxq, suspendMode, wakeUp, feature, macReg, before>>
    BY <1>2 DEF vars, rxVars, wolVars, usbVars
  <2>4. LoopTypeOK' /\ HangsInCam' /\ RxBeforeTxc' /\ BusInv' /\ Guarded' /\ Unmarked'
    BY <2>3 DEF IInv, Unmarked, LoopTypeOK, HangsInCam, RxBeforeTxc, BusInv, Leaving, Guarded, loopVars, powerVars, pinVars
  <2> QED
    BY <2>2, <2>4 DEF IInv
<1> QED
  BY <1>1, <1>2

LEMMA Invariance == Spec => []IInv
BY InitInv, InvInductive, PTL DEF Spec

\* Whatever acts beside it, each part keeps what it promises: the BlockAckReqs in
\* order (handle_bar(), wlan_send_buffered_ba()), remote wakeup as the USB core knows it
\* (usb_manipulate_feature()), a radio that wakes in time (rf_psm()), keys that are
\* whole (set_key()), one answer for each request (usb_ep0setup()), and a watchdog that
\* counts while the loop works (handle_fw(), usb_handler()).
THEOREM PartsConsistent == Spec => []Consistent
BY Invariance, InvImplies, PTL

\* handle_wlan_tx_completion() counts a BlockAckReq of the host off only when no answer to it
\* that came before this turn waits for wlan_rx_filter().
THEOREM BaFilteredFirst == Spec => BaBeforeBar
<1>1. ASSUME IInv, [Next]_vars
      PROVE  [queuedBar' < queuedBar => \A i \in DOMAIN rxq : rxq[i].ans => rxq[i].late]_vars
  <2> SUFFICES ASSUME Next, queuedBar' < queuedBar
               PROVE  \A i \in DOMAIN rxq : rxq[i].ans => rxq[i].late
    BY <1>1
  <2>0. queuedBar \in 0 .. 1
    BY <1>1 DEF IInv, RxInv, RxTypeOK
  <2>1. ~(queuedBar' = queuedBar) /\ ~(queuedBar' = queuedBar + 1)
    BY <2>0
  <2>2. HandleTxCompletion
    BY <2>1 DEF Next, MainLoop, Surroundings, HandleFw, HandleWlan, HandleWlanRx, RxFrame, RxDone,
         WlanJanitor, HostFrame, QueueBar, HandleUpload, Uploaded, LeaveHost, FilterCmd, SetRxFilter,
         WakeupCmd, RadioCmd, KeyCmd, RebootCmd, NoCmd, HandleCmd, CamReady, HandleEp0, BusReset,
         HostSuspends, WolPrepare, HostResumes, NoBusEvent, HandleTimer, WatchdogBites, FrameArrives,
         BarAnswered, MacSends, BarSent, FwFrameSent, BeaconDue, TimePasses, HostSleeps, HostWakes,
         HostResets, PinChanges, CamHangs, Rom, vars, rxVars, txVars
  <2>3. pc = "txc"
    BY <2>2 DEF HandleTxCompletion, Running
  <2> QED
    BY <1>1, <2>3 DEF IInv, RxBeforeTxc
<1> QED
  BY <1>1, Invariance, PTL DEF Spec, BaBeforeBar

\* wol_janitor() signals a wake-up to a sleeping bus only where the host allowed it,
\* and only for a frame that summons the host as the MAC's address stands at night,
\* or ten seconds after wol_prepare().
THEOREM WokenAsAsked == Spec => WakeJustified
<1>1. ASSUME IInv, [Next]_vars
      PROVE  [~wakeReg /\ wakeReg' /\ bus = "suspended" =>
                /\ REMOTE_WAKEUP \in feature
                /\ trigger \/ (Armed("DISCONNECT") /\ sleeping = Lost)]_vars
  <2> SUFFICES ASSUME Next, ~wakeReg, wakeReg', bus = "suspended"
               PROVE  /\ REMOTE_WAKEUP \in feature
                      /\ trigger \/ (Armed("DISCONNECT") /\ sleeping = Lost)
    BY <1>1
  <2>1. wakeReg' # wakeReg /\ wakeReg' # FALSE
    OBVIOUS
  <2>2. WlanJanitor
    BY <2>1 DEF Next, MainLoop, Surroundings, HandleFw, HandleWlan, HandleWlanRx, WolRx, RxDone,
         HandleTxCompletion, HostFrame, HandleUpload, LeaveHost, FilterCmd, WakeupCmd, WolCmd, RadioCmd,
         KeyCmd, RebootCmd, NoCmd, HandleCmd, CamReady, HandleEp0, BusReset, HostSuspends, WolPrepare,
         HostResumes, NoBusEvent, HandleTimer, WatchdogBites, FrameArrives, MacSends, BeaconDue,
         TimePasses, WolTick, HostSleeps, HostWakes, HostResets, PinChanges, CamHangs, Rom, vars, wolVars
  <2>3. WakeDue /\ pc = "janitor" /\ clock
    BY <2>2, Zenon DEF WlanJanitor, WolJanitor, Running
  <2>4. Suspended /\ (wakeUp \/ TimedOut)
    BY <2>3 DEF WakeDue
  <2>5. REMOTE_WAKEUP \in feature /\ macReg = Zero
    BY <1>1, <2>3, <2>4 DEF IInv, BusInv, Leaving, Suspended
  <2>6. trigger \/ TimedOut
    BY <1>1, <2>4, <2>5 DEF IInv, WolInv
  <2>7. lastBeacon = Lost => sleeping = Lost
    BY <1>1, <2>5 DEF IInv, WolInv, WolTypeOK, Lost
  <2> QED
    BY <2>5, <2>6, <2>7 DEF TimedOut
<1> QED
  BY <1>1, Invariance, PTL DEF Spec, WakeJustified
=============================================================================

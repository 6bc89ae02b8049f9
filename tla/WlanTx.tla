------------------------------- MODULE WlanTx -------------------------------
(***************************************************************************)
(* The life of a frame in the firmware (wlantx.c, hostif.c, wlan.c): the    *)
(* host's frames are taken from the down queue, queued for the MAC or, if    *)
(* they are multicast, buffered until after a DTIM beacon; the MAC sends     *)
(* them; handle_wlan_tx_completion() retries, collects and reports them.     *)
(* The main loop and the MAC run concurrently; pc is the place in the loop.  *)
(*                                                                         *)
(* A queue is the sequence of its packets (DmaRing shows that the rings of   *)
(* descriptors behave like that and that no trigger is lost).               *)
(***************************************************************************)
EXTENDS Integers, Sequences, FiniteSets

CONSTANTS Frames,   \* the packets that fit into the down queue
          FwFrame,  \* the reserved descriptor fw_desc with its BlockAck
          Idle,     \* no superframe
          NoFrame,  \* NULL
          NQ,       \* __AR9170_NUM_TX_QUEUES
          NV,       \* CARL9170_INTF_NUM
          MaxRates, \* CARL9170_TX_MAX_RETRY_RATES
          FwQueue,  \* AR9170_TXQ_VO, where BlockAcks go
          Supers,   \* environment: the superframes the host sends
          Outcomes, \* environment: how attempts end
          Beacons,  \* environment: whether an interface sends beacons
          PeerBars  \* environment: whether peers ask for BlockAcks

Queues    == 0 .. NQ - 1
Vifs      == 0 .. NV - 1
AllFrames == Frames \cup {FwFrame}

\* struct carl9170_tx_superframe: the rates ri[], of which rr[] allows those up
\* to last, what the frame is (hdr stands for frame control, duration and
\* addresses), and whether the DMA clipped it.
Rate       == [tries : Nat, ampdu : BOOLEAN]
Superframe == [queue : Queues, vif : Vifs, tid : Nat, hdr : Nat,
               cab : BOOLEAN, bar : BOOLEAN, clipped : BOOLEAN,
               ri : [0 .. MaxRates -> Rate], last : 0 .. MaxRates]

\* The BlockAck of wlan_send_buffered_ba(): one try, no alternative rate.
BaSuper == [queue |-> FwQueue, vif |-> 0, tid |-> 0, hdr |-> 0,
            cab |-> FALSE, bar |-> FALSE, clipped |-> FALSE,
            ri |-> [i \in 0 .. MaxRates |-> [tries |-> 1, ampdu |-> FALSE]],
            last |-> 0]

ASSUME TxAssumption ==
  /\ IsFiniteSet(Frames)
  /\ NQ \in Nat \ {0} /\ NV \in Nat \ {0} /\ MaxRates \in Nat
  /\ FwQueue \in Queues
  /\ FwFrame \notin Frames /\ NoFrame \notin AllFrames
  /\ Supers \subseteq Superframe /\ Idle \notin Superframe
  /\ Outcomes \subseteq {"ok", "TXFAIL", "BAFAIL"} /\ "ok" \in Outcomes
  /\ Beacons \in BOOLEAN /\ PeerBars \in BOOLEAN

VARIABLES down,     \* packets of the host in down_queue
          txq,      \* tx_queue[]
          retryq,   \* tx_retry
          cabq,     \* cab_queue[]
          sup,      \* the superframe in each packet
          rix, cnt, \* super->s.rix, super->s.cnt
          baEnd,    \* super->f.hdr.mac.ba_end
          own,      \* AR9170_OWN_BITS of the packet
          ctrl,     \* its AR9170_CTRL_FAIL bits
          prev,     \* ampdu_prev[]
          cabLen,   \* cab_queue_len[]
          trigger,  \* cab_flush_trigger[]
          clock,    \* the time since cab_flush_time, see Late
          announced,\* history: a DTIM beacon announces what is in cab_queue[]
          bars,     \* queued_bar
          avail,    \* fw_desc_available
          halt,     \* the MAC's queue stopped at a failed frame
          intr,     \* TXC or RETRY_FAIL is set in AR9170_MAC_REG_INT_CTRL
          pc, ix,   \* the place in the main loop, the index of its loop
          ahead,    \* history: the frames queued when a frame first was
          missed,   \* history: frames a block ack did not cover
          tried,    \* history: the attempts the MAC made
          result    \* history: the last report on a frame

queues == <<down, txq, retryq, cabq>>
frame  == <<sup, rix, cnt, baEnd, own, ctrl>>
counts == <<cabLen, bars, avail>>
cab    == <<trigger, clock, announced>>
mac    == <<halt, intr>>
hist   == <<ahead, missed, tried, result>>
vars   == <<queues, frame, prev, counts, cab, mac, pc, ix, hist>>

TypeOK ==
  /\ down \in Seq(Frames) /\ retryq \in Seq(AllFrames)
  /\ txq \in [Queues -> Seq(AllFrames)] /\ cabq \in [Vifs -> Seq(Frames)]
  /\ sup \in [AllFrames -> Superframe \cup {Idle}]
  /\ rix \in [AllFrames -> 0 .. MaxRates] /\ cnt \in [AllFrames -> Nat]
  /\ baEnd \in [AllFrames -> BOOLEAN]
  /\ own \in [AllFrames -> {"HW", "SW"}]
  /\ ctrl \in [AllFrames -> {"ok", "TXFAIL", "BAFAIL"}]
  /\ prev \in [Queues -> AllFrames \cup {NoFrame}]
  /\ cabLen \in [Vifs -> Nat] /\ bars \in Nat /\ avail \in BOOLEAN
  /\ trigger \in [Vifs -> {"EMPTY", "ARMED", "DEFER"}] /\ clock \in 0 .. 2
  /\ announced \in [Vifs -> BOOLEAN]
  /\ halt \in [Queues -> BOOLEAN] /\ intr \in BOOLEAN
  /\ pc \in {"wlan", "txc", "reset", "retry", "cab", "ba", "host", "usb", "flush"}
  /\ ix \in Queues \cup Vifs
  /\ ahead \in [AllFrames -> SUBSET AllFrames] /\ missed \subseteq AllFrames
  /\ tried \in [AllFrames -> Nat]
  /\ result \in [AllFrames -> {"none", "ok", "failed"}]

Init ==
  /\ down = <<>> /\ retryq = <<>>
  /\ txq = [q \in Queues |-> <<>>] /\ cabq = [v \in Vifs |-> <<>>]
  /\ sup = [f \in AllFrames |-> Idle]
  /\ rix = [f \in AllFrames |-> 0] /\ cnt = [f \in AllFrames |-> 0]
  /\ baEnd = [f \in AllFrames |-> FALSE]
  /\ own = [f \in AllFrames |-> "HW"] /\ ctrl = [f \in AllFrames |-> "ok"]
  /\ prev = [q \in Queues |-> NoFrame]
  /\ cabLen = [v \in Vifs |-> 0] /\ bars = 0 /\ avail = TRUE
  /\ trigger = [v \in Vifs |-> "EMPTY"] /\ clock = 2
  /\ announced = [v \in Vifs |-> FALSE]
  /\ halt = [q \in Queues |-> FALSE] /\ intr = FALSE
  /\ pc = "wlan" /\ ix = 0
  /\ ahead = [f \in AllFrames |-> {}] /\ missed = {}
  /\ tried = [f \in AllFrames |-> 0]
  /\ result = [f \in AllFrames |-> "none"]

-----------------------------------------------------------------------------
(* Queueing a packet for the MAC *)

Ampdu(f) == sup[f].ri[rix[f]].ampdu

SameAggr(f, g) == sup[f].tid = sup[g].tid \/ sup[f].hdr = sup[g].hdr

\* wlan_tx_ampdu(): what follows an aggregate of another kind ends it.
WlanTxAmpdu(f, q) ==
  LET p == prev[q]
      ends == p # NoFrame /\ (Ampdu(f) => ~SameAggr(f, p))
  IN  /\ baEnd' = IF ends THEN [baEnd EXCEPT ![p] = TRUE]
                  ELSE IF Ampdu(f) THEN [baEnd EXCEPT ![f] = FALSE]
                  ELSE baEnd
      /\ prev' = [prev EXCEPT ![q] = IF Ampdu(f) THEN f ELSE NoFrame]

\* wlan_tx_ampdu_end().  (Faulty: wlan_tx_ampdu_reset() in its place.)
AmpduForget(q) == prev' = [prev EXCEPT ![q] = NoFrame] /\ UNCHANGED baEnd
AmpduEnd(q) ==
  /\ baEnd' = IF prev[q] # NoFrame THEN [baEnd EXCEPT ![prev[q]] = TRUE] ELSE baEnd
  /\ prev' = [prev EXCEPT ![q] = NoFrame]

\* __wlan_tx(): for all tries.
Enqueue(f, q) ==
  /\ WlanTxAmpdu(f, q)
  /\ txq' = [txq EXCEPT ![q] = Append(@, f)]

\* The first time a frame is queued.
Elems(s) == {s[i] : i \in DOMAIN s}
Follows(f, q) == ahead' = [ahead EXCEPT ![f] = Elems(txq[q])]
EnqueueFirst(f) == Enqueue(f, sup[f].queue) /\ Follows(f, sup[f].queue)

-----------------------------------------------------------------------------
(* handle_wlan(): completed frames *)

\* is_after_msecs(cab_flush_time, CARL9170_TBTT_DELTA).  The clock stands at 0
\* after PRETBTT and at 1 once the time has passed; the next PRETBTT is at
\* least one turn of the main loop later: that takes a clock of 2.
Late == clock > 0

\* The interrupts are acknowledged before anything is looked at; PRETBTT
\* (handle_pretbtt()) takes the time.
AckInterrupt(pretbtt) ==
  /\ pc = "wlan"
  /\ pretbtt => Beacons /\ clock = 2
  /\ clock' = IF pretbtt THEN 0 ELSE IF Late THEN 2 ELSE 0
  /\ intr' = FALSE
  /\ pc' = IF intr THEN "txc" ELSE "cab"
  /\ ix' = IF intr THEN NQ - 1 ELSE 0
  /\ UNCHANGED <<queues, frame, prev, counts, trigger, announced, halt, hist>>

\* The packet handle_wlan_tx_completion() passes to wlan_tx_status().
Completed(q) == txq[q] # <<>> /\ own[Head(txq[q])] = "SW"

\* wlan_tx_consume_retry() finds the current rate used up, or all of them:
\* there is no other after MaxRates, nor after one whose rr[] is not set.
\* (Faulty: one try more.)
RateOverspent(f) == cnt[f] > sup[f].ri[rix[f]].tries
RateSpent(f) == cnt[f] >= sup[f].ri[rix[f]].tries
AllSpent(f)  == RateSpent(f) /\ rix[f] = sup[f].last

ConsumeRetry(f) ==
  /\ ~AllSpent(f)
  /\ IF RateSpent(f) THEN /\ rix' = [rix EXCEPT ![f] = @ + 1]
                          /\ cnt' = [cnt EXCEPT ![f] = 1]
                     ELSE cnt' = [cnt EXCEPT ![f] = @ + 1] /\ UNCHANGED rix
  /\ own' = [own EXCEPT ![f] = "HW"]
  /\ ctrl' = [ctrl EXCEPT ![f] = "ok"]

\* dma_unlink_head().  (Faulty: forgotten.)
NotUnlinked == UNCHANGED txq
UnlinkHead  == txq' = [txq EXCEPT ![ix] = Tail(@)]

\* wlan_txunstuck().  (Faulty: forgotten.)
TxStuck(q)   == UNCHANGED halt
TxUnstuck(q) == halt' = [halt EXCEPT ![q] = FALSE]

\* (Faulty: a frame that failed goes through tx_retry like an aggregate.)
TxRearmLater ==
  LET f == Head(txq[ix]) IN
  /\ pc = "txc" /\ Completed(ix) /\ ctrl[f] = "TXFAIL"
  /\ ConsumeRetry(f)
  /\ TxUnstuck(ix)
  /\ UnlinkHead
  /\ retryq' = Append(retryq, f)
  /\ pc' = "reset"
  /\ UNCHANGED <<down, cabq, sup, baEnd, prev, counts, cab, intr, ix, hist>>

\* A frame that failed is handed back to the MAC where it is, the queue set
\* going again and the loop left.
TxRearm ==
  LET f == Head(txq[ix]) IN
  /\ pc = "txc" /\ Completed(ix) /\ ctrl[f] = "TXFAIL"
  /\ ConsumeRetry(f)
  /\ TxUnstuck(ix)
  /\ pc' = "reset"
  /\ UNCHANGED <<queues, sup, baEnd, prev, counts, cab, intr, ix, hist>>

\* An aggregated frame the block ack did not cover waits in tx_retry.
TxRetryLater ==
  LET f == Head(txq[ix]) IN
  /\ pc = "txc" /\ Completed(ix) /\ ctrl[f] = "BAFAIL"
  /\ ConsumeRetry(f)
  /\ UnlinkHead
  /\ retryq' = Append(retryq, f)
  /\ missed' = missed \cup {f}
  /\ UNCHANGED <<down, cabq, sup, baEnd, prev, counts, cab, mac, pc, ix,
                 ahead, tried, result>>

\* wlan_tx_complete() and dma_reclaim(); what was in the buffer is forgotten.
Recycle(f, success) ==
  /\ sup' = [sup EXCEPT ![f] = Idle]
  /\ rix' = [rix EXCEPT ![f] = 0] /\ cnt' = [cnt EXCEPT ![f] = 0]
  /\ baEnd' = [baEnd EXCEPT ![f] = FALSE]
  /\ own' = [own EXCEPT ![f] = "HW"] /\ ctrl' = [ctrl EXCEPT ![f] = "ok"]
  /\ ahead' = [g \in AllFrames |-> IF g = f THEN {} ELSE ahead[g] \ {f}]
  /\ missed' = missed \ {f}
  /\ tried' = [tried EXCEPT ![f] = 0]
  /\ result' = [result EXCEPT ![f] = IF success THEN "ok" ELSE "failed"]

\* The counters wlan_tx() counted up.  (Faulty: queued_bar forgotten.)
UncountCab(s) ==
  /\ cabLen' = IF s.cab THEN [cabLen EXCEPT ![s.vif] = @ - 1] ELSE cabLen
  /\ bars' = bars
Uncount(s) ==
  /\ cabLen' = IF s.cab THEN [cabLen EXCEPT ![s.vif] = @ - 1] ELSE cabLen
  /\ bars' = IF s.bar THEN bars - 1 ELSE bars

\* A frame that went out or has used up its tries is reported; the reserved
\* descriptor is available again instead.
TxDone ==
  LET f == Head(txq[ix])
      s == sup[f]
  IN
  /\ pc = "txc" /\ Completed(ix) /\ (ctrl[f] # "ok" => AllSpent(f))
  /\ UnlinkHead
  /\ IF ctrl[f] = "TXFAIL" THEN TxUnstuck(ix) /\ pc' = "reset"
                           ELSE UNCHANGED <<halt, pc>>
  /\ avail' = (avail \/ f = FwFrame)
  /\ Uncount(s)
  /\ Recycle(f, ctrl[f] = "ok")
  /\ UNCHANGED <<down, retryq, cabq, prev, cab, intr, ix>>

\* wlan_tx_ampdu_reset().  (Faulty: forgotten.)
PrevKept  == UNCHANGED prev
PrevReset == prev' = [prev EXCEPT ![ix] = NoFrame]

\* The loop over the queue is left.
AmpduReset ==
  /\ pc = "reset" \/ (pc = "txc" /\ ~Completed(ix))
  /\ PrevReset
  /\ pc' = "retry"
  /\ UNCHANGED <<queues, frame, counts, cab, mac, ix, hist>>

Requeue ==
  /\ pc = "retry" /\ retryq # <<>>
  /\ Enqueue(Head(retryq), sup[Head(retryq)].queue)
  /\ retryq' = Tail(retryq)
  /\ UNCHANGED <<down, cabq, sup, rix, cnt, own, ctrl, counts, cab, mac, pc, ix, hist>>

\* The last queue of the loop.  (Faulty: TXQ0 left out.)
LastButOne == ix <= 1
LastQueue  == ix = 0

\* wlan_tx_ampdu_end(), and on to the next queue.
NextQueue ==
  /\ pc = "retry" /\ retryq = <<>>
  /\ AmpduEnd(ix)
  /\ pc' = IF LastQueue THEN "cab" ELSE "txc"
  /\ ix' = IF LastQueue THEN 0 ELSE ix - 1
  /\ UNCHANGED <<queues, sup, rix, cnt, own, ctrl, counts, cab, mac, hist>>

-----------------------------------------------------------------------------
(* wlan_janitor() *)

\* The interface wlan_send_buffered_cab() looks at may be flushed.
FlushDue == trigger[ix] = "ARMED" /\ Late

\* wlan_cab_flush_queue(): one turn of its loop.
FlushOne ==
  /\ pc \in {"cab", "flush"} /\ (pc = "cab" => FlushDue)
  /\ cabq[ix] # <<>>
  /\ EnqueueFirst(Head(cabq[ix]))
  /\ cabq' = [cabq EXCEPT ![ix] = Tail(@)]
  /\ UNCHANGED <<down, retryq, sup, rix, cnt, own, ctrl, counts, cab, mac, pc, ix,
                 missed, tried, result>>

\* What is queued from now on waits for the next DTIM.  (Faulty: forgotten.)
StillArmed == trigger' = trigger
DeferCab   == trigger' = [trigger EXCEPT ![ix] = "DEFER"]

\* The interface is done, and the announcement used up.
NextVif ==
  /\ pc = "cab" /\ (FlushDue => cabq[ix] = <<>>)
  /\ IF FlushDue THEN DeferCab ELSE UNCHANGED trigger
  /\ announced' = IF FlushDue THEN [announced EXCEPT ![ix] = FALSE] ELSE announced
  /\ pc' = IF ix = NV - 1 THEN "ba" ELSE "cab"
  /\ ix' = IF ix = NV - 1 THEN 0 ELSE ix + 1
  /\ UNCHANGED <<queues, frame, prev, counts, clock, mac, hist>>

\* wlan_send_buffered_ba() and wlan_tx_fw().
SendBa ==
  /\ pc = "ba" /\ PeerBars /\ avail
  /\ avail' = FALSE
  /\ sup' = [sup EXCEPT ![FwFrame] = BaSuper]
  /\ cnt' = [cnt EXCEPT ![FwFrame] = 1]
  /\ result' = [result EXCEPT ![FwFrame] = "none"]
  /\ txq' = [txq EXCEPT ![FwQueue] = Append(@, FwFrame)]
  /\ Follows(FwFrame, FwQueue)
  /\ AmpduEnd(FwQueue)
  /\ pc' = "host"
  /\ UNCHANGED <<down, retryq, cabq, rix, own, ctrl, cabLen, bars, cab, mac, ix,
                 missed, tried>>

NoBa ==
  /\ pc = "ba"
  /\ pc' = "host"
  /\ UNCHANGED <<queues, frame, prev, counts, cab, mac, ix, hist>>

-----------------------------------------------------------------------------
(* handle_host_interface() and the commands of the host *)

\* A packet the DMA clipped is reported and its descriptors reclaimed.
DropClipped ==
  LET f == Head(down) IN
  /\ pc = "host" /\ down # <<>> /\ sup[f].clipped
  /\ down' = Tail(down)
  /\ Recycle(f, FALSE)
  /\ UNCHANGED <<txq, retryq, cabq, prev, counts, cab, mac, pc, ix>>

\* wlan_tx(): multicast frames of an access point wait in the CAB queue.
WlanTx ==
  LET f == Head(down)
      s == sup[f]
  IN
  /\ pc = "host" /\ down # <<>> /\ ~s.clipped
  /\ down' = Tail(down)
  /\ cnt' = [cnt EXCEPT ![f] = 1]
  /\ bars' = IF s.bar THEN bars + 1 ELSE bars
  /\ IF s.cab THEN /\ cabLen' = [cabLen EXCEPT ![s.vif] = @ + 1]
                   /\ cabq' = [cabq EXCEPT ![s.vif] = Append(@, f)]
                   /\ UNCHANGED <<txq, baEnd, prev, ahead>>
              ELSE EnqueueFirst(f) /\ UNCHANGED <<cabLen, cabq>>
  /\ UNCHANGED <<retryq, sup, rix, own, ctrl, avail, cab, mac, pc, ix,
                 missed, tried, result>>

LeaveHost ==
  /\ pc = "host" /\ down = <<>>
  /\ pc' = "usb"
  /\ UNCHANGED <<queues, frame, prev, counts, cab, mac, ix, hist>>

\* CARL9170_CMD_BCN_CTRL with CARL9170_BCN_CTRL_CAB_TRIGGER:
\* wlan_modify_beacon() of a beacon whose dtim_count is 0 or not.
ModifyBeacon(v, dtim) ==
  /\ pc = "usb" /\ Beacons
  /\ trigger' = IF cabq[v] # <<>> /\ dtim THEN [trigger EXCEPT ![v] = "ARMED"]
                ELSE IF cabLen[v] = 0 THEN [trigger EXCEPT ![v] = "EMPTY"]
                ELSE trigger
  /\ announced' = [announced EXCEPT ![v] = @ \/ (cabq[v] # <<>> /\ dtim)]
  /\ pc' = "wlan"
  /\ UNCHANGED <<queues, frame, prev, counts, clock, mac, ix, hist>>

\* The same command without the flag: everything goes out at once.
StartFlush(v) ==
  /\ pc = "usb" /\ Beacons
  /\ pc' = "flush" /\ ix' = v
  /\ UNCHANGED <<queues, frame, prev, counts, cab, mac, hist>>

EndFlush ==
  /\ pc = "flush" /\ cabq[ix] = <<>>
  /\ trigger' = [trigger EXCEPT ![ix] = "EMPTY"]
  /\ announced' = [announced EXCEPT ![ix] = FALSE]
  /\ pc' = "wlan" /\ ix' = 0
  /\ UNCHANGED <<queues, frame, prev, counts, clock, mac, hist>>

NoCommand ==
  /\ pc = "usb"
  /\ pc' = "wlan"
  /\ UNCHANGED <<queues, frame, prev, counts, cab, mac, ix, hist>>

-----------------------------------------------------------------------------
(* The host, the MAC and the clock *)

Arrive(f, s) ==
  /\ sup[f] = Idle
  /\ sup' = [sup EXCEPT ![f] = s]
  /\ down' = Append(down, f)
  /\ result' = [result EXCEPT ![f] = "none"]
  /\ UNCHANGED <<txq, retryq, cabq, rix, cnt, baEnd, own, ctrl, prev, counts, cab,
                 mac, pc, ix, ahead, missed, tried>>

\* The MAC sends the packets of a queue in order and stops at one that failed;
\* only an aggregate can fail for want of a block ack, and that does not stop it.
Send(q, outcome) ==
  /\ ~halt[q]
  /\ \E i \in DOMAIN txq[q] :
       LET f == txq[q][i] IN
       /\ own[f] = "HW" /\ \A j \in 1 .. i - 1 : own[txq[q][j]] = "SW"
       /\ outcome = "BAFAIL" => Ampdu(f)
       /\ own' = [own EXCEPT ![f] = "SW"]
       /\ ctrl' = [ctrl EXCEPT ![f] = outcome]
       /\ tried' = [tried EXCEPT ![f] = @ + 1]
  /\ halt' = [halt EXCEPT ![q] = outcome = "TXFAIL"]
  /\ intr' = TRUE
  /\ UNCHANGED <<queues, sup, rix, cnt, baEnd, prev, counts, cab, pc, ix,
                 ahead, missed, result>>

\* Seven milliseconds have passed since the last PRETBTT interrupt.
Tick ==
  /\ ~Late /\ clock' = 1
  /\ UNCHANGED <<queues, frame, prev, counts, trigger, announced, mac, pc, ix, hist>>

TxStatus == TxRearm \/ TxRetryLater \/ TxDone

Command == \E v \in Vifs : StartFlush(v) \/ \E dtim \in BOOLEAN : ModifyBeacon(v, dtim)

Firmware == \/ \E pretbtt \in BOOLEAN : AckInterrupt(pretbtt)
            \/ TxStatus \/ AmpduReset \/ Requeue \/ NextQueue
            \/ FlushOne \/ NextVif \/ SendBa \/ NoBa
            \/ DropClipped \/ WlanTx \/ LeaveHost
            \/ Command \/ EndFlush \/ NoCommand

Next == \/ Firmware
        \/ \E f \in Frames, s \in Supers : Arrive(f, s)
        \/ \E q \in Queues, o \in Outcomes : Send(q, o)
        \/ Tick

Spec == Init /\ [][Next]_vars

\* The main loop runs for ever, the MAC serves every queue that is not
\* stopped, time passes, and the host keeps announcing DTIM beacons, as it has
\* to while an interface is an access point.
Fairness ==
  /\ WF_vars(Firmware) /\ WF_vars(Tick)
  /\ \A q \in Queues : WF_vars(\E o \in Outcomes : Send(q, o))
  /\ \A v \in Vifs : SF_vars(ModifyBeacon(v, TRUE))

FairSpec == Spec /\ Fairness

-----------------------------------------------------------------------------
(* Properties *)

\* No frame is lost or queued twice on its way through down, CAB, TX and retry
\* queues: it is in the queues exactly once from its arrival to its report.
At(s, f) == {i \in DOMAIN s : s[i] = f}
Places(f) == ({"down"} \X At(down, f)) \cup ({"retry"} \X At(retryq, f))
             \cup (UNION {{"tx"} \X {q} \X At(txq[q], f) : q \in Queues})
             \cup (UNION {{"cab"} \X {v} \X At(cabq[v], f) : v \in Vifs})
FrameInOnePlace ==
  \A f \in AllFrames : Cardinality(Places(f)) = IF sup[f] = Idle THEN 0 ELSE 1

\* The counters wlan_modify_beacon(), the BlockAck filter of wlanrx.c and
\* wlan_tx_fw() rely on agree with the frames that are really under way,
\* although different functions count up and down.
Accepted == {f \in Frames : sup[f] # Idle /\ f \notin Elems(down)}
CountersAgree ==
  /\ \A v \in Vifs : cabLen[v] = Cardinality({f \in Accepted : sup[f].cab /\ sup[f].vif = v})
  /\ bars = Cardinality({f \in Accepted : sup[f].bar})
  /\ avail = (sup[FwFrame] = Idle)

\* ampdu_prev never dangles where it is used: outside the loop over queue q it
\* points at an aggregate that is still in queue q.
AmpduPrevLive ==
  \A q \in Queues :
    prev[q] # NoFrame /\ ~(pc \in {"txc", "reset"} /\ ix = q) =>
      prev[q] \in Elems(txq[q]) /\ sup[prev[q]].queue = q

\* No completion is forgotten: a packet the MAC is done with, and with it a
\* stopped queue, is still going to be looked at, because the interrupt is
\* pending or the loop has not passed the queue.
NoForgottenCompletion ==
  \A q \in Queues :
    Completed(q) =>
      intr \/ (pc = "txc" /\ ix >= q) \/ (pc \in {"reset", "retry"} /\ ix > q)

\* The MAC stands still only at a frame that failed.
HaltedAtFailure ==
  \A q \in Queues : halt[q] =>
    \E i \in DOMAIN txq[q] :
      /\ own[txq[q][i]] = "SW" /\ ctrl[txq[q][i]] = "TXFAIL"
      /\ \A j \in DOMAIN txq[q] : own[txq[q][j]] = IF j <= i THEN "SW" ELSE "HW"

\* The frame at i stands before one that was queued earlier.
Overtaken(q, i, j) == i < j /\ txq[q][j] \in ahead[txq[q][i]]

\* Retries keep the order of a queue: a frame is overtaken by a later one only
\* if a block ack missed it.
OrderKept == \A q \in Queues : \A i, j \in DOMAIN txq[q] :
               Overtaken(q, i, j) => txq[q][j] \in missed

\* "We must not mess up the original frame order": no exception.
OriginalOrder == \A q \in Queues : \A i, j \in DOMAIN txq[q] : ~Overtaken(q, i, j)

\* The aggregates moved back from tx_retry are closed: when the handler is done
\* with a queue, the last packet of it, if it was moved back, ends its A-MPDU.
RetriesClosed ==
  [][\A q \in Queues :
       pc = "retry" /\ pc' # "retry" /\ q = ix /\ prev[q] # NoFrame =>
         baEnd'[prev[q]] /\ txq[q][Len(txq[q])] = prev[q]]_vars

\* One announcement pays for one flush.  Once the queue of an interface has gone out
\* after a DTIM beacon, or at an order, the multicast frames queued later stay in the
\* CAB queue until the host announces them by another DTIM beacon or orders a flush,
\* however many beacon intervals, updates and frames of other interfaces come between.
LaterCabWaits ==
  [][\A v \in Vifs :
       Len(cabq'[v]) < Len(cabq[v]) => pc = "flush" \/ announced[v]]_vars

\* A frame's attempts, over the rates before r.
Before(s, r) ==
  LET sum[i \in 0 .. MaxRates + 1] ==
        IF i = 0 THEN 0
        ELSE sum[i - 1] + (IF s.ri[i - 1].tries > 1 THEN s.ri[i - 1].tries ELSE 1)
  IN  sum[r]
Attempts(s) == Before(s, s.last + 1)
Clipped(s)  == s.clipped

\* The transmit path keeps its promise to the host.
Service == INSTANCE TxService WITH
  Frames <- AllFrames, Jobs <- Supers \cup {BaSuper}, Budget <- Attempts,
  Damaged <- Clipped, job <- sup, tries <- tried,
  acked <- [f \in AllFrames |-> own[f] = "SW" /\ ctrl[f] = "ok"]
ServiceSpec == Service!Spec

\* Every frame is reported in the end, multicast frames included.
EveryFrameReported == \A f \in Frames : sup[f] # Idle ~> sup[f] = Idle
=============================================================================

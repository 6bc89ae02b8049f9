------------------------------- MODULE RxPath -------------------------------
(***************************************************************************)
(* The receive path of wlanrx.c: the frames of rx_queue are filtered, passed  *)
(* to up_queue or reclaimed, and BlockAckReqs go through a small ring, to be  *)
(* answered by wlan_send_buffered_ba() with the one descriptor the firmware   *)
(* has for frames of its own.  Device schedules the actions.                  *)
(***************************************************************************)
EXTENDS Integers, Sequences

CONSTANTS NBA,      \* CONFIG_CARL9170FW_BACK_REQS_NUM
          NRX,      \* the blocks of rx_queue and up_queue
          Stations, \* who sends BlockAckReqs
          Own,      \* the address of this station,
          Everyone, \* the broadcast address,
          Zero,     \* and the address 00:00:00:00:00:00
          NoBar     \* an unused slot of ba_cache

ASSUME RxAssumption ==
  /\ NBA \in Nat \ {0} /\ NRX \in Nat \ {0} /\ NoBar \notin Stations
  /\ Own # Everyone /\ Own # Zero /\ Everyone # Zero
  /\ {Own, Everyone, Zero} \cap Stations = {}

Addresses == Stations \cup {Own, Everyone, Zero}

\* CARL9170_RX_FILTER_*
FilterBits == {"BAD", "OTHER_RA", "DECRY_FAIL", "CTL_OTHER", "CTL_PSPOLL",
               "CTL_BACKR", "MGMT", "DATA"}
EVERYTHING == FilterBits

\* Frame types, as the predicates of ieee80211.h tell them apart; "magic" is a
\* data frame with a wake-up pattern, "back" with a station in ans is the answer to
\* a BlockAckReq of the host.
Data == {"data", "magic"}
Ctl  == {"bar", "bar_multi", "back", "pspoll", "cts"}
Mgmt == {"deauth", "disassoc", "beacon", "action"}

\* pattern: the address a magic frame repeats; err: the errors of the MAC status, or
\* the frame is too short for any ("SHORT") or for a BlockAckReq ("CUT"); late:
\* history, the frame came after the interrupt bits of this turn were read.
Frame == [kind : Data \cup Ctl \cup Mgmt, from : Stations, to : Addresses,
          pattern : Addresses, ans : BOOLEAN, late : BOOLEAN,
          err : SUBSET {"SHORT", "CUT", "FCS", "WRONG_RA", "DECRYPT"}]

VARIABLES rxq,      \* the frames in rx_queue that are complete
          up,       \* the blocks in up_queue
          rxFilter, \* fw.wlan.rx_filter
          baCache, baHead, baTail, queuedBa, \* the ring of BlockAckReqs
          fwDesc,   \* fw_desc: "free", "queued" for the MAC, "sent"
          bar,      \* a BlockAckReq of the host: "none", "queued", "answered", "sent"
          queuedBar,\* fw.wlan.queued_bar
          owed,     \* history: the BlockAckReqs to answer, oldest first
          overran   \* history: the ring was full once

baVars == <<baCache, baHead, baTail, queuedBa, owed, overran>>
txVars == <<bar, queuedBar>>
rxVars == <<rxq, up, rxFilter, baVars, fwDesc, txVars>>

RxTypeOK ==
  /\ rxq \in Seq(Frame) /\ up \in 0 .. NRX /\ Len(rxq) + up <= NRX
  /\ rxFilter \subseteq FilterBits
  /\ baCache \in [0 .. NBA - 1 -> Stations \cup {NoBar}]
  /\ baHead \in 0 .. NBA - 1 /\ baTail \in 0 .. NBA - 1 /\ queuedBa \in 0 .. NBA
  /\ fwDesc \in {"free", "queued", "sent"}
  /\ bar \in {"none", "queued", "answered", "sent"} /\ queuedBar \in 0 .. 1
  /\ owed \in Seq(Stations) /\ overran \in BOOLEAN

RxInit ==
  /\ rxq = <<>> /\ up = 0 /\ rxFilter = {}
  /\ baCache = [i \in 0 .. NBA - 1 |-> NoBar]
  /\ baHead = 0 /\ baTail = 0 /\ queuedBa = 0
  /\ fwDesc = "free" /\ bar = "none" /\ queuedBar = 0
  /\ owed = <<>> /\ overran = FALSE

-----------------------------------------------------------------------------
(* The ring of BlockAckReqs *)

Step(i) == (i + 1) % NBA

\* wlan_get_bar_cache_buffer() and the copy of handle_bar(): a full ring loses
\* its oldest request, but only the tail moves.
CacheBar(f) ==
  /\ baCache' = [baCache EXCEPT ![baTail] = f.from]
  /\ baTail' = Step(baTail)
  /\ queuedBa' = IF queuedBa < NBA THEN queuedBa + 1 ELSE queuedBa
  /\ overran' = (overran \/ queuedBa = NBA)
  /\ owed' = IF overran' THEN <<>> ELSE Append(owed, f.from)
  /\ UNCHANGED baHead

\* The requests handle_bar() takes: intact, for us, compressed, of one TID.
\* (Faulty: also those for others.)
AnyBar(f) == f.kind = "bar" /\ f.err \cap {"SHORT", "FCS"} = {}
GoodBar(f) == f.kind = "bar" /\ f.err = {}

\* wlan_send_buffered_ba(): at most one per turn, while fw_desc is at home.
\* (Faulty: the head stays.)
HeadStays == UNCHANGED baHead
HeadMoves == baHead' = Step(baHead)
SendBufferedBa ==
  IF queuedBa > 0 /\ fwDesc = "free"
  THEN /\ HeadMoves
       /\ queuedBa' = queuedBa - 1
       /\ fwDesc' = "queued"
       /\ owed' = IF overran THEN <<>> ELSE Tail(owed)
       /\ UNCHANGED <<baCache, baTail, overran>>
  ELSE UNCHANGED <<baVars, fwDesc>>

-----------------------------------------------------------------------------
(* The filter *)

\* wlan_rx_filter(): a damaged frame has one bit, whatever else it is.  A
\* BlockAck has none while the host waits for one.
KindBits(f) ==
  CASE f.kind \in Data -> {"DATA"}
    [] f.kind \in Mgmt -> {"MGMT"}
    [] f.kind \in {"bar", "bar_multi"} -> {"CTL_BACKR"}
    [] f.kind = "pspoll" -> {"CTL_PSPOLL"}
    [] f.kind = "back" /\ queuedBar > 0 -> {}
    [] OTHER -> {"CTL_OTHER"}

Damaged(f) == f.err \cap {"SHORT", "FCS"} # {}

FilterOf(f) ==
  IF Damaged(f) THEN {"BAD"}
  ELSE KindBits(f) \cup (IF "WRONG_RA" \in f.err THEN {"OTHER_RA"} ELSE {})
                   \cup (IF "DECRYPT" \in f.err THEN {"DECRY_FAIL"} ELSE {})

Dropped(f) == FilterOf(f) \cap rxFilter # {}

\* One turn of handle_wlan_rx(), the first frame of rx_queue.
RxFrame ==
  LET f == Head(rxq) IN
  /\ rxq # <<>>
  /\ IF GoodBar(f) THEN CacheBar(f) ELSE UNCHANGED baVars
  /\ rxq' = Tail(rxq)
  /\ up' = IF Dropped(f) THEN up ELSE up + 1
  /\ UNCHANGED <<rxFilter, fwDesc, txVars>>

\* CARL9170_CMD_RX_FILTER
SetRxFilter(bits) ==
  rxFilter' = bits /\ UNCHANGED <<rxq, up, baVars, fwDesc, txVars>>

-----------------------------------------------------------------------------
(* The transmit path, as far as it meets this one: WlanTx has the rest. *)

\* wlan_tx() with a BlockAckReq of the host.
QueueBar ==
  /\ bar = "none"
  /\ bar' = "queued" /\ queuedBar' = queuedBar + 1
  /\ UNCHANGED <<rxq, up, rxFilter, baVars, fwDesc>>

\* handle_wlan_tx_completion(): what the MAC has sent is counted off.
TxCompletion ==
  /\ bar' = IF bar = "sent" THEN "none" ELSE bar
  /\ queuedBar' = IF bar = "sent" THEN queuedBar - 1 ELSE queuedBar
  /\ fwDesc' = IF fwDesc = "sent" THEN "free" ELSE fwDesc
  /\ UNCHANGED <<rxq, up, rxFilter, baVars>>

-----------------------------------------------------------------------------
(* The MAC and the upload engine *)

Receive(f) ==
  /\ Len(rxq) + up < NRX
  /\ rxq' = Append(rxq, f)

\* The peer answers the host's BlockAckReq; the MAC ends the transmission after
\* it, or without an answer.
BarAnswered(f) ==
  /\ bar = "queued" /\ bar' = "answered"
  /\ Receive(f)
  /\ UNCHANGED <<up, rxFilter, baVars, fwDesc, queuedBar>>

BarSent ==
  /\ bar \in {"queued", "answered"} /\ bar' = "sent"
  /\ UNCHANGED <<rxq, up, rxFilter, baVars, fwDesc, queuedBar>>

FwFrameSent ==
  /\ fwDesc = "queued" /\ fwDesc' = "sent"
  /\ UNCHANGED <<rxq, up, rxFilter, baVars, txVars>>

Uploaded ==
  /\ up > 0 /\ up' = up - 1
  /\ UNCHANGED <<rxq, rxFilter, baVars, fwDesc, txVars>>

-----------------------------------------------------------------------------
(* Properties *)

\* Until the ring of BlockAckReqs overruns for the first time, it holds exactly
\* the requests that are not answered yet, in the order they came; so each of
\* them gets one BlockAck, made from its own fields.  After an overrun head and
\* tail are out of step for good.
BarsInOrder ==
  ~overran => /\ queuedBa = Len(owed)
              /\ baTail = (baHead + queuedBa) % NBA
              /\ \A i \in 1 .. Len(owed) : baCache[(baHead + i - 1) % NBA] = owed[i]
=============================================================================

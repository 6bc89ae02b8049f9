---------------------------- MODULE TxStatusRing ----------------------------
(***************************************************************************)
(* The TX status cache of wlantx.c: tx_status_cache with its head index,    *)
(* tail index and fill level.  wlan_tx_complete() takes the slot at the     *)
(* tail, flushing the cache to the host first when it is full;              *)
(* wlan_janitor() drains it once per main loop turn.  One action per step   *)
(* of these loops; the firmware is single-threaded, so pc says which        *)
(* function is running.                                                    *)
(***************************************************************************)
EXTENDS Integers, Sequences

CONSTANTS Statuses, \* the values of struct carl9170_tx_status
          N,        \* CARL9170_TX_STATUS_NUM, the slots of the cache
          Splice    \* CARL9170_RSP_TX_STATUS_NUM, the reports per message

ASSUME RingAssumption == N \in Nat \ {0} /\ Splice \in Nat \ {0}

VARIABLES cache,    \* tx_status_cache
          head,     \* tx_status_head_idx
          tail,     \* tx_status_tail_idx
          pending,  \* tx_status_pending
          pc,       \* the function that runs
          slot,     \* tmp of wlan_get_tx_status_buffer()
          cur,      \* the report wlan_tx_complete() is about to write
          out       \* the body of the CARL9170_RSP_TXCOMP message just sent

vars == <<cache, head, tail, pending, pc, slot, cur, out>>

Idx == 0 .. N - 1

TypeOK == /\ cache \in [Idx -> Statuses]
          /\ head \in Idx
          /\ tail \in Idx
          /\ pending \in 0 .. N
          /\ pc \in {"idle", "flush", "fill", "drain"}
          /\ slot \in Idx
          /\ cur \in Statuses
          /\ out \in Seq(Statuses)

\* The firmware's memory is zeroed at boot: an arbitrary but fixed report.
Init == /\ \E s \in Statuses : cache = [i \in Idx |-> s] /\ cur = s
        /\ head = 0 /\ tail = 0 /\ pending = 0
        /\ pc = "idle"
        /\ slot = 0
        /\ out = <<>>

-----------------------------------------------------------------------------
\* The indices move round the cache.  (Faulty: by one slot whatever the
\* message holds.)
OneSlot(i, n) == (i + 1) % N
Advance(i, n) == (i + n) % N

\* The cache is flushed before it overflows.  (Faulty: the check forgotten.)
NeverFull == FALSE
CacheFull == pending = N

\* The number of reports the next message splices together.  (Faulty: one too
\* few at the edge.)
SpliceLenShort ==
  LET m == IF pending < Splice THEN pending ELSE Splice
  IN  IF m < N - 1 - head THEN m ELSE N - 1 - head
SpliceLen ==
  LET m == IF pending < Splice THEN pending ELSE Splice
  IN  IF m < N - head THEN m ELSE N - head

\* Handing a buffer out: the tail moves first, then a full cache is flushed.
GetBuffer(s) ==
  /\ pc = "idle"
  /\ slot' = tail
  /\ tail' = Advance(tail, 1)
  /\ cur' = s
  /\ pc' = IF CacheFull THEN "flush" ELSE "fill"
  /\ out' = <<>>
  /\ UNCHANGED <<cache, head, pending>>

\* One turn of the loop of wlan_send_buffered_tx_status().
SendMessage ==
  /\ pc \in {"flush", "drain"}
  /\ pending > 0
  /\ out' = [i \in 1 .. SpliceLen |-> cache[head + i - 1]]
  /\ pending' = pending - SpliceLen
  /\ head' = Advance(head, SpliceLen)
  /\ UNCHANGED <<cache, tail, pc, slot, cur>>

\* The loop ends; the function returns to its caller.
SendReturn ==
  /\ pc \in {"flush", "drain"}
  /\ pending = 0
  /\ pc' = IF pc = "flush" THEN "fill" ELSE "idle"
  /\ out' = <<>>
  /\ UNCHANGED <<cache, head, tail, pending, slot, cur>>

\* The buffer counts as pending and wlan_tx_complete() writes the report.
Fill ==
  /\ pc = "fill"
  /\ pending' = pending + 1
  /\ cache' = [cache EXCEPT ![slot] = cur]
  /\ pc' = "idle"
  /\ out' = <<>>
  /\ UNCHANGED <<head, tail, slot, cur>>

\* wlan_janitor() calls wlan_send_buffered_tx_status().
Drain ==
  /\ pc = "idle"
  /\ pc' = "drain"
  /\ out' = <<>>
  /\ UNCHANGED <<cache, head, tail, pending, slot, cur>>

Next == \/ \E s \in Statuses : GetBuffer(s)
        \/ SendMessage
        \/ SendReturn
        \/ Fill
        \/ Drain

\* The processor executes what it has begun, and the main loop comes back to
\* the janitor whatever else it does.
Fairness == WF_vars(SendMessage \/ SendReturn \/ Fill) /\ SF_vars(Drain)

Spec == Init /\ [][Next]_vars

FairSpec == Spec /\ Fairness

-----------------------------------------------------------------------------
(* Properties *)

\* The slot the i-th unsent report is in, oldest first.
SlotOf(i) == (head + i - 1) % N

\* A buffer is handed out between GetBuffer and Fill.
Reserved == pc \in {"flush", "fill"}

\* Head, tail and fill level always describe the same stretch of the cache:
\* whichever way wlan_get_tx_status_buffer() and the splicing loop interleave
\* their updates of the three, the tail is where the next report belongs.
RingConsistent ==
  /\ ~Reserved => tail = (head + pending) % N
  /\ Reserved  => tail = (slot + 1) % N
  /\ pc = "fill"  => pending < N /\ slot = (head + pending) % N
  /\ pc = "flush" => slot = (head + pending) % N

\* wlan_tx_complete() never writes into a slot whose report is still unsent.
NoOverwrite ==
  [][\A i \in 1 .. pending : pending' > pending => cache'[SlotOf(i)] = cache[SlotOf(i)]]_vars

\* The unsent reports, oldest first.
Unsent == [i \in 1 .. pending |-> cache[SlotOf(i)]]

\* The cache implements the promise: each report once, in order of completion.
Fifo == INSTANCE StatusFifo WITH unsent <- Unsent
FifoSpec == Fifo!Spec

\* The splicing loop ends wherever the head stands, and no report is kept
\* from the host for ever.
Reported == pending > 0 ~> pending = 0
=============================================================================

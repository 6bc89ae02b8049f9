------------------------------ MODULE WlanHang ------------------------------
(***************************************************************************)
(* The hang check and the MAC reset of wlan.c: timer 0 finds the queues whose *)
(* DMA position stands still and counts the reasons to reset the MAC; the     *)
(* reset kills the frame a queue hangs at and points the MAC at the frames it *)
(* has not processed.  It works on the descriptors the completion handler     *)
(* works on, which may not have looked yet at what the MAC did before.        *)
(*                                                                         *)
(* A ring is the sequence of its descriptors with the terminator last, a      *)
(* packet is one descriptor, and dma_put() is one step (DmaRing splits it).   *)
(***************************************************************************)
EXTENDS Integers, Sequences, FiniteSets

CONSTANTS NB,       \* the blocks of down_queue
          NQ,       \* __AR9170_NUM_TX_QUEUES
          Stuck,    \* CARL9170FW_TX_MAC_RESET, 7 in the code
          Tries,    \* bound of the model: the attempts a frame has
          Outcomes, \* environment: how attempts end
          Overruns, \* environment: whether all of a tick's frames were lost
          Restarts  \* environment: whether the host sends CMD_SWRST

ASSUME HangAssumption ==
  /\ NB \in Nat \ {0} /\ NQ \in Nat \ {0}
  /\ Stuck \in Nat \ {0} /\ Tries \in Nat \ {0}
  /\ Outcomes \subseteq {"ok", "TXFAIL", "BAFAIL"} /\ "ok" \in Outcomes
  /\ Overruns \subseteq BOOLEAN /\ FALSE \in Overruns
  /\ Restarts \in BOOLEAN

Queues  == 0 .. NQ - 1
Down    == NQ                       \* down_queue
Retry   == NQ + 1                   \* tx_retry
Rings   == 0 .. NQ + 1
Buffers == 1 .. NB
Null    == 0
Descs   == 1 .. NB + NQ + 2         \* the blocks and a terminator per ring

OFF   == 0                          \* enum carl9170_mac_reset_state
RESET == 2
FORCE == 3

VARIABLES ring,      \* the descriptors of each ring
          data,      \* DESC_PAYLOAD of each descriptor
          own, ctrl, \* its owner and its AR9170_CTRL_FAIL bits
          queue,     \* super->s.queue of the frame in each buffer
          left,      \* the attempts wlan_tx_consume_retry() still grants it
          cur, halt, \* the descriptor the MAC stands at, stopped or not
          intr,      \* TXC or RETRY_FAIL in the register or in soft_int
          lastSuper, lastSuperNum, macReset, \* fw.wlan
          pc, ix,    \* the place in the main loop, the queue of its loop
          still,     \* history: the ticks since a queue last moved, with the MAC in it
          quiet,     \* history: those in which it had frames and since which it
                     \* reported none, up to Stuck
          killed     \* history: the frames a reset has killed

frame == <<queue, left>>
desc  == <<data, own, ctrl>>
mac   == <<cur, halt>>
check == <<lastSuper, lastSuperNum, macReset>>
hist  == <<still, quiet, killed>>
vars  == <<ring, desc, frame, mac, intr, check, pc, ix, hist>>

TypeOK ==
  /\ ring \in [Rings -> Seq(Descs)] /\ \A r \in Rings : ring[r] # <<>>
  /\ data \in [Descs -> Buffers \cup {Null}]
  /\ own \in [Descs -> {"HW", "SW"}]
  /\ ctrl \in [Descs -> {"ok", "TXFAIL", "BAFAIL"}]
  /\ queue \in [Buffers -> Queues] /\ left \in [Buffers -> 0 .. Tries - 1]
  /\ cur \in [Queues -> Descs] /\ halt \in [Queues -> BOOLEAN]
  /\ intr \in BOOLEAN
  /\ lastSuper \in [Queues -> Buffers \cup {Null}]
  /\ lastSuperNum \in [Queues -> 0 .. Stuck]
  /\ macReset \in OFF .. FORCE + NQ + 1
  /\ pc \in {"wlan", "txc", "retry", "host", "reset"} /\ ix \in Queues
  /\ still \in [Queues -> Nat] /\ quiet \in [Queues -> 0 .. Stuck]
  /\ killed \subseteq Buffers

Init ==
  /\ ring = [r \in Rings |->
       <<NB + 1 + r>> \o (IF r = Down THEN [b \in Buffers |-> b] ELSE <<>>)]
  /\ data = [d \in Descs |-> IF d = NB + 1 + Down THEN 1
                             ELSE IF d < NB THEN d + 1 ELSE Null]
  /\ own = [d \in Descs |-> IF data[d] = Null THEN "SW" ELSE "HW"]
  /\ ctrl = [d \in Descs |-> "ok"]
  /\ queue = [b \in Buffers |-> 0] /\ left = [b \in Buffers |-> 0]
  /\ cur = [q \in Queues |-> NB + 1 + q] /\ halt = [q \in Queues |-> FALSE]
  /\ intr = FALSE
  /\ lastSuper = [q \in Queues |-> Null] /\ lastSuperNum = [q \in Queues |-> 0]
  /\ macReset = OFF
  /\ pc = "wlan" /\ ix = 0
  /\ still = [q \in Queues |-> 0] /\ quiet = [q \in Queues |-> 0] /\ killed = {}

-----------------------------------------------------------------------------
(* The rings *)

Empty(r)      == Len(ring[r]) = 1
Terminator(r) == ring[r][Len(ring[r])]
Pending(r)    == ~Empty(r) /\ own[Head(ring[r])] = "SW"

\* dma_unlink_head() of ring r, dma_put() or dma_reclaim() to ring s: the packet's
\* descriptor becomes the terminator, its contents go into the old one.
Move(r, s) ==
  LET d == Head(ring[r])
      t == Terminator(s)
  IN  /\ ring' = [ring EXCEPT ![r] = Tail(@), ![s] = Append(@, d)]
      /\ data' = [data EXCEPT ![t] = data[d], ![d] = Null]
      /\ own' = [own EXCEPT ![t] = "HW", ![d] = "SW"]
      /\ ctrl' = [ctrl EXCEPT ![t] = "ok", ![d] = "ok"]

\* The first descriptor of a ring the MAC has not processed, or its terminator:
\* __for_each_desc_bits(..., AR9170_OWN_BITS_SW).
FirstOf(s) ==
  LET open == {i \in DOMAIN s : i = Len(s) \/ own[s[i]] # "SW"}
  IN  s[CHOOSE i \in open : \A j \in open : i <= j]

\* The MAC stands in the ring it works on.
Inside(q) == \E i \in DOMAIN ring[q] : ring[q][i] = cur[q]

\* The descriptor the MAC goes on to: nextAddr; a terminator leads to itself.
After(d) ==
  LET s == ring[CHOOSE r \in Rings : \E i \in 1 .. Len(ring[r]) : ring[r][i] = d]
      i == CHOOSE i \in 1 .. Len(s) : s[i] = d
  IN  IF i = Len(s) THEN d ELSE s[i + 1]

-----------------------------------------------------------------------------
(* handle_wlan() *)

AckInterrupt ==
  /\ pc = "wlan"
  /\ intr' = FALSE
  /\ pc' = IF intr THEN "txc" ELSE "host"
  /\ ix' = IF intr THEN NQ - 1 ELSE 0
  /\ UNCHANGED <<ring, desc, frame, mac, check, hist>>

\* The queue has moved; it has reported a frame: wlan_tx_status() updates the
\* hang check.  (Faulty: does not.)
Moved(q)    == still' = [still EXCEPT ![q] = 0]
Reported(q) == Moved(q) /\ quiet' = [quiet EXCEPT ![q] = 0]
NoNews(q)   == Reported(q) /\ UNCHANGED check
Alive(q)    == /\ lastSuperNum' = [lastSuperNum EXCEPT ![q] = 0]
               /\ UNCHANGED <<lastSuper, macReset>>
               /\ Reported(q)

\* A frame put into an empty queue starts it.
Starts(q) == still' = IF Empty(q) THEN [still EXCEPT ![q] = 0] ELSE still

\* wlan_txunstuck(): the MAC goes on at d.
Unstuck(d) == /\ cur' = [cur EXCEPT ![ix] = d]
              /\ halt' = [halt EXCEPT ![ix] = FALSE]

\* A frame that failed is handed back to the MAC where it is: dma_rearm().
TxRearm ==
  LET d == Head(ring[ix])
      b == data[d]
  IN
  /\ pc = "txc" /\ Pending(ix) /\ ctrl[d] = "TXFAIL" /\ left[b] > 0
  /\ left' = [left EXCEPT ![b] = @ - 1]
  /\ own' = [own EXCEPT ![d] = "HW"] /\ ctrl' = [ctrl EXCEPT ![d] = "ok"]
  /\ Unstuck(d)
  /\ Alive(queue[b])
  /\ pc' = "retry"
  /\ UNCHANGED <<ring, data, queue, intr, ix, killed>>

\* An aggregate the block ack missed waits in tx_retry.
TxRetryLater ==
  LET b == data[Head(ring[ix])] IN
  /\ pc = "txc" /\ Pending(ix) /\ ctrl[Head(ring[ix])] = "BAFAIL" /\ left[b] > 0
  /\ left' = [left EXCEPT ![b] = @ - 1]
  /\ Move(ix, Retry)
  /\ Alive(queue[b])
  /\ UNCHANGED <<queue, mac, intr, pc, ix, killed>>

\* The frame is reported and its buffer free.
TxDone ==
  LET d == Head(ring[ix])
      b == data[d]
  IN
  /\ pc = "txc" /\ Pending(ix) /\ (ctrl[d] # "ok" => left[b] = 0)
  /\ Move(ix, Down)
  /\ IF ctrl[d] = "TXFAIL" THEN Unstuck(FirstOf(Tail(ring[ix]))) /\ pc' = "retry"
                           ELSE UNCHANGED <<cur, halt, pc>>
  /\ Alive(queue[b])
  /\ left' = [left EXCEPT ![b] = 0]
  /\ killed' = killed \ {b}
  /\ UNCHANGED <<queue, intr, ix>>

LeaveQueue ==
  /\ pc = "txc" /\ ~Pending(ix)
  /\ pc' = "retry"
  /\ UNCHANGED <<ring, desc, frame, mac, intr, check, ix, hist>>

Requeue ==
  LET b == data[Head(ring[Retry])] IN
  /\ pc = "retry" /\ ~Empty(Retry)
  /\ Move(Retry, queue[b])
  /\ Starts(queue[b])
  /\ UNCHANGED <<frame, mac, intr, check, pc, ix, quiet, killed>>

NextQueue ==
  /\ pc = "retry" /\ Empty(Retry)
  /\ pc' = IF ix = 0 THEN "host" ELSE "txc"
  /\ ix' = IF ix = 0 THEN 0 ELSE ix - 1
  /\ UNCHANGED <<ring, desc, frame, mac, intr, check, hist>>

-----------------------------------------------------------------------------
(* handle_host_interface() and handle_usb() *)

TakeDown ==
  LET b == data[Head(ring[Down])] IN
  /\ pc = "host" /\ Pending(Down)
  /\ Move(Down, queue[b])
  /\ left' = [left EXCEPT ![b] = Tries - 1]
  /\ Starts(queue[b])
  /\ UNCHANGED <<queue, mac, intr, check, pc, ix, quiet, killed>>

\* CARL9170_CMD_SWRST.
Swrst ==
  /\ Restarts /\ pc = "host" /\ ~Pending(Down) /\ macReset # FORCE
  /\ macReset' = FORCE
  /\ UNCHANGED <<ring, desc, frame, mac, intr, lastSuper, lastSuperNum, pc, ix, hist>>

-----------------------------------------------------------------------------
(* handle_timer() *)

NotDue ==
  /\ pc = "host" /\ ~Pending(Down)
  /\ pc' = "wlan"
  /\ UNCHANGED <<ring, desc, frame, mac, intr, check, ix, hist>>

\* wlan_check_hang() finds the queue at the payload of the last tick.
Same(q) == ~Empty(q) /\ data[cur[q]] = lastSuper[q]
Hung    == {q \in Queues : Same(q) /\ lastSuperNum[q] + 1 >= Stuck}

\* wlan_timer(): what was counted up in this tick is kept, or leads to the
\* reset; what was not is counted down.  (Faulty: counted down always.)
SettleDown(n) == macReset' = IF n < RESET /\ n > 0 THEN n - 1 ELSE n
Settle(n) ==
  macReset' = IF n < RESET /\ n > 0 /\ n = macReset THEN n - 1 ELSE n

Timer(overrun) ==
  /\ pc = "host" /\ ~Pending(Down)
  /\ lastSuper' = [q \in Queues |-> IF Empty(q) THEN lastSuper[q] ELSE data[cur[q]]]
  /\ lastSuperNum' = [q \in Queues |-> IF Empty(q) THEN lastSuperNum[q]
                                       ELSE IF ~Same(q) THEN 0
                                       ELSE IF lastSuperNum[q] < Stuck THEN lastSuperNum[q] + 1
                                       ELSE Stuck]
  /\ Settle(macReset + Cardinality(Hung) + (IF overrun THEN 1 ELSE 0))
  /\ pc' = IF macReset' >= RESET THEN "reset" ELSE "wlan"
  /\ still' = [q \in Queues |-> IF Empty(q) \/ ~Inside(q) THEN 0 ELSE still[q] + 1]
  /\ quiet' = [q \in Queues |-> IF Empty(q) THEN 0
                                ELSE IF quiet[q] < Stuck THEN quiet[q] + 1 ELSE Stuck]
  /\ UNCHANGED <<ring, desc, frame, mac, intr, ix, killed>>

\* The frame wlan_mac_reset() kills in queue q, and what it leaves of its tries
\* and of mac_reset.  (Faulty: any frame; the tries kept; not reset.)
KillsAny(q) == FirstOf(ring[q]) # Terminator(q) /\ lastSuper[q] = data[FirstOf(ring[q])]
Kills(q) ==
  LET d == FirstOf(ring[q])
  IN  d # Terminator(q) /\ lastSuperNum[q] >= Stuck /\ lastSuper[q] = data[d]
KeptTries(b) == left[b]
KilledTries(b) == 0
Counted   == macReset
AfterReset == OFF
Killed == {FirstOf(ring[q]) : q \in {p \in Queues : Kills(p)}}

\* wlan_mac_reset(): the killed frame looks like one a block ack missed and has
\* used up its tries; every queue goes on behind what is processed.
MacReset ==
  /\ pc = "reset"
  /\ own' = [d \in Descs |-> IF d \in Killed THEN "SW" ELSE own[d]]
  /\ ctrl' = [d \in Descs |-> IF d \in Killed THEN "BAFAIL" ELSE ctrl[d]]
  /\ left' = [b \in Buffers |-> IF \E d \in Killed : data[d] = b THEN KilledTries(b) ELSE left[b]]
  /\ lastSuper' = [q \in Queues |-> IF Kills(q) THEN Null ELSE lastSuper[q]]
  /\ lastSuperNum' = [q \in Queues |-> IF Kills(q) THEN 0 ELSE lastSuperNum[q]]
  /\ cur' = [q \in Queues |->
               IF Kills(q) THEN After(FirstOf(ring[q])) ELSE FirstOf(ring[q])]
  /\ halt' = [q \in Queues |-> FALSE]
  /\ intr' = TRUE
  /\ macReset' = AfterReset
  /\ killed' = killed \cup {data[d] : d \in Killed}
  /\ pc' = "wlan"
  /\ UNCHANGED <<ring, data, queue, ix, still, quiet>>

-----------------------------------------------------------------------------
(* The host and the MAC *)

Arrive(q) ==
  \E i \in 1 .. Len(ring[Down]) - 1 :
    LET d == ring[Down][i] IN
    /\ own[d] = "HW" /\ \A j \in 1 .. i - 1 : own[ring[Down][j]] = "SW"
    /\ own' = [own EXCEPT ![d] = "SW"]
    /\ queue' = [queue EXCEPT ![data[d]] = q]
    /\ UNCHANGED <<ring, data, ctrl, left, mac, intr, check, pc, ix, hist>>

\* The MAC sends what it stands at, if it owns it; while the firmware resets it,
\* it does not.
Send(q, outcome) ==
  LET d == cur[q] IN
  /\ pc # "reset" /\ ~halt[q] /\ ~Empty(q) /\ own[d] = "HW"
  /\ own' = [own EXCEPT ![d] = "SW"]
  /\ ctrl' = [ctrl EXCEPT ![d] = outcome]
  /\ halt' = [halt EXCEPT ![q] = outcome = "TXFAIL"]
  /\ cur' = [cur EXCEPT ![q] = IF outcome = "TXFAIL" THEN d ELSE After(d)]
  /\ intr' = TRUE
  /\ IF Inside(q) THEN Moved(q) ELSE UNCHANGED still
  /\ UNCHANGED <<ring, data, frame, check, pc, ix, quiet, killed>>

Firmware == \/ AckInterrupt \/ TxRearm \/ TxRetryLater \/ TxDone
            \/ LeaveQueue \/ Requeue \/ NextQueue
            \/ TakeDown \/ NotDue \/ MacReset
            \/ \E o \in Overruns : Timer(o)

Next == \/ Firmware \/ Swrst
        \/ \E q \in Queues : Arrive(q) \/ \E o \in Outcomes : Send(q, o)

Spec == Init /\ [][Next]_vars

-----------------------------------------------------------------------------
(* Properties *)

\* A reset kills only frames the MAC stands at, in queues that had frames and
\* reported none for as many ticks as the hang check waits, whatever asked for the
\* reset and however often the buffer was seen before (last_super outlives the
\* frame it was taken from).
KillsOnlyStuck ==
  [][\A b \in killed' \ killed :
       \E q \in Queues : data[cur[q]] = b /\ quiet[q] >= Stuck]_vars

\* A frame wlan_mac_reset() has killed is not sent again before it is reported,
\* although it looks to wlan_tx_status() like any frame that may be retried.
KilledStaysDead == \A q \in Queues : own[cur[q]] = "HW" => data[cur[q]] \notin killed

\* A killed frame stays dead, and the state is well typed, however MAC and reset interleave.
Inv == TypeOK /\ KilledStaysDead

\* Every queue recovers: one that is not empty and that the MAC stands in moves
\* again within the ticks the hang check takes to reset the MAC, counted once for
\* each place it may stand at in turn: the terminator, a frame behind others and the
\* first frame, where a reset puts it.  Nothing is asked of the MAC here.
Recovers == \A q \in Queues : still[q] <= 3 * (Stuck + 2)
=============================================================================

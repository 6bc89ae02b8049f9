------------------------------ MODULE IntRing ------------------------------
(***************************************************************************)
(* Responses and traps on their way to the host (usb/main.c): the ring of   *)
(* int_buf slots that send_cmd_to_host() and usb_reg_out() fill, the loop   *)
(* of usb_status_in() that packs them into the RSP buffer, the descriptor   *)
(* int_desc that carries the buffer through the up queue, and the interrupt *)
(* masks that meter the host's commands.  The main loop runs beside the PTA *)
(* DMA engine, the USB endpoint and the host.                               *)
(***************************************************************************)
EXTENDS Integers, Sequences

CONSTANTS N,       \* CARL9170_INT_RQ_CACHES, the slots of the ring
          Lens,    \* the body lengths (hdr.len) of responses and traps
          Room,    \* AR9170_BLOCK_SIZE - AR9170_INT_MAGIC_HEADER_SIZE
          MaxMsgs  \* bound of the model: the responses and traps of a run

ASSUME IntAssumption ==
  /\ N \in Nat \ {0, 1}
  /\ Lens \subseteq Nat /\ Lens # {}
  /\ Room \in Nat /\ \A l \in Lens : l + 8 <= Room
  /\ MaxMsgs \in Nat \ {0}

VARIABLES buf,      \* int_buf; a message is its number, its hdr.seq, its hdr.len
          head,     \* int_head_index
          tail,     \* int_tail_index
          pending,  \* int_pending
          avail,    \* int_desc_available
          flight,   \* int_desc: "none", "queued" on up_queue, "done" by the DMA
          rsp,      \* the messages packed into dma_mem.reserved.rsp
          rem,      \* rem of usb_status_in()
          inOff,    \* AR9170_USB_INTR_DISABLE_IN_INT is set
          outOff,   \* AR9170_USB_INTR_DISABLE_OUT_INT is set
          level1,   \* the bits of usb_interrupt_level1 still to be served
          pc,       \* the part of the main loop that runs
          cmd,      \* a command of the host waits in the EP4 FIFO
          fifo,     \* the EP3 FIFO holds data the host has not read
          made,     \* history: the messages made so far
          owed,     \* history: the messages made and not yet packed
          lastId,   \* history: the number of the last message packed
          overrun   \* history: a message was put into a full ring

ring == <<buf, head, tail, pending>>
desc == <<avail, flight, rsp, rem>>
hist == <<made, owed, lastId, overrun>>
vars == <<ring, desc, inOff, outOff, level1, pc, cmd, fifo, hist>>

Slots == 0 .. N - 1
Message == [id : Nat, seq : Slots, len : Lens]

TypeOK ==
  /\ buf \in [Slots -> Message]
  /\ head \in Slots /\ tail \in Slots
  /\ pending \in 0 .. N
  /\ avail \in BOOLEAN
  /\ flight \in {"none", "queued", "done"}
  /\ rsp \in Seq(Message) /\ rem \in Nat
  /\ inOff \in BOOLEAN /\ outOff \in BOOLEAN
  /\ level1 \subseteq {4, 6}
  /\ pc \in {"wlan", "host", "usb", "level1", "pack", "usb_end"}
  /\ cmd \in BOOLEAN /\ fifo \in BOOLEAN
  /\ made \in Nat /\ owed \in Seq(Message) /\ lastId \in Nat
  /\ overrun \in BOOLEAN

\* The indices move round the ring.  (Faulty: wrapping one slot early.)
WrapEarly(i) == (i + 1) % (N - 1)
Advance(i)   == (i + 1) % N

\* get_int_buf() and the stores of its callers: the slot at the tail takes
\* the new message; a ring that is full already only stops counting.
Put(len) ==
  LET m == [id |-> made + 1, seq |-> tail, len |-> len]
  IN  /\ buf' = [buf EXCEPT ![tail] = m]
      /\ tail' = Advance(tail)
      /\ pending' = IF pending # N THEN pending + 1 ELSE pending
      /\ made' = made + 1
      /\ owed' = Append(owed, m)
      /\ overrun' = (overrun \/ pending = N)
      /\ UNCHANGED <<head, lastId>>

\* The bootloader leaves EP4 masked or not; start() has queued RSP_BOOT.
Init ==
  LET boot(l) == [id |-> 1, seq |-> 0, len |-> l]
  IN  \E l \in Lens, off \in BOOLEAN :
        /\ buf = [i \in Slots |-> IF i = 0 THEN boot(l)
                                           ELSE [id |-> 0, seq |-> 0, len |-> l]]
        /\ owed = <<boot(l)>>
        /\ head = 0 /\ tail = 1 /\ pending = 1
        /\ avail = TRUE /\ flight = "none" /\ rsp = <<>> /\ rem = Room
        /\ inOff = FALSE /\ outOff = off
        /\ level1 = {} /\ pc = "wlan"
        /\ cmd = FALSE /\ fifo = FALSE
        /\ made = 1 /\ lastId = 0 /\ overrun = FALSE

-----------------------------------------------------------------------------
(* The firmware *)

\* handle_wlan(), handle_timer() and rf.c send traps and TX reports.
SendCmdToHost(len) ==
  /\ pc = "wlan"
  /\ made + (IF cmd THEN 1 ELSE 0) < MaxMsgs
  /\ Put(len)
  /\ inOff' = FALSE
  /\ UNCHANGED <<desc, outOff, level1, pc, cmd, fifo>>

LeaveWlan ==
  /\ pc = "wlan"
  /\ pc' = "host"
  /\ UNCHANGED <<ring, desc, inOff, outOff, level1, cmd, fifo, hist>>

\* handle_upload(): the descriptor that carries the RSP buffer is recognised
\* by its payload and taken back.
HandleUpload ==
  /\ pc = "host"
  /\ pc' = "usb"
  /\ IF flight = "done" THEN flight' = "none" /\ avail' = TRUE
                        ELSE UNCHANGED <<flight, avail>>
  /\ UNCHANGED <<ring, rsp, rem, inOff, outOff, level1, cmd, fifo, hist>>

\* handle_usb() samples the interrupt group once.
SampleLevel1 ==
  /\ pc = "usb"
  /\ level1' = (IF cmd /\ ~outOff THEN {4} ELSE {})
                 \cup (IF ~inOff /\ ~fifo THEN {6} ELSE {})
  /\ pc' = "level1"
  /\ UNCHANGED <<ring, desc, inOff, outOff, cmd, fifo, hist>>

\* usb_reg_out(): mask EP4, read the command, answer it, unmask EP3.  The
\* response repeats the command's hdr.seq bits, which the host leaves zero.
UsbRegOut(len) ==
  /\ pc = "level1" /\ 4 \in level1
  /\ outOff' = TRUE
  /\ cmd' = FALSE
  /\ Put(len)
  /\ inOff' = FALSE
  /\ level1' = level1 \ {4}
  /\ UNCHANGED <<desc, pc, fifo>>

\* The descriptor is taken and EP3 masked.  (Faulty: int_desc_available stays.)
TakeDescKept == avail' = avail /\ inOff' = TRUE
TakeDesc     == avail' = FALSE /\ inOff' = TRUE

\* usb_status_in() begins: nothing while the descriptor is away, else it takes
\* the descriptor and masks EP3.
UsbStatusIn ==
  /\ pc = "level1" /\ 4 \notin level1 /\ 6 \in level1
  /\ level1' = level1 \ {6}
  /\ IF avail THEN /\ TakeDesc
                   /\ rem' = Room /\ rsp' = <<>>
                   /\ pc' = "pack"
              ELSE pc' = "usb_end" /\ UNCHANGED <<avail, inOff, rem, rsp>>
  /\ UNCHANGED <<ring, flight, outOff, cmd, fifo, hist>>

\* The oldest message no longer fits, or there is none.
PackEnds == pending = 0 \/ buf[head].len + 8 > rem

\* dequeue_int_buf() and the copy into the RSP buffer.
PackOne ==
  /\ pc = "pack" /\ ~PackEnds
  /\ rsp' = Append(rsp, buf[head])
  /\ rem' = rem - (buf[head].len + 4)
  /\ head' = Advance(head)
  /\ pending' = pending - 1
  /\ owed' = Tail(owed)
  /\ lastId' = buf[head].id
  /\ UNCHANGED <<buf, tail, avail, flight, inOff, outOff, level1, pc, cmd, fifo, made, overrun>>

\* The RSP buffer goes on the up queue and EP4 is unmasked.  (Faulty:
\* usb_reset_out() forgotten.)
ShipMasked == flight' = "queued" /\ outOff' = outOff
Ship       == flight' = "queued" /\ outOff' = FALSE

\* An empty buffer is kept ("TODO: not sure what to do here").
PackDone ==
  /\ pc = "pack" /\ PackEnds
  /\ IF rsp = <<>> THEN avail' = TRUE /\ UNCHANGED <<flight, outOff>>
                   ELSE Ship /\ UNCHANGED avail
  /\ pc' = "usb_end"
  /\ UNCHANGED <<ring, rsp, rem, inOff, level1, cmd, fifo, hist>>

NoInterrupt ==
  /\ pc = "level1" /\ level1 = {}
  /\ pc' = "usb_end"
  /\ UNCHANGED <<ring, desc, inOff, outOff, level1, cmd, fifo, hist>>

\* EP3 stays masked when no message waits.  (Faulty: never; always.)
Unmasked   == FALSE
MaskKept   == inOff
StayMasked == inOff /\ pending = 0

\* handle_usb() unmasks EP3 again while messages wait; the loop starts over.
LeaveUsb ==
  /\ pc = "usb_end"
  /\ inOff' = StayMasked
  /\ pc' = "wlan"
  /\ UNCHANGED <<ring, desc, outOff, level1, cmd, fifo, hist>>

-----------------------------------------------------------------------------
(* The DMA engine, the endpoints and the host *)

UploadDone ==
  /\ flight = "queued" /\ ~fifo
  /\ flight' = "done" /\ fifo' = TRUE
  /\ UNCHANGED <<ring, avail, rsp, rem, inOff, outOff, level1, pc, cmd, hist>>

HostRead ==
  /\ fifo /\ fifo' = FALSE
  /\ UNCHANGED <<ring, desc, inOff, outOff, level1, pc, cmd, hist>>

HostCommand ==
  /\ ~cmd /\ made < MaxMsgs
  /\ cmd' = TRUE
  /\ UNCHANGED <<ring, desc, inOff, outOff, level1, pc, fifo, hist>>

Firmware == \/ LeaveWlan \/ HandleUpload \/ SampleLevel1 \/ UsbStatusIn
            \/ PackOne \/ PackDone \/ NoInterrupt \/ LeaveUsb
            \/ \E len \in Lens : UsbRegOut(len)

Next == \/ Firmware
        \/ \E len \in Lens : SendCmdToHost(len)
        \/ UploadDone \/ HostRead \/ HostCommand

\* The main loop runs for ever, the DMA engine serves its queue and the host
\* polls the endpoint; nobody has to send commands or traps.
Fairness == WF_vars(Firmware) /\ WF_vars(UploadDone) /\ WF_vars(HostRead)

Spec == Init /\ [][Next]_vars

FairSpec == Spec /\ Fairness

-----------------------------------------------------------------------------
(* Properties *)

\* int_desc is in one place: at home and available, being packed, or on the up
\* queue.  handle_upload() and usb_status_in() hand it back and forth, the DMA
\* engine holds it in between.
DescInOnePlace ==
  /\ avail => flight = "none" /\ pc # "pack"
  /\ pc = "pack" => flight = "none"
  /\ ~avail /\ pc # "pack" => flight # "none"

\* Nobody writes the RSP buffer while the DMA engine may read it.
RspStable == [][rsp' # rsp => flight = "none" /\ flight' = "none"]_vars

\* The response sent is never empty: the "attempted to send an empty int
\* response" branch of usb_status_in() is never taken, because EP3 is unmasked
\* only while messages wait and every message fits into an empty buffer.
NoEmptyResponse == pc = "pack" /\ PackEnds => rsp # <<>>

\* Masked commands are never forgotten: while EP4 is masked a message waits
\* whose transfer will unmask it.  Otherwise host and firmware would wait for
\* each other for ever.
CommandsMetered == outOff => pending > 0 \/ (pc = "pack" /\ rsp # <<>>)

\* As long as the ring was never overrun, its pending stretch is exactly the
\* messages made and not yet packed, in the order they were made.
RingHoldsOwed ==
  ~overrun => owed = [i \in 1 .. pending |-> buf[(head + i - 1) % N]]

\* A queue that gives up its oldest entry when it is full ("fetch the _oldest_
\* buffer from the ring"): messages may be lost, but what is packed is newer than
\* what was packed before.
PackedInOrder == [][head' # head => buf[head].id > lastId]_vars

\* EP4 never stays masked.
CommandsResume == outOff ~> ~outOff

\* Every message that is made gets packed, unless the ring is overrun.
EveryMessagePacked == \A k \in 1 .. MaxMsgs : made >= k ~> lastId >= k \/ overrun
=============================================================================

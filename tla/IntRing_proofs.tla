--------------------------- MODULE IntRing_proofs ---------------------------
(***************************************************************************)
(* Proofs about IntRing, for every size of the ring, every set of message   *)
(* lengths that fit into the RSP buffer and every size of that buffer.      *)
(***************************************************************************)
EXTENDS IntRing, RingArithmetic, SequenceTheorems, TLAPS

USE DEF Advance

\* The interrupts and the messages that wait belong together: EP3 is unmasked
\* only while a message waits, it is masked while messages are packed, and an
\* empty RSP buffer at that point has a message to come that fits.
MaskInv ==
  /\ Len(owed) >= pending
  /\ ~inOff => pending > 0
  /\ pc = "pack" => inOff
  /\ pc = "level1" /\ 6 \in level1 => pending > 0
  /\ pc = "pack" /\ rsp = <<>> => pending > 0 /\ rem = Room

IInv == TypeOK /\ DescInOnePlace /\ CommandsMetered /\ MaskInv

\* What get_int_buf() and its callers do to the ring.
LEMMA PutType ==
  ASSUME TypeOK, NEW len \in Lens, Put(len)
  PROVE  /\ buf' \in [Slots -> Message] /\ tail' \in Slots /\ head' \in Slots
         /\ pending' \in 1 .. N
         /\ pending' <= pending + 1
         /\ made' \in Nat /\ lastId' \in Nat /\ overrun' \in BOOLEAN
         /\ owed' \in Seq(Message) /\ Len(owed') = Len(owed) + 1
<1> DEFINE m == [id |-> made + 1, seq |-> tail, len |-> len]
<1>1. m \in Message
  BY DEF TypeOK, Message
<1>2. buf' \in [Slots -> Message]
  BY <1>1 DEF Put, TypeOK
<1>3. tail' \in Slots
  <2>1. (tail + 1) % N \in 0 .. N - 1
    BY IntAssumption, SMTT(20) DEF TypeOK, Slots
  <2> QED
    BY <2>1 DEF Put, Slots
<1>4. pending' \in 1 .. N /\ pending' <= pending + 1
  BY IntAssumption DEF Put, TypeOK
<1>5. owed' \in Seq(Message) /\ Len(owed') = Len(owed) + 1
  <2>1. owed' = Append(owed, m)
    BY DEF Put
  <2> QED
    BY <1>1, <2>1, AppendProperties DEF TypeOK
<1>6. overrun' \in BOOLEAN
  BY DEF Put
<1>7. made' \in Nat /\ lastId' \in Nat /\ head' \in Slots
  BY DEF Put, TypeOK
<1> QED
  BY <1>2, <1>3, <1>4, <1>5, <1>6, <1>7

\* At the end of the loop in usb_status_in() something has been packed.
LEMMA Packed ==
  ASSUME IInv, pc = "pack", PackEnds
  PROVE  rsp # <<>>
<1> SUFFICES ASSUME rsp = <<>> PROVE FALSE
  OBVIOUS
<1>1. pending > 0 /\ rem = Room
  BY DEF IInv, MaskInv
<1>2. buf[head].len \in Lens
  BY DEF IInv, TypeOK, Message
<1>3. buf[head].len + 8 <= Room /\ buf[head].len \in Nat /\ Room \in Nat
  BY <1>2, IntAssumption
<1> QED
  BY <1>1, <1>3 DEF PackEnds, IInv, TypeOK

LEMMA InitInv == Init => IInv
<1> SUFFICES ASSUME Init PROVE IInv
  OBVIOUS
<1> PICK l \in Lens, off \in BOOLEAN :
      LET boot == [id |-> 1, seq |-> 0, len |-> l]
      IN  /\ buf = [i \in Slots |-> IF i = 0 THEN boot
                                         ELSE [id |-> 0, seq |-> 0, len |-> l]]
          /\ owed = <<boot>>
          /\ head = 0 /\ tail = 1 /\ pending = 1
          /\ avail = TRUE /\ flight = "none" /\ rsp = <<>> /\ rem = Room
          /\ inOff = FALSE /\ outOff = off
          /\ level1 = {} /\ pc = "wlan"
          /\ cmd = FALSE /\ fifo = FALSE
          /\ made = 1 /\ lastId = 0 /\ overrun = FALSE
  BY DEF Init
<1> DEFINE boot == [id |-> 1, seq |-> 0, len |-> l]
<1>1. N \in Nat /\ N > 1 /\ Room \in Nat
  BY IntAssumption
<1>2. boot \in Message /\ [id |-> 0, seq |-> 0, len |-> l] \in Message
  BY <1>1 DEF Message, Slots
<1>3. buf \in [Slots -> Message]
  BY <1>2
<1>4. owed = <<boot>> /\ owed \in Seq(Message) /\ Len(owed) = 1
  BY <1>2
<1>5. TypeOK
  BY <1>1, <1>3, <1>4, SMTT(30) DEF TypeOK, Slots
<1>6. DescInOnePlace
  BY DEF DescInOnePlace
<1>7. CommandsMetered
  BY DEF CommandsMetered
<1>8. MaskInv
  BY <1>4 DEF MaskInv
<1> QED
  BY <1>5, <1>6, <1>7, <1>8 DEF IInv

LEMMA StepInv == IInv /\ [Next]_vars => IInv'
<1> SUFFICES ASSUME IInv, [Next]_vars PROVE IInv'
  OBVIOUS
<1> USE DEF IInv
<1>1. ASSUME NEW len \in Lens, SendCmdToHost(len) PROVE IInv'
  <2>1. Put(len) /\ pc = "wlan" /\ pc' = "wlan" /\ inOff' = FALSE
    BY <1>1 DEF SendCmdToHost
  <2>2. UNCHANGED <<avail, flight, rsp, rem, outOff, level1, cmd, fifo>>
    BY <1>1 DEF SendCmdToHost, desc
  <2>3. TypeOK'
    <3>1. inOff' \in BOOLEAN /\ pc' \in {"wlan", "host", "usb", "level1", "pack", "usb_end"}
      BY <2>1
    <3>2. pending' \in 0 .. N
      BY <2>1, PutType, IntAssumption
    <3> QED
      BY <2>1, <2>2, <3>1, <3>2, PutType DEF TypeOK
  <2>4. DescInOnePlace'
    BY <2>1, <2>2 DEF DescInOnePlace
  <2>5. CommandsMetered' /\ MaskInv'
    BY <2>1, <2>2, PutType DEF CommandsMetered, MaskInv, TypeOK
  <2> QED
    BY <2>3, <2>4, <2>5
<1>2. CASE LeaveWlan
  BY <1>2 DEF LeaveWlan, TypeOK, DescInOnePlace, CommandsMetered, MaskInv, ring, desc, hist
<1>3. CASE HandleUpload
  <2>1. UNCHANGED <<ring, rsp, rem, inOff, outOff, level1, cmd, fifo, hist>>
        /\ pc = "host" /\ pc' = "usb"
    BY <1>3 DEF HandleUpload
  <2>2. \/ flight = "done" /\ flight' = "none" /\ avail' = TRUE
        \/ flight # "done" /\ flight' = flight /\ avail' = avail
    BY <1>3 DEF HandleUpload
  <2>3. CASE flight = "done"
    <3>1. flight' = "none" /\ avail' = TRUE
      BY <2>2, <2>3
    <3> QED
      BY <2>1, <3>1 DEF TypeOK, DescInOnePlace, CommandsMetered, MaskInv, ring, hist
  <2>4. CASE flight # "done"
    <3>1. flight' = flight /\ avail' = avail
      BY <2>2, <2>4
    <3> QED
      BY <2>1, <3>1 DEF TypeOK, DescInOnePlace, CommandsMetered, MaskInv, ring, hist
  <2> QED
    BY <2>3, <2>4
<1>4. CASE SampleLevel1
  <2>1. level1' \subseteq {4, 6} /\ (6 \in level1' => ~inOff)
    BY <1>4 DEF SampleLevel1
  <2> QED
    BY <1>4, <2>1 DEF SampleLevel1, TypeOK, DescInOnePlace, CommandsMetered, MaskInv,
                      ring, desc, hist
<1>5. CASE UsbStatusIn
  <2>1. /\ pc = "level1" /\ 6 \in level1 /\ level1' = level1 \ {6}
        /\ UNCHANGED <<ring, flight, outOff, cmd, fifo, hist>>
    BY <1>5 DEF UsbStatusIn
  <2>2. CASE avail
    <3>1. avail' = FALSE /\ inOff' = TRUE /\ rem' = Room /\ rsp' = <<>> /\ pc' = "pack"
      BY <1>5, <2>2 DEF UsbStatusIn, TakeDesc
    <3>2. rsp' \in Seq(Message) /\ rem' \in Nat
      BY <3>1, IntAssumption
    <3> QED
      BY <2>1, <2>2, <3>1, <3>2 DEF TypeOK, DescInOnePlace, CommandsMetered, MaskInv,
                                    ring, hist
  <2>3. CASE ~avail
    <3>1. pc' = "usb_end" /\ UNCHANGED <<avail, inOff, rem, rsp>>
      BY <1>5, <2>3 DEF UsbStatusIn
    <3> QED
      BY <2>1, <2>3, <3>1 DEF TypeOK, DescInOnePlace, CommandsMetered, MaskInv, ring, hist
  <2> QED
    BY <2>2, <2>3
<1>6. CASE PackOne
  <2>1. /\ pc = "pack" /\ pending > 0 /\ ~(buf[head].len + 8 > rem)
        /\ rsp' = Append(rsp, buf[head])
        /\ rem' = rem - (buf[head].len + 4)
        /\ head' = (head + 1) % N
        /\ pending' = pending - 1
        /\ owed' = Tail(owed)
        /\ lastId' = buf[head].id
        /\ UNCHANGED <<buf, tail, avail, flight, inOff, outOff, level1, pc, cmd, fifo,
                       made, overrun>>
    BY <1>6 DEF PackOne, PackEnds, TypeOK
  <2>2. buf[head] \in Message
    BY DEF TypeOK
  <2>3. buf[head].len \in Nat /\ buf[head].id \in Nat
    BY <2>2, IntAssumption DEF Message
  <2>4. rsp' \in Seq(Message) /\ rsp' # <<>>
    <3>1. rsp' \in Seq(Message) /\ Len(rsp') = Len(rsp) + 1
      BY <2>1, <2>2, AppendProperties DEF TypeOK
    <3> QED
      BY <3>1, LenProperties, EmptySeq DEF TypeOK
  <2>5. head' \in Slots
    <3>1. (head + 1) % N \in 0 .. N - 1
      BY IntAssumption, SMTT(20) DEF TypeOK, Slots
    <3> QED
      BY <2>1, <3>1 DEF Slots
  <2>6. owed' \in Seq(Message) /\ Len(owed') = Len(owed) - 1
    <3>1. owed \in Seq(Message) /\ owed # <<>>
      <4>1. Len(owed) >= pending /\ pending > 0
        BY <2>1 DEF MaskInv
      <4> QED
        BY <4>1, EmptySeq DEF TypeOK
    <3> QED
      BY <2>1, <3>1, HeadTailProperties
  <2>7. rem' \in Nat /\ pending' \in 0 .. N
    BY <2>1, <2>3, IntAssumption, SMTT(20) DEF TypeOK
  <2>8. TypeOK'
    BY <2>1, <2>3, <2>4, <2>5, <2>6, <2>7 DEF TypeOK
  <2>9. DescInOnePlace'
    BY <2>1 DEF DescInOnePlace
  <2>10. CommandsMetered' /\ MaskInv'
    BY <2>1, <2>4, <2>6, <2>7 DEF CommandsMetered, MaskInv, TypeOK
  <2> QED
    BY <2>8, <2>9, <2>10
<1>7. CASE PackDone
  <2>1. rsp # <<>>
    BY <1>7, Packed DEF PackDone
  <2>2. /\ pc = "pack" /\ pc' = "usb_end"
        /\ flight' = "queued" /\ outOff' = FALSE /\ avail' = avail
        /\ UNCHANGED <<ring, rsp, rem, inOff, level1, cmd, fifo, hist>>
    BY <1>7, <2>1 DEF PackDone, Ship
  <2> QED
    BY <2>2 DEF TypeOK, DescInOnePlace, CommandsMetered, MaskInv, ring, hist
<1>8. CASE NoInterrupt
  BY <1>8 DEF NoInterrupt, TypeOK, DescInOnePlace, CommandsMetered, MaskInv, ring, desc, hist
<1>9. CASE LeaveUsb
  <2>1. inOff' = (inOff /\ pending = 0)
    BY <1>9 DEF LeaveUsb, StayMasked
  <2>2. inOff' \in BOOLEAN /\ (~inOff' => pending > 0)
    BY <2>1 DEF TypeOK, MaskInv
  <2>3. pc' = "wlan" /\ UNCHANGED <<ring, desc, outOff, level1, cmd, fifo, hist>>
        /\ pc = "usb_end"
    BY <1>9 DEF LeaveUsb
  <2>4. TypeOK' /\ DescInOnePlace'
    BY <2>2, <2>3 DEF TypeOK, DescInOnePlace, ring, desc, hist
  <2>5. CommandsMetered' /\ MaskInv'
    BY <2>2, <2>3 DEF CommandsMetered, MaskInv, ring, desc, hist
  <2> QED
    BY <2>4, <2>5
<1>10. ASSUME NEW len \in Lens, UsbRegOut(len) PROVE IInv'
  <2>1. Put(len) /\ pc = "level1" /\ pc' = "level1" /\ inOff' = FALSE
    BY <1>10 DEF UsbRegOut
  <2>2. /\ outOff' = TRUE /\ cmd' = FALSE /\ level1' = level1 \ {4}
        /\ UNCHANGED <<avail, flight, rsp, rem, fifo>>
    BY <1>10 DEF UsbRegOut, desc
  <2>3. TypeOK'
    <3>1. inOff' \in BOOLEAN /\ outOff' \in BOOLEAN /\ cmd' \in BOOLEAN
      BY <2>1, <2>2
    <3>2. pending' \in 0 .. N
      BY <2>1, PutType, IntAssumption
    <3>3. level1' \subseteq {4, 6} /\ avail' \in BOOLEAN /\ fifo' \in BOOLEAN
      BY <2>2 DEF TypeOK
    <3> QED
      BY <2>1, <2>2, <3>1, <3>2, <3>3, PutType DEF TypeOK
  <2>4. DescInOnePlace'
    BY <2>1, <2>2 DEF DescInOnePlace
  <2>5. CommandsMetered' /\ MaskInv'
    BY <2>1, <2>2, PutType DEF CommandsMetered, MaskInv, TypeOK
  <2> QED
    BY <2>3, <2>4, <2>5
<1>11. CASE UploadDone
  BY <1>11 DEF UploadDone, TypeOK, DescInOnePlace, CommandsMetered, MaskInv, ring, hist
<1>12. CASE HostRead
  BY <1>12 DEF HostRead, TypeOK, DescInOnePlace, CommandsMetered, MaskInv, ring, desc, hist
<1>13. CASE HostCommand
  BY <1>13 DEF HostCommand, TypeOK, DescInOnePlace, CommandsMetered, MaskInv, ring, desc, hist
<1>14. CASE UNCHANGED vars
  BY <1>14 DEF vars, TypeOK, DescInOnePlace, CommandsMetered, MaskInv, ring, desc, hist
<1> QED
  BY <1>1, <1>2, <1>3, <1>4, <1>5, <1>6, <1>7, <1>8, <1>9, <1>10, <1>11, <1>12, <1>13,
     <1>14 DEF Next, Firmware

\* The inductive invariant holds.
THEOREM Invariance == Spec => []IInv
BY InitInv, StepInv, PTL DEF Spec

-----------------------------------------------------------------------------
\* The indices, the fill level and the rest keep their types: the ring is never
\* entered outside its slots, however often it wraps or overruns.
THEOREM TypeCorrect == Spec => []TypeOK
<1>1. IInv => TypeOK
  BY DEF IInv
<1> QED
  BY <1>1, Invariance, PTL

\* usb_status_in(), the DMA engine and handle_upload() never hold int_desc at
\* the same time, and it does not get lost between them.
THEOREM DescHeldOnce == Spec => []DescInOnePlace
<1>1. IInv => DescInOnePlace
  BY DEF IInv
<1> QED
  BY <1>1, Invariance, PTL

\* usb_status_in() never reaches its branch for an empty response.
THEOREM NeverEmpty == Spec => []NoEmptyResponse
<1>1. IInv => NoEmptyResponse
  BY Packed DEF NoEmptyResponse
<1> QED
  BY <1>1, Invariance, PTL

\* While the commands of the host are masked, a message that will unmask them
\* waits or is being sent.
THEOREM CommandsNeverForgotten == Spec => []CommandsMetered
<1>1. IInv => CommandsMetered
  BY DEF IInv
<1> QED
  BY <1>1, Invariance, PTL

\* The RSP buffer changes only while int_desc is in the firmware's hands.
THEOREM BufferStable == Spec => RspStable
<1>1. IInv /\ [Next]_vars => [rsp' # rsp => flight = "none" /\ flight' = "none"]_vars
  <2> SUFFICES ASSUME IInv, Next, rsp' # rsp
               PROVE  flight = "none" /\ flight' = "none"
    BY DEF vars
  <2>1. UsbStatusIn \/ PackOne
    BY DEF Next, Firmware, SendCmdToHost, LeaveWlan, HandleUpload, SampleLevel1, UsbRegOut,
           PackDone, NoInterrupt, LeaveUsb, UploadDone, HostRead, HostCommand, desc
  <2>2. CASE UsbStatusIn
    <3>1. avail
      BY <2>2 DEF UsbStatusIn
    <3> QED
      BY <2>2, <3>1 DEF UsbStatusIn, IInv, DescInOnePlace
  <2>3. CASE PackOne
    BY <2>3 DEF PackOne, IInv, DescInOnePlace
  <2> QED
    BY <2>1, <2>2, <2>3
<1> QED
  BY <1>1, Invariance, PTL DEF Spec, RspStable

-----------------------------------------------------------------------------
\* What is owed is what the ring holds: until it is overrun, the tail is where
\* the pending stretch ends.
TailInv == ~overrun => tail = (head + pending) % N
HoldInv == RingHoldsOwed /\ TailInv

\* The slot of the i-th pending message.
SlotOf(i) == (head + i - 1) % N

\* RingHoldsOwed, message by message.
LEMMA Held ==
  ASSUME TypeOK, RingHoldsOwed, ~overrun
  PROVE  Len(owed) = pending /\ \A i \in 1 .. pending : owed[i] = buf[SlotOf(i)]
<1>1. owed = [i \in 1 .. pending |-> buf[SlotOf(i)]] /\ pending \in Nat
  BY IntAssumption DEF TypeOK, RingHoldsOwed, SlotOf
<1> QED
  BY <1>1, LenProperties DEF TypeOK

\* A sequence that agrees with the ring message by message is the ring's.
LEMMA HeldBack ==
  ASSUME NEW s \in Seq(Message), NEW b \in [Slots -> Message], NEW h \in Slots,
         NEW p \in 0 .. N, Len(s) = p,
         \A i \in 1 .. p : s[i] = b[(h + i - 1) % N]
  PROVE  s = [i \in 1 .. p |-> b[(h + i - 1) % N]]
<1> DEFINE f == [i \in 1 .. p |-> b[(h + i - 1) % N]]
<1>1. p \in Nat /\ N \in Nat \ {0} /\ Slots = 0 .. N - 1
  BY IntAssumption DEF Slots
<1>2. ASSUME NEW i \in 1 .. p PROVE (h + i - 1) % N \in Slots
  <2>1. h + i - 1 \in Int
    BY <1>1
  <2> QED
    BY <1>1, <2>1, ModIsIndex
<1>3. f \in [1 .. p -> Message]
  BY <1>2
<1>4. f \in Seq(Message) /\ Len(f) = p
  BY <1>1, <1>3, SeqDef, LenProperties
<1>5. \A i \in 1 .. p : f[i] = s[i]
  OBVIOUS
<1> HIDE DEF f
<1>6. f = s
  BY <1>1, <1>4, <1>5, SeqEqual
<1> QED
  BY <1>6 DEF f

\* A message put into a ring that is not full continues the stretch.
LEMMA PutHolds ==
  ASSUME IInv, HoldInv, NEW len \in Lens, Put(len)
  PROVE  HoldInv'
<1> SUFFICES ASSUME ~overrun' PROVE RingHoldsOwed' /\ tail' = (head' + pending') % N
  BY DEF HoldInv, TailInv, RingHoldsOwed
<1> DEFINE m == [id |-> made + 1, seq |-> tail, len |-> len]
<1>1. /\ ~overrun /\ pending # N /\ pending' = pending + 1 /\ head' = head
      /\ buf' = [buf EXCEPT ![tail] = m] /\ tail' = (tail + 1) % N
      /\ owed' = Append(owed, m)
  BY DEF Put
<1>2. /\ N \in Nat \ {0} /\ pending \in 0 .. N - 1 /\ head \in 0 .. N - 1
      /\ tail = (head + pending) % N /\ tail \in Slots /\ Slots = 0 .. N - 1
      /\ owed \in Seq(Message) /\ buf \in [Slots -> Message]
  BY <1>1, IntAssumption DEF IInv, TypeOK, Slots, HoldInv, TailInv
<1>3. m \in Message
  BY DEF IInv, TypeOK, Message
<1>4. tail' = (head + (pending + 1)) % N
  BY <1>1, <1>2, TailFollows
<1>5. Len(owed) = pending /\ \A i \in 1 .. pending : owed[i] = buf[SlotOf(i)]
  BY <1>1, Held DEF HoldInv, IInv
<1> HIDE DEF m
<1>6. /\ owed' \in Seq(Message) /\ Len(owed') = pending + 1
      /\ \A i \in 1 .. pending : owed'[i] = owed[i]
      /\ owed'[pending + 1] = m
  BY <1>1, <1>2, <1>3, <1>5, AppendProperties
<1>7. ASSUME NEW i \in 1 .. pending + 1
      PROVE  owed'[i] = buf'[SlotOf(i)]
  <2>1. head + i - 1 = head + (i - 1)
    BY <1>2
  <2>2. CASE i = pending + 1
    <3>1. SlotOf(i) = tail
      BY <1>2, <2>1, <2>2 DEF SlotOf
    <3> QED
      BY <1>1, <1>2, <1>6, <2>2, <3>1
  <2>3. CASE i \in 1 .. pending
    <3>1. i - 1 \in 0 .. N - 1 /\ i - 1 # pending
      BY <1>2, <2>3
    <3>2. (head + (i - 1)) % N # (head + pending) % N
      BY <1>2, <3>1, SlotsDiffer
    <3>3. SlotOf(i) # tail
      BY <1>2, <2>1, <3>2 DEF SlotOf
    <3>4. SlotOf(i) \in Slots
      BY <1>2, ModIsIndex DEF SlotOf
    <3> QED
      BY <1>1, <1>2, <1>5, <1>6, <2>3, <3>3, <3>4
  <2> QED
    BY <1>2, <2>2, <2>3
<1>8. buf' \in [Slots -> Message] /\ pending' \in 0 .. N
  BY <1>1, <1>2, <1>3
<1>9. owed' = [i \in 1 .. pending' |-> buf'[(head' + i - 1) % N]]
  <2>1. Len(owed') = pending' /\ head' \in Slots
    BY <1>1, <1>2, <1>6
  <2>2. \A i \in 1 .. pending' : owed'[i] = buf'[(head' + i - 1) % N]
    BY <1>1, <1>7 DEF SlotOf
  <2> QED
    BY <1>6, <1>8, <2>1, <2>2, HeldBack
<1> QED
  BY <1>1, <1>4, <1>9 DEF RingHoldsOwed

\* Taking the oldest message leaves the rest of the stretch in place.
LEMMA PackHolds ==
  ASSUME IInv, IInv', HoldInv, PackOne
  PROVE  HoldInv'
<1> SUFFICES ASSUME ~overrun PROVE RingHoldsOwed' /\ tail' = (head' + pending') % N
  BY DEF HoldInv, TailInv, RingHoldsOwed, PackOne
<1>1. /\ pending > 0 /\ pending' = pending - 1 /\ head' = (head + 1) % N
      /\ owed' = Tail(owed) /\ buf' = buf /\ tail' = tail
  BY DEF PackOne, PackEnds, IInv, TypeOK
<1>2. /\ N \in Nat \ {0} /\ pending \in 1 .. N /\ head \in 0 .. N - 1
      /\ head' \in Slots /\ buf \in [Slots -> Message] /\ owed \in Seq(Message)
      /\ owed' \in Seq(Message) /\ pending' \in 0 .. N
      /\ tail = (head + pending) % N
  BY <1>1, IntAssumption DEF IInv, TypeOK, Slots, HoldInv, TailInv
<1>3. tail' = (head' + pending') % N
  <2>1. 1 \in 1 .. pending /\ pending \in 0 .. N /\ head + 1 <= N
    BY <1>2
  <2>2. (((head + 1) % N) + (pending - 1)) % N = (head + pending) % N
    BY <1>2, <2>1, EndStays
  <2> QED
    BY <1>1, <1>2, <2>2
<1>4. Len(owed) = pending /\ \A i \in 1 .. pending : owed[i] = buf[SlotOf(i)]
  BY Held DEF HoldInv, IInv
<1>5. owed # <<>>
  BY <1>2, <1>4, EmptySeq
<1>6. Len(owed') = pending - 1 /\ \A i \in 1 .. pending - 1 : owed'[i] = owed[i + 1]
  BY <1>1, <1>2, <1>4, <1>5, HeadTailProperties
<1>7. ASSUME NEW i \in 1 .. pending - 1
      PROVE  owed'[i] = buf[(head' + i - 1) % N]
  <2>1. owed'[i] = buf[SlotOf(i + 1)]
    <3>1. i + 1 \in 1 .. pending
      BY <1>2
    <3> QED
      BY <1>4, <1>6, <3>1
  <2>2. (((head + 1) % N) + (i - 1)) % N = (head + (1 + (i - 1))) % N
    BY <1>2, StepFromHead, SMTT(20)
  <2>3. /\ head' + i - 1 = head' + (i - 1)
        /\ head + (i + 1) - 1 = head + (1 + (i - 1))
    BY <1>1, <1>2 DEF Slots
  <2>4. SlotOf(i + 1) = (head' + i - 1) % N
    BY <1>1, <2>2, <2>3 DEF SlotOf
  <2> QED
    BY <2>1, <2>4
<1>8. owed' = [i \in 1 .. pending' |-> buf'[(head' + i - 1) % N]]
  <2>1. Len(owed') = pending' /\ buf' \in [Slots -> Message]
    BY <1>1, <1>2, <1>6
  <2>2. \A i \in 1 .. pending' : owed'[i] = buf'[(head' + i - 1) % N]
    BY <1>1, <1>7
  <2> QED
    BY <1>2, <2>1, <2>2, HeldBack
<1> QED
  BY <1>3, <1>8 DEF RingHoldsOwed

\* As long as the ring is not overrun it is a queue: no response or trap is
\* lost, doubled or moved in front of an older one.
THEOREM RingIsQueue == Spec => []RingHoldsOwed
<1>1. Init => HoldInv
  <2> SUFFICES ASSUME Init PROVE HoldInv
    OBVIOUS
  <2>1. IInv
    BY InitInv
  <2>2. PICK b : /\ owed = <<b>> /\ buf[0] = b /\ head = 0 /\ tail = 1 /\ pending = 1
    <3>1. 0 \in Slots
      BY IntAssumption DEF Slots
    <3> QED
      BY <3>1 DEF Init
  <2>3. (0 + 1) % N = 1 /\ (0 + 1 - 1) % N = 0
    BY IntAssumption, SMTT(20)
  <2>4. Len(owed) = 1 /\ \A i \in 1 .. 1 : owed[i] = buf[(head + i - 1) % N]
    BY <2>2, <2>3
  <2>5. RingHoldsOwed
    <3>1. owed \in Seq(Message) /\ buf \in [Slots -> Message] /\ head \in Slots
          /\ pending \in 0 .. N
      BY <2>1 DEF IInv, TypeOK
    <3> QED
      BY <2>2, <2>4, <3>1, HeldBack DEF RingHoldsOwed
  <2> QED
    BY <2>2, <2>3, <2>5 DEF HoldInv, TailInv
<1>2. ASSUME IInv, IInv', HoldInv, [Next]_vars PROVE HoldInv'
  <2>1. ASSUME NEW len \in Lens, SendCmdToHost(len) \/ UsbRegOut(len) PROVE HoldInv'
    BY <1>2, <2>1, PutHolds DEF SendCmdToHost, UsbRegOut
  <2>2. CASE PackOne
    BY <1>2, <2>2, PackHolds
  <2>3. CASE UNCHANGED <<ring, owed, overrun>>
    BY <1>2, <2>3 DEF HoldInv, TailInv, RingHoldsOwed, ring
  <2> QED
    BY <1>2, <2>1, <2>2, <2>3 DEF Next, Firmware, LeaveWlan, HandleUpload, SampleLevel1,
       UsbStatusIn, PackDone, NoInterrupt, LeaveUsb, UploadDone, HostRead, HostCommand,
       vars, hist
<1>3. HoldInv => RingHoldsOwed
  BY DEF HoldInv
<1> QED
  BY <1>1, <1>2, <1>3, Invariance, PTL DEF Spec
=============================================================================

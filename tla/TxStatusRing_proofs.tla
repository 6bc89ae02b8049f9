------------------------ MODULE TxStatusRing_proofs ------------------------
(***************************************************************************)
(* Proofs about TxStatusRing: its type invariant, the consistency of head,  *)
(* tail and fill level, the safety of the slots that hold unsent reports,   *)
(* and the refinement of StatusFifo, for every size of the cache, every     *)
(* number of reports per message and every set of reports.                 *)
(***************************************************************************)
EXTENDS TxStatusRing, RingArithmetic, SequenceTheorems, TLAPS

\* Moving an index and testing for a full cache are always expanded.
USE DEF Advance, CacheFull

\* A message carries at least one report when any is pending, never more than
\* are pending, and never runs over the end of the cache.
LEMMA SpliceLenBounds ==
  ASSUME TypeOK, pending > 0
  PROVE  /\ SpliceLen \in 1 .. pending
         /\ SpliceLen <= Splice
         /\ head + SpliceLen <= N
  BY RingAssumption DEF TypeOK, Idx, SpliceLen

-----------------------------------------------------------------------------
\* Neither half is inductive alone: that a slot is free when Fill runs is in
\* the clauses of RingConsistent about pc.
IInv == TypeOK /\ RingConsistent

\* The strengthened invariant is inductive: one step per action.
LEMMA InvInductive ==
  ASSUME IInv, [Next]_vars
  PROVE  IInv'
<1> USE DEF IInv
<1>0. N \in Nat \ {0} /\ Idx = 0 .. N - 1
  BY RingAssumption DEF Idx
<1>1. ASSUME NEW s \in Statuses, GetBuffer(s)
      PROVE  IInv'
  <2>1. tail' \in Idx
    BY <1>0, <1>1, ModIsIndex DEF GetBuffer, TypeOK
  <2>2. TypeOK'
    BY <1>0, <1>1, <2>1 DEF GetBuffer, TypeOK
  <2>3. slot' = (head + pending) % N
    BY <1>1 DEF GetBuffer, RingConsistent, Reserved
  <2>4. RingConsistent'
    BY <1>0, <1>1, <2>3 DEF GetBuffer, TypeOK, RingConsistent, Reserved
  <2> QED
    BY <2>2, <2>4
<1>2. CASE SendMessage
  <2>1. /\ SpliceLen \in 1 .. pending /\ SpliceLen <= Splice
        /\ head + SpliceLen <= N
    BY <1>2, SpliceLenBounds DEF SendMessage
  <2>2. head' \in Idx
    BY <1>0, <1>2, <2>1, ModIsIndex DEF SendMessage, TypeOK
  <2>3. out' \in Seq(Statuses)
    <3>1. \A i \in 1 .. SpliceLen : cache[head + i - 1] \in Statuses
      BY <1>0, <2>1 DEF TypeOK
    <3>2. SpliceLen \in Nat
      BY <2>1 DEF TypeOK
    <3>3. out' \in [1 .. SpliceLen -> Statuses]
      BY <1>2, <3>1 DEF SendMessage
    <3> QED
      BY <3>2, <3>3, SeqDef
  <2>4. TypeOK'
    BY <1>0, <1>2, <2>1, <2>2, <2>3 DEF SendMessage, TypeOK
  <2>5. (head' + pending') % N = (head + pending) % N
    BY <1>0, <1>2, <2>1, EndStays DEF SendMessage, TypeOK
  <2>6. RingConsistent'
    BY <1>2, <2>5 DEF SendMessage, RingConsistent, Reserved
  <2> QED
    BY <2>4, <2>6
<1>3. CASE SendReturn
  <2>1. TypeOK'
    BY <1>3, EmptySeq DEF SendReturn, TypeOK
  <2>2. RingConsistent'
    BY <1>0, <1>3 DEF SendReturn, TypeOK, RingConsistent, Reserved
  <2> QED
    BY <2>1, <2>2
<1>4. CASE Fill
  <2>1. TypeOK'
    BY <1>0, <1>4, EmptySeq DEF Fill, TypeOK, RingConsistent
  <2>2. (slot + 1) % N = (head + (pending + 1)) % N
    <3>1. pending \in 0 .. N - 1 /\ slot = (head + pending) % N
      BY <1>0, <1>4 DEF Fill, TypeOK, RingConsistent
    <3>2. head \in 0 .. N - 1
      BY <1>0 DEF TypeOK
    <3> QED
      BY <1>0, <3>1, <3>2, TailFollows
  <2>3. RingConsistent'
    BY <1>4, <2>2 DEF Fill, RingConsistent, Reserved
  <2> QED
    BY <2>1, <2>3
<1>5. CASE Drain
  BY <1>5, EmptySeq DEF Drain, TypeOK, RingConsistent, Reserved
<1>6. CASE UNCHANGED vars
  BY <1>6 DEF vars, TypeOK, RingConsistent, Reserved
<1> QED
  BY <1>1, <1>2, <1>3, <1>4, <1>5, <1>6 DEF Next

LEMMA InvInit == Init => IInv
<1> SUFFICES ASSUME Init PROVE IInv
  OBVIOUS
<1>1. N \in Nat \ {0} /\ 0 \in Idx
  BY RingAssumption DEF Idx
<1>2. TypeOK
  BY <1>1, EmptySeq DEF Init, TypeOK
<1>3. 0 % N = 0
  BY <1>1, ModSmall
<1>4. RingConsistent
  BY <1>3 DEF Init, RingConsistent, Reserved
<1> QED
  BY <1>2, <1>4 DEF IInv

\* Every variable of the cache keeps its type.
THEOREM TypeCorrect == Spec => []TypeOK
<1>1. IInv => TypeOK
  BY DEF IInv
<1> QED
  BY <1>1, InvInit, InvInductive, PTL DEF Spec

\* Head, tail and fill level of the status cache never drift apart, whichever
\* way filling, flushing and draining alternate.
THEOREM RingConsistency == Spec => []RingConsistent
<1>1. IInv => RingConsistent
  BY DEF IInv
<1> QED
  BY <1>1, InvInit, InvInductive, PTL DEF Spec
-----------------------------------------------------------------------------
\* The slot that Fill writes is not one of the pending ones.
LEMMA FillSlotFree ==
  ASSUME IInv, pc = "fill"
  PROVE  /\ slot = SlotOf(pending + 1)
         /\ \A i \in 1 .. pending : SlotOf(i) # slot
<1>1. /\ N \in Nat \ {0} /\ head \in 0 .. N - 1
      /\ pending \in 0 .. N - 1 /\ slot = (head + pending) % N
  BY RingAssumption DEF IInv, TypeOK, Idx, RingConsistent
<1>2. head + (pending + 1) - 1 = head + pending
  BY <1>1
<1>3. ASSUME NEW i \in 1 .. pending
      PROVE  SlotOf(i) # slot
  <2>1. i - 1 \in 0 .. N - 1 /\ i - 1 # pending
    BY <1>1
  <2>2. (head + (i - 1)) % N # (head + pending) % N
    BY <1>1, <2>1, SlotsDiffer
  <2>3. head + i - 1 = head + (i - 1)
    BY <1>1
  <2> QED
    BY <1>1, <2>2, <2>3 DEF SlotOf
<1> QED
  BY <1>1, <1>2, <1>3 DEF SlotOf

\* A report that waits in the cache is never overwritten by a later one: the
\* flush of a full cache always comes first.
THEOREM UnsentSafe == Spec => NoOverwrite
<1> DEFINE Safe == \A i \in 1 .. pending :
                     pending' > pending => cache'[SlotOf(i)] = cache[SlotOf(i)]
<1>1. ASSUME IInv, [Next]_vars PROVE [Safe]_vars
  <2> SUFFICES ASSUME pending' > pending, NEW i \in 1 .. pending
               PROVE  cache'[SlotOf(i)] = cache[SlotOf(i)]
    OBVIOUS
  <2>1. pending \in 0 .. N /\ N \in Nat
    BY <1>1, RingAssumption DEF IInv, TypeOK
  <2>2. ~SendMessage
    BY <1>1, <2>1, SpliceLenBounds DEF SendMessage, IInv
  <2>3. Fill
    BY <1>1, <2>1, <2>2 DEF Next, vars, GetBuffer, SendReturn, Drain
  <2>4. SlotOf(i) # slot
    BY <1>1, <2>3, FillSlotFree DEF Fill
  <2>5. SlotOf(i) \in Idx
    BY <1>1, <2>1, RingAssumption, ModIsIndex DEF IInv, TypeOK, Idx, SlotOf
  <2> QED
    BY <1>1, <2>3, <2>4, <2>5 DEF Fill, IInv, TypeOK
<1> QED
  BY <1>1, InvInit, InvInductive, PTL DEF Spec, NoOverwrite
-----------------------------------------------------------------------------
\* The mapped queue is a sequence of reports as long as the fill level.
UnsentIsSeq == /\ Unsent \in Seq(Statuses)
               /\ Len(Unsent) = pending
               /\ \A i \in 1 .. pending : Unsent[i] = cache[SlotOf(i)]

LEMMA UnsentSeq == TypeOK => UnsentIsSeq
<1> SUFFICES ASSUME TypeOK PROVE UnsentIsSeq
  OBVIOUS
<1>1. pending \in Nat /\ N \in Nat \ {0} /\ head \in Int
  BY RingAssumption DEF TypeOK, Idx
<1>2. \A i \in 1 .. pending : cache[SlotOf(i)] \in Statuses
  BY <1>1, ModIsIndex DEF TypeOK, Idx, SlotOf
<1>3. Unsent \in [1 .. pending -> Statuses]
  BY <1>2 DEF Unsent
<1> QED
  BY <1>1, <1>3, SeqDef, LenProperties DEF Unsent, UnsentIsSeq

\* A step that leaves the cache, the head and the fill level alone leaves the
\* mapped queue alone.
LEMMA UnsentKept ==
  ASSUME UNCHANGED <<cache, head, pending>>
  PROVE  Unsent' = Unsent
  BY DEF Unsent, SlotOf

\* Fill appends the report to the mapped queue.
LEMMA FillCompletes ==
  ASSUME IInv, IInv', Fill
  PROVE  Fifo!Complete(cur)
<1>1. /\ Unsent \in Seq(Statuses) /\ Len(Unsent) = pending
      /\ \A i \in 1 .. pending : Unsent[i] = cache[SlotOf(i)]
  BY UnsentSeq DEF IInv, UnsentIsSeq
<1>2. /\ Unsent' \in Seq(Statuses) /\ Len(Unsent') = pending'
      /\ \A i \in 1 .. pending' : Unsent'[i] = cache'[SlotOf(i)']
  <2>1. TypeOK'
    BY DEF IInv
  <2>2. UnsentIsSeq'
    BY <2>1, UnsentSeq, PTL
  <2> QED
    BY <2>2 DEF UnsentIsSeq
<1>3. /\ pending \in Nat /\ pending' = pending + 1 /\ cur \in Statuses
      /\ head' = head /\ cache \in [Idx -> Statuses] /\ slot \in Idx
  BY DEF IInv, TypeOK, Fill
<1>4. /\ slot = SlotOf(pending + 1)
      /\ \A i \in 1 .. pending : SlotOf(i) # slot
  BY FillSlotFree DEF Fill
<1>5. \A i : SlotOf(i)' = SlotOf(i)
  BY <1>3 DEF SlotOf
<1> DEFINE A == Append(Unsent, cur)
<1>6. /\ A \in Seq(Statuses) /\ Len(A) = pending + 1
      /\ \A i \in 1 .. pending : A[i] = Unsent[i]
      /\ A[pending + 1] = cur
  BY <1>1, <1>3, AppendProperties
<1> HIDE DEF A
<1>7. ASSUME NEW i \in 1 .. pending + 1
      PROVE  Unsent'[i] = A[i]
  <2>1. Unsent'[i] = cache'[SlotOf(i)]
    BY <1>2, <1>3, <1>5
  <2>2. CASE i = pending + 1
    <3>1. cache'[slot] = cur
      BY <1>3 DEF Fill
    <3> QED
      BY <1>4, <1>6, <2>1, <2>2, <3>1
  <2>3. CASE i \in 1 .. pending
    <3>1. SlotOf(i) \in Idx
      BY <1>3, RingAssumption, ModIsIndex DEF IInv, TypeOK, Idx, SlotOf
    <3>2. cache'[SlotOf(i)] = cache[SlotOf(i)]
      BY <1>3, <1>4, <2>3, <3>1 DEF Fill
    <3> QED
      BY <1>1, <1>6, <2>1, <2>3, <3>2
  <2> QED
    BY <1>3, <2>2, <2>3
<1>8. Unsent' = A
  BY <1>2, <1>3, <1>6, <1>7, SeqEqual
<1> QED
  BY <1>8 DEF Fifo!Complete, Fill, A
\* One turn of the splicing loop hands over the oldest reports.
LEMMA SendEmits ==
  ASSUME IInv, IInv', SendMessage
  PROVE  Fifo!Emit(SpliceLen) /\ SpliceLen \in 1 .. Splice
<1> DEFINE L == SpliceLen
<1>1. /\ Unsent \in Seq(Statuses) /\ Len(Unsent) = pending
      /\ \A i \in 1 .. pending : Unsent[i] = cache[SlotOf(i)]
  BY UnsentSeq DEF IInv, UnsentIsSeq
<1>2. /\ Unsent' \in Seq(Statuses) /\ Len(Unsent') = pending'
      /\ \A i \in 1 .. pending' : Unsent'[i] = cache'[SlotOf(i)']
  <2>1. TypeOK'
    BY DEF IInv
  <2>2. UnsentIsSeq'
    BY <2>1, UnsentSeq, PTL
  <2> QED
    BY <2>2 DEF UnsentIsSeq
<1>3. /\ L \in 1 .. pending /\ L <= Splice /\ head + L <= N
  BY SpliceLenBounds DEF IInv, SendMessage
<1>4. /\ pending \in 1 .. N /\ N \in Nat \ {0} /\ head \in 0 .. N - 1
      /\ cache \in [Idx -> Statuses]
  BY RingAssumption DEF IInv, TypeOK, Idx, SendMessage
<1>5. /\ pending' = pending - L /\ cache' = cache /\ head' = (head + L) % N
      /\ out' = [i \in 1 .. L |-> cache[head + i - 1]]
      /\ out' \in Seq(Statuses)
  BY DEF SendMessage, IInv, TypeOK
<1> HIDE DEF L
<1>6. out' = SubSeq(Unsent, 1, L)
  <2>1. \A i \in 1 .. L : Unsent[i] \in Statuses
    BY <1>1, <1>3, <1>4, ElementOfSeq
  <2>2. /\ SubSeq(Unsent, 1, L) \in Seq(Statuses)
        /\ Len(SubSeq(Unsent, 1, L)) = L
        /\ \A i \in 1 .. L : SubSeq(Unsent, 1, L)[i] = Unsent[i]
    BY <1>3, <1>4, <2>1, SubSeqProperties
  <2>3. Len(out') = L
    BY <1>3, <1>4, <1>5, LenProperties
  <2>4. ASSUME NEW i \in 1 .. L
        PROVE  out'[i] = Unsent[i]
    <3>1. head + i - 1 \in 0 .. N - 1
      BY <1>3, <1>4
    <3>2. (head + i - 1) % N = head + i - 1
      BY <1>4, <3>1, ModSmall
    <3> QED
      BY <1>1, <1>3, <1>4, <1>5, <3>2 DEF SlotOf
  <2> QED
    BY <1>5, <2>2, <2>3, <2>4, SeqEqual
<1>7. Unsent' = SubSeq(Unsent, L + 1, pending)
  <2>1. \A i \in L + 1 .. pending : Unsent[i] \in Statuses
    BY <1>1, <1>3, <1>4, ElementOfSeq
  <2>2. /\ SubSeq(Unsent, L + 1, pending) \in Seq(Statuses)
        /\ Len(SubSeq(Unsent, L + 1, pending)) = pending - L
        /\ \A i \in 1 .. pending - L :
             SubSeq(Unsent, L + 1, pending)[i] = Unsent[L + i]
    BY <1>3, <1>4, <2>1, SubSeqProperties
  <2>3. ASSUME NEW i \in 1 .. pending - L
        PROVE  Unsent'[i] = Unsent[L + i]
    <3>1. L + i \in 1 .. pending
      BY <1>3, <1>4
    <3>2. (((head + L) % N) + (i - 1)) % N = (head + (L + i - 1)) % N
      BY <1>3, <1>4, StepFromHead
    <3>3. SlotOf(i)' = SlotOf(L + i)
      BY <1>3, <1>4, <1>5, <3>2 DEF SlotOf
    <3> QED
      BY <1>1, <1>2, <1>5, <3>1, <3>3
  <2> QED
    BY <1>2, <1>3, <1>4, <1>5, <2>2, <2>3, SeqEqual
<1> QED
  BY <1>1, <1>3, <1>4, <1>6, <1>7 DEF Fifo!Emit, L

-----------------------------------------------------------------------------
\* The status cache hands every report to the host exactly once and in the
\* order of completion: it implements StatusFifo.
THEOREM ImplementsFifo == Spec => FifoSpec
<1>1. Init => Fifo!Init
  BY RingAssumption DEF Init, Fifo!Init, Unsent
<1>2. ASSUME IInv, IInv', [Next]_vars
      PROVE  [Fifo!Next]_(Fifo!vars)
  <2>1. ASSUME NEW s \in Statuses, GetBuffer(s)
        PROVE  Fifo!Quiet
    BY <2>1, UnsentKept DEF GetBuffer, Fifo!Quiet
  <2>2. CASE SendMessage
    BY <1>2, <2>2, SendEmits DEF Fifo!Next
  <2>3. CASE SendReturn
    BY <2>3, UnsentKept DEF SendReturn, Fifo!Quiet, Fifo!Next
  <2>4. CASE Fill
    BY <1>2, <2>4, FillCompletes DEF Fifo!Next, IInv, TypeOK
  <2>5. CASE Drain
    BY <2>5, UnsentKept DEF Drain, Fifo!Quiet, Fifo!Next
  <2>6. CASE UNCHANGED vars
    BY <2>6, UnsentKept DEF vars, Fifo!vars
  <2> QED
    BY <1>2, <2>1, <2>2, <2>3, <2>4, <2>5, <2>6 DEF Next, Fifo!Next
<1> QED
  BY <1>1, <1>2, InvInit, InvInductive, PTL DEF Spec, FifoSpec, Fifo!Spec
=============================================================================

-------------------------- MODULE WlanHang_proofs --------------------------
(***************************************************************************)
(* Proofs about WlanHang, for every number of blocks, queues, tries and ticks: *)
(* a frame the MAC reset has killed is not sent again before it is reported,   *)
(* only frames the MAC stands at, in queues that reported nothing for long     *)
(* enough, are killed, and no queue the MAC stands in is still for ever.       *)
(***************************************************************************)
EXTENDS WlanHang, RingArithmetic, SequenceTheorems, FiniteSetTheorems, TLAPS

-----------------------------------------------------------------------------
(* The invariant *)

\* No descriptor has two places, and every one has one.
RingsApart ==
  \A r \in Rings, s \in Rings : \A i \in 1 .. Len(ring[r]), j \in 1 .. Len(ring[s]) :
    ring[r][i] = ring[s][j] => r = s /\ i = j
Placed == \A d \in Descs : \E r \in Rings : \E i \in 1 .. Len(ring[r]) : ring[r][i] = d

\* All descriptors but the terminators hold frames, no two the same.
Holds ==
  \A r \in Rings : \A i \in 1 .. Len(ring[r]) : (data[ring[r][i]] = Null) = (i = Len(ring[r]))
OneFrame == \A d \in Descs, e \in Descs : data[d] = data[e] /\ data[d] # Null => d = e

Shape == RingsApart /\ Placed /\ Holds /\ OneFrame

\* The frames of a queue are those sent through it.
InQueue(q, d) == \E i \in 1 .. Len(ring[q]) - 1 : ring[q][i] = d
QueueOf == \A q \in Queues : \A d \in Descs : InQueue(q, d) => queue[data[d]] = q

\* What the hang check has counted, it counted while the queue was silent.
EmptyFresh == \A q \in Queues : Empty(q) => lastSuperNum[q] = 0
Counts     == \A q \in Queues : lastSuperNum[q] <= quiet[q]

\* A killed frame waits in a queue to be reported, its tries used up.
KilledWaits ==
  \A d \in Descs : data[d] \in killed =>
    /\ own[d] = "SW" /\ ctrl[d] = "BAFAIL" /\ left[data[d]] = 0
    /\ \E q \in Queues : InQueue(q, d)

\* The reset finds what the hang check saw.
Seen  == pc = "reset" => \A q \in Queues : ~Empty(q) => lastSuper[q] = data[cur[q]]
Steps == pc # "reset" => macReset \in {OFF, 1, FORCE}

IInv == /\ TypeOK /\ Shape /\ QueueOf /\ EmptyFresh /\ Counts
        /\ KilledWaits /\ Seen /\ Steps

LEMMA InvImplies == IInv => Inv
<1> SUFFICES ASSUME IInv, NEW q \in Queues, own[cur[q]] = "HW" PROVE data[cur[q]] \notin killed
  BY DEF Inv, KilledStaysDead, IInv
<1>1. cur[q] \in Descs
  BY DEF IInv, TypeOK
<1> QED
  BY <1>1 DEF IInv, KilledWaits

-----------------------------------------------------------------------------
(* The rings *)

LEMMA RingIds == /\ Queues \subseteq Rings /\ Down \in Rings /\ Retry \in Rings
                 /\ Down \notin Queues /\ Retry \notin Queues /\ Down # Retry
                 /\ Null \notin Buffers /\ NQ \in Nat \ {0} /\ NB \in Nat \ {0}
BY HangAssumption DEF Queues, Down, Retry, Rings, Null, Buffers

LEMMA RingType ==
  ASSUME TypeOK, NEW r \in Rings
  PROVE  /\ ring[r] \in Seq(Descs) /\ Len(ring[r]) \in Nat \ {0} /\ ring[r] # <<>>
         /\ \A i \in 1 .. Len(ring[r]) : ring[r][i] \in Descs
<1>1. ring[r] \in Seq(Descs) /\ ring[r] # <<>>
  BY DEF TypeOK
<1>2. Len(ring[r]) \in Nat \ {0}
  BY <1>1, LenProperties, EmptySeq
<1>3. \A i \in 1 .. Len(ring[r]) : ring[r][i] \in Descs
  BY <1>1, ElementOfSeq
<1> QED
  BY <1>1, <1>2, <1>3

LEMMA QueueHead ==
  ASSUME TypeOK, Holds, NEW r \in Rings, ~Empty(r)
  PROVE  /\ Head(ring[r]) = ring[r][1] /\ InQueue(r, Head(ring[r]))
         /\ Head(ring[r]) \in Descs /\ data[Head(ring[r])] \in Buffers
<1>1. /\ ring[r] \in Seq(Descs) /\ Len(ring[r]) \in Nat \ {0} /\ ring[r] # <<>>
      /\ \A i \in 1 .. Len(ring[r]) : ring[r][i] \in Descs
  BY RingType
<1>2. 1 \in 1 .. Len(ring[r]) - 1 /\ 1 \in 1 .. Len(ring[r]) /\ 1 # Len(ring[r])
  <2>1. Len(ring[r]) # 1
    BY DEF Empty
  <2>2. Len(ring[r]) \in Nat \ {0}
    BY <1>1
  <2> DEFINE n == Len(ring[r])
  <2> HIDE DEF n
  <2>3. n \in Nat \ {0} /\ n # 1
    BY <2>1, <2>2 DEF n
  <2>4. 1 \in 1 .. n - 1 /\ 1 \in 1 .. n /\ 1 # n
    BY <2>3
  <2> QED
    BY <2>4 DEF n
<1>3. Head(ring[r]) = ring[r][1]
  BY <1>1, HeadTailProperties
<1>4. data[ring[r][1]] # Null /\ ring[r][1] \in Descs
  BY <1>1, <1>2 DEF Holds
<1>5. data[ring[r][1]] \in Buffers
  BY <1>4 DEF TypeOK
<1> QED
  BY <1>2, <1>3, <1>4, <1>5 DEF InQueue

\* A frame is in one queue.
LEMMA OneQueue ==
  ASSUME TypeOK, RingsApart, NEW r \in Rings, NEW s \in Rings, NEW d, InQueue(r, d), InQueue(s, d)
  PROVE  r = s
<1>1. PICK i \in 1 .. Len(ring[r]) - 1 : ring[r][i] = d
  BY DEF InQueue
<1>2. PICK j \in 1 .. Len(ring[s]) - 1 : ring[s][j] = d
  BY DEF InQueue
<1>3. i \in 1 .. Len(ring[r]) /\ j \in 1 .. Len(ring[s])
  BY RingType
<1> QED
  BY <1>1, <1>2, <1>3 DEF RingsApart

\* FirstOf() is a place of the ring, its last one or one the MAC has not processed.
LEMMA FirstIsThere ==
  ASSUME NEW s \in Seq(Descs), s # <<>>
  PROVE  \E i \in 1 .. Len(s) : FirstOf(s) = s[i]
<1> DEFINE open == {i \in DOMAIN s : i = Len(s) \/ own[s[i]] # "SW"}
<1>1. Len(s) \in Nat \ {0} /\ DOMAIN s = 1 .. Len(s)
  BY LenProperties, EmptySeq
<1>2. open \in SUBSET Nat /\ open # {} /\ open \subseteq 1 .. Len(s)
  BY <1>1
<1>3. \E i \in open : \A j \in open : i <= j
  <2> HIDE DEF open
  <2> QED
    BY <1>2, Least
<1>4. (CHOOSE i \in open : \A j \in open : i <= j) \in open
  <2> HIDE DEF open
  <2> QED
    BY <1>3
<1> QED
  BY <1>2, <1>4 DEF FirstOf

LEMMA AfterIsThere ==
  ASSUME TypeOK, Placed, NEW d \in Descs
  PROVE  After(d) \in Descs
<1> DEFINE r == CHOOSE r \in Rings : \E i \in 1 .. Len(ring[r]) : ring[r][i] = d
           s == ring[r]
           i == CHOOSE i \in 1 .. Len(s) : s[i] = d
<1>1. r \in Rings /\ \E j \in 1 .. Len(ring[r]) : ring[r][j] = d
  BY DEF Placed
<1>2. i \in 1 .. Len(s)
  BY <1>1
<1>3. After(d) = IF i = Len(s) THEN d ELSE s[i + 1]
  BY DEF After
<1>4. Len(s) \in Nat /\ \A j \in 1 .. Len(s) : s[j] \in Descs
  BY <1>1, RingType
<1> HIDE DEF i, s
<1> QED
  BY <1>2, <1>3, <1>4

\* What Move() does to the rings and to the descriptors.
Moving(r, s) ==
  LET d == ring[r][1]
      t == ring[s][Len(ring[s])]
  IN  /\ ring' \in [Rings -> Seq(Descs)] /\ \A q \in Rings : ring'[q] # <<>>
      /\ Len(ring'[r]) = Len(ring[r]) - 1
      /\ \A i \in 1 .. Len(ring[r]) - 1 : ring'[r][i] = ring[r][i + 1]
      /\ Len(ring'[s]) = Len(ring[s]) + 1 /\ ring'[s][Len(ring[s]) + 1] = d
      /\ \A i \in 1 .. Len(ring[s]) : ring'[s][i] = ring[s][i]
      /\ \A q \in Rings : q # r /\ q # s => ring'[q] = ring[q]
      /\ d \in Descs /\ t \in Descs /\ d # t /\ data[d] \in Buffers /\ data[t] = Null
      /\ data' = [data EXCEPT ![t] = data[d], ![d] = Null]
      /\ own' = [own EXCEPT ![t] = "HW", ![d] = "SW"]
      /\ ctrl' = [ctrl EXCEPT ![t] = "ok", ![d] = "ok"]

LEMMA MoveIs ==
  ASSUME TypeOK, RingsApart, Holds, NEW r \in Rings, NEW s \in Rings, r # s, ~Empty(r), Move(r, s)
  PROVE  Moving(r, s)
<1> DEFINE d == ring[r][1]
           t == ring[s][Len(ring[s])]
<1>1. /\ ring[r] \in Seq(Descs) /\ Len(ring[r]) \in Nat \ {0} /\ ring[r] # <<>>
      /\ ring[s] \in Seq(Descs) /\ Len(ring[s]) \in Nat \ {0} /\ ring[s] # <<>>
      /\ \A i \in 1 .. Len(ring[s]) : ring[s][i] \in Descs
      /\ Len(ring[r]) # 1
  BY RingType DEF Empty
<1>2. Head(ring[r]) = d /\ d \in Descs /\ data[d] \in Buffers
  BY QueueHead
<1>3. Terminator(s) = t /\ t \in Descs
  BY <1>1 DEF Terminator
<1>4. /\ ring' = [ring EXCEPT ![r] = Tail(@), ![s] = Append(@, d)]
      /\ data' = [data EXCEPT ![t] = data[d], ![d] = Null]
      /\ own' = [own EXCEPT ![t] = "HW", ![d] = "SW"]
      /\ ctrl' = [ctrl EXCEPT ![t] = "ok", ![d] = "ok"]
  BY <1>2, <1>3 DEF Move
<1>5. /\ ring'[r] = Tail(ring[r]) /\ ring'[s] = Append(ring[s], d)
      /\ \A q \in Rings : q # r /\ q # s => ring'[q] = ring[q]
      /\ DOMAIN ring' = Rings /\ ring' = [q \in Rings |-> ring'[q]]
  BY <1>4 DEF TypeOK
<1>6. /\ Tail(ring[r]) \in Seq(Descs) /\ Len(Tail(ring[r])) = Len(ring[r]) - 1
      /\ \A i \in 1 .. Len(ring[r]) - 1 : Tail(ring[r])[i] = ring[r][i + 1]
  BY <1>1, HeadTailProperties
<1>7. /\ Append(ring[s], d) \in Seq(Descs) /\ Len(Append(ring[s], d)) = Len(ring[s]) + 1
      /\ Append(ring[s], d)[Len(ring[s]) + 1] = d
      /\ \A i \in 1 .. Len(ring[s]) : Append(ring[s], d)[i] = ring[s][i]
  BY <1>1, <1>2, AppendProperties
<1>8. Tail(ring[r]) # <<>> /\ Append(ring[s], d) # <<>>
  <2>1. Append(ring[s], d) # <<>>
    BY <1>1, <1>2, AppendProperties
  <2>2. Len(ring[r]) - 1 # 0
    BY <1>1
  <2>3. Len(Tail(ring[r])) # 0
    BY <1>6, <2>2
  <2>4. Tail(ring[r]) # <<>>
    BY <1>6, <2>3, EmptySeq
  <2> QED
    BY <2>1, <2>4
<1>9. ASSUME NEW q \in Rings PROVE ring'[q] \in Seq(Descs) /\ ring'[q] # <<>>
  <2>1. ring[q] \in Seq(Descs) /\ ring[q] # <<>>
    BY RingType
  <2> QED
    BY <1>5, <1>6, <1>7, <1>8, <2>1
<1>10. ring' \in [Rings -> Seq(Descs)]
  BY <1>5, <1>9
<1>11. d # t
  <2>1. 1 \in 1 .. Len(ring[r]) /\ Len(ring[s]) \in 1 .. Len(ring[s])
    BY <1>1
  <2> QED
    BY <2>1 DEF RingsApart
<1>12. data[t] = Null
  <2>1. Len(ring[s]) \in 1 .. Len(ring[s])
    BY <1>1
  <2> QED
    BY <2>1 DEF Holds
<1>13. /\ ring' \in [Rings -> Seq(Descs)] /\ \A q \in Rings : ring'[q] # <<>>
       /\ Len(ring'[r]) = Len(ring[r]) - 1
       /\ \A i \in 1 .. Len(ring[r]) - 1 : ring'[r][i] = ring[r][i + 1]
       /\ Len(ring'[s]) = Len(ring[s]) + 1 /\ ring'[s][Len(ring[s]) + 1] = d
       /\ \A i \in 1 .. Len(ring[s]) : ring'[s][i] = ring[s][i]
  BY <1>5, <1>6, <1>7, <1>9, <1>10
<1> QED
  BY <1>2, <1>3, <1>4, <1>5, <1>11, <1>12, <1>13 DEF Moving

\* Where a descriptor stands after Move(), it stood before, but for the one moved.
LEMMA MovedPlace ==
  ASSUME TypeOK, NEW r \in Rings, NEW s \in Rings, r # s, Moving(r, s),
         NEW q \in Rings, NEW i \in 1 .. Len(ring'[q])
  PROVE  \/ q = r /\ i + 1 \in 1 .. Len(ring[r]) /\ i + 1 # 1 /\ ring'[q][i] = ring[r][i + 1]
            /\ (i = Len(ring'[q])) = (i + 1 = Len(ring[r]))
         \/ q = s /\ i \in 1 .. Len(ring[s]) /\ i # Len(ring'[q]) /\ ring'[q][i] = ring[s][i]
         \/ q = s /\ i = Len(ring[s]) + 1 /\ i = Len(ring'[q]) /\ ring'[q][i] = ring[r][1]
         \/ q # r /\ q # s /\ i \in 1 .. Len(ring[q]) /\ ring'[q][i] = ring[q][i]
            /\ Len(ring'[q]) = Len(ring[q])
<1>1. Len(ring[r]) \in Nat \ {0} /\ Len(ring[s]) \in Nat \ {0}
  BY RingType
<1>2. /\ Len(ring'[r]) = Len(ring[r]) - 1
      /\ \A j \in 1 .. Len(ring[r]) - 1 : ring'[r][j] = ring[r][j + 1]
      /\ Len(ring'[s]) = Len(ring[s]) + 1 /\ ring'[s][Len(ring[s]) + 1] = ring[r][1]
      /\ \A j \in 1 .. Len(ring[s]) : ring'[s][j] = ring[s][j]
      /\ \A p \in Rings : p # r /\ p # s => ring'[p] = ring[p]
  BY DEF Moving
<1>3. CASE q = r
  <2>1. i \in 1 .. Len(ring[r]) - 1 /\ ring'[q][i] = ring[r][i + 1]
    BY <1>2, <1>3
  <2> DEFINE n == Len(ring[r])
             m == Len(ring'[q])
  <2>2. n \in Nat \ {0} /\ m = n - 1 /\ i \in 1 .. n - 1
    BY <1>1, <1>2, <1>3, <2>1
  <2> HIDE DEF n, m
  <2>3. i + 1 \in 1 .. n /\ i + 1 # 1 /\ (i = m) = (i + 1 = n)
    BY <2>2
  <2> QED
    BY <1>3, <2>1, <2>3 DEF n, m
<1>4. CASE q = s
  <2> DEFINE n == Len(ring[s])
             m == Len(ring'[q])
  <2>2. n \in Nat \ {0} /\ m = n + 1 /\ i \in 1 .. m
    BY <1>1, <1>2, <1>4
  <2> HIDE DEF n, m
  <2>3. (i \in 1 .. n /\ i # m) \/ (i = n + 1 /\ i = m)
    BY <2>2
  <2> QED
    BY <1>2, <1>4, <2>3 DEF n, m
<1> QED
  BY <1>2, <1>3, <1>4

LEMMA MoveApart ==
  ASSUME TypeOK, RingsApart, NEW r \in Rings, NEW s \in Rings, r # s, Moving(r, s)
  PROVE  RingsApart'
<1> SUFFICES ASSUME NEW p \in Rings, NEW q \in Rings,
                    NEW i \in 1 .. Len(ring'[p]), NEW j \in 1 .. Len(ring'[q]),
                    ring'[p][i] = ring'[q][j]
             PROVE  p = q /\ i = j
  BY DEF RingsApart
<1> DEFINE one == 1
<1>0. one \in 1 .. Len(ring[r]) /\ Len(ring[r]) \in Nat /\ Len(ring[s]) \in Nat
  BY RingType
<1>1. i \in Int /\ j \in Int
  OBVIOUS
<1>2. \/ p = r /\ i + 1 \in 1 .. Len(ring[r]) /\ i + 1 # one /\ ring'[p][i] = ring[r][i + 1]
      \/ p = s /\ i \in 1 .. Len(ring[s]) /\ ring'[p][i] = ring[s][i]
      \/ p = s /\ i = Len(ring[s]) + 1 /\ ring'[p][i] = ring[r][one]
      \/ p # r /\ p # s /\ i \in 1 .. Len(ring[p]) /\ ring'[p][i] = ring[p][i]
  BY MovedPlace
<1>3. \/ q = r /\ j + 1 \in 1 .. Len(ring[r]) /\ j + 1 # one /\ ring'[q][j] = ring[r][j + 1]
      \/ q = s /\ j \in 1 .. Len(ring[s]) /\ ring'[q][j] = ring[s][j]
      \/ q = s /\ j = Len(ring[s]) + 1 /\ ring'[q][j] = ring[r][one]
      \/ q # r /\ q # s /\ j \in 1 .. Len(ring[q]) /\ ring'[q][j] = ring[q][j]
  BY MovedPlace
<1>4. \A u \in Rings, v \in Rings : \A k \in 1 .. Len(ring[u]), l \in 1 .. Len(ring[v]) :
        ring[u][k] = ring[v][l] => u = v /\ k = l
  BY DEF RingsApart
<1> HIDE DEF one
<1>5. CASE p = r /\ i + 1 \in 1 .. Len(ring[r]) /\ i + 1 # one /\ ring'[p][i] = ring[r][i + 1]
  <2>1. q = r /\ j + 1 \in 1 .. Len(ring[r]) /\ ring[r][i + 1] = ring[r][j + 1]
    BY <1>0, <1>3, <1>4, <1>5
  <2>2. i + 1 = j + 1
    BY <1>4, <1>5, <2>1
  <2> QED
    BY <1>1, <1>5, <2>1, <2>2
<1>6. CASE p = s /\ i \in 1 .. Len(ring[s]) /\ ring'[p][i] = ring[s][i]
  BY <1>0, <1>3, <1>4, <1>6
<1>7. CASE p = s /\ i = Len(ring[s]) + 1 /\ ring'[p][i] = ring[r][one]
  BY <1>0, <1>3, <1>4, <1>7
<1>8. CASE p # r /\ p # s /\ i \in 1 .. Len(ring[p]) /\ ring'[p][i] = ring[p][i]
  BY <1>0, <1>3, <1>4, <1>8
<1> QED
  BY <1>2, <1>5, <1>6, <1>7, <1>8

LEMMA MovePlaced ==
  ASSUME TypeOK, Placed, NEW r \in Rings, NEW s \in Rings, r # s, Moving(r, s)
  PROVE  Placed'
<1> SUFFICES ASSUME NEW e \in Descs
             PROVE  \E q \in Rings : \E i \in 1 .. Len(ring'[q]) : ring'[q][i] = e
  BY DEF Placed
<1>1. PICK w \in Rings : \E j \in 1 .. Len(ring[w]) : ring[w][j] = e
  BY DEF Placed
<1>2. PICK j \in 1 .. Len(ring[w]) : ring[w][j] = e
  BY <1>1
<1>3. Len(ring[w]) \in Nat \ {0} /\ Len(ring[s]) \in Nat \ {0}
  BY RingType
<1>4. /\ Len(ring'[r]) = Len(ring[r]) - 1
      /\ \A i \in 1 .. Len(ring[r]) - 1 : ring'[r][i] = ring[r][i + 1]
      /\ Len(ring'[s]) = Len(ring[s]) + 1 /\ ring'[s][Len(ring[s]) + 1] = ring[r][1]
      /\ \A i \in 1 .. Len(ring[s]) : ring'[s][i] = ring[s][i]
      /\ \A q \in Rings : q # r /\ q # s => ring'[q] = ring[q]
  BY DEF Moving
<1>5. CASE w = r /\ j = 1
  <2>1. Len(ring[s]) + 1 \in 1 .. Len(ring'[s]) /\ ring'[s][Len(ring[s]) + 1] = e
    BY <1>2, <1>3, <1>4, <1>5
  <2> QED
    BY <2>1
<1>6. CASE w = r /\ j # 1
  <2>1. j - 1 \in 1 .. Len(ring[r]) - 1 /\ (j - 1) + 1 = j
    BY <1>3, <1>6
  <2>2. j - 1 \in 1 .. Len(ring'[r]) /\ ring'[r][j - 1] = e
    BY <1>2, <1>4, <1>6, <2>1
  <2> QED
    BY <2>2
<1>7. CASE w = s
  <2>1. j \in 1 .. Len(ring'[s]) /\ ring'[s][j] = e
    BY <1>2, <1>3, <1>4, <1>7
  <2> QED
    BY <2>1
<1>8. CASE w # r /\ w # s
  BY <1>2, <1>4, <1>8
<1> QED
  BY <1>5, <1>6, <1>7, <1>8

\* What each descriptor holds after Move().
LEMMA MovedData ==
  ASSUME TypeOK, NEW r \in Rings, NEW s \in Rings, Moving(r, s), NEW e \in Descs
  PROVE  LET d == ring[r][1]
             t == ring[s][Len(ring[s])]
         IN  /\ data'[e] = IF e = d THEN Null ELSE IF e = t THEN data[d] ELSE data[e]
             /\ e # d /\ e # t => own'[e] = own[e] /\ ctrl'[e] = ctrl[e]
BY DEF Moving, TypeOK

LEMMA MoveHolds ==
  ASSUME TypeOK, RingsApart, Holds, NEW r \in Rings, NEW s \in Rings, r # s, Moving(r, s)
  PROVE  Holds'
<1> DEFINE one == 1
           last == Len(ring[s])
           d == ring[r][one]
           t == ring[s][last]
<1> SUFFICES ASSUME NEW q \in Rings, NEW i \in 1 .. Len(ring'[q])
             PROVE  (data'[ring'[q][i]] = Null) = (i = Len(ring'[q]))
  BY DEF Holds
<1>1. one \in 1 .. Len(ring[r]) /\ last \in 1 .. Len(ring[s])
  BY RingType
<1>2. d \in Descs /\ t \in Descs /\ d # t /\ data[d] # Null
  BY RingIds DEF Moving
<1>3. \A e \in Descs : data'[e] = IF e = d THEN Null ELSE IF e = t THEN data[d] ELSE data[e]
  BY MovedData
<1>4. \A u \in Rings, v \in Rings : \A k \in 1 .. Len(ring[u]), l \in 1 .. Len(ring[v]) :
        ring[u][k] = ring[v][l] => u = v /\ k = l
  BY DEF RingsApart
<1>5. \A u \in Rings : \A k \in 1 .. Len(ring[u]) :
        ring[u][k] \in Descs /\ (data[ring[u][k]] = Null) = (k = Len(ring[u]))
  BY RingType DEF Holds
<1>6. \/ q = r /\ i + 1 \in 1 .. Len(ring[r]) /\ i + 1 # one /\ ring'[q][i] = ring[r][i + 1]
         /\ (i = Len(ring'[q])) = (i + 1 = Len(ring[r]))
      \/ q = s /\ i \in 1 .. last /\ i # Len(ring'[q]) /\ ring'[q][i] = ring[s][i]
      \/ q = s /\ i = Len(ring'[q]) /\ ring'[q][i] = d
      \/ q # r /\ q # s /\ i \in 1 .. Len(ring[q]) /\ ring'[q][i] = ring[q][i]
         /\ Len(ring'[q]) = Len(ring[q])
  BY MovedPlace
<1> HIDE DEF one, d, t
<1>7. CASE q = r /\ i + 1 \in 1 .. Len(ring[r]) /\ i + 1 # one /\ ring'[q][i] = ring[r][i + 1]
           /\ (i = Len(ring'[q])) = (i + 1 = Len(ring[r]))
  <2>1. ring[r][i + 1] # d /\ ring[r][i + 1] # t
    BY <1>1, <1>4, <1>7 DEF d, t
  <2> QED
    BY <1>3, <1>5, <1>7, <2>1
<1>8. CASE q = s /\ i \in 1 .. last /\ i # Len(ring'[q]) /\ ring'[q][i] = ring[s][i]
  <2>1. ring[s][i] # d /\ (ring[s][i] # t => i # last)
    BY <1>1, <1>4, <1>8 DEF d, t
  <2> QED
    BY <1>2, <1>3, <1>5, <1>8, <2>1
<1>9. CASE q = s /\ i = Len(ring'[q]) /\ ring'[q][i] = d
  BY <1>2, <1>3, <1>9
<1>10. CASE q # r /\ q # s /\ i \in 1 .. Len(ring[q]) /\ ring'[q][i] = ring[q][i]
            /\ Len(ring'[q]) = Len(ring[q])
  <2>1. ring[q][i] # d /\ ring[q][i] # t
    BY <1>1, <1>4, <1>10 DEF d, t
  <2> QED
    BY <1>3, <1>5, <1>10, <2>1
<1> QED
  BY <1>6, <1>7, <1>8, <1>9, <1>10

LEMMA MoveOneFrame ==
  ASSUME TypeOK, OneFrame, NEW r \in Rings, NEW s \in Rings, Moving(r, s)
  PROVE  OneFrame'
<1> DEFINE d == ring[r][1]
           t == ring[s][Len(ring[s])]
<1>1. \A e \in Descs : data'[e] = IF e = d THEN Null ELSE IF e = t THEN data[d] ELSE data[e]
  BY MovedData
<1>2. d \in Descs /\ t \in Descs /\ d # t /\ data[d] # Null
  BY RingIds DEF Moving
<1> HIDE DEF d, t
<1> QED
  BY <1>1, <1>2 DEF OneFrame

LEMMA MoveShape ==
  ASSUME TypeOK, Shape, NEW r \in Rings, NEW s \in Rings, r # s, Moving(r, s)
  PROVE  Shape'
BY MoveApart, MovePlaced, MoveHolds, MoveOneFrame DEF Shape

LEMMA MoveType ==
  ASSUME TypeOK, NEW r \in Rings, NEW s \in Rings, Moving(r, s)
  PROVE  /\ ring' \in [Rings -> Seq(Descs)] /\ \A q \in Rings : ring'[q] # <<>>
         /\ data' \in [Descs -> Buffers \cup {Null}]
         /\ own' \in [Descs -> {"HW", "SW"}] /\ ctrl' \in [Descs -> {"ok", "TXFAIL", "BAFAIL"}]
BY DEF Moving, TypeOK

\* The frames of a queue after Move(): one has come to s, one has left r.
LEMMA MovedQueue ==
  ASSUME TypeOK, RingsApart, NEW r \in Rings, NEW s \in Rings, r # s, Moving(r, s),
         NEW q \in Rings, NEW e \in Descs
  PROVE  LET d == ring[r][1]
             t == ring[s][Len(ring[s])]
         IN  /\ InQueue(q, e)' => e # d /\ ((e = t /\ q = s) \/ (e # t /\ InQueue(q, e)))
             /\ InQueue(q, e) /\ e # d => e # t /\ InQueue(q, e)'
<1> DEFINE one == 1
           last == Len(ring[s])
           d == ring[r][one]
           t == ring[s][last]
<1>1. /\ one \in 1 .. Len(ring[r]) /\ last \in 1 .. Len(ring[s])
      /\ \A u \in Rings : Len(ring[u]) \in Nat \ {0}
  BY RingType
<1>2. \A u \in Rings, v \in Rings : \A k \in 1 .. Len(ring[u]), l \in 1 .. Len(ring[v]) :
        ring[u][k] = ring[v][l] => u = v /\ k = l
  BY DEF RingsApart
<1>3. ASSUME InQueue(q, e)' PROVE e # d /\ ((e = t /\ q = s) \/ (e # t /\ InQueue(q, e)))
  <2>1. PICK i \in 1 .. Len(ring'[q]) - 1 : ring'[q][i] = e
    BY <1>3 DEF InQueue
  <2>2. Len(ring'[q]) \in Nat
    BY LenProperties DEF Moving
  <2>3. i \in 1 .. Len(ring'[q]) /\ i # Len(ring'[q])
    BY <2>2
  <2>4. \/ q = r /\ i + 1 \in 1 .. Len(ring[r]) /\ i + 1 # one /\ ring'[q][i] = ring[r][i + 1]
           /\ i + 1 # Len(ring[r])
        \/ q = s /\ i \in 1 .. last /\ ring'[q][i] = ring[s][i]
        \/ q # r /\ q # s /\ i \in 1 .. Len(ring[q]) /\ ring'[q][i] = ring[q][i]
           /\ i # Len(ring[q])
    BY <2>3, MovedPlace
  <2> HIDE DEF one, d, t
  <2>5. CASE q = r /\ i + 1 \in 1 .. Len(ring[r]) /\ i + 1 # one /\ ring'[q][i] = ring[r][i + 1]
             /\ i + 1 # Len(ring[r])
    <3>1. ring[r][i + 1] # d /\ ring[r][i + 1] # t
      BY <1>1, <1>2, <2>5 DEF d, t
    <3>2. i + 1 \in 1 .. Len(ring[r]) - 1
      BY <1>1, <2>5
    <3> QED
      BY <2>1, <2>5, <3>1, <3>2 DEF InQueue
  <2>6. CASE q = s /\ i \in 1 .. last /\ ring'[q][i] = ring[s][i]
    <3>1. ring[s][i] # d /\ (ring[s][i] = t \/ i # last) /\ (i # last => ring[s][i] # t)
      BY <1>1, <1>2, <2>6 DEF d, t
    <3>2. i # last => i \in 1 .. Len(ring[s]) - 1
      BY <1>1, <2>6
    <3>0. e = ring[s][i] /\ q = s
      BY <2>1, <2>6
    <3>3. CASE ring[s][i] = t
      <4>1. e = t /\ e # d
        BY <3>0, <3>1, <3>3
      <4> QED
        BY <3>0, <4>1
    <3>4. CASE i # last
      <4>1. InQueue(q, e)
        BY <2>1, <2>6, <3>2, <3>4 DEF InQueue
      <4> QED
        BY <3>0, <3>1, <3>4, <4>1
    <3> QED
      BY <3>1, <3>3, <3>4
  <2>7. CASE q # r /\ q # s /\ i \in 1 .. Len(ring[q]) /\ ring'[q][i] = ring[q][i]
             /\ i # Len(ring[q])
    <3>1. ring[q][i] # d /\ ring[q][i] # t
      BY <1>1, <1>2, <2>7 DEF d, t
    <3>2. i \in 1 .. Len(ring[q]) - 1
      BY <1>1, <2>7
    <3> QED
      BY <2>1, <2>7, <3>1, <3>2 DEF InQueue
  <2> QED
    BY <2>4, <2>5, <2>6, <2>7
<1>4. ASSUME InQueue(q, e), e # d PROVE e # t /\ InQueue(q, e)'
  <2>1. PICK i \in 1 .. Len(ring[q]) - 1 : ring[q][i] = e
    BY <1>4 DEF InQueue
  <2>2. i \in 1 .. Len(ring[q]) /\ i # Len(ring[q]) /\ i \in Int
    BY <1>1
  <2>3. e # t
    BY <1>1, <1>2, <2>1, <2>2 DEF t
  <2>4. /\ Len(ring'[r]) = Len(ring[r]) - 1
        /\ \A k \in 1 .. Len(ring[r]) - 1 : ring'[r][k] = ring[r][k + 1]
        /\ Len(ring'[s]) = Len(ring[s]) + 1
        /\ \A k \in 1 .. Len(ring[s]) : ring'[s][k] = ring[s][k]
        /\ \A p \in Rings : p # r /\ p # s => ring'[p] = ring[p]
    BY DEF Moving
  <2>5. CASE q = r
    <3>1. i # 1
      BY <1>4, <2>1, <2>5 DEF d, one
    <3>2. i - 1 \in 1 .. Len(ring[r]) - 1 /\ i - 1 \in 1 .. (Len(ring[r]) - 1) - 1
          /\ (i - 1) + 1 = i
      BY <1>1, <2>1, <2>2, <2>5, <3>1
    <3>3. ring'[r][i - 1] = ring[r][i]
      BY <2>4, <3>2
    <3>4. i - 1 \in 1 .. Len(ring'[q]) - 1 /\ ring'[q][i - 1] = e
      BY <2>1, <2>4, <2>5, <3>2, <3>3
    <3> QED
      BY <2>3, <3>4 DEF InQueue
  <2>6. CASE q = s
    <3>1. i \in 1 .. (Len(ring[s]) + 1) - 1
      BY <1>1, <2>1, <2>6
    <3>2. i \in 1 .. Len(ring'[q]) - 1 /\ ring'[q][i] = e
      BY <2>1, <2>2, <2>4, <2>6, <3>1
    <3> QED
      BY <2>3, <3>2 DEF InQueue
  <2>7. CASE q # r /\ q # s
    BY <2>1, <2>3, <2>4, <2>7 DEF InQueue
  <2> QED
    BY <2>5, <2>6, <2>7
<1> QED
  BY <1>3, <1>4

\* A frame of a queue that moves goes to its queue, or leaves the queue to be done
\* with or tried again: the hang check of the queue starts anew, and the frame is
\* not, or no longer, a killed one.
MovesWell(r, s) ==
  LET b == data[ring[r][1]]
  IN  /\ queue' = queue /\ (s \in Queues => queue[b] = s)
      /\ \A q \in Queues : lastSuperNum'[q] \in {0, lastSuperNum[q]}
      /\ r \in Queues => lastSuperNum'[r] = 0
      /\ killed' \subseteq killed \ {b}
      /\ \A c \in killed' : left'[c] = left[c]

LEMMA MoveKeeps ==
  ASSUME IInv, NEW r \in Rings, NEW s \in Rings, r # s, Moving(r, s), MovesWell(r, s)
  PROVE  Shape' /\ QueueOf' /\ EmptyFresh' /\ KilledWaits'
<1> DEFINE d == ring[r][1]
           t == ring[s][Len(ring[s])]
<1>0. /\ TypeOK /\ Shape /\ RingsApart /\ QueueOf /\ EmptyFresh /\ KilledWaits
      /\ Queues \subseteq Rings /\ Null \notin Buffers /\ killed \subseteq Buffers
  BY RingIds DEF IInv, Shape, TypeOK
<1>1. Shape'
  BY <1>0, MoveShape
<1>2. /\ d \in Descs /\ t \in Descs /\ d # t
      /\ \A e \in Descs : /\ data'[e] = IF e = d THEN Null ELSE IF e = t THEN data[d] ELSE data[e]
                          /\ e # d /\ e # t => own'[e] = own[e] /\ ctrl'[e] = ctrl[e]
  <2>1. d \in Descs /\ t \in Descs /\ d # t
    BY DEF Moving
  <2> QED
    BY <1>0, <2>1, MovedData
<1>3. \A q \in Rings, e \in Descs :
        /\ InQueue(q, e)' => e # d /\ ((e = t /\ q = s) \/ (e # t /\ InQueue(q, e)))
        /\ InQueue(q, e) /\ e # d => e # t /\ InQueue(q, e)'
  BY <1>0, MovedQueue
<1>4. /\ queue' = queue /\ (s \in Queues => queue[data[d]] = s)
      /\ killed' \subseteq killed \ {data[d]}
      /\ \A c \in killed' : left'[c] = left[c]
  BY DEF MovesWell
<1>5. ASSUME NEW q \in Queues, NEW e \in Descs, InQueue(q, e)'
      PROVE  queue'[data'[e]] = q
  <2> HIDE DEF d, t
  <2>1. CASE e = t /\ q = s
    BY <1>2, <1>4, <2>1
  <2>2. CASE e # d /\ e # t /\ InQueue(q, e)
    BY <1>0, <1>2, <1>4, <2>2 DEF QueueOf
  <2> QED
    BY <1>0, <1>3, <1>5, <2>1, <2>2
<1>6. ASSUME NEW q \in Queues, Empty(q)'
      PROVE  lastSuperNum'[q] = 0
  <2>1. Len(ring'[q]) = 1 /\ q \in Rings /\ Len(ring[s]) \in Nat \ {0}
    BY <1>0, <1>6, RingType DEF Empty
  <2>2. q # s
    BY <2>1 DEF Moving
  <2>3. q # r => Empty(q)
    BY <2>1, <2>2 DEF Moving, Empty
  <2> QED
    BY <1>0, <2>3 DEF MovesWell, EmptyFresh
<1>7. ASSUME NEW e \in Descs, data'[e] \in killed'
      PROVE  /\ own'[e] = "SW" /\ ctrl'[e] = "BAFAIL" /\ left'[data'[e]] = 0
             /\ \E q \in Queues : InQueue(q, e)'
  <2> HIDE DEF d, t
  <2>1. e # d /\ e # t /\ data'[e] = data[e] /\ data[e] \in killed
    BY <1>0, <1>2, <1>4, <1>7
  <2>2. own[e] = "SW" /\ ctrl[e] = "BAFAIL" /\ left[data[e]] = 0
    BY <1>0, <2>1 DEF KilledWaits
  <2>3. PICK q \in Queues : InQueue(q, e)
    BY <1>0, <2>1 DEF KilledWaits
  <2>4. InQueue(q, e)'
    BY <1>0, <1>3, <2>1, <2>3
  <2> QED
    BY <1>2, <1>4, <1>7, <2>1, <2>2, <2>4
<1> QED
  BY <1>1, <1>5, <1>6, <1>7 DEF QueueOf, EmptyFresh, KilledWaits

-----------------------------------------------------------------------------
(* The steps *)

\* A step that leaves the rings and their frames alone.
LEMMA QuietKeeps ==
  ASSUME IInv, UNCHANGED <<ring, data, queue, own, ctrl, left, lastSuperNum, killed>>
  PROVE  Shape' /\ QueueOf' /\ EmptyFresh' /\ KilledWaits'
BY DEF IInv, Shape, RingsApart, Placed, Holds, OneFrame, QueueOf, InQueue, EmptyFresh, Empty,
       KilledWaits

LEMMA Stutter ==
  ASSUME IInv, UNCHANGED vars
  PROVE  IInv'
<1> USE DEF vars, desc, frame, mac, check, hist
<1>1. Shape' /\ QueueOf' /\ EmptyFresh' /\ KilledWaits'
  BY QuietKeeps
<1>2. TypeOK'
  BY DEF IInv, TypeOK
<1>3. Counts' /\ Seen' /\ Steps'
  BY DEF IInv, Counts, Seen, Steps, Empty
<1> QED
  BY <1>1, <1>2, <1>3 DEF IInv

\* The steps of the loop that only move its place.
LEMMA LoopSteps ==
  ASSUME IInv, AckInterrupt \/ LeaveQueue \/ NextQueue \/ NotDue \/ Swrst
  PROVE  IInv'
<1> USE DEF AckInterrupt, LeaveQueue, NextQueue, NotDue, Swrst, desc, frame, mac, check, hist
<1>1. /\ UNCHANGED <<ring, data, queue, own, ctrl, left, lastSuper, lastSuperNum, cur, halt>>
      /\ UNCHANGED <<still, quiet, killed>>
      /\ intr' \in BOOLEAN \/ intr' = intr
      /\ pc' \in {"wlan", "txc", "retry", "host"} /\ pc \in {"wlan", "txc", "retry", "host"}
      /\ macReset' = macReset \/ macReset' = FORCE
  OBVIOUS
<1>2. Shape' /\ QueueOf' /\ EmptyFresh' /\ KilledWaits'
  BY <1>1, QuietKeeps
<1>3. ix' \in Queues
  <2>1. ix \in 0 .. NQ - 1 /\ NQ \in Nat \ {0}
    BY RingIds DEF IInv, TypeOK, Queues
  <2>2. ix' = ix \/ ix' = NQ - 1 \/ ix' = 0 \/ (ix # 0 /\ ix' = ix - 1)
    OBVIOUS
  <2>3. ix' \in 0 .. NQ - 1
    BY <2>1, <2>2
  <2> QED
    BY <2>3 DEF Queues
<1>4. macReset' \in {OFF, 1, FORCE}
  BY <1>1 DEF IInv, Steps
<1>5. macReset' \in OFF .. FORCE + NQ + 1
  BY <1>4, RingIds DEF OFF, FORCE
<1>6. TypeOK'
  <2>1. pc' \in {"wlan", "txc", "retry", "host", "reset"} /\ intr' \in BOOLEAN
    BY <1>1 DEF IInv, TypeOK
  <2> QED
    BY <1>1, <1>3, <1>5, <2>1 DEF IInv, TypeOK
<1>7. Counts' /\ Seen' /\ Steps'
  BY <1>1, <1>4 DEF IInv, Counts, Seen, Steps, Empty
<1> QED
  BY <1>2, <1>6, <1>7 DEF IInv

\* The frame at the head of queue ix belongs to it.
LEMMA CompletionHead ==
  ASSUME IInv, Pending(ix)
  PROVE  LET d == Head(ring[ix])
         IN  /\ d = ring[ix][1] /\ d \in Descs /\ data[d] \in Buffers /\ InQueue(ix, d)
             /\ queue[data[d]] = ix /\ ix \in Queues /\ ix \in Rings /\ ~Empty(ix) /\ own[d] = "SW"
             /\ ix # Down /\ ix # Retry
<1>1. ix \in Queues /\ ix \in Rings /\ ~Empty(ix) /\ TypeOK /\ Holds /\ QueueOf
      /\ ix # Down /\ ix # Retry
  BY RingIds DEF IInv, TypeOK, Pending, Shape
<1>2. /\ Head(ring[ix]) = ring[ix][1] /\ InQueue(ix, Head(ring[ix]))
      /\ Head(ring[ix]) \in Descs /\ data[Head(ring[ix])] \in Buffers
  BY <1>1, QueueHead
<1>3. queue[data[Head(ring[ix])]] = ix
  BY <1>1, <1>2 DEF QueueOf
<1> QED
  BY <1>1, <1>2, <1>3 DEF Pending

LEMMA TxRearmKeeps ==
  ASSUME IInv, TxRearm
  PROVE  IInv'
<1> DEFINE d == Head(ring[ix])
           b == data[d]
<1>1. /\ pc = "txc" /\ Pending(ix) /\ ctrl[d] = "TXFAIL" /\ left[b] > 0
      /\ left' = [left EXCEPT ![b] = @ - 1]
      /\ own' = [own EXCEPT ![d] = "HW"] /\ ctrl' = [ctrl EXCEPT ![d] = "ok"]
      /\ cur' = [cur EXCEPT ![ix] = d] /\ halt' = [halt EXCEPT ![ix] = FALSE]
      /\ Alive(queue[b]) /\ pc' = "retry"
      /\ UNCHANGED <<ring, data, queue, intr, ix, killed>>
  BY DEF TxRearm, Unstuck
<1>2. d \in Descs /\ b \in Buffers /\ queue[b] = ix /\ ix \in Queues
  BY <1>1, CompletionHead
<1> HIDE DEF d, b
<1>3. /\ lastSuperNum' = [lastSuperNum EXCEPT ![ix] = 0]
      /\ lastSuper' = lastSuper /\ macReset' = macReset
      /\ still' = [still EXCEPT ![ix] = 0] /\ quiet' = [quiet EXCEPT ![ix] = 0]
  BY <1>1, <1>2 DEF Alive, Reported, Moved
<1>4. left[b] \in 1 .. Tries - 1 /\ Stuck \in Nat /\ Tries \in Nat
  BY <1>1, <1>2, HangAssumption DEF IInv, TypeOK
<1>5. TypeOK'
  <2>1. left[b] - 1 \in 0 .. Tries - 1
    BY <1>4
  <2>2. 0 \in 0 .. Stuck /\ 0 \in Nat
    BY <1>4
  <2> QED
    BY <1>1, <1>2, <1>3, <2>1, <2>2 DEF IInv, TypeOK
<1>6. Shape' /\ QueueOf'
  BY <1>1 DEF IInv, Shape, RingsApart, Placed, Holds, OneFrame, QueueOf, InQueue
<1>7. EmptyFresh' /\ Counts'
  BY <1>1, <1>2, <1>3 DEF IInv, TypeOK, EmptyFresh, Counts, Empty
<1>8. KilledWaits'
  <2>1. b \notin killed
    BY <1>1, <1>2 DEF IInv, KilledWaits, b
  <2>2. ASSUME NEW e \in Descs, data[e] \in killed
        PROVE  e # d /\ data[e] # b
    BY <1>1, <1>2, <2>1, <2>2 DEF b
  <2>3. ASSUME NEW e \in Descs, data[e] \in killed
        PROVE  /\ own'[e] = "SW" /\ ctrl'[e] = "BAFAIL" /\ left'[data[e]] = 0
               /\ \E q \in Queues : InQueue(q, e)'
    <3>1. own[e] = "SW" /\ ctrl[e] = "BAFAIL" /\ left[data[e]] = 0
      BY <2>3 DEF IInv, KilledWaits
    <3>2. PICK q \in Queues : InQueue(q, e)
      BY <2>3 DEF IInv, KilledWaits
    <3>3. InQueue(q, e)'
      BY <1>1, <3>2 DEF InQueue
    <3>4. data[e] \in Buffers /\ e # d /\ data[e] # b
      BY <2>2, <2>3 DEF IInv, TypeOK
    <3>5. own'[e] = own[e] /\ ctrl'[e] = ctrl[e] /\ left'[data[e]] = left[data[e]]
      BY <1>1, <1>2, <3>4 DEF IInv, TypeOK
    <3> QED
      BY <3>1, <3>3, <3>5
  <2> QED
    BY <1>1, <2>3 DEF KilledWaits
<1>9. Seen' /\ Steps'
  BY <1>1, <1>3 DEF IInv, Seen, Steps
<1> QED
  BY <1>5, <1>6, <1>7, <1>8, <1>9 DEF IInv

LEMMA TxRetryLaterKeeps ==
  ASSUME IInv, TxRetryLater
  PROVE  IInv'
<1> DEFINE d == Head(ring[ix])
           b == data[d]
<1>1. /\ pc = "txc" /\ Pending(ix) /\ left[b] > 0
      /\ left' = [left EXCEPT ![b] = @ - 1]
      /\ Move(ix, Retry) /\ Alive(queue[b])
      /\ UNCHANGED <<queue, cur, halt, intr, pc, ix, killed>>
  BY DEF TxRetryLater, mac
<1>2. /\ d \in Descs /\ d = ring[ix][1] /\ b \in Buffers /\ queue[b] = ix /\ ix \in Queues
      /\ ix \in Rings /\ ix # Retry /\ ~Empty(ix) /\ Retry \in Rings /\ Retry \notin Queues
  BY <1>1, CompletionHead, RingIds
<1>3. Moving(ix, Retry)
  BY <1>1, <1>2, MoveIs DEF IInv, Shape
<1> HIDE DEF d, b
<1>4. /\ lastSuperNum' = [lastSuperNum EXCEPT ![ix] = 0]
      /\ lastSuper' = lastSuper /\ macReset' = macReset
      /\ still' = [still EXCEPT ![ix] = 0] /\ quiet' = [quiet EXCEPT ![ix] = 0]
  BY <1>1, <1>2 DEF Alive, Reported, Moved
<1>5. left[b] \in 1 .. Tries - 1 /\ Stuck \in Nat /\ Tries \in Nat
  BY <1>1, <1>2, HangAssumption DEF IInv, TypeOK
<1>6. TypeOK'
  <2>1. left[b] - 1 \in 0 .. Tries - 1 /\ 0 \in 0 .. Stuck /\ 0 \in Nat
    BY <1>5
  <2>2. /\ ring' \in [Rings -> Seq(Descs)] /\ \A q \in Rings : ring'[q] # <<>>
        /\ data' \in [Descs -> Buffers \cup {Null}]
        /\ own' \in [Descs -> {"HW", "SW"}] /\ ctrl' \in [Descs -> {"ok", "TXFAIL", "BAFAIL"}]
    BY <1>2, <1>3, MoveType DEF IInv
  <2> QED
    BY <1>1, <1>2, <1>4, <2>1, <2>2 DEF IInv, TypeOK
<1>7. MovesWell(ix, Retry)
  <2>1. b \notin killed /\ b = data[ring[ix][1]]
    <3>1. left[b] # 0
      BY <1>5
    <3> QED
      BY <1>2, <3>1 DEF IInv, KilledWaits, b
  <2>2. \A q \in Queues : lastSuperNum'[q] \in {0, lastSuperNum[q]}
    BY <1>2, <1>4 DEF IInv, TypeOK
  <2>3. lastSuperNum'[ix] = 0 /\ \A c \in killed' : left'[c] = left[c]
    BY <1>1, <1>2, <1>4, <2>1 DEF IInv, TypeOK
  <2> QED
    BY <1>1, <1>2, <2>1, <2>2, <2>3 DEF MovesWell
<1>8. Shape' /\ QueueOf' /\ EmptyFresh' /\ KilledWaits'
  BY <1>2, <1>3, <1>7, MoveKeeps
<1>9. Counts' /\ Seen' /\ Steps'
  BY <1>1, <1>2, <1>4 DEF IInv, TypeOK, Counts, Seen, Steps
<1> QED
  BY <1>6, <1>8, <1>9 DEF IInv

LEMMA TxDoneKeeps ==
  ASSUME IInv, TxDone
  PROVE  IInv'
<1> DEFINE d == Head(ring[ix])
           b == data[d]
<1>1. /\ pc = "txc" /\ Pending(ix)
      /\ left' = [left EXCEPT ![b] = 0]
      /\ Move(ix, Down) /\ Alive(queue[b])
      /\ killed' = killed \ {b}
      /\ \/ Unstuck(FirstOf(Tail(ring[ix]))) /\ pc' = "retry"
         \/ UNCHANGED <<cur, halt, pc>>
      /\ UNCHANGED <<queue, intr, ix>>
  BY DEF TxDone
<1>2. /\ d \in Descs /\ d = ring[ix][1] /\ b \in Buffers /\ queue[b] = ix /\ ix \in Queues
      /\ ix \in Rings /\ ix # Down /\ ~Empty(ix) /\ Down \in Rings /\ Down \notin Queues
  BY <1>1, CompletionHead, RingIds
<1>3. Moving(ix, Down)
  BY <1>1, <1>2, MoveIs DEF IInv, Shape
<1> HIDE DEF d, b
<1>4. /\ lastSuperNum' = [lastSuperNum EXCEPT ![ix] = 0]
      /\ lastSuper' = lastSuper /\ macReset' = macReset
      /\ still' = [still EXCEPT ![ix] = 0] /\ quiet' = [quiet EXCEPT ![ix] = 0]
  BY <1>1, <1>2 DEF Alive, Reported, Moved
<1>5. cur' \in [Queues -> Descs] /\ halt' \in [Queues -> BOOLEAN]
      /\ pc' \in {"txc", "retry"}
  <2>1. CASE Unstuck(FirstOf(Tail(ring[ix]))) /\ pc' = "retry"
    <3>1. /\ ring[ix] \in Seq(Descs) /\ Len(ring[ix]) \in Nat \ {0} /\ ring[ix] # <<>>
          /\ Len(ring[ix]) # 1
      BY <1>2, RingType DEF IInv, Empty
    <3>2. Tail(ring[ix]) \in Seq(Descs) /\ Len(Tail(ring[ix])) = Len(ring[ix]) - 1
      BY <3>1, HeadTailProperties
    <3>3. Len(ring[ix]) - 1 # 0
      BY <3>1
    <3>4. Tail(ring[ix]) # <<>>
      BY <3>2, <3>3, EmptySeq
    <3>5. FirstOf(Tail(ring[ix])) \in Descs
      BY <3>2, <3>4, FirstIsThere, ElementOfSeq
    <3> QED
      BY <2>1, <3>5 DEF Unstuck, IInv, TypeOK
  <2>2. CASE UNCHANGED <<cur, halt, pc>>
    BY <1>1, <2>2 DEF IInv, TypeOK
  <2> QED
    BY <1>1, <2>1, <2>2
<1>6. TypeOK'
  <2>1. 0 \in 0 .. Tries - 1 /\ 0 \in 0 .. Stuck /\ 0 \in Nat
    BY HangAssumption
  <2>2. /\ ring' \in [Rings -> Seq(Descs)] /\ \A q \in Rings : ring'[q] # <<>>
        /\ data' \in [Descs -> Buffers \cup {Null}]
        /\ own' \in [Descs -> {"HW", "SW"}] /\ ctrl' \in [Descs -> {"ok", "TXFAIL", "BAFAIL"}]
    BY <1>2, <1>3, MoveType DEF IInv
  <2> QED
    BY <1>1, <1>2, <1>4, <1>5, <2>1, <2>2 DEF IInv, TypeOK
<1>7. MovesWell(ix, Down)
  <2>1. \A q \in Queues : lastSuperNum'[q] \in {0, lastSuperNum[q]}
    BY <1>2, <1>4 DEF IInv, TypeOK
  <2>2. lastSuperNum'[ix] = 0 /\ \A c \in killed' : left'[c] = left[c]
    BY <1>1, <1>2, <1>4 DEF IInv, TypeOK
  <2>3. b = data[ring[ix][1]]
    BY <1>2 DEF b
  <2> QED
    BY <1>1, <1>2, <2>1, <2>2, <2>3 DEF MovesWell
<1>8. Shape' /\ QueueOf' /\ EmptyFresh' /\ KilledWaits'
  BY <1>2, <1>3, <1>7, MoveKeeps
<1>9. Counts' /\ Seen' /\ Steps'
  BY <1>1, <1>2, <1>4, <1>5 DEF IInv, TypeOK, Counts, Seen, Steps
<1> QED
  BY <1>6, <1>8, <1>9 DEF IInv

\* A frame from tx_retry or down_queue goes to its queue.
LEMMA PutKeeps ==
  ASSUME IInv, NEW r \in {Down, Retry}, ~Empty(r), Move(r, queue[data[Head(ring[r])]]),
         Starts(queue[data[Head(ring[r])]]), pc # "reset",
         \/ left' = left
         \/ left' = [left EXCEPT ![data[Head(ring[r])]] = Tries - 1],
         UNCHANGED <<queue, mac, intr, check, pc, ix, quiet, killed>>
  PROVE  IInv'
<1> DEFINE d == Head(ring[r])
           b == data[d]
           s == queue[b]
<1>1. TypeOK /\ RingsApart /\ Holds /\ r \in Rings /\ r \notin Queues /\ Queues \subseteq Rings
  BY RingIds DEF IInv, Shape
<1>2. d = ring[r][1] /\ InQueue(r, d) /\ d \in Descs /\ b \in Buffers
  BY <1>1, QueueHead
<1>3. s \in Queues /\ s \in Rings /\ r # s
  BY <1>1, <1>2 DEF TypeOK
<1>4. Moving(r, s)
  BY <1>1, <1>3, MoveIs
<1>5. b \notin killed
  <2>1. ASSUME b \in killed PROVE FALSE
    <3>1. PICK q \in Queues : InQueue(q, d)
      BY <1>2, <2>1 DEF IInv, KilledWaits
    <3> QED
      BY <1>1, <1>2, <3>1, OneQueue
  <2> QED
    BY <2>1
<1>6. left' \in [Buffers -> 0 .. Tries - 1] /\ \A c \in killed : left'[c] = left[c]
  <2>1. Tries - 1 \in 0 .. Tries - 1
    BY HangAssumption
  <2>2. left \in [Buffers -> 0 .. Tries - 1] /\ killed \subseteq Buffers
    BY <1>1 DEF TypeOK
  <2>3. left' = left \/ left' = [left EXCEPT ![b] = Tries - 1]
    OBVIOUS
  <2> HIDE DEF b
  <2> QED
    BY <1>2, <1>5, <2>1, <2>2, <2>3
<1>7. still' \in [Queues -> Nat]
  <2>1. still' = still \/ still' = [still EXCEPT ![s] = 0]
    BY DEF Starts
  <2>2. still \in [Queues -> Nat] /\ 0 \in Nat
    BY <1>1 DEF TypeOK
  <2> QED
    BY <2>1, <2>2
<1>8. MovesWell(r, s)
  <2>1. b = data[ring[r][1]]
    BY <1>2
  <2> QED
    BY <1>1, <1>5, <1>6, <2>1 DEF MovesWell, check
<1>9. Shape' /\ QueueOf' /\ EmptyFresh' /\ KilledWaits'
  BY <1>1, <1>3, <1>4, <1>8, MoveKeeps
<1>10. TypeOK'
  <2>1. /\ ring' \in [Rings -> Seq(Descs)] /\ \A q \in Rings : ring'[q] # <<>>
        /\ data' \in [Descs -> Buffers \cup {Null}]
        /\ own' \in [Descs -> {"HW", "SW"}] /\ ctrl' \in [Descs -> {"ok", "TXFAIL", "BAFAIL"}]
    BY <1>1, <1>3, <1>4, MoveType
  <2> HIDE DEF b, d, s
  <2> QED
    BY <1>1, <1>6, <1>7, <2>1 DEF TypeOK, mac, check
<1>11. Counts' /\ Seen' /\ Steps'
  BY DEF IInv, Counts, Seen, Steps, check
<1> QED
  BY <1>9, <1>10, <1>11 DEF IInv

LEMMA PutSteps ==
  ASSUME IInv, Requeue \/ TakeDown
  PROVE  IInv'
<1>1. CASE Requeue
  BY <1>1, PutKeeps DEF Requeue, frame
<1>2. CASE TakeDown
  BY <1>2, PutKeeps DEF TakeDown, Pending
<1> QED
  BY <1>1, <1>2

LEMMA TimerKeeps ==
  ASSUME IInv, NEW o \in Overruns, Timer(o)
  PROVE  IInv'
<1>1. /\ pc = "host"
      /\ lastSuper' = [q \in Queues |-> IF Empty(q) THEN lastSuper[q] ELSE data[cur[q]]]
      /\ lastSuperNum' = [q \in Queues |-> IF Empty(q) THEN lastSuperNum[q]
                                           ELSE IF ~Same(q) THEN 0
                                           ELSE IF lastSuperNum[q] < Stuck THEN lastSuperNum[q] + 1
                                           ELSE Stuck]
      /\ Settle(macReset + Cardinality(Hung) + (IF o THEN 1 ELSE 0))
      /\ pc' = IF macReset' >= RESET THEN "reset" ELSE "wlan"
      /\ still' = [q \in Queues |-> IF Empty(q) \/ ~Inside(q) THEN 0 ELSE still[q] + 1]
      /\ quiet' = [q \in Queues |-> IF Empty(q) THEN 0
                                    ELSE IF quiet[q] < Stuck THEN quiet[q] + 1 ELSE Stuck]
      /\ UNCHANGED <<ring, data, own, ctrl, queue, left, cur, halt, intr, ix, killed>>
  BY DEF Timer, desc, frame, mac
<1>2. TypeOK /\ NQ \in Nat \ {0} /\ Stuck \in Nat \ {0}
  BY RingIds, HangAssumption DEF IInv
<1>3. ASSUME NEW q \in Queues
      PROVE  /\ lastSuperNum[q] \in 0 .. Stuck /\ quiet[q] \in 0 .. Stuck
             /\ lastSuperNum[q] <= quiet[q] /\ still[q] \in Nat
             /\ Empty(q) => lastSuperNum[q] = 0
             /\ cur[q] \in Descs /\ data[cur[q]] \in Buffers \cup {Null}
             /\ lastSuper[q] \in Buffers \cup {Null}
  BY <1>2 DEF IInv, TypeOK, Counts, EmptyFresh
<1>4. ASSUME NEW q \in Queues
      PROVE  /\ lastSuperNum'[q] \in 0 .. Stuck /\ quiet'[q] \in 0 .. Stuck
             /\ lastSuperNum'[q] <= quiet'[q] /\ still'[q] \in Nat
             /\ Empty(q) => lastSuperNum'[q] = 0
  <2>1. CASE Empty(q)
    <3>1. lastSuperNum'[q] = lastSuperNum[q] /\ quiet'[q] = 0 /\ still'[q] = 0
      BY <1>1, <2>1
    <3> QED
      BY <1>2, <1>3, <2>1, <3>1
  <2>2. CASE ~Empty(q)
    <3>1. /\ \/ lastSuperNum'[q] = 0
             \/ lastSuperNum[q] < Stuck /\ lastSuperNum'[q] = lastSuperNum[q] + 1
             \/ ~(lastSuperNum[q] < Stuck) /\ lastSuperNum'[q] = Stuck
          /\ quiet'[q] = IF quiet[q] < Stuck THEN quiet[q] + 1 ELSE Stuck
          /\ still'[q] = 0 \/ still'[q] = still[q] + 1
      BY <1>1, <2>2
    <3> QED
      BY <1>2, <1>3, <2>2, <3>1
  <2> QED
    BY <2>1, <2>2
<1>5. /\ lastSuperNum' \in [Queues -> 0 .. Stuck] /\ quiet' \in [Queues -> 0 .. Stuck]
      /\ still' \in [Queues -> Nat] /\ lastSuper' \in [Queues -> Buffers \cup {Null}]
  BY <1>1, <1>3, <1>4
<1>6. Cardinality(Hung) \in 0 .. NQ
  <2>1. IsFiniteSet(0 .. NQ - 1) /\ Cardinality(0 .. NQ - 1) = NQ
    <3>1. 0 \in Int /\ NQ - 1 \in Int /\ 0 <= NQ - 1 /\ (NQ - 1) - 0 + 1 = NQ
      BY <1>2
    <3> QED
      BY <3>1, FS_Interval
  <2>2. Hung \subseteq 0 .. NQ - 1
    BY DEF Hung, Queues
  <2>3. IsFiniteSet(Hung) /\ Cardinality(Hung) <= NQ
    BY <2>1, <2>2, FS_Subset
  <2>4. Cardinality(Hung) \in Nat
    BY <2>3, FS_CardinalityType
  <2> QED
    BY <1>2, <2>3, <2>4
<1>7. macReset' \in 0 .. 4 + NQ /\ (macReset' < 2 => macReset' \in {0, 1})
  <2>1. macReset \in {0, 1, 3}
    BY <1>1 DEF IInv, Steps, OFF, FORCE
  <2> DEFINE k == Cardinality(Hung)
             n == macReset + k + (IF o THEN 1 ELSE 0)
  <2>2. macReset' = IF n < 2 /\ n > 0 /\ n = macReset THEN n - 1 ELSE n
    BY <1>1 DEF Settle, RESET
  <2> HIDE DEF k
  <2>3. k \in 0 .. NQ
    BY <1>6 DEF k
  <2>4. n \in 0 .. 4 + NQ
    BY <1>2, <2>1, <2>3
  <2> HIDE DEF n
  <2> QED
    BY <1>2, <2>2, <2>4
<1>8. pc' \in {"wlan", "reset"} /\ (pc' # "reset" => macReset' \in {0, 1})
  BY <1>1, <1>7 DEF RESET
<1>9. TypeOK'
  <2>1. macReset' \in OFF .. FORCE + NQ + 1
    BY <1>2, <1>7 DEF OFF, FORCE
  <2> QED
    BY <1>1, <1>2, <1>5, <1>8, <2>1 DEF TypeOK
<1>10. Shape' /\ QueueOf'
  BY <1>1 DEF IInv, Shape, RingsApart, Placed, Holds, OneFrame, QueueOf, InQueue
<1>11. KilledWaits'
  BY <1>1 DEF IInv, KilledWaits, InQueue
<1>12. EmptyFresh' /\ Counts'
  BY <1>1, <1>4 DEF EmptyFresh, Counts, Empty
<1>13. Seen'
  BY <1>1 DEF Seen, Empty
<1>14. Steps'
  BY <1>8 DEF Steps, OFF
<1> QED
  BY <1>9, <1>10, <1>11, <1>12, <1>13, <1>14 DEF IInv

\* What wlan_mac_reset() kills is a frame of the queue, at which the MAC stood, and
\* the queue has been silent for long enough.
LEMMA KillsWell ==
  ASSUME IInv, pc = "reset", NEW q \in Queues, Kills(q)
  PROVE  LET d == FirstOf(ring[q])
         IN  /\ d \in Descs /\ InQueue(q, d) /\ data[d] \in Buffers
             /\ data[cur[q]] = data[d] /\ quiet[q] >= Stuck
<1> DEFINE d == FirstOf(ring[q])
<1>1. TypeOK /\ Holds /\ q \in Rings /\ Stuck \in Nat
  BY RingIds, HangAssumption DEF IInv, Shape
<1>2. /\ ring[q] \in Seq(Descs) /\ Len(ring[q]) \in Nat \ {0} /\ ring[q] # <<>>
      /\ \A i \in 1 .. Len(ring[q]) : ring[q][i] \in Descs
  BY <1>1, RingType
<1>3. PICK i \in 1 .. Len(ring[q]) : d = ring[q][i]
  BY <1>2, FirstIsThere
<1>4. d # ring[q][Len(ring[q])] /\ lastSuperNum[q] >= Stuck /\ lastSuper[q] = data[d]
  BY DEF Kills, Terminator
<1> HIDE DEF d
<1>5. i \in 1 .. Len(ring[q]) - 1 /\ i # Len(ring[q]) /\ Len(ring[q]) # 1
  BY <1>2, <1>3, <1>4
<1>6. d \in Descs /\ InQueue(q, d)
  BY <1>2, <1>3, <1>5 DEF InQueue
<1>7. data[d] # Null
  BY <1>1, <1>3, <1>5 DEF Holds
<1>8. data[d] \in Buffers
  BY <1>1, <1>6, <1>7 DEF TypeOK
<1>9. data[cur[q]] = data[d]
  BY <1>4, <1>5 DEF IInv, Seen, Empty
<1>10. quiet[q] >= Stuck
  <2>1. lastSuperNum[q] <= quiet[q] /\ lastSuperNum[q] \in 0 .. Stuck /\ quiet[q] \in 0 .. Stuck
    BY DEF IInv, Counts, TypeOK
  <2> QED
    BY <1>1, <1>4, <2>1
<1> QED
  BY <1>6, <1>8, <1>9, <1>10 DEF d

LEMMA MacResetKeeps ==
  ASSUME IInv, MacReset
  PROVE  IInv'
<1>1. /\ pc = "reset"
      /\ own' = [d \in Descs |-> IF d \in Killed THEN "SW" ELSE own[d]]
      /\ ctrl' = [d \in Descs |-> IF d \in Killed THEN "BAFAIL" ELSE ctrl[d]]
      /\ left' = [b \in Buffers |-> IF \E d \in Killed : data[d] = b THEN 0 ELSE left[b]]
      /\ lastSuper' = [q \in Queues |-> IF Kills(q) THEN Null ELSE lastSuper[q]]
      /\ lastSuperNum' = [q \in Queues |-> IF Kills(q) THEN 0 ELSE lastSuperNum[q]]
      /\ cur' = [q \in Queues |->
                   IF Kills(q) THEN After(FirstOf(ring[q])) ELSE FirstOf(ring[q])]
      /\ halt' = [q \in Queues |-> FALSE] /\ intr' = TRUE /\ macReset' = OFF
      /\ killed' = killed \cup {data[d] : d \in Killed}
      /\ pc' = "wlan"
      /\ UNCHANGED <<ring, data, queue, ix, still, quiet>>
  BY DEF MacReset, KilledTries, AfterReset
<1>2. TypeOK /\ Placed /\ OneFrame /\ Queues \subseteq Rings
  BY RingIds DEF IInv, Shape
<1>3. ASSUME NEW d \in Killed
      PROVE  d \in Descs /\ data[d] \in Buffers /\ \E q \in Queues : InQueue(q, d)
  <2>1. PICK q \in Queues : Kills(q) /\ d = FirstOf(ring[q])
    BY DEF Killed
  <2> QED
    BY <1>1, <2>1, KillsWell
<1>4. cur' \in [Queues -> Descs]
  <2>1. ASSUME NEW q \in Queues PROVE FirstOf(ring[q]) \in Descs
    <3>1. ring[q] \in Seq(Descs) /\ ring[q] # <<>>
      BY <1>2, RingType
    <3> QED
      BY <3>1, FirstIsThere, ElementOfSeq
  <2>2. ASSUME NEW q \in Queues PROVE After(FirstOf(ring[q])) \in Descs
    BY <1>2, <2>1, AfterIsThere
  <2> QED
    BY <1>1, <2>1, <2>2
<1>5. TypeOK'
  <2>1. 0 \in 0 .. Tries - 1 /\ 0 \in 0 .. Stuck /\ OFF \in OFF .. FORCE + NQ + 1
    BY HangAssumption DEF OFF, FORCE
  <2>2. /\ own' \in [Descs -> {"HW", "SW"}] /\ ctrl' \in [Descs -> {"ok", "TXFAIL", "BAFAIL"}]
        /\ left' \in [Buffers -> 0 .. Tries - 1]
        /\ lastSuper' \in [Queues -> Buffers \cup {Null}]
        /\ lastSuperNum' \in [Queues -> 0 .. Stuck]
    BY <1>1, <1>2, <2>1 DEF TypeOK
  <2>3. killed' \subseteq Buffers /\ halt' \in [Queues -> BOOLEAN]
    BY <1>1, <1>2, <1>3 DEF TypeOK
  <2>4. intr' \in BOOLEAN /\ macReset' \in OFF .. FORCE + NQ + 1
    BY <1>1, <2>1
  <2> QED
    BY <1>1, <1>2, <1>4, <2>2, <2>3, <2>4 DEF TypeOK
<1>6. Shape' /\ QueueOf'
  BY <1>1 DEF IInv, Shape, RingsApart, Placed, Holds, OneFrame, QueueOf, InQueue
<1>7. EmptyFresh' /\ Counts'
  <2>1. ASSUME NEW q \in Queues
        PROVE  lastSuperNum'[q] <= quiet'[q] /\ (Empty(q)' => lastSuperNum'[q] = 0)
    <3>1. lastSuperNum[q] <= quiet[q] /\ (Empty(q) => lastSuperNum[q] = 0) /\ quiet[q] \in 0 .. Stuck
      BY DEF IInv, EmptyFresh, Counts, TypeOK
    <3>2. lastSuperNum'[q] \in {0, lastSuperNum[q]} /\ quiet' = quiet /\ (Empty(q)' = Empty(q))
      BY <1>1 DEF Empty
    <3> QED
      BY <3>1, <3>2
  <2> QED
    BY <2>1 DEF EmptyFresh, Counts
<1>8. ASSUME NEW e \in Descs, data[e] \in killed'
      PROVE  /\ own'[e] = "SW" /\ ctrl'[e] = "BAFAIL" /\ left'[data[e]] = 0
             /\ \E q \in Queues : InQueue(q, e)'
  <2>1. CASE e \in Killed
    <3>1. PICK q \in Queues : InQueue(q, e)
      BY <1>3, <2>1
    <3>2. data[e] \in Buffers
      BY <1>3, <2>1
    <3>3. left'[data[e]] = 0 /\ own'[e] = "SW" /\ ctrl'[e] = "BAFAIL"
      BY <1>1, <2>1, <3>2
    <3>4. InQueue(q, e)'
      BY <1>1, <3>1 DEF InQueue
    <3> QED
      BY <3>3, <3>4
  <2>2. CASE e \notin Killed
    <3>1. data[e] \in killed
      <4>1. ASSUME NEW d \in Killed, data[d] = data[e] PROVE FALSE
        BY <1>2, <1>3, <2>2, <4>1, RingIds DEF OneFrame
      <4> QED
        BY <1>1, <1>8, <4>1
    <3>2. own[e] = "SW" /\ ctrl[e] = "BAFAIL" /\ left[data[e]] = 0
      BY <3>1 DEF IInv, KilledWaits
    <3>3. PICK q \in Queues : InQueue(q, e)
      BY <3>1 DEF IInv, KilledWaits
    <3>4. InQueue(q, e)'
      BY <1>1, <3>3 DEF InQueue
    <3>5. data[e] \in Buffers
      BY <1>2, <3>1 DEF TypeOK
    <3> QED
      BY <1>1, <2>2, <3>2, <3>4, <3>5
  <2> QED
    BY <2>1, <2>2
<1>9. KilledWaits'
  BY <1>1, <1>8 DEF KilledWaits
<1>10. Seen' /\ Steps'
  BY <1>1 DEF Seen, Steps
<1> QED
  BY <1>5, <1>6, <1>7, <1>9, <1>10 DEF IInv

LEMMA ArriveKeeps ==
  ASSUME IInv, NEW q \in Queues, Arrive(q)
  PROVE  IInv'
<1>1. PICK i \in 1 .. Len(ring[Down]) - 1 :
        /\ own' = [own EXCEPT ![ring[Down][i]] = "SW"]
        /\ queue' = [queue EXCEPT ![data[ring[Down][i]]] = q]
        /\ UNCHANGED <<ring, data, ctrl, left, mac, intr, check, pc, ix, hist>>
  BY DEF Arrive
<1> DEFINE d == ring[Down][i]
<1>2. TypeOK /\ RingsApart /\ OneFrame /\ Holds /\ Queues \subseteq Rings
      /\ Down \in Rings /\ Down \notin Queues
  BY RingIds DEF IInv, Shape
<1>3. i \in 1 .. Len(ring[Down]) /\ i # Len(ring[Down])
  BY <1>2, RingType
<1>4. d \in Descs /\ InQueue(Down, d)
  BY <1>2, <1>3, RingType DEF InQueue
<1>5. data[d] # Null
  BY <1>2, <1>3 DEF Holds
<1> HIDE DEF d
<1>6. /\ own' = [own EXCEPT ![d] = "SW"] /\ queue' = [queue EXCEPT ![data[d]] = q]
      /\ UNCHANGED <<ring, data, ctrl, left, cur, halt, intr, pc, ix>>
      /\ UNCHANGED <<lastSuper, lastSuperNum, macReset, still, quiet, killed>>
  BY <1>1 DEF d, mac, check, hist
<1>7. TypeOK'
  BY <1>2, <1>4, <1>6 DEF TypeOK
<1>8. Shape' /\ EmptyFresh' /\ Counts' /\ Seen' /\ Steps'
  BY <1>6 DEF IInv, Shape, RingsApart, Placed, Holds, OneFrame, EmptyFresh, Counts, Seen, Steps,
              Empty
<1>9. QueueOf'
  <2>1. ASSUME NEW p \in Queues, NEW e \in Descs, InQueue(p, e)
        PROVE  queue'[data[e]] = p
    <3>1. e # d
      BY <1>2, <1>4, <2>1, OneQueue
    <3>2. data[e] # data[d]
      BY <1>2, <1>4, <1>5, <3>1 DEF OneFrame
    <3>3. queue[data[e]] = p
      BY <2>1 DEF IInv, QueueOf
    <3>4. queue'[data[e]] = queue[data[e]]
      BY <1>2, <1>6, <3>2 DEF TypeOK
    <3> QED
      BY <3>3, <3>4
  <2> QED
    BY <1>6, <2>1 DEF QueueOf, InQueue
<1>10. KilledWaits'
  BY <1>2, <1>4, <1>6 DEF IInv, TypeOK, KilledWaits, InQueue
<1> QED
  BY <1>7, <1>8, <1>9, <1>10 DEF IInv

LEMMA SendKeeps ==
  ASSUME IInv, NEW q \in Queues, NEW outcome \in Outcomes, Send(q, outcome)
  PROVE  IInv'
<1> DEFINE d == cur[q]
<1>1. /\ pc # "reset" /\ own[d] = "HW"
      /\ own' = [own EXCEPT ![d] = "SW"] /\ ctrl' = [ctrl EXCEPT ![d] = outcome]
      /\ halt' = [halt EXCEPT ![q] = outcome = "TXFAIL"]
      /\ cur' = [cur EXCEPT ![q] = IF outcome = "TXFAIL" THEN d ELSE After(d)]
      /\ intr' = TRUE
      /\ still' = [still EXCEPT ![q] = 0] \/ still' = still
      /\ UNCHANGED <<ring, data, queue, left, pc, ix>>
      /\ UNCHANGED <<lastSuper, lastSuperNum, macReset, quiet, killed>>
  BY DEF Send, Moved, frame, check
<1>2. TypeOK /\ Placed /\ d \in Descs
  BY DEF IInv, Shape, TypeOK
<1>3. After(d) \in Descs
  BY <1>2, AfterIsThere
<1> HIDE DEF d
<1>4. /\ own' \in [Descs -> {"HW", "SW"}] /\ ctrl' \in [Descs -> {"ok", "TXFAIL", "BAFAIL"}]
      /\ halt' \in [Queues -> BOOLEAN] /\ cur' \in [Queues -> Descs]
      /\ still' \in [Queues -> Nat]
  <2>1. own' \in [Descs -> {"HW", "SW"}] /\ ctrl' \in [Descs -> {"ok", "TXFAIL", "BAFAIL"}]
    BY <1>1, <1>2, HangAssumption DEF TypeOK
  <2>2. (outcome = "TXFAIL") \in BOOLEAN
    OBVIOUS
  <2>3. halt' \in [Queues -> BOOLEAN]
    BY <1>1, <1>2, <2>2 DEF TypeOK
  <2> DEFINE x == IF outcome = "TXFAIL" THEN d ELSE After(d)
  <2>4. x \in Descs /\ cur' = [cur EXCEPT ![q] = x]
    BY <1>1, <1>2, <1>3
  <2> HIDE DEF x
  <2>5. cur' \in [Queues -> Descs]
    <3>1. cur \in [Queues -> Descs]
      BY <1>2 DEF TypeOK
    <3> QED
      BY <2>4, <3>1
  <2>6. still' \in [Queues -> Nat]
    <3>1. still \in [Queues -> Nat] /\ (still' = [still EXCEPT ![q] = 0] \/ still' = still)
      BY <1>1, <1>2 DEF TypeOK
    <3> QED
      BY <3>1
  <2> QED
    BY <2>1, <2>3, <2>5, <2>6
<1>5. TypeOK'
  BY <1>1, <1>2, <1>4 DEF TypeOK
<1>6. Shape' /\ QueueOf' /\ EmptyFresh' /\ Counts' /\ Steps'
  BY <1>1 DEF IInv, Shape, RingsApart, Placed, Holds, OneFrame, QueueOf, InQueue, EmptyFresh,
              Counts, Steps, Empty
<1>7. KilledWaits'
  <2>1. ASSUME NEW e \in Descs, data[e] \in killed
        PROVE  /\ own'[e] = "SW" /\ ctrl'[e] = "BAFAIL" /\ left[data[e]] = 0
               /\ \E p \in Queues : InQueue(p, e)
    <3>1. /\ own[e] = "SW" /\ ctrl[e] = "BAFAIL" /\ left[data[e]] = 0
          /\ \E p \in Queues : InQueue(p, e)
      BY <2>1 DEF IInv, KilledWaits
    <3>2. e # d
      BY <1>1, <3>1
    <3>3. own'[e] = own[e] /\ ctrl'[e] = ctrl[e]
      BY <1>1, <1>2, <3>2 DEF TypeOK
    <3> QED
      BY <3>1, <3>3
  <2> QED
    BY <1>1, <2>1 DEF KilledWaits, InQueue
<1>8. Seen'
  BY <1>1 DEF Seen
<1> QED
  BY <1>5, <1>6, <1>7, <1>8 DEF IInv

-----------------------------------------------------------------------------
(* The specification *)

\* The rings of Init: every ring has its terminator; down_queue has the blocks, too.
LEMMA InitRings ==
  ASSUME Init, NEW r \in Rings
  PROVE  /\ ring[r] \in Seq(Descs) /\ ring[r] # <<>>
         /\ Len(ring[r]) = IF r = Down THEN NB + 1 ELSE 1
         /\ ring[r][1] = NB + 1 + r
         /\ r = Down => \A i \in 2 .. NB + 1 : ring[r][i] = i - 1
<1> DEFINE one == <<NB + 1 + r>>
           rest == [b \in Buffers |-> b]
<1>1. NB \in Nat \ {0} /\ NQ \in Nat \ {0} /\ r \in 0 .. NQ + 1
  BY RingIds DEF Rings
<1>2. NB + 1 + r \in Descs /\ Buffers = 1 .. NB /\ Buffers \subseteq Descs
  BY <1>1 DEF Descs, Buffers
<1>3. one \in Seq(Descs) /\ Len(one) = 1 /\ one[1] = NB + 1 + r
  BY <1>2
<1>4. rest \in Seq(Descs) /\ Len(rest) = NB /\ \A i \in 1 .. NB : rest[i] = i
  <2>1. rest \in [1 .. NB -> Descs]
    BY <1>2
  <2> QED
    BY <1>1, <1>2, <2>1, IsASeq, LenProperties
<1>5. ring[r] = one \o (IF r = Down THEN rest ELSE <<>>)
  BY DEF Init
<1> HIDE DEF one, rest
<1>6. CASE r = Down
  <2>1. ring[r] = one \o rest
    BY <1>5, <1>6
  <2>2. /\ one \o rest \in Seq(Descs) /\ Len(one \o rest) = 1 + NB
        /\ \A i \in 1 .. 1 + NB : (one \o rest)[i] = IF i <= 1 THEN one[i] ELSE rest[i - 1]
    BY <1>3, <1>4, ConcatProperties
  <2> DEFINE c == one \o rest
  <2>3. /\ c \in Seq(Descs) /\ Len(c) = NB + 1
        /\ \A i \in 1 .. NB + 1 : c[i] = IF i <= 1 THEN one[i] ELSE rest[i - 1]
    <3>1. 1 + NB = NB + 1
      BY <1>1
    <3> QED
      BY <2>2, <3>1
  <2>0. ring[r] = c
    BY <2>1
  <2> HIDE DEF c
  <2>4. c[1] = NB + 1 + r
    BY <1>1, <1>3, <2>3
  <2>5. ASSUME NEW i \in 2 .. NB + 1 PROVE c[i] = i - 1
    <3>1. i \in 1 .. NB + 1 /\ ~(i <= 1) /\ i - 1 \in 1 .. NB
      BY <1>1
    <3> QED
      BY <1>4, <2>3, <3>1
  <2>6. c # <<>>
    <3>1. NB + 1 # 0
      BY <1>1
    <3> QED
      BY <2>3, <3>1, EmptySeq
  <2> QED
    BY <1>6, <2>0, <2>3, <2>4, <2>5, <2>6
<1>7. CASE r # Down
  <2>1. ring[r] = one \o <<>>
    BY <1>5, <1>7
  <2>2. ring[r] = one
    BY <1>3, <2>1, ConcatEmptySeq
  <2>3. one # <<>>
    BY DEF one
  <2> QED
    BY <1>3, <1>7, <2>2, <2>3 DEF Down
<1> QED
  BY <1>6, <1>7

LEMMA InitShape ==
  ASSUME Init
  PROVE  Shape
<1>1. NB \in Nat \ {0} /\ NQ \in Nat \ {0} /\ Down = NQ /\ Null = 0
      /\ Rings = 0 .. NQ + 1 /\ Descs = 1 .. NB + NQ + 2 /\ Down \in Rings
  BY RingIds DEF Rings, Descs, Down, Null
<1>2. ASSUME NEW r \in Rings
      PROVE  /\ Len(ring[r]) = IF r = Down THEN NB + 1 ELSE 1
             /\ \A i \in 1 .. Len(ring[r]) : ring[r][i] = IF i = 1 THEN NB + 1 + r ELSE i - 1
  <2>1. /\ Len(ring[r]) = IF r = Down THEN NB + 1 ELSE 1
        /\ ring[r][1] = NB + 1 + r
        /\ r = Down => \A i \in 2 .. NB + 1 : ring[r][i] = i - 1
    BY InitRings
  <2>2. ASSUME NEW i \in 1 .. Len(ring[r]), i # 1 PROVE ring[r][i] = i - 1
    <3>1. r = Down /\ i \in 2 .. NB + 1
      BY <1>1, <2>1, <2>2
    <3> QED
      BY <2>1, <3>1
  <2> QED
    BY <2>1, <2>2
<1>3. \A d \in Descs : data[d] = IF d = NB + 1 + Down THEN 1 ELSE IF d < NB THEN d + 1 ELSE Null
  BY DEF Init
<1>4. RingsApart
  <2> SUFFICES ASSUME NEW r \in Rings, NEW s \in Rings, NEW i \in 1 .. Len(ring[r]),
                      NEW j \in 1 .. Len(ring[s]), ring[r][i] = ring[s][j]
               PROVE  r = s /\ i = j
    BY DEF RingsApart
  <2>1. /\ r \in 0 .. NQ + 1 /\ s \in 0 .. NQ + 1
        /\ i \in 1 .. NB + 1 /\ j \in 1 .. NB + 1 /\ (i # 1 => r = NQ) /\ (j # 1 => s = NQ)
    BY <1>1, <1>2
  <2>2. (IF i = 1 THEN NB + 1 + r ELSE i - 1) = (IF j = 1 THEN NB + 1 + s ELSE j - 1)
    BY <1>2
  <2> QED
    BY <1>1, <2>1, <2>2
<1>5. Placed
  <2> SUFFICES ASSUME NEW d \in Descs
               PROVE  \E r \in Rings : \E i \in 1 .. Len(ring[r]) : ring[r][i] = d
    BY DEF Placed
  <2>1. CASE d <= NB
    <3>1. d + 1 \in 1 .. Len(ring[Down]) /\ d + 1 # 1 /\ (d + 1) - 1 = d
      BY <1>1, <1>2, <2>1
    <3>2. ring[Down][d + 1] = d
      BY <1>1, <1>2, <3>1
    <3> QED
      BY <1>1, <3>1, <3>2
  <2>2. CASE ~(d <= NB)
    <3> DEFINE r == d - NB - 1
               one == 1
    <3>1. r \in Rings /\ NB + 1 + r = d
      BY <1>1, <2>2
    <3> HIDE DEF r
    <3>2. one \in 1 .. Len(ring[r]) /\ one = 1
      <4>1. Len(ring[r]) = NB + 1 \/ Len(ring[r]) = 1
        BY <1>2, <3>1
      <4> QED
        BY <1>1, <4>1
    <3>3. ring[r][one] = d
      BY <1>2, <3>1, <3>2
    <3> QED
      BY <3>1, <3>2, <3>3
  <2> QED
    BY <2>1, <2>2
<1>6. Holds
  <2> SUFFICES ASSUME NEW r \in Rings, NEW i \in 1 .. Len(ring[r])
               PROVE  (data[ring[r][i]] = Null) = (i = Len(ring[r]))
    BY DEF Holds
  <2> DEFINE d == IF i = 1 THEN NB + 1 + r ELSE i - 1
  <2>1. ring[r][i] = d /\ Len(ring[r]) = IF r = NQ THEN NB + 1 ELSE 1
    BY <1>1, <1>2
  <2>2. r \in 0 .. NQ + 1 /\ i \in 1 .. NB + 1 /\ (r # NQ => i = 1)
    BY <1>1, <2>1
  <2>3. d \in Descs
    BY <1>1, <2>2
  <2>4. data[d] = IF d = NB + 1 + NQ THEN 1 ELSE IF d < NB THEN d + 1 ELSE 0
    <3> HIDE DEF d
    <3> QED
      BY <1>1, <1>3, <2>3
  <2>5. (data[d] = 0) = (i = IF r = NQ THEN NB + 1 ELSE 1)
    BY <1>1, <2>2, <2>4
  <2> QED
    BY <1>1, <2>1, <2>5
<1>7. OneFrame
  <2> SUFFICES ASSUME NEW d \in Descs, NEW e \in Descs, data[d] = data[e], data[d] # Null
               PROVE  d = e
    BY DEF OneFrame
  <2>1. /\ data[d] = IF d = NB + 1 + NQ THEN 1 ELSE IF d < NB THEN d + 1 ELSE 0
        /\ data[e] = IF e = NB + 1 + NQ THEN 1 ELSE IF e < NB THEN e + 1 ELSE 0
        /\ d \in 1 .. NB + NQ + 2 /\ e \in 1 .. NB + NQ + 2
    BY <1>1, <1>3
  <2>2. data[d] = data[e] /\ data[d] # 0
    BY <1>1
  <2> DEFINE x == data[d]
             y == data[e]
  <2>3. /\ x = IF d = NB + 1 + NQ THEN 1 ELSE IF d < NB THEN d + 1 ELSE 0
        /\ y = IF e = NB + 1 + NQ THEN 1 ELSE IF e < NB THEN e + 1 ELSE 0
        /\ x = y /\ x # 0
    BY <2>1, <2>2
  <2> HIDE DEF x, y
  <2>4. d \in Nat \ {0} /\ e \in Nat \ {0} /\ NB \in Nat /\ NQ \in Nat
    BY <1>1, <2>1
  <2> QED
    BY <2>3, <2>4
<1> QED
  BY <1>4, <1>5, <1>6, <1>7 DEF Shape

LEMMA StartsWell == Init => IInv
<1> SUFFICES ASSUME Init PROVE IInv
  OBVIOUS
<1>1. NB \in Nat \ {0} /\ NQ \in Nat \ {0} /\ Stuck \in Nat \ {0} /\ Tries \in Nat \ {0}
  BY HangAssumption
<1>2. \A r \in Rings : ring[r] \in Seq(Descs) /\ ring[r] # <<>>
  BY InitRings
<1>3. ring \in [Rings -> Seq(Descs)]
  <2>1. ring = [r \in Rings |-> ring[r]]
    BY DEF Init
  <2> QED
    BY <1>2, <2>1
<1>4. data \in [Descs -> Buffers \cup {Null}] /\ own \in [Descs -> {"HW", "SW"}]
  <2>1. ASSUME NEW d \in Descs
        PROVE  (IF d = NB + 1 + Down THEN 1 ELSE IF d < NB THEN d + 1 ELSE Null)
                 \in Buffers \cup {Null}
    BY <1>1 DEF Descs, Buffers, Null
  <2> QED
    BY <2>1 DEF Init
<1>5. /\ ctrl \in [Descs -> {"ok", "TXFAIL", "BAFAIL"}] /\ queue \in [Buffers -> Queues]
      /\ left \in [Buffers -> 0 .. Tries - 1] /\ cur \in [Queues -> Descs]
      /\ halt \in [Queues -> BOOLEAN] /\ intr \in BOOLEAN
      /\ lastSuper \in [Queues -> Buffers \cup {Null}] /\ lastSuperNum \in [Queues -> 0 .. Stuck]
      /\ macReset \in OFF .. FORCE + NQ + 1 /\ pc = "wlan" /\ ix \in Queues
      /\ still \in [Queues -> Nat] /\ quiet \in [Queues -> 0 .. Stuck] /\ killed \subseteq Buffers
  <2>1. /\ 0 \in Queues /\ 0 \in 0 .. Tries - 1 /\ 0 \in 0 .. Stuck /\ 0 \in Nat
        /\ OFF \in OFF .. FORCE + NQ + 1
        /\ \A q \in Queues : NB + 1 + q \in Descs
    BY <1>1 DEF Queues, Descs, OFF, FORCE
  <2> QED
    BY <2>1 DEF Init
<1>6. TypeOK
  BY <1>2, <1>3, <1>4, <1>5 DEF TypeOK
<1>7. Shape
  BY InitShape
<1>8. QueueOf
  <2>1. ASSUME NEW q \in Queues, NEW d, InQueue(q, d) PROVE FALSE
    <3>1. q \in Rings /\ q # Down
      BY RingIds
    <3>2. Len(ring[q]) = 1
      BY <3>1, InitRings
    <3> QED
      BY <2>1, <3>2 DEF InQueue
  <2> QED
    BY <2>1 DEF QueueOf
<1>9. EmptyFresh /\ Counts /\ KilledWaits /\ Seen /\ Steps
  BY <1>1 DEF Init, EmptyFresh, Counts, KilledWaits, Seen, Steps
<1> QED
  BY <1>6, <1>7, <1>8, <1>9 DEF IInv

LEMMA StaysWell == IInv /\ [Next]_vars => IInv'
<1> SUFFICES ASSUME IInv, [Next]_vars PROVE IInv'
  OBVIOUS
<1>1. CASE AckInterrupt \/ LeaveQueue \/ NextQueue \/ NotDue \/ Swrst
  BY <1>1, LoopSteps
<1>2. CASE TxRearm
  BY <1>2, TxRearmKeeps
<1>3. CASE TxRetryLater
  BY <1>3, TxRetryLaterKeeps
<1>4. CASE TxDone
  BY <1>4, TxDoneKeeps
<1>5. CASE Requeue \/ TakeDown
  BY <1>5, PutSteps
<1>6. CASE MacReset
  BY <1>6, MacResetKeeps
<1>7. CASE \E o \in Overruns : Timer(o)
  BY <1>7, TimerKeeps
<1>8. CASE \E q \in Queues : Arrive(q) \/ \E o \in Outcomes : Send(q, o)
  BY <1>8, ArriveKeeps, SendKeeps
<1>9. CASE UNCHANGED vars
  BY <1>9, Stutter
<1> QED
  BY <1>1, <1>2, <1>3, <1>4, <1>5, <1>6, <1>7, <1>8, <1>9 DEF Next, Firmware

LEMMA Reached == Spec => []IInv
BY StartsWell, StaysWell, PTL DEF Spec

\* A frame the MAC reset has killed is not sent again before it is reported, and the
\* state is well typed, for every number of blocks, queues, tries and ticks.
THEOREM KilledStayDead == Spec => []Inv
BY Reached, InvImplies, PTL

\* Whatever asked for the reset, it kills only frames at which the MAC stands, in
\* queues that had frames and reported none for as long as the hang check waits.
THEOREM OnlyStuckAreKilled == Spec => KillsOnlyStuck
<1>1. ASSUME IInv, [Next]_vars
      PROVE  [\A b \in killed' \ killed :
                \E q \in Queues : data[cur[q]] = b /\ quiet[q] >= Stuck]_vars
  <2> SUFFICES ASSUME NEW b \in killed' \ killed
               PROVE  \E q \in Queues : data[cur[q]] = b /\ quiet[q] >= Stuck
    OBVIOUS
  <2>1. MacReset
    <3>1. killed' \subseteq killed \/ MacReset
      BY <1>1 DEF Next, Firmware, AckInterrupt, TxRearm, TxRetryLater, TxDone, LeaveQueue,
                  Requeue, NextQueue, TakeDown, NotDue, Timer, Swrst, Arrive, Send, vars, hist
    <3> QED
      BY <3>1
  <2>2. pc = "reset" /\ killed' = killed \cup {data[d] : d \in Killed}
    BY <2>1 DEF MacReset
  <2>3. PICK q \in Queues : Kills(q) /\ data[FirstOf(ring[q])] = b
    BY <2>2 DEF Killed
  <2> QED
    BY <1>1, <2>2, <2>3, KillsWell
<1> QED
  BY <1>1, Reached, PTL DEF Spec, KillsOnlyStuck

-----------------------------------------------------------------------------
(* How long a queue may stand still *)

Limit == 3 * (Stuck + 2)

\* The completion handler is on its way to the queue.
Due(q) == \/ pc = "wlan" /\ intr
          \/ pc = "txc" /\ ix >= q
          \/ pc = "retry" /\ ix > q
          \/ pc = "reset"

\* The ticks after which the hang check resets the MAC, if it stays where it is.
TicksLeft(q) ==
  IF ~Same(q) THEN Stuck + 2
  ELSE IF lastSuperNum[q] < Stuck - 1 THEN Stuck + 1 - lastSuperNum[q]
  ELSE IF pc = "reset" THEN IF lastSuperNum[q] = Stuck THEN 0 ELSE 2
  ELSE IF macReset > OFF THEN 1 ELSE 2

\* The ticks it may spend at the other places it is still to come to.
PlacesLeft(q) ==
  IF cur[q] = Head(ring[q]) /\ own[cur[q]] = "HW" THEN 0
  ELSE IF cur[q] # Terminator(q) THEN Stuck + 2
  ELSE 2 * (Stuck + 2)

\* A queue stands still for no longer than the hang check takes to come to it, unless
\* a frame of it waits for the completion handler, which comes before the next tick.
Bounded(q) ==
  \/ still[q] = 0
  \/ Pending(q) /\ Due(q) /\ still[q] <= Limit
  \/ Pending(q) /\ intr /\ still[q] < Limit
  \/ ~Empty(q) /\ Inside(q) /\ still[q] + TicksLeft(q) + PlacesLeft(q) <= Limit

\* Both are counts of ticks; one is left at least, unless the reset is running.
LEMMA LeftTypes ==
  IInv => \A q \in Queues :
    /\ still[q] \in Nat /\ TicksLeft(q) \in 0 .. Stuck + 2
    /\ pc # "reset" => TicksLeft(q) >= 1
    /\ PlacesLeft(q) \in {0, Stuck + 2, 2 * (Stuck + 2)}
<1> SUFFICES ASSUME IInv, NEW q \in Queues
             PROVE  /\ still[q] \in Nat /\ TicksLeft(q) \in 0 .. Stuck + 2
                    /\ pc # "reset" => TicksLeft(q) >= 1
                    /\ PlacesLeft(q) \in {0, Stuck + 2, 2 * (Stuck + 2)}
  OBVIOUS
<1>1. Stuck \in Nat \ {0} /\ lastSuperNum[q] \in 0 .. Stuck /\ still[q] \in Nat
  BY HangAssumption DEF IInv, TypeOK
<1>2. PlacesLeft(q) \in {0, Stuck + 2, 2 * (Stuck + 2)}
  BY DEF PlacesLeft
<1>3. TicksLeft(q) \in {Stuck + 2, Stuck + 1 - lastSuperNum[q], 0, 1, 2}
      /\ (TicksLeft(q) = Stuck + 1 - lastSuperNum[q] \/ TicksLeft(q) = Stuck + 2
          \/ TicksLeft(q) \in {1, 2} \/ pc = "reset")
  BY DEF TicksLeft
<1> QED
  BY <1>1, <1>2, <1>3

\* The same of the next state.
LEMMA TicksType == IInv => \A q \in Queues : TicksLeft(q) \in 0 .. Stuck + 2
BY LeftTypes

LEMMA TicksTypeNext == (IInv => \A q \in Queues : TicksLeft(q) \in 0 .. Stuck + 2)'
BY TicksType, PTL

LEMMA LeftTypesNext == IInv' => \A q \in Queues : TicksLeft(q)' \in 0 .. Stuck + 2
BY TicksTypeNext

LEMMA LimitType == Limit \in Nat /\ Limit = 3 * (Stuck + 2) /\ Stuck \in Nat \ {0}
BY HangAssumption DEF Limit

\* The head of a queue that is not empty is not its terminator.
LEMMA HeadPlace ==
  ASSUME IInv, NEW q \in Queues
  PROVE  /\ q \in Rings /\ ring[q] # <<>> /\ Len(ring[q]) \in Nat \ {0}
         /\ 1 \in 1 .. Len(ring[q]) /\ Len(ring[q]) \in 1 .. Len(ring[q])
         /\ DOMAIN ring[q] = 1 .. Len(ring[q])
         /\ Head(ring[q]) = ring[q][1] /\ Terminator(q) = ring[q][Len(ring[q])]
         /\ Head(ring[q]) \in Descs
         /\ ~Empty(q) => Head(ring[q]) # Terminator(q)
<1>1. TypeOK /\ RingsApart /\ q \in Rings
  BY RingIds DEF IInv, Shape
<1>2. /\ ring[q] \in Seq(Descs) /\ Len(ring[q]) \in Nat \ {0} /\ ring[q] # <<>>
      /\ \A i \in 1 .. Len(ring[q]) : ring[q][i] \in Descs
  BY <1>1, RingType
<1>3. 1 \in 1 .. Len(ring[q]) /\ Len(ring[q]) \in 1 .. Len(ring[q])
  BY <1>2
<1>4. DOMAIN ring[q] = 1 .. Len(ring[q]) /\ Head(ring[q]) = ring[q][1]
  BY <1>2, LenProperties, HeadTailProperties
<1>5. ~Empty(q) => ring[q][1] # ring[q][Len(ring[q])]
  BY <1>1, <1>3 DEF RingsApart, Empty
<1> QED
  BY <1>1, <1>2, <1>3, <1>4, <1>5 DEF Terminator

\* What leaves a queue, its descriptors and what the hang check knows of it alone.
Aside(q) ==
  /\ ring'[q] = ring[q] /\ cur'[q] = cur[q] /\ still'[q] = still[q]
  /\ lastSuper'[q] = lastSuper[q] /\ lastSuperNum'[q] = lastSuperNum[q]
  /\ \A i \in 1 .. Len(ring[q]) :
       own'[ring[q][i]] = own[ring[q][i]] /\ data'[ring[q][i]] = data[ring[q][i]]
  /\ (pc' = "reset") = (pc = "reset")
  /\ macReset' = macReset \/ macReset' = FORCE
  /\ intr => intr' \/ Due(q)'
  /\ Pending(q) /\ Due(q) => Due(q)'

\* What leaves a queue alone keeps its bound.
LEMMA AsideKeeps ==
  ASSUME IInv, NEW q \in Queues, Bounded(q), Aside(q)
  PROVE  Bounded(q)'
<1>1. /\ ring[q] # <<>> /\ 1 \in 1 .. Len(ring[q]) /\ DOMAIN ring[q] = 1 .. Len(ring[q])
      /\ Head(ring[q]) = ring[q][1]
  BY HeadPlace
<1>2. /\ ring'[q] = ring[q] /\ cur'[q] = cur[q] /\ still'[q] = still[q]
      /\ lastSuper'[q] = lastSuper[q] /\ lastSuperNum'[q] = lastSuperNum[q]
      /\ \A i \in 1 .. Len(ring[q]) :
           own'[ring[q][i]] = own[ring[q][i]] /\ data'[ring[q][i]] = data[ring[q][i]]
      /\ (pc' = "reset") = (pc = "reset")
      /\ macReset' = macReset \/ macReset' = FORCE
      /\ intr => intr' \/ Due(q)'
      /\ Pending(q) /\ Due(q) => Due(q)'
  BY DEF Aside
<1>3. Head(ring[q])' = Head(ring[q]) /\ own'[Head(ring[q])] = own[Head(ring[q])]
  BY <1>1, <1>2
<1>4. Empty(q)' = Empty(q) /\ Terminator(q)' = Terminator(q) /\ Inside(q)' = Inside(q)
  BY <1>2 DEF Empty, Terminator, Inside
<1>5. Pending(q)' = Pending(q)
  BY <1>2, <1>3, <1>4 DEF Pending
<1>6. PlacesLeft(q)' = PlacesLeft(q)
  BY <1>2, <1>3, <1>4 DEF PlacesLeft
<1>7. ASSUME Inside(q) PROVE TicksLeft(q)' <= TicksLeft(q)
  <2>1. data'[cur[q]] = data[cur[q]]
    BY <1>1, <1>2, <1>7 DEF Inside
  <2>2. Same(q)' = Same(q)
    BY <1>2, <1>4, <2>1 DEF Same
  <2>3. macReset > OFF => macReset' > OFF
    BY <1>2 DEF OFF, FORCE
  <2>4. Stuck \in Nat \ {0} /\ lastSuperNum[q] \in 0 .. Stuck
    BY HangAssumption DEF IInv, TypeOK
  <2> QED
    BY <1>2, <2>2, <2>3, <2>4 DEF TicksLeft
<1>8. still[q] \in Nat /\ TicksLeft(q) \in Int /\ TicksLeft(q)' \in Int /\ PlacesLeft(q) \in Int
      /\ Limit \in Nat /\ Limit' = Limit
  <2>1. Stuck \in Nat \ {0} /\ lastSuperNum[q] \in 0 .. Stuck /\ lastSuperNum'[q] \in 0 .. Stuck
    BY <1>2, HangAssumption DEF IInv, TypeOK
  <2>2. TicksLeft(q)' \in Int
    BY <2>1 DEF TicksLeft
  <2>3. still[q] \in Nat /\ TicksLeft(q) \in Int /\ PlacesLeft(q) \in Int
    BY <2>1, LeftTypes
  <2> QED
    BY <2>2, <2>3, LimitType DEF Limit
<1> DEFINE a == TicksLeft(q)
           b == TicksLeft(q)'
           c == PlacesLeft(q)
<1>9. ASSUME Inside(q), still[q] + a + c <= Limit PROVE still[q] + b + c <= Limit
  <2>1. b <= a /\ a \in Int /\ b \in Int /\ c \in Int /\ still[q] \in Nat /\ Limit \in Nat
    BY <1>7, <1>8, <1>9
  <2>2. still[q] + a + c <= Limit
    BY <1>9
  <2> HIDE DEF a, b, c
  <2> QED
    BY <2>1, <2>2
<1>10. still[q] < Limit => still[q] <= Limit
  BY <1>8
<1> HIDE DEF Limit
<1> QED
  BY <1>2, <1>4, <1>5, <1>6, <1>8, <1>9, <1>10 DEF Bounded

\* A descriptor of one ring is in no other.
LEMMA Elsewhere ==
  ASSUME IInv, NEW q \in Queues, NEW r \in Rings, NEW i \in 1 .. Len(ring[r]), r # q
  PROVE  \A j \in 1 .. Len(ring[q]) : ring[q][j] # ring[r][i] /\ ring[q][j] \in Descs
<1>1. TypeOK /\ RingsApart /\ q \in Rings
  BY RingIds DEF IInv, Shape
<1>2. \A j \in 1 .. Len(ring[q]) : ring[q][j] \in Descs
  BY <1>1, RingType
<1> QED
  BY <1>1, <1>2 DEF RingsApart

\* The other queues do not notice that a frame moves.
LEMMA MoveAside ==
  ASSUME IInv, NEW q \in Queues, NEW r \in Rings, NEW s \in Rings, r # s, q # r, q # s,
         Moving(r, s)
  PROVE  /\ ring'[q] = ring[q]
         /\ \A i \in 1 .. Len(ring[q]) :
              own'[ring[q][i]] = own[ring[q][i]] /\ data'[ring[q][i]] = data[ring[q][i]]
<1> DEFINE one == 1
           last == Len(ring[s])
           d == ring[r][one]
           t == ring[s][last]
<1>1. TypeOK /\ q \in Rings
  BY RingIds DEF IInv
<1>2. one \in 1 .. Len(ring[r]) /\ last \in 1 .. Len(ring[s])
  BY <1>1, RingType
<1>3. \A i \in 1 .. Len(ring[q]) : ring[q][i] # ring[r][one] /\ ring[q][i] \in Descs
  <2> HIDE DEF one
  <2> QED
    BY <1>2, Elsewhere
<1>4. \A i \in 1 .. Len(ring[q]) : ring[q][i] # ring[s][last]
  <2> HIDE DEF last
  <2> QED
    BY <1>2, Elsewhere
<1>5. \A e \in Descs :
        /\ data'[e] = IF e = d THEN Null ELSE IF e = t THEN data[d] ELSE data[e]
        /\ e # d /\ e # t => own'[e] = own[e] /\ ctrl'[e] = ctrl[e]
  BY <1>1, MovedData
<1>6. ring'[q] = ring[q]
  BY <1>1 DEF Moving
<1> HIDE DEF one, last
<1> QED
  BY <1>3, <1>4, <1>5, <1>6

\* The completion handler: its queue has moved, the others do not notice.
LEMMA CompletionRecovers ==
  ASSUME IInv, TxRearm \/ TxRetryLater \/ TxDone, NEW q \in Queues, Bounded(q)
  PROVE  Bounded(q)'
<1> DEFINE d == Head(ring[ix])
           b == data[d]
<1>1. /\ pc = "txc" /\ Pending(ix) /\ Alive(queue[b]) /\ intr' = intr /\ ix' = ix
      /\ pc' \in {"txc", "retry"}
      /\ \/ ring' = ring /\ data' = data /\ own' = [own EXCEPT ![d] = "HW"]
         \/ Move(ix, Retry) \/ Move(ix, Down)
      /\ \/ cur' = cur
         \/ \E e : cur' = [cur EXCEPT ![ix] = e]
  BY DEF TxRearm, TxRetryLater, TxDone, Unstuck, mac
<1>2. /\ d \in Descs /\ d = ring[ix][1] /\ queue[b] = ix /\ ix \in Queues
      /\ ix \in Rings /\ ix # Down /\ ix # Retry /\ ~Empty(ix)
      /\ Down \in Rings /\ Retry \in Rings /\ q # Down /\ q # Retry /\ q \in Rings
  BY <1>1, CompletionHead, RingIds
<1> HIDE DEF d, b
<1>3. /\ lastSuperNum' = [lastSuperNum EXCEPT ![ix] = 0]
      /\ lastSuper' = lastSuper /\ macReset' = macReset
      /\ still' = [still EXCEPT ![ix] = 0]
  BY <1>1, <1>2 DEF Alive, Reported, Moved
<1>4. /\ still \in [Queues -> Nat] /\ cur \in [Queues -> Descs]
      /\ lastSuperNum \in [Queues -> 0 .. Stuck]
      /\ TypeOK /\ RingsApart /\ Holds
  BY DEF IInv, TypeOK, Shape
<1>5. CASE q = ix
  <2>1. still'[q] = 0
    BY <1>3, <1>4, <1>5
  <2> QED
    BY <2>1 DEF Bounded
<1>6. CASE q # ix
  <2>1. /\ ring'[q] = ring[q]
        /\ \A i \in 1 .. Len(ring[q]) :
             own'[ring[q][i]] = own[ring[q][i]] /\ data'[ring[q][i]] = data[ring[q][i]]
    <3>1. CASE ring' = ring /\ data' = data /\ own' = [own EXCEPT ![d] = "HW"]
      <4> DEFINE one == 1
      <4>1. one \in 1 .. Len(ring[ix]) /\ d = ring[ix][one]
        BY <1>2, HeadPlace
      <4> HIDE DEF one
      <4>2. \A j \in 1 .. Len(ring[q]) : ring[q][j] # ring[ix][one] /\ ring[q][j] \in Descs
        BY <1>2, <1>6, <4>1, Elsewhere
      <4> QED
        BY <3>1, <4>1, <4>2 DEF IInv, TypeOK
    <3>2. CASE Move(ix, Retry)
      <4>1. Moving(ix, Retry)
        BY <1>2, <1>4, <3>2, MoveIs
      <4> QED
        BY <1>2, <1>6, <4>1, MoveAside
    <3>3. CASE Move(ix, Down)
      <4>1. Moving(ix, Down)
        BY <1>2, <1>4, <3>3, MoveIs
      <4> QED
        BY <1>2, <1>6, <4>1, MoveAside
    <3> QED
      BY <1>1, <3>1, <3>2, <3>3
  <2>2. still'[q] = still[q] /\ lastSuperNum'[q] = lastSuperNum[q] /\ cur'[q] = cur[q]
    BY <1>1, <1>2, <1>3, <1>4, <1>6
  <2>3. Due(q) => Due(q)'
    <3>1. q \in Int /\ ix \in Int /\ pc = "txc" /\ ix' = ix /\ pc' \in {"txc", "retry"}
      BY <1>1, <1>2, RingIds DEF Queues
    <3> QED
      BY <1>6, <3>1 DEF Due
  <2>4. Aside(q)
    BY <1>1, <1>3, <2>1, <2>2, <2>3 DEF Aside
  <2> QED
    BY <2>4, AsideKeeps
<1> QED
  BY <1>5, <1>6

\* A step of the loop that only moves its place does not pass a queue a frame of which
\* waits.
LEMMA LoopRecovers ==
  ASSUME IInv, AckInterrupt \/ LeaveQueue \/ NextQueue \/ NotDue \/ Swrst \/ UNCHANGED vars,
         NEW q \in Queues, Bounded(q)
  PROVE  Bounded(q)'
<1>1. /\ UNCHANGED <<ring, data, own, lastSuper, lastSuperNum, cur, still>>
      /\ macReset' = macReset \/ macReset' = FORCE
      /\ (pc' = "reset") = (pc = "reset")
  BY DEF AckInterrupt, LeaveQueue, NextQueue, NotDue, Swrst, vars, desc, frame, mac, check, hist
<1>2. q \in 0 .. NQ - 1 /\ ix \in 0 .. NQ - 1 /\ NQ \in Nat \ {0}
  BY RingIds DEF IInv, TypeOK, Queues
<1>3. intr => intr' \/ Due(q)'
  <2>1. CASE AckInterrupt
    BY <1>2, <2>1 DEF AckInterrupt, Due
  <2>2. CASE ~AckInterrupt
    BY <2>2 DEF LeaveQueue, NextQueue, NotDue, Swrst, vars
  <2> QED
    BY <2>1, <2>2
<1>4. ASSUME Pending(q), Due(q) PROVE Due(q)'
  <2>1. CASE AckInterrupt
    BY <1>2, <1>4, <2>1 DEF AckInterrupt, Due
  <2>2. CASE LeaveQueue
    <3>1. pc = "txc" /\ pc' = "retry" /\ ix' = ix /\ ~Pending(ix) /\ intr' = intr
      BY <2>2 DEF LeaveQueue
    <3>2. ix # q
      BY <1>4, <3>1
    <3> QED
      BY <1>2, <1>4, <3>1, <3>2 DEF Due
  <2>3. CASE NextQueue
    BY <1>2, <1>4, <2>3 DEF NextQueue, Due
  <2>4. CASE NotDue \/ Swrst
    BY <1>4, <2>4 DEF NotDue, Swrst, Due
  <2>5. CASE UNCHANGED vars
    BY <1>4, <2>5 DEF vars, Due
  <2> QED
    BY <2>1, <2>2, <2>3, <2>4, <2>5
<1>5. Aside(q)
  BY <1>1, <1>3, <1>4 DEF Aside
<1> QED
  BY <1>5, AsideKeeps

\* What the host sends is in no queue yet.
LEMMA ArriveRecovers ==
  ASSUME IInv, NEW p \in Queues, Arrive(p), NEW q \in Queues, Bounded(q)
  PROVE  Bounded(q)'
<1>1. PICK i \in 1 .. Len(ring[Down]) - 1 :
        /\ own' = [own EXCEPT ![ring[Down][i]] = "SW"]
        /\ UNCHANGED <<ring, data, mac, intr, check, pc, ix, hist>>
  BY DEF Arrive
<1>2. Down \in Rings /\ Down # q /\ TypeOK
  BY RingIds DEF IInv
<1>3. i \in 1 .. Len(ring[Down])
  BY <1>2, RingType
<1>4. \A j \in 1 .. Len(ring[q]) : ring[q][j] # ring[Down][i] /\ ring[q][j] \in Descs
  BY <1>2, <1>3, Elsewhere
<1>5. \A j \in 1 .. Len(ring[q]) : own'[ring[q][j]] = own[ring[q][j]]
  BY <1>1, <1>2, <1>4 DEF TypeOK
<1>6. Aside(q)
  BY <1>1, <1>5 DEF Aside, Due, mac, check, hist
<1> QED
  BY <1>6, AsideKeeps

\* A frame put into an empty queue starts it; behind others it leaves the MAC a
\* place less to stand at, if it stood at the terminator.
LEMMA PutRecovers ==
  ASSUME IInv, IInv', NEW r \in {Down, Retry}, ~Empty(r), Move(r, queue[data[Head(ring[r])]]),
         Starts(queue[data[Head(ring[r])]]), pc # "reset",
         UNCHANGED <<mac, intr, check, pc, ix>>,
         NEW q \in Queues, Bounded(q)
  PROVE  Bounded(q)'
<1> DEFINE s == queue[data[Head(ring[r])]]
<1>1. TypeOK /\ RingsApart /\ Holds /\ r \in Rings /\ r \notin Queues /\ Queues \subseteq Rings
  BY RingIds DEF IInv, Shape
<1>2. s \in Queues /\ s \in Rings /\ r # s
  <2>1. data[Head(ring[r])] \in Buffers
    BY <1>1, QueueHead
  <2> QED
    BY <1>1, <2>1 DEF TypeOK
<1>3. Moving(r, s) /\ Starts(s)
  BY <1>1, <1>2, MoveIs
<1> HIDE DEF s
<1>4. CASE q # s
  <2>1. /\ ring'[q] = ring[q]
        /\ \A i \in 1 .. Len(ring[q]) :
             own'[ring[q][i]] = own[ring[q][i]] /\ data'[ring[q][i]] = data[ring[q][i]]
    BY <1>1, <1>2, <1>3, <1>4, MoveAside
  <2>2. still'[q] = still[q]
    BY <1>1, <1>2, <1>3, <1>4 DEF Starts, TypeOK
  <2>3. Aside(q)
    BY <2>1, <2>2 DEF Aside, Due, mac, check
  <2> QED
    BY <2>3, AsideKeeps
<1>5. CASE q = s /\ Empty(s)
  <2>1. still'[q] = 0
    BY <1>1, <1>2, <1>3, <1>5 DEF Starts, TypeOK
  <2> QED
    BY <2>1 DEF Bounded
<1>6. CASE q = s /\ ~Empty(s)
  <2> DEFINE one == 1
             last == Len(ring[q])
             d == ring[r][one]
             t == ring[q][last]
  <2>1. /\ one \in 1 .. Len(ring[q]) /\ last \in 1 .. Len(ring[q]) /\ last \in Nat \ {0}
        /\ Head(ring[q]) = ring[q][one] /\ Terminator(q) = t /\ ring[q] # <<>>
        /\ DOMAIN ring[q] = 1 .. last /\ Head(ring[q]) # t /\ one # last /\ last # one
        /\ DOMAIN ring'[q] = 1 .. Len(ring'[q]) /\ Head(ring'[q]) = ring'[q][one]
        /\ Terminator(q)' = ring'[q][Len(ring'[q])]
    <3>1. /\ 1 \in 1 .. Len(ring[q]) /\ Len(ring[q]) \in 1 .. Len(ring[q])
          /\ Head(ring[q]) = ring[q][1] /\ Terminator(q) = ring[q][Len(ring[q])] /\ ring[q] # <<>>
          /\ DOMAIN ring[q] = 1 .. Len(ring[q]) /\ Head(ring[q]) # Terminator(q)
          /\ Len(ring[q]) \in Nat \ {0}
      BY <1>6, HeadPlace
    <3>2. Len(ring[q]) # 1
      BY <1>6 DEF Empty
    <3>3. ring'[q] \in Seq(Descs) /\ ring'[q] # <<>>
      BY <1>1 DEF IInv, TypeOK
    <3>4. /\ DOMAIN ring'[q] = 1 .. Len(ring'[q]) /\ Head(ring'[q]) = ring'[q][1]
          /\ Terminator(q)' = ring'[q][Len(ring'[q])]
      BY <3>3, LenProperties, HeadTailProperties DEF Terminator
    <3> QED
      BY <3>1, <3>2, <3>4
  <2>2. /\ \A i \in 1 .. last : ring'[q][i] = ring[q][i]
        /\ Len(ring'[q]) = last + 1 /\ ring'[q][last + 1] = d
    BY <1>6, <1>3 DEF Moving
  <2>3. \A e \in Descs :
          /\ data'[e] = IF e = d THEN Null ELSE IF e = t THEN data[d] ELSE data[e]
          /\ e # d /\ e # t => own'[e] = own[e] /\ ctrl'[e] = ctrl[e]
    BY <1>1, <1>2, <1>3, <1>6, MovedData
  <2>4. \A i \in 1 .. Len(ring[q]) : ring[q][i] # d /\ ring[q][i] \in Descs
    <3>1. one \in 1 .. Len(ring[r])
      BY <1>1, RingType
    <3> HIDE DEF one
    <3> QED
      BY <1>1, <1>2, <1>6, <3>1, Elsewhere
  <2> HIDE DEF one, last, d, t
  <2>5. Head(ring[q])' = Head(ring[q]) /\ own'[Head(ring[q])] = own[Head(ring[q])]
    BY <2>1, <2>2, <2>3, <2>4 DEF last
  <2>6. ~Empty(q)'
    <3>1. Len(ring'[q]) # 1
      BY <2>1, <2>2
    <3> QED
      BY <3>1 DEF Empty
  <2>7. Pending(q) => Pending(q)'
    BY <2>5, <2>6 DEF Pending
  <2>8. Terminator(q)' = d
    BY <2>1, <2>2
  <2>9. /\ cur' = cur /\ intr' = intr /\ lastSuper' = lastSuper /\ lastSuperNum' = lastSuperNum
        /\ macReset' = macReset /\ pc' = pc /\ ix' = ix /\ still'[q] = still[q]
    BY <1>3, <1>6 DEF Starts, mac, check
  <2>10. CASE ~Empty(q) /\ Inside(q) /\ still[q] + TicksLeft(q) + PlacesLeft(q) <= Limit
    <3>1. PICK i \in 1 .. Len(ring[q]) : ring[q][i] = cur[q]
      BY <2>1, <2>10 DEF Inside, last
    <3>2. Inside(q)'
      <4>1. i \in 1 .. Len(ring'[q]) /\ ring'[q][i] = cur'[q]
        BY <2>1, <2>2, <2>9, <3>1 DEF last
      <4> QED
        BY <2>1, <4>1 DEF Inside
    <3>3. cur[q] # d /\ cur[q] \in Descs
      BY <2>4, <3>1
    <3>4. /\ still[q] \in Nat /\ TicksLeft(q) \in 0 .. Stuck + 2
          /\ PlacesLeft(q) \in {0, Stuck + 2, 2 * (Stuck + 2)}
      BY LeftTypes
    <3>5. TicksLeft(q)' \in 0 .. Stuck + 2
      BY LeftTypesNext
    <3>6. CASE cur[q] = t
      <4>1. PlacesLeft(q) = 2 * (Stuck + 2)
        BY <2>1, <3>6 DEF PlacesLeft
      <4>2. PlacesLeft(q)' \in {0, Stuck + 2}
        BY <2>8, <2>9, <3>3 DEF PlacesLeft
      <4> DEFINE a == TicksLeft(q)
                 b == TicksLeft(q)'
                 c == PlacesLeft(q)
                 e == PlacesLeft(q)'
      <4>3. /\ a \in 0 .. Stuck + 2 /\ b \in 0 .. Stuck + 2 /\ c = 2 * (Stuck + 2)
            /\ e \in {0, Stuck + 2} /\ still[q] + a + c <= Limit
            /\ still[q] \in Nat /\ Stuck \in Nat /\ Limit \in Nat
        BY <2>10, <3>4, <3>5, <4>1, <4>2, LimitType
      <4> HIDE DEF a, b, c, e
      <4>4. still[q] + b + e <= Limit
        BY <4>3
      <4>5. Limit' = Limit
        BY DEF Limit
      <4> QED
        BY <2>6, <2>9, <3>2, <4>4, <4>5 DEF Bounded, b, e
    <3>7. CASE cur[q] # t
      <4>1. data'[cur[q]] = data[cur[q]] /\ own'[cur[q]] = own[cur[q]]
        BY <2>3, <3>3, <3>7
      <4>2. Same(q)' = Same(q)
        BY <2>6, <2>9, <2>10, <4>1 DEF Same
      <4>3. TicksLeft(q)' = TicksLeft(q)
        BY <2>9, <4>2 DEF TicksLeft
      <4>4. PlacesLeft(q)' = PlacesLeft(q)
        BY <2>1, <2>5, <2>8, <2>9, <3>3, <3>7, <4>1 DEF PlacesLeft
      <4>5. Limit' = Limit
        BY DEF Limit
      <4> QED
        BY <2>6, <2>9, <2>10, <3>2, <4>3, <4>4, <4>5 DEF Bounded
    <3> QED
      BY <3>6, <3>7
  <2>11. CASE \/ still[q] = 0
              \/ Pending(q) /\ Due(q) /\ still[q] <= Limit
              \/ Pending(q) /\ intr /\ still[q] < Limit
    <3>1. Due(q)' = Due(q) /\ Limit' = Limit
      BY <2>9 DEF Due, Limit
    <3> QED
      BY <2>7, <2>9, <2>11, <3>1 DEF Bounded
  <2> QED
    BY <2>10, <2>11 DEF Bounded
<1> QED
  BY <1>4, <1>5, <1>6

\* A tick brings the reset nearer by one, or the queue has been seen elsewhere.
LEMMA TickNears ==
  ASSUME IInv, NEW o \in Overruns, Timer(o), NEW q \in Queues, ~Empty(q)
  PROVE  TicksLeft(q)' <= TicksLeft(q) - 1
<1> DEFINE num == lastSuperNum[q]
           next == lastSuperNum'[q]
           k == Cardinality(Hung)
           n == macReset + k + (IF o THEN 1 ELSE 0)
<1>1. /\ pc = "host"
      /\ lastSuper'[q] = data[cur[q]]
      /\ next = IF ~Same(q) THEN 0 ELSE IF num < Stuck THEN num + 1 ELSE Stuck
      /\ macReset' = IF n < RESET /\ n > 0 /\ n = macReset THEN n - 1 ELSE n
      /\ pc' = IF macReset' >= RESET THEN "reset" ELSE "wlan"
      /\ UNCHANGED <<ring, data, cur>>
  BY DEF Timer, Settle, mac, desc
<1>2. Same(q)'
  BY <1>1 DEF Same, Empty
<1>3. Stuck \in Nat \ {0} /\ num \in 0 .. Stuck /\ macReset \in {0, 1, 3}
  BY <1>1, HangAssumption DEF IInv, TypeOK, Steps, OFF, FORCE
<1>4. TicksLeft(q) = IF ~Same(q) THEN Stuck + 2
                     ELSE IF num < Stuck - 1 THEN Stuck + 1 - num
                     ELSE IF macReset > 0 THEN 1 ELSE 2
  BY <1>1 DEF TicksLeft, OFF
<1>5. TicksLeft(q)' = IF next < Stuck - 1 THEN Stuck + 1 - next
                      ELSE IF pc' = "reset" THEN IF next = Stuck THEN 0 ELSE 2
                      ELSE IF macReset' > 0 THEN 1 ELSE 2
  BY <1>2 DEF TicksLeft, OFF
<1>6. k \in Nat /\ (Same(q) /\ num + 1 >= Stuck => k >= 1)
  <2>1. IsFiniteSet(0 .. NQ - 1)
    <3>1. 0 \in Int /\ NQ - 1 \in Int
      BY RingIds
    <3> QED
      BY <3>1, FS_Interval
  <2>2. Hung \subseteq 0 .. NQ - 1
    BY DEF Hung, Queues
  <2>3. IsFiniteSet(Hung)
    BY <2>1, <2>2, FS_Subset
  <2>4. k \in Nat /\ (k = 0 => Hung = {})
    BY <2>3, FS_CardinalityType, FS_EmptySet
  <2>5. Same(q) /\ num + 1 >= Stuck => q \in Hung
    BY DEF Hung
  <2> HIDE DEF k
  <2> QED
    BY <2>4, <2>5
<1> HIDE DEF k, num, next
<1>7. /\ n \in Nat /\ n >= macReset + k
      /\ macReset' = IF n < 2 /\ n > 0 /\ n = macReset THEN n - 1 ELSE n
      /\ pc' = IF macReset' >= 2 THEN "reset" ELSE "wlan"
  BY <1>1, <1>3, <1>6 DEF RESET
<1> HIDE DEF n
<1>8. CASE ~Same(q)
  <2>1. TicksLeft(q) = Stuck + 2 /\ next = 0
    BY <1>1, <1>4, <1>8
  <2>2. TicksLeft(q)' \in {Stuck + 1, 0, 1, 2} /\ (TicksLeft(q)' = 0 => next = Stuck)
    BY <1>3, <1>5, <2>1
  <2> QED
    BY <1>3, <2>1, <2>2
<1>9. CASE Same(q) /\ num < Stuck - 1
  <2>1. TicksLeft(q) = Stuck + 1 - num /\ next = num + 1
    BY <1>1, <1>3, <1>4, <1>9
  <2> QED
    BY <1>3, <1>5, <1>9, <2>1
<1>10. CASE Same(q) /\ ~(num < Stuck - 1)
  <2>1. TicksLeft(q) = (IF macReset > 0 THEN 1 ELSE 2) /\ next = Stuck /\ k >= 1
    BY <1>1, <1>3, <1>4, <1>6, <1>10
  <2>2. macReset' = n /\ n >= macReset + 1
    BY <1>3, <1>6, <1>7, <2>1
  <2>3. CASE macReset > 0
    <3>1. pc' = "reset"
      BY <1>3, <1>7, <2>2, <2>3
    <3> QED
      BY <1>3, <1>5, <2>1, <2>3, <3>1
  <2>4. CASE macReset = 0
    <3>1. macReset' > 0
      BY <1>7, <2>2, <2>4
    <3> QED
      BY <1>3, <1>5, <2>1, <2>4, <3>1
  <2> QED
    BY <1>3, <2>3, <2>4
<1> QED
  BY <1>8, <1>9, <1>10

\* A tick uses up one of the ticks left, or the completion handler is due.
LEMMA TimerRecovers ==
  ASSUME IInv, IInv', NEW o \in Overruns, Timer(o), NEW q \in Queues, Bounded(q)
  PROVE  Bounded(q)'
<1>1. /\ pc = "host" /\ pc' \in {"reset", "wlan"}
      /\ still'[q] = IF Empty(q) \/ ~Inside(q) THEN 0 ELSE still[q] + 1
      /\ UNCHANGED <<ring, data, own, cur, intr>>
  BY DEF Timer, mac, desc
<1>2. /\ Limit' = Limit /\ Empty(q)' = Empty(q) /\ Inside(q)' = Inside(q)
      /\ Pending(q)' = Pending(q) /\ PlacesLeft(q)' = PlacesLeft(q)
  BY <1>1 DEF Limit, Empty, Inside, Pending, PlacesLeft, Terminator
<1>3. /\ still[q] \in Nat /\ TicksLeft(q) \in 0 .. Stuck + 2 /\ TicksLeft(q)' \in 0 .. Stuck + 2
      /\ PlacesLeft(q) \in {0, Stuck + 2, 2 * (Stuck + 2)}
      /\ Stuck \in Nat \ {0} /\ Limit = 3 * (Stuck + 2)
  BY LeftTypes, LeftTypesNext, LimitType
<1>4. CASE Empty(q) \/ ~Inside(q)
  BY <1>1, <1>4 DEF Bounded
<1>5. CASE ~Empty(q) /\ Inside(q) /\ Pending(q) /\ intr /\ still[q] < Limit
  <2>1. Due(q)'
    BY <1>1, <1>5 DEF Due
  <2>2. still'[q] <= Limit
    BY <1>1, <1>3, <1>5
  <2> QED
    BY <1>2, <1>5, <2>1, <2>2 DEF Bounded
<1>6. CASE /\ ~Empty(q) /\ Inside(q)
           /\ still[q] = 0 \/ still[q] + TicksLeft(q) + PlacesLeft(q) <= Limit
  <2>1. TicksLeft(q)' <= TicksLeft(q) - 1
    BY <1>6, TickNears
  <2> DEFINE a == TicksLeft(q)
             b == TicksLeft(q)'
             c == PlacesLeft(q)
  <2>2. /\ a \in 0 .. Stuck + 2 /\ b \in 0 .. Stuck + 2 /\ b <= a - 1
        /\ c \in {0, Stuck + 2, 2 * (Stuck + 2)} /\ still[q] \in Nat
        /\ still[q] = 0 \/ still[q] + a + c <= Limit
        /\ still'[q] = still[q] + 1 /\ Stuck \in Nat /\ Limit = 3 * (Stuck + 2)
    BY <1>1, <1>3, <1>6, <2>1
  <2> HIDE DEF a, b, c
  <2>3. still'[q] + b + c <= Limit
    BY <2>2
  <2> QED
    BY <1>2, <1>6, <2>3 DEF Bounded, b, c
<1>7. ~Due(q)
  BY <1>1 DEF Due
<1> QED
  BY <1>4, <1>5, <1>6, <1>7 DEF Bounded

\* The first descriptor the MAC has not processed is the head, if it owns that.
LEMMA FirstIsHead ==
  ASSUME IInv, NEW q \in Queues, ~Empty(q), own[Head(ring[q])] = "HW"
  PROVE  FirstOf(ring[q]) = Head(ring[q])
<1> DEFINE one == 1
           s == ring[q]
           open == {i \in DOMAIN s : i = Len(s) \/ own[s[i]] # "SW"}
<1>1. /\ one \in DOMAIN s /\ Head(s) = s[one] /\ DOMAIN s = 1 .. Len(s)
  BY HeadPlace
<1>2. one \in open
  BY <1>1
<1>3. \A j \in open : j \in Nat /\ one <= j
  BY <1>1, HeadPlace
<1>4. FirstOf(s) = s[CHOOSE i \in open : \A j \in open : i <= j]
  BY DEF FirstOf
<1> HIDE DEF open
<1>5. \A i \in open : (\A j \in open : i <= j) => i = one
  BY <1>2, <1>3
<1>6. (CHOOSE i \in open : \A j \in open : i <= j) = one
  BY <1>2, <1>3, <1>5
<1> QED
  BY <1>1, <1>4, <1>6

\* The reset kills the head, which the completion handler then finds, or puts the MAC
\* at it.
LEMMA MacResetRecovers ==
  ASSUME IInv, IInv', MacReset, NEW q \in Queues, Bounded(q)
  PROVE  Bounded(q)'
<1> DEFINE h == Head(ring[q])
<1>1. /\ pc = "reset" /\ pc' = "wlan" /\ intr' = TRUE /\ macReset' = OFF
      /\ own' = [d \in Descs |-> IF d \in Killed THEN "SW" ELSE own[d]]
      /\ lastSuper'[q] = IF Kills(q) THEN Null ELSE lastSuper[q]
      /\ lastSuperNum'[q] = IF Kills(q) THEN 0 ELSE lastSuperNum[q]
      /\ cur'[q] = IF Kills(q) THEN After(FirstOf(ring[q])) ELSE FirstOf(ring[q])
      /\ UNCHANGED <<ring, data, still>>
  BY DEF MacReset, AfterReset
<1>2. /\ h \in Descs /\ (~Empty(q) => h # Terminator(q)) /\ 1 \in DOMAIN ring[q]
      /\ h = ring[q][1]
  BY HeadPlace
<1>3. /\ Limit' = Limit /\ Empty(q)' = Empty(q) /\ Terminator(q)' = Terminator(q)
      /\ Head(ring[q])' = h
  BY <1>1 DEF Limit, Empty, Terminator
<1>4. /\ still[q] \in Nat /\ TicksLeft(q) \in 0 .. Stuck + 2 /\ TicksLeft(q)' \in 0 .. Stuck + 2
      /\ PlacesLeft(q) \in {0, Stuck + 2, 2 * (Stuck + 2)}
      /\ Stuck \in Nat \ {0} /\ Limit = 3 * (Stuck + 2)
  BY LeftTypes, LeftTypesNext, LimitType
<1>5. ASSUME ~Empty(q), own'[h] = "SW", still[q] <= Limit PROVE Bounded(q)'
  <2>1. Pending(q)'
    BY <1>3, <1>5 DEF Pending
  <2>2. Due(q)'
    BY <1>1 DEF Due
  <2> QED
    BY <1>1, <1>3, <1>5, <2>1, <2>2 DEF Bounded
<1>6. CASE still[q] = 0
  BY <1>1, <1>6 DEF Bounded
<1>7. CASE Pending(q) /\ still[q] <= Limit
  <2>1. ~Empty(q) /\ own'[h] = "SW"
    BY <1>1, <1>2, <1>7 DEF Pending
  <2> QED
    BY <1>5, <1>7, <2>1
<1>8. CASE ~Empty(q) /\ Inside(q) /\ still[q] + TicksLeft(q) + PlacesLeft(q) <= Limit
  <2>0. still[q] <= Limit
    <3> DEFINE a == TicksLeft(q)
               c == PlacesLeft(q)
    <3>1. a \in Nat /\ c \in Nat /\ still[q] + a + c <= Limit /\ still[q] \in Nat /\ Limit \in Nat
      BY <1>4, <1>8
    <3> HIDE DEF a, c
    <3> QED
      BY <3>1
  <2>1. CASE own'[h] = "SW"
    BY <1>5, <1>8, <2>0, <2>1
  <2>2. CASE own'[h] # "SW"
    <3>1. own[h] = "HW" /\ own'[h] = "HW" /\ h \notin Killed
      <4>1. own[h] \in {"HW", "SW"}
        BY <1>2 DEF IInv, TypeOK
      <4> QED
        BY <1>1, <1>2, <2>2, <4>1
    <3>2. FirstOf(ring[q]) = h
      BY <1>8, <3>1, FirstIsHead
    <3>3. ~Kills(q)
      BY <3>1, <3>2 DEF Killed
    <3>4. cur'[q] = h /\ lastSuper'[q] = lastSuper[q] /\ lastSuperNum'[q] = lastSuperNum[q]
      BY <1>1, <3>2, <3>3
    <3>5. PlacesLeft(q)' = 0
      BY <1>1, <1>3, <3>1, <3>4 DEF PlacesLeft
    <3>6. Inside(q)'
      BY <1>1, <1>2, <3>4 DEF Inside
    <3>7. TicksLeft(q)' <= TicksLeft(q) + PlacesLeft(q)
      <4>1. CASE cur[q] = h
        <5>1. lastSuper[q] = data[cur[q]]
          BY <1>1, <1>8 DEF IInv, Seen
        <5>2. Same(q) /\ Same(q)'
          BY <1>1, <1>3, <1>8, <3>4, <4>1, <5>1 DEF Same
        <5>3. lastSuperNum[q] < Stuck /\ lastSuperNum[q] \in 0 .. Stuck
          <6>1. lastSuper[q] = data[FirstOf(ring[q])] /\ FirstOf(ring[q]) # Terminator(q)
            BY <1>2, <1>8, <3>2, <4>1, <5>1
          <6>2. ~(lastSuperNum[q] >= Stuck)
            BY <3>3, <6>1 DEF Kills
          <6>3. lastSuperNum[q] \in 0 .. Stuck
            BY DEF IInv, TypeOK
          <6> QED
            BY <1>4, <6>2, <6>3
        <5>4. TicksLeft(q)' = TicksLeft(q)
          <6>1. lastSuperNum[q] # Stuck /\ ~(macReset' > OFF)
            BY <1>1, <1>4, <5>3 DEF OFF
          <6> QED
            BY <1>1, <3>4, <5>2, <6>1 DEF TicksLeft
        <5>5. PlacesLeft(q) = 0
          BY <3>1, <4>1 DEF PlacesLeft
        <5> QED
          BY <1>4, <5>4, <5>5
      <4>2. CASE cur[q] # h
        <5>1. PlacesLeft(q) \in {Stuck + 2, 2 * (Stuck + 2)}
          BY <4>2 DEF PlacesLeft
        <5> QED
          BY <1>4, <5>1
      <4> QED
        BY <4>1, <4>2
    <3> DEFINE a == TicksLeft(q)
               b == TicksLeft(q)'
               c == PlacesLeft(q)
               e == PlacesLeft(q)'
    <3>8. /\ a \in Nat /\ b \in Nat /\ c \in Nat /\ e = 0 /\ b <= a + c
          /\ still[q] + a + c <= Limit /\ still[q] \in Nat /\ Limit \in Nat
      BY <1>4, <1>8, <3>5, <3>7
    <3> HIDE DEF a, b, c, e
    <3>9. still[q] + b + e <= Limit
      BY <3>8
    <3> QED
      BY <1>1, <1>3, <1>8, <3>6, <3>9 DEF Bounded, b, e
  <2> QED
    BY <2>1, <2>2
<1>9. still[q] < Limit => still[q] <= Limit
  BY <1>4
<1> QED
  BY <1>6, <1>7, <1>8, <1>9 DEF Bounded

\* A frame that is sent moves its queue; one the MAC of another queue sends waits for
\* the completion handler.
LEMMA SendRecovers ==
  ASSUME IInv, NEW p \in Queues, NEW outcome \in Outcomes, Send(p, outcome),
         NEW q \in Queues, Bounded(q)
  PROVE  Bounded(q)'
<1> DEFINE d == cur[p]
           h == Head(ring[q])
<1>1. /\ pc # "reset" /\ own[d] = "HW" /\ own' = [own EXCEPT ![d] = "SW"]
      /\ \E e : cur' = [cur EXCEPT ![p] = e]
      /\ intr' = TRUE
      /\ IF Inside(p) THEN still' = [still EXCEPT ![p] = 0] ELSE still' = still
      /\ UNCHANGED <<ring, data, pc, ix, lastSuper, lastSuperNum, macReset>>
  BY DEF Send, Moved, frame, check
<1>2. /\ own \in [Descs -> {"HW", "SW"}] /\ d \in Descs
      /\ still \in [Queues -> Nat] /\ cur \in [Queues -> Descs]
  BY DEF IInv, TypeOK
<1>3. h \in Descs /\ h = ring[q][1] /\ 1 \in 1 .. Len(ring[q])
  BY HeadPlace
<1> HIDE DEF d
<1>4. CASE p = q /\ Inside(q)
  BY <1>1, <1>2, <1>4 DEF Bounded
<1>5. CASE ~(p = q /\ Inside(q))
  <2>1. still'[q] = still[q]
    BY <1>1, <1>2, <1>5
  <2>2. Empty(q)' = Empty(q) /\ Head(ring[q])' = h /\ Terminator(q)' = Terminator(q)
        /\ Limit' = Limit /\ (Due(q) => Due(q)')
    BY <1>1 DEF Empty, Terminator, Limit, Due
  <2>3. own[h] = "SW" => own'[h] = "SW"
    BY <1>1, <1>2, <1>3
  <2>4. Pending(q) => Pending(q)'
    BY <2>2, <2>3 DEF Pending
  <2>5. CASE Inside(q) /\ ~Empty(q) /\ still[q] + TicksLeft(q) + PlacesLeft(q) <= Limit
    <3>1. cur'[q] = cur[q]
      BY <1>1, <1>2, <1>5, <2>5
    <3>2. CASE d = h
      <4>1. Pending(q)'
        BY <1>1, <1>2, <1>3, <2>2, <2>5, <3>2 DEF Pending
      <4> DEFINE a == TicksLeft(q)
                 c == PlacesLeft(q)
      <4>2. a >= 1 /\ a \in Nat /\ c \in Nat /\ still[q] \in Nat /\ Limit \in Nat
            /\ still[q] + a + c <= Limit
        BY <1>1, <2>5, LeftTypes, LimitType
      <4> HIDE DEF a, c
      <4>3. still[q] < Limit
        BY <4>2
      <4> QED
        BY <1>1, <2>1, <2>2, <4>1, <4>3 DEF Bounded
    <3>3. CASE d # h
      <4>1. own'[h] = own[h]
        BY <1>1, <1>2, <1>3, <3>3
      <4>2. PlacesLeft(q)' = PlacesLeft(q)
        BY <2>2, <3>1, <4>1 DEF PlacesLeft
      <4>3. Same(q)' = Same(q)
        BY <1>1, <2>2, <3>1 DEF Same
      <4>4. TicksLeft(q)' = TicksLeft(q)
        BY <1>1, <4>3 DEF TicksLeft
      <4>5. Inside(q)'
        BY <1>1, <2>5, <3>1 DEF Inside
      <4> QED
        BY <2>1, <2>2, <2>5, <4>2, <4>4, <4>5 DEF Bounded
    <3> QED
      BY <3>2, <3>3
  <2>6. CASE \/ still[q] = 0
             \/ Pending(q) /\ Due(q) /\ still[q] <= Limit
             \/ Pending(q) /\ intr /\ still[q] < Limit
    BY <1>1, <2>1, <2>2, <2>4, <2>6 DEF Bounded
  <2> QED
    BY <2>5, <2>6 DEF Bounded
<1> QED
  BY <1>4, <1>5

\* No queue is still for longer than the hang check takes.
AllBounded == \A q \in Queues : Bounded(q)

\* Each step keeps that, given the invariant.
LEMMA StaysBounded == IInv /\ AllBounded /\ [Next]_vars => AllBounded'
<1> SUFFICES ASSUME IInv, [Next]_vars, NEW q \in Queues, Bounded(q) PROVE Bounded(q)'
  BY DEF AllBounded
<1>0. IInv'
  BY StaysWell
<1>1. CASE AckInterrupt \/ LeaveQueue \/ NextQueue \/ NotDue \/ Swrst \/ UNCHANGED vars
  BY <1>1, LoopRecovers
<1>2. CASE TxRearm \/ TxRetryLater \/ TxDone
  BY <1>2, CompletionRecovers
<1>3. CASE Requeue
  BY <1>0, <1>3, PutRecovers DEF Requeue
<1>4. CASE TakeDown
  BY <1>0, <1>4, PutRecovers DEF TakeDown, Pending
<1>5. CASE MacReset
  BY <1>0, <1>5, MacResetRecovers
<1>6. CASE \E o \in Overruns : Timer(o)
  BY <1>0, <1>6, TimerRecovers
<1>7. CASE \E p \in Queues : Arrive(p) \/ \E o \in Outcomes : Send(p, o)
  BY <1>7, ArriveRecovers, SendRecovers
<1> QED
  BY <1>1, <1>2, <1>3, <1>4, <1>5, <1>6, <1>7 DEF Next, Firmware

\* The bound of the invariant is the one the run checks.
LEMMA BoundedSuffices == IInv /\ AllBounded => Recovers
<1> SUFFICES ASSUME IInv, NEW q \in Queues, Bounded(q) PROVE still[q] <= Limit
  BY DEF AllBounded, Recovers, Limit
<1> DEFINE a == TicksLeft(q)
           c == PlacesLeft(q)
<1>1. a \in Nat /\ c \in Nat /\ still[q] \in Nat /\ Limit \in Nat
  BY LeftTypes, LimitType
<1>2. still[q] = 0 \/ still[q] <= Limit \/ still[q] < Limit \/ still[q] + a + c <= Limit
  BY DEF Bounded
<1> HIDE DEF a, c
<1> QED
  BY <1>1, <1>2

\* Every queue recovers, whatever the MAC does: one that has frames and that the MAC
\* stands in moves again within three times the ticks of the hang check, for every
\* number of queues, blocks, tries and ticks.
THEOREM QueuesRecover == Spec => []Recovers
<1>1. Init => AllBounded
  BY DEF Init, AllBounded, Bounded
<1> QED
  BY <1>1, Reached, StaysBounded, BoundedSuffices, PTL DEF Spec
=============================================================================

--------------------------- MODULE DmaRing_proofs ---------------------------
(***************************************************************************)
(* Proofs about DmaRing, for every number of blocks.  The state does not say *)
(* which descriptors form a packet, the walks along nextAddr and lastAddr    *)
(* do; the invariant therefore asks for a partition of the descriptors into  *)
(* packets that the links agree with, and each step is shown to lead from    *)
(* one such partition to another.  That the walks find the packets of the    *)
(* partition is proved by induction over the length of the walk.  The data    *)
(* of the packets in the order of the partition are the queues of PacketPipe, *)
(* which DmaRing is shown to implement.                                      *)
(***************************************************************************)
EXTENDS DmaRing, RingArithmetic, FiniteSetTheorems, SequenceTheorems, TLAPS

-----------------------------------------------------------------------------
(* Walking along nx *)

\* How far a walk goes is a number.
LEMMA FuelIsNat == Fuel \in Nat
BY DmaAssumption DEF Fuel

\* Walk() starts at a and goes on along nx: the recursive function exists.
LEMMA WalkSteps ==
  ASSUME NEW nx \in [Descs -> Descs], NEW a \in Descs
  PROVE  /\ Walk(nx, a) \in [0 .. Fuel -> Descs]
         /\ Walk(nx, a)[0] = a
         /\ \A i \in 1 .. Fuel : Walk(nx, a)[i] = nx[Walk(nx, a)[i - 1]]
<1> DEFINE Steps(n, g) == g[0] = a /\ \A i \in 1 .. n : g[i] = nx[g[i - 1]]
           S == {n \in Nat : \E g \in [0 .. n -> Descs] : Steps(n, g)}
           Def(f) == f = [i \in 0 .. Fuel |-> IF i = 0 THEN a ELSE nx[f[i - 1]]]
           w == Walk(nx, a)
<1>1. \A n \in Nat : n \in S
  <2>1. 0 \in S
    <3>1. Steps(0, [i \in 0 .. 0 |-> a])
      OBVIOUS
    <3> QED
      BY <3>1
  <2>2. ASSUME NEW n \in Nat, n \in S PROVE n + 1 \in S
    <3>1. PICK g \in [0 .. n -> Descs] : Steps(n, g)
      BY <2>2
    <3> DEFINE h == [i \in 0 .. n + 1 |-> IF i = n + 1 THEN nx[g[n]] ELSE g[i]]
    <3>2. h \in [0 .. n + 1 -> Descs]
      OBVIOUS
    <3>3. ASSUME NEW i \in 1 .. n + 1 PROVE h[i] = nx[h[i - 1]]
      BY <3>1
    <3>4. h[0] = a
      BY <3>1
    <3>5. Steps(n + 1, h)
      BY <3>3, <3>4
    <3> HIDE DEF h, Steps
    <3> QED
      BY <3>2, <3>5
  <2> HIDE DEF S
  <2> QED
    BY <2>1, <2>2, Induct
<1>2. PICK g \in [0 .. Fuel -> Descs] : Steps(Fuel, g)
  BY <1>1, FuelIsNat
<1>3. \E f : Def(f)
  <2>1. g = [i \in 0 .. Fuel |-> g[i]]
    OBVIOUS
  <2>2. ASSUME NEW i \in 0 .. Fuel PROVE g[i] = IF i = 0 THEN a ELSE nx[g[i - 1]]
    <3>1. CASE i = 0
      BY <1>2, <3>1
    <3>2. CASE i \in 1 .. Fuel
      BY <1>2, <3>2
    <3> QED
      BY <3>1, <3>2, FuelIsNat
  <2>3. Def(g)
    BY <2>1, <2>2
  <2> QED
    BY <2>3
<1>4. w = CHOOSE f : Def(f)
  BY DEF Walk
<1>5. Def(w)
  <2>1. Def(CHOOSE f : Def(f))
    <3> HIDE DEF Def
    <3> QED
      BY <1>3
  <2> HIDE DEF w, Def
  <2> QED
    BY <1>4, <2>1
<1> HIDE DEF w
<1>6. w[0] = a /\ \A i \in 1 .. Fuel : w[i] = nx[w[i - 1]]
  <2>1. \A i \in 0 .. Fuel : w[i] = IF i = 0 THEN a ELSE nx[w[i - 1]]
    BY <1>5
  <2>2. 0 \in 0 .. Fuel /\ \A i \in 1 .. Fuel : i \in 0 .. Fuel /\ i # 0
    BY FuelIsNat
  <2> QED
    BY <2>1, <2>2
<1> DEFINE R == {n \in Nat : n <= Fuel => w[n] \in Descs}
<1>7. \A n \in Nat : n \in R
  <2>1. 0 \in R
    BY <1>6
  <2>2. ASSUME NEW n \in Nat, n \in R PROVE n + 1 \in R
    <3>1. CASE n + 1 <= Fuel
      <4>1. w[n] \in Descs
        BY <2>2, <3>1, FuelIsNat
      <4>2. w[n + 1] = nx[w[n]]
        BY <1>6, <3>1, FuelIsNat
      <4> QED
        BY <4>1, <4>2
    <3> QED
      BY <3>1
  <2> HIDE DEF R
  <2> QED
    BY <2>1, <2>2, Induct
<1>8. \A n \in 0 .. Fuel : w[n] \in Descs
  BY <1>7, FuelIsNat
<1>9. w = [i \in 0 .. Fuel |-> w[i]]
  BY <1>5
<1> QED
  BY <1>6, <1>8, <1>9 DEF w
\* s is the way from its first member along nx to b.
Leads(nx, s, b) == \A i \in 1 .. Len(s) : nx[s[i]] = IF i < Len(s) THEN s[i + 1] ELSE b
Start(s, b)     == IF Len(s) = 0 THEN b ELSE s[1]
Inj(s)          == \A i, j \in 1 .. Len(s) : s[i] = s[j] => i = j
Without(s, b)   == \A i \in 1 .. Len(s) : s[i] # b

\* Descriptors that all differ are no more than there are.
LEMMA ShortEnough ==
  ASSUME NEW s \in Seq(Descs), Inj(s)
  PROVE  Len(s) <= Fuel
<1> SUFFICES ASSUME Len(s) > Fuel PROVE FALSE
  BY FuelIsNat, LenProperties
<1>1. Descs = 1 .. Fuel
  BY DEF Descs, Fuel
<1>2. IsFiniteSet(Descs) /\ Cardinality(Descs) = Fuel
  BY <1>1, FuelIsNat, FS_Interval
<1>3. Len(s) \in Nat /\ s \in [1 .. Len(s) -> Descs]
  BY LenProperties
<1>4. IsFiniteSet(1 .. Len(s)) /\ Cardinality(1 .. Len(s)) = Len(s)
  BY <1>3, FS_Interval
<1>5. \E x, y \in 1 .. Len(s) : x # y /\ s[x] = s[y]
  BY <1>2, <1>3, <1>4, FS_PigeonHole
<1> QED
  BY <1>5 DEF Inj

\* Walking along nx visits the members of a way along nx, then its end.
LEMMA WalkIs ==
  ASSUME NEW nx \in [Descs -> Descs], NEW s \in Seq(Descs), NEW b \in Descs, Leads(nx, s, b)
  PROVE  \A i \in 0 .. Len(s) : i <= Fuel =>
           Walk(nx, Start(s, b))[i] = IF i < Len(s) THEN s[i + 1] ELSE b
<1> DEFINE w == Walk(nx, Start(s, b))
           S == {i \in Nat : i <= Len(s) /\ i <= Fuel => w[i] = IF i < Len(s) THEN s[i + 1] ELSE b}
<1>0. Len(s) \in Nat /\ \A i \in 1 .. Len(s) : s[i] \in Descs
  BY LenProperties, ElementOfSeq
<1>1. Start(s, b) \in Descs
  BY <1>0 DEF Start
<1>2. w[0] = Start(s, b) /\ \A i \in 1 .. Fuel : w[i] = nx[w[i - 1]]
  BY <1>1, WalkSteps
<1> HIDE DEF w
<1>3. 0 \in S
  BY <1>0, <1>2 DEF Start
<1>4. ASSUME NEW i \in Nat, i \in S PROVE i + 1 \in S
  <2> SUFFICES ASSUME i + 1 <= Len(s), i + 1 <= Fuel
               PROVE  w[i + 1] = IF i + 1 < Len(s) THEN s[i + 2] ELSE b
    OBVIOUS
  <2>1. w[i] = s[i + 1]
    BY <1>0, <1>4, FuelIsNat
  <2>2. w[i + 1] = nx[w[i]]
    BY <1>2, FuelIsNat
  <2> QED
    BY <1>0, <2>1, <2>2 DEF Leads
<1>5. \A i \in Nat : i \in S
  <2> HIDE DEF S
  <2> QED
    BY <1>3, <1>4, Induct
<1> QED
  BY <1>0, <1>5 DEF w

\* Path() finds the way along nx that leads to b.
LEMMA PathIs ==
  ASSUME NEW nx \in [Descs -> Descs], NEW s \in Seq(Descs), NEW b \in Descs,
         Leads(nx, s, b), Inj(s), Without(s, b)
  PROVE  Path(nx, Start(s, b), b) = s
<1> DEFINE w == Walk(nx, Start(s, b))
           P(i) == (w[i] = b \/ i = Fuel) /\ \A j \in 0 .. i - 1 : w[j] # b
           n == CHOOSE i \in 0 .. Fuel : P(i)
<1>0. Len(s) \in Nat /\ Len(s) <= Fuel
  BY LenProperties, ShortEnough
<1>1. \A i \in 0 .. Len(s) : w[i] = IF i < Len(s) THEN s[i + 1] ELSE b
  BY <1>0, WalkIs, FuelIsNat
<1> HIDE DEF w
<1>2. P(Len(s))
  <2>1. w[Len(s)] = b
    BY <1>0, <1>1
  <2>2. \A j \in 0 .. Len(s) - 1 : w[j] # b
    BY <1>0, <1>1 DEF Without
  <2> QED
    BY <2>1, <2>2
<1>3. Len(s) \in 0 .. Fuel
  BY <1>0, FuelIsNat
<1>4. n \in 0 .. Fuel /\ P(n)
  <2> HIDE DEF P
  <2> QED
    BY <1>2, <1>3
<1> HIDE DEF n
<1>5. n = Len(s)
  <2>1. w[Len(s)] = b
    BY <1>0, <1>1
  <2>2. ~(n > Len(s))
    BY <1>0, <1>4, <2>1, FuelIsNat
  <2>3. ~(n < Len(s))
    <3> SUFFICES ASSUME n < Len(s) PROVE FALSE
      OBVIOUS
    <3>1. w[n] = b
      BY <1>0, <1>4, FuelIsNat
    <3> QED
      BY <1>0, <1>2, <1>4, <3>1, FuelIsNat
  <2> QED
    BY <1>0, <1>4, <2>2, <2>3, FuelIsNat
<1>6. Path(nx, Start(s, b), b) = [i \in 1 .. n |-> w[i - 1]]
  BY DEF Path, n, w
<1>7. s = [i \in 1 .. Len(s) |-> s[i]]
  BY LenProperties
<1>8. \A i \in 1 .. Len(s) : w[i - 1] = s[i]
  BY <1>0, <1>1
<1> QED
  BY <1>5, <1>6, <1>7, <1>8
-----------------------------------------------------------------------------
(* The invariant, in terms of the packets the rings consist of *)

\* The descriptors of one packet, in a memory m.
IsPacket(m, c) ==
  /\ c \in Seq(Descs) /\ Len(c) >= 1 /\ Inj(c)
  /\ \A j \in 1 .. Len(c) - 1 : m[c[j]].next = c[j + 1]
  /\ m[c[1]].last = c[Len(c)]

After(m) == [d \in Descs |-> m[m[d].last].next]

\* ps: the packets of each queue, by their first descriptors.
IsRing(m, s, h, t) ==
  /\ s \in Seq(Descs) /\ Inj(s) /\ Without(s, t)
  /\ Leads(After(m), s, t) /\ h = Start(s, t)

Places == Queues \cup {"held", "home"}

\* Every packet has its buffers; that of the firmware's own frame is one of its own.
HasData(m, c) ==
  /\ m[c[1]].data # Null /\ (m[c[1]].data = FwData => Len(c) = 1)
  /\ \A j \in 2 .. Len(c) : m[c[j]].data \in Buffers

\* The invariant speaks of things the state determines.  ps: the packets of each
\* queue by their first descriptors; h: the descriptors of the packet in the
\* firmware's hands but the first; n: how many packets each engine has processed;
\* g.pk: the descriptors of a packet; g.tag: where a first descriptor is; g.fst:
\* the first descriptor of the packet one belongs to.
Member(m, q, x, g) ==
  /\ g.tag[x] = q /\ g.fst[x] = x
  /\ IsPacket(m, g.pk[x]) /\ g.pk[x][1] = x
  /\ \A j \in 1 .. Len(g.pk[x]) : g.fst[g.pk[x][j]] = x
  /\ HasData(m, g.pk[x]) /\ (q = "down" => m[x].data # FwData)

QueueOK(m, q, s, hd, tm, g) ==
  /\ IsRing(m, s, hd, tm)
  /\ g.tag[tm] = q /\ g.fst[tm] = tm
  /\ \A i \in 1 .. Len(s) : Member(m, q, s[i], g)

QueuesOK(ps, g) ==
  \A q \in Queues : QueueOK(mem, q, ps[q], head[q], term[q], g)

TermOK ==
  \A q \in Queues :
    mem[term[q]] = IF pc = "publish" /\ q = dst THEN td ELSE Cleared(term[q])

\* The packet with first descriptor x on its way to the end tt of queue q.
HandOK(m, h, x, t, q, tt, g) ==
  /\ h \in Seq(Descs) /\ Inj(h) /\ Without(h, x)
  /\ \A j \in 1 .. Len(h) : m[h[j]].next = IF j < Len(h) THEN h[j + 1] ELSE x
  /\ t.next = Start(h, x)
  /\ g.tag[x] = "held" /\ g.fst[x] = x
  /\ \A j \in 1 .. Len(h) : g.fst[h[j]] = x /\ m[h[j]].data \in Buffers
  /\ m[x] = Cleared(x)
  /\ t.own = "SW" /\ t.ctrl = "ok" /\ t.data # Null
  /\ t.data = FwData => Len(h) = 0 /\ q # "down"
  /\ t.last = IF q # "down" /\ Len(h) # 0 THEN h[Len(h)] ELSE tt
  /\ q = "down" => \A j \in 1 .. Len(h) : m[h[j]].last = h[j] /\ m[h[j]].own = "HW"

InHand == pc \in {"status", "body", "publish"}
HeldOK(h, g) == InHand => HandOK(mem, h, desc, td, dst, term[dst], g)

HomeOK(g) == fwAvail => g.tag[fwDesc] = "home" /\ g.fst[fwDesc] = fwDesc

\* The engine stands behind the k packets of s it has processed.
At(s, i, t) == IF i <= Len(s) THEN s[i] ELSE t

DownOK(m, s, g, k, c, t) ==
  /\ k \in 0 .. Len(s)
  /\ \A i \in 1 .. Len(s) : m[s[i]].own = IF i <= k THEN "SE" ELSE "HW"
  /\ \A i \in k + 1 .. Len(s) : Len(g.pk[s[i]]) = 1
  /\ c = At(s, k + 1, t)

TxOK(m, s, k, c, t, stopped) ==
  /\ k \in 0 .. Len(s)
  /\ \A i \in 1 .. Len(s) : m[s[i]].own = IF i <= k THEN "SW" ELSE "HW"
  /\ \A i \in 1 .. k : m[s[i]].ctrl = "TXFAIL" => stopped /\ i = k
  /\ IF stopped THEN k > 0 /\ c = s[k] /\ m[s[k]].ctrl = "TXFAIL"
                ELSE c = At(s, k + 1, t)

\* Who has work and does not run is going to be triggered.
Due(e) == \/ pc = "trigger" /\ dst = e
          \/ e = "tx" /\ (pc = "retry" \/ (InHand /\ dst = "tx"))
WakeOK == \A e \in Engines :
            mem[cur[e]].own = "HW" /\ ~(e = "tx" /\ halt) => run[e] \/ Due(e)

PcOK == /\ pc = "retry" => ~Empty("retry")
        /\ pc = "trigger" => dst \in Engines

Ghost(ps, g, h, n) ==
  /\ ps \in [Queues -> Seq(Descs)] /\ h \in Seq(Descs) /\ n \in [Engines -> Nat]
  /\ g \in [pk : [Descs -> Seq(Descs)], tag : [Descs -> Places], fst : [Descs -> Descs]]

Shape(ps, g, h, n) ==
  /\ Ghost(ps, g, h, n) /\ QueuesOK(ps, g)
  /\ HeldOK(h, g) /\ HomeOK(g)
  /\ DownOK(mem, ps["down"], g, n["down"], cur["down"], term["down"])
  /\ TxOK(mem, ps["tx"], n["tx"], cur["tx"], term["tx"], halt)

Shaped == \E ps, g, h, n : Shape(ps, g, h, n)

IInv == TypeOK /\ TermOK /\ WakeOK /\ PcOK /\ Shaped

-----------------------------------------------------------------------------
(* What the walks of the code find *)

\* A sequence as a function.
LEMMA SeqIsFunction ==
  ASSUME NEW S, NEW s \in Seq(S)
  PROVE  /\ Len(s) \in Nat /\ s \in [1 .. Len(s) -> S]
         /\ s = [i \in 1 .. Len(s) |-> s[i]] /\ \A i \in 1 .. Len(s) : s[i] \in S
BY LenProperties

\* Sequences with the same elements are the same.
LEMMA SameSeq ==
  ASSUME NEW S, NEW s \in Seq(S), NEW t \in Seq(S), Len(s) = Len(t),
         \A i \in 1 .. Len(s) : s[i] = t[i]
  PROVE  s = t
BY SeqIsFunction

\* The walk from the first to the last descriptor of a packet visits the packet.
LEMMA PathOfPacket ==
  ASSUME NEW m \in [Descs -> Descriptor], NEW c, IsPacket(m, c)
  PROVE  Append(Path([d \in Descs |-> m[d].next], c[1], c[Len(c)]), c[Len(c)]) = c
<1> DEFINE nx == [d \in Descs |-> m[d].next]
           s  == [i \in 1 .. Len(c) - 1 |-> c[i]]
           b  == c[Len(c)]
<1>0. Len(c) \in Nat /\ Len(c) >= 1 /\ \A i \in 1 .. Len(c) : c[i] \in Descs
  BY SeqIsFunction DEF IsPacket
<1>1. s \in Seq(Descs) /\ Len(s) = Len(c) - 1 /\ \A i \in 1 .. Len(c) - 1 : s[i] = c[i]
  BY <1>0
<1>2. nx \in [Descs -> Descs] /\ b \in Descs
  BY <1>0 DEF Descriptor
<1> HIDE DEF s, b
<1>3. Inj(s)
  BY <1>0, <1>1 DEF Inj, IsPacket
<1>4. Without(s, b)
  BY <1>0, <1>1 DEF Inj, IsPacket, Without, b
<1>5. Leads(nx, s, b)
  <2> SUFFICES ASSUME NEW i \in 1 .. Len(s)
               PROVE  nx[s[i]] = IF i < Len(s) THEN s[i + 1] ELSE b
    BY DEF Leads
  <2>1. nx[s[i]] = c[i + 1]
    BY <1>0, <1>1 DEF IsPacket
  <2> QED
    BY <1>0, <1>1, <2>1 DEF b
<1>6. Start(s, b) = c[1]
  BY <1>0, <1>1 DEF Start, b
<1>7. Path(nx, c[1], b) = s
  BY <1>1, <1>2, <1>3, <1>4, <1>5, <1>6, PathIs
<1>8. Append(s, b) = c
  <2>1. /\ Append(s, b) \in Seq(Descs) /\ Len(Append(s, b)) = Len(c)
        /\ \A i \in 1 .. Len(c) : Append(s, b)[i] = c[i]
    BY <1>0, <1>1, <1>2, AppendProperties DEF b
  <2>2. c \in Seq(Descs)
    BY DEF IsPacket
  <2> QED
    BY <2>1, <2>2, SameSeq
<1> QED
  BY <1>7, <1>8 DEF b

\* The walk from packet to packet visits the ring.
LEMMA PathOfRing ==
  ASSUME NEW m \in [Descs -> Descriptor], NEW s, NEW h, NEW t \in Descs, IsRing(m, s, h, t)
  PROVE  Path(After(m), h, t) = s
<1>1. After(m) \in [Descs -> Descs]
  BY DEF After, Descriptor
<1> QED
  BY <1>1, PathIs DEF IsRing

\* Packet() finds the descriptors of a packet.
LEMMA PacketIs ==
  ASSUME TypeOK, NEW c, IsPacket(mem, c)
  PROVE  Packet(c[1]) = c
BY PathOfPacket DEF Packet, NextOf, TypeOK, IsPacket

\* Packets() finds the packets of a queue.
LEMMA PacketsAre ==
  ASSUME TypeOK, NEW ps, NEW g, QueuesOK(ps, g), NEW q \in Queues
  PROVE  Packets(q) = ps[q]
<1>1. IsRing(mem, ps[q], head[q], term[q]) /\ mem \in [Descs -> Descriptor] /\ term[q] \in Descs
  BY DEF QueuesOK, QueueOK, TypeOK
<1>2. Path(After(mem), head[q], term[q]) = ps[q]
  BY <1>1, PathOfRing
<1> QED
  BY <1>2 DEF Packets, AfterOf, After

\* What the next state has to look like.
NextShape(ps, g, h, n) ==
  /\ Ghost(ps, g, h, n)
  /\ \A q \in Queues : QueueOK(mem', q, ps[q], head'[q], term'[q], g)
  /\ InHand' => HandOK(mem', h, desc', td', dst', term'[dst'], g)
  /\ fwAvail' => g.tag[fwDesc'] = "home" /\ g.fst[fwDesc'] = fwDesc'
  /\ DownOK(mem', ps["down"], g, n["down"], cur'["down"], term'["down"])
  /\ TxOK(mem', ps["tx"], n["tx"], cur'["tx"], term'["tx"], halt')

\* It is the invariant's condition on the next state, so once it is known to hold,
\* the state after the step is in shape.
LEMMA NextIsShape ==
  ASSUME NEW ps, NEW g, NEW h, NEW n, NextShape(ps, g, h, n)
  PROVE  Shape(ps, g, h, n)'
<1>1. Ghost(ps, g, h, n)
  BY DEF NextShape
<1>2. QueuesOK(ps, g)'
  BY DEF QueuesOK, NextShape
<1>3. HeldOK(h, g)' /\ HomeOK(g)'
  BY DEF HeldOK, HomeOK, NextShape
<1>4. /\ DownOK(mem, ps["down"], g, n["down"], cur["down"], term["down"])'
      /\ TxOK(mem, ps["tx"], n["tx"], cur["tx"], term["tx"], halt)'
  BY DEF NextShape
<1> QED
  BY <1>1, <1>2, <1>3, <1>4 DEF Shape

\* So some partition into packets fits the next state.
LEMMA Reshape ==
  ASSUME NEW ps, NEW g, NEW h, NEW n, NextShape(ps, g, h, n)
  PROVE  Shaped'
BY NextIsShape DEF Shaped

\* Where the engines can stand, and where the packets are.
LEMMA PlacesOf ==
  ASSUME TypeOK, NEW ps, NEW g, NEW h, NEW n, Shape(ps, g, h, n)
  PROVE  /\ mem \in [Descs -> Descriptor]
         /\ \A q \in Queues :
              /\ ps[q] \in Seq(Descs) /\ Len(ps[q]) \in Nat /\ term[q] \in Descs
              /\ g.tag[term[q]] = q /\ g.fst[term[q]] = term[q]
              /\ \A i \in 1 .. Len(ps[q]) :
                   /\ ps[q][i] \in Descs /\ g.tag[ps[q][i]] = q /\ g.fst[ps[q][i]] = ps[q][i]
                   /\ ps[q][i] # term[q]
         /\ \A e \in Engines : g.tag[cur[e]] = e /\ g.fst[cur[e]] = cur[e]
<1>1. /\ Ghost(ps, g, h, n) /\ \A q \in Queues : QueueOK(mem, q, ps[q], head[q], term[q], g)
      /\ DownOK(mem, ps["down"], g, n["down"], cur["down"], term["down"])
      /\ TxOK(mem, ps["tx"], n["tx"], cur["tx"], term["tx"], halt)
  BY DEF Shape, QueuesOK
<1>2. mem \in [Descs -> Descriptor] /\ \A q \in Queues : term[q] \in Descs
  BY DEF TypeOK
<1>3. ASSUME NEW q \in Queues
      PROVE  /\ ps[q] \in Seq(Descs) /\ Len(ps[q]) \in Nat /\ term[q] \in Descs
             /\ g.tag[term[q]] = q /\ g.fst[term[q]] = term[q]
             /\ \A i \in 1 .. Len(ps[q]) :
                  /\ ps[q][i] \in Descs /\ g.tag[ps[q][i]] = q /\ g.fst[ps[q][i]] = ps[q][i]
                  /\ ps[q][i] # term[q]
  <2>1. QueueOK(mem, q, ps[q], head[q], term[q], g)
    BY <1>1
  <2>2. ps[q] \in Seq(Descs) /\ Without(ps[q], term[q])
    BY <2>1 DEF QueueOK, IsRing
  <2> QED
    BY <1>2, <2>1, <2>2, SeqIsFunction DEF QueueOK, Member, Without
<1>4. "down" \in Queues /\ "tx" \in Queues
  BY DEF Queues
<1>5. g.tag[cur["down"]] = "down" /\ g.fst[cur["down"]] = cur["down"]
  BY <1>1, <1>3, <1>4 DEF DownOK, At
<1>6. g.tag[cur["tx"]] = "tx" /\ g.fst[cur["tx"]] = cur["tx"]
  <2>1. Len(ps["tx"]) \in Nat /\ n["tx"] \in 0 .. Len(ps["tx"])
    BY <1>1, <1>3, <1>4 DEF TxOK
  <2>2. CASE halt
    BY <1>1, <1>3, <1>4, <2>1, <2>2 DEF TxOK
  <2>3. CASE ~halt
    BY <1>1, <1>3, <1>4, <2>1, <2>3 DEF TxOK, At
  <2> QED
    BY <2>2, <2>3
<1> QED
  BY <1>2, <1>3, <1>5, <1>6 DEF Engines

\* The first k packets are those an engine is through with.
LEMMA ProcessedIs ==
  ASSUME TypeOK, NEW ps, NEW g, QueuesOK(ps, g), NEW e \in Engines, NEW k \in 0 .. Len(ps[e]),
         \A i \in 1 .. Len(ps[e]) : mem[ps[e][i]].own = "HW" <=> i > k
  PROVE  /\ Processed(e) = k
         /\ Done(e) \in Seq(Descs) /\ Len(Done(e)) = k /\ \A i \in 1 .. k : Done(e)[i] = ps[e][i]
         /\ Open(e) \in Seq(Descs) /\ Len(Open(e)) = Len(ps[e]) - k
         /\ \A i \in 1 .. Len(ps[e]) - k : Open(e)[i] = ps[e][k + i]
<1> DEFINE s == ps[e]
           P(j) == /\ \A i \in 1 .. j : mem[s[i]].own # "HW"
                   /\ j < Len(s) => mem[s[j + 1]].own = "HW"
<1>1. e \in Queues
  BY DEF Engines, Queues
<1>2. Packets(e) = s /\ s \in Seq(Descs)
  BY <1>1, PacketsAre DEF QueuesOK, QueueOK, IsRing
<1>3. Processed(e) = CHOOSE j \in 0 .. Len(s) : P(j)
  BY <1>2 DEF Processed
<1> HIDE DEF s
<1>4. Len(s) \in Nat /\ k \in 0 .. Len(s) /\ \A i \in 1 .. Len(s) : s[i] \in Descs
  BY <1>2, SeqIsFunction DEF s
<1>5. \A i \in 1 .. Len(s) : mem[s[i]].own = "HW" <=> i > k
  BY DEF s
<1>6. P(k)
  BY <1>4, <1>5
<1>7. ASSUME NEW j \in 0 .. Len(s), P(j) PROVE j = k
  <2>1. ~(j < k)
    BY <1>4, <1>5, <1>7
  <2>2. ~(k < j)
    <3> SUFFICES ASSUME k < j PROVE FALSE
      OBVIOUS
    <3>1. k + 1 \in 1 .. j /\ k + 1 \in 1 .. Len(s) /\ k + 1 > k
      BY <1>4
    <3> QED
      BY <1>5, <1>7, <3>1
  <2> QED
    BY <1>4, <2>1, <2>2
<1>8. Processed(e) = k
  <2> HIDE DEF P
  <2> QED
    BY <1>3, <1>4, <1>6, <1>7
<1>9. Done(e) = SubSeq(s, 1, k) /\ Open(e) = SubSeq(s, k + 1, Len(s))
  BY <1>2, <1>8 DEF Done, Open
<1>10. k \in Int /\ Len(s) \in Int /\ (\A i \in 1 .. k : s[i] \in Descs)
       /\ \A i \in k + 1 .. Len(s) : s[i] \in Descs
  BY <1>4
<1>11. /\ Done(e) \in Seq(Descs) /\ Len(Done(e)) = k /\ \A i \in 1 .. k : Done(e)[i] = s[i]
  <2>1. /\ SubSeq(s, 1, k) \in Seq(Descs)
        /\ Len(SubSeq(s, 1, k)) = IF 1 <= k THEN k - 1 + 1 ELSE 0
        /\ \A i \in 1 .. k - 1 + 1 : SubSeq(s, 1, k)[i] = s[1 + i - 1]
    BY <1>10, SubSeqProperties
  <2>2. \A i \in 1 .. k : i \in 1 .. k - 1 + 1 /\ 1 + i - 1 = i
    BY <1>4
  <2> QED
    BY <1>4, <1>9, <2>1, <2>2
<1>12. /\ Open(e) \in Seq(Descs) /\ Len(Open(e)) = Len(s) - k
       /\ \A i \in 1 .. Len(s) - k : Open(e)[i] = s[k + i]
  <2>1. /\ SubSeq(s, k + 1, Len(s)) \in Seq(Descs)
        /\ Len(SubSeq(s, k + 1, Len(s))) = IF k + 1 <= Len(s) THEN Len(s) - (k + 1) + 1 ELSE 0
        /\ \A i \in 1 .. Len(s) - (k + 1) + 1 : SubSeq(s, k + 1, Len(s))[i] = s[(k + 1) + i - 1]
    BY <1>10, SubSeqProperties
  <2>2. \A i \in 1 .. Len(s) - k : i \in 1 .. Len(s) - (k + 1) + 1 /\ (k + 1) + i - 1 = k + i
    BY <1>4
  <2> QED
    BY <1>4, <1>9, <2>1, <2>2
<1> QED
  BY <1>8, <1>11, <1>12 DEF s

\* The engines' progress in terms of the packets.
Progress(e, ps, n) ==
  /\ n[e] \in 0 .. Len(ps[e]) /\ Len(ps[e]) \in Nat
  /\ \A i \in 1 .. Len(ps[e]) :
       mem[ps[e][i]].own = IF i <= n[e] THEN IF e = "down" THEN "SE" ELSE "SW" ELSE "HW"
  /\ Done(e) \in Seq(Descs) /\ Len(Done(e)) = n[e]
  /\ \A i \in 1 .. n[e] : Done(e)[i] = ps[e][i]
  /\ Open(e) \in Seq(Descs) /\ Len(Open(e)) = Len(ps[e]) - n[e]
  /\ \A i \in 1 .. Len(ps[e]) - n[e] : Open(e)[i] = ps[e][n[e] + i]

LEMMA ProgressIs ==
  ASSUME TypeOK, NEW ps, NEW g, NEW h, NEW n, Shape(ps, g, h, n), NEW e \in Engines
  PROVE  Progress(e, ps, n)
<1>1. QueuesOK(ps, g) /\ Len(ps[e]) \in Nat
  BY PlacesOf DEF Shape, Engines, Queues
<1>2. /\ n[e] \in 0 .. Len(ps[e])
      /\ \A i \in 1 .. Len(ps[e]) :
           mem[ps[e][i]].own = IF i <= n[e] THEN IF e = "down" THEN "SE" ELSE "SW" ELSE "HW"
  <2>1. CASE e = "down"
    BY <2>1 DEF Shape, DownOK
  <2>2. CASE e = "tx"
    BY <2>2 DEF Shape, TxOK
  <2> QED
    BY <2>1, <2>2 DEF Engines
<1>3. \A i \in 1 .. Len(ps[e]) : mem[ps[e][i]].own = "HW" <=> i > n[e]
  BY <1>1, <1>2
<1> QED
  <2> DEFINE k == n[e]
             s == ps[e]
  <2>1. /\ k \in 0 .. Len(s)
        /\ Done(e) \in Seq(Descs) /\ Len(Done(e)) = k /\ \A i \in 1 .. k : Done(e)[i] = s[i]
        /\ Open(e) \in Seq(Descs) /\ Len(Open(e)) = Len(s) - k
        /\ \A i \in 1 .. Len(s) - k : Open(e)[i] = s[k + i]
    <3>1. k \in 0 .. Len(s) /\ \A i \in 1 .. Len(ps[e]) : mem[ps[e][i]].own = "HW" <=> i > k
      BY <1>2, <1>3
    <3> HIDE DEF k
    <3> QED
      BY <1>1, <3>1, ProcessedIs
  <2> QED
    BY <1>1, <1>2, <2>1 DEF Progress

-----------------------------------------------------------------------------
(* How the parts of the invariant are kept *)

Same(m1, m2, d) ==
  m2[d].next = m1[d].next /\ m2[d].last = m1[d].last /\ m2[d].data = m1[d].data

\* What a step leaves as it is of a descriptor in a queue.
Kept(m1, m2, g1, g2, d) ==
  /\ Same(m1, m2, d)
  /\ g2.fst[d] = g1.fst[d] /\ g2.tag[d] = g1.tag[d] /\ g2.pk[d] = g1.pk[d]

\* A packet none of whose descriptors a step touches stays what it is and leads where
\* it did.
LEMMA MemberFrame ==
  ASSUME NEW m1, NEW m2, NEW q, NEW x \in Descs, NEW g1,
         NEW g2, Member(m1, q, x, g1),
         \A d \in Descs : g1.fst[d] = x => Same(m1, m2, d) /\ g2.fst[d] = x,
         g2.tag[x] = q, g2.pk[x] = g1.pk[x]
  PROVE  Member(m2, q, x, g2) /\ After(m2)[x] = After(m1)[x]
<1> DEFINE c == g1.pk[x]
<1>1. /\ c \in Seq(Descs) /\ Len(c) \in Nat /\ Len(c) >= 1
      /\ \A j \in 1 .. Len(c) : c[j] \in Descs /\ g1.fst[c[j]] = x
  BY SeqIsFunction DEF Member, IsPacket
<1>2. \A j \in 1 .. Len(c) : Same(m1, m2, c[j]) /\ g2.fst[c[j]] = x
  BY <1>1
<1>3. c[1] = x /\ g1.fst[x] = x
  BY DEF Member
<1>4. Same(m1, m2, x) /\ g2.fst[x] = x
  BY <1>3
<1>5. IsPacket(m1, c) /\ HasData(m1, c)
  BY DEF Member
<1> HIDE DEF c
<1>6. IsPacket(m2, c)
  BY <1>1, <1>2, <1>3, <1>4, <1>5 DEF IsPacket, Same
<1>7. HasData(m2, c)
  BY <1>1, <1>2, <1>3, <1>4, <1>5 DEF HasData, Same
<1>8. Member(m2, q, x, g2)
  BY <1>2, <1>3, <1>4, <1>6, <1>7 DEF Member, Same, c
<1>9. After(m2)[x] = After(m1)[x]
  <2>1. m1[x].last = c[Len(c)] /\ Same(m1, m2, c[Len(c)])
    BY <1>1, <1>2, <1>3, <1>5 DEF IsPacket
  <2> QED
    BY <2>1, <1>4 DEF After, Same
<1> QED
  BY <1>8, <1>9

\* A queue nothing of which changes is kept.
LEMMA QueueFrame ==
  ASSUME NEW m1, NEW m2, NEW q, NEW s, NEW hd, NEW tm \in Descs, NEW g1,
         NEW g2, QueueOK(m1, q, s, hd, tm, g1),
         \A d \in Descs : g1.tag[g1.fst[d]] = q => Kept(m1, m2, g1, g2, d)
  PROVE  QueueOK(m2, q, s, hd, tm, g2)
<1>1. s \in Seq(Descs) /\ Len(s) \in Nat /\ \A i \in 1 .. Len(s) : s[i] \in Descs
  BY SeqIsFunction DEF QueueOK, IsRing
<1>2. ASSUME NEW i \in 1 .. Len(s)
      PROVE  Member(m2, q, s[i], g2) /\ After(m2)[s[i]] = After(m1)[s[i]]
  <2>1. Member(m1, q, s[i], g1) /\ s[i] \in Descs
    BY <1>1 DEF QueueOK
  <2>2. g1.tag[s[i]] = q /\ g1.fst[s[i]] = s[i]
    BY <2>1 DEF Member
  <2>3. \A d \in Descs : g1.fst[d] = s[i] => Same(m1, m2, d) /\ g2.fst[d] = s[i]
    BY <2>2 DEF Kept
  <2>4. g2.tag[s[i]] = q /\ g2.pk[s[i]] = g1.pk[s[i]]
    BY <2>1, <2>2 DEF Kept
  <2> DEFINE y == s[i]
  <2>5. /\ y \in Descs /\ Member(m1, q, y, g1) /\ g2.tag[y] = q /\ g2.pk[y] = g1.pk[y]
        /\ \A d \in Descs : g1.fst[d] = y => Same(m1, m2, d) /\ g2.fst[d] = y
    BY <2>1, <2>3, <2>4
  <2> HIDE DEF y
  <2>6. Member(m2, q, y, g2) /\ After(m2)[y] = After(m1)[y]
    BY <2>5, MemberFrame
  <2> QED
    BY <2>6 DEF y
<1>3. IsRing(m2, s, hd, tm)
  BY <1>1, <1>2 DEF QueueOK, IsRing, Leads
<1>4. g2.tag[tm] = q /\ g2.fst[tm] = tm
  BY DEF QueueOK, Kept
<1> QED
  BY <1>2, <1>3, <1>4 DEF QueueOK

\* The head of a queue that is not empty is its first packet.
LEMMA QueueHead ==
  ASSUME NEW m, NEW q, NEW s, NEW hd, NEW tm, NEW g, QueueOK(m, q, s, hd, tm, g), hd # tm
  PROVE  Len(s) >= 1 /\ hd = s[1] /\ Member(m, q, hd, g)
<1>1. s \in Seq(Descs) /\ Len(s) \in Nat /\ hd = Start(s, tm)
  BY SeqIsFunction DEF QueueOK, IsRing
<1>2. Len(s) >= 1 /\ hd = s[1] /\ 1 \in 1 .. Len(s)
  BY <1>1 DEF Start
<1> QED
  BY <1>2 DEF QueueOK

\* What is left of a queue without its first packet is a queue.
LEMMA QueueTail ==
  ASSUME NEW m1, NEW m2, NEW q, NEW s, NEW hd, NEW tm \in Descs, NEW g1,
         NEW g2, QueueOK(m1, q, s, hd, tm, g1), hd # tm,
         \A d \in Descs : g1.tag[g1.fst[d]] = q /\ g1.fst[d] # hd => Kept(m1, m2, g1, g2, d)
  PROVE  /\ Len(s) >= 1 /\ hd = s[1]
         /\ QueueOK(m2, q, Tail(s), After(m1)[hd], tm, g2)
<1>1. /\ s \in Seq(Descs) /\ Len(s) \in Nat /\ (\A i \in 1 .. Len(s) : s[i] \in Descs)
      /\ Inj(s) /\ Without(s, tm) /\ Leads(After(m1), s, tm) /\ hd = Start(s, tm)
  BY SeqIsFunction DEF QueueOK, IsRing
<1>2. Len(s) >= 1 /\ hd = s[1]
  BY <1>1 DEF Start
<1> DEFINE r == Tail(s)
<1>3. r \in Seq(Descs) /\ Len(r) = Len(s) - 1 /\ \A i \in 1 .. Len(r) : r[i] = s[i + 1]
  BY <1>1, <1>2, HeadTailProperties, EmptySeq
<1> HIDE DEF r
<1>4. ASSUME NEW i \in 2 .. Len(s)
      PROVE  Member(m2, q, s[i], g2) /\ After(m2)[s[i]] = After(m1)[s[i]]
  <2>0. s[i] \in Descs
    BY <1>1
  <2>1. Member(m1, q, s[i], g1) /\ s[i] \in Descs
    BY <1>1 DEF QueueOK
  <2>2. g1.tag[s[i]] = q /\ g1.fst[s[i]] = s[i] /\ s[i] # hd
    BY <1>1, <1>2, <2>1 DEF Member, Inj
  <2>3. \A d \in Descs : g1.fst[d] = s[i] => Same(m1, m2, d) /\ g2.fst[d] = s[i]
    BY <2>2 DEF Kept
  <2>4. g2.tag[s[i]] = q /\ g2.pk[s[i]] = g1.pk[s[i]]
    BY <2>1, <2>2 DEF Kept
  <2> DEFINE y == s[i]
  <2>5. /\ y \in Descs /\ Member(m1, q, y, g1) /\ g2.tag[y] = q /\ g2.pk[y] = g1.pk[y]
        /\ \A d \in Descs : g1.fst[d] = y => Same(m1, m2, d) /\ g2.fst[d] = y
    BY <2>0, <2>1, <2>3, <2>4
  <2> HIDE DEF y
  <2>6. Member(m2, q, y, g2) /\ After(m2)[y] = After(m1)[y]
    BY <2>5, MemberFrame
  <2> QED
    BY <2>6 DEF y
<1>5. Leads(After(m2), r, tm)
  <2> SUFFICES ASSUME NEW i \in 1 .. Len(r)
               PROVE  After(m2)[r[i]] = IF i < Len(r) THEN r[i + 1] ELSE tm
    BY DEF Leads
  <2>1. After(m2)[s[i + 1]] = After(m1)[s[i + 1]]
    BY <1>1, <1>3, <1>4
  <2>2. After(m1)[s[i + 1]] = IF i + 1 < Len(s) THEN s[i + 2] ELSE tm
    BY <1>1, <1>3 DEF Leads
  <2> QED
    BY <1>1, <1>3, <2>1, <2>2
<1>6. After(m1)[hd] = Start(r, tm)
  BY <1>1, <1>2, <1>3 DEF Leads, Start
<1>7. Inj(r) /\ Without(r, tm)
  BY <1>1, <1>3 DEF Inj, Without
<1>8. g2.tag[tm] = q /\ g2.fst[tm] = tm
  <2>1. g1.tag[tm] = q /\ g1.fst[tm] = tm
    BY DEF QueueOK
  <2> QED
    BY <2>1 DEF Kept
<1>9. \A i \in 1 .. Len(r) : Member(m2, q, r[i], g2)
  BY <1>1, <1>3, <1>4
<1>10. QueueOK(m2, q, r, After(m1)[hd], tm, g2)
  BY <1>3, <1>5, <1>6, <1>7, <1>8, <1>9 DEF QueueOK, IsRing
<1> QED
  BY <1>2, <1>10 DEF r

\* A queue with the packets u behind its own, the first of them where it ended.
LEMMA QueueConcat ==
  ASSUME NEW m1, NEW m2, NEW q, NEW s, NEW hd, NEW tm \in Descs, NEW g1, NEW g2,
         NEW u \in Seq(Descs), NEW d \in Descs, QueueOK(m1, q, s, hd, tm, g1),
         \A x \in Descs : g1.tag[g1.fst[x]] = q /\ x # tm => Kept(m1, m2, g1, g2, x),
         Len(u) >= 1, u[1] = tm, Inj(u), Without(u, d), Leads(After(m2), u, d),
         \A i \in 2 .. Len(u) : g1.tag[g1.fst[u[i]]] # q,
         \A i \in 1 .. Len(u) : Member(m2, q, u[i], g2),
         g1.tag[g1.fst[d]] # q, g2.tag[d] = q, g2.fst[d] = d
  PROVE  QueueOK(m2, q, s \o u, hd, d, g2)
<1>1. /\ s \in Seq(Descs) /\ Len(s) \in Nat /\ (\A i \in 1 .. Len(s) : s[i] \in Descs)
      /\ Inj(s) /\ Without(s, tm) /\ Leads(After(m1), s, tm) /\ hd = Start(s, tm)
  BY SeqIsFunction DEF QueueOK, IsRing
<1>2. Len(u) \in Nat /\ \A i \in 1 .. Len(u) : u[i] \in Descs
  BY SeqIsFunction
<1>3. \A i \in 1 .. Len(s) : g1.tag[s[i]] = q /\ g1.fst[s[i]] = s[i]
  BY DEF QueueOK, Member
<1>4. g1.tag[tm] = q /\ g1.fst[tm] = tm
  BY DEF QueueOK
<1>5. ASSUME NEW i \in 1 .. Len(s)
      PROVE  Member(m2, q, s[i], g2) /\ After(m2)[s[i]] = After(m1)[s[i]]
  <2>0. s[i] \in Descs
    BY <1>1
  <2>1. Member(m1, q, s[i], g1)
    BY DEF QueueOK
  <2>2. s[i] # tm
    BY <1>1 DEF Without
  <2>3. \A x \in Descs : g1.fst[x] = s[i] => Same(m1, m2, x) /\ g2.fst[x] = s[i]
    BY <1>3, <1>4, <2>0, <2>2 DEF Kept
  <2>4. g2.tag[s[i]] = q /\ g2.pk[s[i]] = g1.pk[s[i]]
    BY <1>3, <2>0, <2>2 DEF Kept
  <2> DEFINE y == s[i]
  <2>5. /\ y \in Descs /\ Member(m1, q, y, g1) /\ g2.tag[y] = q /\ g2.pk[y] = g1.pk[y]
        /\ \A x \in Descs : g1.fst[x] = y => Same(m1, m2, x) /\ g2.fst[x] = y
    BY <2>0, <2>1, <2>3, <2>4
  <2> HIDE DEF y
  <2>6. Member(m2, q, y, g2) /\ After(m2)[y] = After(m1)[y]
    BY <2>5, MemberFrame
  <2> QED
    BY <2>6 DEF y
<1> DEFINE r == s \o u
<1>6. /\ r \in Seq(Descs) /\ Len(r) = Len(s) + Len(u)
      /\ \A i \in 1 .. Len(r) : r[i] = IF i <= Len(s) THEN s[i] ELSE u[i - Len(s)]
  BY <1>1, ConcatProperties
<1> HIDE DEF r
<1>7. Inj(r)
  <2>1. ASSUME NEW i \in 1 .. Len(s), NEW j \in 1 .. Len(u) PROVE s[i] # u[j]
    <3>1. CASE j = 1
      BY <1>1, <3>1 DEF Without
    <3>2. CASE j # 1
      BY <1>2, <1>3, <3>2
    <3> QED
      BY <3>1, <3>2
  <2> SUFFICES ASSUME NEW i \in 1 .. Len(r), NEW j \in 1 .. Len(r), r[i] = r[j] PROVE i = j
    BY DEF Inj
  <2>2. CASE i <= Len(s) /\ j <= Len(s)
    BY <1>1, <1>6, <2>2 DEF Inj
  <2>3. CASE i > Len(s) /\ j > Len(s)
    <3>1. i - Len(s) \in 1 .. Len(u) /\ j - Len(s) \in 1 .. Len(u)
      BY <1>1, <1>2, <1>6, <2>3
    <3>2. u[i - Len(s)] = u[j - Len(s)]
      BY <1>1, <1>2, <1>6, <2>3
    <3>3. i - Len(s) = j - Len(s)
      BY <3>1, <3>2 DEF Inj
    <3> QED
      BY <1>1, <3>3
  <2>4. CASE i <= Len(s) /\ j > Len(s)
    BY <1>1, <1>2, <1>6, <2>1, <2>4
  <2>5. CASE i > Len(s) /\ j <= Len(s)
    BY <1>1, <1>2, <1>6, <2>1, <2>5
  <2> QED
    BY <1>1, <1>2, <1>6, <2>2, <2>3, <2>4, <2>5
<1>8. Without(r, d)
  <2>1. \A i \in 1 .. Len(s) : s[i] # d
    BY <1>3
  <2> SUFFICES ASSUME NEW i \in 1 .. Len(r) PROVE r[i] # d
    BY DEF Without
  <2>2. CASE i <= Len(s)
    BY <1>1, <1>6, <2>1, <2>2
  <2>3. CASE i > Len(s)
    <3>1. i - Len(s) \in 1 .. Len(u)
      BY <1>1, <1>2, <1>6, <2>3
    <3> QED
      BY <1>1, <1>6, <2>3, <3>1 DEF Without
  <2> QED
    BY <1>1, <2>2, <2>3
<1>9. Leads(After(m2), r, d)
  <2> SUFFICES ASSUME NEW i \in 1 .. Len(r)
               PROVE  After(m2)[r[i]] = IF i < Len(r) THEN r[i + 1] ELSE d
    BY DEF Leads
  <2>1. CASE i < Len(s)
    <3>1. After(m2)[s[i]] = s[i + 1]
      BY <1>1, <1>5, <2>1 DEF Leads
    <3> QED
      BY <1>1, <1>2, <1>6, <2>1, <3>1
  <2>2. CASE i = Len(s)
    <3>1. After(m2)[s[i]] = u[1]
      BY <1>1, <1>5, <2>2 DEF Leads
    <3> QED
      BY <1>1, <1>2, <1>6, <2>2, <3>1
  <2>3. CASE i > Len(s)
    <3> DEFINE j == i - Len(s)
    <3>1. j \in 1 .. Len(u)
      BY <1>1, <1>2, <1>6, <2>3
    <3>2. After(m2)[u[j]] = IF j < Len(u) THEN u[j + 1] ELSE d
      BY <3>1 DEF Leads
    <3>3. r[i] = u[j]
      BY <1>1, <1>6, <2>3
    <3>4. i < Len(r) => j < Len(u) /\ r[i + 1] = u[j + 1]
      BY <1>1, <1>2, <1>6, <2>3
    <3>5. ~(i < Len(r)) => ~(j < Len(u))
      BY <1>1, <1>2, <1>6, <2>3
    <3> HIDE DEF j
    <3> QED
      BY <3>2, <3>3, <3>4, <3>5
  <2> QED
    BY <1>1, <2>1, <2>2, <2>3
<1>10. hd = Start(r, d)
  BY <1>1, <1>2, <1>6 DEF Start
<1>11. ASSUME NEW i \in 1 .. Len(r) PROVE Member(m2, q, r[i], g2)
  <2>1. CASE i <= Len(s)
    BY <1>1, <1>5, <1>6, <2>1
  <2>2. CASE i > Len(s)
    <3>1. i - Len(s) \in 1 .. Len(u) /\ r[i] = u[i - Len(s)]
      BY <1>1, <1>2, <1>6, <2>2
    <3> QED
      BY <3>1
  <2> QED
    BY <1>1, <2>1, <2>2
<1>12. QueueOK(m2, q, r, hd, d, g2)
  BY <1>6, <1>7, <1>8, <1>9, <1>10, <1>11 DEF QueueOK, IsRing
<1> QED
  BY <1>12 DEF r

\* The packet in hand is kept by a step that leaves its descriptors alone.
LEMMA HandFrame ==
  ASSUME NEW m1, NEW m2, NEW h, NEW x \in Descs, NEW t, NEW q, NEW tt, NEW g1, NEW g2,
         HandOK(m1, h, x, t, q, tt, g1),
         \A d \in Descs : g1.tag[g1.fst[d]] = "held" =>
           m2[d] = m1[d] /\ g2.fst[d] = g1.fst[d] /\ g2.tag[d] = g1.tag[d]
  PROVE  HandOK(m2, h, x, t, q, tt, g2)
<1>1. h \in Seq(Descs) /\ Len(h) \in Nat /\ \A j \in 1 .. Len(h) : h[j] \in Descs
  BY SeqIsFunction DEF HandOK
<1>2. g1.tag[x] = "held" /\ g1.fst[x] = x /\ \A j \in 1 .. Len(h) : g1.fst[h[j]] = x
  BY DEF HandOK
<1>3. \A j \in 1 .. Len(h) : m2[h[j]] = m1[h[j]] /\ g2.fst[h[j]] = x
  BY <1>1, <1>2
<1>4. m2[x] = m1[x] /\ g2.fst[x] = x /\ g2.tag[x] = "held"
  BY <1>2
<1> QED
  BY <1>3, <1>4 DEF HandOK

\* wlan_txunstuck() finds the first packet the MAC has not processed.
LEMMA FirstPendingIs ==
  ASSUME TypeOK, NEW s, NEW d, NEW k, IsRing(mem, s, d, term["tx"]), k \in 0 .. Len(s),
         \A i \in 1 .. Len(s) : mem[s[i]].own = IF i <= k THEN "SW" ELSE "HW"
  PROVE  FirstPending(d) = At(s, k + 1, term["tx"])
<1>1. s \in Seq(Descs) /\ Len(s) \in Nat /\ s = [i \in 1 .. Len(s) |-> s[i]]
  BY SeqIsFunction DEF IsRing
<1>2. Path(After(mem), d, term["tx"]) = s
  BY PathOfRing DEF TypeOK, Queues
<1>3. AfterOf = After(mem)
  BY DEF AfterOf, After
<1> DEFINE Open2(z) == {i \in DOMAIN z : mem[z[i]].own # "SW"}
           Find(z) == IF Open2(z) = {} THEN term["tx"]
                      ELSE z[CHOOSE i \in Open2(z) : \A j \in Open2(z) : i <= j]
           open == Open2(s)
           first(i) == \A j \in open : i <= j
<1>4. FirstPending(d) = IF open = {} THEN term["tx"] ELSE s[CHOOSE i \in open : first(i)]
  <2>1. Path(AfterOf, d, term["tx"]) = s
    BY <1>2, <1>3
  <2>2. FirstPending(d) = Find(Path(AfterOf, d, term["tx"]))
    BY DEF FirstPending
  <2>3. FirstPending(d) = Find(s)
    <3> HIDE DEF Find
    <3> QED
      BY <2>1, <2>2
  <2> QED
    BY <2>3
<1>5. open = k + 1 .. Len(s)
  <2>1. DOMAIN s = 1 .. Len(s)
    BY <1>1
  <2> QED
    BY <1>1, <2>1
<1>6. CASE k = Len(s)
  <2>1. open = {}
    BY <1>1, <1>5, <1>6
  <2> QED
    BY <1>1, <1>4, <1>6, <2>1 DEF At
<1>7. CASE k < Len(s)
  <2>1. k + 1 \in open /\ first(k + 1)
    BY <1>1, <1>5, <1>7
  <2> DEFINE i == CHOOSE i \in open : first(i)
  <2>2. i \in open /\ first(i)
    <3> HIDE DEF open, first
    <3> QED
      BY <2>1
  <2> HIDE DEF i
  <2>3. i = k + 1
    BY <1>1, <1>5, <2>1, <2>2
  <2> QED
    BY <1>1, <1>4, <1>7, <2>1, <2>3 DEF At, i
<1> QED
  BY <1>1, <1>6, <1>7

\* dma_unlink_head() and the start of dma_put() or dma_reclaim(): the packet p at
\* the head of q0 is in the firmware's hands, on its way to q1 ...
Takes(ps, g, h, n, q0, q1, p, keep) ==
  /\ TypeOK /\ TermOK /\ ~InHand /\ Shape(ps, g, h, n)
  /\ q0 \in Queues /\ q1 \in Queues /\ (keep <=> q1 # "down")
  /\ p = head[q0] /\ ~Empty(q0) /\ (mem[p].data = FwData => q1 # "down")
  /\ Unlink(q0) /\ Begin(p, q1, keep) /\ term' = term

InHands(g, p) == [g EXCEPT !.tag = [@ EXCEPT ![p] = "held"]]

Began(ps, g, n, q0, p) ==
  /\ p \in Descs /\ Len(ps[q0]) >= 1 /\ p = ps[q0][1]
  /\ Ghost([ps EXCEPT ![q0] = Tail(@)], InHands(g, p), Tail(g.pk[p]), n)
  /\ \A q \in Queues :
       QueueOK(mem', q, [ps EXCEPT ![q0] = Tail(@)][q], head'[q], term'[q], InHands(g, p))
  /\ HandOK(mem', Tail(g.pk[p]), desc', td', dst', term'[dst'], InHands(g, p))
  /\ mem' \in [Descs -> Descriptor] /\ td' \in Descriptor
  /\ \A d \in Descs : g.fst[d] # p => mem'[d] = mem[d]
  /\ (\A d \in Descs : d # p => mem'[d].data = mem[d].data) /\ td'.data = mem[p].data
  /\ (fwAvail => fwDesc # p)

\* Taking a packet off its queue keeps the other packets and puts this one in hand.
LEMMA BeginKeeps ==
  ASSUME NEW ps, NEW g, NEW h, NEW n, NEW q0, NEW q1, NEW p, NEW keep,
         Takes(ps, g, h, n, q0, q1, p, keep)
  PROVE  Began(ps, g, n, q0, p)
<1> DEFINE c   == g.pk[p]
           l   == mem[p].last
           r   == Tail(c)
           g2  == [g EXCEPT !.tag = [@ EXCEPT ![p] = "held"]]
           ps2 == [ps EXCEPT ![q0] = Tail(@)]
<1>0. /\ TypeOK /\ TermOK /\ ~InHand /\ Shape(ps, g, h, n)
      /\ q0 \in Queues /\ q1 \in Queues /\ (keep <=> q1 # "down")
      /\ p = head[q0] /\ ~Empty(q0) /\ (mem[p].data = FwData => q1 # "down")
      /\ Unlink(q0) /\ Begin(p, q1, keep) /\ term' = term
  BY DEF Takes
<1> USE <1>0
<1>1. /\ Ghost(ps, g, h, n) /\ HomeOK(g)
      /\ \A q \in Queues : QueueOK(mem, q, ps[q], head[q], term[q], g)
  BY DEF Shape, QueuesOK
<1>2. /\ mem \in [Descs -> Descriptor] /\ p \in Descs /\ term[q0] \in Descs /\ p # term[q0]
      /\ term[q1] \in Descs
  BY DEF TypeOK, Empty
<1>3. Len(ps[q0]) >= 1 /\ p = ps[q0][1]
  <2>1. QueueOK(mem, q0, ps[q0], p, term[q0], g)
    BY <1>1
  <2> QED
    BY <1>2, <2>1, QueueHead
<1>4. Member(mem, q0, p, g)
  <2>1. 1 \in 1 .. Len(ps[q0])
    BY <1>1, <1>3, SeqIsFunction DEF Ghost
  <2> QED
    BY <1>1, <1>3, <2>1 DEF QueueOK
<1>5. /\ c \in Seq(Descs) /\ Len(c) \in Nat /\ Len(c) >= 1 /\ Inj(c) /\ c[1] = p /\ l = c[Len(c)]
      /\ (\A j \in 1 .. Len(c) : c[j] \in Descs /\ g.fst[c[j]] = p)
      /\ \A j \in 1 .. Len(c) - 1 : mem[c[j]].next = c[j + 1]
  BY <1>4, SeqIsFunction DEF Member, IsPacket
<1>6. g.tag[p] = q0 /\ g.fst[p] = p /\ HasData(mem, c)
  BY <1>4 DEF Member
<1>7. Packet(p) = c
  BY <1>4, <1>5, PacketIs DEF Member
<1> HIDE DEF c
<1>8. DOMAIN c = 1 .. Len(c)
  BY <1>5, SeqIsFunction
<1>9. /\ r \in Seq(Descs) /\ Len(r) = Len(c) - 1
      /\ \A j \in 1 .. Len(r) : r[j] = c[j + 1] /\ j + 1 \in 1 .. Len(c)
  BY <1>5, HeadTailProperties, EmptySeq
<1> HIDE DEF r, l
<1>10. mem' = [d \in Descs |->
         IF d = p THEN Cleared(p)
         ELSE IF \E i \in 1 .. Len(c) : c[i] = d
         THEN [mem[d] EXCEPT !.own = "HW", !.ctrl = IF keep THEN @ ELSE "ok",
                             !.last = IF keep THEN l ELSE d, !.next = IF d = l THEN p ELSE @]
         ELSE mem[d]]
  BY <1>7, <1>8 DEF Begin, Prepared, l
<1>11. \A d \in Descs : g.fst[d] # p => mem'[d] = mem[d]
  BY <1>5, <1>6, <1>10
<1>12. g2.tag = [g.tag EXCEPT ![p] = "held"] /\ g2.fst = g.fst /\ g2.pk = g.pk
  BY <1>1 DEF Ghost
<1> HIDE DEF g2
<1>13. \A d \in Descs : g.fst[d] # p => Kept(mem, mem', g, g2, d)
  BY <1>1, <1>6, <1>11, <1>12 DEF Kept, Same, Ghost
<1>14. AfterOf[p] = After(mem)[p]
  BY DEF AfterOf, After
<1>15. QueueOK(mem', q0, Tail(ps[q0]), head'[q0], term[q0], g2)
  <2>1. QueueOK(mem, q0, ps[q0], p, term[q0], g)
    BY <1>1
  <2>2. head'[q0] = After(mem)[p]
    BY <1>14 DEF Unlink, TypeOK
  <2>3. QueueOK(mem', q0, Tail(ps[q0]), After(mem)[p], term[q0], g2)
    BY <1>2, <1>13, <2>1, QueueTail
  <2> QED
    BY <2>2, <2>3
<1>16. ASSUME NEW q \in Queues, q # q0
       PROVE  QueueOK(mem', q, ps[q], head'[q], term[q], g2)
  <2>1. QueueOK(mem, q, ps[q], head[q], term[q], g) /\ term[q] \in Descs
    BY <1>1 DEF TypeOK
  <2>2. head'[q] = head[q]
    BY <1>16 DEF Unlink, TypeOK
  <2>3. \A d \in Descs : g.tag[g.fst[d]] = q => Kept(mem, mem', g, g2, d)
    BY <1>6, <1>13, <1>16
  <2> QED
    BY <2>1, <2>2, <2>3, QueueFrame
<1>17. \A q \in Queues : QueueOK(mem', q, ps2[q], head'[q], term'[q], g2)
  BY <1>1, <1>15, <1>16 DEF Ghost
<1>18. Ghost(ps2, g2, r, n)
  <2>1. Tail(ps[q0]) \in Seq(Descs)
    BY <1>1, <1>3, HeadTailProperties, EmptySeq, SeqIsFunction DEF Ghost
  <2>2. ps2 \in [Queues -> Seq(Descs)]
    BY <1>1, <2>1 DEF Ghost
  <2>3. g2 \in [pk : [Descs -> Seq(Descs)], tag : [Descs -> Places], fst : [Descs -> Descs]]
    BY <1>1 DEF Ghost, g2, Places
  <2> QED
    BY <1>1, <1>9, <2>2, <2>3 DEF Ghost
<1>19. td' = Tdesc(p, q1, keep) /\ dst' = q1 /\ desc' = p
  BY DEF Begin
<1>20. mem[p] \in Descriptor
  BY <1>2
<1>21. HandOK(mem', r, p, td', q1, term[q1], g2)
  <2>1. Inj(r) /\ Without(r, p)
    <3>1. \A i, j \in 1 .. Len(c) : c[i] = c[j] => i = j
      BY <1>5 DEF Inj
    <3>2. ASSUME NEW i \in 1 .. Len(r), NEW j \in 1 .. Len(r), r[i] = r[j] PROVE i = j
      <4>1. c[i + 1] = c[j + 1] /\ i + 1 \in 1 .. Len(c) /\ j + 1 \in 1 .. Len(c)
        BY <1>9, <3>2
      <4> QED
        BY <1>9, <3>1, <4>1
    <3>3. ASSUME NEW j \in 1 .. Len(r), r[j] = p PROVE FALSE
      <4>1. c[j + 1] = c[1] /\ 1 \in 1 .. Len(c) /\ j + 1 \in 1 .. Len(c)
        BY <1>5, <1>9, <3>3
      <4>2. j + 1 = 1
        BY <3>1, <4>1
      <4> QED
        BY <1>9, <4>2
    <3> QED
      BY <3>2, <3>3 DEF Inj, Without
  <2>2. ASSUME NEW j \in 1 .. Len(r)
        PROVE  /\ mem'[r[j]].next = IF j < Len(r) THEN r[j + 1] ELSE p
               /\ g2.fst[r[j]] = p /\ mem'[r[j]].data \in Buffers
               /\ q1 = "down" => mem'[r[j]].last = r[j] /\ mem'[r[j]].own = "HW"
    <3> DEFINE d == r[j]
    <3>1. d = c[j + 1] /\ j + 1 \in 2 .. Len(c) /\ d \in Descs
      BY <1>5, <1>9
    <3>2. d # p
      BY <2>1 DEF Without
    <3>3. g2.fst[d] = p
      BY <1>5, <1>12, <3>1
    <3> HIDE DEF d
    <3>4. mem[d] \in Descriptor /\ mem[d].data \in Buffers
      BY <1>2, <1>6, <3>1 DEF HasData
    <3>5. mem'[d] = [mem[d] EXCEPT !.own = "HW", !.ctrl = IF keep THEN @ ELSE "ok",
                      !.last = IF keep THEN l ELSE d, !.next = IF d = l THEN p ELSE @]
      <4>1. \E i \in 1 .. Len(c) : c[i] = d
        BY <1>9, <3>1
      <4> QED
        BY <1>10, <3>1, <3>2, <4>1
    <3>6. /\ mem'[d].own = "HW" /\ mem'[d].data = mem[d].data
          /\ mem'[d].next = IF d = l THEN p ELSE mem[d].next
          /\ mem'[d].last = IF keep THEN l ELSE d
      BY <3>4, <3>5 DEF Descriptor
    <3>7. d = l <=> j = Len(r)
      BY <1>5, <1>9, <3>1 DEF Inj
    <3>8. j < Len(r) => mem[d].next = r[j + 1]
      BY <1>5, <1>9, <3>1
    <3>9. mem'[d].next = IF j < Len(r) THEN r[j + 1] ELSE p
      BY <1>9, <1>5, <3>6, <3>7, <3>8
    <3> QED
      BY <3>3, <3>4, <3>6, <3>9 DEF d
  <2>3. l = p <=> Len(r) = 0
    BY <1>5, <1>9 DEF Inj
  <2>4. Len(r) # 0 => mem[p].next = r[1] /\ r[Len(r)] = l
    BY <1>5, <1>9
  <2>5. td' = [own |-> "SW", ctrl |-> "ok",
               last |-> IF keep /\ l # p THEN l ELSE term[q1],
               next |-> IF l = p THEN p ELSE mem[p].next, data |-> mem[p].data]
    BY <1>19 DEF Tdesc, l
  <2>6. td'.next = Start(r, p)
    BY <1>9, <1>5, <2>3, <2>4, <2>5 DEF Start
  <2>7. td'.last = IF q1 # "down" /\ Len(r) # 0 THEN r[Len(r)] ELSE term[q1]
    BY <2>3, <2>4, <2>5
  <2>8. td'.data # Null /\ (td'.data = FwData => Len(r) = 0 /\ q1 # "down")
    BY <1>5, <1>6, <1>9, <2>5 DEF HasData
  <2>9. g2.tag[p] = "held" /\ g2.fst[p] = p /\ mem'[p] = Cleared(p)
    BY <1>1, <1>2, <1>6, <1>10, <1>12 DEF Ghost
  <2> QED
    BY <1>9, <2>1, <2>2, <2>5, <2>6, <2>7, <2>8, <2>9 DEF HandOK
<1>22. mem' \in [Descs -> Descriptor]
  <2>1. Cleared(p) \in Descriptor
    BY <1>2 DEF Cleared, Descriptor, Null
  <2>2. l \in Descs
    BY <1>5
  <2> SUFFICES ASSUME NEW d \in Descs PROVE mem'[d] \in Descriptor
    BY <1>10
  <2>3. mem[d] \in Descriptor
    BY <1>2
  <2> DEFINE New == [mem[d] EXCEPT !.own = "HW", !.ctrl = IF keep THEN @ ELSE "ok",
                                   !.last = IF keep THEN l ELSE d, !.next = IF d = l THEN p ELSE @]
  <2>4. New \in Descriptor
    BY <1>2, <2>2, <2>3 DEF Descriptor
  <2>5. mem'[d] = Cleared(p) \/ mem'[d] = New \/ mem'[d] = mem[d]
    BY <1>10
  <2> QED
    BY <2>1, <2>3, <2>4, <2>5
<1>23. td' \in Descriptor
  BY <1>2, <1>19, <1>20 DEF Tdesc, Descriptor
<1>24. fwAvail => fwDesc # p
  <2>1. q0 # "home"
    BY DEF Queues
  <2> QED
    BY <1>1, <1>6, <2>1 DEF HomeOK
<1>25. \A d \in Descs : d # p => mem'[d].data = mem[d].data
  <2> SUFFICES ASSUME NEW d \in Descs, d # p PROVE mem'[d].data = mem[d].data
    OBVIOUS
  <2> DEFINE New == [mem[d] EXCEPT !.own = "HW", !.ctrl = IF keep THEN @ ELSE "ok",
                                   !.last = IF keep THEN l ELSE d, !.next = IF d = l THEN p ELSE @]
  <2>1. mem'[d] = New \/ mem'[d] = mem[d]
    BY <1>10
  <2>2. mem[d] \in Descriptor
    BY <1>2
  <2>3. New.data = mem[d].data
    BY <2>2 DEF Descriptor
  <2> HIDE DEF New
  <2> QED
    BY <2>1, <2>3
<1>26. td'.data = mem[p].data
  BY <1>19 DEF Tdesc
<1> QED
  BY <1>2, <1>3, <1>11, <1>17, <1>18, <1>19, <1>21, <1>22, <1>23, <1>24, <1>25, <1>26
     DEF c, r, g2, Began, InHands

\* ... nothing else changes: the ends of the queues, their other packets and the
\* descriptors the engines stand at are as they were.
LEMMA BeginRest ==
  ASSUME NEW ps, NEW g, NEW h, NEW n, NEW q0, NEW q1, NEW p, NEW keep,
         Takes(ps, g, h, n, q0, q1, p, keep)
  PROVE  /\ TermOK'
         /\ head' \in [Queues -> Descs] /\ term' \in [Queues -> Descs]
         /\ pc' = "status" /\ dst' \in Queues /\ desc' \in Descs
         /\ \A q \in Queues : \A i \in 1 .. Len(ps[q]) :
              q # q0 \/ i # 1 => mem'[ps[q][i]] = mem[ps[q][i]]
         /\ \A e \in Engines : \A i \in Nat :
              i >= 1 /\ (e # q0 \/ i # 1) =>
                mem'[At(ps[e], i, term[e])] = mem[At(ps[e], i, term[e])]
<1>0. /\ TypeOK /\ TermOK /\ ~InHand /\ Shape(ps, g, h, n)
      /\ q0 \in Queues /\ q1 \in Queues /\ p = head[q0] /\ ~Empty(q0)
      /\ Unlink(q0) /\ Begin(p, q1, keep) /\ term' = term
  BY DEF Takes
<1>00. \A d \in Descs : g.fst[d] # p => mem'[d] = mem[d]
  <2>1. Began(ps, g, n, q0, p)
    BY BeginKeeps
  <2> QED
    BY <2>1 DEF Began
<1> USE <1>0, <1>00
<1>1. \A q \in Queues : QueueOK(mem, q, ps[q], head[q], term[q], g)
  BY DEF Shape, QueuesOK
<1>2. mem \in [Descs -> Descriptor] /\ p \in Descs /\ term \in [Queues -> Descs]
  BY DEF TypeOK
<1>3. Member(mem, q0, p, g) /\ p = ps[q0][1] /\ Len(ps[q0]) >= 1 /\ p # term[q0]
  BY <1>1, QueueHead DEF Empty
<1>4. g.tag[p] = q0
  BY <1>3 DEF Member
<1>5. ASSUME NEW q \in Queues
      PROVE  mem'[term[q]] = mem[term[q]]
  <2>1. g.tag[term[q]] = q /\ g.fst[term[q]] = term[q] /\ term[q] \in Descs
    BY <1>1, <1>2 DEF QueueOK
  <2>2. term[q] # p
    BY <1>3, <1>4, <2>1
  <2> QED
    BY <2>1, <2>2
<1>6. ASSUME NEW q \in Queues, NEW i \in 1 .. Len(ps[q]), q # q0 \/ i # 1
      PROVE  mem'[ps[q][i]] = mem[ps[q][i]]
  <2>1. Member(mem, q, ps[q][i], g)
    BY <1>1 DEF QueueOK
  <2>2. ps[q] \in Seq(Descs) /\ Inj(ps[q])
    BY <1>1 DEF QueueOK, IsRing
  <2>3. ps[q][i] \in Descs /\ Len(ps[q]) \in Nat
    BY <2>2, SeqIsFunction
  <2>4. g.tag[ps[q][i]] = q /\ g.fst[ps[q][i]] = ps[q][i]
    BY <2>1 DEF Member
  <2>5. ps[q][i] # p
    <3>1. CASE q # q0
      BY <1>4, <2>4, <3>1
    <3>2. CASE q = q0 /\ i # 1
      BY <1>3, <1>6, <2>2, <2>3, <3>2 DEF Inj
    <3> QED
      BY <1>6, <3>1, <3>2
  <2> QED
    BY <2>3, <2>4, <2>5
<1>7. ASSUME NEW e \in Engines, NEW i \in Nat, i >= 1, e # q0 \/ i # 1
      PROVE  mem'[At(ps[e], i, term[e])] = mem[At(ps[e], i, term[e])]
  <2>1. e \in Queues /\ Len(ps[e]) \in Nat
    BY <1>1, SeqIsFunction DEF Engines, Queues, QueueOK, IsRing
  <2>2. CASE i <= Len(ps[e])
    BY <1>6, <1>7, <2>1, <2>2 DEF At
  <2>3. CASE i > Len(ps[e])
    BY <1>5, <2>1, <2>3 DEF At
  <2> QED
    BY <2>1, <2>2, <2>3
<1>8. TermOK'
  <2>1. pc' = "status"
    BY DEF Begin
  <2> SUFFICES ASSUME NEW q \in Queues PROVE mem'[term'[q]] = Cleared(term'[q])
    BY <2>1 DEF TermOK
  <2>2. mem[term[q]] = Cleared(term[q])
    BY DEF TermOK, InHand
  <2> QED
    BY <1>5, <2>2
<1>9. head' \in [Queues -> Descs]
  <2>1. head \in [Queues -> Descs] /\ AfterOf[p] \in Descs
    BY <1>2 DEF TypeOK, AfterOf, Descriptor
  <2> QED
    BY <2>1 DEF Unlink
<1>10. pc' = "status" /\ dst' \in Queues /\ desc' \in Descs
  BY <1>2 DEF Begin
<1> QED
  BY <1>2, <1>6, <1>7, <1>8, <1>9, <1>10

\* The engines' queues, as they are and without their first packet.
LEMMA TailIs ==
  ASSUME NEW s \in Seq(Descs), Len(s) >= 1
  PROVE  /\ Len(s) \in Nat /\ Tail(s) \in Seq(Descs) /\ Len(Tail(s)) = Len(s) - 1
         /\ \A i \in 1 .. Len(s) - 1 : Tail(s)[i] = s[i + 1]
BY HeadTailProperties, EmptySeq, SeqIsFunction

\* The PTA engine stands where it stood if its queue is as it was.
LEMMA DownFrame ==
  ASSUME NEW m1, NEW m2, NEW s, NEW g1, NEW g2, NEW k, NEW c, NEW t,
         DownOK(m1, s, g1, k, c, t),
         \A i \in 1 .. Len(s) : m2[s[i]].own = m1[s[i]].own /\ g2.pk[s[i]] = g1.pk[s[i]],
         s \in Seq(Descs)
  PROVE  DownOK(m2, s, g2, k, c, t)
<1>1. Len(s) \in Nat /\ k \in 0 .. Len(s)
  BY SeqIsFunction DEF DownOK
<1>2. \A i \in k + 1 .. Len(s) : i \in 1 .. Len(s)
  BY <1>1
<1> QED
  BY <1>1, <1>2 DEF DownOK

\* The same when the first packet, one it filled, is taken off.
LEMMA DownTail ==
  ASSUME NEW m1, NEW m2, NEW s, NEW g1, NEW g2, NEW k, NEW c, NEW t,
         DownOK(m1, s, g1, k, c, t), k >= 1,
         \A i \in 2 .. Len(s) : m2[s[i]].own = m1[s[i]].own /\ g2.pk[s[i]] = g1.pk[s[i]],
         s \in Seq(Descs)
  PROVE  DownOK(m2, Tail(s), g2, k - 1, c, t)
<1>1. Len(s) \in Nat /\ k \in 1 .. Len(s)
  BY SeqIsFunction DEF DownOK
<1> DEFINE r == Tail(s)
<1>2. Len(r) = Len(s) - 1 /\ \A i \in 1 .. Len(r) : r[i] = s[i + 1]
  BY <1>1, TailIs
<1> HIDE DEF r
<1>3. \A i \in 1 .. Len(r) : m2[r[i]].own = IF i <= k - 1 THEN "SE" ELSE "HW"
  BY <1>1, <1>2 DEF DownOK
<1>4. \A i \in k .. Len(r) : Len(g2.pk[r[i]]) = 1
  BY <1>1, <1>2 DEF DownOK
<1>5. c = At(r, k, t)
  BY <1>1, <1>2 DEF DownOK, At
<1> QED
  BY <1>1, <1>2, <1>3, <1>4, <1>5 DEF DownOK, r

\* The MAC stands where it stood if its queue is as it was.
LEMMA TxFrame ==
  ASSUME NEW m1, NEW m2, NEW s, NEW k, NEW c, NEW t, NEW stopped,
         TxOK(m1, s, k, c, t, stopped), s \in Seq(Descs),
         \A i \in 1 .. Len(s) : m2[s[i]].own = m1[s[i]].own /\ m2[s[i]].ctrl = m1[s[i]].ctrl
  PROVE  TxOK(m2, s, k, c, t, stopped)
<1>1. Len(s) \in Nat /\ k \in 0 .. Len(s)
  BY SeqIsFunction DEF TxOK
<1>2. \A i \in 1 .. k : i \in 1 .. Len(s)
  BY <1>1
<1>3. k > 0 => k \in 1 .. Len(s)
  BY <1>1
<1> QED
  BY <1>1, <1>2, <1>3 DEF TxOK

\* The same when the first packet, one it sent, is taken off.
LEMMA TxTail ==
  ASSUME NEW m1, NEW m2, NEW s, NEW k, NEW c, NEW t, NEW stopped,
         TxOK(m1, s, k, c, t, stopped), s \in Seq(Descs), k >= 1, m1[s[1]].ctrl # "TXFAIL",
         \A i \in 2 .. Len(s) : m2[s[i]].own = m1[s[i]].own /\ m2[s[i]].ctrl = m1[s[i]].ctrl
  PROVE  TxOK(m2, Tail(s), k - 1, c, t, stopped)
<1>1. Len(s) \in Nat /\ k \in 1 .. Len(s)
  BY SeqIsFunction DEF TxOK
<1> DEFINE r == Tail(s)
<1>2. Len(r) = Len(s) - 1 /\ \A i \in 1 .. Len(r) : r[i] = s[i + 1] /\ i + 1 \in 2 .. Len(s)
  BY <1>1, TailIs
<1> HIDE DEF r
<1>3. \A i \in 1 .. Len(r) : m2[r[i]].own = IF i <= k - 1 THEN "SW" ELSE "HW"
  BY <1>1, <1>2 DEF TxOK
<1>4. ASSUME NEW i \in 1 .. k - 1, m2[r[i]].ctrl = "TXFAIL" PROVE stopped /\ i = k - 1
  <2>1. m1[s[i + 1]].ctrl = "TXFAIL" /\ i + 1 \in 1 .. k
    BY <1>1, <1>2, <1>4
  <2>2. stopped /\ i + 1 = k
    BY <2>1 DEF TxOK
  <2> QED
    BY <1>1, <2>2
<1>5. CASE stopped
  <2>1. k > 1
    BY <1>1, <1>5 DEF TxOK
  <2>2. c = r[k - 1] /\ m2[r[k - 1]].ctrl = "TXFAIL"
    BY <1>1, <1>2, <1>5, <2>1 DEF TxOK
  <2> QED
    BY <1>1, <1>2, <1>3, <1>4, <1>5, <2>1, <2>2 DEF TxOK, r
<1>6. CASE ~stopped
  <2>1. c = At(r, k, t)
    BY <1>1, <1>2, <1>6 DEF TxOK, At
  <2> QED
    BY <1>1, <1>2, <1>3, <1>4, <1>6, <2>1 DEF TxOK, r
<1> QED
  BY <1>5, <1>6

\* The MAC goes on behind the frame it had stopped at.
LEMMA TxUnstuck ==
  ASSUME NEW m1, NEW m2, NEW s, NEW k, NEW c, NEW t, NEW stopped,
         TxOK(m1, s, k, c, t, stopped), s \in Seq(Descs), k >= 1, m1[s[1]].ctrl = "TXFAIL",
         \A i \in 2 .. Len(s) : m2[s[i]].own = m1[s[i]].own /\ m2[s[i]].ctrl = m1[s[i]].ctrl
  PROVE  k = 1 /\ TxOK(m2, Tail(s), 0, At(Tail(s), 1, t), t, FALSE)
<1>1. Len(s) \in Nat /\ k \in 1 .. Len(s) /\ 1 \in 1 .. k
  BY SeqIsFunction DEF TxOK
<1> DEFINE r == Tail(s)
<1>2. Len(r) = Len(s) - 1 /\ \A i \in 1 .. Len(r) : r[i] = s[i + 1] /\ i + 1 \in 2 .. Len(s)
  BY <1>1, TailIs
<1> HIDE DEF r
<1>3. k = 1
  BY <1>1 DEF TxOK
<1>4. \A i \in 1 .. Len(r) : m2[r[i]].own = "HW"
  BY <1>1, <1>2, <1>3 DEF TxOK
<1> QED
  BY <1>1, <1>2, <1>3, <1>4 DEF TxOK, r

-----------------------------------------------------------------------------
(* The steps that take a packet *)

-----------------------------------------------------------------------------
(* What the abstract pipe sees of the rings *)

Words == Buffers \cup {FwData, Null}

Buf(m, c) == [j \in 1 .. Len(c) |-> m[c[j]].data]

\* The buffers of the packets of s from lo + 1 to hi.
Bufs(m, g, s, lo, hi) == [i \in 1 .. hi - lo |-> Buf(m, g.pk[s[lo + i]])]

Frees(m, s, lo) == [i \in 1 .. Len(s) - lo |-> m[s[lo + i]].data]

Slice(m, g, s, lo, hi) ==
  /\ m \in [Descs -> Descriptor] /\ g.pk \in [Descs -> Seq(Descs)] /\ s \in Seq(Descs)
  /\ lo \in Nat /\ hi \in Nat /\ lo <= hi /\ hi <= Len(s)

\* The packets of queue q an engine has processed (of the retry queue: all), and
\* those it has not.
Cut(ps, n, q)         == IF q = "retry" THEN Len(ps[q]) ELSE n[q]
Front(m, g, ps, n, q) == Bufs(m, g, ps[q], 0, Cut(ps, n, q))
Back(m, g, ps, n, q)  == Bufs(m, g, ps[q], Cut(ps, n, q), Len(ps[q]))

Seen(ps, g, h, n) ==
  /\ Flat(Open("down")) = Frees(mem, ps["down"], n["down"])
  /\ Datas(Done("down")) = Front(mem, g, ps, n, "down")
  /\ Datas(Open("tx")) = Back(mem, g, ps, n, "tx")
  /\ Datas(Done("tx")) = Front(mem, g, ps, n, "tx")
  /\ Datas(Packets("retry")) = Front(mem, g, ps, n, "retry")
  /\ Held = IF InHand THEN <<td.data>> \o Buf(mem, h) ELSE <<>>

\* The data of a packet is that of its descriptors.
LEMMA DataIs ==
  ASSUME TypeOK, NEW q, NEW x, NEW g, Member(mem, q, x, g)
  PROVE  Data(x) = Buf(mem, g.pk[x])
<1>1. IsPacket(mem, g.pk[x]) /\ g.pk[x][1] = x
  BY DEF Member
<1>2. Packet(g.pk[x][1]) = g.pk[x]
  BY <1>1, PacketIs
<1> QED
  BY <1>1, <1>2 DEF Data, Buf

\* What the firmware holds is what tdesc and the rest of the packet carry.
LEMMA HeldIs ==
  ASSUME TypeOK, NEW g, NEW h, HeldOK(h, g)
  PROVE  Held = IF InHand THEN <<td.data>> \o Buf(mem, h) ELSE <<>>
<1>1. CASE ~InHand
  BY <1>1 DEF Held, InHand
<1>2. CASE InHand
  <2>1. /\ h \in Seq(Descs) /\ Inj(h) /\ Without(h, desc) /\ td.next = Start(h, desc)
        /\ \A j \in 1 .. Len(h) : mem[h[j]].next = IF j < Len(h) THEN h[j + 1] ELSE desc
    BY <1>2 DEF HeldOK, HandOK
  <2>2. NextOf \in [Descs -> Descs] /\ desc \in Descs /\ \A d \in Descs : NextOf[d] = mem[d].next
    BY DEF TypeOK, NextOf, Descriptor
  <2>3. Leads(NextOf, h, desc)
    <3>1. \A j \in 1 .. Len(h) : h[j] \in Descs
      BY <2>1, SeqIsFunction
    <3> QED
      BY <2>1, <2>2, <3>1 DEF Leads
  <2>4. Path(NextOf, td.next, desc) = h
    BY <2>1, <2>2, <2>3, PathIs
  <2>5. Held = <<td.data>> \o Flat(h)
    BY <1>2, <2>4 DEF Held, InHand
  <2> QED
    BY <1>2, <2>5 DEF Flat, Buf
<1> QED
  BY <1>1, <1>2

\* What the pipe sees, in terms of the packets.
LEMMA SeenIs == \A ps, g, h, n : TypeOK /\ Shape(ps, g, h, n) => Seen(ps, g, h, n)
<1> SUFFICES ASSUME NEW ps, NEW g, NEW h, NEW n, TypeOK, Shape(ps, g, h, n)
             PROVE  Seen(ps, g, h, n)
  OBVIOUS
<1>1. QueuesOK(ps, g) /\ HeldOK(h, g)
  BY DEF Shape
<1>2. /\ \A q \in Queues : Packets(q) = ps[q] /\ Len(ps[q]) \in Nat
      /\ \A q \in Queues : \A i \in 1 .. Len(ps[q]) : Data(ps[q][i]) = Buf(mem, g.pk[ps[q][i]])
      /\ "down" \in Engines /\ "tx" \in Engines
      /\ "down" \in Queues /\ "tx" \in Queues /\ "retry" \in Queues
  <2>1. \A q \in Queues : Packets(q) = ps[q] /\ Len(ps[q]) \in Nat
    BY <1>1, PacketsAre, PlacesOf
  <2>2. ASSUME NEW q \in Queues, NEW i \in 1 .. Len(ps[q])
        PROVE  Data(ps[q][i]) = Buf(mem, g.pk[ps[q][i]])
    <3>1. Member(mem, q, ps[q][i], g)
      BY <1>1 DEF QueuesOK, QueueOK
    <3> QED
      BY <3>1, DataIs
  <2> QED
    BY <2>1, <2>2 DEF Queues, Engines
<1>3. ASSUME NEW e \in Engines
      PROVE  /\ Datas(Done(e)) = Bufs(mem, g, ps[e], 0, n[e])
             /\ Datas(Open(e)) = Bufs(mem, g, ps[e], n[e], Len(ps[e]))
             /\ Flat(Open(e)) = Frees(mem, ps[e], n[e])
  <2> DEFINE s == ps[e]
             k == n[e]
             a == Done(e)
             b == Open(e)
  <2>1. /\ k \in 0 .. Len(s) /\ Len(s) \in Nat
        /\ Len(a) = k /\ \A i \in 1 .. k : a[i] = s[i]
        /\ Len(b) = Len(s) - k /\ \A i \in 1 .. Len(s) - k : b[i] = s[k + i]
    <3>1. Progress(e, ps, n)
      BY ProgressIs
    <3> QED
      BY <3>1 DEF Progress
  <2>2. \A i \in 1 .. Len(s) : Data(s[i]) = Buf(mem, g.pk[s[i]])
    BY <1>2 DEF Engines, Queues
  <2> HIDE DEF s, k, a, b
  <2>3. Datas(a) = Bufs(mem, g, s, 0, k)
    <3>1. \A i \in 1 .. k : Data(a[i]) = Buf(mem, g.pk[s[0 + i]])
      BY <2>1, <2>2
    <3>2. k - 0 = k
      BY <2>1
    <3> QED
      BY <2>1, <3>1, <3>2 DEF Datas, Bufs
  <2>4. Datas(b) = Bufs(mem, g, s, k, Len(s))
    <3>1. ASSUME NEW i \in 1 .. Len(s) - k PROVE Data(b[i]) = Buf(mem, g.pk[s[k + i]])
      <4>1. k + i \in 1 .. Len(s)
        BY <2>1
      <4> QED
        BY <2>1, <2>2, <4>1
    <3> QED
      BY <2>1, <3>1 DEF Datas, Bufs
  <2>5. Flat(b) = Frees(mem, s, k)
    BY <2>1 DEF Flat, Frees
  <2> QED
    BY <2>3, <2>4, <2>5 DEF s, k, a, b
<1>4. Datas(Packets("retry")) = Bufs(mem, g, ps["retry"], 0, Len(ps["retry"]))
  <2> DEFINE s == ps["retry"]
  <2>1. Packets("retry") = s /\ Len(s) \in Nat /\ \A i \in 1 .. Len(s) : Data(s[i]) = Buf(mem, g.pk[s[i]])
    BY <1>2
  <2> HIDE DEF s
  <2>2. \A i \in 1 .. Len(s) : 0 + i = i /\ Len(s) - 0 = Len(s)
    BY <2>1
  <2> QED
    BY <2>1, <2>2 DEF Datas, Bufs, s
<1>5. Held = IF InHand THEN <<td.data>> \o Buf(mem, h) ELSE <<>>
  BY <1>1, HeldIs
<1> QED
  BY <1>2, <1>3, <1>4, <1>5 DEF Seen, Front, Back, Cut

\* The same in the next state.
LEMMA SeenThen == (\A ps, g, h, n : TypeOK /\ Shape(ps, g, h, n) => Seen(ps, g, h, n))'
BY SeenIs, PTL

\* What the pipe sees after the step, in terms of the packets then.
LEMMA SeenNext ==
  ASSUME TypeOK', NEW ps, NEW g, NEW h, NEW n, NextShape(ps, g, h, n)
  PROVE  Seen(ps, g, h, n)'
<1>1. Shape(ps, g, h, n)'
  BY NextIsShape
<1> QED
  BY <1>1, SeenThen

\* The buffers of a packet are a sequence.
LEMMA BufIs ==
  ASSUME NEW m \in [Descs -> Descriptor], NEW c \in Seq(Descs)
  PROVE  /\ Buf(m, c) \in Seq(Words) /\ Len(Buf(m, c)) = Len(c)
         /\ \A j \in 1 .. Len(c) : Buf(m, c)[j] = m[c[j]].data
<1>1. Len(c) \in Nat /\ \A j \in 1 .. Len(c) : c[j] \in Descs
  BY SeqIsFunction
<1>2. \A j \in 1 .. Len(c) : m[c[j]].data \in Words
  BY <1>1 DEF Descriptor, Words
<1> QED
  BY <1>1, <1>2 DEF Buf

\* So are the packets of a queue between two of them.
LEMMA BufsAre ==
  ASSUME NEW m, NEW g, NEW s, NEW lo, NEW hi, Slice(m, g, s, lo, hi)
  PROVE  /\ Bufs(m, g, s, lo, hi) \in Seq(Seq(Words)) /\ Len(Bufs(m, g, s, lo, hi)) = hi - lo
         /\ hi - lo \in Nat
         /\ \A i \in 1 .. hi - lo : /\ Bufs(m, g, s, lo, hi)[i] = Buf(m, g.pk[s[lo + i]])
                                    /\ Buf(m, g.pk[s[lo + i]]) \in Seq(Words)
<1>1. lo \in Nat /\ hi \in Nat /\ lo <= hi /\ hi <= Len(s) /\ Len(s) \in Nat
  BY SeqIsFunction DEF Slice
<1>2. ASSUME NEW i \in 1 .. hi - lo PROVE Buf(m, g.pk[s[lo + i]]) \in Seq(Words)
  <2>1. lo + i \in 1 .. Len(s)
    BY <1>1
  <2>2. s[lo + i] \in Descs
    BY <2>1, SeqIsFunction DEF Slice
  <2>3. g.pk[s[lo + i]] \in Seq(Descs)
    BY <2>2 DEF Slice
  <2> QED
    BY <2>3, BufIs DEF Slice
<1> DEFINE F(i) == Buf(m, g.pk[s[lo + i]])
<1>3. Bufs(m, g, s, lo, hi) = [i \in 1 .. hi - lo |-> F(i)] /\ \A i \in 1 .. hi - lo : F(i) \in Seq(Words)
  BY <1>2 DEF Bufs
<1>4. hi - lo \in Nat
  BY <1>1
<1> HIDE DEF F
<1>5. /\ [i \in 1 .. hi - lo |-> F(i)] \in Seq(Seq(Words))
      /\ Len([i \in 1 .. hi - lo |-> F(i)]) = hi - lo
      /\ \A i \in 1 .. hi - lo : [i2 \in 1 .. hi - lo |-> F(i2)][i] = F(i)
  BY <1>3, <1>4
<1> QED
  BY <1>3, <1>4, <1>5 DEF F

\* The first packet and the others.
LEMMA BufsTail ==
  ASSUME NEW m, NEW g, NEW s, NEW lo, NEW hi, Slice(m, g, s, lo, hi), lo < hi
  PROVE  /\ Bufs(m, g, s, lo, hi) # <<>>
         /\ Head(Bufs(m, g, s, lo, hi)) = Buf(m, g.pk[s[lo + 1]])
         /\ Tail(Bufs(m, g, s, lo, hi)) = Bufs(m, g, s, lo + 1, hi)
<1> DEFINE b == Bufs(m, g, s, lo, hi)
           r == Bufs(m, g, s, lo + 1, hi)
           F(i) == Buf(m, g.pk[s[i]])
<1>0. lo \in Nat /\ hi \in Nat
  BY DEF Slice
<1>1. /\ b \in Seq(Seq(Words)) /\ Len(b) = hi - lo /\ \A i \in 1 .. hi - lo : b[i] = F(lo + i)
  BY BufsAre
<1>2. Slice(m, g, s, lo + 1, hi)
  BY <1>0 DEF Slice
<1>3. /\ r \in Seq(Seq(Words)) /\ Len(r) = hi - (lo + 1)
      /\ \A i \in 1 .. hi - (lo + 1) : r[i] = F((lo + 1) + i)
  BY <1>2, BufsAre
<1> HIDE DEF b, r, F
<1>4. b # <<>> /\ Head(b) = b[1]
  BY <1>0, <1>1, HeadTailProperties, EmptySeq
<1>5. /\ Tail(b) \in Seq(Seq(Words)) /\ Len(Tail(b)) = Len(b) - 1
      /\ \A i \in 1 .. Len(b) - 1 : Tail(b)[i] = b[i + 1]
  BY <1>1, <1>4, HeadTailProperties, EmptySeq
<1>6. \A i \in 1 .. Len(r) : Tail(b)[i] = r[i]
  <2> SUFFICES ASSUME NEW i \in 1 .. Len(r) PROVE Tail(b)[i] = r[i]
    OBVIOUS
  <2>1. Tail(b)[i] = b[i + 1]
    BY <1>0, <1>1, <1>3, <1>5
  <2>2. b[i + 1] = F(lo + (i + 1))
    BY <1>0, <1>1, <1>3
  <2>3. lo + (i + 1) = (lo + 1) + i
    BY <1>0, <1>3
  <2> QED
    BY <1>3, <2>1, <2>2, <2>3
<1>7. Len(Tail(b)) = Len(r)
  BY <1>0, <1>1, <1>3, <1>5
<1>8. Tail(b) = r
  BY <1>3, <1>5, <1>6, <1>7, SameSeq
<1>9. 1 \in 1 .. hi - lo
  BY <1>0
<1> QED
  BY <1>1, <1>4, <1>8, <1>9 DEF b, r, F

\* One packet more.
LEMMA BufsMore ==
  ASSUME NEW m, NEW g, NEW s, NEW lo, NEW hi, Slice(m, g, s, lo, hi), hi < Len(s)
  PROVE  Bufs(m, g, s, lo, hi + 1) = Append(Bufs(m, g, s, lo, hi), Buf(m, g.pk[s[hi + 1]]))
<1> DEFINE b == Bufs(m, g, s, lo, hi)
           r == Bufs(m, g, s, lo, hi + 1)
           F(i) == Buf(m, g.pk[s[i]])
<1>0. lo \in Nat /\ hi \in Nat /\ Len(s) \in Nat /\ lo <= hi
  BY SeqIsFunction DEF Slice
<1>1. /\ b \in Seq(Seq(Words)) /\ Len(b) = hi - lo /\ \A i \in 1 .. hi - lo : b[i] = F(lo + i)
  BY BufsAre
<1>2. Slice(m, g, s, lo, hi + 1)
  BY <1>0 DEF Slice
<1>3. /\ r \in Seq(Seq(Words)) /\ Len(r) = (hi + 1) - lo
      /\ \A i \in 1 .. (hi + 1) - lo : r[i] = F(lo + i) /\ F(lo + i) \in Seq(Words)
  BY <1>2, BufsAre
<1> HIDE DEF b, r, F
<1>4. (hi + 1) - lo \in 1 .. (hi + 1) - lo /\ lo + ((hi + 1) - lo) = hi + 1
  BY <1>0
<1>5. F(hi + 1) \in Seq(Words) /\ r[(hi + 1) - lo] = F(hi + 1)
  BY <1>3, <1>4
<1> DEFINE a == Append(b, F(hi + 1))
<1>6. /\ a \in Seq(Seq(Words)) /\ Len(a) = Len(b) + 1
      /\ (\A i \in 1 .. Len(b) : a[i] = b[i]) /\ a[Len(b) + 1] = F(hi + 1)
  BY <1>1, <1>5, AppendProperties
<1> HIDE DEF a
<1>7. \A i \in 1 .. Len(r) : r[i] = a[i]
  <2> SUFFICES ASSUME NEW i \in 1 .. Len(r) PROVE r[i] = a[i]
    OBVIOUS
  <2>1. CASE i = Len(b) + 1
    <3>1. i = (hi + 1) - lo
      BY <1>0, <1>1, <2>1
    <3> QED
      BY <1>5, <1>6, <2>1, <3>1
  <2>2. CASE i \in 1 .. Len(b)
    BY <1>1, <1>3, <1>6, <2>2
  <2> QED
    BY <1>0, <1>1, <1>3, <2>1, <2>2
<1>8. Len(r) = Len(a)
  BY <1>0, <1>1, <1>3, <1>6
<1>9. r = a
  BY <1>3, <1>6, <1>7, <1>8, SameSeq
<1> QED
  BY <1>9 DEF a, b, r, F

\* Packets and those behind them.
LEMMA BufsJoin ==
  ASSUME NEW m, NEW g, NEW s, NEW lo, NEW mid, NEW hi, Slice(m, g, s, lo, mid), Slice(m, g, s, mid, hi)
  PROVE  Bufs(m, g, s, lo, hi) = Bufs(m, g, s, lo, mid) \o Bufs(m, g, s, mid, hi)
<1> DEFINE a == Bufs(m, g, s, lo, mid)
           b == Bufs(m, g, s, mid, hi)
           r == Bufs(m, g, s, lo, hi)
           F(i) == Buf(m, g.pk[s[i]])
<1>0. lo \in Nat /\ mid \in Nat /\ hi \in Nat /\ Len(s) \in Nat /\ lo <= mid /\ mid <= hi
  BY SeqIsFunction DEF Slice
<1>1. /\ a \in Seq(Seq(Words)) /\ Len(a) = mid - lo /\ \A i \in 1 .. mid - lo : a[i] = F(lo + i)
  BY BufsAre
<1>2. /\ b \in Seq(Seq(Words)) /\ Len(b) = hi - mid /\ \A i \in 1 .. hi - mid : b[i] = F(mid + i)
  BY BufsAre
<1>3. Slice(m, g, s, lo, hi)
  BY <1>0 DEF Slice
<1>4. /\ r \in Seq(Seq(Words)) /\ Len(r) = hi - lo /\ \A i \in 1 .. hi - lo : r[i] = F(lo + i)
  BY <1>3, BufsAre
<1> HIDE DEF a, b, r, F
<1>5. /\ a \o b \in Seq(Seq(Words)) /\ Len(a \o b) = Len(a) + Len(b)
      /\ \A i \in 1 .. Len(a) + Len(b) : (a \o b)[i] = IF i <= Len(a) THEN a[i] ELSE b[i - Len(a)]
  BY <1>1, <1>2, ConcatProperties
<1>6. \A i \in 1 .. Len(r) : r[i] = (a \o b)[i]
  <2> SUFFICES ASSUME NEW i \in 1 .. Len(r) PROVE r[i] = (a \o b)[i]
    OBVIOUS
  <2>0. i \in Nat /\ i >= 1 /\ i <= hi - lo
    BY <1>0, <1>4
  <2>1. CASE i <= mid - lo
    BY <1>0, <1>1, <1>2, <1>4, <1>5, <2>0, <2>1
  <2>2. CASE i > mid - lo
    <3>1. i - (mid - lo) \in 1 .. hi - mid /\ mid + (i - (mid - lo)) = lo + i
      BY <1>0, <2>0, <2>2
    <3>2. i \in 1 .. Len(a) + Len(b) /\ ~(i <= Len(a)) /\ Len(a) = mid - lo
      BY <1>0, <1>1, <1>2, <2>0, <2>2
    <3>3. (a \o b)[i] = b[i - (mid - lo)]
      BY <1>5, <3>2
    <3>4. b[i - (mid - lo)] = F(mid + (i - (mid - lo)))
      BY <1>2, <3>1
    <3>5. r[i] = F(lo + i)
      BY <1>4
    <3> QED
      BY <3>1, <3>3, <3>4, <3>5
  <2>3. i <= mid - lo \/ i > mid - lo
    BY <1>0, <2>0
  <2> QED
    BY <2>1, <2>2, <2>3
<1>7. Len(r) = Len(a \o b)
  BY <1>0, <1>1, <1>2, <1>4, <1>5
<1>8. r = a \o b
  BY <1>4, <1>5, <1>6, <1>7, SameSeq
<1> QED
  BY <1>8 DEF a, b, r

\* A word in front of others.
LEMMA ConsIs ==
  ASSUME NEW w \in Words, NEW b \in Seq(Words)
  PROVE  /\ <<w>> \o b \in Seq(Words) /\ Len(<<w>> \o b) = 1 + Len(b) /\ Len(b) \in Nat
         /\ \A i \in 1 .. 1 + Len(b) : (<<w>> \o b)[i] = IF i <= 1 THEN w ELSE b[i - 1]
<1> DEFINE v == <<w>>
<1>1. v \in Seq(Words) /\ Len(v) = 1 /\ v[1] = w /\ Len(b) \in Nat
  OBVIOUS
<1> HIDE DEF v
<1>2. /\ v \o b \in Seq(Words) /\ Len(v \o b) = Len(v) + Len(b)
      /\ \A i \in 1 .. Len(v) + Len(b) : (v \o b)[i] = IF i <= Len(v) THEN v[i] ELSE b[i - Len(v)]
  BY <1>1, ConcatProperties
<1>3. \A i \in 1 .. 1 + Len(b) : i <= 1 => i = 1
  BY <1>1
<1> QED
  BY <1>1, <1>2, <1>3 DEF v

\* A packet in hand is not empty; it is the reserved buffer only if it carries that.
LEMMA HandIsFull ==
  ASSUME NEW w \in Words, NEW b \in Seq(Words)
  PROVE  <<w>> \o b # <<>> /\ (w # FwData => <<w>> \o b # <<FwData>>)
<1> DEFINE f == <<w>> \o b
<1>1. Len(f) >= 1 /\ f[1] = w
  <2>1. 1 \in 1 .. 1 + Len(b) /\ 1 + Len(b) >= 1
    BY ConsIs
  <2> QED
    BY <2>1, ConsIs
<1> HIDE DEF f
<1>2. Len(<<>>) = 0 /\ <<FwData>>[1] = FwData
  OBVIOUS
<1>3. f # <<>> /\ (w # FwData => f # <<FwData>>)
  BY <1>1, <1>2
<1> QED
  BY <1>3 DEF f

\* Step relations between what the pipe sees before and after, queue by queue: nothing
\* changes; the first packet is gone.
Like(ps, g, n, ps2, g2, n2, q) ==
  /\ Front(mem', g2, ps2, n2, q) = Front(mem, g, ps, n, q)
  /\ Back(mem', g2, ps2, n2, q) = Back(mem, g, ps, n, q)
  /\ q = "down" => Frees(mem', ps2["down"], n2["down"]) = Frees(mem, ps["down"], n["down"])

Behind(ps, g, n, ps2, g2, n2, q) ==
  /\ Front(mem, g, ps, n, q) # <<>>
  /\ Front(mem', g2, ps2, n2, q) = Tail(Front(mem, g, ps, n, q))
  /\ Back(mem', g2, ps2, n2, q) = Back(mem, g, ps, n, q)
  /\ q = "down" => Frees(mem', ps2["down"], n2["down"]) = Frees(mem, ps["down"], n["down"])

\* No step of the firmware writes the buffer of more than one descriptor, z.
DataKept(z) == \A d \in Descs : d # z => mem'[d].data = mem[d].data

\* How far an engine is, as a cut through its queue.
LEMMA CutIs ==
  ASSUME TypeOK, NEW ps, NEW g, NEW h, NEW n, Shape(ps, g, h, n), NEW q \in Queues
  PROVE  /\ ps[q] \in Seq(Descs) /\ Len(ps[q]) \in Nat /\ Cut(ps, n, q) \in 0 .. Len(ps[q])
         /\ Slice(mem, g, ps[q], 0, Cut(ps, n, q)) /\ Slice(mem, g, ps[q], Cut(ps, n, q), Len(ps[q]))
<1>1. ps[q] \in Seq(Descs) /\ Len(ps[q]) \in Nat /\ mem \in [Descs -> Descriptor]
  BY PlacesOf
<1>2. Cut(ps, n, q) \in 0 .. Len(ps[q])
  BY <1>1 DEF Cut, Shape, DownOK, TxOK, Queues
<1>3. g.pk \in [Descs -> Seq(Descs)]
  BY DEF Shape, Ghost
<1> HIDE DEF Cut
<1>4. Cut(ps, n, q) \in Nat /\ 0 <= Cut(ps, n, q) /\ Cut(ps, n, q) <= Len(ps[q]) /\ Len(ps[q]) <= Len(ps[q])
  BY <1>1, <1>2
<1> QED
  BY <1>1, <1>2, <1>3, <1>4 DEF Slice

\* A packet that is not the one with first descriptor z keeps its buffers.
LEMMA BufKept ==
  ASSUME TypeOK, NEW ps, NEW g, NEW h, NEW n, Shape(ps, g, h, n),
         NEW z, g.fst[z] = z, DataKept(z),
         NEW q \in Queues, NEW i \in 1 .. Len(ps[q]), ps[q][i] # z
  PROVE  /\ Buf(mem', g.pk[ps[q][i]]) = Buf(mem, g.pk[ps[q][i]])
         /\ mem'[ps[q][i]].data = mem[ps[q][i]].data
<1> DEFINE x == ps[q][i]
           c == g.pk[x]
<1>1. Member(mem, q, x, g) /\ x \in Descs
  BY PlacesOf DEF Shape, QueuesOK, QueueOK
<1>2. x # z
  OBVIOUS
<1> HIDE DEF x
<1>3. c \in Seq(Descs) /\ \A j \in 1 .. Len(c) : g.fst[c[j]] = x
  BY <1>1 DEF Member, IsPacket
<1>4. Len(c) \in Nat /\ \A j \in 1 .. Len(c) : c[j] \in Descs
  BY <1>3, SeqIsFunction
<1>5. \A j \in 1 .. Len(c) : mem'[c[j]].data = mem[c[j]].data
  BY <1>2, <1>3, <1>4 DEF DataKept
<1>6. Buf(mem', c) = Buf(mem, c)
  BY <1>5 DEF Buf
<1>7. mem'[x].data = mem[x].data
  BY <1>1, <1>2 DEF DataKept
<1> QED
  BY <1>6, <1>7 DEF x

\* A queue that keeps its packets, and whose packets keep their buffers, looks the same.
LikeIf(ps, g, h, n, ps2, g2, n2, z, q) ==
  /\ TypeOK /\ Shape(ps, g, h, n) /\ g.fst[z] = z /\ DataKept(z) /\ q \in Queues
  /\ ps2[q] = ps[q] /\ Cut(ps2, n2, q) = Cut(ps, n, q) /\ (q = "down" => n2[q] = n[q])
  /\ \A i \in 1 .. Len(ps[q]) : ps[q][i] # z /\ g2.pk[ps[q][i]] = g.pk[ps[q][i]]

LEMMA LikeIs ==
  ASSUME NEW ps, NEW g, NEW h, NEW n, NEW ps2, NEW g2, NEW n2, NEW z, NEW q,
         LikeIf(ps, g, h, n, ps2, g2, n2, z, q)
  PROVE  Like(ps, g, n, ps2, g2, n2, q)
<1> DEFINE s == ps[q]
           k == Cut(ps, n, q)
<1>1. /\ TypeOK /\ Shape(ps, g, h, n) /\ g.fst[z] = z /\ DataKept(z) /\ q \in Queues
      /\ ps2[q] = s /\ Cut(ps2, n2, q) = k
      /\ \A i \in 1 .. Len(s) : s[i] # z /\ g2.pk[s[i]] = g.pk[s[i]]
  BY DEF LikeIf
<1>2. Len(s) \in Nat /\ k \in 0 .. Len(s)
  BY <1>1, CutIs
<1>3. \A i \in 1 .. Len(s) : Buf(mem', g2.pk[s[i]]) = Buf(mem, g.pk[s[i]]) /\ mem'[s[i]].data = mem[s[i]].data
  BY <1>1, BufKept
<1>4. q = "down" => n["down"] = k /\ n2["down"] = k
  BY DEF LikeIf, Cut
<1>5. Front(mem, g, ps, n, q) = Bufs(mem, g, s, 0, k) /\ Front(mem', g2, ps2, n2, q) = Bufs(mem', g2, s, 0, k)
  BY <1>1 DEF Front
<1>6. /\ Back(mem, g, ps, n, q) = Bufs(mem, g, s, k, Len(s))
      /\ Back(mem', g2, ps2, n2, q) = Bufs(mem', g2, s, k, Len(s))
  BY <1>1 DEF Back
<1>7. ps2[q] = s
  BY <1>1
<1> HIDE DEF s, k
<1>8. Bufs(mem', g2, s, 0, k) = Bufs(mem, g, s, 0, k)
  <2>1. \A i \in 1 .. k - 0 : 0 + i \in 1 .. Len(s)
    BY <1>2
  <2> QED
    BY <1>3, <2>1 DEF Bufs
<1>9. /\ Bufs(mem', g2, s, k, Len(s)) = Bufs(mem, g, s, k, Len(s))
      /\ Frees(mem', s, k) = Frees(mem, s, k)
  <2>1. \A i \in 1 .. Len(s) - k : k + i \in 1 .. Len(s)
    BY <1>2
  <2> QED
    BY <1>3, <2>1 DEF Bufs, Frees
<1>10. q = "down" => Frees(mem', ps2["down"], n2["down"]) = Frees(mem, ps["down"], n["down"])
  BY <1>4, <1>7, <1>9 DEF s
<1> QED
  BY <1>5, <1>6, <1>8, <1>9, <1>10 DEF Like

\* A queue that loses its first packet, one its engine has processed.
BehindIf(ps, g, h, n, ps2, g2, n2, z, q) ==
  /\ TypeOK /\ Shape(ps, g, h, n) /\ g.fst[z] = z /\ DataKept(z) /\ q \in Queues
  /\ ps2[q] = Tail(ps[q]) /\ Cut(ps, n, q) >= 1 /\ Cut(ps2, n2, q) = Cut(ps, n, q) - 1
  /\ (q = "down" => n2[q] = n[q] - 1)
  /\ \A i \in 2 .. Len(ps[q]) : ps[q][i] # z /\ g2.pk[ps[q][i]] = g.pk[ps[q][i]]

LEMMA BehindIs ==
  ASSUME NEW ps, NEW g, NEW h, NEW n, NEW ps2, NEW g2, NEW n2, NEW z, NEW q,
         BehindIf(ps, g, h, n, ps2, g2, n2, z, q)
  PROVE  /\ Behind(ps, g, n, ps2, g2, n2, q)
         /\ Head(Front(mem, g, ps, n, q)) = Buf(mem, g.pk[ps[q][1]])
<1> DEFINE s == ps[q]
           r == Tail(s)
           k == Cut(ps, n, q)
<1>1. /\ TypeOK /\ Shape(ps, g, h, n) /\ g.fst[z] = z /\ DataKept(z) /\ q \in Queues
      /\ ps2[q] = r /\ Cut(ps2, n2, q) = k - 1 /\ k >= 1
      /\ \A i \in 2 .. Len(s) : s[i] # z /\ g2.pk[s[i]] = g.pk[s[i]]
  BY DEF BehindIf
<1>2. s \in Seq(Descs) /\ Len(s) \in Nat /\ k \in 0 .. Len(s) /\ Slice(mem, g, s, 0, k)
  BY <1>1, CutIs
<1>3. Len(r) = Len(s) - 1 /\ \A i \in 1 .. Len(s) - 1 : r[i] = s[i + 1]
  BY <1>1, <1>2, TailIs
<1>4. ASSUME NEW i \in 2 .. Len(s)
      PROVE  Buf(mem', g2.pk[s[i]]) = Buf(mem, g.pk[s[i]]) /\ mem'[s[i]].data = mem[s[i]].data
  <2>1. i \in 1 .. Len(s) /\ s[i] # z /\ g2.pk[s[i]] = g.pk[s[i]]
    BY <1>1, <1>2
  <2> QED
    BY <1>1, <2>1, BufKept
<1>5. q = "down" => n["down"] = k /\ n2["down"] = k - 1
  BY DEF BehindIf, Cut
<1>6. /\ Front(mem, g, ps, n, q) = Bufs(mem, g, s, 0, k)
      /\ Front(mem', g2, ps2, n2, q) = Bufs(mem', g2, r, 0, k - 1)
  BY <1>1 DEF Front
<1>7. /\ Back(mem, g, ps, n, q) = Bufs(mem, g, s, k, Len(s))
      /\ Back(mem', g2, ps2, n2, q) = Bufs(mem', g2, r, k - 1, Len(r))
  BY <1>1 DEF Back
<1>8. ps2[q] = r
  BY <1>1
<1> HIDE DEF s, k, r
<1>9. /\ Bufs(mem, g, s, 0, k) # <<>> /\ Head(Bufs(mem, g, s, 0, k)) = Buf(mem, g.pk[s[1]])
      /\ Tail(Bufs(mem, g, s, 0, k)) = Bufs(mem, g, s, 1, k)
  <2>1. 0 < k /\ 0 + 1 = 1
    BY <1>1, <1>2
  <2> QED
    BY <1>2, <2>1, BufsTail
<1>10. Bufs(mem', g2, r, 0, k - 1) = Bufs(mem, g, s, 1, k)
  <2>1. (k - 1) - 0 = k - 1
    BY <1>2
  <2>2. ASSUME NEW i \in 1 .. k - 1 PROVE Buf(mem', g2.pk[r[0 + i]]) = Buf(mem, g.pk[s[1 + i]])
    <3>1. 0 + i \in 1 .. Len(s) - 1 /\ (0 + i) + 1 = 1 + i /\ 1 + i \in 2 .. Len(s)
      BY <1>2
    <3> QED
      BY <1>3, <1>4, <3>1
  <2> QED
    BY <2>1, <2>2 DEF Bufs
<1>11. /\ Bufs(mem', g2, r, k - 1, Len(r)) = Bufs(mem, g, s, k, Len(s))
       /\ Frees(mem', r, k - 1) = Frees(mem, s, k)
  <2>1. Len(r) - (k - 1) = Len(s) - k
    BY <1>2, <1>3
  <2>2. ASSUME NEW i \in 1 .. Len(s) - k
        PROVE  /\ Buf(mem', g2.pk[r[(k - 1) + i]]) = Buf(mem, g.pk[s[k + i]])
               /\ mem'[r[(k - 1) + i]].data = mem[s[k + i]].data
    <3>1. (k - 1) + i \in 1 .. Len(s) - 1 /\ ((k - 1) + i) + 1 = k + i /\ k + i \in 2 .. Len(s)
      BY <1>1, <1>2
    <3> QED
      BY <1>3, <1>4, <3>1
  <2> QED
    BY <2>1, <2>2 DEF Bufs, Frees
<1>12. q = "down" => Frees(mem', ps2["down"], n2["down"]) = Frees(mem, ps["down"], n["down"])
  BY <1>5, <1>8, <1>11 DEF s
<1> QED
  BY <1>6, <1>7, <1>9, <1>10, <1>11, <1>12 DEF Behind, s

\* The first packet of queue q0 is what the firmware has in its hands now.
Taken(ps, g, h, n, ps2, g2, h2, n2, q0) ==
  /\ Seen(ps, g, h, n) /\ Seen(ps2, g2, h2, n2)'
  /\ ~InHand /\ InHand'
  /\ \A q \in Queues : q # q0 => Like(ps, g, n, ps2, g2, n2, q)
  /\ Behind(ps, g, n, ps2, g2, n2, q0)
  /\ Head(Front(mem, g, ps, n, q0)) = <<td'.data>> \o Buf(mem', h2)
  /\ Buf(mem', h2) \in Seq(Words) /\ td'.data \in Words

Taking(q0) == \E ps, g, h, n, ps2, g2, h2, n2 : Taken(ps, g, h, n, ps2, g2, h2, n2, q0)

\* One packet less is processed, if its queue has an engine.
Counted(n, n2, q0) ==
  /\ q0 \in Engines => n[q0] >= 1 /\ n2[q0] = n[q0] - 1
  /\ \A e \in Engines : e # q0 => n2[e] = n[e]

\* The packet in hand is the one that was first in its queue.
LEMMA TakenIs ==
  ASSUME NEW ps, NEW g, NEW h, NEW n, NEW q0, NEW q1, NEW p, NEW keep,
         Takes(ps, g, h, n, q0, q1, p, keep), TypeOK',
         NEW ps2, ps2 = [ps EXCEPT ![q0] = Tail(@)], NEW n2,
         NextShape(ps2, InHands(g, p), Tail(g.pk[p]), n2),
         Counted(n, n2, q0)
  PROVE  Taken(ps, g, h, n, ps2, InHands(g, p), Tail(g.pk[p]), n2, q0)
<1> DEFINE c  == g.pk[p]
           r  == Tail(c)
           g2 == InHands(g, p)
<1>1. /\ TypeOK /\ Shape(ps, g, h, n) /\ ~InHand /\ q0 \in Queues /\ p = head[q0]
      /\ Ghost(ps, g, h, n) /\ Begin(p, q1, keep)
  BY DEF Takes, Shape
<1>2. /\ p \in Descs /\ Len(ps[q0]) >= 1 /\ p = ps[q0][1] /\ DataKept(p)
      /\ td'.data = mem[p].data /\ mem' \in [Descs -> Descriptor]
  <2>1. Began(ps, g, n, q0, p)
    BY BeginKeeps
  <2> QED
    BY <2>1 DEF Began, DataKept
<1>3. g2.pk = g.pk
  BY <1>1 DEF Ghost, InHands
<1>4. InHand'
  BY <1>1 DEF Begin, InHand
<1>5. Seen(ps, g, h, n) /\ Seen(ps2, g2, r, n2)'
  BY <1>1, SeenIs, SeenNext
<1>6. \A q \in Queues : /\ ps[q] \in Seq(Descs) /\ Len(ps[q]) \in Nat
                        /\ \A i \in 1 .. Len(ps[q]) : g.tag[ps[q][i]] = q /\ g.fst[ps[q][i]] = ps[q][i]
  BY <1>1, PlacesOf
<1>7. 1 \in 1 .. Len(ps[q0]) /\ g.tag[p] = q0 /\ g.fst[p] = p
  <2>1. 1 \in 1 .. Len(ps[q0])
    BY <1>1, <1>2, <1>6
  <2> QED
    BY <1>1, <1>2, <1>6, <2>1
<1>8. Member(mem, q0, p, g)
  BY <1>1, <1>2, <1>7 DEF Shape, QueuesOK, QueueOK
<1>9. /\ c \in Seq(Descs) /\ Len(c) >= 1 /\ Inj(c) /\ c[1] = p
  BY <1>8 DEF Member, IsPacket
<1>10. ps2[q0] = Tail(ps[q0]) /\ \A q \in Queues : q # q0 => ps2[q] = ps[q]
  BY <1>1 DEF Ghost
<1> HIDE DEF c, r, g2
<1>11. ASSUME NEW q \in Queues, q # q0 PROVE Like(ps, g, n, ps2, g2, n2, q)
  <2>1. Cut(ps2, n2, q) = Cut(ps, n, q) /\ (q = "down" => n2[q] = n[q])
    BY <1>10, <1>11 DEF Cut, Engines, Queues, Counted
  <2>2. \A i \in 1 .. Len(ps[q]) : ps[q][i] # p /\ g2.pk[ps[q][i]] = g.pk[ps[q][i]]
    BY <1>3, <1>6, <1>7, <1>11
  <2>3. LikeIf(ps, g, h, n, ps2, g2, n2, p, q)
    BY <1>1, <1>2, <1>7, <1>10, <1>11, <2>1, <2>2 DEF LikeIf
  <2> QED
    BY <2>3, LikeIs
<1>12. /\ Behind(ps, g, n, ps2, g2, n2, q0)
       /\ Head(Front(mem, g, ps, n, q0)) = Buf(mem, c)
  <2>1. Cut(ps, n, q0) >= 1 /\ Cut(ps2, n2, q0) = Cut(ps, n, q0) - 1
    <3>1. Len(Tail(ps[q0])) = Len(ps[q0]) - 1
      BY <1>1, <1>2, <1>6, TailIs
    <3> QED
      BY <1>1, <1>2, <1>10, <3>1 DEF Cut, Engines, Queues, Counted
  <2>2. ASSUME NEW i \in 2 .. Len(ps[q0])
        PROVE  ps[q0][i] # p /\ g2.pk[ps[q0][i]] = g.pk[ps[q0][i]]
    <3>1. Inj(ps[q0])
      BY <1>1 DEF Shape, QueuesOK, QueueOK, IsRing
    <3>2. i \in 1 .. Len(ps[q0]) /\ i # 1
      BY <1>1, <1>6
    <3> QED
      BY <1>2, <1>3, <1>7, <3>1, <3>2 DEF Inj
  <2>3. q0 = "down" => n2[q0] = n[q0] - 1
    BY DEF Engines, Counted
  <2>4. BehindIf(ps, g, h, n, ps2, g2, n2, p, q0)
    BY <1>1, <1>2, <1>7, <1>10, <2>1, <2>2, <2>3 DEF BehindIf
  <2> QED
    BY <1>2, <2>4, BehindIs DEF c
<1>13. Buf(mem, c) = <<td'.data>> \o Buf(mem', r) /\ Buf(mem', r) \in Seq(Words) /\ td'.data \in Words
  <2>1. mem \in [Descs -> Descriptor]
    BY <1>1 DEF TypeOK
  <2>2. /\ Len(c) \in Nat /\ r \in Seq(Descs) /\ Len(r) = Len(c) - 1
        /\ \A j \in 1 .. Len(c) - 1 : r[j] = c[j + 1]
    BY <1>9, TailIs DEF r
  <2>3. \A j \in 1 .. Len(r) : mem'[r[j]].data = mem[c[j + 1]].data
    <3> SUFFICES ASSUME NEW j \in 1 .. Len(r) PROVE mem'[r[j]].data = mem[c[j + 1]].data
      OBVIOUS
    <3>1. r[j] = c[j + 1] /\ j + 1 \in 1 .. Len(c) /\ j + 1 # 1 /\ 1 \in 1 .. Len(c)
      BY <1>9, <2>2
    <3>2. c[j + 1] # p
      BY <1>9, <3>1 DEF Inj
    <3>3. c[j + 1] \in Descs
      BY <1>9, <3>1, SeqIsFunction
    <3> QED
      BY <1>2, <3>1, <3>2, <3>3 DEF DataKept
  <2> DEFINE a == Buf(mem, c)
             b == Buf(mem', r)
             w == td'.data
  <2>4. a \in Seq(Words) /\ Len(a) = Len(c) /\ \A j \in 1 .. Len(c) : a[j] = mem[c[j]].data
    BY <1>9, <2>1, BufIs
  <2>5. b \in Seq(Words) /\ Len(b) = Len(r) /\ \A j \in 1 .. Len(r) : b[j] = mem'[r[j]].data
    BY <1>2, <2>2, BufIs
  <2>6. w \in Words /\ w = mem[c[1]].data
    BY <1>2, <1>9, <2>1 DEF Descriptor, Words
  <2> HIDE DEF a, b, w
  <2>7. <<w>> \in Seq(Words) /\ Len(<<w>>) = 1 /\ <<w>>[1] = w
    BY <2>6
  <2>8. /\ <<w>> \o b \in Seq(Words) /\ Len(<<w>> \o b) = 1 + Len(b)
        /\ \A i \in 1 .. 1 + Len(b) : (<<w>> \o b)[i] = IF i <= 1 THEN w ELSE b[i - 1]
    <3>1. w \in Words /\ b \in Seq(Words)
      BY <2>5, <2>6
    <3> QED
      BY <3>1, ConsIs
  <2>9. \A i \in 1 .. Len(a) : a[i] = (<<w>> \o b)[i]
    <3> SUFFICES ASSUME NEW i \in 1 .. Len(a) PROVE a[i] = (<<w>> \o b)[i]
      OBVIOUS
    <3>1. CASE i = 1
      BY <1>9, <2>2, <2>4, <2>5, <2>6, <2>8, <3>1
    <3>2. CASE i # 1
      <4>1. i - 1 \in 1 .. Len(r) /\ (i - 1) + 1 = i /\ i \in 1 .. 1 + Len(b) /\ ~(i <= 1) /\ i \in 1 .. Len(c)
        BY <2>2, <2>4, <2>5, <3>2
      <4>2. (<<w>> \o b)[i] = b[i - 1] /\ b[i - 1] = mem'[r[i - 1]].data /\ a[i] = mem[c[i]].data
        BY <2>4, <2>5, <2>8, <4>1
      <4> QED
        BY <2>3, <4>1, <4>2
    <3> QED
      BY <3>1, <3>2
  <2>10. a = <<w>> \o b
    <3>1. Len(a) = Len(<<w>> \o b)
      BY <2>2, <2>4, <2>5, <2>8
    <3> QED
      BY <2>4, <2>8, <2>9, <3>1, SameSeq
  <2> QED
    BY <2>5, <2>6, <2>10 DEF a, b, w
<1> QED
  BY <1>1, <1>4, <1>5, <1>11, <1>12, <1>13 DEF Taken, g2, r, c

\* To the pipe, taking a packet off the rings is taking one.
LEMMA PipeTakes ==
  ASSUME NEW q0 \in Queues, Taking(q0)
  PROVE  /\ q0 = "down" /\ dst' = "tx" /\ fwAvail' = fwAvail => Pipe!TakeArrived
         /\ q0 = "retry" /\ dst' = "tx" /\ fwAvail' = fwAvail => Pipe!TakeRetry
         /\ q0 = "tx" /\ dst' = "retry" /\ fwAvail' = fwAvail => Pipe!TakeSent("retry")
         /\ q0 = "tx" /\ dst' = "down" /\ fwAvail' = fwAvail /\ td'.data # FwData
              => Pipe!TakeSent("down")
<1>1. PICK ps, g, h, n, ps2, g2, h2, n2 : Taken(ps, g, h, n, ps2, g2, h2, n2, q0)
  BY DEF Taking
<1> DEFINE f == <<td'.data>> \o Buf(mem', h2)
<1>2. /\ Seen(ps, g, h, n) /\ Seen(ps2, g2, h2, n2)'
      /\ ~InHand /\ InHand'
      /\ \A q \in Queues : q # q0 => Like(ps, g, n, ps2, g2, n2, q)
      /\ Behind(ps, g, n, ps2, g2, n2, q0)
      /\ Head(Front(mem, g, ps, n, q0)) = f
  BY <1>1 DEF Taken
<1>3. f # <<>> /\ (td'.data # FwData => f # <<FwData>>)
  <2>1. Buf(mem', h2) \in Seq(Words) /\ td'.data \in Words
    BY <1>1 DEF Taken
  <2> DEFINE w == td'.data
             b == Buf(mem', h2)
  <2> HIDE DEF w, b
  <2>2. <<w>> \o b # <<>> /\ (w # FwData => <<w>> \o b # <<FwData>>)
    BY <2>1, HandIsFull DEF w, b
  <2> QED
    BY <2>2 DEF w, b
<1>4. Held = <<>> /\ Held' = f
  BY <1>2 DEF Seen
<1> HIDE DEF f
<1>5. "down" \in Queues /\ "tx" \in Queues /\ "retry" \in Queues
  BY DEF Queues
<1>6. ASSUME q0 = "down", dst' = "tx", fwAvail' = fwAvail PROVE Pipe!TakeArrived
  BY <1>2, <1>3, <1>4, <1>5, <1>6 DEF Seen, Like, Behind, Pipe!TakeArrived, Pipe!Hold
<1>7. ASSUME q0 = "retry", dst' = "tx", fwAvail' = fwAvail PROVE Pipe!TakeRetry
  BY <1>2, <1>3, <1>4, <1>5, <1>7 DEF Seen, Like, Behind, Pipe!TakeRetry, Pipe!Hold
<1>8. ASSUME q0 = "tx", dst' = "retry", fwAvail' = fwAvail PROVE Pipe!TakeSent("retry")
  BY <1>2, <1>3, <1>4, <1>5, <1>8 DEF Seen, Like, Behind, Pipe!TakeSent, Pipe!Hold
<1>9. ASSUME q0 = "tx", dst' = "down", fwAvail' = fwAvail, td'.data # FwData
      PROVE  Pipe!TakeSent("down")
  BY <1>2, <1>3, <1>4, <1>5, <1>9 DEF Seen, Like, Behind, Pipe!TakeSent, Pipe!Hold
<1> QED
  BY <1>6, <1>7, <1>8, <1>9

\* A step between two states that the same packets fit, and that writes no buffer of
\* one: the pipe sees nothing of it.
SteadyIf(ps, g, h, n, z) ==
  /\ TypeOK /\ TypeOK' /\ Shape(ps, g, h, n) /\ NextShape(ps, g, h, n)
  /\ g.fst[z] = z /\ DataKept(z)
  /\ \A q \in Queues : \A i \in 1 .. Len(ps[q]) : ps[q][i] # z
  /\ (InHand' <=> InHand) /\ (InHand => dst' = dst /\ td' = td /\ desc # z)
  /\ fwAvail' = fwAvail

LEMMA Steady ==
  ASSUME NEW ps, NEW g, NEW h, NEW n, NEW z, SteadyIf(ps, g, h, n, z)
  PROVE  UNCHANGED Pipe!vars
<1>1. /\ TypeOK /\ TypeOK' /\ Shape(ps, g, h, n) /\ NextShape(ps, g, h, n)
      /\ g.fst[z] = z /\ DataKept(z)
      /\ \A q \in Queues : \A i \in 1 .. Len(ps[q]) : ps[q][i] # z
      /\ (InHand' <=> InHand) /\ (InHand => dst' = dst /\ td' = td /\ desc # z)
      /\ fwAvail' = fwAvail
  BY DEF SteadyIf
<1>2. Seen(ps, g, h, n) /\ Seen(ps, g, h, n)'
  BY <1>1, SeenIs, SeenNext
<1>3. ASSUME NEW q \in Queues PROVE Like(ps, g, n, ps, g, n, q)
  <2>1. LikeIf(ps, g, h, n, ps, g, n, z, q)
    BY <1>1 DEF LikeIf
  <2> QED
    BY <2>1, LikeIs
<1>4. Like(ps, g, n, ps, g, n, "down") /\ Like(ps, g, n, ps, g, n, "tx") /\ Like(ps, g, n, ps, g, n, "retry")
  BY <1>3 DEF Queues
<1>5. InHand => Buf(mem', h) = Buf(mem, h)
  <2> SUFFICES ASSUME InHand PROVE Buf(mem', h) = Buf(mem, h)
    OBVIOUS
  <2>1. h \in Seq(Descs) /\ desc # z /\ \A j \in 1 .. Len(h) : g.fst[h[j]] = desc
    BY <1>1 DEF Shape, HeldOK, HandOK
  <2>2. \A j \in 1 .. Len(h) : h[j] \in Descs /\ h[j] # z
    BY <1>1, <2>1, SeqIsFunction
  <2>3. \A j \in 1 .. Len(h) : mem'[h[j]].data = mem[h[j]].data
    BY <1>1, <2>2 DEF DataKept
  <2> QED
    BY <2>3 DEF Buf
<1>6. Held' = Held
  BY <1>1, <1>2, <1>5 DEF Seen
<1>7. Held = <<>> \/ dst' = dst
  BY <1>1, <1>2 DEF Seen
<1> QED
  BY <1>1, <1>2, <1>4, <1>6, <1>7 DEF Seen, Like, Pipe!vars

\* A step that takes a packet and leaves the engines in order keeps the invariant, and
\* the pipe sees a packet taken.
LEMMA Begins ==
  ASSUME NEW ps, NEW g, NEW h, NEW n, NEW q0, NEW q1, NEW p, NEW keep,
         Takes(ps, g, h, n, q0, q1, p, keep), UNCHANGED reserve,
         NEW ps2, ps2 = [ps EXCEPT ![q0] = Tail(@)], NEW n2 \in [Engines -> Nat],
         DownOK(mem', ps2["down"], g, n2["down"], cur'["down"], term["down"]),
         TxOK(mem', ps2["tx"], n2["tx"], cur'["tx"], term["tx"], halt'),
         WakeOK', cur' \in [Engines -> Descs], run' \in [Engines -> BOOLEAN], halt' \in BOOLEAN,
         Counted(n, n2, q0)
  PROVE  IInv' /\ Taking(q0)
<1> DEFINE r  == Tail(g.pk[p])
           g2 == InHands(g, p)
<1>1. TypeOK /\ TermOK /\ HomeOK(g) /\ term' = term /\ ps2 = [ps EXCEPT ![q0] = Tail(@)]
  BY DEF Takes, Shape
<1>2. /\ p \in Descs /\ Ghost(ps2, g2, r, n)
      /\ \A q \in Queues : QueueOK(mem', q, ps2[q], head'[q], term'[q], g2)
      /\ HandOK(mem', r, desc', td', dst', term'[dst'], g2)
      /\ mem' \in [Descs -> Descriptor] /\ td' \in Descriptor
      /\ \A d \in Descs : g.fst[d] # p => mem'[d] = mem[d]
      /\ fwAvail => fwDesc # p
  <2>1. Began(ps, g, n, q0, p)
    BY BeginKeeps
  <2> QED
    BY <1>1, <2>1 DEF Began
<1>3. /\ TermOK' /\ head' \in [Queues -> Descs] /\ term' \in [Queues -> Descs]
      /\ pc' = "status" /\ dst' \in Queues /\ desc' \in Descs
  BY BeginRest
<1>4. TypeOK'
  BY <1>1, <1>2, <1>3 DEF TypeOK, reserve
<1>5. PcOK'
  BY <1>3 DEF PcOK
<1>6. g2.pk = g.pk /\ g2.fst = g.fst /\ g2.tag = [g.tag EXCEPT ![p] = "held"]
  BY DEF Takes, Shape, Ghost, InHands
<1>7. Ghost(ps2, g2, r, n2)
  BY <1>2 DEF Ghost
<1>8. fwAvail' => g2.tag[fwDesc'] = "home" /\ g2.fst[fwDesc'] = fwDesc'
  BY <1>1, <1>2, <1>6 DEF HomeOK, reserve, Takes, Shape, Ghost
<1>9. DownOK(mem', ps2["down"], g2, n2["down"], cur'["down"], term'["down"])
  BY <1>1, <1>6 DEF DownOK
<1> HIDE DEF r, g2
<1>10. NextShape(ps2, g2, r, n2)
  BY <1>1, <1>2, <1>7, <1>8, <1>9 DEF NextShape
<1>11. Shaped'
  BY <1>10, Reshape
<1>12. Taken(ps, g, h, n, ps2, InHands(g, p), Tail(g.pk[p]), n2, q0)
  BY <1>1, <1>4, <1>10, TakenIs DEF r, g2
<1> QED
  BY <1>3, <1>4, <1>5, <1>11, <1>12 DEF IInv, Taking

\* A packet the MAC did not stop at is taken: the engines are not concerned.
LEMMA TakesKeeps ==
  ASSUME IInv, NEW ps, NEW g, NEW h, NEW n, NEW q0, NEW q1, NEW p, NEW keep,
         Takes(ps, g, h, n, q0, q1, p, keep), UNCHANGED <<engine, reserve>>,
         q0 \in Engines => mem[p].own # "HW", q0 = "tx" => mem[p].ctrl # "TXFAIL",
         pc = "idle" \/ (pc = "retry" /\ q1 = "tx")
  PROVE  IInv' /\ Taking(q0)
<1>0. /\ TypeOK /\ WakeOK /\ Shape(ps, g, h, n) /\ q0 \in Queues /\ q1 \in Queues
      /\ p = head[q0] /\ ~Empty(q0) /\ Begin(p, q1, keep) /\ term' = term
  BY DEF IInv, Takes
<1>1. /\ Ghost(ps, g, h, n) /\ "down" \in Queues /\ "tx" \in Queues /\ "down" \in Engines
      /\ "tx" \in Engines /\ QueueOK(mem, q0, ps[q0], head[q0], term[q0], g)
      /\ DownOK(mem, ps["down"], g, n["down"], cur["down"], term["down"])
      /\ TxOK(mem, ps["tx"], n["tx"], cur["tx"], term["tx"], halt)
  BY <1>0 DEF Shape, QueuesOK, Queues, Engines
<1>2. \A q \in Queues : ps[q] \in Seq(Descs) /\ Len(ps[q]) \in Nat
  BY <1>1, SeqIsFunction DEF Ghost
<1>3. Len(ps[q0]) >= 1 /\ p = ps[q0][1] /\ 1 \in 1 .. Len(ps[q0])
  BY <1>0, <1>1, <1>2, QueueHead DEF Empty
<1>4. /\ \A q \in Queues : \A i \in 1 .. Len(ps[q]) :
           q # q0 \/ i # 1 => mem'[ps[q][i]] = mem[ps[q][i]]
      /\ \A e \in Engines : \A i \in Nat : i >= 1 /\ (e # q0 \/ i # 1) =>
           mem'[At(ps[e], i, term[e])] = mem[At(ps[e], i, term[e])]
      /\ pc' = "status"
  BY BeginRest
<1>5. /\ n["down"] \in Nat /\ n["tx"] \in Nat
      /\ (q0 = "down" => n["down"] >= 1) /\ (q0 = "tx" => n["tx"] >= 1)
  BY <1>1, <1>2, <1>3 DEF DownOK, TxOK, Ghost
<1> DEFINE ps2 == [ps EXCEPT ![q0] = Tail(@)]
           n2  == [e \in Engines |-> IF e = q0 THEN n[e] - 1 ELSE n[e]]
<1>6. /\ ps2["down"] = IF q0 = "down" THEN Tail(ps["down"]) ELSE ps["down"]
      /\ ps2["tx"] = IF q0 = "tx" THEN Tail(ps["tx"]) ELSE ps["tx"]
  BY <1>0, <1>1 DEF Ghost
<1>7. /\ n2 \in [Engines -> Nat]
      /\ n2["down"] = IF q0 = "down" THEN n["down"] - 1 ELSE n["down"]
      /\ n2["tx"] = IF q0 = "tx" THEN n["tx"] - 1 ELSE n["tx"]
  BY <1>1, <1>5 DEF Ghost, Engines
<1>8. UNCHANGED <<cur, run, halt>>
  BY DEF engine
<1>9. DownOK(mem', ps2["down"], g, n2["down"], cur'["down"], term["down"])
  <2>1. CASE q0 = "down"
    <3>1. \A i \in 2 .. Len(ps["down"]) : mem'[ps["down"][i]].own = mem[ps["down"][i]].own
      BY <1>1, <1>2, <1>4
    <3> QED
      BY <1>1, <1>2, <1>5, <1>6, <1>7, <1>8, <2>1, <3>1, DownTail
  <2>2. CASE q0 # "down"
    BY <1>1, <1>2, <1>4, <1>6, <1>7, <1>8, <2>2, DownFrame
  <2> QED
    BY <2>1, <2>2
<1>10. TxOK(mem', ps2["tx"], n2["tx"], cur'["tx"], term["tx"], halt')
  <2>1. CASE q0 = "tx"
    <3>1. \A i \in 2 .. Len(ps["tx"]) : mem'[ps["tx"][i]] = mem[ps["tx"][i]]
      BY <1>1, <1>2, <1>4
    <3> QED
      BY <1>1, <1>2, <1>3, <1>5, <1>6, <1>7, <1>8, <2>1, <3>1, TxTail
  <2>2. CASE q0 # "tx"
    BY <1>1, <1>2, <1>4, <1>6, <1>7, <1>8, <2>2, TxFrame
  <2> QED
    BY <2>1, <2>2
<1>11. WakeOK'
  <2>1. mem'[cur'["down"]] = mem[cur["down"]] /\ run' = run
    <3> DEFINE i == n["down"] + 1
    <3>1. cur["down"] = At(ps["down"], i, term["down"])
      BY <1>1 DEF DownOK
    <3>2. i \in Nat /\ i >= 1 /\ ("down" # q0 \/ i # 1)
      BY <1>5
    <3> HIDE DEF i
    <3>3. mem'[At(ps["down"], i, term["down"])] = mem[At(ps["down"], i, term["down"])]
      BY <1>1, <1>4, <3>2
    <3> QED
      BY <1>8, <3>1, <3>3
  <2>2. mem[cur["down"]].own = "HW" => run["down"]
    BY <1>0, <1>1 DEF WakeOK, Due
  <2>3. CASE q1 = "tx"
    <3>1. Due("tx")'
      BY <1>0, <1>4, <2>3 DEF Due, InHand, Begin
    <3> QED
      BY <2>1, <2>2, <3>1 DEF WakeOK, Engines
  <2>4. CASE q1 # "tx"
    <3>1. pc = "idle"
      BY <2>4
    <3>2. ~halt => mem'[cur'["tx"]] = mem[cur["tx"]]
      BY <1>1, <1>4, <1>5, <1>8 DEF TxOK
    <3>3. mem[cur["tx"]].own = "HW" /\ ~halt => run["tx"]
      BY <1>0, <1>1, <3>1 DEF WakeOK, Due, InHand
    <3> QED
      BY <1>8, <2>1, <2>2, <3>2, <3>3 DEF WakeOK, Engines
  <2> QED
    BY <2>3, <2>4
<1> HIDE DEF ps2, n2
<1>12. /\ cur' \in [Engines -> Descs] /\ run' \in [Engines -> BOOLEAN] /\ halt' \in BOOLEAN
       /\ ps2 = [ps EXCEPT ![q0] = Tail(@)] /\ UNCHANGED reserve
  BY <1>0, <1>8 DEF TypeOK, ps2
<1>13. Counted(n, n2, q0)
  BY <1>5, <1>7 DEF Engines, Counted
<1> QED
  BY <1>7, <1>9, <1>10, <1>11, <1>12, <1>13, Begins

\* handle_download() with wlan_tx() keeps the invariant.
LEMMA StepTakeDown == IInv /\ TakeDown => IInv' /\ Pipe!TakeArrived
<1> SUFFICES ASSUME IInv, TakeDown PROVE IInv' /\ Pipe!TakeArrived
  OBVIOUS
<1>1. PICK ps, g, h, n : Shape(ps, g, h, n)
  BY DEF IInv, Shaped
<1>2. Takes(ps, g, h, n, "down", "tx", head["down"], TRUE)
  BY <1>1 DEF IInv, TakeDown, Completed, InHand, Takes, Queues
<1>3. UNCHANGED <<engine, reserve>> /\ mem[head["down"]].own # "HW" /\ pc = "idle"
  BY DEF TakeDown, Completed
<1>4. IInv' /\ Taking("down")
  BY <1>2, <1>3, TakesKeeps
<1>5. dst' = "tx" /\ fwAvail' = fwAvail /\ "down" \in Queues
  BY <1>3 DEF TakeDown, Begin, reserve, Queues
<1> QED
  BY <1>4, <1>5, PipeTakes

\* A frame the block ack missed goes to tx_retry: the invariant is kept.
LEMMA StepTxRetryLater == IInv /\ TxRetryLater => IInv' /\ Pipe!TakeSent("retry")
<1> SUFFICES ASSUME IInv, TxRetryLater PROVE IInv' /\ Pipe!TakeSent("retry")
  OBVIOUS
<1>1. PICK ps, g, h, n : Shape(ps, g, h, n)
  BY DEF IInv, Shaped
<1>2. Takes(ps, g, h, n, "tx", "retry", head["tx"], TRUE)
  BY <1>1 DEF IInv, TxRetryLater, Completed, InHand, Takes, Queues
<1>3. /\ UNCHANGED <<engine, reserve>> /\ mem[head["tx"]].own # "HW" /\ pc = "idle"
      /\ mem[head["tx"]].ctrl # "TXFAIL"
  BY DEF TxRetryLater, Completed
<1>4. IInv' /\ Taking("tx")
  BY <1>2, <1>3, TakesKeeps
<1>5. dst' = "retry" /\ fwAvail' = fwAvail /\ "tx" \in Queues
  BY <1>3 DEF TxRetryLater, Begin, reserve, Queues
<1> QED
  BY <1>4, <1>5, PipeTakes

\* Moving a packet of tx_retry back to its queue keeps the invariant.
LEMMA StepTakeRetry == IInv /\ TakeRetry => IInv' /\ Pipe!TakeRetry
<1> SUFFICES ASSUME IInv, TakeRetry PROVE IInv' /\ Pipe!TakeRetry
  OBVIOUS
<1>1. PICK ps, g, h, n : Shape(ps, g, h, n)
  BY DEF IInv, Shaped
<1>2. Takes(ps, g, h, n, "retry", "tx", head["retry"], TRUE)
  BY <1>1 DEF IInv, TakeRetry, InHand, Takes, Queues
<1>3. UNCHANGED <<engine, reserve>> /\ (pc = "idle" \/ pc = "retry")
  BY DEF TakeRetry
<1>4. IInv' /\ Taking("retry")
  BY <1>2, <1>3, TakesKeeps DEF Engines
<1>5. dst' = "tx" /\ fwAvail' = fwAvail /\ "retry" \in Queues
  BY <1>3 DEF TakeRetry, Begin, reserve, Queues
<1> QED
  BY <1>4, <1>5, PipeTakes

-----------------------------------------------------------------------------
(* The steps of dma_put() and dma_reclaim() *)

\* A queue is kept when only its terminator is written.
LEMMA QueueTermFrame ==
  ASSUME NEW m1, NEW m2, NEW q, NEW s, NEW hd, NEW tm \in Descs, NEW g1, NEW g2,
         QueueOK(m1, q, s, hd, tm, g1), g2.tag[tm] = q, g2.fst[tm] = tm,
         \A d \in Descs : g1.tag[g1.fst[d]] = q /\ d # tm => Kept(m1, m2, g1, g2, d)
  PROVE  QueueOK(m2, q, s, hd, tm, g2)
<1>1. /\ s \in Seq(Descs) /\ Len(s) \in Nat /\ (\A i \in 1 .. Len(s) : s[i] \in Descs)
      /\ Without(s, tm) /\ g1.fst[tm] = tm
  BY SeqIsFunction DEF QueueOK, IsRing
<1>2. ASSUME NEW i \in 1 .. Len(s)
      PROVE  Member(m2, q, s[i], g2) /\ After(m2)[s[i]] = After(m1)[s[i]]
  <2>0. s[i] \in Descs
    BY <1>1
  <2>1. Member(m1, q, s[i], g1) /\ s[i] # tm
    BY <1>1 DEF QueueOK, Without
  <2>2. g1.tag[s[i]] = q /\ g1.fst[s[i]] = s[i]
    BY <2>1 DEF Member
  <2>3. \A d \in Descs : g1.fst[d] = s[i] => Same(m1, m2, d) /\ g2.fst[d] = s[i]
    BY <1>1, <2>1, <2>2 DEF Kept
  <2>4. g2.tag[s[i]] = q /\ g2.pk[s[i]] = g1.pk[s[i]]
    BY <2>0, <2>1, <2>2 DEF Kept
  <2> DEFINE y == s[i]
  <2>5. /\ y \in Descs /\ Member(m1, q, y, g1) /\ g2.tag[y] = q /\ g2.pk[y] = g1.pk[y]
        /\ \A d \in Descs : g1.fst[d] = y => Same(m1, m2, d) /\ g2.fst[d] = y
    BY <2>0, <2>1, <2>3, <2>4
  <2> HIDE DEF y
  <2>6. Member(m2, q, y, g2) /\ After(m2)[y] = After(m1)[y]
    BY <2>5, MemberFrame
  <2> QED
    BY <2>6 DEF y
<1>3. IsRing(m2, s, hd, tm)
  BY <1>1, <1>2 DEF QueueOK, IsRing, Leads
<1> QED
  BY <1>2, <1>3 DEF QueueOK

\* The status word copied into the terminator: the invariant is kept.
LEMMA StepCopyStatus == IInv /\ CopyStatus => IInv' /\ UNCHANGED Pipe!vars
<1> SUFFICES ASSUME IInv, CopyStatus PROVE IInv' /\ UNCHANGED Pipe!vars
  OBVIOUS
<1>1. PICK ps, g, h, n : Shape(ps, g, h, n)
  BY DEF IInv, Shaped
<1>2. /\ TypeOK /\ TermOK /\ WakeOK /\ InHand /\ InHand'
      /\ UNCHANGED <<head, term, cur, run, halt, td, dst, desc, fwDesc, fwAvail>>
      /\ pc = "status" /\ pc' = "body"
  BY DEF IInv, CopyStatus, InHand, queues, engine, reserve
<1>3. mem' = mem
  <2>1. mem[term[dst]] = Cleared(term[dst]) /\ dst \in Queues /\ term[dst] \in Descs
    BY <1>2 DEF TermOK, TypeOK
  <2>2. td.own = "SW" /\ td.ctrl = "ok"
    BY <1>1, <1>2 DEF Shape, HeldOK, HandOK
  <2>3. mem \in [Descs -> Descriptor]
    BY <1>2 DEF TypeOK
  <2> DEFINE x == term[dst]
  <2>4. mem' = [mem EXCEPT ![x] = [mem[x] EXCEPT !.own = "SW", !.ctrl = "ok"]]
    BY <2>1, <2>2, <2>3 DEF CopyStatus
  <2> HIDE DEF x
  <2>5. [Cleared(x) EXCEPT !.own = "SW", !.ctrl = "ok"] = Cleared(x)
    <3> DEFINE r1 == [Cleared(x) EXCEPT !.own = "SW"]
    <3>1. r1 = Cleared(x)
      BY DEF Cleared
    <3>2. [r1 EXCEPT !.ctrl = "ok"] = r1
      BY <3>1 DEF Cleared
    <3>3. [Cleared(x) EXCEPT !.own = "SW", !.ctrl = "ok"] = [r1 EXCEPT !.ctrl = "ok"]
      BY DEF Cleared
    <3> QED
      BY <3>1, <3>2, <3>3
  <2>6. mem[x] = Cleared(x) /\ x \in Descs
    BY <2>1 DEF x
  <2> QED
    BY <2>3, <2>4, <2>5, <2>6
<1>4. TypeOK' /\ TermOK' /\ PcOK'
  BY <1>2, <1>3 DEF TypeOK, TermOK, PcOK, Cleared
<1>5. WakeOK'
  BY <1>2, <1>3 DEF WakeOK, Due
<1>6. NextShape(ps, g, h, n)
  BY <1>1, <1>2, <1>3 DEF NextShape, Shape, QueuesOK, HeldOK, HomeOK
<1>7. IInv'
  BY <1>4, <1>5, <1>6, Reshape DEF IInv
<1> DEFINE z == term[dst]
<1>8. g.fst[z] = z /\ desc # z /\ \A q \in Queues : \A i \in 1 .. Len(ps[q]) : ps[q][i] # z
  <2>1. dst \in Queues /\ dst # "held"
    BY <1>2 DEF TypeOK, Queues
  <2>2. g.tag[desc] = "held"
    BY <1>1, <1>2 DEF Shape, HeldOK, HandOK
  <2> QED
    BY <1>1, <1>2, <2>1, <2>2, PlacesOf
<1> HIDE DEF z
<1>9. SteadyIf(ps, g, h, n, z)
  BY <1>1, <1>2, <1>3, <1>4, <1>6, <1>8 DEF SteadyIf, DataKept
<1> QED
  BY <1>7, <1>9, Steady

\* The rest copied into the terminator: the invariant is kept.
LEMMA StepCopyBody == IInv /\ CopyBody => IInv' /\ UNCHANGED Pipe!vars
<1> SUFFICES ASSUME IInv, CopyBody PROVE IInv' /\ UNCHANGED Pipe!vars
  OBVIOUS
<1>1. PICK ps, g, h, n : Shape(ps, g, h, n)
  BY DEF IInv, Shaped
<1> DEFINE x == term[dst]
<1>2. /\ TypeOK /\ TermOK /\ WakeOK /\ InHand /\ InHand' /\ dst \in Queues /\ x \in Descs
      /\ UNCHANGED <<head, term, cur, run, halt, td, dst, desc, fwDesc, fwAvail>>
      /\ pc = "body" /\ pc' = "publish" /\ mem' = [mem EXCEPT ![x] = td] /\ desc \in Descs
  BY DEF IInv, CopyBody, InHand, queues, engine, reserve, TypeOK
<1>3. /\ mem \in [Descs -> Descriptor] /\ td \in Descriptor
      /\ \A q \in Queues :
           /\ ps[q] \in Seq(Descs) /\ term[q] \in Descs
           /\ g.tag[term[q]] = q /\ g.fst[term[q]] = term[q]
           /\ \A i \in 1 .. Len(ps[q]) :
                ps[q][i] \in Descs /\ g.tag[ps[q][i]] = q /\ ps[q][i] # term[q]
      /\ \A e \in Engines : g.tag[cur[e]] = e /\ g.fst[cur[e]] = cur[e]
  BY <1>1, <1>2, PlacesOf DEF TypeOK
<1>4. g.tag[x] = dst /\ g.fst[x] = x /\ dst # "held"
  BY <1>2, <1>3 DEF Queues
<1> HIDE DEF x
<1>5. \A d \in Descs : d # x => mem'[d] = mem[d]
  BY <1>2, <1>3
<1>6. mem'[x] = td
  BY <1>2, <1>3
<1>7. /\ DownOK(mem, ps["down"], g, n["down"], cur["down"], term["down"])
      /\ TxOK(mem, ps["tx"], n["tx"], cur["tx"], term["tx"], halt)
      /\ HandOK(mem, h, desc, td, dst, term[dst], g)
      /\ \A q \in Queues : QueueOK(mem, q, ps[q], head[q], term[q], g)
  BY <1>1, <1>2 DEF Shape, HeldOK, QueuesOK
<1>8. TypeOK' /\ PcOK'
  BY <1>2, <1>3 DEF TypeOK, PcOK
<1>9. TermOK'
  <2> SUFFICES ASSUME NEW q \in Queues
               PROVE  mem'[term[q]] = IF q = dst THEN td ELSE Cleared(term[q])
    BY <1>2 DEF TermOK, Cleared
  <2>1. CASE q = dst
    BY <1>6, <2>1 DEF x
  <2>2. CASE q # dst
    <3>1. term[q] # x /\ term[q] \in Descs
      BY <1>3, <1>4, <2>2
    <3>2. mem[term[q]] = Cleared(term[q])
      BY <1>2 DEF TermOK
    <3> QED
      BY <1>5, <2>2, <3>1, <3>2
  <2> QED
    BY <2>1, <2>2
<1>10. \A q \in Queues : \A i \in 1 .. Len(ps[q]) : mem'[ps[q][i]] = mem[ps[q][i]]
  <2> SUFFICES ASSUME NEW q \in Queues, NEW i \in 1 .. Len(ps[q]) PROVE ps[q][i] # x
    BY <1>3, <1>5
  <2> QED
    BY <1>3, <1>4 DEF x
<1>11. WakeOK'
  <2> SUFFICES ASSUME NEW e \in Engines, mem'[cur[e]].own = "HW", ~(e = "tx" /\ halt)
               PROVE  run[e] \/ Due(e)'
    BY <1>2 DEF WakeOK
  <2>1. td.own = "SW"
    BY <1>7 DEF HandOK
  <2>2. cur[e] # x /\ cur[e] \in Descs
    BY <1>2, <1>6, <2>1 DEF TypeOK
  <2>3. run[e] \/ Due(e)
    BY <1>2, <1>5, <2>2 DEF WakeOK
  <2> QED
    BY <1>2, <2>3 DEF Due
<1>12. HandOK(mem', h, desc, td, dst, term[dst], g)
  <2>1. \A d \in Descs : g.tag[g.fst[d]] = "held" =>
          mem'[d] = mem[d] /\ g.fst[d] = g.fst[d] /\ g.tag[d] = g.tag[d]
    BY <1>4, <1>5
  <2> QED
    BY <1>2, <1>7, <2>1, HandFrame
<1>13. \A q \in Queues : QueueOK(mem', q, ps[q], head[q], term[q], g)
  <2> SUFFICES ASSUME NEW q \in Queues PROVE QueueOK(mem', q, ps[q], head[q], term[q], g)
    OBVIOUS
  <2>1. \A d \in Descs : g.tag[g.fst[d]] = q /\ d # term[q] => Kept(mem, mem', g, g, d)
    BY <1>4, <1>5 DEF Kept, Same, x
  <2>2. g.tag[term[q]] = q /\ g.fst[term[q]] = term[q] /\ term[q] \in Descs
    BY <1>3
  <2>3. QueueOK(mem, q, ps[q], head[q], term[q], g)
    BY <1>7
  <2> QED
    BY <2>1, <2>2, <2>3, QueueTermFrame
<1>14. /\ DownOK(mem', ps["down"], g, n["down"], cur["down"], term["down"])
       /\ TxOK(mem', ps["tx"], n["tx"], cur["tx"], term["tx"], halt)
  <2>1. "down" \in Queues /\ "tx" \in Queues
    BY DEF Queues
  <2>2. ps["down"] \in Seq(Descs) /\ ps["tx"] \in Seq(Descs)
    BY <1>3, <2>1
  <2>3. \A i \in 1 .. Len(ps["down"]) :
          mem'[ps["down"][i]].own = mem[ps["down"][i]].own /\ g.pk[ps["down"][i]] = g.pk[ps["down"][i]]
    BY <1>10, <2>1
  <2>4. \A i \in 1 .. Len(ps["tx"]) : /\ mem'[ps["tx"][i]].own = mem[ps["tx"][i]].own
                                      /\ mem'[ps["tx"][i]].ctrl = mem[ps["tx"][i]].ctrl
    BY <1>10, <2>1
  <2>5. DownOK(mem', ps["down"], g, n["down"], cur["down"], term["down"])
    BY <1>7, <2>2, <2>3, DownFrame
  <2>6. TxOK(mem', ps["tx"], n["tx"], cur["tx"], term["tx"], halt)
    BY <1>7, <2>2, <2>4, TxFrame
  <2> QED
    BY <2>5, <2>6
<1>15. NextShape(ps, g, h, n)
  BY <1>1, <1>2, <1>12, <1>13, <1>14 DEF NextShape, Shape, HomeOK
<1>16. IInv'
  BY <1>8, <1>9, <1>11, <1>15, Reshape DEF IInv
<1>17. desc # x /\ \A q \in Queues : \A i \in 1 .. Len(ps[q]) : ps[q][i] # x
  BY <1>2, <1>3, <1>4, <1>7 DEF HandOK, x
<1>18. SteadyIf(ps, g, h, n, x)
  BY <1>1, <1>2, <1>4, <1>5, <1>8, <1>15, <1>17 DEF SteadyIf, DataKept
<1> QED
  BY <1>16, <1>18, Steady

\* One packet more at the end of a queue whose packets keep their buffers.
Appends(m, g, s, lo, m2, g2, r) ==
  /\ Slice(m, g, s, lo, Len(s)) /\ m2 \in [Descs -> Descriptor] /\ g2.pk \in [Descs -> Seq(Descs)]
  /\ r \in Seq(Descs) /\ Len(r) = Len(s) + 1 /\ \A i \in 1 .. Len(s) : r[i] = s[i]
  /\ \A i \in 1 .. Len(s) : Buf(m2, g2.pk[s[i]]) = Buf(m, g.pk[s[i]])

LEMMA BufsAppend ==
  ASSUME NEW m, NEW g, NEW s, NEW lo, NEW m2, NEW g2, NEW r, Appends(m, g, s, lo, m2, g2, r)
  PROVE  Bufs(m2, g2, r, lo, Len(s) + 1)
           = Append(Bufs(m, g, s, lo, Len(s)), Buf(m2, g2.pk[r[Len(s) + 1]]))
<1> DEFINE L == Len(s)
<1>1. lo \in Nat /\ L \in Nat /\ lo <= L /\ Len(r) = L + 1
  BY SeqIsFunction DEF Appends, Slice
<1>2. Slice(m2, g2, r, lo, L) /\ L < Len(r)
  BY <1>1 DEF Appends, Slice
<1>3. \A i \in 1 .. L - lo : lo + i \in 1 .. L
  BY <1>1
<1>4. \A i \in 1 .. L : r[i] = s[i] /\ Buf(m2, g2.pk[s[i]]) = Buf(m, g.pk[s[i]])
  BY DEF Appends
<1> HIDE DEF L
<1>5. Bufs(m2, g2, r, lo, L + 1) = Append(Bufs(m2, g2, r, lo, L), Buf(m2, g2.pk[r[L + 1]]))
  BY <1>2, BufsMore
<1>6. Bufs(m2, g2, r, lo, L) = Bufs(m, g, s, lo, L)
  BY <1>3, <1>4 DEF Bufs
<1> QED
  BY <1>5, <1>6 DEF L

\* Free descriptors at the end of the down queue, by their buffers.
LEMMA FreesJoin ==
  ASSUME NEW m \in [Descs -> Descriptor], NEW m2 \in [Descs -> Descriptor],
         NEW s \in Seq(Descs), NEW u \in Seq(Descs), NEW k \in 0 .. Len(s),
         \A i \in 1 .. Len(s) : m2[s[i]].data = m[s[i]].data
  PROVE  Frees(m2, s \o u, k) = Frees(m, s, k) \o Buf(m2, u)
<1> DEFINE r == s \o u
           a == Frees(m2, r, k)
           b == Frees(m, s, k)
           v == Buf(m2, u)
           L == Len(s)
           U == Len(u)
<1>1. L \in Nat /\ U \in Nat /\ \A i \in 1 .. L : s[i] \in Descs
  BY SeqIsFunction
<1>2. /\ r \in Seq(Descs) /\ Len(r) = L + U
      /\ \A i \in 1 .. L + U : r[i] = IF i <= L THEN s[i] ELSE u[i - L]
  BY ConcatProperties
<1>3. v \in Seq(Words) /\ Len(v) = U /\ \A j \in 1 .. U : v[j] = m2[u[j]].data
  BY BufIs
<1>4. \A d \in Descs : m[d].data \in Words /\ m2[d].data \in Words
  BY DEF Descriptor, Words
<1>5. \A i \in 1 .. L + U : r[i] \in Descs
  BY <1>2, SeqIsFunction
<1>6. k \in Nat /\ k <= L /\ L - k \in Nat /\ L + U - k \in Nat
  BY <1>1
<1>7. /\ \A i \in 1 .. L - k : k + i \in 1 .. L
      /\ \A i \in 1 .. L + U - k : k + i \in 1 .. L + U
  BY <1>1
<1> HIDE DEF r, v, L, U
<1>8. b = [i \in 1 .. Len(s) - k |-> m[s[k + i]].data]
  BY DEF Frees
<1>9. a = [i \in 1 .. L + U - k |-> m2[r[k + i]].data]
  <2>1. Len(r) - k = L + U - k
    BY <1>1, <1>2, <1>6
  <2>2. a = [i \in 1 .. Len(r) - k |-> m2[r[k + i]].data]
    BY DEF Frees
  <2> QED
    BY <2>1, <2>2
<1> HIDE DEF a, b
<1>10. b \in Seq(Words) /\ Len(b) = L - k /\ \A i \in 1 .. L - k : b[i] = m[s[k + i]].data
  <2> DEFINE F(i) == m[s[k + i]].data
             A == Len(s) - k
  <2>1. \A i \in 1 .. A : F(i) \in Words
    BY <1>1, <1>4, <1>7 DEF L
  <2>2. b = [i \in 1 .. A |-> F(i)] /\ A \in Nat
    BY <1>6, <1>8 DEF L
  <2> HIDE DEF F, A
  <2>3. b \in Seq(Words) /\ Len(b) = A /\ \A i \in 1 .. A : b[i] = F(i)
    BY <2>1, <2>2
  <2> QED
    BY <2>3 DEF F, A, L
<1>11. a \in Seq(Words) /\ Len(a) = L + U - k /\ \A i \in 1 .. L + U - k : a[i] = m2[r[k + i]].data
  <2> DEFINE F(i) == m2[r[k + i]].data
             A == L + U - k
  <2>1. \A i \in 1 .. A : F(i) \in Words
    BY <1>4, <1>5, <1>7
  <2>2. a = [i \in 1 .. A |-> F(i)] /\ A \in Nat
    BY <1>6, <1>9
  <2> HIDE DEF F, A
  <2>3. a \in Seq(Words) /\ Len(a) = A /\ \A i \in 1 .. A : a[i] = F(i)
    BY <2>1, <2>2
  <2> QED
    BY <2>3 DEF F, A
<1>12. /\ b \o v \in Seq(Words) /\ Len(b \o v) = Len(b) + Len(v)
       /\ \A i \in 1 .. Len(b) + Len(v) : (b \o v)[i] = IF i <= Len(b) THEN b[i] ELSE v[i - Len(b)]
  BY <1>3, <1>10, ConcatProperties
<1>13. Len(b) + Len(v) = L + U - k /\ Len(b) = L - k
  BY <1>1, <1>3, <1>6, <1>10
<1>14. ASSUME NEW i \in 1 .. Len(a) PROVE a[i] = (b \o v)[i]
  <2>1. i \in 1 .. L + U - k
    BY <1>11
  <2>2. a[i] = m2[r[k + i]].data /\ (b \o v)[i] = IF i <= L - k THEN b[i] ELSE v[i - (L - k)]
    BY <1>11, <1>12, <1>13, <2>1
  <2>3. CASE i <= L - k
    <3>1. i \in 1 .. L - k /\ k + i \in 1 .. L /\ k + i <= L /\ k + i \in 1 .. L + U
      BY <1>1, <1>6, <2>1, <2>3
    <3>2. r[k + i] = s[k + i] /\ m2[s[k + i]].data = m[s[k + i]].data
      BY <1>2, <3>1 DEF L
    <3> QED
      BY <1>10, <2>2, <2>3, <3>1, <3>2
  <2>4. CASE ~(i <= L - k)
    <3>1. /\ k + i \in 1 .. L + U /\ ~(k + i <= L) /\ i - (L - k) \in 1 .. U
          /\ (k + i) - L = i - (L - k)
      BY <1>1, <1>6, <2>1, <2>4
    <3>2. r[k + i] = u[(k + i) - L]
      BY <1>2, <3>1
    <3> QED
      BY <1>3, <2>2, <2>4, <3>1, <3>2
  <2> QED
    BY <2>3, <2>4
<1>15. a = b \o v
  BY <1>11, <1>12, <1>13, <1>14, SameSeq
<1> QED
  BY <1>15 DEF a, b, v, r

\* What the firmware had in its hands is at the end of queue dst.
Dropped(ps, g, h, n, ps2, g2, h2, f) ==
  /\ Seen(ps, g, h, n) /\ Seen(ps2, g2, h2, n)'
  /\ InHand /\ ~InHand' /\ dst \in Queues
  /\ f = <<td.data>> \o Buf(mem, h) /\ f # <<>>
  /\ \A q \in Queues : q # dst => Like(ps, g, n, ps2, g2, n, q)
  /\ dst = "down" => /\ Front(mem', g2, ps2, n, "down") = Front(mem, g, ps, n, "down")
                     /\ Frees(mem', ps2["down"], n["down"]) = Frees(mem, ps["down"], n["down"]) \o f
  /\ dst = "tx" => /\ Front(mem', g2, ps2, n, "tx") = Front(mem, g, ps, n, "tx")
                   /\ Back(mem', g2, ps2, n, "tx") = Append(Back(mem, g, ps, n, "tx"), f)
  /\ dst = "retry" => Front(mem', g2, ps2, n, "retry") = Append(Front(mem, g, ps, n, "retry"), f)
  /\ fwAvail' = fwAvail

\* To the pipe, appending a packet to a ring is dropping it.
LEMMA PipeDrops ==
  ASSUME NEW ps, NEW g, NEW h, NEW n, NEW ps2, NEW g2, NEW h2, NEW f,
         Dropped(ps, g, h, n, ps2, g2, h2, f)
  PROVE  Pipe!Drop
<1>1. /\ Seen(ps, g, h, n) /\ Seen(ps2, g2, h2, n)'
      /\ InHand /\ ~InHand' /\ f = <<td.data>> \o Buf(mem, h) /\ f # <<>> /\ fwAvail' = fwAvail
  BY DEF Dropped
<1>2. Held = f /\ Held' = <<>>
  BY <1>1 DEF Seen
<1>3. "down" \in Queues /\ "tx" \in Queues /\ "retry" \in Queues
  BY DEF Queues
<1>4. CASE dst = "down"
  <2>1. /\ Like(ps, g, n, ps2, g2, n, "tx") /\ Like(ps, g, n, ps2, g2, n, "retry")
        /\ Front(mem', g2, ps2, n, "down") = Front(mem, g, ps, n, "down")
        /\ Frees(mem', ps2["down"], n["down"]) = Frees(mem, ps["down"], n["down"]) \o f
    BY <1>3, <1>4 DEF Dropped
  <2> QED
    BY <1>1, <1>2, <1>4, <2>1 DEF Seen, Like, Pipe!Drop
<1>5. CASE dst = "tx"
  <2>1. /\ Like(ps, g, n, ps2, g2, n, "down") /\ Like(ps, g, n, ps2, g2, n, "retry")
        /\ Front(mem', g2, ps2, n, "tx") = Front(mem, g, ps, n, "tx")
        /\ Back(mem', g2, ps2, n, "tx") = Append(Back(mem, g, ps, n, "tx"), f)
    BY <1>3, <1>5 DEF Dropped
  <2> QED
    BY <1>1, <1>2, <1>5, <2>1 DEF Seen, Like, Pipe!Drop
<1>6. CASE dst = "retry"
  <2>1. /\ Like(ps, g, n, ps2, g2, n, "down") /\ Like(ps, g, n, ps2, g2, n, "tx")
        /\ Front(mem', g2, ps2, n, "retry") = Append(Front(mem, g, ps, n, "retry"), f)
    BY <1>3, <1>6 DEF Dropped
  <2> QED
    BY <1>1, <1>2, <1>6, <2>1 DEF Seen, Like, Pipe!Drop
<1> QED
  BY <1>4, <1>5, <1>6 DEF Dropped, Queues

\* Handing the old terminator to the engine appends the packet (or, in the down
\* queue, each of its descriptors) and keeps the invariant.
LEMMA StepPublish == IInv /\ Publish => IInv' /\ Pipe!Drop
<1> SUFFICES ASSUME IInv, Publish PROVE IInv' /\ Pipe!Drop
  OBVIOUS
<1>1. PICK ps, g, h, n : Shape(ps, g, h, n)
  BY DEF IInv, Shaped
<1> DEFINE t   == term[dst]
           hs  == {h[j] : j \in 1 .. Len(h)}
           u   == IF dst = "down" THEN <<t>> \o h ELSE <<t>>
           g2  == [pk  |-> [x \in Descs |-> IF x = t THEN (IF dst = "down" THEN <<t>> ELSE <<t>> \o h)
                                            ELSE IF x \in hs THEN <<x>> ELSE g.pk[x]],
                   tag |-> [x \in Descs |-> IF x = desc \/ x \in hs THEN dst ELSE g.tag[x]],
                   fst |-> [x \in Descs |-> IF x \in hs THEN (IF dst = "down" THEN x ELSE t)
                                            ELSE g.fst[x]]]
           ps2 == [ps EXCEPT ![dst] = @ \o u]
<1>2. /\ TypeOK /\ TermOK /\ WakeOK /\ PcOK /\ InHand /\ pc = "publish"
      /\ UNCHANGED <<head, cur, run, halt, fwDesc, fwAvail>>
      /\ mem' = [mem EXCEPT ![t].own = "HW"] /\ term' = [term EXCEPT ![dst] = desc]
      /\ pc' = Then /\ td' = Cleared(1) /\ desc' = 1
      /\ dst' = IF pc' = "trigger" THEN dst ELSE "down"
  BY DEF IInv, Publish, InHand, engine, reserve
<1>3. /\ mem \in [Descs -> Descriptor] /\ td \in Descriptor /\ dst \in Queues /\ desc \in Descs
      /\ t \in Descs /\ term \in [Queues -> Descs]
  BY <1>2 DEF TypeOK
<1>4. /\ \A q \in Queues :
           /\ ps[q] \in Seq(Descs) /\ Len(ps[q]) \in Nat /\ term[q] \in Descs
           /\ g.tag[term[q]] = q /\ g.fst[term[q]] = term[q]
           /\ \A i \in 1 .. Len(ps[q]) :
                ps[q][i] \in Descs /\ g.tag[ps[q][i]] = q /\ g.fst[ps[q][i]] = ps[q][i]
      /\ \A e \in Engines : g.tag[cur[e]] = e /\ g.fst[cur[e]] = cur[e]
  BY <1>1, <1>2, PlacesOf
<1>5. /\ DownOK(mem, ps["down"], g, n["down"], cur["down"], term["down"])
      /\ TxOK(mem, ps["tx"], n["tx"], cur["tx"], term["tx"], halt)
      /\ HandOK(mem, h, desc, td, dst, t, g) /\ Ghost(ps, g, h, n) /\ HomeOK(g)
      /\ \A q \in Queues : QueueOK(mem, q, ps[q], head[q], term[q], g)
  BY <1>1, <1>2 DEF Shape, HeldOK, QueuesOK
<1>6. /\ h \in Seq(Descs) /\ Len(h) \in Nat /\ \A j \in 1 .. Len(h) : h[j] \in Descs
  BY <1>5, SeqIsFunction DEF Ghost
<1>7. /\ Inj(h) /\ Without(h, desc) /\ td.next = Start(h, desc) /\ mem[desc] = Cleared(desc)
      /\ g.tag[desc] = "held" /\ g.fst[desc] = desc /\ td.data # Null
      /\ (td.data = FwData => Len(h) = 0 /\ dst # "down")
      /\ td.last = (IF dst # "down" /\ Len(h) # 0 THEN h[Len(h)] ELSE t)
      /\ \A j \in 1 .. Len(h) :
           /\ mem[h[j]].next = IF j < Len(h) THEN h[j + 1] ELSE desc
           /\ g.fst[h[j]] = desc /\ mem[h[j]].data \in Buffers
           /\ dst = "down" => mem[h[j]].last = h[j] /\ mem[h[j]].own = "HW"
  BY <1>5 DEF HandOK
<1>8. /\ g.tag[t] = dst /\ g.fst[t] = t /\ dst # "held" /\ t # desc /\ mem[t] = td
      /\ \A j \in 1 .. Len(h) : h[j] # t
  <2>1. g.tag[t] = dst /\ g.fst[t] = t /\ dst # "held"
    BY <1>3, <1>4 DEF Queues
  <2> QED
    BY <1>2, <1>3, <1>7, <2>1 DEF TermOK
<1> HIDE DEF t
<1>9. /\ \A x \in Descs : x # t => mem'[x] = mem[x]
      /\ mem'[t].own = "HW" /\ mem'[t].next = td.next /\ mem'[t].last = td.last
      /\ mem'[t].data = td.data /\ mem' \in [Descs -> Descriptor]
  <2>1. mem' = [mem EXCEPT ![t] = [td EXCEPT !.own = "HW"]]
    BY <1>2, <1>3, <1>8
  <2>2. [td EXCEPT !.own = "HW"] \in Descriptor
    BY <1>3 DEF Descriptor
  <2>3. mem'[t] = [td EXCEPT !.own = "HW"]
    BY <1>3, <2>1
  <2> QED
    BY <1>3, <2>1, <2>2, <2>3 DEF Descriptor
<1>10. \A x \in Descs : x \in hs => g.fst[x] = desc /\ x # t /\ x # desc
  BY <1>7, <1>8 DEF Without
<1>11. \A j \in 1 .. Len(h) : h[j] \in hs
  OBVIOUS
<1> HIDE DEF hs
<1>12. /\ u \in Seq(Descs) /\ u[1] = t
       /\ Len(u) = (IF dst = "down" THEN Len(h) + 1 ELSE 1)
       /\ \A i \in 2 .. Len(u) : u[i] = h[i - 1] /\ i - 1 \in 1 .. Len(h) /\ dst = "down"
  <2>1. <<t>> \in Seq(Descs) /\ Len(<<t>>) = 1 /\ <<t>>[1] = t
    BY <1>3
  <2>2. CASE dst = "down"
    <3>1. /\ <<t>> \o h \in Seq(Descs) /\ Len(<<t>> \o h) = 1 + Len(h)
          /\ \A i \in 1 .. 1 + Len(h) : (<<t>> \o h)[i] = IF i <= 1 THEN <<t>>[i] ELSE h[i - 1]
      BY <1>6, <2>1, ConcatProperties
    <3> QED
      BY <1>6, <2>1, <2>2, <3>1
  <2>3. CASE dst # "down"
    BY <2>1, <2>3
  <2> QED
    BY <2>2, <2>3
<1> DEFINE c == <<t>> \o h
<1>13. /\ c \in Seq(Descs) /\ Len(c) = Len(h) + 1 /\ c[1] = t
       /\ \A i \in 2 .. Len(c) : c[i] = h[i - 1] /\ i - 1 \in 1 .. Len(h)
  <2>1. <<t>> \in Seq(Descs) /\ Len(<<t>>) = 1 /\ <<t>>[1] = t
    BY <1>3
  <2>2. /\ <<t>> \o h \in Seq(Descs) /\ Len(<<t>> \o h) = 1 + Len(h)
        /\ \A i \in 1 .. 1 + Len(h) : (<<t>> \o h)[i] = IF i <= 1 THEN <<t>>[i] ELSE h[i - 1]
    BY <1>6, <2>1, ConcatProperties
  <2> QED
    BY <1>6, <2>1, <2>2
<1> HIDE DEF u
<1>14. Inj(c)
  <2> SUFFICES ASSUME NEW i \in 1 .. Len(c), NEW j \in 1 .. Len(c), c[i] = c[j] PROVE i = j
    BY DEF Inj
  <2>1. CASE i = 1 /\ j = 1
    BY <2>1
  <2>2. CASE i = 1 /\ j # 1
    BY <1>6, <1>8, <1>13, <2>2
  <2>3. CASE i # 1 /\ j = 1
    BY <1>6, <1>8, <1>13, <2>3
  <2>4. CASE i # 1 /\ j # 1
    <3>1. h[i - 1] = h[j - 1] /\ i - 1 \in 1 .. Len(h) /\ j - 1 \in 1 .. Len(h)
      BY <1>6, <1>13, <2>4
    <3>2. i - 1 = j - 1
      BY <1>7, <3>1 DEF Inj
    <3> QED
      BY <1>6, <1>13, <3>2
  <2> QED
    BY <2>1, <2>2, <2>3, <2>4
<1>15. Inj(u)
  <2>1. \A i \in 1 .. Len(u) : i \in 1 .. Len(c) /\ u[i] = c[i]
    BY <1>6, <1>12, <1>13
  <2> QED
    BY <1>14, <2>1 DEF Inj
<1>16. \A i \in 1 .. Len(u) : u[i] \in Descs /\ (u[i] = t \/ u[i] \in hs)
  BY <1>3, <1>6, <1>11, <1>12
<1>17. Without(u, desc)
  BY <1>8, <1>10, <1>16 DEF Without
<1> HIDE DEF c
<1>18. /\ \A x \in Descs : x \notin hs => g2.fst[x] = g.fst[x]
       /\ \A x \in hs : x \in Descs => g2.fst[x] = IF dst = "down" THEN x ELSE t
       /\ \A x \in Descs : x \notin hs /\ x # desc => g2.tag[x] = g.tag[x]
       /\ \A x \in hs : x \in Descs => g2.tag[x] = dst
       /\ g2.tag[desc] = dst /\ g2.pk[t] = IF dst = "down" THEN <<t>> ELSE c
       /\ \A x \in Descs : x \notin hs /\ x # t => g2.pk[x] = g.pk[x]
       /\ \A x \in hs : x \in Descs => g2.pk[x] = <<x>>
  BY <1>3, <1>10 DEF c
<1>19. Ghost(ps2, g2, <<>>, n)
  <2>1. \A x \in Descs : g2.pk[x] \in Seq(Descs) /\ g2.tag[x] \in Places /\ g2.fst[x] \in Descs
    <3> SUFFICES ASSUME NEW x \in Descs
                 PROVE  g2.pk[x] \in Seq(Descs) /\ g2.tag[x] \in Places /\ g2.fst[x] \in Descs
      OBVIOUS
    <3>1. g.pk[x] \in Seq(Descs) /\ g.tag[x] \in Places /\ g.fst[x] \in Descs
      BY <1>5 DEF Ghost
    <3>2. <<x>> \in Seq(Descs) /\ <<t>> \in Seq(Descs) /\ dst \in Places
      BY <1>3 DEF Places
    <3> QED
      BY <1>3, <1>13, <3>1, <3>2 DEF c
  <2>2. g2 \in [pk : [Descs -> Seq(Descs)], tag : [Descs -> Places], fst : [Descs -> Descs]]
    BY <2>1
  <2>3. ps[dst] \o u \in Seq(Descs)
    BY <1>3, <1>4, <1>12
  <2>4. ps2 \in [Queues -> Seq(Descs)]
    BY <1>5, <2>3 DEF Ghost
  <2>5. <<>> \in Seq(Descs) /\ n \in [Engines -> Nat]
    BY <1>5 DEF Ghost
  <2> QED
    BY <2>2, <2>4, <2>5 DEF Ghost
<1>20. /\ ps2[dst] = ps[dst] \o u /\ term'[dst] = desc
       /\ \A q \in Queues : q # dst => ps2[q] = ps[q] /\ term'[q] = term[q]
  BY <1>2, <1>3, <1>5 DEF Ghost
<1> HIDE DEF g2, ps2
<1>21. \A x \in Descs : g.tag[g.fst[x]] # "held" => x \notin hs /\ x # desc
  BY <1>7, <1>10
<1>22. \A x \in Descs : g.tag[g.fst[x]] # "held" /\ x # t => Kept(mem, mem', g, g2, x)
  BY <1>9, <1>18, <1>21 DEF Kept, Same
<1>23. ASSUME NEW i \in 1 .. Len(u) PROVE Member(mem', dst, u[i], g2)
  <2> DEFINE x == u[i]
  <2>1. x \in Descs /\ (x = t \/ x \in hs)
    BY <1>16
  <2>2. g2.tag[x] = dst
    BY <1>8, <1>10, <1>18, <2>1
  <2>3. g2.fst[x] = x
    <3>1. CASE x = t
      BY <1>8, <1>10, <1>18, <2>1, <3>1
    <3>2. CASE x # t
      <4>1. i # 1
        BY <1>12, <3>2
      <4>2. dst = "down"
        BY <1>12, <1>6, <4>1
      <4> QED
        BY <1>18, <2>1, <3>2, <4>2
    <3> QED
      BY <3>1, <3>2
  <2>4. CASE dst = "down"
    <3>1. g2.pk[x] = <<x>>
      BY <1>18, <2>1, <2>4
    <3>2. mem'[x].last = x /\ mem'[x].data # Null /\ mem'[x].data # FwData
      <4>1. CASE x = t
        BY <1>7, <1>9, <2>4, <4>1
      <4>2. CASE x # t
        <5>1. PICK j \in 1 .. Len(h) : x = h[j]
          BY <2>1, <4>2 DEF hs
        <5>2. mem'[x] = mem[x] /\ mem[x].last = x /\ mem[x].data \in Buffers
          BY <1>7, <1>9, <2>1, <2>4, <4>2, <5>1
        <5> QED
          BY <5>2, DmaAssumption DEF Buffers, Null, FwData
      <4> QED
        BY <4>1, <4>2
    <3> HIDE DEF x
    <3>3. <<x>> \in Seq(Descs) /\ Len(<<x>>) = 1 /\ <<x>>[1] = x
      BY <2>1
    <3>4. IsPacket(mem', <<x>>)
      BY <3>2, <3>3 DEF IsPacket, Inj
    <3>5. HasData(mem', <<x>>)
      BY <3>2, <3>3 DEF HasData
    <3>6. \A j \in 1 .. Len(<<x>>) : g2.fst[<<x>>[j]] = x
      BY <2>3, <3>3
    <3> QED
      BY <2>2, <2>3, <3>1, <3>2, <3>3, <3>4, <3>5, <3>6 DEF Member, x
  <2>5. CASE dst # "down"
    <3>1. x = t /\ g2.pk[x] = c
      BY <1>6, <1>12, <1>18, <2>5
    <3>2. IsPacket(mem', c)
      <4>1. ASSUME NEW j \in 1 .. Len(c) - 1 PROVE mem'[c[j]].next = c[j + 1]
        <5>1. CASE j = 1
          <6>1. mem'[c[j]].next = Start(h, desc) /\ Len(h) # 0
            BY <1>6, <1>7, <1>9, <1>13, <5>1
          <6>2. c[j + 1] = h[1]
            BY <1>6, <1>13, <5>1
          <6> QED
            BY <6>1, <6>2 DEF Start
        <5>2. CASE j # 1
          <6>1. c[j] = h[j - 1] /\ c[j + 1] = h[j] /\ j - 1 \in 1 .. Len(h) /\ j - 1 < Len(h)
            BY <1>6, <1>13, <5>2
          <6>2. mem[h[j - 1]].next = h[j]
            BY <1>6, <1>7, <6>1
          <6> QED
            BY <1>6, <1>8, <1>9, <6>1, <6>2
        <5> QED
          BY <5>1, <5>2
      <4>2. mem'[c[1]].last = c[Len(c)]
        BY <1>6, <1>7, <1>9, <1>13, <2>5
      <4> QED
        BY <1>6, <1>13, <1>14, <4>1, <4>2 DEF IsPacket
    <3>3. HasData(mem', c)
      <4>1. \A j \in 2 .. Len(c) : mem'[c[j]].data \in Buffers
        BY <1>6, <1>7, <1>8, <1>9, <1>13
      <4> QED
        BY <1>6, <1>7, <1>9, <1>13, <4>1 DEF HasData
    <3>4. ASSUME NEW j \in 1 .. Len(c) PROVE g2.fst[c[j]] = t
      <4>1. CASE j = 1
        BY <1>13, <2>3, <3>1, <4>1
      <4>2. CASE j # 1
        <5>1. c[j] \in hs /\ c[j] \in Descs
          BY <1>6, <1>11, <1>13, <4>2
        <5> QED
          BY <1>18, <2>5, <5>1
      <4> QED
        BY <4>1, <4>2
    <3> QED
      BY <1>13, <2>2, <2>3, <2>5, <3>1, <3>2, <3>3, <3>4 DEF Member
  <2> QED
    BY <2>4, <2>5
<1>24. Leads(After(mem'), u, desc)
  <2> SUFFICES ASSUME NEW i \in 1 .. Len(u)
               PROVE  After(mem')[u[i]] = IF i < Len(u) THEN u[i + 1] ELSE desc
    BY DEF Leads
  <2>1. CASE i = 1 /\ (dst = "down" \/ Len(h) = 0)
    <3>1. mem'[t].last = t /\ mem'[t].next = Start(h, desc)
      BY <1>7, <1>9, <2>1
    <3>2. After(mem')[t] = Start(h, desc)
      BY <1>3, <3>1 DEF After
    <3>3. CASE Len(h) = 0
      BY <1>12, <2>1, <3>2, <3>3 DEF Start
    <3>4. CASE Len(h) # 0
      <4>1. 2 \in 2 .. Len(u) /\ u[2] = h[1]
        BY <1>6, <1>12, <2>1, <3>4
      <4> QED
        BY <1>6, <1>12, <2>1, <3>2, <3>4, <4>1 DEF Start
    <3> QED
      BY <3>3, <3>4
  <2>2. CASE i = 1 /\ dst # "down" /\ Len(h) # 0
    <3>1. mem'[t].last = h[Len(h)] /\ mem'[h[Len(h)]].next = desc
      BY <1>6, <1>7, <1>8, <1>9, <2>2
    <3>2. After(mem')[t] = desc
      BY <1>3, <3>1 DEF After
    <3> QED
      BY <1>12, <2>2, <3>2
  <2>3. CASE i # 1
    <3>1. u[i] = h[i - 1] /\ i - 1 \in 1 .. Len(h) /\ dst = "down" /\ u[i] \in Descs
      BY <1>12, <1>6, <1>16, <2>3
    <3>2. mem'[u[i]].last = u[i]
      BY <1>7, <1>8, <1>9, <3>1
    <3>3. mem'[u[i]].next = IF i - 1 < Len(h) THEN h[i] ELSE desc
      BY <1>6, <1>7, <1>8, <1>9, <3>1
    <3>4. After(mem')[u[i]] = IF i - 1 < Len(h) THEN h[i] ELSE desc
      BY <3>1, <3>2, <3>3 DEF After
    <3>5. i < Len(u) => u[i + 1] = h[i] /\ i - 1 < Len(h)
      BY <1>6, <1>12, <3>1
    <3>6. ~(i < Len(u)) => ~(i - 1 < Len(h))
      BY <1>6, <1>12, <3>1
    <3> QED
      BY <3>4, <3>5, <3>6
  <2> QED
    BY <2>1, <2>2, <2>3
<1>25. QueueOK(mem', dst, ps[dst] \o u, head[dst], desc, g2)
  <2>1. QueueOK(mem, dst, ps[dst], head[dst], t, g)
    BY <1>3, <1>5 DEF t
  <2>2. \A x \in Descs : g.tag[g.fst[x]] = dst /\ x # t => Kept(mem, mem', g, g2, x)
    BY <1>8, <1>22
  <2>3. Len(u) >= 1 /\ u[1] = t /\ u \in Seq(Descs)
    BY <1>6, <1>12
  <2>4. \A i \in 2 .. Len(u) : g.tag[g.fst[u[i]]] # dst
    BY <1>7, <1>8, <1>12
  <2>5. g.tag[g.fst[desc]] # dst
    BY <1>7, <1>8
  <2>6. g2.tag[desc] = dst /\ g2.fst[desc] = desc
    BY <1>3, <1>7, <1>10, <1>18
  <2> QED
    BY <1>3, <1>15, <1>17, <1>23, <1>24, <2>1, <2>2, <2>3, <2>4, <2>5, <2>6, QueueConcat
<1>26. ASSUME NEW q \in Queues PROVE QueueOK(mem', q, ps2[q], head'[q], term'[q], g2)
  <2>1. CASE q = dst
    BY <1>2, <1>20, <1>25, <2>1
  <2>2. CASE q # dst
    <3>1. \A x \in Descs : g.tag[g.fst[x]] = q => Kept(mem, mem', g, g2, x)
      <4>1. q # "held"
        BY DEF Queues
      <4> QED
        BY <1>8, <1>22, <2>2, <4>1
    <3>2. QueueOK(mem, q, ps[q], head[q], term[q], g) /\ term[q] \in Descs
      BY <1>4, <1>5
    <3>3. QueueOK(mem', q, ps[q], head[q], term[q], g2)
      BY <3>1, <3>2, QueueFrame
    <3> QED
      BY <1>2, <1>20, <2>2, <3>3
  <2> QED
    BY <2>1, <2>2
<1>27. \A q \in Queues : \A i \in 1 .. Len(ps[q]) :
         /\ mem'[ps[q][i]] = mem[ps[q][i]] /\ g2.pk[ps[q][i]] = g.pk[ps[q][i]]
  <2> SUFFICES ASSUME NEW q \in Queues, NEW i \in 1 .. Len(ps[q])
               PROVE  /\ mem'[ps[q][i]] = mem[ps[q][i]] /\ g2.pk[ps[q][i]] = g.pk[ps[q][i]]
    OBVIOUS
  <2>1. ps[q][i] # t
    <3>1. QueueOK(mem, q, ps[q], head[q], term[q], g)
      BY <1>5
    <3> QED
      BY <1>4, <1>8, <3>1 DEF QueueOK, IsRing, Without, t
  <2>2. ps[q][i] \in Descs /\ g.tag[g.fst[ps[q][i]]] # "held"
    BY <1>4 DEF Queues
  <2>3. ps[q][i] \notin hs
    BY <1>21, <2>2
  <2> QED
    BY <1>9, <1>18, <2>1, <2>2, <2>3
<1>28. TypeOK'
  <2>1. pc' \in {"idle", "trigger", "retry"}
    BY <1>2 DEF Then
  <2>2. 1 \in Descs /\ Cleared(1) \in Descriptor
    BY DmaAssumption DEF Descs, Cleared, Descriptor, Null
  <2>3. dst' \in Queues /\ term' \in [Queues -> Descs]
    BY <1>2, <1>3 DEF Queues
  <2> QED
    BY <1>2, <1>9, <2>1, <2>2, <2>3 DEF TypeOK
<1>29. ~InHand' /\ PcOK'
  <2>1. pc' \in {"idle", "trigger", "retry"}
    BY <1>2 DEF Then
  <2>2. pc' = "retry" => dst = "tx" /\ ~Empty("retry")
    BY <1>2 DEF Then
  <2>3. pc' = "retry" => ~Empty("retry")'
    BY <1>2, <1>3, <2>2 DEF Empty, Queues
  <2>4. pc' = "trigger" => dst' \in Engines
    BY <1>2, <1>3 DEF Then, Queues, Engines
  <2> QED
    BY <2>1, <2>3, <2>4 DEF PcOK, InHand
<1>30. TermOK'
  <2> SUFFICES ASSUME NEW q \in Queues PROVE mem'[term'[q]] = Cleared(term'[q])
    BY <1>29 DEF TermOK, InHand
  <2>1. CASE q = dst
    BY <1>3, <1>7, <1>8, <1>9, <1>20, <2>1
  <2>2. CASE q # dst
    <3>1. mem[term[q]] = Cleared(term[q])
      BY <1>2, <2>2 DEF TermOK
    <3>2. term[q] # t /\ term[q] \in Descs
      BY <1>4, <1>8, <2>2
    <3> QED
      BY <1>9, <1>20, <2>2, <3>1, <3>2
  <2> QED
    BY <2>1, <2>2
<1>31. WakeOK'
  <2> SUFFICES ASSUME NEW e \in Engines, mem'[cur[e]].own = "HW", ~(e = "tx" /\ halt)
               PROVE  run[e] \/ Due(e)'
    BY <1>2 DEF WakeOK
  <2>1. CASE e = dst
    <3>1. dst = "down" => pc' = "trigger"
      BY <1>2 DEF Then
    <3>2. dst = "tx" => pc' = "trigger" \/ pc' = "retry"
      BY <1>2 DEF Then
    <3>3. e = "down" \/ e = "tx"
      BY DEF Engines
    <3> QED
      BY <1>2, <2>1, <3>1, <3>2, <3>3 DEF Due
  <2>2. CASE e # dst
    <3>1. cur[e] # t /\ cur[e] \in Descs
      BY <1>2, <1>4, <1>8, <2>2 DEF TypeOK
    <3>2. run[e] \/ Due(e)
      BY <1>2, <1>9, <3>1 DEF WakeOK
    <3> QED
      BY <1>2, <2>2, <3>2 DEF Due
  <2> QED
    BY <2>1, <2>2
<1>32. fwAvail' => g2.tag[fwDesc'] = "home" /\ g2.fst[fwDesc'] = fwDesc'
  <2> SUFFICES ASSUME fwAvail PROVE g2.tag[fwDesc] = "home" /\ g2.fst[fwDesc] = fwDesc
    BY <1>2
  <2>1. g.tag[fwDesc] = "home" /\ g.fst[fwDesc] = fwDesc /\ fwDesc \in Descs
    BY <1>2, <1>5 DEF HomeOK, TypeOK
  <2>2. fwDesc \notin hs /\ fwDesc # desc
    BY <1>21, <2>1
  <2> QED
    BY <1>18, <2>1, <2>2
<1>33. "down" \in Queues /\ "tx" \in Queues
  BY DEF Queues
<1>34. DownOK(mem', ps2["down"], g2, n["down"], cur["down"], term'["down"])
  <2>1. CASE dst # "down"
    BY <1>4, <1>5, <1>20, <1>27, <1>33, <2>1, DownFrame
  <2>2. CASE dst = "down"
    <3> DEFINE s == ps["down"]  k == n["down"]
    <3>1. DownOK(mem', s, g2, k, cur["down"], t)
      BY <1>4, <1>5, <1>27, <1>33, <2>2, DownFrame DEF t
    <3>2. s \in Seq(Descs) /\ Len(s) \in Nat /\ k \in 0 .. Len(s)
      BY <1>4, <1>5, <1>33 DEF DownOK
    <3> HIDE DEF s, k
    <3>3. /\ s \o u \in Seq(Descs) /\ Len(s \o u) = Len(s) + Len(u)
          /\ \A i \in 1 .. Len(s) + Len(u) :
               (s \o u)[i] = IF i <= Len(s) THEN s[i] ELSE u[i - Len(s)]
      BY <1>12, <3>2, ConcatProperties
    <3>4. \A i \in 1 .. Len(u) : mem'[u[i]].own = "HW" /\ Len(g2.pk[u[i]]) = 1
      <4> SUFFICES ASSUME NEW i \in 1 .. Len(u) PROVE mem'[u[i]].own = "HW" /\ Len(g2.pk[u[i]]) = 1
        OBVIOUS
      <4>1. g2.pk[u[i]] = <<u[i]>>
        BY <1>16, <1>18, <2>2
      <4>2. mem'[u[i]].own = "HW"
        <5>1. CASE i = 1
          BY <1>9, <1>12, <5>1
        <5>2. CASE i # 1
          <6>1. u[i] = h[i - 1] /\ i - 1 \in 1 .. Len(h)
            BY <1>12, <5>2
          <6>2. mem[u[i]].own = "HW" /\ u[i] # t /\ u[i] \in Descs
            BY <1>6, <1>7, <1>8, <2>2, <6>1
          <6> QED
            BY <1>9, <6>2
        <5> QED
          BY <5>1, <5>2
      <4> QED
        BY <4>1, <4>2
    <3>5. ASSUME NEW i \in 1 .. Len(s \o u)
          PROVE  /\ mem'[(s \o u)[i]].own = IF i <= k THEN "SE" ELSE "HW"
                 /\ i >= k + 1 => Len(g2.pk[(s \o u)[i]]) = 1
      <4>1. CASE i <= Len(s)
        BY <1>12, <1>6, <3>1, <3>2, <3>3, <4>1 DEF DownOK
      <4>2. CASE i > Len(s)
        <5>1. i - Len(s) \in 1 .. Len(u) /\ (s \o u)[i] = u[i - Len(s)] /\ ~(i <= k)
          BY <1>12, <1>6, <3>2, <3>3, <4>2
        <5> QED
          BY <3>4, <5>1
      <4> QED
        BY <3>2, <4>1, <4>2
    <3>6. cur["down"] = At(s \o u, k + 1, desc)
      <4>1. CASE k < Len(s)
        BY <1>12, <1>6, <3>1, <3>2, <3>3, <4>1 DEF DownOK, At
      <4>2. CASE k = Len(s)
        BY <1>12, <1>6, <3>1, <3>2, <3>3, <4>2 DEF DownOK, At
      <4> QED
        BY <3>2, <4>1, <4>2
    <3>7. Len(s \o u) \in Nat /\ Len(s \o u) >= Len(s)
      BY <1>12, <1>6, <3>2, <3>3
    <3>8. DownOK(mem', s \o u, g2, k, cur["down"], desc)
      <4> HIDE DEF At
      <4> DEFINE r == s \o u
      <4>1. k \in 0 .. Len(r) /\ Len(r) \in Nat
        BY <3>2, <3>7
      <4>2. \A i \in 1 .. Len(r) : mem'[r[i]].own = IF i <= k THEN "SE" ELSE "HW"
        BY <3>5
      <4>3. \A i \in k + 1 .. Len(r) : Len(g2.pk[r[i]]) = 1
        BY <3>5, <4>1
      <4> QED
        BY <3>6, <4>1, <4>2, <4>3 DEF DownOK
    <3> QED
      BY <1>20, <2>2, <3>8 DEF s, k
  <2> QED
    BY <2>1, <2>2
<1>35. TxOK(mem', ps2["tx"], n["tx"], cur["tx"], term'["tx"], halt)
  <2>1. CASE dst # "tx"
    BY <1>4, <1>5, <1>20, <1>27, <1>33, <2>1, TxFrame
  <2>2. CASE dst = "tx"
    <3> DEFINE s == ps["tx"]  k == n["tx"]
    <3>1. TxOK(mem', s, k, cur["tx"], t, halt)
      BY <1>4, <1>5, <1>27, <1>33, <2>2, TxFrame DEF t
    <3>2. s \in Seq(Descs) /\ Len(s) \in Nat /\ k \in 0 .. Len(s)
      BY <1>4, <1>5, <1>33 DEF TxOK
    <3> HIDE DEF s, k
    <3>3. Len(u) = 1 /\ u[1] = t /\ u \in Seq(Descs)
      BY <1>12, <2>2
    <3> DEFINE r == s \o u
    <3>4. /\ r \in Seq(Descs) /\ Len(r) = Len(s) + 1
          /\ \A i \in 1 .. Len(s) : r[i] = s[i]
          /\ r[Len(s) + 1] = t
      BY <3>2, <3>3, ConcatProperties
    <3> HIDE DEF r
    <3>5. \A i \in 1 .. Len(r) : mem'[r[i]].own = IF i <= k THEN "SW" ELSE "HW"
      BY <1>9, <3>1, <3>2, <3>4 DEF TxOK
    <3>6. \A i \in 1 .. k : r[i] = s[i]
      BY <3>2, <3>4
    <3>7. k > 0 => r[k] = s[k]
      BY <3>2, <3>4
    <3>8. ~halt => cur["tx"] = At(r, k + 1, desc)
      BY <3>1, <3>2, <3>4 DEF TxOK, At
    <3>9. TxOK(mem', r, k, cur["tx"], desc, halt)
      BY <3>1, <3>2, <3>4, <3>5, <3>6, <3>7, <3>8 DEF TxOK
    <3> QED
      BY <1>20, <2>2, <3>9 DEF s, k, r
  <2> QED
    BY <2>1, <2>2
<1>36. NextShape(ps2, g2, <<>>, n)
  BY <1>2, <1>19, <1>26, <1>29, <1>32, <1>34, <1>35 DEF NextShape
<1>37. IInv'
  BY <1>28, <1>29, <1>30, <1>31, <1>36, Reshape DEF IInv
<1>38. PICK ps3, g3 : ps3 = ps2 /\ g3 = g2 /\ NextShape(ps3, g3, <<>>, n)
  BY <1>36
<1>39. Seen(ps, g, h, n) /\ Seen(ps3, g3, <<>>, n)'
  BY <1>1, <1>2, <1>28, <1>38, SeenIs, SeenNext
<1>40. DataKept(t) /\ \A x \in Descs : mem'[x].data = mem[x].data
  BY <1>8, <1>9 DEF DataKept
<1>41. \A q \in Queues : \A i \in 1 .. Len(ps[q]) : ps[q][i] # t /\ g3.pk[ps[q][i]] = g.pk[ps[q][i]]
  <2> SUFFICES ASSUME NEW q \in Queues, NEW i \in 1 .. Len(ps[q])
               PROVE  ps[q][i] # t /\ g3.pk[ps[q][i]] = g.pk[ps[q][i]]
    OBVIOUS
  <2>1. QueueOK(mem, q, ps[q], head[q], term[q], g)
    BY <1>5
  <2> QED
    BY <1>4, <1>8, <1>27, <1>38, <2>1 DEF QueueOK, IsRing, Without, t
<1>42. ps3[dst] = ps[dst] \o u /\ \A q \in Queues : q # dst => ps3[q] = ps[q]
  BY <1>20, <1>38
<1>43. ASSUME NEW q \in Queues, q # dst PROVE Like(ps, g, n, ps3, g3, n, q)
  <2>1. Cut(ps3, n, q) = Cut(ps, n, q) /\ ps3[q] = ps[q]
    BY <1>42, <1>43 DEF Cut
  <2>2. LikeIf(ps, g, h, n, ps3, g3, n, t, q)
    BY <1>1, <1>2, <1>8, <1>40, <1>41, <2>1 DEF LikeIf
  <2> QED
    BY <2>2, LikeIs
<1> DEFINE f == <<td.data>> \o Buf(mem, h)
<1>44. Buf(mem', c) = f /\ f # <<>>
  <2> DEFINE b == Buf(mem, h)
             w == td.data
             a == Buf(mem', c)
  <2>1. b \in Seq(Words) /\ Len(b) = Len(h) /\ \A j \in 1 .. Len(h) : b[j] = mem[h[j]].data
    BY <1>3, <1>6, BufIs
  <2>2. a \in Seq(Words) /\ Len(a) = Len(c) /\ \A j \in 1 .. Len(c) : a[j] = mem'[c[j]].data
    BY <1>9, <1>13, BufIs
  <2>3. w \in Words /\ w = mem'[c[1]].data
    BY <1>3, <1>9, <1>13 DEF Descriptor, Words
  <2> HIDE DEF a, b, w
  <2>4. /\ <<w>> \o b \in Seq(Words) /\ Len(<<w>> \o b) = 1 + Len(b) /\ <<w>> \o b # <<>>
        /\ \A i \in 1 .. 1 + Len(b) : (<<w>> \o b)[i] = IF i <= 1 THEN w ELSE b[i - 1]
    BY <2>1, <2>3, ConsIs, HandIsFull
  <2>5. ASSUME NEW i \in 1 .. Len(a) PROVE a[i] = (<<w>> \o b)[i]
    <3>1. CASE i = 1
      <4>1. 1 \in 1 .. Len(c) /\ 1 \in 1 .. 1 + Len(b) /\ 1 <= 1
        BY <1>6, <1>13, <2>1
      <4> QED
        BY <2>2, <2>3, <2>4, <3>1, <4>1
    <3>2. CASE i # 1
      <4>1. i \in 2 .. Len(c) /\ i \in 1 .. Len(c) /\ i \in 1 .. 1 + Len(b) /\ ~(i <= 1)
        BY <1>6, <1>13, <2>1, <2>2, <3>2
      <4>2. c[i] = h[i - 1] /\ i - 1 \in 1 .. Len(h) /\ a[i] = mem'[c[i]].data
        BY <1>13, <2>2, <4>1
      <4>3. h[i - 1] \in Descs /\ mem'[h[i - 1]].data = mem[h[i - 1]].data /\ b[i - 1] = mem[h[i - 1]].data
        BY <1>6, <1>40, <2>1, <4>2
      <4> QED
        BY <2>4, <4>1, <4>2, <4>3
    <3> QED
      BY <3>1, <3>2
  <2>6. Len(a) = Len(<<w>> \o b)
    BY <1>6, <1>13, <2>1, <2>2, <2>4
  <2>7. a = <<w>> \o b
    BY <2>2, <2>4, <2>5, <2>6, SameSeq
  <2> QED
    BY <2>4, <2>7 DEF a, b, w
<1> HIDE DEF f
<1>45. /\ mem' \in [Descs -> Descriptor] /\ g3.pk \in [Descs -> Seq(Descs)]
       /\ \A q \in Queues : \A i \in 1 .. Len(ps[q]) :
            /\ Buf(mem', g3.pk[ps[q][i]]) = Buf(mem, g.pk[ps[q][i]])
            /\ mem'[ps[q][i]].data = mem[ps[q][i]].data
  <2>1. g3.pk \in [Descs -> Seq(Descs)]
    BY <1>38 DEF NextShape, Ghost
  <2>3. /\ TypeOK /\ Shape(ps, g, h, n) /\ g.fst[t] = t /\ DataKept(t)
        /\ \A q \in Queues : \A i \in 1 .. Len(ps[q]) : ps[q][i] # t
    BY <1>1, <1>2, <1>8, <1>40, <1>41
  <2>2. ASSUME NEW q \in Queues, NEW i \in 1 .. Len(ps[q])
        PROVE  /\ Buf(mem', g.pk[ps[q][i]]) = Buf(mem, g.pk[ps[q][i]])
               /\ mem'[ps[q][i]].data = mem[ps[q][i]].data
    BY <2>3, BufKept
  <2> QED
    BY <1>9, <1>41, <2>1, <2>2
<1>46. /\ Len(ps[dst]) \in Nat /\ Cut(ps, n, dst) \in 0 .. Len(ps[dst])
       /\ Slice(mem, g, ps[dst], 0, Cut(ps, n, dst)) /\ Slice(mem, g, ps[dst], Cut(ps, n, dst), Len(ps[dst]))
  BY <1>1, <1>2, <1>3, CutIs
<1>47. /\ ps3[dst] \in Seq(Descs) /\ Len(ps3[dst]) = Len(ps[dst]) + Len(u) /\ Len(u) >= 1 /\ Len(u) \in Nat
       /\ \A i \in 1 .. Len(ps[dst]) : ps3[dst][i] = ps[dst][i]
       /\ ps3[dst][Len(ps[dst]) + 1] = t
  <2> DEFINE s == ps[dst]
             r == s \o u
             L == Len(s)
             U == Len(u)
  <2>1. s \in Seq(Descs) /\ u \in Seq(Descs) /\ L \in Nat /\ U \in Nat /\ U >= 1 /\ u[1] = t
    BY <1>3, <1>4, <1>6, <1>12
  <2> HIDE DEF s
  <2>2. /\ r \in Seq(Descs) /\ Len(r) = L + U
        /\ \A i \in 1 .. L + U : r[i] = IF i <= L THEN s[i] ELSE u[i - L]
    BY <2>1, ConcatProperties
  <2>3. ps3[dst] = r
    BY <1>42 DEF s
  <2> HIDE DEF r, L, U
  <2>4. /\ L + 1 \in 1 .. L + U /\ ~(L + 1 <= L) /\ (L + 1) - L = 1
        /\ \A i \in 1 .. L : i \in 1 .. L + U /\ i <= L
    BY <2>1
  <2>5. r[L + 1] = t /\ \A i \in 1 .. L : r[i] = s[i]
    BY <2>1, <2>2, <2>4
  <2> QED
    BY <2>1, <2>2, <2>3, <2>5 DEF s, L, U
<1>48. dst # "retry" => Front(mem', g3, ps3, n, dst) = Front(mem, g, ps, n, dst)
  <2> SUFFICES ASSUME dst # "retry" PROVE Front(mem', g3, ps3, n, dst) = Front(mem, g, ps, n, dst)
    OBVIOUS
  <2> DEFINE s == ps[dst]
             r == ps3[dst]
             k == Cut(ps, n, dst)
  <2>1. Cut(ps3, n, dst) = k
    BY DEF Cut
  <2>2. Len(s) \in Nat /\ k \in 0 .. Len(s)
    BY <1>46
  <2>3. \A i \in 1 .. Len(s) : r[i] = s[i] /\ Buf(mem', g3.pk[s[i]]) = Buf(mem, g.pk[s[i]])
    BY <1>3, <1>45, <1>47
  <2> HIDE DEF s, r, k
  <2>4. \A i \in 1 .. k - 0 : 0 + i \in 1 .. Len(s)
    BY <2>2
  <2>5. Bufs(mem', g3, r, 0, k) = Bufs(mem, g, s, 0, k)
    BY <2>3, <2>4 DEF Bufs
  <2> QED
    BY <2>1, <2>5 DEF Front, s, r, k
<1>49. dst # "down" =>
         \A lo \in 0 .. Len(ps[dst]) :
           Bufs(mem', g3, ps3[dst], lo, Len(ps[dst]) + 1)
             = Append(Bufs(mem, g, ps[dst], lo, Len(ps[dst])), f)
  <2> SUFFICES ASSUME dst # "down", NEW lo \in 0 .. Len(ps[dst])
               PROVE  Bufs(mem', g3, ps3[dst], lo, Len(ps[dst]) + 1)
                        = Append(Bufs(mem, g, ps[dst], lo, Len(ps[dst])), f)
    OBVIOUS
  <2> DEFINE s == ps[dst]
             r == ps3[dst]
  <2>1. Slice(mem, g, s, lo, Len(s))
    <3>1. lo \in Nat /\ lo <= Len(s) /\ Len(s) \in Nat /\ Len(s) <= Len(s)
      BY <1>46
    <3> QED
      BY <1>46, <3>1 DEF Slice
  <2>2. Len(u) = 1
    BY <1>12
  <2>3. Appends(mem, g, s, lo, mem', g3, r)
    BY <1>3, <1>45, <1>47, <2>1, <2>2 DEF Appends
  <2>4. r[Len(s) + 1] = t /\ g3.pk[t] = c
    BY <1>18, <1>38, <1>47
  <2> HIDE DEF s, r
  <2>5. Bufs(mem', g3, r, lo, Len(s) + 1)
          = Append(Bufs(mem, g, s, lo, Len(s)), Buf(mem', g3.pk[r[Len(s) + 1]]))
    BY <2>3, BufsAppend
  <2> QED
    BY <1>44, <2>4, <2>5 DEF s, r
<1>50. dst = "tx" => Back(mem', g3, ps3, n, "tx") = Append(Back(mem, g, ps, n, "tx"), f)
  <2> SUFFICES ASSUME dst = "tx" PROVE Back(mem', g3, ps3, n, "tx") = Append(Back(mem, g, ps, n, "tx"), f)
    OBVIOUS
  <2>1. Len(ps3["tx"]) = Len(ps["tx"]) + 1
    BY <1>12, <1>47
  <2>2. Cut(ps3, n, "tx") = n["tx"] /\ Cut(ps, n, "tx") = n["tx"] /\ n["tx"] \in 0 .. Len(ps["tx"])
    BY <1>46 DEF Cut
  <2> QED
    BY <1>49, <2>1, <2>2 DEF Back
<1>51. dst = "retry" => Front(mem', g3, ps3, n, "retry") = Append(Front(mem, g, ps, n, "retry"), f)
  <2> SUFFICES ASSUME dst = "retry" PROVE Front(mem', g3, ps3, n, "retry") = Append(Front(mem, g, ps, n, "retry"), f)
    OBVIOUS
  <2>1. Len(ps3["retry"]) = Len(ps["retry"]) + 1 /\ 0 \in 0 .. Len(ps["retry"])
    BY <1>12, <1>46, <1>47
  <2>2. Cut(ps3, n, "retry") = Len(ps3["retry"]) /\ Cut(ps, n, "retry") = Len(ps["retry"])
    BY DEF Cut
  <2> QED
    BY <1>49, <2>1, <2>2 DEF Front
<1>52. dst = "down" => Frees(mem', ps3["down"], n["down"]) = Frees(mem, ps["down"], n["down"]) \o f
  <2> SUFFICES ASSUME dst = "down"
               PROVE  Frees(mem', ps3["down"], n["down"]) = Frees(mem, ps["down"], n["down"]) \o f
    OBVIOUS
  <2> DEFINE s == ps["down"]
             k == n["down"]
  <2>1. u = c /\ ps3["down"] = s \o c
    BY <1>42 DEF u, c
  <2>2. k \in 0 .. Len(s) /\ s \in Seq(Descs) /\ c \in Seq(Descs)
    BY <1>4, <1>13, <1>46, <1>33 DEF Cut
  <2>3. \A i \in 1 .. Len(s) : mem'[s[i]].data = mem[s[i]].data
    BY <1>33, <1>45
  <2> HIDE DEF s, k
  <2>4. Frees(mem', s \o c, k) = Frees(mem, s, k) \o Buf(mem', c)
    BY <1>3, <1>9, <2>2, <2>3, FreesJoin
  <2> QED
    BY <1>44, <2>1, <2>4 DEF s, k
<1>53. \E h2 : Dropped(ps, g, h, n, ps3, g3, h2, f)
  BY <1>2, <1>3, <1>29, <1>39, <1>43, <1>44, <1>48, <1>50, <1>51, <1>52 DEF Dropped, f
<1>54. Pipe!Drop
  BY <1>53, PipeDrops
<1> QED
  BY <1>37, <1>54

-----------------------------------------------------------------------------
(* The steps that leave the rings alone, and the firmware's own frame *)

\* A step that touches neither rings nor cursors keeps their shape.
LEMMA QuietKeeps ==
  ASSUME IInv, UNCHANGED <<mem, queues, cur, halt, td, desc, reserve>>,
         InHand' => InHand /\ dst' = dst
  PROVE  Shaped'
<1>1. PICK ps, g, h, n : Shape(ps, g, h, n)
  BY DEF IInv, Shaped
<1>2. NextShape(ps, g, h, n)
  BY <1>1 DEF NextShape, Shape, QueuesOK, HeldOK, HomeOK, queues, reserve
<1> QED
  BY <1>2, Reshape

\* Nor does the pipe see such a step.
LEMMA QuietSeen ==
  ASSUME IInv, IInv', UNCHANGED <<mem, queues, cur, halt, td, desc, reserve>>,
         InHand' <=> InHand, InHand => dst' = dst
  PROVE  UNCHANGED Pipe!vars
<1>1. PICK ps, g, h, n : Shape(ps, g, h, n)
  BY DEF IInv, Shaped
<1>2. NextShape(ps, g, h, n)
  BY <1>1 DEF NextShape, Shape, QueuesOK, HeldOK, HomeOK, queues, reserve
<1> DEFINE z == term["down"]
<1>3. /\ g.fst[z] = z /\ g.tag[z] = "down"
      /\ \A q \in Queues : \A i \in 1 .. Len(ps[q]) : ps[q][i] # z
  BY <1>1, PlacesOf DEF IInv, Queues
<1>4. InHand => desc # z
  BY <1>1, <1>3 DEF Shape, HeldOK, HandOK
<1> HIDE DEF z
<1>5. SteadyIf(ps, g, h, n, z)
  BY <1>1, <1>2, <1>3, <1>4 DEF SteadyIf, DataKept, IInv, reserve
<1> QED
  BY <1>5, Steady

\* down_trigger() and wlan_trigger() keep the invariant.
LEMMA StepTrigger == IInv /\ Trigger => IInv' /\ UNCHANGED Pipe!vars
<1> SUFFICES ASSUME IInv, Trigger PROVE IInv' /\ UNCHANGED Pipe!vars
  OBVIOUS
<1>1. /\ TypeOK /\ TermOK /\ WakeOK /\ PcOK /\ pc = "trigger" /\ pc' = "idle" /\ dst' = "down"
      /\ UNCHANGED <<mem, queues, cur, halt, td, desc, reserve>>
      /\ run' = [run EXCEPT ![dst] = TRUE] /\ dst \in Engines
  BY DEF IInv, Trigger, PcOK
<1>2. Shaped'
  BY <1>1, QuietKeeps DEF InHand
<1>3. TypeOK' /\ TermOK' /\ PcOK'
  BY <1>1 DEF TypeOK, TermOK, PcOK, queues, reserve, Queues
<1>4. WakeOK'
  BY <1>1 DEF WakeOK, Due, InHand, TypeOK
<1>5. IInv'
  BY <1>2, <1>3, <1>4 DEF IInv
<1> QED
  BY <1>1, <1>5, QuietSeen DEF InHand

\* The handler's last trigger keeps the invariant.
LEMMA StepTriggerTx == IInv /\ TriggerTx => IInv' /\ UNCHANGED Pipe!vars
<1> SUFFICES ASSUME IInv, TriggerTx PROVE IInv' /\ UNCHANGED Pipe!vars
  OBVIOUS
<1>1. /\ TypeOK /\ TermOK /\ WakeOK /\ PcOK
      /\ UNCHANGED <<mem, queues, cur, halt, pc, td, dst, desc, reserve>>
      /\ run' = [run EXCEPT !["tx"] = TRUE]
  BY DEF IInv, TriggerTx, call
<1>2. Shaped'
  BY <1>1, QuietKeeps DEF InHand
<1>3. TypeOK' /\ TermOK' /\ PcOK'
  BY <1>1 DEF TypeOK, TermOK, PcOK, queues, reserve, Empty
<1>4. WakeOK'
  BY <1>1 DEF WakeOK, Due, InHand, TypeOK
<1>5. IInv'
  BY <1>2, <1>3, <1>4 DEF IInv
<1> QED
  BY <1>1, <1>5, QuietSeen DEF InHand

\* An engine that finds nothing to do goes idle: the invariant is kept.
LEMMA StepGoIdle ==
  ASSUME NEW e \in Engines PROVE IInv /\ GoIdle(e) => IInv' /\ UNCHANGED Pipe!vars
<1> SUFFICES ASSUME IInv, GoIdle(e) PROVE IInv' /\ UNCHANGED Pipe!vars
  OBVIOUS
<1>1. /\ TypeOK /\ TermOK /\ WakeOK /\ PcOK
      /\ UNCHANGED <<mem, queues, cur, halt, pc, td, dst, desc, reserve>>
      /\ run' = [run EXCEPT ![e] = FALSE] /\ mem[cur[e]].own # "HW"
  BY DEF IInv, GoIdle, call
<1>2. Shaped'
  BY <1>1, QuietKeeps DEF InHand
<1>3. TypeOK' /\ TermOK' /\ PcOK'
  BY <1>1 DEF TypeOK, TermOK, PcOK, queues, reserve, Empty
<1>4. WakeOK'
  BY <1>1 DEF WakeOK, Due, InHand, TypeOK
<1>5. IInv'
  BY <1>2, <1>3, <1>4 DEF IInv
<1> QED
  BY <1>1, <1>5, QuietSeen DEF InHand

\* wlan_tx_fw() takes the reserved descriptor in hand and keeps the invariant.
LEMMA StepSendReserved == IInv /\ SendReserved => IInv' /\ Pipe!TakeReserved
<1> SUFFICES ASSUME IInv, SendReserved PROVE IInv' /\ Pipe!TakeReserved
  OBVIOUS
<1>1. PICK ps, g, h, n : Shape(ps, g, h, n)
  BY DEF IInv, Shaped
<1> DEFINE p  == fwDesc
           g2 == [g EXCEPT !.tag = [@ EXCEPT ![p] = "held"]]
<1>2. /\ TypeOK /\ TermOK /\ WakeOK /\ ~InHand /\ InHand' /\ pc = "idle" /\ pc' = "status"
      /\ UNCHANGED <<head, term, cur, run, halt, fwDesc>> /\ fwAvail /\ fwAvail' = FALSE
      /\ mem' = [mem EXCEPT ![p] = Cleared(p)] /\ desc' = p /\ dst' = "tx"
      /\ td' = [own |-> "SW", ctrl |-> "ok", last |-> term["tx"], next |-> p, data |-> FwData]
  BY DEF IInv, SendReserved, InHand, queues, engine
<1>3. /\ mem \in [Descs -> Descriptor] /\ p \in Descs /\ "tx" \in Queues /\ term["tx"] \in Descs
      /\ "down" \in Queues
  BY <1>2 DEF TypeOK, Queues
<1>4. /\ Ghost(ps, g, h, n) /\ g.tag[p] = "home" /\ g.fst[p] = p
      /\ DownOK(mem, ps["down"], g, n["down"], cur["down"], term["down"])
      /\ TxOK(mem, ps["tx"], n["tx"], cur["tx"], term["tx"], halt)
      /\ \A q \in Queues : QueueOK(mem, q, ps[q], head[q], term[q], g)
  BY <1>1, <1>2 DEF Shape, HomeOK, QueuesOK
<1>5. /\ \A q \in Queues :
           /\ ps[q] \in Seq(Descs) /\ Len(ps[q]) \in Nat /\ term[q] \in Descs
           /\ g.tag[term[q]] = q /\ g.fst[term[q]] = term[q]
           /\ \A i \in 1 .. Len(ps[q]) : ps[q][i] \in Descs /\ g.tag[ps[q][i]] = q
      /\ \A e \in Engines : g.tag[cur[e]] = e /\ g.fst[cur[e]] = cur[e]
  BY <1>1, <1>2, PlacesOf
<1>6. g2.pk = g.pk /\ g2.fst = g.fst /\ g2.tag = [g.tag EXCEPT ![p] = "held"]
  BY <1>4 DEF Ghost
<1>7. Ghost(ps, g2, <<>>, n)
  <2>1. g2 \in [pk : [Descs -> Seq(Descs)], tag : [Descs -> Places], fst : [Descs -> Descs]]
    BY <1>4 DEF Ghost, Places
  <2>2. <<>> \in Seq(Descs)
    OBVIOUS
  <2> QED
    BY <1>4, <2>1, <2>2 DEF Ghost
<1> HIDE DEF g2, p
<1>8. mem'[p] = Cleared(p) /\ \A d \in Descs : d # p => mem'[d] = mem[d]
  BY <1>2, <1>3
<1>9. \A q \in Queues : QueueOK(mem', q, ps[q], head[q], term[q], g2)
  <2> SUFFICES ASSUME NEW q \in Queues PROVE QueueOK(mem', q, ps[q], head[q], term[q], g2)
    OBVIOUS
  <2>1. \A d \in Descs : g.tag[g.fst[d]] = q => Kept(mem, mem', g, g2, d)
    <3>1. q # "home"
      BY DEF Queues
    <3>2. \A d \in Descs : g.tag[g.fst[d]] = q => d # p
      BY <1>4, <3>1
    <3> QED
      BY <1>3, <1>4, <1>6, <1>8, <3>2 DEF Kept, Same, Ghost
  <2> QED
    BY <1>4, <1>5, <2>1, QueueFrame
<1>10. \A q \in Queues : \A i \in 1 .. Len(ps[q]) : mem'[ps[q][i]] = mem[ps[q][i]]
  BY <1>4, <1>5, <1>8 DEF Queues
<1>11. DownOK(mem', ps["down"], g2, n["down"], cur["down"], term["down"])
  BY <1>3, <1>4, <1>5, <1>6, <1>10, DownFrame
<1>12. TxOK(mem', ps["tx"], n["tx"], cur["tx"], term["tx"], halt)
  BY <1>3, <1>4, <1>5, <1>10, TxFrame
<1>13. HandOK(mem', <<>>, p, td', "tx", term["tx"], g2)
  <2>1. <<>> \in Seq(Descs) /\ Len(<<>>) = 0
    OBVIOUS
  <2>2. td'.data # Null
    BY <1>2, DmaAssumption DEF FwData, Null
  <2>3. g2.tag[p] = "held" /\ g2.fst[p] = p
    BY <1>3, <1>4, <1>6 DEF Ghost
  <2> QED
    BY <1>2, <1>8, <2>1, <2>2, <2>3 DEF HandOK, Inj, Without, Start
<1>14. NextShape(ps, g2, <<>>, n)
  BY <1>2, <1>7, <1>9, <1>11, <1>12, <1>13 DEF NextShape, p
<1>15. TypeOK'
  <2>1. Cleared(p) \in Descriptor /\ td' \in Descriptor
    BY <1>2, <1>3 DEF Cleared, Descriptor
  <2>2. mem' \in [Descs -> Descriptor]
    BY <1>2, <1>3, <2>1 DEF p
  <2> QED
    BY <1>2, <1>3, <2>1, <2>2 DEF TypeOK, p
<1>16. TermOK'
  <2>1. \A q \in Queues : term[q] # p
    BY <1>4, <1>5 DEF Queues
  <2> QED
    BY <1>2, <1>5, <1>8, <2>1 DEF TermOK, InHand
<1>17. WakeOK' /\ PcOK'
  <2>1. \A e \in Engines : cur[e] # p /\ cur[e] \in Descs
    BY <1>2, <1>4, <1>5 DEF Engines, TypeOK
  <2> QED
    BY <1>2, <1>8, <2>1 DEF WakeOK, PcOK, Due, InHand
<1>18. IInv'
  BY <1>14, <1>15, <1>16, <1>17, Reshape DEF IInv
<1>19. PICK g3 : g3 = g2 /\ NextShape(ps, g3, <<>>, n)
  BY <1>14
<1>20. Seen(ps, g, h, n) /\ Seen(ps, g3, <<>>, n)'
  BY <1>1, <1>2, <1>15, <1>19, SeenIs, SeenNext
<1>21. ASSUME NEW q \in Queues PROVE Like(ps, g, n, ps, g3, n, q)
  <2>1. \A i \in 1 .. Len(ps[q]) : ps[q][i] # p /\ g3.pk[ps[q][i]] = g.pk[ps[q][i]]
    BY <1>4, <1>5, <1>6, <1>19 DEF Queues
  <2>2. Cut(ps, n, q) = Cut(ps, n, q) /\ DataKept(p)
    BY <1>8 DEF DataKept
  <2>3. LikeIf(ps, g, h, n, ps, g3, n, p, q)
    BY <1>1, <1>2, <1>4, <2>1, <2>2 DEF LikeIf
  <2> QED
    BY <2>3, LikeIs
<1>22. /\ Like(ps, g, n, ps, g3, n, "down") /\ Like(ps, g, n, ps, g3, n, "tx")
       /\ Like(ps, g, n, ps, g3, n, "retry")
  BY <1>21 DEF Queues
<1>23. Held = <<>> /\ Held' = <<FwData>>
  <2>1. Held = <<>> /\ Held' = <<FwData>> \o Buf(mem', <<>>)
    BY <1>2, <1>20 DEF Seen
  <2>2. Buf(mem', <<>>) = <<>>
    BY DEF Buf
  <2>3. <<FwData>> \o <<>> = <<FwData>>
    OBVIOUS
  <2> QED
    BY <2>1, <2>2, <2>3
<1>24. <<FwData>> # <<>>
  OBVIOUS
<1>25. Pipe!TakeReserved
  BY <1>2, <1>20, <1>22, <1>23, <1>24 DEF Seen, Like, Pipe!TakeReserved, Pipe!Hold
<1> QED
  BY <1>18, <1>25

-----------------------------------------------------------------------------
(* The frames at the head of the tx queue *)

\* dma_rearm() of a failed frame keeps the invariant.
LEMMA StepTxRearm == IInv /\ TxRearm => IInv' /\ Pipe!Again
<1> SUFFICES ASSUME IInv, TxRearm PROVE IInv' /\ Pipe!Again
  OBVIOUS
<1>1. PICK ps, g, h, n : Shape(ps, g, h, n)
  BY DEF IInv, Shaped
<1> DEFINE p  == head["tx"]
           s  == ps["tx"]
           n2 == [n EXCEPT !["tx"] = 0]
<1>2. /\ TypeOK /\ TermOK /\ WakeOK /\ ~InHand /\ ~InHand' /\ pc = "idle" /\ pc' = "idle"
      /\ UNCHANGED <<head, term, pc, td, dst, desc, fwDesc, fwAvail>>
      /\ mem' = [mem EXCEPT ![p].own = "HW", ![p].ctrl = "ok"]
      /\ mem[p].own = "SW" /\ mem[p].ctrl = "TXFAIL" /\ ~Empty("tx")
      /\ cur' = [cur EXCEPT !["tx"] = p] /\ run' = [run EXCEPT !["tx"] = TRUE] /\ halt' = FALSE
  BY DEF IInv, TxRearm, Completed, Unstuck, InHand, queues, call, reserve
<1>3. /\ mem \in [Descs -> Descriptor] /\ p \in Descs /\ "tx" \in Queues /\ "down" \in Queues
      /\ "tx" \in Engines /\ "down" \in Engines /\ p # term["tx"]
  BY <1>2 DEF TypeOK, Queues, Engines, Empty
<1>4. /\ Ghost(ps, g, h, n) /\ HomeOK(g)
      /\ DownOK(mem, ps["down"], g, n["down"], cur["down"], term["down"])
      /\ TxOK(mem, s, n["tx"], cur["tx"], term["tx"], halt)
      /\ \A q \in Queues : QueueOK(mem, q, ps[q], head[q], term[q], g)
  BY <1>1, <1>2 DEF Shape, QueuesOK
<1>5. /\ \A q \in Queues :
           /\ ps[q] \in Seq(Descs) /\ Len(ps[q]) \in Nat /\ term[q] \in Descs
           /\ g.tag[term[q]] = q /\ g.fst[term[q]] = term[q]
           /\ \A i \in 1 .. Len(ps[q]) : ps[q][i] \in Descs /\ g.tag[ps[q][i]] = q
      /\ \A e \in Engines : g.tag[cur[e]] = e /\ g.fst[cur[e]] = cur[e]
  BY <1>1, <1>2, PlacesOf
<1>6. Len(s) >= 1 /\ p = s[1] /\ Member(mem, "tx", p, g)
  BY <1>3, <1>4, QueueHead
<1>7. g.tag[p] = "tx" /\ Inj(s) /\ Without(s, term["tx"]) /\ s \in Seq(Descs) /\ Len(s) \in Nat
  BY <1>3, <1>4, <1>5, <1>6 DEF Member, QueueOK, IsRing
<1>8. n["tx"] = 1
  BY <1>2, <1>4, <1>6, <1>7 DEF TxOK
<1> HIDE DEF p, s
<1>9. /\ \A d \in Descs : d # p => mem'[d] = mem[d]
      /\ \A d \in Descs : Same(mem, mem', d)
      /\ mem'[p].own = "HW" /\ mem'[p].ctrl = "ok" /\ mem' \in [Descs -> Descriptor]
  <2>1. mem[p] \in Descriptor
    BY <1>3
  <2>2. mem' = [mem EXCEPT ![p] = [mem[p] EXCEPT !.own = "HW", !.ctrl = "ok"]]
    BY <1>2, <1>3
  <2>3. [mem[p] EXCEPT !.own = "HW", !.ctrl = "ok"] \in Descriptor
    BY <2>1 DEF Descriptor
  <2> QED
    BY <1>3, <2>1, <2>2, <2>3 DEF Descriptor, Same
<1>10. \A q \in Queues : QueueOK(mem', q, ps[q], head[q], term[q], g)
  <2> SUFFICES ASSUME NEW q \in Queues PROVE QueueOK(mem', q, ps[q], head[q], term[q], g)
    OBVIOUS
  <2>1. \A d \in Descs : g.tag[g.fst[d]] = q => Kept(mem, mem', g, g, d)
    BY <1>9 DEF Kept
  <2> QED
    BY <1>4, <1>5, <2>1, QueueFrame
<1>11. DownOK(mem', ps["down"], g, n["down"], cur["down"], term["down"])
  <2>1. ASSUME NEW i \in 1 .. Len(ps["down"])
        PROVE  mem'[ps["down"][i]].own = mem[ps["down"][i]].own
    <3>1. ps["down"][i] \in Descs /\ g.tag[ps["down"][i]] = "down"
      BY <1>3, <1>5
    <3> QED
      BY <1>7, <1>9, <3>1
  <2> QED
    BY <1>3, <1>4, <1>5, <2>1, DownFrame
<1>12. TxOK(mem', s, 0, p, term["tx"], FALSE)
  <2>1. \A i \in 1 .. Len(s) : mem'[s[i]].own = "HW"
    <3> SUFFICES ASSUME NEW i \in 1 .. Len(s) PROVE mem'[s[i]].own = "HW"
      OBVIOUS
    <3>1. CASE i = 1
      BY <1>6, <1>9, <3>1
    <3>2. CASE i # 1
      <4>1. s[i] # p /\ s[i] \in Descs
        BY <1>3, <1>5, <1>6, <1>7, <3>2 DEF Inj, s
      <4>2. mem[s[i]].own = "HW"
        BY <1>4, <1>7, <1>8, <3>2 DEF TxOK
      <4> QED
        BY <1>9, <4>1, <4>2
    <3> QED
      BY <3>1, <3>2
  <2> QED
    BY <1>6, <1>7, <2>1 DEF TxOK, At
<1>13. n2["down"] = n["down"] /\ n2["tx"] = 0 /\ n2 \in [Engines -> Nat]
  BY <1>3, <1>4 DEF Ghost, Engines
<1>14. cur'["down"] = cur["down"] /\ cur'["tx"] = p
  BY <1>2, <1>3 DEF TypeOK
<1>15. Ghost(ps, g, h, n2)
  BY <1>4, <1>13 DEF Ghost
<1> HIDE DEF n2
<1>16. NextShape(ps, g, h, n2)
  BY <1>2, <1>4, <1>10, <1>11, <1>12, <1>13, <1>14, <1>15 DEF NextShape, HomeOK, s
<1>17. TypeOK' /\ PcOK'
  BY <1>2, <1>3, <1>9 DEF TypeOK, PcOK, Engines
<1>18. TermOK'
  <2>1. \A q \in Queues : term[q] # p /\ term[q] \in Descs
    BY <1>3, <1>5, <1>7 DEF p
  <2> QED
    BY <1>2, <1>9, <2>1 DEF TermOK
<1>19. WakeOK'
  <2>1. cur["down"] # p /\ cur["down"] \in Descs
    BY <1>2, <1>3, <1>5, <1>7 DEF TypeOK
  <2>2. run' = [run EXCEPT !["tx"] = TRUE] /\ run \in [Engines -> BOOLEAN]
    BY <1>2 DEF TypeOK
  <2> QED
    BY <1>2, <1>3, <1>9, <1>14, <2>1, <2>2 DEF WakeOK, Due, InHand, Engines
<1>20. IInv'
  BY <1>16, <1>17, <1>18, <1>19, Reshape DEF IInv
<1>21. PICK n3 : n3 = n2 /\ NextShape(ps, g, h, n3)
  BY <1>16
<1>22. Seen(ps, g, h, n) /\ Seen(ps, g, h, n3)'
  BY <1>1, <1>2, <1>17, <1>21, SeenIs, SeenNext
<1> DEFINE z == term["down"]
<1>23. /\ g.fst[z] = z /\ DataKept(z)
       /\ \A q \in Queues : \A i \in 1 .. Len(ps[q]) : ps[q][i] # z
  BY <1>1, <1>2, <1>3, <1>9, PlacesOf DEF DataKept, Same
<1> HIDE DEF z
<1>24. ASSUME NEW q \in Queues, q # "tx" PROVE Like(ps, g, n, ps, g, n3, q)
  <2>1. Cut(ps, n3, q) = Cut(ps, n, q) /\ (q = "down" => n3[q] = n[q])
    BY <1>13, <1>21, <1>24 DEF Cut, Queues
  <2>2. LikeIf(ps, g, h, n, ps, g, n3, z, q)
    BY <1>1, <1>2, <1>23, <2>1 DEF LikeIf
  <2> QED
    BY <2>2, LikeIs
<1>25. Like(ps, g, n, ps, g, n3, "down") /\ Like(ps, g, n, ps, g, n3, "retry")
  BY <1>24 DEF Queues
<1> DEFINE a == Bufs(mem, g, s, 0, 1)
           b == Bufs(mem, g, s, 1, Len(s))
<1>26. Front(mem, g, ps, n, "tx") = a /\ Back(mem, g, ps, n, "tx") = b
  BY <1>8 DEF Front, Back, Cut, s
<1>27. Slice(mem, g, s, 0, 1) /\ Slice(mem, g, s, 1, Len(s))
  BY <1>3, <1>4, <1>6, <1>7 DEF Slice, Ghost
<1>28. Len(a) = 1 /\ Bufs(mem, g, s, 0, Len(s)) = a \o b
  <2> DEFINE l == Len(s)
             k == 1
  <2>1. Len(Bufs(mem, g, s, 0, k)) = k - 0
    <3>1. Slice(mem, g, s, 0, k)
      BY <1>27
    <3> HIDE DEF k
    <3> QED
      BY <3>1, BufsAre
  <2>2. Slice(mem, g, s, 0, 1) /\ Slice(mem, g, s, 1, l)
    BY <1>27
  <2> HIDE DEF l
  <2>3. Bufs(mem, g, s, 0, l) = Bufs(mem, g, s, 0, 1) \o Bufs(mem, g, s, 1, l)
    BY <2>2, BufsJoin
  <2> QED
    BY <2>1, <2>3 DEF l
<1>29. Bufs(mem', g, s, 0, Len(s)) = Bufs(mem, g, s, 0, Len(s))
  <2>1. ASSUME NEW i \in 1 .. Len(s) PROVE Buf(mem', g.pk[s[i]]) = Buf(mem, g.pk[s[i]])
    <3> DEFINE q == "tx"
    <3>1. /\ q \in Queues /\ i \in 1 .. Len(ps[q]) /\ ps[q][i] # z /\ s[i] = ps[q][i]
          /\ TypeOK /\ Shape(ps, g, h, n) /\ g.fst[z] = z /\ DataKept(z)
      BY <1>1, <1>2, <1>3, <1>23 DEF s
    <3> HIDE DEF q
    <3>2. Buf(mem', g.pk[ps[q][i]]) = Buf(mem, g.pk[ps[q][i]])
      BY <3>1, BufKept
    <3> QED
      BY <3>1, <3>2
  <2>2. \A i \in 1 .. Len(s) - 0 : 0 + i \in 1 .. Len(s)
    BY <1>7
  <2> QED
    BY <2>1, <2>2 DEF Bufs
<1>30. Front(mem', g, ps, n3, "tx") = <<>> /\ Back(mem', g, ps, n3, "tx") = a \o b
  <2>1. Front(mem', g, ps, n3, "tx") = Bufs(mem', g, s, 0, 0)
    BY <1>13, <1>21 DEF Front, Cut, s
  <2>2. Bufs(mem', g, s, 0, 0) = <<>>
    BY DEF Bufs
  <2>3. Back(mem', g, ps, n3, "tx") = Bufs(mem', g, s, 0, Len(s))
    BY <1>13, <1>21 DEF Back, Cut, s
  <2> QED
    BY <1>28, <1>29, <2>1, <2>2, <2>3
<1> HIDE DEF a, b
<1>31. Held = <<>> /\ Held' = <<>>
  BY <1>2, <1>22 DEF Seen
<1>32. Pipe!Again
  BY <1>2, <1>22, <1>25, <1>26, <1>28, <1>30, <1>31 DEF Seen, Like, Pipe!Again
<1> QED
  BY <1>20, <1>32

\* wlan_tx_status() of a frame that is done with keeps the invariant.
LEMMA StepTxDone == IInv /\ TxDone => IInv' /\ (Pipe!TakeSent("down") \/ Pipe!ReserveHome)
<1> SUFFICES ASSUME IInv, TxDone
             PROVE  IInv' /\ (Pipe!TakeSent("down") \/ Pipe!ReserveHome)
  OBVIOUS
<1>1. PICK ps, g, h, n : Shape(ps, g, h, n)
  BY DEF IInv, Shaped
<1> DEFINE p == head["tx"]
           s == ps["tx"]
           t == term["tx"]
<1>2. /\ TypeOK /\ TermOK /\ WakeOK /\ PcOK /\ ~InHand /\ pc = "idle" /\ term' = term
      /\ mem[p].own = "SW" /\ ~Empty("tx") /\ Unlink("tx")
      /\ IF mem[p].ctrl = "TXFAIL" THEN Unstuck(FirstPending(AfterOf[p])) ELSE UNCHANGED engine
      /\ IF IsReserved(p)
         THEN /\ Home(p)
              /\ mem' = [mem EXCEPT ![p].next = p, ![p].last = p, ![p].ctrl = "ok"]
              /\ UNCHANGED call
         ELSE Begin(p, "down", FALSE) /\ UNCHANGED reserve
  BY DEF IInv, TxDone, Completed, InHand
<1>3. /\ mem \in [Descs -> Descriptor] /\ p \in Descs /\ "tx" \in Queues /\ "down" \in Queues
      /\ "tx" \in Engines /\ "down" \in Engines /\ p # t /\ t \in Descs
  BY <1>2 DEF TypeOK, Queues, Engines, Empty
<1>4. /\ Ghost(ps, g, h, n) /\ HomeOK(g)
      /\ DownOK(mem, ps["down"], g, n["down"], cur["down"], term["down"])
      /\ TxOK(mem, s, n["tx"], cur["tx"], t, halt)
      /\ \A q \in Queues : QueueOK(mem, q, ps[q], head[q], term[q], g)
  BY <1>1, <1>2 DEF Shape, QueuesOK
<1>5. /\ \A q \in Queues :
           /\ ps[q] \in Seq(Descs) /\ Len(ps[q]) \in Nat /\ term[q] \in Descs
           /\ g.tag[term[q]] = q /\ g.fst[term[q]] = term[q]
           /\ \A i \in 1 .. Len(ps[q]) : /\ ps[q][i] \in Descs /\ g.tag[ps[q][i]] = q
                                         /\ g.fst[ps[q][i]] = ps[q][i]
      /\ \A e \in Engines : g.tag[cur[e]] = e /\ g.fst[cur[e]] = cur[e]
  BY <1>1, <1>2, PlacesOf
<1>6. Len(s) >= 1 /\ p = s[1] /\ Member(mem, "tx", p, g)
  BY <1>3, <1>4, QueueHead
<1>7. /\ g.tag[p] = "tx" /\ g.fst[p] = p /\ s \in Seq(Descs) /\ Len(s) \in Nat
      /\ Inj(s) /\ Without(s, t) /\ IsRing(mem, s, p, t)
  BY <1>3, <1>4, <1>5, <1>6 DEF Member, QueueOK, IsRing
<1>8. n["tx"] >= 1 /\ n["tx"] \in Nat
  <2> HIDE DEF s, t
  <2>1. n["tx"] \in 0 .. Len(s) /\ mem[s[1]].own = IF 1 <= n["tx"] THEN "SW" ELSE "HW"
    BY <1>4, <1>6, <1>7 DEF TxOK
  <2> QED
    BY <1>2, <1>6, <1>7, <2>1
<1>9. mem[p].ctrl = "TXFAIL" =>
        n["tx"] = 1 /\ FirstPending(AfterOf[p]) = At(Tail(s), 1, t)
  <2> SUFFICES ASSUME mem[p].ctrl = "TXFAIL"
               PROVE  n["tx"] = 1 /\ FirstPending(AfterOf[p]) = At(Tail(s), 1, t)
    OBVIOUS
  <2>1. n["tx"] = 1 /\ TxOK(mem, Tail(s), 0, At(Tail(s), 1, t), t, FALSE)
    BY <1>4, <1>6, <1>7, <1>8, TxUnstuck
  <2>2. IsRing(mem, Tail(s), After(mem)[p], t)
    <3>1. QueueOK(mem, "tx", s, p, t, g)
      BY <1>3, <1>4
    <3>2. \A d \in Descs : g.tag[g.fst[d]] = "tx" /\ g.fst[d] # p => Kept(mem, mem, g, g, d)
      BY DEF Kept, Same
    <3>3. QueueOK(mem, "tx", Tail(s), After(mem)[p], t, g)
      BY <1>3, <3>1, <3>2, QueueTail
    <3> QED
      BY <3>3 DEF QueueOK
  <2>3. AfterOf[p] = After(mem)[p]
    BY DEF AfterOf, After
  <2>4. /\ 0 \in 0 .. Len(Tail(s))
        /\ \A i \in 1 .. Len(Tail(s)) : mem[Tail(s)[i]].own = IF i <= 0 THEN "SW" ELSE "HW"
    BY <2>1 DEF TxOK
  <2>5. FirstPending(AfterOf[p]) = At(Tail(s), 0 + 1, t)
    BY <1>2, <2>2, <2>3, <2>4, FirstPendingIs
  <2> QED
    BY <2>1, <2>5
<1> DEFINE ps2 == [ps EXCEPT !["tx"] = Tail(@)]
           n2  == [n EXCEPT !["tx"] = @ - 1]
<1>10. ps2["down"] = ps["down"] /\ ps2["tx"] = Tail(s)
  BY <1>3, <1>4 DEF Ghost
<1>11. n2["down"] = n["down"] /\ n2["tx"] = n["tx"] - 1 /\ n2 \in [Engines -> Nat]
  BY <1>3, <1>4, <1>8 DEF Ghost, Engines
\* What the MAC stands at, whatever happens to the packet.
<1>12. ASSUME \A d \in Descs : g.fst[d] # p => mem'[d] = mem[d]
       PROVE  /\ TxOK(mem', ps2["tx"], n2["tx"], cur'["tx"], t, halt')
              /\ DownOK(mem', ps2["down"], g, n2["down"], cur'["down"], term["down"])
              /\ cur' \in [Engines -> Descs] /\ run' \in [Engines -> BOOLEAN] /\ halt' \in BOOLEAN
  <2>1. \A i \in 2 .. Len(s) : mem'[s[i]] = mem[s[i]]
    <3> SUFFICES ASSUME NEW i \in 2 .. Len(s) PROVE mem'[s[i]] = mem[s[i]]
      OBVIOUS
    <3>1. s[i] # p /\ s[i] \in Descs /\ g.fst[s[i]] = s[i]
      BY <1>3, <1>5, <1>6, <1>7 DEF Inj
    <3> QED
      BY <1>12, <3>1
  <2>2. \A i \in 1 .. Len(ps["down"]) : mem'[ps["down"][i]] = mem[ps["down"][i]]
    <3> SUFFICES ASSUME NEW i \in 1 .. Len(ps["down"])
                 PROVE  mem'[ps["down"][i]] = mem[ps["down"][i]]
      OBVIOUS
    <3>1. /\ ps["down"][i] \in Descs /\ g.fst[ps["down"][i]] = ps["down"][i]
          /\ g.tag[ps["down"][i]] = "down"
      BY <1>3, <1>5
    <3> QED
      BY <1>7, <1>12, <3>1
  <2>3. cur'["down"] = cur["down"] /\ cur \in [Engines -> Descs] /\ run \in [Engines -> BOOLEAN]
    BY <1>2, <1>3 DEF Unstuck, engine, TypeOK
  <2>4. DownOK(mem', ps2["down"], g, n2["down"], cur'["down"], term["down"])
    BY <1>3, <1>4, <1>5, <1>10, <1>11, <2>2, <2>3, DownFrame
  <2>5. CASE mem[p].ctrl = "TXFAIL"
    <3>1. /\ cur' = [cur EXCEPT !["tx"] = At(Tail(s), 1, t)]
          /\ run' = [run EXCEPT !["tx"] = TRUE] /\ halt' = FALSE
      <4> HIDE DEF p, s, t
      <4>1. FirstPending(AfterOf[p]) = At(Tail(s), 1, t) /\ Unstuck(FirstPending(AfterOf[p]))
        BY <1>2, <1>9, <2>5
      <4> QED
        BY <4>1 DEF Unstuck
    <3>2. TxOK(mem', Tail(s), 0, At(Tail(s), 1, t), t, FALSE)
      <4>1. \A i \in 2 .. Len(s) :
              mem'[s[i]].own = mem[s[i]].own /\ mem'[s[i]].ctrl = mem[s[i]].ctrl
        BY <2>1
      <4>2. mem[s[1]].ctrl = "TXFAIL" /\ s \in Seq(Descs) /\ n["tx"] >= 1
            /\ TxOK(mem, s, n["tx"], cur["tx"], t, halt)
        BY <1>4, <1>6, <1>7, <1>8, <2>5
      <4> HIDE DEF p, s, t
      <4> QED
        BY <4>1, <4>2, TxUnstuck
    <3>3. At(Tail(s), 1, t) \in Descs
      <4>1. \A i \in 1 .. Len(s) : s[i] \in Descs
        BY <1>3, <1>5
      <4> QED
        BY <1>3, <1>6, <1>7, <4>1, TailIs DEF At
    <3> HIDE DEF p, s, t
    <3>4. n2["tx"] = 0
      BY <1>9, <1>11, <2>5
    <3>5. cur'["tx"] = At(Tail(s), 1, t) /\ cur' \in [Engines -> Descs]
      BY <1>3, <2>3, <3>1, <3>3
    <3>6. run' \in [Engines -> BOOLEAN] /\ halt' \in BOOLEAN
      BY <2>3, <3>1
    <3> QED
      BY <1>10, <2>4, <3>1, <3>2, <3>4, <3>5, <3>6
  <2>6. CASE mem[p].ctrl # "TXFAIL"
    <3>1. UNCHANGED <<cur, run, halt>>
      BY <1>2, <2>6 DEF engine
    <3>2. TxOK(mem', Tail(s), n["tx"] - 1, cur["tx"], t, halt)
      BY <1>4, <1>6, <1>7, <1>8, <2>1, <2>6, TxTail
    <3> QED
      BY <1>2, <1>10, <1>11, <2>3, <2>4, <3>1, <3>2 DEF TypeOK
  <2> QED
    BY <2>5, <2>6
<1>13. ASSUME \A d \in Descs : g.fst[d] # p => mem'[d] = mem[d], ~InHand' \/ dst' # "tx"
       PROVE  WakeOK'
  <2>1. cur["down"] \in Descs /\ g.fst[cur["down"]] # p
    BY <1>2, <1>3, <1>5, <1>7 DEF TypeOK
  <2>2. mem'[cur["down"]] = mem[cur["down"]]
    BY <1>13, <2>1
  <2>3. cur'["down"] = cur["down"] /\ run'["down"] = run["down"]
    BY <1>2, <1>3 DEF Unstuck, engine, TypeOK
  <2>4. mem[cur["down"]].own = "HW" => run["down"]
    BY <1>2, <1>3 DEF WakeOK, Due, InHand
  <2>5. CASE mem[p].ctrl = "TXFAIL"
    <3>1. run'["tx"]
      BY <1>2, <1>3, <2>5 DEF Unstuck, TypeOK
    <3> QED
      BY <2>2, <2>3, <2>4, <3>1 DEF WakeOK, Engines
  <2>6. CASE mem[p].ctrl # "TXFAIL"
    <3>1. UNCHANGED <<cur, run, halt>>
      BY <1>2, <2>6 DEF engine
    <3>2. ~halt => cur["tx"] \in Descs /\ g.fst[cur["tx"]] # p
      <4> SUFFICES ASSUME ~halt PROVE cur["tx"] \in Descs /\ cur["tx"] # p
        BY <1>3, <1>5
      <4>1. cur["tx"] = At(s, n["tx"] + 1, t)
        BY <1>4 DEF TxOK
      <4> HIDE DEF p, t
      <4>2. cur["tx"] # p
        <5>1. CASE n["tx"] + 1 <= Len(s)
          <6>1. cur["tx"] = s[n["tx"] + 1] /\ n["tx"] + 1 \in 1 .. Len(s) /\ n["tx"] + 1 # 1
            BY <1>8, <4>1, <5>1 DEF At
          <6> HIDE DEF s
          <6> QED
            BY <1>6, <1>7, <6>1 DEF Inj
        <5>2. CASE ~(n["tx"] + 1 <= Len(s))
          BY <1>3, <4>1, <5>2 DEF At
        <5> QED
          BY <5>1, <5>2
      <4> QED
        BY <1>2, <1>3, <4>2 DEF TypeOK
    <3>3. ~halt => mem'[cur["tx"]] = mem[cur["tx"]]
      BY <1>13, <3>2
    <3>4. mem[cur["tx"]].own = "HW" /\ ~halt => run["tx"]
      BY <1>2, <1>3 DEF WakeOK, Due, InHand
    <3> QED
      BY <2>2, <2>4, <3>1, <3>3, <3>4 DEF WakeOK, Engines
  <2> QED
    BY <2>5, <2>6
<1> HIDE DEF ps2, n2
<1>14. CASE ~IsReserved(p)
  <2>1. Begin(p, "down", FALSE) /\ UNCHANGED reserve /\ mem[p].data # FwData
    BY <1>2, <1>14 DEF IsReserved
  <2>2. Takes(ps, g, h, n, "tx", "down", p, FALSE)
    BY <1>1, <1>2, <1>3, <2>1 DEF Takes
  <2>3. \A d \in Descs : g.fst[d] # p => mem'[d] = mem[d]
    <3>1. Began(ps, g, n, "tx", p)
      BY <2>2, BeginKeeps
    <3> QED
      BY <3>1 DEF Began
  <2>4. dst' = "down"
    BY <2>1 DEF Begin
  <2>5. WakeOK'
    BY <1>13, <2>3, <2>4
  <2>6. ps2 = [ps EXCEPT !["tx"] = Tail(@)]
    BY DEF ps2
  <2>7. Counted(n, n2, "tx")
    BY <1>8, <1>11 DEF Engines, Counted
  <2>8. IInv' /\ Taking("tx")
    BY <1>11, <1>12, <2>1, <2>2, <2>3, <2>5, <2>6, <2>7, Begins
  <2>9. td'.data # FwData /\ fwAvail' = fwAvail
    BY <2>1 DEF Begin, Tdesc, reserve
  <2> QED
    BY <1>3, <2>4, <2>8, <2>9, PipeTakes
<1>15. CASE IsReserved(p)
  <2>1. /\ fwDesc' = p /\ fwAvail' = TRUE /\ UNCHANGED <<pc, td, dst, desc>>
        /\ mem' = [mem EXCEPT ![p].next = p, ![p].last = p, ![p].ctrl = "ok"]
    BY <1>2, <1>15 DEF Home, call
  <2>2. /\ \A d \in Descs : d # p => mem'[d] = mem[d]
        /\ mem' \in [Descs -> Descriptor]
    <3>1. mem[p] \in Descriptor
      BY <1>3
    <3>2. mem' = [mem EXCEPT ![p] = [mem[p] EXCEPT !.next = p, !.last = p, !.ctrl = "ok"]]
      BY <1>3, <2>1
    <3>3. [mem[p] EXCEPT !.next = p, !.last = p, !.ctrl = "ok"] \in Descriptor
      BY <1>3, <3>1 DEF Descriptor
    <3> HIDE DEF p
    <3> QED
      BY <1>3, <3>2, <3>3
  <2>3. \A d \in Descs : g.fst[d] # p => mem'[d] = mem[d]
    BY <1>7, <2>2
  <2> DEFINE g2 == [g EXCEPT !.tag = [@ EXCEPT ![p] = "home"]]
  <2>4. g2.pk = g.pk /\ g2.fst = g.fst /\ g2.tag = [g.tag EXCEPT ![p] = "home"]
    BY <1>4 DEF Ghost
  <2>5. g2 \in [pk : [Descs -> Seq(Descs)], tag : [Descs -> Places], fst : [Descs -> Descs]]
    BY <1>4 DEF Ghost, Places
  <2>6. Tail(s) \in Seq(Descs)
    BY <1>6, <1>7, TailIs
  <2>7. Ghost(ps2, g2, h, n2)
    <3>1. ps2 \in [Queues -> Seq(Descs)]
      BY <1>4, <2>6 DEF Ghost, ps2
    <3> HIDE DEF g2
    <3> QED
      BY <1>4, <1>11, <2>5, <3>1 DEF Ghost
  <2> HIDE DEF g2, p, t
  <2>8. \A d \in Descs : g.fst[d] # p => Kept(mem, mem', g, g2, d)
    BY <1>4, <1>7, <2>3, <2>4 DEF Kept, Same, Ghost
  <2>9. AfterOf[p] = After(mem)[p] /\ head \in [Queues -> Descs] /\ head' = [head EXCEPT !["tx"] = AfterOf[p]]
    BY <1>2 DEF AfterOf, After, TypeOK, Unlink, p
  <2>10. ASSUME NEW q \in Queues PROVE QueueOK(mem', q, ps2[q], head'[q], term'[q], g2)
    <3>1. QueueOK(mem, q, ps[q], head[q], term[q], g) /\ term[q] \in Descs
      BY <1>4, <1>5
    <3>2. CASE q = "tx"
      <4>1. QueueOK(mem, "tx", s, p, t, g)
        BY <3>1, <3>2 DEF p, t
      <4>2. QueueOK(mem', "tx", Tail(s), After(mem)[p], t, g2)
        BY <1>3, <2>8, <4>1, QueueTail
      <4> QED
        BY <1>2, <1>10, <2>9, <3>2, <4>2 DEF t
    <3>3. CASE q # "tx"
      <4>1. \A d \in Descs : g.tag[g.fst[d]] = q => Kept(mem, mem', g, g2, d)
        BY <1>7, <2>8, <3>3
      <4>2. QueueOK(mem', q, ps[q], head[q], term[q], g2)
        BY <3>1, <4>1, QueueFrame
      <4> QED
        BY <1>2, <1>4, <2>9, <3>3, <4>2 DEF ps2, Ghost
    <3> QED
      BY <3>2, <3>3
  <2>11. TxOK(mem', ps2["tx"], n2["tx"], cur'["tx"], t, halt')
    BY <1>12, <2>3
  <2>12. DownOK(mem', ps2["down"], g2, n2["down"], cur'["down"], term["down"])
    <3>1. DownOK(mem', ps2["down"], g, n2["down"], cur'["down"], term["down"])
      BY <1>12, <2>3
    <3> QED
      BY <2>4, <3>1 DEF DownOK
  <2>13. ~InHand' /\ g2.tag[p] = "home" /\ g2.fst[p] = p
    BY <1>2, <1>3, <1>4, <1>7, <2>1, <2>4 DEF InHand, Ghost
  <2>14. NextShape(ps2, g2, h, n2)
    BY <1>2, <2>1, <2>7, <2>10, <2>11, <2>12, <2>13 DEF NextShape, t
  <2>15. TypeOK' /\ PcOK'
    <3>1. head' \in [Queues -> Descs]
      BY <1>3, <2>9 DEF AfterOf, Descriptor
    <3>2. cur' \in [Engines -> Descs] /\ run' \in [Engines -> BOOLEAN] /\ halt' \in BOOLEAN
      BY <1>12, <2>3
    <3> QED
      BY <1>2, <1>3, <2>1, <2>2, <3>1, <3>2 DEF TypeOK, PcOK
  <2>16. TermOK'
    <3>1. \A q \in Queues : term[q] # p /\ term[q] \in Descs
      BY <1>3, <1>5, <1>7 DEF p, t
    <3> QED
      BY <1>2, <2>1, <2>2, <3>1 DEF TermOK
  <2>17. WakeOK'
    BY <1>13, <2>3, <2>13
  <2>18. IInv'
    BY <2>14, <2>15, <2>16, <2>17, Reshape DEF IInv
  <2>19. PICK ps3, g3, n3 : ps3 = ps2 /\ g3 = g2 /\ n3 = n2 /\ NextShape(ps3, g3, h, n3)
    BY <2>14
  <2>190. Seen(ps, g, h, n) /\ Seen(ps3, g3, h, n3)'
    BY <1>1, <1>2, <2>15, <2>19, SeenIs, SeenNext
  <2>20. DataKept(p)
    BY <2>2 DEF DataKept
  <2>21. ASSUME NEW q \in Queues, q # "tx" PROVE Like(ps, g, n, ps2, g2, n2, q)
    <3>1. ps2[q] = ps[q] /\ Cut(ps2, n2, q) = Cut(ps, n, q) /\ (q = "down" => n2[q] = n[q])
      BY <1>4, <1>11, <2>21 DEF Cut, Queues, ps2, Ghost
    <3>2. \A i \in 1 .. Len(ps[q]) : ps[q][i] # p /\ g2.pk[ps[q][i]] = g.pk[ps[q][i]]
      BY <1>5, <1>7, <2>4, <2>21
    <3>3. LikeIf(ps, g, h, n, ps2, g2, n2, p, q)
      BY <1>1, <1>2, <1>7, <2>20, <3>1, <3>2 DEF LikeIf
    <3> QED
      BY <3>3, LikeIs
  <2>22. Behind(ps, g, n, ps2, g2, n2, "tx") /\ Head(Front(mem, g, ps, n, "tx")) = <<FwData>>
    <3>1. Cut(ps, n, "tx") >= 1 /\ Cut(ps2, n2, "tx") = Cut(ps, n, "tx") - 1
      BY <1>8, <1>11 DEF Cut
    <3>2. \A i \in 2 .. Len(s) : s[i] # p /\ g2.pk[s[i]] = g.pk[s[i]]
      <4>1. \A i \in 2 .. Len(s) : i \in 1 .. Len(s) /\ 1 \in 1 .. Len(s) /\ i # 1
        BY <1>6, <1>7
      <4> QED
        BY <1>6, <1>7, <2>4, <4>1 DEF Inj
    <3>3. BehindIf(ps, g, h, n, ps2, g2, n2, p, "tx")
      BY <1>1, <1>2, <1>3, <1>7, <1>10, <2>20, <3>1, <3>2 DEF BehindIf
    <3>4. /\ Behind(ps, g, n, ps2, g2, n2, "tx")
          /\ Head(Front(mem, g, ps, n, "tx")) = Buf(mem, g.pk[p])
      BY <1>6, <3>3, BehindIs
    <3>5. Buf(mem, g.pk[p]) = <<FwData>>
      <4> DEFINE c == g.pk[p]
      <4>1. c[1] = p /\ Len(c) = 1 /\ mem[p].data = FwData
        BY <1>6, <1>15 DEF Member, HasData, IsReserved
      <4> HIDE DEF c
      <4>2. Buf(mem, c) = [j \in 1 .. 1 |-> FwData]
        BY <4>1 DEF Buf
      <4>3. [j \in 1 .. 1 |-> FwData] = <<FwData>>
        OBVIOUS
      <4> QED
        BY <4>2, <4>3 DEF c
    <3> QED
      BY <3>4, <3>5
  <2>23. Pipe!ReserveHome
    <3>1. Like(ps, g, n, ps3, g3, n3, "down") /\ Like(ps, g, n, ps3, g3, n3, "retry")
      BY <2>19, <2>21 DEF Queues
    <3>2. Held = <<>> /\ Held' = <<>>
      BY <1>2, <2>13, <2>190 DEF Seen
    <3>3. Behind(ps, g, n, ps3, g3, n3, "tx") /\ Head(Front(mem, g, ps, n, "tx")) = <<FwData>>
      BY <2>19, <2>22
    <3> QED
      BY <2>1, <2>190, <3>1, <3>2, <3>3 DEF Seen, Like, Behind, Pipe!ReserveHome
  <2> QED
    BY <2>18, <2>23
<1> QED
  BY <1>14, <1>15

-----------------------------------------------------------------------------
(* The engines *)

\* A step that changes descriptors of engine e's queue only, and what is left of
\* the next state's shape to show then.
OnlyIn(e, g, g2) ==
  \A d \in Descs : g.tag[g.fst[d]] # e =>
    mem'[d] = mem[d] /\ g2.fst[d] = g.fst[d] /\ g2.tag[d] = g.tag[d] /\ g2.pk[d] = g.pk[d]

Others(e, ps, h, g, g2) ==
  /\ \A q \in Queues : q # e => QueueOK(mem', q, ps[q], head'[q], term'[q], g2)
  /\ InHand' => HandOK(mem', h, desc', td', dst', term'[dst'], g2)
  /\ fwAvail' => g2.tag[fwDesc'] = "home" /\ g2.fst[fwDesc'] = fwDesc'
  /\ \A q \in Queues : q # e => \A i \in 1 .. Len(ps[q]) :
       mem'[ps[q][i]] = mem[ps[q][i]] /\ g2.pk[ps[q][i]] = g.pk[ps[q][i]]

LEMMA OthersKept ==
  ASSUME TypeOK, NEW ps, NEW g, NEW h, NEW n, Shape(ps, g, h, n), NEW e \in Engines, NEW g2,
         OnlyIn(e, g, g2), UNCHANGED <<queues, call, reserve>>
  PROVE  Others(e, ps, h, g, g2)
<1>0. /\ e # "held" /\ e # "home"
      /\ \A d \in Descs : g.tag[g.fst[d]] # e =>
           mem'[d] = mem[d] /\ g2.fst[d] = g.fst[d] /\ g2.tag[d] = g.tag[d] /\ g2.pk[d] = g.pk[d]
  BY DEF Engines, OnlyIn
<1>1. /\ UNCHANGED <<head, term, pc, td, dst, desc, fwDesc, fwAvail>>
      /\ desc \in Descs /\ fwDesc \in Descs
  BY DEF queues, call, reserve, TypeOK
<1>2. \A q \in Queues :
        /\ ps[q] \in Seq(Descs) /\ term[q] \in Descs
        /\ \A i \in 1 .. Len(ps[q]) :
             ps[q][i] \in Descs /\ g.tag[ps[q][i]] = q /\ g.fst[ps[q][i]] = ps[q][i]
  BY PlacesOf
<1>3. ASSUME NEW q \in Queues, q # e PROVE QueueOK(mem', q, ps[q], head'[q], term'[q], g2)
  <2>1. QueueOK(mem, q, ps[q], head[q], term[q], g) /\ term[q] \in Descs
    BY <1>2 DEF Shape, QueuesOK
  <2>2. \A d \in Descs : g.tag[g.fst[d]] = q => Kept(mem, mem', g, g2, d)
    BY <1>0, <1>3 DEF Kept, Same
  <2>3. QueueOK(mem', q, ps[q], head[q], term[q], g2)
    BY <2>1, <2>2, QueueFrame
  <2> QED
    BY <1>1, <2>3
<1>4. InHand' => HandOK(mem', h, desc', td', dst', term'[dst'], g2)
  <2> SUFFICES ASSUME InHand PROVE HandOK(mem', h, desc, td, dst, term[dst], g2)
    BY <1>1 DEF InHand
  <2>1. HandOK(mem, h, desc, td, dst, term[dst], g)
    BY DEF Shape, HeldOK
  <2>2. \A d \in Descs : g.tag[g.fst[d]] = "held" =>
          mem'[d] = mem[d] /\ g2.fst[d] = g.fst[d] /\ g2.tag[d] = g.tag[d]
    BY <1>0
  <2> QED
    BY <1>1, <2>1, <2>2, HandFrame
<1>5. fwAvail' => g2.tag[fwDesc'] = "home" /\ g2.fst[fwDesc'] = fwDesc'
  BY <1>0, <1>1 DEF Shape, HomeOK
<1>6. \A q \in Queues : q # e => \A i \in 1 .. Len(ps[q]) :
        mem'[ps[q][i]] = mem[ps[q][i]] /\ g2.pk[ps[q][i]] = g.pk[ps[q][i]]
  BY <1>0, <1>2
<1> QED
  BY <1>3, <1>4, <1>5, <1>6 DEF Others

\* A step that writes no buffer leaves every packet's as they are.
SameData(m, m2) == \A d \in Descs : m2[d].data = m[d].data

LEMMA BufSame ==
  ASSUME NEW m, NEW m2, SameData(m, m2), NEW c \in Seq(Descs)
  PROVE  Buf(m2, c) = Buf(m, c)
<1>1. \A j \in 1 .. Len(c) : c[j] \in Descs
  BY SeqIsFunction
<1>2. \A j \in 1 .. Len(c) : m2[c[j]].data = m[c[j]].data
  BY <1>1 DEF SameData
<1> QED
  BY <1>2 DEF Buf

LEMMA BufsSame ==
  ASSUME NEW m, NEW m2, SameData(m, m2), NEW g, NEW s, NEW lo, NEW hi, Slice(m, g, s, lo, hi)
  PROVE  Bufs(m2, g, s, lo, hi) = Bufs(m, g, s, lo, hi)
<1>1. lo \in Nat /\ hi \in Nat /\ lo <= hi /\ hi <= Len(s) /\ Len(s) \in Nat
  BY SeqIsFunction DEF Slice
<1>2. ASSUME NEW i \in 1 .. hi - lo PROVE Buf(m2, g.pk[s[lo + i]]) = Buf(m, g.pk[s[lo + i]])
  <2>1. lo + i \in 1 .. Len(s)
    BY <1>1
  <2>2. s[lo + i] \in Descs
    BY <2>1, SeqIsFunction DEF Slice
  <2>3. g.pk[s[lo + i]] \in Seq(Descs)
    BY <2>2 DEF Slice
  <2> QED
    BY <2>3, BufSame
<1> QED
  BY <1>2 DEF Bufs

\* Every packet stays in its queue with its buffers, and in the tx queue one more is
\* processed.
Attempted(ps, g, h, n, n2) ==
  /\ TypeOK /\ TypeOK' /\ Shape(ps, g, h, n) /\ NextShape(ps, g, h, n2)
  /\ SameData(mem, mem')
  /\ n["tx"] < Len(ps["tx"]) /\ n2["tx"] = n["tx"] + 1 /\ n2["down"] = n["down"]
  /\ UNCHANGED <<pc, td, dst, desc, fwAvail>>

\* To the pipe, that is a packet sent.
LEMMA PipeSends ==
  ASSUME NEW ps, NEW g, NEW h, NEW n, NEW n2, Attempted(ps, g, h, n, n2)
  PROVE  Pipe!Send
<1>1. /\ TypeOK /\ TypeOK' /\ Shape(ps, g, h, n) /\ NextShape(ps, g, h, n2)
      /\ SameData(mem, mem')
      /\ n["tx"] < Len(ps["tx"]) /\ n2["tx"] = n["tx"] + 1 /\ n2["down"] = n["down"]
      /\ UNCHANGED <<pc, td, dst, desc, fwAvail>>
  BY DEF Attempted
<1>2. Seen(ps, g, h, n) /\ Seen(ps, g, h, n2)'
  BY <1>1, SeenIs, SeenNext
<1>3. "down" \in Queues /\ "tx" \in Queues /\ "retry" \in Queues
  BY DEF Queues
<1>4. ASSUME NEW q \in Queues
      PROVE  /\ Slice(mem, g, ps[q], 0, Cut(ps, n, q)) /\ Slice(mem, g, ps[q], Cut(ps, n, q), Len(ps[q]))
             /\ ps[q] \in Seq(Descs) /\ Len(ps[q]) \in Nat /\ Cut(ps, n, q) \in 0 .. Len(ps[q])
  BY <1>1, CutIs
<1>5. ASSUME NEW q \in Queues, q # "tx" PROVE Like(ps, g, n, ps, g, n2, q)
  <2>1. Cut(ps, n2, q) = Cut(ps, n, q)
    BY <1>1, <1>5 DEF Cut, Queues
  <2>2. /\ Bufs(mem', g, ps[q], 0, Cut(ps, n, q)) = Bufs(mem, g, ps[q], 0, Cut(ps, n, q))
        /\ Bufs(mem', g, ps[q], Cut(ps, n, q), Len(ps[q])) = Bufs(mem, g, ps[q], Cut(ps, n, q), Len(ps[q]))
    BY <1>1, <1>4, BufsSame
  <2>3. q = "down" => Frees(mem', ps["down"], n2["down"]) = Frees(mem, ps["down"], n["down"])
    <3> DEFINE s == ps["down"]
               k == n["down"]
    <3>1. Len(s) \in Nat /\ k \in 0 .. Len(s) /\ n2["down"] = k
      BY <1>1, <1>3, <1>4 DEF Cut
    <3>2. \A i \in 1 .. Len(s) : mem'[s[i]].data = mem[s[i]].data
      BY <1>1, <1>3, <1>4, SeqIsFunction DEF SameData
    <3> HIDE DEF s, k
    <3>3. \A i \in 1 .. Len(s) - k : k + i \in 1 .. Len(s)
      BY <3>1
    <3>4. Frees(mem', s, k) = Frees(mem, s, k)
      BY <3>2, <3>3 DEF Frees
    <3> QED
      BY <3>1, <3>4 DEF s, k
  <2> QED
    BY <2>1, <2>2, <2>3 DEF Like, Front, Back
<1> DEFINE s == ps["tx"]
           k == n["tx"]
           L == Len(s)
<1>6. /\ k \in Nat /\ L \in Nat /\ k < L /\ Cut(ps, n, "tx") = k /\ Cut(ps, n2, "tx") = k + 1
      /\ Slice(mem, g, s, 0, k) /\ Slice(mem, g, s, k, L)
  BY <1>1, <1>3, <1>4 DEF Cut
<1>7. Slice(mem, g, s, 0, k + 1) /\ Slice(mem, g, s, k + 1, L)
  BY <1>6 DEF Slice
<1>8. /\ Front(mem, g, ps, n, "tx") = Bufs(mem, g, s, 0, k)
      /\ Back(mem, g, ps, n, "tx") = Bufs(mem, g, s, k, L)
      /\ Front(mem', g, ps, n2, "tx") = Bufs(mem', g, s, 0, k + 1)
      /\ Back(mem', g, ps, n2, "tx") = Bufs(mem', g, s, k + 1, L)
  BY <1>6 DEF Front, Back
<1>9. L = Len(s)
  OBVIOUS
<1> HIDE DEF s, k, L
<1>10. /\ Bufs(mem', g, s, 0, k + 1) = Bufs(mem, g, s, 0, k + 1)
       /\ Bufs(mem', g, s, k + 1, L) = Bufs(mem, g, s, k + 1, L)
  BY <1>1, <1>7, BufsSame
<1>11. /\ Bufs(mem, g, s, k, L) # <<>>
       /\ Head(Bufs(mem, g, s, k, L)) = Buf(mem, g.pk[s[k + 1]])
       /\ Tail(Bufs(mem, g, s, k, L)) = Bufs(mem, g, s, k + 1, L)
  BY <1>6, BufsTail
<1>12. Bufs(mem, g, s, 0, k + 1) = Append(Bufs(mem, g, s, 0, k), Buf(mem, g.pk[s[k + 1]]))
  <2> DEFINE z == 0
  <2>1. Slice(mem, g, s, z, k) /\ k < Len(s)
    BY <1>6, <1>9
  <2> HIDE DEF z
  <2>2. Bufs(mem, g, s, z, k + 1) = Append(Bufs(mem, g, s, z, k), Buf(mem, g.pk[s[k + 1]]))
    BY <2>1, BufsMore
  <2> QED
    BY <2>2 DEF z
<1>13. Held' = Held
  <2>1. InHand' <=> InHand
    BY <1>1 DEF InHand
  <2>2. h \in Seq(Descs)
    BY <1>1 DEF Shape, Ghost
  <2>3. Buf(mem', h) = Buf(mem, h)
    BY <1>1, <2>2, BufSame
  <2> QED
    BY <1>1, <1>2, <2>1, <2>3 DEF Seen
<1>14. /\ Back(mem, g, ps, n, "tx") # <<>>
       /\ Front(mem', g, ps, n2, "tx") = Append(Front(mem, g, ps, n, "tx"), Head(Back(mem, g, ps, n, "tx")))
       /\ Back(mem', g, ps, n2, "tx") = Tail(Back(mem, g, ps, n, "tx"))
  BY <1>8, <1>10, <1>11, <1>12
<1>15. Like(ps, g, n, ps, g, n2, "down") /\ Like(ps, g, n, ps, g, n2, "retry")
  BY <1>3, <1>5
<1> QED
  BY <1>1, <1>2, <1>13, <1>14, <1>15 DEF Seen, Like, Pipe!Send

\* An attempt of the MAC keeps the invariant, and the pipe sees a packet sent.
LEMMA StepSend ==
  ASSUME NEW outcome \in Outcomes
  PROVE  IInv /\ Send(outcome) => IInv' /\ Pipe!Send
<1> SUFFICES ASSUME IInv, Send(outcome) PROVE IInv' /\ Pipe!Send
  OBVIOUS
<1>1. PICK ps, g, h, n : Shape(ps, g, h, n)
  BY DEF IInv, Shaped
<1> DEFINE p == cur["tx"]
           s == ps["tx"]
           t == term["tx"]
           k == n["tx"]
           c == g.pk[p]
           chain == Packet(p)
<1>0. TypeOK /\ TermOK /\ WakeOK /\ PcOK
  BY DEF IInv
<1>2. /\ UNCHANGED <<queues, run, call, reserve>>
      /\ run["tx"] /\ ~halt /\ mem[p].own = "HW" /\ halt' = (outcome = "TXFAIL")
  BY DEF Send
<1>25. mem' = [d \in Descs |->
           IF \E i \in DOMAIN chain : chain[i] = d
           THEN [mem[d] EXCEPT !.own = "SW", !.ctrl = IF d = p THEN outcome ELSE @]
           ELSE mem[d]]
  BY DEF Send
<1>26. cur' = [cur EXCEPT !["tx"] = IF outcome = "TXFAIL" THEN p ELSE AfterOf[p]]
  BY DEF Send
<1>3. /\ mem \in [Descs -> Descriptor] /\ p \in Descs /\ "tx" \in Queues /\ "down" \in Queues
      /\ "tx" \in Engines /\ "down" \in Engines /\ t \in Descs /\ cur \in [Engines -> Descs]
      /\ halt = FALSE
  BY <1>0, <1>2 DEF TypeOK, Queues, Engines
<1>4. /\ Ghost(ps, g, h, n)
      /\ DownOK(mem, ps["down"], g, n["down"], cur["down"], term["down"])
      /\ TxOK(mem, s, k, p, t, FALSE)
      /\ QueueOK(mem, "tx", s, head["tx"], t, g)
  BY <1>1, <1>3 DEF Shape, QueuesOK
<1>5. /\ \A q \in Queues :
           /\ ps[q] \in Seq(Descs) /\ Len(ps[q]) \in Nat /\ term[q] \in Descs
           /\ g.tag[term[q]] = q /\ g.fst[term[q]] = term[q]
           /\ \A i \in 1 .. Len(ps[q]) : /\ ps[q][i] \in Descs /\ g.tag[ps[q][i]] = q
                                         /\ g.fst[ps[q][i]] = ps[q][i]
      /\ \A e \in Engines : g.tag[cur[e]] = e /\ g.fst[cur[e]] = cur[e]
  BY <1>0, <1>1, PlacesOf
<1>6. /\ s \in Seq(Descs) /\ Len(s) \in Nat /\ Inj(s) /\ Without(s, t) /\ Leads(After(mem), s, t)
      /\ g.tag[p] = "tx" /\ g.fst[p] = p
      /\ \A i \in 1 .. Len(s) : s[i] \in Descs /\ g.fst[s[i]] = s[i]
  BY <1>3, <1>4, <1>5 DEF QueueOK, IsRing
<1> HIDE DEF s, t, k
<1>7. k \in Nat /\ k < Len(s) /\ p = s[k + 1]
  <2>1. k \in 0 .. Len(s) /\ p = At(s, k + 1, t)
    BY <1>4 DEF TxOK
  <2>2. p # t
    <3>1. mem[t].own = "SW"
      <4>1. mem[t] = IF pc = "publish" /\ "tx" = dst THEN td ELSE Cleared(t)
        BY <1>0, <1>3 DEF TermOK, t
      <4>2. pc = "publish" => td.own = "SW"
        BY <1>1 DEF Shape, HeldOK, InHand, HandOK
      <4> QED
        BY <4>1, <4>2 DEF Cleared
    <3> QED
      BY <1>2, <3>1
  <2> QED
    BY <1>6, <2>1, <2>2 DEF At
<1>8. Member(mem, "tx", p, g)
  BY <1>4, <1>6, <1>7 DEF QueueOK, s
<1>9. c \in Seq(Descs) /\ Len(c) \in Nat /\ \A j \in 1 .. Len(c) : g.fst[c[j]] = p
  BY <1>8, SeqIsFunction DEF Member, IsPacket
<1>10. Len(c) >= 1 /\ c[1] = p /\ chain = c /\ DOMAIN c = 1 .. Len(c)
  BY <1>0, <1>8, <1>9, PacketIs, SeqIsFunction DEF Member, IsPacket
<1> HIDE DEF chain, c, p
<1>11. /\ \A d \in Descs : Same(mem, mem', d)
       /\ \A d \in Descs : g.fst[d] # p => mem'[d] = mem[d]
       /\ mem'[p].own = "SW" /\ mem'[p].ctrl = outcome /\ mem' \in [Descs -> Descriptor]
  <2> DEFINE Sent(d) == [mem[d] EXCEPT !.own = "SW", !.ctrl = IF d = p THEN outcome ELSE @]
  <2>1. mem' = [d \in Descs |-> IF \E i \in 1 .. Len(c) : c[i] = d THEN Sent(d) ELSE mem[d]]
    BY <1>10, <1>25
  <2>2. \A d \in Descs : g.fst[d] # p => mem'[d] = mem[d]
    BY <1>9, <2>1
  <2>3. ASSUME NEW d \in Descs
        PROVE  /\ Sent(d) \in Descriptor /\ Same(mem, mem', d)
               /\ d = p => Sent(d).own = "SW" /\ Sent(d).ctrl = outcome
    <3>1. mem[d] \in Descriptor /\ outcome \in {"ok", "TXFAIL", "BAFAIL"}
      BY <1>3, DmaAssumption
    <3>2. /\ Sent(d) \in Descriptor /\ Sent(d).next = mem[d].next /\ Sent(d).last = mem[d].last
          /\ Sent(d).data = mem[d].data
          /\ d = p => Sent(d).own = "SW" /\ Sent(d).ctrl = outcome
      BY <3>1 DEF Descriptor
    <3> HIDE DEF Sent
    <3>3. mem'[d] = Sent(d) \/ mem'[d] = mem[d]
      BY <2>1
    <3>4. CASE mem'[d] = Sent(d)
      BY <3>2, <3>4 DEF Same
    <3>5. CASE mem'[d] = mem[d]
      BY <3>2, <3>5 DEF Same
    <3> QED
      BY <3>3, <3>4, <3>5
  <2> HIDE DEF Sent
  <2>4. mem'[p] = Sent(p)
    <3>1. \E i \in 1 .. Len(c) : c[i] = p
      <4>1. 1 \in 1 .. Len(c) /\ c[1] = p
        BY <1>9, <1>10
      <4> QED
        BY <4>1
    <3> QED
      BY <1>3, <2>1, <3>1
  <2> HIDE DEF Sent
  <2> QED
    BY <1>3, <2>1, <2>2, <2>3, <2>4
<1> DEFINE n2 == [n EXCEPT !["tx"] = k + 1]
<1>12. n2["down"] = n["down"] /\ n2["tx"] = k + 1 /\ n2 \in [Engines -> Nat]
  BY <1>3, <1>4, <1>7 DEF Ghost, Engines
<1> HIDE DEF n2
<1>13. \A d \in Descs : g.tag[g.fst[d]] # "tx" => mem'[d] = mem[d]
  BY <1>6, <1>11
<1>14. /\ \A q \in Queues : q # "tx" => QueueOK(mem', q, ps[q], head'[q], term'[q], g)
       /\ InHand' => HandOK(mem', h, desc', td', dst', term'[dst'], g)
       /\ fwAvail' => g.tag[fwDesc'] = "home" /\ g.fst[fwDesc'] = fwDesc'
       /\ \A q \in Queues : q # "tx" => \A i \in 1 .. Len(ps[q]) : mem'[ps[q][i]] = mem[ps[q][i]]
  <2>1. OnlyIn("tx", g, g)
    BY <1>13 DEF OnlyIn
  <2>2. Others("tx", ps, h, g, g)
    BY <1>0, <1>1, <1>2, <1>3, <2>1, OthersKept
  <2> QED
    BY <2>2 DEF Others
<1>15. UNCHANGED <<head, term, pc, td, dst, desc, fwDesc, fwAvail>>
  BY <1>2 DEF queues, call, reserve
<1>16. QueueOK(mem', "tx", s, head'["tx"], term'["tx"], g)
  <2>1. \A d \in Descs : g.tag[g.fst[d]] = "tx" => Kept(mem, mem', g, g, d)
    BY <1>11 DEF Kept
  <2>2. QueueOK(mem', "tx", s, head["tx"], t, g)
    BY <1>3, <1>4, <2>1, QueueFrame
  <2> QED
    BY <1>15, <2>2 DEF t
<1>17. DownOK(mem', ps["down"], g, n2["down"], cur'["down"], term'["down"])
  <2>1. cur'["down"] = cur["down"]
    BY <1>26, <1>3
  <2>2. \A i \in 1 .. Len(ps["down"]) : mem'[ps["down"][i]].own = mem[ps["down"][i]].own
    BY <1>3, <1>14
  <2>3. DownOK(mem', ps["down"], g, n["down"], cur["down"], term["down"])
    BY <1>3, <1>4, <1>5, <2>2, DownFrame
  <2> QED
    BY <1>12, <1>15, <2>1, <2>3
<1>18. TxOK(mem', s, k + 1, cur'["tx"], t, halt')
  <2>1. \A i \in 1 .. Len(s) : i # k + 1 => mem'[s[i]] = mem[s[i]]
    <3> SUFFICES ASSUME NEW i \in 1 .. Len(s), i # k + 1 PROVE mem'[s[i]] = mem[s[i]]
      OBVIOUS
    <3>1. s[i] # p
      BY <1>6, <1>7 DEF Inj
    <3> QED
      BY <1>6, <1>11, <3>1
  <2>2. \A i \in 1 .. Len(s) : mem'[s[i]].own = IF i <= k + 1 THEN "SW" ELSE "HW"
    <3> SUFFICES ASSUME NEW i \in 1 .. Len(s)
                 PROVE  mem'[s[i]].own = IF i <= k + 1 THEN "SW" ELSE "HW"
      OBVIOUS
    <3>1. CASE i = k + 1
      BY <1>7, <1>11, <3>1
    <3>2. CASE i # k + 1
      <4>1. mem[s[i]].own = IF i <= k THEN "SW" ELSE "HW"
        BY <1>4 DEF TxOK
      <4> QED
        BY <1>7, <2>1, <3>2, <4>1
    <3> QED
      BY <3>1, <3>2
  <2>3. ASSUME NEW i \in 1 .. k + 1, mem'[s[i]].ctrl = "TXFAIL" PROVE halt' /\ i = k + 1
    <3>1. CASE i = k + 1
      BY <1>2, <1>7, <1>11, <2>3, <3>1
    <3>2. CASE i # k + 1
      <4>1. i \in 1 .. k /\ i \in 1 .. Len(s) /\ mem[s[i]].ctrl = "TXFAIL"
        BY <1>6, <1>7, <2>1, <2>3, <3>2
      <4> QED
        BY <1>4, <4>1 DEF TxOK
    <3> QED
      BY <3>1, <3>2
  <2>4. CASE outcome = "TXFAIL"
    <3>1. cur'["tx"] = p /\ halt' /\ mem'[p].ctrl = "TXFAIL"
      BY <1>2, <1>3, <1>11, <1>26, <2>4
    <3> QED
      BY <1>6, <1>7, <2>2, <2>3, <3>1 DEF TxOK
  <2>5. CASE outcome # "TXFAIL"
    <3>1. cur'["tx"] = AfterOf[p] /\ ~halt'
      BY <1>2, <1>3, <1>26, <2>5
    <3>2. AfterOf[p] = After(mem)[p]
      BY DEF AfterOf, After
    <3>3. After(mem)[p] = At(s, k + 2, t)
      BY <1>6, <1>7 DEF Leads, At
    <3> QED
      BY <1>6, <1>7, <2>2, <2>3, <3>1, <3>2, <3>3 DEF TxOK
  <2> QED
    BY <2>4, <2>5
<1>19. \A q \in Queues : QueueOK(mem', q, ps[q], head'[q], term'[q], g)
  BY <1>14, <1>16 DEF s
<1>20. Ghost(ps, g, h, n2)
  BY <1>4, <1>12 DEF Ghost
<1>21. NextShape(ps, g, h, n2)
  BY <1>12, <1>14, <1>15, <1>17, <1>18, <1>19, <1>20 DEF NextShape, s, t
<1>22. TypeOK' /\ PcOK'
  <2>1. AfterOf[p] \in Descs
    BY <1>3 DEF AfterOf, Descriptor
  <2>2. cur' \in [Engines -> Descs] /\ halt' \in BOOLEAN
    BY <1>2, <1>3, <1>26, <2>1 DEF p
  <2> QED
    BY <1>0, <1>2, <1>11, <1>15, <2>2 DEF TypeOK, PcOK, Empty
<1>23. TermOK'
  <2>1. \A q \in Queues : term[q] # p
    <3> SUFFICES ASSUME NEW q \in Queues, term[q] = p PROVE FALSE
      OBVIOUS
    <3>1. q = "tx"
      BY <1>5, <1>6
    <3> QED
      BY <1>6, <1>7, <3>1 DEF t, Without
  <2>2. \A q \in Queues : mem'[term[q]] = mem[term[q]]
    BY <1>5, <1>11, <2>1
  <2> QED
    BY <1>0, <1>15, <2>2 DEF TermOK
<1>24. WakeOK'
  <2>1. mem'[cur'["down"]] = mem[cur["down"]] /\ cur'["down"] = cur["down"] /\ run' = run
    BY <1>2, <1>3, <1>5, <1>6, <1>13, <1>26
  <2> QED
    BY <1>0, <1>2, <1>3, <1>15, <2>1 DEF WakeOK, Due, InHand, Engines
<1>27. IInv'
  BY <1>21, <1>22, <1>23, <1>24, Reshape DEF IInv
<1>28. Attempted(ps, g, h, n, n2)
  <2>1. SameData(mem, mem')
    BY <1>11 DEF SameData, Same
  <2>2. n["tx"] < Len(ps["tx"]) /\ n2["tx"] = n["tx"] + 1 /\ n2["down"] = n["down"]
    BY <1>7, <1>12 DEF s, k
  <2> QED
    BY <1>0, <1>1, <1>15, <1>21, <1>22, <2>1, <2>2 DEF Attempted
<1>29. Pipe!Send
  BY <1>28, PipeSends
<1> QED
  BY <1>27, <1>29

\* The k blocks that follow the m-th one in a queue of single ones become a packet.
Joined(s, m, k) == [i \in 1 .. Len(s) - k + 1 |-> IF i <= m + 1 THEN s[i] ELSE s[i + k - 1]]
Part(s, m, k)   == [j \in 1 .. k |-> s[m + j]]

\* The parts of a queue some blocks of which become one packet.
LEMMA JoinedIs ==
  ASSUME NEW s \in Seq(Descs), NEW m \in Nat, NEW k \in Nat \ {0}, m + k <= Len(s)
  PROVE  /\ Joined(s, m, k) \in Seq(Descs) /\ Len(Joined(s, m, k)) = Len(s) - k + 1
         /\ \A i \in 1 .. Len(s) - k + 1 :
              Joined(s, m, k)[i] = IF i <= m + 1 THEN s[i] ELSE s[i + k - 1]
         /\ Part(s, m, k) \in Seq(Descs) /\ Len(Part(s, m, k)) = k
         /\ \A j \in 1 .. k : Part(s, m, k)[j] = s[m + j]
<1>1. Len(s) \in Nat /\ \A i \in 1 .. Len(s) : s[i] \in Descs
  BY SeqIsFunction
<1> DEFINE F(i) == IF i <= m + 1 THEN s[i] ELSE s[i + k - 1]
           l == Len(s) - k + 1
<1>2. l \in Nat /\ \A i \in 1 .. l : F(i) \in Descs
  BY <1>1
<1>3. Joined(s, m, k) = [i \in 1 .. l |-> F(i)]
  BY DEF Joined
<1>4. /\ Joined(s, m, k) \in Seq(Descs) /\ Len(Joined(s, m, k)) = l
      /\ \A i \in 1 .. l : Joined(s, m, k)[i] = F(i)
  <2> HIDE DEF F, l
  <2> QED
    BY <1>2, <1>3
<1>5. /\ Part(s, m, k) \in Seq(Descs) /\ Len(Part(s, m, k)) = k
      /\ \A j \in 1 .. k : Part(s, m, k)[j] = s[m + j]
  <2>1. \A j \in 1 .. k : s[m + j] \in Descs
    BY <1>1
  <2> QED
    BY <2>1 DEF Part
<1> QED
  BY <1>4, <1>5

\* The buffers of the free descriptors are a sequence.
LEMMA FreesAre ==
  ASSUME NEW m \in [Descs -> Descriptor], NEW s \in Seq(Descs), NEW lo \in 0 .. Len(s)
  PROVE  /\ Frees(m, s, lo) \in Seq(Words) /\ Len(Frees(m, s, lo)) = Len(s) - lo
         /\ \A i \in 1 .. Len(s) - lo : Frees(m, s, lo)[i] = m[s[lo + i]].data
<1> DEFINE F(i) == m[s[lo + i]].data
           A == Len(s) - lo
           b == Frees(m, s, lo)
<1>1. Len(s) \in Nat /\ \A i \in 1 .. Len(s) : s[i] \in Descs
  BY SeqIsFunction
<1>2. ASSUME NEW i \in 1 .. A PROVE F(i) \in Words
  <2>1. lo + i \in 1 .. Len(s)
    BY <1>1
  <2>2. m[s[lo + i]] \in Descriptor
    BY <1>1, <2>1
  <2> QED
    BY <2>2 DEF Descriptor, Words
<1>3. b = [i \in 1 .. A |-> F(i)] /\ A \in Nat
  BY <1>1 DEF Frees
<1> HIDE DEF F, A, b
<1>4. b \in Seq(Words) /\ Len(b) = A /\ \A i \in 1 .. A : b[i] = F(i)
  BY <1>2, <1>3
<1> QED
  BY <1>4 DEF F, A, b

\* In the down queue, k free descriptors have become the last processed packet.
Filled(ps, g, h, n, ps2, g2, n2, k) ==
  /\ TypeOK /\ TypeOK' /\ Shape(ps, g, h, n) /\ NextShape(ps2, g2, h, n2)
  /\ SameData(mem, mem')
  /\ \A q \in Queues : q # "down" =>
       ps2[q] = ps[q] /\ \A i \in 1 .. Len(ps[q]) : g2.pk[ps[q][i]] = g.pk[ps[q][i]]
  /\ n2["tx"] = n["tx"] /\ n2["down"] = n["down"] + 1
  /\ k \in Nat \ {0} /\ n["down"] + k <= Len(ps["down"])
  /\ ps2["down"] = Joined(ps["down"], n["down"], k)
  /\ \A i \in 1 .. n["down"] : g2.pk[ps["down"][i]] = g.pk[ps["down"][i]]
  /\ g2.pk[ps["down"][n["down"] + 1]] = Part(ps["down"], n["down"], k)
  /\ UNCHANGED <<pc, td, dst, desc, fwAvail>>

\* The packets processed so far, and the new one.
LEMMA FilledFront ==
  ASSUME NEW ps, NEW g, NEW h, NEW n, NEW ps2, NEW g2, NEW n2, NEW k,
         Filled(ps, g, h, n, ps2, g2, n2, k)
  PROVE  Front(mem', g2, ps2, n2, "down")
           = Append(Front(mem, g, ps, n, "down"), Buf(mem', Part(ps["down"], n["down"], k)))
<1> DEFINE s == ps["down"]
           m == n["down"]
           s2 == ps2["down"]
           L == Len(s)
<1>1. /\ TypeOK /\ TypeOK' /\ Shape(ps, g, h, n) /\ NextShape(ps2, g2, h, n2) /\ SameData(mem, mem')
      /\ n2["down"] = m + 1 /\ k \in Nat \ {0} /\ m + k <= L /\ s2 = Joined(s, m, k)
      /\ \A i \in 1 .. m : g2.pk[s[i]] = g.pk[s[i]]
      /\ g2.pk[s[m + 1]] = Part(s, m, k)
  BY DEF Filled
<1>2. "down" \in Queues
  BY DEF Queues
<1>3. /\ s \in Seq(Descs) /\ L \in Nat /\ m \in 0 .. L
      /\ Slice(mem, g, s, 0, m)
  <2>1. Cut(ps, n, "down") = m
    BY DEF Cut
  <2> QED
    BY <1>1, <1>2, <2>1, CutIs
<1>4. /\ s2 \in Seq(Descs) /\ Len(s2) = L - k + 1
      /\ \A i \in 1 .. L - k + 1 : s2[i] = IF i <= m + 1 THEN s[i] ELSE s[i + k - 1]
  <2>1. /\ s \in Seq(Descs) /\ m \in Nat /\ k \in Nat \ {0} /\ m + k <= Len(s)
        /\ s2 = Joined(s, m, k) /\ L = Len(s)
    BY <1>1, <1>3
  <2> HIDE DEF m, s, s2, L
  <2> QED
    BY <2>1, JoinedIs
<1>5. mem' \in [Descs -> Descriptor] /\ g2.pk \in [Descs -> Seq(Descs)]
  BY <1>1 DEF TypeOK, NextShape, Ghost
<1>6. Front(mem', g2, ps2, n2, "down") = Bufs(mem', g2, s2, 0, m + 1)
  BY <1>1 DEF Front, Cut
<1>7. Front(mem, g, ps, n, "down") = Bufs(mem, g, s, 0, m)
  BY DEF Front, Cut
<1>8. L = Len(s)
  OBVIOUS
<1> HIDE DEF s, m, s2, L
<1>9. m \in Nat /\ m + 1 \in 1 .. Len(s2) /\ m < Len(s2) /\ \A i \in 1 .. m + 1 : i \in 1 .. L - k + 1 /\ i <= m + 1
  BY <1>1, <1>3, <1>4
<1>10. \A i \in 1 .. m + 1 : s2[i] = s[i]
  BY <1>4, <1>9
<1> DEFINE z == 0
<1>11. z \in Nat /\ z <= m /\ m - z = m /\ \A i \in 1 .. m : z + i = i /\ i \in 1 .. m + 1 /\ i \in 1 .. L
  BY <1>3, <1>9
<1>12. Slice(mem, g, s, z, m)
  BY <1>3
<1> HIDE DEF z
<1>13. Slice(mem', g2, s2, z, m)
  <2>1. m <= Len(s2)
    BY <1>4, <1>9
  <2> QED
    BY <1>4, <1>5, <1>9, <1>11, <2>1 DEF Slice
<1>14. Bufs(mem', g2, s2, z, m + 1) = Append(Bufs(mem', g2, s2, z, m), Buf(mem', g2.pk[s2[m + 1]]))
  BY <1>9, <1>13, BufsMore
<1>15. ASSUME NEW i \in 1 .. m PROVE Buf(mem', g2.pk[s2[z + i]]) = Buf(mem, g.pk[s[z + i]])
  <2>1. z + i = i /\ s2[i] = s[i] /\ g2.pk[s[i]] = g.pk[s[i]] /\ i \in 1 .. L
    BY <1>1, <1>10, <1>11
  <2>2. s[i] \in Descs
    BY <1>3, <1>8, <2>1, SeqIsFunction
  <2>3. g.pk[s[i]] \in Seq(Descs)
    BY <1>12, <2>2 DEF Slice
  <2>4. Buf(mem', g.pk[s[i]]) = Buf(mem, g.pk[s[i]])
    BY <1>1, <2>3, BufSame
  <2> QED
    BY <2>1, <2>4
<1>16. Bufs(mem', g2, s2, z, m) = Bufs(mem, g, s, z, m)
  BY <1>11, <1>15 DEF Bufs
<1>17. s2[m + 1] = s[m + 1]
  <2>1. m + 1 \in 1 .. m + 1
    BY <1>9
  <2> QED
    BY <1>10, <2>1
<1> QED
  BY <1>1, <1>6, <1>7, <1>14, <1>16, <1>17 DEF z, s, m

\* The buffers of the new packet were the first free ones; the others are still free.
LEMMA FilledFrees ==
  ASSUME NEW ps, NEW g, NEW h, NEW n, NEW ps2, NEW g2, NEW n2, NEW k,
         Filled(ps, g, h, n, ps2, g2, n2, k),
         NEW f, f = Frees(mem, ps["down"], n["down"])
  PROVE  /\ k <= Len(f)
         /\ Buf(mem', Part(ps["down"], n["down"], k)) = SubSeq(f, 1, k)
         /\ Frees(mem', ps2["down"], n2["down"]) = SubSeq(f, k + 1, Len(f))
<1> DEFINE s == ps["down"]
           m == n["down"]
           s2 == ps2["down"]
           L == Len(s)
           c == Part(s, m, k)
           m1 == m + 1
<1>1. /\ TypeOK /\ TypeOK' /\ Shape(ps, g, h, n) /\ SameData(mem, mem')
      /\ n2["down"] = m1 /\ k \in Nat \ {0} /\ m + k <= L /\ s2 = Joined(s, m, k)
  BY DEF Filled
<1>2. "down" \in Queues
  BY DEF Queues
<1>3. s \in Seq(Descs) /\ L \in Nat /\ m \in 0 .. L /\ \A i \in 1 .. L : s[i] \in Descs
  <2>1. Cut(ps, n, "down") = m
    BY DEF Cut
  <2>2. s \in Seq(Descs) /\ L \in Nat /\ m \in 0 .. L
    BY <1>1, <1>2, <2>1, CutIs
  <2> QED
    BY <2>2, SeqIsFunction
<1>4. /\ s2 \in Seq(Descs) /\ Len(s2) = L - k + 1
      /\ \A i \in 1 .. L - k + 1 : s2[i] = IF i <= m + 1 THEN s[i] ELSE s[i + k - 1]
      /\ c \in Seq(Descs) /\ Len(c) = k /\ \A j \in 1 .. k : c[j] = s[m + j]
  <2>1. m \in Nat /\ m + k <= Len(s)
    BY <1>1, <1>3
  <2> HIDE DEF m, s
  <2> QED
    BY <1>1, <1>3, <2>1, JoinedIs
<1>5. mem \in [Descs -> Descriptor] /\ mem' \in [Descs -> Descriptor]
  BY <1>1 DEF TypeOK
<1>6. f = Frees(mem, s, m) /\ L = Len(s)
  OBVIOUS
<1>7. \A d \in Descs : mem'[d].data = mem[d].data
  BY <1>1 DEF SameData
<1> HIDE DEF s, m, s2, L, c
<1>8. f \in Seq(Words) /\ Len(f) = L - m /\ \A i \in 1 .. L - m : f[i] = mem[s[m + i]].data
  <2>1. mem \in [Descs -> Descriptor] /\ s \in Seq(Descs) /\ m \in 0 .. Len(s)
    BY <1>3, <1>5, <1>6
  <2>2. /\ Frees(mem, s, m) \in Seq(Words) /\ Len(Frees(mem, s, m)) = Len(s) - m
        /\ \A i \in 1 .. Len(s) - m : Frees(mem, s, m)[i] = mem[s[m + i]].data
    BY <2>1, FreesAre
  <2> QED
    BY <1>6, <2>2
<1>9. k <= Len(f) /\ Len(f) \in Nat
  BY <1>1, <1>3, <1>8
<1>10. /\ SubSeq(f, 1, k) \in Seq(Words) /\ Len(SubSeq(f, 1, k)) = k
       /\ \A i \in 1 .. k : SubSeq(f, 1, k)[i] = f[i]
  <2>1. 1 \in Int /\ k \in Int /\ \A i \in 1 .. k : f[i] \in Words
    BY <1>1, <1>8, <1>9, SeqIsFunction
  <2>2. /\ SubSeq(f, 1, k) \in Seq(Words)
        /\ Len(SubSeq(f, 1, k)) = IF 1 <= k THEN k - 1 + 1 ELSE 0
        /\ \A i \in 1 .. k - 1 + 1 : SubSeq(f, 1, k)[i] = f[1 + i - 1]
    BY <2>1, SubSeqProperties
  <2>3. 1 <= k /\ k - 1 + 1 = k /\ \A i \in 1 .. k : 1 + i - 1 = i
    BY <1>1
  <2> QED
    BY <2>2, <2>3
<1>11. /\ SubSeq(f, k + 1, Len(f)) \in Seq(Words) /\ Len(SubSeq(f, k + 1, Len(f))) = L - m - k
       /\ \A i \in 1 .. L - m - k : SubSeq(f, k + 1, Len(f))[i] = f[k + i]
  <2> DEFINE a == k + 1
             b == Len(f)
  <2>1. a \in Int /\ b \in Int /\ \A i \in a .. b : f[i] \in Words
    BY <1>1, <1>8, <1>9, SeqIsFunction
  <2> HIDE DEF a, b
  <2>2. /\ SubSeq(f, a, b) \in Seq(Words)
        /\ Len(SubSeq(f, a, b)) = IF a <= b THEN b - a + 1 ELSE 0
        /\ \A i \in 1 .. b - a + 1 : SubSeq(f, a, b)[i] = f[a + i - 1]
    BY <2>1, SubSeqProperties
  <2>3. /\ (IF a <= b THEN b - a + 1 ELSE 0) = L - m - k
        /\ b - a + 1 = L - m - k /\ \A i \in 1 .. L - m - k : a + i - 1 = k + i
    <3>1. /\ a = k + 1 /\ b = L - m /\ k \in Nat /\ L \in Nat /\ m \in Nat /\ m + k <= L
      BY <1>1, <1>3, <1>8 DEF a, b
    <3> QED
      BY <3>1
  <2> QED
    BY <2>2, <2>3 DEF a, b
<1>12. Buf(mem', c) = SubSeq(f, 1, k)
  <2> DEFINE a == Buf(mem', c)
             b == SubSeq(f, 1, k)
  <2>1. a \in Seq(Words) /\ Len(a) = k /\ \A j \in 1 .. k : a[j] = mem'[c[j]].data
    BY <1>4, <1>5, BufIs
  <2>2. \A j \in 1 .. k : m + j \in 1 .. L /\ j \in 1 .. L - m
    BY <1>1, <1>3
  <2>3. \A j \in 1 .. k : mem'[c[j]].data = mem[s[m + j]].data /\ f[j] = mem[s[m + j]].data
    BY <1>3, <1>4, <1>7, <1>8, <2>2
  <2>4. b \in Seq(Words) /\ Len(b) = k /\ \A j \in 1 .. k : b[j] = f[j]
    BY <1>10
  <2> HIDE DEF a, b
  <2>5. a = b
    BY <2>1, <2>3, <2>4, SameSeq
  <2> QED
    BY <2>5 DEF a, b
<1>13. m1 \in 0 .. Len(s2) /\ Len(s2) - m1 = L - m - k
  BY <1>1, <1>3, <1>4
<1> HIDE DEF m1
<1>14. Frees(mem', s2, m1) = SubSeq(f, k + 1, Len(f))
  <2> DEFINE a == Frees(mem', s2, m1)
             b == SubSeq(f, k + 1, Len(f))
             A == L - m - k
  <2>1. a \in Seq(Words) /\ Len(a) = A /\ \A i \in 1 .. A : a[i] = mem'[s2[m1 + i]].data
    <3>1. mem' \in [Descs -> Descriptor] /\ s2 \in Seq(Descs) /\ m1 \in 0 .. Len(s2)
      BY <1>4, <1>5, <1>13
    <3>2. /\ Frees(mem', s2, m1) \in Seq(Words) /\ Len(Frees(mem', s2, m1)) = Len(s2) - m1
          /\ \A i \in 1 .. Len(s2) - m1 : Frees(mem', s2, m1)[i] = mem'[s2[m1 + i]].data
      BY <3>1, FreesAre
    <3> QED
      BY <1>13, <3>2
  <2>2. ASSUME NEW i \in 1 .. A PROVE mem'[s2[m1 + i]].data = f[k + i]
    <3>0. m1 = m + 1 /\ k \in Nat /\ L \in Nat /\ m \in Nat /\ m + k <= L /\ i \in 1 .. L - m - k
      BY <1>1, <1>3 DEF m1
    <3>1. /\ m1 + i \in 1 .. L - k + 1 /\ ~(m1 + i <= m + 1) /\ (m1 + i) + k - 1 = m + (k + i)
          /\ m + (k + i) \in 1 .. L /\ k + i \in 1 .. L - m
      BY <3>0
    <3>2. s2[m1 + i] = s[m + (k + i)]
      BY <1>4, <3>1
    <3>3. s[m + (k + i)] \in Descs /\ f[k + i] = mem[s[m + (k + i)]].data
      BY <1>3, <1>8, <3>1
    <3> QED
      BY <1>7, <3>2, <3>3
  <2>3. b \in Seq(Words) /\ Len(b) = A /\ \A i \in 1 .. A : b[i] = f[k + i]
    BY <1>11
  <2> HIDE DEF a, b, A
  <2>4. a = b
    BY <2>1, <2>2, <2>3, SameSeq
  <2> QED
    BY <2>4 DEF a, b
<1> QED
  BY <1>1, <1>9, <1>12, <1>14 DEF c, s, m, s2

\* To the pipe, that is a packet arrived.
LEMMA PipeArrives ==
  ASSUME NEW ps, NEW g, NEW h, NEW n, NEW ps2, NEW g2, NEW n2, NEW k,
         Filled(ps, g, h, n, ps2, g2, n2, k)
  PROVE  Pipe!Arrive(k)
<1>1. /\ TypeOK /\ TypeOK' /\ Shape(ps, g, h, n) /\ NextShape(ps2, g2, h, n2)
      /\ SameData(mem, mem') /\ n2["tx"] = n["tx"]
      /\ \A q \in Queues : q # "down" =>
           ps2[q] = ps[q] /\ \A i \in 1 .. Len(ps[q]) : g2.pk[ps[q][i]] = g.pk[ps[q][i]]
      /\ UNCHANGED <<pc, td, dst, desc, fwAvail>>
  BY DEF Filled
<1>2. Seen(ps, g, h, n) /\ Seen(ps2, g2, h, n2)'
  BY <1>1, SeenIs, SeenNext
<1>3. "down" \in Queues /\ "tx" \in Queues /\ "retry" \in Queues
  BY DEF Queues
<1>4. ASSUME NEW q \in Queues, q # "down" PROVE Like(ps, g, n, ps2, g2, n2, q)
  <2> DEFINE z == term["down"]
  <2>1. Cut(ps2, n2, q) = Cut(ps, n, q) /\ ps2[q] = ps[q]
    BY <1>1, <1>4 DEF Cut, Queues
  <2>2. /\ g.fst[z] = z /\ g.tag[z] = "down"
        /\ \A i \in 1 .. Len(ps[q]) : g.tag[ps[q][i]] = q
    BY <1>1, <1>3, PlacesOf
  <2>3. DataKept(z)
    BY <1>1 DEF DataKept, SameData
  <2>4. LikeIf(ps, g, h, n, ps2, g2, n2, z, q)
    BY <1>1, <1>4, <2>1, <2>2, <2>3 DEF LikeIf
  <2> HIDE DEF z
  <2> QED
    BY <2>4, LikeIs
<1> DEFINE f == Frees(mem, ps["down"], n["down"])
           a == Front(mem, g, ps, n, "down")
<1>5. /\ Front(mem', g2, ps2, n2, "down") = Append(a, SubSeq(f, 1, k))
      /\ k <= Len(f)
      /\ Frees(mem', ps2["down"], n2["down"]) = SubSeq(f, k + 1, Len(f))
  BY FilledFront, FilledFrees
<1>6. Held' = Held
  <2>1. InHand' <=> InHand
    BY <1>1 DEF InHand
  <2>2. h \in Seq(Descs)
    BY <1>1 DEF Shape, Ghost
  <2>3. Buf(mem', h) = Buf(mem, h)
    BY <1>1, <2>2, BufSame
  <2> QED
    BY <1>1, <1>2, <2>1, <2>3 DEF Seen
<1>7. Like(ps, g, n, ps2, g2, n2, "tx") /\ Like(ps, g, n, ps2, g2, n2, "retry")
  BY <1>3, <1>4
<1>8. Flat(Open("down")) = f /\ Datas(Done("down")) = a
  BY <1>2 DEF Seen
<1> HIDE DEF f, a
<1> QED
  BY <1>1, <1>2, <1>5, <1>6, <1>7, <1>8 DEF Seen, Like, Pipe!Arrive

\* The PTA engine writing a packet keeps the invariant, and the pipe sees it arrive.
LEMMA StepFill ==
  ASSUME NEW k \in 1 .. MaxFrag
  PROVE  IInv /\ Fill(k) => IInv' /\ Pipe!Arrive(k)
<1> SUFFICES ASSUME IInv, Fill(k) PROVE IInv' /\ Pipe!Arrive(k)
  OBVIOUS
<1>1. PICK ps, g, h, n : Shape(ps, g, h, n)
  BY DEF IInv, Shaped
<1> DEFINE p == cur["down"]
           s == ps["down"]
           t == term["down"]
           m == n["down"]
           w == Walk(NextOf, cur["down"])
           into == {w[i] : i \in 0 .. k - 1}
<1>0. TypeOK /\ TermOK /\ WakeOK /\ PcOK
  BY DEF IInv
<1>2. /\ UNCHANGED <<queues, run, halt, call, reserve>>
      /\ run["down"] /\ \A d \in into : mem[d].own = "HW"
  BY DEF Fill
<1>25. mem' = [d \in Descs |->
           IF d \notin into THEN mem[d]
           ELSE [mem[d] EXCEPT !.own = "SE",
                               !.last = IF d = w[0] THEN w[k - 1] ELSE @]]
  BY DEF Fill
<1>26. cur' = [cur EXCEPT !["down"] = w[k]]
  BY DEF Fill
<1>3. /\ mem \in [Descs -> Descriptor] /\ p \in Descs /\ "tx" \in Queues /\ "down" \in Queues
      /\ "tx" \in Engines /\ "down" \in Engines /\ t \in Descs /\ cur \in [Engines -> Descs]
      /\ NextOf \in [Descs -> Descs] /\ \A d \in Descs : NextOf[d] = mem[d].next
  BY <1>0 DEF TypeOK, Queues, Engines, NextOf, Descriptor
<1>4. /\ Ghost(ps, g, h, n)
      /\ DownOK(mem, s, g, m, p, t)
      /\ TxOK(mem, ps["tx"], n["tx"], cur["tx"], term["tx"], halt)
      /\ QueueOK(mem, "down", s, head["down"], t, g)
  BY <1>1, <1>3 DEF Shape, QueuesOK
<1>5. /\ \A q \in Queues :
           /\ ps[q] \in Seq(Descs) /\ Len(ps[q]) \in Nat /\ term[q] \in Descs
           /\ g.tag[term[q]] = q /\ g.fst[term[q]] = term[q]
           /\ \A i \in 1 .. Len(ps[q]) : /\ ps[q][i] \in Descs /\ g.tag[ps[q][i]] = q
                                         /\ g.fst[ps[q][i]] = ps[q][i]
      /\ \A e \in Engines : g.tag[cur[e]] = e /\ g.fst[cur[e]] = cur[e]
  BY <1>0, <1>1, PlacesOf
<1>6. /\ s \in Seq(Descs) /\ Len(s) \in Nat /\ Inj(s) /\ Without(s, t) /\ Leads(After(mem), s, t)
      /\ head["down"] = Start(s, t)
      /\ \A i \in 1 .. Len(s) : s[i] \in Descs /\ g.fst[s[i]] = s[i] /\ g.tag[s[i]] = "down"
      /\ \A i \in 1 .. Len(s) : Member(mem, "down", s[i], g)
  BY <1>3, <1>4, <1>5 DEF QueueOK, IsRing
<1>7. /\ m \in 0 .. Len(s) /\ p = At(s, m + 1, t)
      /\ \A i \in 1 .. Len(s) : mem[s[i]].own = IF i <= m THEN "SE" ELSE "HW"
      /\ \A i \in m + 1 .. Len(s) : Len(g.pk[s[i]]) = 1
  BY <1>4 DEF DownOK
<1>8. k \in Nat /\ k >= 1 /\ k <= Fuel
  BY DmaAssumption DEF Fuel
<1>9. /\ w \in [0 .. Fuel -> Descs] /\ w[0] = p
      /\ \A i \in 1 .. Fuel : w[i] = mem[w[i - 1]].next
  <2>1. w \in [0 .. Fuel -> Descs] /\ w[0] = p /\ \A i \in 1 .. Fuel : w[i] = NextOf[w[i - 1]]
    BY <1>3, WalkSteps
  <2> HIDE DEF w
  <2>2. \A i \in 1 .. Fuel : w[i - 1] \in Descs
    BY <2>1, FuelIsNat
  <2> QED
    BY <1>3, <2>1, <2>2
<1> HIDE DEF w, p, s, t, m
<1>10. \A q \in Queues : mem[term[q]].own = "SW"
  <2>1. pc = "publish" => td.own = "SW"
    BY <1>1 DEF Shape, HeldOK, InHand, HandOK
  <2> SUFFICES ASSUME NEW q \in Queues PROVE mem[term[q]].own = "SW"
    OBVIOUS
  <2>2. mem[term[q]] = IF pc = "publish" /\ q = dst THEN td ELSE Cleared(term[q])
    BY <1>0 DEF TermOK
  <2> QED
    BY <2>1, <2>2 DEF Cleared
<1>11. \A i \in m + 1 .. Len(s) : mem[s[i]].last = s[i] /\ mem[s[i]].next = At(s, i + 1, t)
  <2> SUFFICES ASSUME NEW i \in m + 1 .. Len(s)
               PROVE  mem[s[i]].last = s[i] /\ mem[s[i]].next = At(s, i + 1, t)
    OBVIOUS
  <2>1. i \in 1 .. Len(s) /\ Member(mem, "down", s[i], g) /\ Len(g.pk[s[i]]) = 1
    BY <1>6, <1>7
  <2>2. mem[s[i]].last = s[i]
    BY <2>1 DEF Member, IsPacket
  <2>3. After(mem)[s[i]] = At(s, i + 1, t)
    BY <1>6, <2>1 DEF Leads, At
  <2> QED
    BY <1>6, <2>1, <2>2, <2>3 DEF After
<1>12. /\ m + k <= Len(s) /\ w[k] = At(s, m + k + 1, t)
       /\ \A j \in 1 .. k : w[j - 1] = s[m + j]
  <2> DEFINE R == {i \in Nat : i <= k => m + i <= Len(s) /\ w[i] = At(s, m + 1 + i, t)}
  <2>1. 0 \in R
    BY <1>6, <1>7, <1>9
  <2>2. ASSUME NEW i \in Nat, i + 1 <= k, i \in R
        PROVE  /\ m + 1 + i <= Len(s) /\ w[i] = s[m + 1 + i]
               /\ w[i + 1] = At(s, m + 2 + i, t)
    <3>1. m + i <= Len(s) /\ w[i] = At(s, m + 1 + i, t)
      BY <1>8, <2>2
    <3>2. mem[w[i]].own = "HW"
      BY <1>2, <1>8, <2>2
    <3>3. m + 1 + i <= Len(s) /\ w[i] = s[m + 1 + i]
      BY <1>3, <1>6, <1>7, <1>10, <3>1, <3>2 DEF At, t
    <3>4. w[i + 1] = mem[w[i]].next
      BY <1>8, <1>9, <2>2, FuelIsNat
    <3> QED
      BY <1>6, <1>7, <1>11, <3>3, <3>4
  <2>3. \A i \in Nat : i \in R
    <3>1. ASSUME NEW i \in Nat, i \in R PROVE i + 1 \in R
      <4> SUFFICES ASSUME i + 1 <= k PROVE m + (i + 1) <= Len(s) /\ w[i + 1] = At(s, m + 1 + (i + 1), t)
        OBVIOUS
      <4>1. m + 1 + i <= Len(s) /\ w[i + 1] = At(s, m + 2 + i, t)
        BY <2>2, <3>1
      <4>2. m + 1 + i = m + (i + 1) /\ m + 2 + i = m + 1 + (i + 1)
        BY <1>7
      <4> QED
        BY <4>1, <4>2
    <3> HIDE DEF R
    <3> QED
      BY <2>1, <3>1, Induct
  <2>4. m + k <= Len(s) /\ w[k] = At(s, m + 1 + k, t)
    BY <1>8, <2>3
  <2>5. ASSUME NEW j \in 1 .. k PROVE w[j - 1] = s[m + j]
    <3>1. j - 1 \in Nat /\ (j - 1) + 1 <= k /\ m + 1 + (j - 1) = m + j
      BY <1>7, <1>8
    <3>2. w[j - 1] = s[m + 1 + (j - 1)]
      BY <2>2, <2>3, <3>1
    <3> QED
      BY <3>1, <3>2
  <2>6. m + 1 + k = m + k + 1
    BY <1>7, <1>8
  <2> QED
    BY <2>4, <2>5, <2>6
<1> DEFINE x == s[m + 1]
<1>13. /\ x \in Descs /\ m + 1 \in 1 .. Len(s) /\ w[0] = x /\ w[k - 1] = s[m + k]
       /\ \A i \in 1 .. Len(s) : s[i] \in into <=> i \in m + 1 .. m + k
       /\ \A d \in into : \E i \in m + 1 .. m + k : d = s[i]
  <2>1. x \in Descs /\ m + 1 \in 1 .. Len(s) /\ w[0] = x /\ w[k - 1] = s[m + k]
    BY <1>6, <1>7, <1>8, <1>12
  <2>2. ASSUME NEW d \in into PROVE \E i \in m + 1 .. m + k : d = s[i]
    <3>1. PICK j \in 0 .. k - 1 : d = w[j]
      BY <2>2
    <3> DEFINE l == j + 1
    <3>2. l \in 1 .. k /\ l - 1 = j
      BY <1>8
    <3> HIDE DEF l
    <3>3. w[l - 1] = s[m + l]
      BY <1>12, <3>2
    <3>4. m + l \in m + 1 .. m + k
      BY <1>7, <1>8, <3>2
    <3> QED
      BY <3>1, <3>2, <3>3, <3>4
  <2>3. ASSUME NEW i \in m + 1 .. m + k PROVE s[i] \in into
    <3>1. i - m \in 1 .. k /\ m + (i - m) = i /\ (i - m) - 1 \in 0 .. k - 1
      BY <1>7, <1>8
    <3>2. w[(i - m) - 1] = s[i]
      BY <1>12, <3>1
    <3> QED
      BY <3>1, <3>2
  <2>4. ASSUME NEW i \in 1 .. Len(s), s[i] \in into PROVE i \in m + 1 .. m + k
    <3>1. PICK j \in m + 1 .. m + k : s[i] = s[j]
      BY <2>2, <2>4
    <3>2. j \in 1 .. Len(s)
      BY <1>6, <1>7, <1>8, <1>12
    <3> QED
      BY <1>6, <3>1, <3>2 DEF Inj
  <2> QED
    BY <2>1, <2>2, <2>3, <2>4
<1>14. \A d \in into : d \in Descs /\ g.tag[d] = "down" /\ g.fst[d] = d
  <2> SUFFICES ASSUME NEW d \in into PROVE d \in Descs /\ g.tag[d] = "down" /\ g.fst[d] = d
    OBVIOUS
  <2>1. PICK i \in m + 1 .. m + k : d = s[i]
    BY <1>13
  <2>2. i \in 1 .. Len(s)
    BY <1>6, <1>7, <1>8, <1>12
  <2> QED
    BY <1>6, <2>1, <2>2
<1> HIDE DEF into, x
<1>15. x \in into
  BY <1>7, <1>8, <1>13 DEF x
<1>16. /\ \A d \in Descs : d \notin into => mem'[d] = mem[d]
       /\ \A d \in into : /\ mem'[d].own = "SE" /\ mem'[d].next = mem[d].next
                          /\ mem'[d].data = mem[d].data
       /\ mem'[x].last = s[m + k] /\ mem' \in [Descs -> Descriptor]
  <2> DEFINE Got(d) == [mem[d] EXCEPT !.own = "SE",
                                      !.last = IF d = w[0] THEN w[k - 1] ELSE @]
  <2>1. mem' = [d \in Descs |-> IF d \notin into THEN mem[d] ELSE Got(d)]
    BY <1>25
  <2>2. ASSUME NEW d \in Descs
        PROVE  /\ Got(d) \in Descriptor /\ Got(d).own = "SE" /\ Got(d).next = mem[d].next
               /\ Got(d).data = mem[d].data
               /\ d = x => Got(d).last = s[m + k]
    <3>1. mem[d] \in Descriptor /\ w[k - 1] \in Descs /\ w[0] = x
      BY <1>3, <1>8, <1>9, <1>13, FuelIsNat
    <3> QED
      BY <1>13, <3>1 DEF Descriptor
  <2> HIDE DEF Got
  <2>3. \A d \in into : mem'[d] = Got(d)
    BY <1>14, <2>1
  <2> QED
    BY <1>3, <1>13, <1>14, <1>15, <2>1, <2>2, <2>3
<1> DEFINE s2  == Joined(s, m, k)
           c2  == Part(s, m, k)
           ps2 == [ps EXCEPT !["down"] = s2]
           n2  == [n EXCEPT !["down"] = m + 1]
           g2  == [pk |-> [g.pk EXCEPT ![x] = c2], tag |-> g.tag,
                   fst |-> [d \in Descs |-> IF d \in into THEN x ELSE g.fst[d]]]
<1>17. /\ s2 \in Seq(Descs) /\ Len(s2) = Len(s) - k + 1
       /\ \A i \in 1 .. Len(s2) : s2[i] = IF i <= m + 1 THEN s[i] ELSE s[i + k - 1]
       /\ c2 \in Seq(Descs) /\ Len(c2) = k /\ \A j \in 1 .. k : c2[j] = s[m + j]
  BY <1>6, <1>7, <1>8, <1>12, JoinedIs
<1> HIDE DEF s2, c2
<1>18. /\ ps2["down"] = s2 /\ \A q \in Queues : q # "down" => ps2[q] = ps[q]
       /\ n2["down"] = m + 1 /\ n2["tx"] = n["tx"] /\ g2.tag = g.tag
       /\ g2.pk[x] = c2 /\ \A d \in Descs : d # x => g2.pk[d] = g.pk[d]
       /\ \A d \in Descs : g2.fst[d] = IF d \in into THEN x ELSE g.fst[d]
       /\ Ghost(ps2, g2, h, n2)
  <2>1. m + 1 \in Nat
    BY <1>7
  <2>2. ps2 \in [Queues -> Seq(Descs)] /\ n2 \in [Engines -> Nat]
    BY <1>4, <1>17, <2>1 DEF Ghost
  <2>3. g2 \in [pk : [Descs -> Seq(Descs)], tag : [Descs -> Places], fst : [Descs -> Descs]]
    BY <1>4, <1>13, <1>17 DEF Ghost
  <2> QED
    BY <1>3, <1>4, <1>13, <2>2, <2>3 DEF Ghost
<1> HIDE DEF ps2, n2, g2
<1>19. Others("down", ps, h, g, g2)
  <2>1. OnlyIn("down", g, g2)
    BY <1>14, <1>15, <1>16, <1>18 DEF OnlyIn
  <2>2. UNCHANGED <<queues, call, reserve>>
    BY <1>2
  <2> QED
    BY <1>0, <1>1, <1>3, <2>1, <2>2, OthersKept
<1>20. UNCHANGED <<head, term, pc, td, dst, desc, fwDesc, fwAvail>>
  BY <1>2 DEF queues, call, reserve
<1>21. ASSUME NEW i \in 1 .. Len(s), i \notin m + 1 .. m + k
       PROVE  /\ Member(mem', "down", s[i], g2) /\ After(mem')[s[i]] = At(s, i + 1, t)
              /\ mem'[s[i]] = mem[s[i]] /\ g2.pk[s[i]] = g.pk[s[i]]
  <2>1. s[i] \in Descs /\ s[i] \notin into /\ s[i] # x /\ g.tag[s[i]] = "down"
    BY <1>6, <1>13, <1>15, <1>21
  <2>2. \A d \in Descs : g.fst[d] = s[i] => d \notin into
    BY <1>14, <2>1
  <2>3. \A d \in Descs : g.fst[d] = s[i] => Same(mem, mem', d) /\ g2.fst[d] = s[i]
    BY <1>16, <1>18, <2>2 DEF Same
  <2>4. Member(mem, "down", s[i], g) /\ g2.tag[s[i]] = "down" /\ g2.pk[s[i]] = g.pk[s[i]]
    BY <1>6, <1>18, <2>1
  <2> DEFINE y == s[i]
  <2>5. Member(mem', "down", y, g2) /\ After(mem')[y] = After(mem)[y]
    <3>1. y \in Descs /\ Member(mem, "down", y, g) /\ g2.tag[y] = "down" /\ g2.pk[y] = g.pk[y]
      BY <2>1, <2>4
    <3>2. \A d \in Descs : g.fst[d] = y => Same(mem, mem', d) /\ g2.fst[d] = y
      BY <2>3
    <3> HIDE DEF y
    <3> QED
      BY <3>1, <3>2, MemberFrame
  <2> QED
    BY <1>6, <1>16, <2>1, <2>4, <2>5 DEF Leads, At
<1>22. Member(mem', "down", x, g2) /\ After(mem')[x] = At(s, m + k + 1, t)
  <2>1. \A j \in 1 .. k : m + j \in 1 .. Len(s) /\ s[m + j] \in into /\ c2[j] = s[m + j]
    <3> SUFFICES ASSUME NEW j \in 1 .. k
                 PROVE  m + j \in 1 .. Len(s) /\ s[m + j] \in into /\ c2[j] = s[m + j]
      OBVIOUS
    <3>1. m + j \in 1 .. Len(s) /\ m + j \in m + 1 .. m + k
      BY <1>6, <1>7, <1>8, <1>12
    <3> QED
      BY <1>13, <1>17, <3>1
  <2>2. c2[1] = x /\ c2[Len(c2)] = s[m + k]
    BY <1>8, <1>17 DEF x
  <2>3. IsPacket(mem', c2)
    <3>1. Inj(c2)
      <4> SUFFICES ASSUME NEW i \in 1 .. k, NEW j \in 1 .. k, c2[i] = c2[j] PROVE i = j
        BY <1>17 DEF Inj
      <4>1. m + i \in 1 .. Len(s) /\ m + j \in 1 .. Len(s) /\ s[m + i] = s[m + j]
        BY <2>1
      <4>2. m + i = m + j
        BY <1>6, <4>1 DEF Inj
      <4> QED
        BY <1>7, <4>2
    <3>2. ASSUME NEW j \in 1 .. k - 1 PROVE mem'[c2[j]].next = c2[j + 1]
      <4>1. j \in 1 .. k /\ j + 1 \in 1 .. k /\ m + j \in m + 1 .. Len(s)
            /\ (m + j) + 1 = m + (j + 1) /\ m + (j + 1) <= Len(s)
        BY <1>6, <1>7, <1>8, <2>1
      <4>2. mem'[c2[j]].next = At(s, (m + j) + 1, t)
        <5>1. mem[s[m + j]].next = At(s, (m + j) + 1, t)
          BY <1>11, <4>1
        <5>2. c2[j] = s[m + j] /\ c2[j] \in into
          BY <2>1, <4>1
        <5> QED
          BY <1>16, <5>1, <5>2
      <4> QED
        BY <2>1, <4>1, <4>2 DEF At
    <3>3. mem'[c2[1]].last = c2[Len(c2)]
      BY <1>16, <2>2
    <3> QED
      BY <1>8, <1>17, <3>1, <3>2, <3>3 DEF IsPacket
  <2>4. \A j \in 1 .. k : mem'[c2[j]].data \in Buffers
    <3> SUFFICES ASSUME NEW j \in 1 .. k PROVE mem'[c2[j]].data \in Buffers
      OBVIOUS
    <3>1. Member(mem, "down", s[m + j], g) /\ mem[s[m + j]] \in Descriptor
      BY <1>3, <1>6, <2>1
    <3>2. mem[s[m + j]].data # Null /\ mem[s[m + j]].data # FwData
      BY <3>1 DEF Member, HasData
    <3>3. mem[s[m + j]].data \in Buffers
      BY <3>1, <3>2 DEF Descriptor
    <3> QED
      BY <1>16, <2>1, <3>3
  <2>5. \A b \in Buffers : b # FwData /\ b # Null
    BY DmaAssumption DEF Buffers, FwData, Null
  <2>6. HasData(mem', c2) /\ mem'[x].data # FwData
    BY <1>8, <1>17, <2>2, <2>4, <2>5 DEF HasData
  <2>7. g2.tag[x] = "down" /\ g2.fst[x] = x /\ \A j \in 1 .. k : g2.fst[c2[j]] = x
    BY <1>13, <1>14, <1>15, <1>18, <2>1
  <2>8. Member(mem', "down", x, g2)
    BY <1>17, <1>18, <2>2, <2>3, <2>6, <2>7 DEF Member
  <2>9. After(mem')[x] = At(s, m + k + 1, t)
    <3>1. m + k \in 1 .. Len(s) /\ m + k \in m + 1 .. Len(s) /\ s[m + k] \in into
      BY <1>6, <1>7, <1>8, <1>12, <2>1
    <3>2. mem'[s[m + k]].next = At(s, m + k + 1, t)
      BY <1>11, <1>16, <3>1
    <3> QED
      BY <1>13, <1>16, <3>2 DEF After
  <2> QED
    BY <2>8, <2>9
<1> DEFINE From(i) == IF i <= m THEN i ELSE i + k - 1
<1>23. /\ Start(s2, t) = Start(s, t) /\ Len(s2) \in Nat /\ m + 1 \in 1 .. Len(s2) /\ s2[m + 1] = x
       /\ At(s, m + k + 1, t) = At(s2, m + 2, t)
  <2>1. Len(s2) \in Nat /\ Len(s2) = Len(s) - k + 1 /\ m + 1 \in 1 .. Len(s2) /\ s2[m + 1] = x
    <3>1. Len(s2) \in Nat /\ Len(s2) = Len(s) - k + 1 /\ m + 1 \in 1 .. Len(s2)
      BY <1>6, <1>7, <1>8, <1>12, <1>17
    <3>2. s2[m + 1] = IF m + 1 <= m + 1 THEN s[m + 1] ELSE s[(m + 1) + k - 1]
      BY <1>17, <3>1
    <3>3. m + 1 <= m + 1
      BY <1>7
    <3> QED
      BY <3>1, <3>2, <3>3 DEF x
  <2>2. s2[1] = s[1]
    <3>1. 1 \in 1 .. Len(s2) /\ 1 <= m + 1
      BY <1>7, <2>1
    <3> QED
      BY <1>17, <3>1
  <2>3. At(s, m + k + 1, t) = At(s2, m + 2, t)
    <3>1. CASE m + k + 1 <= Len(s)
      <4>1. m + 2 \in 1 .. Len(s2) /\ ~(m + 2 <= m + 1) /\ (m + 2) + k - 1 = m + k + 1
        BY <1>6, <1>7, <1>8, <2>1, <3>1
      <4>2. s2[m + 2] = s[(m + 2) + k - 1]
        BY <1>17, <4>1
      <4> QED
        BY <3>1, <4>1, <4>2 DEF At
    <3>2. CASE ~(m + k + 1 <= Len(s))
      <4>1. ~(m + 2 <= Len(s2))
        BY <1>6, <1>7, <1>8, <2>1, <3>2
      <4> QED
        BY <3>2, <4>1 DEF At
    <3> QED
      BY <3>1, <3>2
  <2> QED
    BY <1>6, <1>8, <1>12, <1>7, <2>1, <2>2, <2>3 DEF Start
<1>24. ASSUME NEW i \in 1 .. Len(s2), i # m + 1
       PROVE  /\ From(i) \in 1 .. Len(s) /\ From(i) \notin m + 1 .. m + k /\ s2[i] = s[From(i)]
              /\ At(s, From(i) + 1, t) = At(s2, i + 1, t)
              /\ From(i) <= m <=> i <= m
  <2>1. Len(s2) = Len(s) - k + 1 /\ i \in Nat
    BY <1>17, <1>23
  <2>2. CASE i <= m
    <3>1. i + 1 \in 1 .. Len(s2) /\ i + 1 <= m + 1 /\ i + 1 <= Len(s) /\ i <= m + 1
      BY <1>6, <1>7, <1>23, <2>1, <2>2, <1>8, <1>12
    <3>2. s2[i] = s[i] /\ s2[i + 1] = s[i + 1]
      BY <1>17, <3>1
    <3>3. From(i) = i
      BY <2>2
    <3> QED
      BY <1>6, <1>7, <1>8, <2>1, <2>2, <3>1, <3>2, <3>3 DEF At
  <2>3. CASE ~(i <= m)
    <3>1. ~(i <= m + 1) /\ From(i) = i + k - 1 /\ i + k - 1 \in 1 .. Len(s)
          /\ i + k - 1 > m + k
      BY <1>6, <1>7, <1>8, <1>24, <2>1, <2>3
    <3>2. s2[i] = s[i + k - 1]
      BY <1>17, <3>1
    <3>3. At(s, (i + k - 1) + 1, t) = At(s2, i + 1, t)
      <4>1. CASE i + 1 <= Len(s2)
        <5>1. i + 1 \in 1 .. Len(s2) /\ ~(i + 1 <= m + 1) /\ (i + 1) + k - 1 = (i + k - 1) + 1
              /\ (i + k - 1) + 1 <= Len(s)
          BY <1>6, <1>7, <1>8, <2>1, <2>3, <4>1
        <5>2. s2[i + 1] = s[(i + 1) + k - 1]
          BY <1>17, <5>1
        <5> QED
          BY <4>1, <5>1, <5>2 DEF At
      <4>2. CASE ~(i + 1 <= Len(s2))
        <5>1. ~((i + k - 1) + 1 <= Len(s))
          BY <1>6, <1>7, <1>8, <2>1, <4>2
        <5> QED
          BY <4>2, <5>1 DEF At
      <4> QED
        BY <4>1, <4>2
    <3>4. i + k - 1 \notin m + 1 .. m + k /\ ~(i + k - 1 <= m)
      BY <1>7, <1>8, <2>1, <3>1
    <3> QED
      BY <2>3, <3>1, <3>2, <3>3, <3>4
  <2> QED
    BY <2>2, <2>3
<1>27. ASSUME NEW i \in 1 .. Len(s2)
       PROVE  Member(mem', "down", s2[i], g2) /\ After(mem')[s2[i]] = At(s2, i + 1, t)
  <2>1. CASE i = m + 1
    <3>1. At(s2, i + 1, t) = At(s2, m + 2, t)
      <4>1. i + 1 = m + 2
        BY <1>7, <2>1
      <4> QED
        BY <4>1
    <3> QED
      BY <1>22, <1>23, <2>1, <3>1
  <2>2. CASE i # m + 1
    <3>1. /\ From(i) \in 1 .. Len(s) /\ From(i) \notin m + 1 .. m + k /\ s2[i] = s[From(i)]
          /\ At(s, From(i) + 1, t) = At(s2, i + 1, t)
      BY <1>24, <2>2
    <3> HIDE DEF From
    <3> QED
      BY <1>21, <3>1
  <2> QED
    BY <2>1, <2>2
<1>28. Inj(s2) /\ Without(s2, t)
  <2>1. ASSUME NEW i \in 1 .. Len(s2)
        PROVE  \E j \in 1 .. Len(s) : s2[i] = s[j] /\ j = IF i <= m + 1 THEN i ELSE i + k - 1
    <3>1. CASE i <= m + 1
      <4>1. i \in 1 .. Len(s)
        BY <1>6, <1>7, <1>8, <1>12, <3>1
      <4> QED
        BY <1>17, <3>1, <4>1
    <3>2. CASE ~(i <= m + 1)
      <4>1. i + k - 1 \in 1 .. Len(s)
        BY <1>6, <1>7, <1>8, <1>17, <3>2
      <4> QED
        BY <1>17, <3>2, <4>1
    <3> QED
      BY <3>1, <3>2
  <2>2. ASSUME NEW i \in 1 .. Len(s2), NEW j \in 1 .. Len(s2), s2[i] = s2[j] PROVE i = j
    <3>1. PICK i1 \in 1 .. Len(s) : s2[i] = s[i1] /\ i1 = IF i <= m + 1 THEN i ELSE i + k - 1
      BY <2>1
    <3>2. PICK j1 \in 1 .. Len(s) : s2[j] = s[j1] /\ j1 = IF j <= m + 1 THEN j ELSE j + k - 1
      BY <2>1
    <3>3. i1 = j1
      BY <1>6, <2>2, <3>1, <3>2 DEF Inj
    <3> QED
      BY <1>7, <1>8, <3>1, <3>2, <3>3
  <2>3. ASSUME NEW i \in 1 .. Len(s2) PROVE s2[i] # t
    <3>1. PICK i1 \in 1 .. Len(s) : s2[i] = s[i1]
      BY <2>1
    <3> QED
      BY <1>6, <3>1 DEF Without
  <2> QED
    BY <2>2, <2>3 DEF Inj, Without
<1>29. QueueOK(mem', "down", s2, head'["down"], term'["down"], g2)
  <2>1. Leads(After(mem'), s2, t)
    BY <1>27 DEF Leads, At
  <2>2. g2.tag[t] = "down" /\ g2.fst[t] = t
    <3>1. g.tag[t] = "down" /\ g.fst[t] = t /\ mem[t].own = "SW"
      BY <1>3, <1>5, <1>10 DEF t
    <3>2. t \notin into
      BY <1>2, <3>1
    <3> QED
      BY <1>3, <1>18, <3>1, <3>2
  <2>3. head'["down"] = Start(s2, t) /\ term'["down"] = t
    BY <1>6, <1>20, <1>23 DEF t
  <2> QED
    BY <1>17, <1>27, <1>28, <2>1, <2>2, <2>3 DEF QueueOK, IsRing
<1>30. DownOK(mem', s2, g2, m + 1, w[k], t)
  <2>1. m + 1 \in 0 .. Len(s2) /\ w[k] = At(s2, m + 2, t) /\ (m + 1) + 1 = m + 2
    BY <1>7, <1>12, <1>23
  <2>2. ASSUME NEW i \in 1 .. Len(s2)
        PROVE  /\ mem'[s2[i]].own = IF i <= m + 1 THEN "SE" ELSE "HW"
               /\ i > m + 1 => Len(g2.pk[s2[i]]) = 1
    <3>1. CASE i = m + 1
      BY <1>7, <1>15, <1>16, <1>23, <3>1
    <3>2. CASE i # m + 1
      <4>1. /\ From(i) \in 1 .. Len(s) /\ From(i) \notin m + 1 .. m + k /\ s2[i] = s[From(i)]
            /\ From(i) <= m <=> i <= m
        BY <1>24, <3>2
      <4> HIDE DEF From
      <4>2. mem'[s2[i]].own = IF From(i) <= m THEN "SE" ELSE "HW"
        BY <1>7, <1>21, <4>1
      <4>3. i <= m + 1 <=> i <= m
        BY <1>7, <3>2, <1>23
      <4>4. ASSUME i > m + 1 PROVE Len(g2.pk[s2[i]]) = 1
        <5>1. From(i) \in m + 1 .. Len(s)
          BY <1>6, <1>7, <4>1, <4>3, <4>4, <1>23
        <5> QED
          BY <1>7, <1>21, <4>1, <5>1
      <4> QED
        BY <4>1, <4>2, <4>3, <4>4
    <3> QED
      BY <3>1, <3>2
  <2>3. \A i \in (m + 1) + 1 .. Len(s2) : i \in 1 .. Len(s2) /\ i > m + 1
    BY <1>7, <1>23
  <2> QED
    BY <2>1, <2>2, <2>3 DEF DownOK
<1>31. TxOK(mem', ps2["tx"], n2["tx"], cur'["tx"], term'["tx"], halt')
  <2>1. cur'["tx"] = cur["tx"] /\ halt' = halt /\ term' = term
    BY <1>2, <1>3, <1>20, <1>26
  <2>2. \A i \in 1 .. Len(ps["tx"]) : mem'[ps["tx"][i]] = mem[ps["tx"][i]]
    BY <1>3, <1>19 DEF Others
  <2>3. TxOK(mem', ps["tx"], n["tx"], cur["tx"], term["tx"], halt)
    <3> DEFINE r == ps["tx"]
    <3>1. r \in Seq(Descs) /\ TxOK(mem, r, n["tx"], cur["tx"], term["tx"], halt)
      BY <1>3, <1>4, <1>5
    <3>2. \A i \in 1 .. Len(r) : mem'[r[i]].own = mem[r[i]].own /\ mem'[r[i]].ctrl = mem[r[i]].ctrl
      BY <2>2
    <3> DEFINE j == n["tx"]
               c == cur["tx"]
               u == term["tx"]
    <3>3. TxOK(mem, r, j, c, u, halt)
      BY <3>1
    <3> HIDE DEF r, j, c, u
    <3>4. TxOK(mem', r, j, c, u, halt)
      BY <3>1, <3>2, <3>3, TxFrame
    <3> QED
      BY <3>4 DEF r, j, c, u
  <2> QED
    BY <1>3, <1>18, <2>1, <2>3
<1>32. cur'["down"] = w[k] /\ w[k] \in Descs
  BY <1>3, <1>8, <1>9, <1>26, FuelIsNat
<1>33. \A q \in Queues : QueueOK(mem', q, ps2[q], head'[q], term'[q], g2)
  BY <1>18, <1>19, <1>29 DEF Others
<1>34. NextShape(ps2, g2, h, n2)
  BY <1>18, <1>19, <1>20, <1>30, <1>31, <1>32, <1>33 DEF NextShape, Others, t
<1>35. TypeOK' /\ PcOK'
  <2>1. cur' \in [Engines -> Descs]
    BY <1>3, <1>26, <1>32
  <2> QED
    BY <1>0, <1>2, <1>16, <1>20, <2>1 DEF TypeOK, PcOK, Empty
<1>36. TermOK'
  <2>1. \A q \in Queues : mem'[term[q]] = mem[term[q]]
    BY <1>2, <1>5, <1>10, <1>16
  <2> QED
    BY <1>0, <1>20, <2>1 DEF TermOK
<1>37. WakeOK'
  <2>1. mem'[cur["tx"]] = mem[cur["tx"]] /\ cur'["tx"] = cur["tx"] /\ run' = run /\ halt' = halt
    <3>1. cur["tx"] \in Descs /\ cur["tx"] \notin into
      BY <1>3, <1>5, <1>14
    <3> QED
      BY <1>2, <1>3, <1>16, <1>26, <3>1
  <2> QED
    BY <1>0, <1>2, <1>3, <1>20, <2>1 DEF WakeOK, Due, InHand, Engines
<1>38. IInv'
  BY <1>34, <1>35, <1>36, <1>37, Reshape DEF IInv
<1>39. PICK ps3, g3 : ps3 = ps2 /\ g3 = g2 /\ NextShape(ps3, g3, h, n2)
  BY <1>34
<1>40. SameData(mem, mem')
  BY <1>14, <1>16 DEF SameData
<1>41. \A q \in Queues : q # "down" =>
         ps3[q] = ps[q] /\ \A i \in 1 .. Len(ps[q]) : g3.pk[ps[q][i]] = g.pk[ps[q][i]]
  BY <1>18, <1>19, <1>39 DEF Others
<1>42. \A i \in 1 .. m : g3.pk[s[i]] = g.pk[s[i]]
  <2> SUFFICES ASSUME NEW i \in 1 .. m PROVE g3.pk[s[i]] = g.pk[s[i]]
    OBVIOUS
  <2>1. i \in 1 .. Len(s) /\ i \notin m + 1 .. m + k
    BY <1>6, <1>7, <1>8
  <2> QED
    BY <1>21, <1>39, <2>1
<1>43. ps3["down"] = Joined(s, m, k) /\ g3.pk[s[m + 1]] = Part(s, m, k)
  BY <1>18, <1>39 DEF s2, c2, x
<1>44. n2["tx"] = n["tx"] /\ n2["down"] = m + 1 /\ k \in Nat \ {0} /\ m + k <= Len(s)
  BY <1>8, <1>12, <1>18
<1>45. Filled(ps, g, h, n, ps3, g3, n2, k)
  BY <1>0, <1>1, <1>20, <1>35, <1>39, <1>40, <1>41, <1>42, <1>43, <1>44 DEF Filled, s, m
<1>46. Pipe!Arrive(k)
  BY <1>45, PipeArrives
<1> QED
  BY <1>38, <1>46

-----------------------------------------------------------------------------
(* The invariant holds at every step *)

\* Between a cut and itself there are no packets.
LEMMA BufsNone ==
  ASSUME NEW m, NEW g, NEW s, NEW lo, Slice(m, g, s, lo, lo)
  PROVE  Bufs(m, g, s, lo, lo) = <<>>
<1> DEFINE b == Bufs(m, g, s, lo, lo)
<1>1. b \in Seq(Seq(Words)) /\ Len(b) = lo - lo /\ lo \in Nat
  BY BufsAre DEF Slice
<1> HIDE DEF b
<1>2. Len(b) = 0
  BY <1>1
<1>3. b = <<>>
  BY <1>1, <1>2, EmptySeq
<1> QED
  BY <1>3 DEF b

\* dma_init_descriptors() establishes the invariant, and the pipe is empty.
LEMMA StartsShaped == Init => IInv /\ Pipe!Init
<1> SUFFICES ASSUME Init PROVE IInv /\ Pipe!Init
  OBVIOUS
<1>1. NB \in Nat /\ NB >= 1
  BY DmaAssumption
<1>2. /\ TermOf \in [Queues -> Descs] /\ TermOf["down"] = NB + 1 /\ TermOf["tx"] = NB + 2
      /\ TermOf["retry"] = NB + 3
  BY <1>1 DEF TermOf, Queues, Descs
<1>3. /\ head = TermOf /\ term = [TermOf EXCEPT !["down"] = NB]
      /\ cur = [e \in Engines |-> TermOf[e]] /\ run = [e \in Engines |-> e = "down"]
      /\ halt = FALSE /\ pc = "idle" /\ td = Cleared(1) /\ dst = "down" /\ desc = 1
      /\ fwDesc = FwData /\ fwAvail = TRUE
  BY DEF Init
<1>4. /\ head["down"] = NB + 1 /\ head["tx"] = NB + 2 /\ head["retry"] = NB + 3
      /\ term["down"] = NB /\ term["tx"] = NB + 2 /\ term["retry"] = NB + 3
      /\ cur["down"] = NB + 1 /\ cur["tx"] = NB + 2 /\ run["down"]
      /\ term \in [Queues -> Descs] /\ run \in [Engines -> BOOLEAN] /\ cur \in [Engines -> Descs]
  <2>1. /\ "down" \in Queues /\ "tx" \in Queues /\ "retry" \in Queues
        /\ "down" \in Engines /\ "tx" \in Engines /\ NB \in Descs
        /\ \A e \in Engines : e \in Queues
    BY <1>1 DEF Queues, Engines, Descs
  <2>2. head["down"] = NB + 1 /\ head["tx"] = NB + 2 /\ head["retry"] = NB + 3
    BY <1>2, <1>3
  <2>3. /\ term["down"] = NB /\ term["tx"] = NB + 2 /\ term["retry"] = NB + 3
        /\ term \in [Queues -> Descs]
    BY <1>2, <1>3, <2>1
  <2>4. /\ cur["down"] = NB + 1 /\ cur["tx"] = NB + 2 /\ cur \in [Engines -> Descs]
    BY <1>2, <1>3, <2>1
  <2>5. run["down"] /\ run \in [Engines -> BOOLEAN]
    BY <1>3, <2>1
  <2> QED
    BY <2>2, <2>3, <2>4, <2>5
<1>5. \A d \in Descs : Cleared(d) \in Descriptor
  BY DEF Cleared, Descriptor
<1> DEFINE Full(d, b) == [own |-> "HW", ctrl |-> "ok", last |-> d, next |-> b, data |-> b]
<1>6. \A d \in Descs : mem[d] = IF d = NB + 1 THEN Full(d, 1)
                                ELSE IF d \in 1 .. NB - 1 THEN Full(d, d + 1) ELSE Cleared(d)
  <2>1. mem = [d \in Descs |->
          CASE d = NB + 1 -> Full(d, 1) [] d \in 1 .. NB - 1 -> Full(d, d + 1) [] OTHER -> Cleared(d)]
    BY <1>2 DEF Init
  <2> HIDE DEF Full
  <2> QED
    BY <1>1, <2>1
<1>7. \A d \in Descs, b \in Buffers : Full(d, b) \in Descriptor
  BY <1>1 DEF Descriptor, Buffers, Descs
<1>8. mem \in [Descs -> Descriptor]
  <2>1. DOMAIN mem = Descs /\ mem = [d \in Descs |-> mem[d]]
    BY DEF Init
  <2>2. ASSUME NEW d \in Descs PROVE mem[d] \in Descriptor
    <3>1. 1 \in Buffers /\ (d \in 1 .. NB - 1 => d + 1 \in Buffers)
      BY <1>1 DEF Buffers
    <3> HIDE DEF Full
    <3> QED
      BY <1>5, <1>6, <1>7, <3>1
  <2> QED
    BY <2>1, <2>2
<1>9. TypeOK
  <2>1. 1 \in Descs /\ FwData \in Descs
    BY <1>1 DEF Descs, FwData
  <2> QED
    BY <1>2, <1>3, <1>4, <1>5, <1>8, <2>1 DEF TypeOK, Queues
<1>10. TermOK /\ PcOK
  <2>1. \A q \in Queues : mem[term[q]] = Cleared(term[q])
    <3>1. NB \in Descs /\ NB + 2 \in Descs /\ NB + 3 \in Descs
      BY <1>1 DEF Descs
    <3>2. /\ mem[NB] = Cleared(NB) /\ mem[NB + 2] = Cleared(NB + 2)
          /\ mem[NB + 3] = Cleared(NB + 3)
      <4>1. \A d \in {NB, NB + 2, NB + 3} : d # NB + 1 /\ d \notin 1 .. NB - 1
        BY <1>1
      <4> HIDE DEF Full
      <4>2. \A d \in Descs : d # NB + 1 /\ d \notin 1 .. NB - 1 => mem[d] = Cleared(d)
        BY <1>6
      <4> QED
        BY <3>1, <4>1, <4>2
    <3> QED
      BY <1>4, <3>2 DEF Queues
  <2>2. pc # "publish" /\ pc # "retry" /\ pc # "trigger"
    BY <1>3
  <2>3. TermOK
    BY <2>1, <2>2 DEF TermOK
  <2>4. PcOK
    BY <2>2 DEF PcOK
  <2> QED
    BY <2>3, <2>4
<1>11. WakeOK
  <2>1. mem[cur["tx"]].own = "SW"
    <3>1. NB + 2 \in Descs /\ NB + 2 # NB + 1 /\ NB + 2 \notin 1 .. NB - 1
      BY <1>1 DEF Descs
    <3> HIDE DEF Full
    <3>2. mem[NB + 2] = Cleared(NB + 2)
      BY <1>6, <3>1
    <3> QED
      BY <1>4, <3>2 DEF Cleared
  <2> QED
    BY <1>4, <2>1 DEF WakeOK, Engines
<1> DEFINE s   == [i \in 1 .. NB |-> IF i = 1 THEN NB + 1 ELSE i - 1]
           one == [d \in Descs |-> [j \in 1 .. 1 |-> d]]
           tag == [d \in Descs |-> IF d <= NB + 1 THEN "down" ELSE IF d = NB + 2 THEN "tx"
                                   ELSE IF d = NB + 3 THEN "retry" ELSE "home"]
           fst == [d \in Descs |-> d]
           g   == [pk |-> one, tag |-> tag, fst |-> fst]
           no  == [i \in 1 .. 0 |-> 1]
           ps  == [q \in Queues |-> IF q = "down" THEN s ELSE no]
           n   == [e \in Engines |-> 0]
<1>12. /\ s \in Seq(Descs) /\ Len(s) = NB
       /\ \A i \in 1 .. NB : s[i] = IF i = 1 THEN NB + 1 ELSE i - 1
       /\ no \in Seq(Descs) /\ Len(no) = 0
  BY <1>1 DEF Descs
<1>13. /\ one \in [Descs -> Seq(Descs)] /\ \A d \in Descs : Len(one[d]) = 1 /\ one[d][1] = d
  <2>1. ASSUME NEW d \in Descs
        PROVE  one[d] \in Seq(Descs) /\ Len(one[d]) = 1 /\ one[d][1] = d
    <3>1. one[d] = [j \in 1 .. 1 |-> d]
      OBVIOUS
    <3> HIDE DEF one
    <3> QED
      BY <3>1
  <2>2. one = [d \in Descs |-> one[d]]
    OBVIOUS
  <2> HIDE DEF one
  <2> QED
    BY <2>1, <2>2
<1>14. /\ g.pk = one /\ g.tag = tag /\ g.fst = fst
       /\ tag \in [Descs -> Places] /\ fst \in [Descs -> Descs] /\ \A d \in Descs : fst[d] = d
       /\ tag[FwData] = "home" /\ tag[NB + 2] = "tx" /\ tag[NB + 3] = "retry"
       /\ \A d \in 1 .. NB + 1 : tag[d] = "down"
  <2>1. g.pk = one /\ g.tag = tag /\ g.fst = fst
    OBVIOUS
  <2>2. fst \in [Descs -> Descs] /\ \A d \in Descs : fst[d] = d
    OBVIOUS
  <2>3. tag \in [Descs -> Places]
    BY DEF Places, Queues
  <2>4. \A d \in Descs : tag[d] = IF d <= NB + 1 THEN "down" ELSE IF d = NB + 2 THEN "tx"
                                   ELSE IF d = NB + 3 THEN "retry" ELSE "home"
    OBVIOUS
  <2> HIDE DEF tag
  <2>5. /\ tag[FwData] = "home" /\ tag[NB + 2] = "tx" /\ tag[NB + 3] = "retry"
        /\ \A d \in 1 .. NB + 1 : tag[d] = "down"
    BY <1>1, <2>4 DEF Descs, FwData
  <2> QED
    BY <2>1, <2>2, <2>3, <2>5
<1> HIDE DEF s, no, one, tag, fst
<1>15. Ghost(ps, g, no, n)
  <2>1. ps \in [Queues -> Seq(Descs)] /\ n \in [Engines -> Nat]
    BY <1>12
  <2>2. g \in [pk : [Descs -> Seq(Descs)], tag : [Descs -> Places], fst : [Descs -> Descs]]
    BY <1>13, <1>14
  <2> QED
    BY <1>12, <2>1, <2>2 DEF Ghost
<1>16. /\ ps["down"] = s /\ ps["tx"] = no /\ ps["retry"] = no
       /\ n["down"] = 0 /\ n["tx"] = 0
  BY DEF Queues, Engines
<1> HIDE DEF ps, n, g
<1>17. ASSUME NEW i \in 1 .. NB
       PROVE  /\ Member(mem, "down", s[i], g) /\ After(mem)[s[i]] = IF i < NB THEN s[i + 1] ELSE NB
              /\ s[i] \in Descs /\ s[i] # NB /\ mem[s[i]].own = "HW" /\ mem[s[i]].data = i
  <2> DEFINE x == s[i]
             b == IF i = 1 THEN 1 ELSE i
  <2>1. /\ x \in Descs /\ x # NB /\ x \in 1 .. NB + 1 /\ b \in Descs /\ b \in Buffers
        /\ b = IF i < NB THEN s[i + 1] ELSE NB
    BY <1>1, <1>12 DEF Descs, Buffers
  <2>2. mem[x] = Full(x, b)
    <3>1. CASE i = 1
      BY <1>6, <1>12, <2>1, <3>1
    <3>2. CASE i # 1
      <4>1. x = i - 1 /\ x # NB + 1 /\ x \in 1 .. NB - 1 /\ x + 1 = b
        BY <1>1, <1>12, <3>2
      <4> HIDE DEF x, b
      <4> QED
        BY <1>6, <2>1, <4>1
    <3> QED
      BY <3>1, <3>2
  <2>9. b = i
    OBVIOUS
  <2> HIDE DEF x, b
  <2>3. mem[x].own = "HW" /\ mem[x].last = x /\ mem[x].next = b /\ mem[x].data = b
    BY <2>2
  <2>4. b # Null /\ b # FwData
    BY <1>1, <2>1 DEF Buffers, FwData, Null
  <2>5. Len(g.pk[x]) = 1 /\ g.pk[x][1] = x /\ g.pk[x] \in Seq(Descs) /\ g.tag[x] = "down" /\ g.fst[x] = x
    BY <1>13, <1>14, <2>1
  <2>6. IsPacket(mem, g.pk[x]) /\ HasData(mem, g.pk[x])
    BY <2>3, <2>4, <2>5 DEF IsPacket, HasData, Inj
  <2>7. Member(mem, "down", x, g)
    BY <2>3, <2>4, <2>5, <2>6 DEF Member
  <2>8. After(mem)[x] = b
    BY <2>1, <2>3 DEF After
  <2> QED
    BY <2>1, <2>3, <2>7, <2>8, <2>9 DEF x
<1>18. QueueOK(mem, "down", s, head["down"], term["down"], g)
  <2>1. Inj(s)
    BY <1>1, <1>12 DEF Inj
  <2>2. Start(s, NB) = NB + 1
    BY <1>1, <1>12 DEF Start
  <2>3. NB \in Descs /\ g.tag[NB] = "down" /\ g.fst[NB] = NB
    BY <1>1, <1>14 DEF Descs
  <2> QED
    BY <1>4, <1>12, <1>17, <2>1, <2>2, <2>3 DEF QueueOK, IsRing, Without, Leads
<1>19. \A q \in {"tx", "retry"} : QueueOK(mem, q, no, head[q], term[q], g)
  <2> SUFFICES ASSUME NEW q \in {"tx", "retry"} PROVE QueueOK(mem, q, no, head[q], term[q], g)
    OBVIOUS
  <2>1. NB + 2 \in Descs /\ NB + 3 \in Descs
    BY <1>1 DEF Descs
  <2>2. head[q] = term[q] /\ g.tag[term[q]] = q /\ g.fst[term[q]] = term[q]
    BY <1>4, <1>14, <2>1
  <2> QED
    BY <1>12, <2>2 DEF QueueOK, IsRing, Inj, Without, Leads, Start
<1>20. QueuesOK(ps, g)
  BY <1>16, <1>18, <1>19 DEF QueuesOK, Queues
<1>21. HeldOK(no, g) /\ HomeOK(g)
  <2>1. FwData \in Descs
    BY <1>1 DEF Descs, FwData
  <2> QED
    BY <1>3, <1>14, <2>1 DEF HeldOK, InHand, HomeOK
<1>22. DownOK(mem, s, g, 0, NB + 1, NB)
  <2>1. \A i \in 1 .. NB : Len(g.pk[s[i]]) = 1
    BY <1>13, <1>14, <1>17
  <2>2. At(s, 1, NB) = NB + 1
    BY <1>1, <1>12 DEF At
  <2> QED
    BY <1>1, <1>12, <1>17, <2>1, <2>2 DEF DownOK
<1>23. TxOK(mem, no, 0, NB + 2, NB + 2, FALSE)
  BY <1>12 DEF TxOK, At
<1>24. Shape(ps, g, no, n)
  BY <1>3, <1>4, <1>15, <1>16, <1>20, <1>21, <1>22, <1>23 DEF Shape
<1>25. Shaped
  BY <1>24 DEF Shaped
<1>26. IInv
  BY <1>9, <1>10, <1>11, <1>25 DEF IInv
<1>27. Seen(ps, g, no, n)
  BY <1>9, <1>24, SeenIs
<1> DEFINE z == 0
<1>28. Slice(mem, g, s, z, z) /\ Slice(mem, g, no, z, z) /\ Len(no) = z
  <2>1. g.pk \in [Descs -> Seq(Descs)]
    BY <1>13, <1>14
  <2> QED
    BY <1>1, <1>8, <1>12, <2>1 DEF Slice
<1> HIDE DEF z
<1>29. Bufs(mem, g, s, z, z) = <<>> /\ Bufs(mem, g, no, z, z) = <<>>
  BY <1>28, BufsNone
<1>30. /\ Datas(Done("down")) = <<>> /\ Datas(Open("tx")) = <<>> /\ Datas(Done("tx")) = <<>>
       /\ Datas(Packets("retry")) = <<>>
  <2>1. /\ Front(mem, g, ps, n, "down") = <<>> /\ Front(mem, g, ps, n, "tx") = <<>>
        /\ Back(mem, g, ps, n, "tx") = <<>> /\ Front(mem, g, ps, n, "retry") = <<>>
    BY <1>16, <1>28, <1>29 DEF Front, Back, Cut, z
  <2> QED
    BY <1>27, <2>1 DEF Seen
<1>31. Held = <<>>
  BY <1>3, <1>27 DEF Seen, InHand
<1> DEFINE f == Flat(Open("down"))
<1>32. f \in Seq(Buffers) /\ Len(f) = NB /\ \A i \in 1 .. NB : f[i] = i
  <2>1. f = Frees(mem, s, z)
    BY <1>16, <1>27 DEF Seen, z
  <2>2. z \in 0 .. Len(s) /\ Len(s) - z = NB /\ \A i \in 1 .. NB : z + i = i
    BY <1>1, <1>12 DEF z
  <2> HIDE DEF f
  <2>3. /\ Frees(mem, s, z) \in Seq(Words) /\ Len(Frees(mem, s, z)) = Len(s) - z
        /\ \A i \in 1 .. Len(s) - z : Frees(mem, s, z)[i] = mem[s[z + i]].data
    BY <1>8, <1>12, <2>2, FreesAre
  <2>4. f \in Seq(Words) /\ Len(f) = NB /\ \A i \in 1 .. NB : f[i] = i
    BY <1>17, <2>1, <2>2, <2>3
  <2>5. f = [i \in 1 .. NB |-> f[i]]
    BY <2>4, SeqIsFunction
  <2>6. \A i \in 1 .. NB : f[i] \in Buffers
    BY <2>4 DEF Buffers
  <2> QED
    BY <1>1, <2>4, <2>5, <2>6
<1>33. DOMAIN f = 1 .. NB
  <2> HIDE DEF f
  <2> QED
    BY <1>32
<1>34. /\ \A i, j \in DOMAIN f : i # j => f[i] # f[j]
       /\ \A b \in Buffers : \E i \in DOMAIN f : f[i] = b
  <2> HIDE DEF f
  <2> QED
    BY <1>32, <1>33 DEF Buffers
<1>35. Pipe!Init
  BY <1>3, <1>30, <1>31, <1>32, <1>34 DEF Pipe!Init
<1> QED
  BY <1>26, <1>35

\* Every step keeps the invariant, and is a step of the pipe or none at all.
LEMMA StaysShaped == IInv /\ [Next]_vars => IInv' /\ [Pipe!Next]_(Pipe!vars)
<1> SUFFICES ASSUME IInv, [Next]_vars PROVE IInv' /\ [Pipe!Next]_(Pipe!vars)
  OBVIOUS
<1>1. CASE TakeDown
  BY <1>1, StepTakeDown DEF Pipe!Next
<1>2. CASE TxDone
  <2>1. Pipe!TakeSent("down") \/ Pipe!ReserveHome => Pipe!Next
    BY DEF Pipe!Next
  <2> QED
    BY <1>2, <2>1, StepTxDone
<1>3. CASE TxRearm
  BY <1>3, StepTxRearm DEF Pipe!Next
<1>4. CASE TxRetryLater
  <2>1. Pipe!TakeSent("retry") => Pipe!Next
    BY DEF Pipe!Next
  <2> QED
    BY <1>4, <2>1, StepTxRetryLater
<1>5. CASE TakeRetry
  BY <1>5, StepTakeRetry DEF Pipe!Next
<1>6. CASE CopyStatus
  BY <1>6, StepCopyStatus
<1>7. CASE CopyBody
  BY <1>7, StepCopyBody
<1>8. CASE Publish
  BY <1>8, StepPublish DEF Pipe!Next
<1>9. CASE Trigger
  BY <1>9, StepTrigger
<1>10. CASE SendReserved
  BY <1>10, StepSendReserved DEF Pipe!Next
<1>11. CASE TriggerTx
  BY <1>11, StepTriggerTx
<1>12. ASSUME NEW k \in 1 .. MaxFrag, Fill(k) PROVE IInv' /\ Pipe!Next
  <2>1. Pipe!Arrive(k) => Pipe!Next
    BY DEF Pipe!Next
  <2> QED
    BY <1>12, <2>1, StepFill
<1>13. ASSUME NEW o \in Outcomes, Send(o) PROVE IInv' /\ Pipe!Next
  BY <1>13, StepSend DEF Pipe!Next
<1>14. ASSUME NEW e \in Engines, GoIdle(e) PROVE IInv' /\ UNCHANGED Pipe!vars
  BY <1>14, StepGoIdle
<1>15. CASE UNCHANGED vars
  <2>1. /\ UNCHANGED <<mem, queues, cur, halt, td, desc, reserve>> /\ pc' = pc /\ dst' = dst
        /\ run' = run /\ InHand' = InHand
    BY <1>15 DEF vars, engine, call, InHand
  <2>2. Shaped'
    BY <2>1, QuietKeeps
  <2>3. TypeOK /\ TermOK /\ WakeOK /\ PcOK
    BY DEF IInv
  <2>4. TypeOK' /\ TermOK' /\ PcOK' /\ WakeOK'
    BY <2>1, <2>3 DEF TypeOK, TermOK, PcOK, WakeOK, Due, InHand, Empty, queues, reserve
  <2>5. IInv'
    BY <2>2, <2>4 DEF IInv
  <2>6. /\ IInv /\ IInv' /\ UNCHANGED <<mem, queues, cur, halt, td, desc, reserve>>
        /\ (InHand' <=> InHand) /\ (InHand => dst' = dst)
    BY <2>1, <2>5
  <2>7. UNCHANGED Pipe!vars
    BY <2>6, QuietSeen
  <2> QED
    BY <2>5, <2>7
<1> QED
  BY <1>1, <1>2, <1>3, <1>4, <1>5, <1>6, <1>7, <1>8, <1>9, <1>10, <1>11, <1>12, <1>13,
     <1>14, <1>15 DEF Next, Firmware

\* The invariant holds in every state: the rings of dma.c consist of disjoint packets,
\* each led to from its queue's head, and both engines stand behind what they processed.
THEOREM ShapedAlways == Spec => []IInv
BY StartsShaped, StaysShaped, PTL DEF Spec

\* The rings implement the pipe: no buffer is lost or in two places, packets stay
\* together and keep their order, in every interleaving of dma_put(), dma_reclaim()
\* and dma_unlink_head() with the two engines.
THEOREM RingsArePipe == Spec => PipeSpec
<1>1. Init => IInv /\ Pipe!Init
  BY StartsShaped
<1>2. IInv /\ [Next]_vars => IInv' /\ [Pipe!Next]_(Pipe!vars)
  BY StaysShaped
<1> QED
  BY <1>1, <1>2, PTL DEF Spec, PipeSpec, Pipe!Spec

-----------------------------------------------------------------------------
(* What the invariant says of the code's own walks *)

\* No terminator is the engines'.
LEMMA TermIsSw ==
  ASSUME IInv, NEW q \in Queues
  PROVE  mem[term[q]].own = "SW"
<1>1. PICK ps, g, h, n : Shape(ps, g, h, n)
  BY DEF IInv, Shaped
<1>2. pc = "publish" => td.own = "SW"
  BY <1>1 DEF Shape, HeldOK, InHand, HandOK
<1>3. mem[term[q]] = IF pc = "publish" /\ q = dst THEN td ELSE Cleared(term[q])
  BY DEF IInv, TermOK
<1> QED
  BY <1>2, <1>3 DEF Cleared

\* The invariant says what EnginesInStep does.
LEMMA ShapeIsInv == IInv => Inv
<1> SUFFICES ASSUME IInv PROVE Inv
  OBVIOUS
<1>1. PICK ps, g, h, n : Shape(ps, g, h, n)
  BY DEF IInv, Shaped
<1>2. TypeOK /\ QueuesOK(ps, g)
  BY <1>1 DEF IInv, Shape
<1>3. \A q \in Queues : Packets(q) = ps[q]
  BY <1>2, PacketsAre
<1>4. \A e \in Engines :
           /\ n[e] \in 0 .. Len(ps[e]) /\ Len(ps[e]) \in Nat
           /\ \A i \in 1 .. Len(ps[e]) :
                mem[ps[e][i]].own = IF i <= n[e] THEN IF e = "down" THEN "SE" ELSE "SW" ELSE "HW"
           /\ Done(e) \in Seq(Descs) /\ Len(Done(e)) = n[e]
           /\ \A i \in 1 .. n[e] : Done(e)[i] = ps[e][i]
           /\ Open(e) \in Seq(Descs) /\ Len(Open(e)) = Len(ps[e]) - n[e]
           /\ \A i \in 1 .. Len(ps[e]) - n[e] : Open(e)[i] = ps[e][n[e] + i]
  <2>1. \A e \in Engines : Progress(e, ps, n)
    BY <1>1, <1>2, ProgressIs
  <2> QED
    BY <2>1 DEF Progress
<1>5. /\ \A q \in Queues : /\ ps[q] \in Seq(Descs) /\ head[q] = Start(ps[q], term[q])
                           /\ IsRing(mem, ps[q], head[q], term[q])
      /\ "down" \in Engines /\ "tx" \in Engines /\ "tx" \in Queues /\ "down" \in Queues
  BY <1>2 DEF QueuesOK, QueueOK, IsRing, Engines, Queues
<1>6. \A q \in Queues : Empty(q) \/ Packets(q) # <<>>
  BY <1>3, <1>5 DEF Empty, Start
<1>7. \A q \in Queues : mem[term[q]].own = "SW"
  BY TermIsSw
<1>8. /\ DownOK(mem, ps["down"], g, n["down"], cur["down"], term["down"])
      /\ TxOK(mem, ps["tx"], n["tx"], cur["tx"], term["tx"], halt)
  BY <1>1 DEF Shape
<1>9. halt \/ cur["tx"] = FirstPending(head["tx"])
  <2>1. \A i \in 1 .. Len(ps["tx"]) : mem[ps["tx"][i]].own = IF i <= n["tx"] THEN "SW" ELSE "HW"
    BY <1>8 DEF TxOK
  <2>2. FirstPending(head["tx"]) = At(ps["tx"], n["tx"] + 1, term["tx"])
    <3> DEFINE s == ps["tx"]
               d == head["tx"]
               k == n["tx"]
    <3>1. /\ IsRing(mem, s, d, term["tx"]) /\ k \in 0 .. Len(s)
          /\ \A i \in 1 .. Len(s) : mem[s[i]].own = IF i <= k THEN "SW" ELSE "HW"
      BY <1>4, <1>5, <2>1
    <3> HIDE DEF s, d, k
    <3>2. FirstPending(d) = At(s, k + 1, term["tx"])
      BY <1>2, <3>1, FirstPendingIs
    <3> QED
      BY <3>2 DEF s, d, k
  <2>3. ~halt => cur["tx"] = At(ps["tx"], n["tx"] + 1, term["tx"])
    BY <1>8 DEF TxOK
  <2> QED
    BY <2>2, <2>3
<1>10. halt => cur["tx"] = head["tx"] \/ mem[head["tx"]].own = "SW"
  <2> SUFFICES ASSUME halt PROVE mem[head["tx"]].own = "SW"
    OBVIOUS
  <2>1. n["tx"] > 0 /\ n["tx"] \in 0 .. Len(ps["tx"]) /\ Len(ps["tx"]) \in Nat
    BY <1>4, <1>5, <1>8 DEF TxOK
  <2>2. head["tx"] = ps["tx"][1] /\ 1 \in 1 .. Len(ps["tx"]) /\ 1 <= n["tx"]
    BY <1>5, <2>1 DEF Start
  <2> QED
    BY <1>8, <2>2 DEF TxOK
<1>11. cur["down"] = IF Open("down") = <<>> THEN term["down"] ELSE Head(Open("down"))
  <2>1. cur["down"] = At(ps["down"], n["down"] + 1, term["down"])
    BY <1>8 DEF DownOK
  <2>2. CASE n["down"] < Len(ps["down"])
    <3>1. Len(Open("down")) >= 1 /\ Open("down")[1] = ps["down"][n["down"] + 1]
      BY <1>4, <1>5, <2>2
    <3>2. Open("down") # <<>> /\ Head(Open("down")) = Open("down")[1]
      BY <1>4, <1>5, <3>1
    <3> QED
      BY <1>4, <1>5, <2>1, <2>2, <3>1, <3>2 DEF At
  <2>3. CASE ~(n["down"] < Len(ps["down"]))
    <3>1. Len(Open("down")) = 0
      BY <1>4, <1>5, <2>3
    <3>2. Open("down") = <<>>
      BY <1>4, <1>5, <3>1, EmptySeq
    <3> QED
      BY <1>4, <1>5, <2>1, <2>3, <3>2 DEF At
  <2> QED
    BY <2>2, <2>3
<1>12. ASSUME NEW e \in Engines
       PROVE  /\ \A i \in DOMAIN Done(e) : mem[Done(e)[i]].own = IF e = "down" THEN "SE" ELSE "SW"
              /\ \A i \in DOMAIN Open(e) : mem[Open(e)[i]].own = "HW"
  <2> DEFINE s == ps[e]
             k == n[e]
             a == Done(e)
             b == Open(e)
  <2>1. /\ k \in 0 .. Len(s) /\ Len(s) \in Nat
        /\ \A i \in 1 .. Len(s) :
             mem[s[i]].own = IF i <= k THEN IF e = "down" THEN "SE" ELSE "SW" ELSE "HW"
        /\ a \in Seq(Descs) /\ Len(a) = k /\ \A i \in 1 .. k : a[i] = s[i]
        /\ b \in Seq(Descs) /\ Len(b) = Len(s) - k /\ \A i \in 1 .. Len(s) - k : b[i] = s[k + i]
    BY <1>4
  <2> HIDE DEF s, k, a, b
  <2>2. DOMAIN a = 1 .. k /\ DOMAIN b = 1 .. Len(s) - k
    BY <2>1, LenProperties
  <2>3. \A i \in DOMAIN a : mem[a[i]].own = IF e = "down" THEN "SE" ELSE "SW"
    BY <2>1, <2>2
  <2>4. \A i \in DOMAIN b : mem[b[i]].own = "HW"
    <3> SUFFICES ASSUME NEW i \in 1 .. Len(s) - k PROVE mem[b[i]].own = "HW"
      BY <2>2
    <3>1. k + i \in 1 .. Len(s) /\ ~(k + i <= k) /\ b[i] = s[k + i]
      BY <2>1
    <3> QED
      BY <2>1, <3>1
  <2> QED
    BY <2>3, <2>4 DEF a, b
<1>13. EnginesInStep
  BY <1>6, <1>7, <1>9, <1>10, <1>11, <1>12 DEF EnginesInStep
<1> QED
  BY <1>2, <1>13 DEF Inv

\* The descriptor an engine owns at its cursor is a packet's first.
LEMMA ShapeIsNoTornDescriptor == IInv => NoTornDescriptor
<1> SUFFICES ASSUME IInv, NEW e \in Engines, mem[cur[e]].own = "HW"
             PROVE  mem[cur[e]].data # Null /\ AfterOf[cur[e]] # cur[e]
  BY DEF NoTornDescriptor
<1>1. PICK ps, g, h, n : Shape(ps, g, h, n)
  BY DEF IInv, Shaped
<1> DEFINE s == ps[e]
           t == term[e]
           d == cur[e]
<1>2. TypeOK /\ e \in Queues /\ e \in Engines /\ QueueOK(mem, e, s, head[e], t, g)
  BY <1>1 DEF IInv, Shape, Engines, Queues, QueuesOK
<1>3. /\ s \in Seq(Descs) /\ Len(s) \in Nat /\ d \in Descs
      /\ \A i \in 1 .. Len(s) : s[i] # t
      /\ \A i \in 1 .. Len(s) : mem[s[i]].own = IF i <= n[e] THEN IF e = "down" THEN "SE" ELSE "SW" ELSE "HW"
  <2>1. d \in Descs
    BY <1>2 DEF TypeOK
  <2> QED
    <3>1. Progress(e, ps, n)
      BY <1>1, <1>2, ProgressIs
    <3>2. s \in Seq(Descs) /\ Len(s) \in Nat /\ \A i \in 1 .. Len(s) : s[i] # t
      BY <1>1, <1>2, PlacesOf
    <3> QED
      BY <2>1, <3>1, <3>2 DEF Progress
<1>4. mem[t].own = "SW"
  BY <1>2, TermIsSw
<1>5. \E i \in 1 .. Len(s) : d = s[i]
  <2>1. CASE e = "down"
    <3>1. d = At(s, n[e] + 1, t) /\ n[e] \in 0 .. Len(s)
      BY <1>1, <2>1 DEF Shape, DownOK
    <3> QED
      BY <1>3, <1>4, <3>1 DEF At
  <2>2. CASE e = "tx"
    <3>1. /\ n[e] \in 0 .. Len(s)
          /\ (halt /\ n[e] > 0 /\ d = s[n[e]]) \/ d = At(s, n[e] + 1, t)
      BY <1>1, <2>2 DEF Shape, TxOK
    <3> QED
      BY <1>3, <1>4, <3>1 DEF At
  <2> QED
    BY <2>1, <2>2 DEF Engines
<1> HIDE DEF s, t, d
<1>6. PICK i \in 1 .. Len(s) : d = s[i]
  BY <1>5
<1>7. Member(mem, e, d, g)
  BY <1>2, <1>6 DEF QueueOK
<1>8. mem[d].data # Null
  BY <1>7 DEF Member, HasData
<1>9. AfterOf[d] = IF i < Len(s) THEN s[i + 1] ELSE t
  BY <1>2, <1>3, <1>6 DEF QueueOK, IsRing, Leads, After, AfterOf
<1>10. AfterOf[d] # d
  <2>1. CASE i < Len(s)
    <3>1. i + 1 \in 1 .. Len(s) /\ i # i + 1
      BY <1>3, <2>1
    <3>2. s[i + 1] # s[i]
      BY <1>2, <3>1 DEF QueueOK, IsRing, Inj
    <3> QED
      BY <1>6, <1>9, <2>1, <3>2
  <2>2. CASE ~(i < Len(s))
    BY <1>3, <1>6, <1>9, <2>2
  <2> QED
    BY <2>1, <2>2
<1> QED
  BY <1>8, <1>10 DEF d

\* Who has work and does not run is going to be triggered.
LEMMA ShapeIsNoLostWakeup == IInv => NoLostWakeup
BY DEF IInv, WakeOK, Due, InHand, NoLostWakeup

\* What is at home is in no queue.
LEMMA ShapeIsReservedHome == IInv => ReservedHome
<1> SUFFICES ASSUME IInv, fwAvail, NEW q \in Queues
             PROVE  /\ fwDesc # term[q]
                    /\ \A i \in DOMAIN Packets(q) : Packets(q)[i] # fwDesc
  BY DEF ReservedHome
<1>1. PICK ps, g, h, n : Shape(ps, g, h, n)
  BY DEF IInv, Shaped
<1>2. TypeOK /\ QueuesOK(ps, g) /\ g.tag[fwDesc] = "home" /\ q # "home"
  BY <1>1 DEF IInv, Shape, HomeOK, Queues
<1>3. Packets(q) = ps[q]
  BY <1>2, PacketsAre
<1>4. /\ g.tag[term[q]] = q /\ ps[q] \in Seq(Descs)
      /\ \A i \in 1 .. Len(ps[q]) : g.tag[ps[q][i]] = q
  BY <1>1, <1>2, PlacesOf
<1>5. DOMAIN ps[q] = 1 .. Len(ps[q])
  BY <1>4, LenProperties
<1> QED
  BY <1>2, <1>3, <1>4, <1>5

\* Whatever the number of blocks and the interleaving of dma_put(), dma_reclaim(),
\* dma_unlink_head() with both engines: the state is well typed, every queue leads from
\* head to terminator and the engines stand at the first packet they have not processed.
THEOREM RingsInStep == Spec => []Inv
BY ShapedAlways, ShapeIsInv, PTL

\* An engine never owns a descriptor at its cursor that dma_put() has half copied.
THEOREM NeverTorn == Spec => []NoTornDescriptor
BY ShapedAlways, ShapeIsNoTornDescriptor, PTL

\* No wake-up is lost: when the main loop is between two handlers, an engine with a
\* packet to work on runs, or is stopped at a frame that failed.
THEOREM WakeupsKept == Spec => []NoLostWakeup
BY ShapedAlways, ShapeIsNoLostWakeup, PTL

\* fw_desc is in no queue while it is marked available, although wlan_tx_fw() and
\* wlan_tx_status() exchange it for another descriptor on every trip.
THEOREM ReservedStaysHome == Spec => []ReservedHome
BY ShapedAlways, ShapeIsReservedHome, PTL

=============================================================================

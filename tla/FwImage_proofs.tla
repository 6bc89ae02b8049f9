--------------------------- MODULE FwImage_proofs ---------------------------
(***************************************************************************)
(* Proofs about FwImage: whatever stores are cut short and whatever cells  *)
(* are damaged, what a tool takes for a firmware with a checksum is what   *)
(* some store computed it for, and what a store wrote to its end is loaded *)
(* again as it was (ImageSound).  For any firmware and miniboot files, any *)
(* limits of size, and any number of runs and faults.                      *)
(***************************************************************************)
EXTENDS FwImage, RingArithmetic, SequenceTheorems, TLAPS

-----------------------------------------------------------------------------
(* The invariant *)

\* A sequence of whatever there is: cells have no set of their own.
IsList(s) == Len(s) \in Nat /\ s = [i \in 1 .. Len(s) |-> s[i]]

\* A descriptor as the linker or a store wrote it, or with one part damaged: its
\* length is zero, its magic is none or its body is not what it was.
DescCell(c) ==
  /\ c = [magic |-> c.magic, length |-> c.length, min |-> c.min, cur |-> c.cur, body |-> c.body]
  /\ c.magic \in DOMAIN Version \cup {"XXXX"} /\ c.length \in Nat
  /\ c.magic \in DOMAIN Version =>
       c.cur = Version[c.magic] /\ c.min = Lowest[c.magic] /\ c.length \in {0, Size[c.magic]}
  /\ DOMAIN c.body \in {{"text"}, {"features", "miniboot"}, {"fw", "hdr"}}
  /\ c.magic = "OTAR" => DOMAIN c.body = {"features", "miniboot"}
  /\ c.magic = "CHK" => DOMAIN c.body = {"fw", "hdr"}
  /\ "miniboot" \in DOMAIN c.body => c.body.miniboot \in Nat

Cell(c) == c.magic = "code" \/ DescCell(c)

\* Nothing but code stands before the head of the descriptors and behind their end,
\* and there is at most one checksum.
Layout(f) ==
  /\ IsList(f) /\ \A i \in 1 .. Len(f) : Cell(f[i])
  /\ \A i, j \in 1 .. Len(f) : f[i].magic = "OTAR" /\ j < i => f[j].magic = "code"
  /\ \A i, j \in 1 .. Len(f) : f[i].magic = "LAST" /\ i < j => f[j].magic = "code"
  /\ \A i, j \in 1 .. Len(f) : f[i].magic = "CHK" /\ f[j].magic = "CHK" => i = j

\* A checksum whose two parts are undamaged covers what a store put there.
Genuine(c) ==
  c.body.fw # <<>> /\ c.body.hdr # <<>> =>
    [image |-> c.body.fw[2], descs |-> c.body.hdr[2]] \in vouched

ChecksGenuine(f) == \A i \in 1 .. Len(f) : f[i].magic = "CHK" => Genuine(f[i])

\* The image and the list of descriptors that a program holds.
ImageOK(image) ==
  /\ IsList(image) /\ image # <<>>
  /\ \A i \in 1 .. Len(image) : image[i].magic = "code"

ListOK(descs) ==
  /\ IsList(descs) /\ descs # <<>>
  /\ \A i \in 1 .. Len(descs) :
       /\ DescCell(descs[i]) /\ descs[i].magic # "LAST"
       /\ descs[i].length >= HeadLen /\ descs[i].length < MaxLen
       /\ descs[i].magic = "OTAR" <=> i = 1
  /\ \A i, j \in 1 .. Len(descs) : descs[i].magic = "CHK" /\ descs[j].magic = "CHK" => i = j

Firmware(p) ==
  /\ p = [pc |-> p.pc, tool |-> p.tool, image |-> p.image, descs |-> p.descs,
          entries |-> p.entries, len |-> p.len, todo |-> p.todo]
  /\ ImageOK(p.image) /\ ListOK(p.descs)
  /\ p.entries = Len(p.descs) /\ p.len = TotalLength(p.descs)

\* What a store has computed: the checksum of the rest stands at the end of the list.
Checksummed(p) ==
  LET n    == Len(p.descs)
      rest == Front(p.descs)
  IN  /\ n > 1
      /\ p.descs[n] = Desc("CHK", [fw |-> ImageCrc(p.image), hdr |-> HeaderCrc(p.image, rest)])
      /\ [image |-> p.image, descs |-> rest] \in vouched

\* What it has still to write, and what of it is in the file.
Pieces(p) == <<p.image>> \o [i \in DOMAIN p.descs |-> <<p.descs[i]>>] \o <<<<LastDesc>>>>
Written(p, n) == IF n = 0 THEN <<>> ELSE p.image \o SubSeq(p.descs, 1, n - 1)

InFile(p, n) ==
  /\ p.todo = SubSeq(Pieces(p), n + 1, Len(p.descs) + 2)
  /\ file = Written(p, n)

ProcOK ==
  /\ proc.pc \in {"off", "refused", "loaded", "write", "stored"}
  /\ HasFirmware => Firmware(proc)
  /\ proc.pc \in {"write", "stored"} => Checksummed(proc)
  /\ proc.pc = "write" => \E n \in 0 .. Len(proc.descs) + 1 : InFile(proc, n)
  /\ proc.pc = "stored" => file = proc.image \o proc.descs \o <<LastDesc>>

ImageInv == Layout(file) /\ ChecksGenuine(file) /\ ProcOK /\ OnlyVouched

-----------------------------------------------------------------------------
(* Lists *)

\* A sequence over any set is a list.
LEMMA SeqIsList ==
  ASSUME NEW S, NEW s \in Seq(S)
  PROVE  IsList(s)
<1>1. Len(s) \in Nat /\ s \in [1 .. Len(s) -> S]
  BY LenProperties
<1> QED
  BY <1>1 DEF IsList

\* Two lists are sequences over one set.
LEMMA ListsAreSeqs ==
  ASSUME NEW s, NEW t, IsList(s), IsList(t)
  PROVE  \E S : s \in Seq(S) /\ t \in Seq(S)
<1> DEFINE S == {s[i] : i \in 1 .. Len(s)} \cup {t[i] : i \in 1 .. Len(t)}
<1>1. s \in [1 .. Len(s) -> S] /\ t \in [1 .. Len(t) -> S]
  BY DEF IsList
<1>2. Len(s) \in Nat /\ Len(t) \in Nat
  BY DEF IsList
<1> HIDE DEF S
<1>3. s \in Seq(S) /\ t \in Seq(S)
  BY <1>1, <1>2, SeqDef
<1> QED
  BY <1>3

\* The length of a list, its domain, and when it is empty.
LEMMA ListLen ==
  ASSUME NEW s, IsList(s)
  PROVE  Len(s) \in Nat /\ DOMAIN s = 1 .. Len(s) /\ (s # <<>> <=> Len(s) > 0)
<1>1. PICK S : s \in Seq(S)
  BY ListsAreSeqs
<1>2. Len(s) \in Nat /\ DOMAIN s = 1 .. Len(s)
  BY <1>1, LenProperties
<1>3. s # <<>> => Len(s) \in Nat \ {0}
  BY <1>1, EmptySeq
<1>4. Len(<<>>) = 0
  BY EmptySeq
<1> QED
  BY <1>2, <1>3, <1>4

\* The empty list and a list of one.
LEMMA ShortLists ==
  /\ IsList(<<>>) /\ Len(<<>>) = 0
  /\ \A x : IsList(<<x>>) /\ Len(<<x>>) = 1 /\ <<x>>[1] = x
<1>1. <<>> \in Seq({}) /\ Len(<<>>) = 0
  BY EmptySeq
<1>2. ASSUME NEW x PROVE IsList(<<x>>) /\ Len(<<x>>) = 1 /\ <<x>>[1] = x
  <2>1. <<x>> \in Seq({x}) /\ Len(<<x>>) = 1 /\ <<x>>[1] = x
    OBVIOUS
  <2> QED
    BY <2>1, SeqIsList
<1> QED
  BY <1>1, <1>2, SeqIsList

\* Lists with the same entries are the same.
LEMMA SameLists ==
  ASSUME NEW s, NEW t, IsList(s), IsList(t), Len(s) = Len(t),
         \A i \in 1 .. Len(s) : s[i] = t[i]
  PROVE  s = t
BY DEF IsList

\* Concatenation of lists, place by place.
LEMMA ConcatList ==
  ASSUME NEW s, NEW t, IsList(s), IsList(t)
  PROVE  /\ IsList(s \o t) /\ Len(s \o t) = Len(s) + Len(t)
         /\ \A i \in 1 .. Len(s) : (s \o t)[i] = s[i]
         /\ \A i \in 1 .. Len(t) : (s \o t)[Len(s) + i] = t[i]
<1>1. PICK S : s \in Seq(S) /\ t \in Seq(S)
  BY ListsAreSeqs
<1>2. Len(s) \in Nat /\ Len(t) \in Nat
  BY DEF IsList
<1>3. /\ s \o t \in Seq(S) /\ Len(s \o t) = Len(s) + Len(t)
      /\ \A i \in 1 .. Len(s) + Len(t) : (s \o t)[i] = IF i <= Len(s) THEN s[i] ELSE t[i - Len(s)]
  BY <1>1, ConcatProperties
<1>4. ASSUME NEW i \in 1 .. Len(s) PROVE (s \o t)[i] = s[i]
  <2>1. i \in 1 .. Len(s) + Len(t) /\ i <= Len(s)
    BY <1>2
  <2> QED
    BY <1>3, <2>1
<1>5. ASSUME NEW i \in 1 .. Len(t) PROVE (s \o t)[Len(s) + i] = t[i]
  <2> DEFINE k == Len(s) + i
  <2>1. k \in 1 .. Len(s) + Len(t) /\ ~(k <= Len(s)) /\ k - Len(s) = i
    BY <1>2
  <2> HIDE DEF k
  <2>2. (s \o t)[k] = t[i]
    BY <1>3, <2>1
  <2> QED
    BY <2>2 DEF k
<1>6. IsList(s \o t)
  BY <1>3, SeqIsList
<1> QED
  BY <1>3, <1>4, <1>5, <1>6

\* A list with one more entry, place by place.
LEMMA AppendList ==
  ASSUME NEW s, NEW x, IsList(s)
  PROVE  /\ IsList(Append(s, x)) /\ Len(Append(s, x)) = Len(s) + 1
         /\ \A i \in 1 .. Len(s) : Append(s, x)[i] = s[i]
         /\ Append(s, x)[Len(s) + 1] = x
<1>1. PICK S : s \in Seq(S) /\ <<x>> \in Seq(S)
  BY ListsAreSeqs, ShortLists
<1>2. x \in S
  <2>1. 1 \in 1 .. Len(<<x>>) /\ <<x>>[1] = x
    BY ShortLists
  <2> QED
    BY <1>1, <2>1, ElementOfSeq
<1>3. /\ Append(s, x) \in Seq(S) /\ Len(Append(s, x)) = Len(s) + 1
      /\ \A i \in 1 .. Len(s) : Append(s, x)[i] = s[i]
      /\ Append(s, x)[Len(s) + 1] = x
  BY <1>1, <1>2, AppendProperties
<1> QED
  BY <1>3, SeqIsList

\* A part of a list, place by place.
LEMMA SubList ==
  ASSUME NEW s, IsList(s), NEW m \in 1 .. Len(s) + 1, NEW n \in m - 1 .. Len(s)
  PROVE  /\ IsList(SubSeq(s, m, n)) /\ Len(SubSeq(s, m, n)) = n - m + 1
         /\ \A i \in 1 .. n - m + 1 : SubSeq(s, m, n)[i] = s[m + i - 1]
<1>1. PICK S : s \in Seq(S)
  BY ListsAreSeqs
<1>2. Len(s) \in Nat
  BY DEF IsList
<1>3. m \in Int /\ n \in Int
  BY <1>2
<1>4. \A i \in m .. n : s[i] \in S
  BY <1>1, <1>2, ElementOfSeq
<1>5. /\ SubSeq(s, m, n) \in Seq(S)
      /\ Len(SubSeq(s, m, n)) = IF m <= n THEN n - m + 1 ELSE 0
      /\ \A i \in 1 .. n - m + 1 : SubSeq(s, m, n)[i] = s[m + i - 1]
  BY <1>3, <1>4, SubSeqProperties
<1>6. Len(SubSeq(s, m, n)) = n - m + 1
  BY <1>2, <1>5
<1> QED
  BY <1>5, <1>6, SeqIsList

\* Taking one entry out.
LEMMA RemoveList ==
  ASSUME NEW s, IsList(s), NEW k \in 1 .. Len(s)
  PROVE  /\ IsList(RemoveAt(s, k)) /\ Len(RemoveAt(s, k)) = Len(s) - 1
         /\ \A i \in 1 .. k - 1 : RemoveAt(s, k)[i] = s[i]
         /\ \A i \in k .. Len(s) - 1 : RemoveAt(s, k)[i] = s[i + 1]
<1> DEFINE a == SubSeq(s, 1, k - 1)
           b == SubSeq(s, k + 1, Len(s))
<1>0. Len(s) \in Nat
  BY DEF IsList
<1>1. IsList(a) /\ Len(a) = k - 1 /\ \A i \in 1 .. k - 1 : a[i] = s[i]
  <2>1. 1 \in 1 .. Len(s) + 1 /\ k - 1 \in 1 - 1 .. Len(s)
    BY <1>0
  <2>2. /\ IsList(a) /\ Len(a) = k - 1 - 1 + 1
        /\ \A i \in 1 .. k - 1 - 1 + 1 : a[i] = s[1 + i - 1]
    BY <2>1, SubList
  <2> HIDE DEF a
  <2> QED
    BY <1>0, <2>2
<1>2. IsList(b) /\ Len(b) = Len(s) - k /\ \A i \in 1 .. Len(s) - k : b[i] = s[k + i]
  <2>1. k + 1 \in 1 .. Len(s) + 1 /\ Len(s) \in (k + 1) - 1 .. Len(s)
    BY <1>0
  <2>2. /\ IsList(b) /\ Len(b) = Len(s) - (k + 1) + 1
        /\ \A i \in 1 .. Len(s) - (k + 1) + 1 : b[i] = s[(k + 1) + i - 1]
    BY <2>1, SubList
  <2> HIDE DEF b
  <2> QED
    BY <1>0, <2>2
<1>3. RemoveAt(s, k) = a \o b
  BY DEF RemoveAt
<1> HIDE DEF a, b
<1>4. /\ IsList(a \o b) /\ Len(a \o b) = Len(a) + Len(b)
      /\ \A i \in 1 .. Len(a) : (a \o b)[i] = a[i]
      /\ \A i \in 1 .. Len(b) : (a \o b)[Len(a) + i] = b[i]
  <2>1. IsList(a) /\ IsList(b)
    BY <1>1, <1>2
  <2> QED
    BY <2>1, ConcatList
<1>5. ASSUME NEW i \in k .. Len(s) - 1 PROVE (a \o b)[i] = s[i + 1]
  <2> DEFINE j == i - k + 1
  <2>1. j \in 1 .. Len(b) /\ Len(a) + j = i /\ k + j = i + 1 /\ j \in 1 .. Len(s) - k
    BY <1>0, <1>1, <1>2
  <2> HIDE DEF j
  <2>2. (a \o b)[i] = b[j] /\ b[j] = s[i + 1]
    BY <1>2, <1>4, <2>1
  <2> QED
    BY <2>2
<1>6. Len(a \o b) = Len(s) - 1
  BY <1>0, <1>1, <1>2, <1>4
<1>7. \A i \in 1 .. k - 1 : (a \o b)[i] = s[i]
  BY <1>1, <1>4
<1> QED
  BY <1>3, <1>4, <1>5, <1>6, <1>7

-----------------------------------------------------------------------------
(* Searching *)

\* The smallest of a set of places is one of them.
LEMMA MinOf ==
  ASSUME NEW n \in Nat, NEW I \in SUBSET (1 .. n), I # {}
  PROVE  Min(I) \in I /\ \A y \in I : Min(I) <= y
<1>1. I \in SUBSET Nat
  OBVIOUS
<1>2. \E x \in I : \A y \in I : x <= y
  BY <1>1, Least
<1> QED
  BY <1>2 DEF Min

\* The largest of a set of places is one of them.
LEMMA MaxOf ==
  ASSUME NEW n \in Nat, NEW I \in SUBSET (1 .. n), I # {}
  PROVE  Max(I) \in I /\ \A y \in I : y <= Max(I)
<1> DEFINE J == {n - x : x \in I}
<1>1. J \in SUBSET Nat /\ J # {}
  <2>1. ASSUME NEW x \in I PROVE n - x \in Nat
    <3>1. x \in 1 .. n
      OBVIOUS
    <3> QED
      BY <3>1
  <2> QED
    BY <2>1
<1>2. PICK z \in J : \A y \in J : z <= y
  BY <1>1, Least
<1>3. PICK x \in I : z = n - x
  OBVIOUS
<1>4. ASSUME NEW y \in I PROVE x >= y
  <2>1. n - y \in J
    OBVIOUS
  <2>2. n - x <= n - y
    BY <1>2, <1>3, <2>1
  <2>3. x \in Nat /\ y \in Nat
    OBVIOUS
  <2> QED
    BY <2>2, <2>3
<1>5. Max(I) \in I /\ \A y \in I : Max(I) >= y
  BY <1>4 DEF Max
<1>6. \A y \in I : y \in Nat
  OBVIOUS
<1> QED
  BY <1>5, <1>6

\* carlfw_find_entry() finds the first one.
LEMMA FoundEntry ==
  ASSUME NEW descs, IsList(descs), NEW magic
  PROVE  /\ find_entry(descs, magic) = 0 =>
              \A j \in 1 .. Len(descs) : ~carl9170fw_desc_cmp(descs[j], magic)
         /\ find_entry(descs, magic) # 0 =>
              /\ find_entry(descs, magic) \in 1 .. Len(descs)
              /\ carl9170fw_desc_cmp(descs[find_entry(descs, magic)], magic)
              /\ \A j \in 1 .. Len(descs) :
                   carl9170fw_desc_cmp(descs[j], magic) => find_entry(descs, magic) <= j
<1> DEFINE I == {i \in 1 .. Len(descs) : carl9170fw_desc_cmp(descs[i], magic)}
<1>1. find_entry(descs, magic) = IF I # {} THEN Min(I) ELSE 0
  BY DEF find_entry, SelectInSeq
<1>2. Len(descs) \in Nat
  BY DEF IsList
<1>3. CASE I = {}
  BY <1>1, <1>3
<1>4. CASE I # {}
  <2>1. I \in SUBSET (1 .. Len(descs))
    OBVIOUS
  <2> HIDE DEF I
  <2>2. Min(I) \in I /\ \A y \in I : Min(I) <= y
    BY <1>2, <1>4, <2>1, MinOf
  <2>3. find_entry(descs, magic) \in I /\ \A y \in I : find_entry(descs, magic) <= y
    BY <1>1, <1>4, <2>2
  <2>4. find_entry(descs, magic) # 0
    BY <1>2, <2>1, <2>3
  <2> QED
    BY <2>3, <2>4 DEF I
<1> QED
  BY <1>3, <1>4

\* __carlfw_find_desc() finds the last one, if it is any good.
LEMMA FoundLast ==
  ASSUME NEW f, IsList(f), NEW magic, Find(f, magic) # 0
  PROVE  /\ Find(f, magic) \in 2 .. Len(f)
         /\ carl9170fw_desc_cmp(f[Find(f, magic)], magic)
         /\ \A j \in 1 .. Len(f) : f[j].magic = magic => j <= Find(f, magic)
<1> DEFINE I == {i \in 1 .. Len(f) : f[i].magic = magic}
           k == IF I # {} THEN Max(I) ELSE 0
<1>1. Find(f, magic) = IF k > 1 /\ carl9170fw_desc_cmp(f[k], magic) THEN k ELSE 0
  BY DEF Find, SelectLastInSeq
<1>2. Len(f) \in Nat
  BY DEF IsList
<1>3. k > 1 /\ carl9170fw_desc_cmp(f[k], magic) /\ Find(f, magic) = k
  BY <1>1
<1>4. I # {}
  BY <1>3
<1>5. I \in SUBSET (1 .. Len(f))
  OBVIOUS
<1>6. Max(I) \in I /\ \A y \in I : y <= Max(I)
  <2> HIDE DEF I
  <2> QED
    BY <1>2, <1>4, <1>5, MaxOf
<1>7. k = Max(I)
  BY <1>4
<1>8. k \in 1 .. Len(f) /\ k > 1
  BY <1>3, <1>5, <1>6, <1>7
<1>9. k \in 2 .. Len(f)
  BY <1>2, <1>8
<1> QED
  BY <1>3, <1>6, <1>7, <1>9

\* It finds a good descriptor behind which there is no other.
LEMMA FindsLast ==
  ASSUME NEW f, IsList(f), NEW magic, NEW k \in 2 .. Len(f),
         carl9170fw_desc_cmp(f[k], magic),
         \A j \in 1 .. Len(f) : f[j].magic = magic => j <= k
  PROVE  Find(f, magic) = k
<1> DEFINE I == {i \in 1 .. Len(f) : f[i].magic = magic}
<1>1. Len(f) \in Nat
  BY DEF IsList
<1>2. f[k].magic = magic
  BY DEF carl9170fw_desc_cmp
<1>3. k \in I /\ I \in SUBSET (1 .. Len(f)) /\ \A y \in I : y <= k
  BY <1>1, <1>2
<1>4. Max(I) = k
  <2> HIDE DEF I
  <2>1. Max(I) \in I /\ \A y \in I : y <= Max(I)
    BY <1>1, <1>3, MaxOf
  <2>2. k <= Max(I) /\ Max(I) <= k /\ Max(I) \in 1 .. Len(f)
    BY <1>3, <2>1
  <2> QED
    BY <1>1, <2>2
<1>5. SelectLastInSeq(f, LAMBDA d : d.magic = magic) = k
  BY <1>3, <1>4 DEF SelectLastInSeq
<1> QED
  BY <1>1, <1>5 DEF Find

\* Where carl9170fw_for_each_hdr() stops.
Ends(d) == ~IsDesc(d) \/ d.magic = "LAST" \/ d.length < HeadLen \/ d.length >= MaxLen

\* The descriptors read are those from the head up to the first end.
LEMMA ParsedList ==
  ASSUME NEW f, IsList(f), NEW o \in 1 .. Len(f), NEW e \in o .. Len(f), Ends(f[e])
  PROVE  \E n \in 0 .. e - o :
           /\ IsList(carlfw_parse_descs(f, o)) /\ Len(carlfw_parse_descs(f, o)) = n
           /\ \A j \in 1 .. n : carlfw_parse_descs(f, o)[j] = f[o + j - 1] /\ ~Ends(f[o + j - 1])
           /\ Ends(f[o + n])
<1> DEFINE rest == SubSeq(f, o, Len(f))
           I    == {i \in 1 .. Len(rest) : Ends(rest[i])}
           k    == Min(I)
<1>1. Len(f) \in Nat /\ o \in Nat /\ e \in Nat
  BY DEF IsList
<1>2. /\ IsList(rest) /\ Len(rest) = Len(f) - o + 1
      /\ \A i \in 1 .. Len(f) - o + 1 : rest[i] = f[o + i - 1]
  <2>1. o \in 1 .. Len(f) + 1 /\ Len(f) \in o - 1 .. Len(f)
    BY <1>1
  <2> QED
    BY <2>1, SubList
<1>3. carlfw_parse_descs(f, o) = SubSeq(rest, 1, (IF I # {} THEN Min(I) ELSE 0) - 1)
  BY DEF carlfw_parse_descs, SelectInSeq, Ends
<1> HIDE DEF rest
<1>4. e - o + 1 \in I /\ I \in SUBSET (1 .. Len(rest)) /\ Len(rest) \in Nat
  <2> DEFINE j == e - o + 1
  <2>1. j \in 1 .. Len(f) - o + 1 /\ o + j - 1 = e /\ j \in 1 .. Len(rest)
    BY <1>1, <1>2
  <2> HIDE DEF j
  <2>2. rest[j] = f[e]
    BY <1>2, <2>1
  <2>3. j \in I
    BY <2>1, <2>2
  <2> QED
    BY <1>1, <1>2, <2>3 DEF j
<1>5. k \in I /\ \A y \in I : k <= y
  <2> HIDE DEF I
  <2>1. I # {}
    BY <1>4
  <2> QED
    BY <1>4, <2>1, MinOf
<1>6. k \in 1 .. Len(rest) /\ Ends(rest[k]) /\ k <= e - o + 1
  BY <1>4, <1>5
<1>7. carlfw_parse_descs(f, o) = SubSeq(rest, 1, k - 1)
  BY <1>3, <1>4
<1> HIDE DEF k, I
<1>8. \A j \in 1 .. k - 1 : ~Ends(rest[j])
  <2> SUFFICES ASSUME NEW j \in 1 .. k - 1, Ends(rest[j]) PROVE FALSE
    OBVIOUS
  <2>1. j \in 1 .. Len(rest) /\ ~(k <= j)
    BY <1>4, <1>6
  <2>2. j \in I
    BY <2>1 DEF I
  <2> QED
    BY <1>5, <2>1, <2>2
<1>9. /\ IsList(SubSeq(rest, 1, k - 1)) /\ Len(SubSeq(rest, 1, k - 1)) = k - 1
      /\ \A j \in 1 .. k - 1 : SubSeq(rest, 1, k - 1)[j] = rest[j]
  <2>1. 1 \in 1 .. Len(rest) + 1 /\ k - 1 \in 1 - 1 .. Len(rest)
    BY <1>4, <1>6
  <2>2. /\ IsList(SubSeq(rest, 1, k - 1)) /\ Len(SubSeq(rest, 1, k - 1)) = (k - 1) - 1 + 1
        /\ \A j \in 1 .. (k - 1) - 1 + 1 : SubSeq(rest, 1, k - 1)[j] = rest[1 + j - 1]
    BY <1>2, <2>1, SubList
  <2>3. (k - 1) - 1 + 1 = k - 1 /\ \A j \in 1 .. k - 1 : 1 + j - 1 = j
    BY <1>4, <1>6
  <2> QED
    BY <2>2, <2>3
<1> DEFINE n == k - 1
<1>10. n \in 0 .. e - o /\ n + 1 = k /\ o + n = o + k - 1
  BY <1>1, <1>4, <1>6
<1>11. \A j \in 1 .. k : rest[j] = f[o + j - 1]
  BY <1>1, <1>2, <1>4, <1>6
<1>12. k \in 1 .. k
  BY <1>4, <1>6
<1>13. Ends(f[o + n])
  BY <1>6, <1>10, <1>11, <1>12
<1>14. \A j \in 1 .. n : rest[j] = f[o + j - 1] /\ ~Ends(rest[j])
  BY <1>4, <1>6, <1>8, <1>11
<1>15. /\ IsList(carlfw_parse_descs(f, o)) /\ Len(carlfw_parse_descs(f, o)) = n
       /\ \A j \in 1 .. n : carlfw_parse_descs(f, o)[j] = rest[j]
  BY <1>7, <1>9
<1> HIDE DEF n
<1> QED
  BY <1>10, <1>13, <1>14, <1>15

-----------------------------------------------------------------------------
(* The lengths of the descriptors, added up *)

Lengthy(descs) == IsList(descs) /\ \A i \in 1 .. Len(descs) : descs[i].length \in Nat

\* s adds up the lengths from the first descriptor on.
AddsUp(descs, s) == s[0] = 0 /\ \A i \in 1 .. Len(descs) : s[i] = s[i - 1] + descs[i].length

\* The sums exist.
LEMMA TotalSteps ==
  ASSUME NEW descs, Lengthy(descs)
  PROVE  \E s \in [0 .. Len(descs) -> Nat] : AddsUp(descs, s) /\ TotalLength(descs) = s[Len(descs)]
<1> DEFINE last == Len(descs)
           L == [i \in 1 .. last |-> descs[i].length]
           Adds(n, g) == g[0] = 0 /\ \A i \in 1 .. n : g[i] = g[i - 1] + L[i]
           S == {n \in Nat : n <= last => \E g \in [0 .. n -> Nat] : Adds(n, g)}
           Def(f) == f = [i \in 0 .. Len(descs) |-> IF i = 0 THEN 0 ELSE f[i - 1] + descs[i].length]
           w == CHOOSE f : Def(f)
<1>1. last \in Nat /\ last = Len(descs)
  BY DEF Lengthy, IsList
<1>2. L \in [1 .. last -> Nat] /\ \A i \in 1 .. last : L[i] = descs[i].length
  BY DEF Lengthy
<1>3. \A n \in Nat : n \in S
  <2> HIDE DEF L, last
  <2>1. 0 \in S
    <3> DEFINE g == [i \in 0 .. 0 |-> 0]
    <3>1. g \in [0 .. 0 -> Nat] /\ Adds(0, g)
      OBVIOUS
    <3> HIDE DEF g, Adds
    <3> QED
      BY <3>1
  <2>2. ASSUME NEW n \in Nat, n \in S PROVE n + 1 \in S
    <3>1. ASSUME n + 1 <= last
          PROVE  \E g \in [0 .. n + 1 -> Nat] : Adds(n + 1, g)
      <4>1. PICK g \in [0 .. n -> Nat] : Adds(n, g)
        BY <1>1, <2>2, <3>1
      <4>2. g[n] + L[n + 1] \in Nat
        <5>1. g[n] \in Nat /\ L[n + 1] \in Nat
          BY <1>1, <1>2, <3>1
        <5> QED
          BY <5>1
      <4> DEFINE h == [i \in 0 .. n + 1 |-> IF i = n + 1 THEN g[n] + L[n + 1] ELSE g[i]]
      <4>3. h \in [0 .. n + 1 -> Nat]
        BY <4>2
      <4>4. ASSUME NEW i \in 1 .. n + 1 PROVE h[i] = h[i - 1] + L[i]
        <5>1. i - 1 \in 0 .. n /\ h[i - 1] = g[i - 1]
          OBVIOUS
        <5>2. CASE i = n + 1
          BY <5>1, <5>2
        <5>3. CASE i \in 1 .. n
          BY <4>1, <5>1, <5>3
        <5> QED
          BY <5>2, <5>3
      <4>5. h[0] = 0
        BY <4>1
      <4>6. Adds(n + 1, h)
        BY <4>4, <4>5
      <4> HIDE DEF h, Adds
      <4> QED
        BY <4>3, <4>6
    <3> HIDE DEF Adds
    <3> QED
      BY <3>1
  <2> HIDE DEF S
  <2> QED
    BY <2>1, <2>2, Induct
<1>4. PICK g \in [0 .. last -> Nat] : Adds(last, g)
  <2> HIDE DEF Adds, last
  <2>1. last \in S /\ last <= last
    BY <1>1, <1>3
  <2> QED
    BY <2>1
<1>5. Def(g)
  <2>1. g = [i \in 0 .. Len(descs) |-> g[i]]
    BY <1>1
  <2>2. ASSUME NEW i \in 0 .. Len(descs)
        PROVE g[i] = IF i = 0 THEN 0 ELSE g[i - 1] + descs[i].length
    BY <1>1, <1>2, <1>4
  <2> QED
    BY <2>1, <2>2
<1>6. TotalLength(descs) = w[Len(descs)]
  BY DEF TotalLength
<1>7. Def(w)
  <2> HIDE DEF Def
  <2> QED
    BY <1>5
<1>8. \A i \in 0 .. last : w[i] = IF i = 0 THEN 0 ELSE w[i - 1] + descs[i].length
  <2> HIDE DEF w
  <2> QED
    BY <1>7
<1> HIDE DEF w, Def
<1> DEFINE T == {n \in Nat : n <= last => w[n] = g[n]}
<1>9. \A n \in Nat : n \in T
  <2>1. 0 \in T
    BY <1>1, <1>4, <1>8
  <2>2. ASSUME NEW n \in Nat, n \in T PROVE n + 1 \in T
    <3> SUFFICES ASSUME n + 1 <= last PROVE w[n + 1] = g[n + 1]
      OBVIOUS
    <3> DEFINE k == n + 1
    <3>1. k \in 1 .. last /\ k # 0 /\ k - 1 = n /\ n <= last /\ k \in 0 .. last
      BY <1>1
    <3>2. w[n] = g[n]
      BY <2>2, <3>1
    <3> HIDE DEF k, last
    <3>3. g[k] = g[n] + L[k] /\ L[k] = descs[k].length
      BY <1>2, <1>4, <3>1
    <3>4. w[k] = w[n] + descs[k].length
      BY <1>8, <3>1
    <3> QED
      BY <3>2, <3>3, <3>4 DEF k
  <2> HIDE DEF T
  <2> QED
    BY <2>1, <2>2, Induct
<1>10. w[last] = g[last]
  BY <1>1, <1>9
<1>11. AddsUp(descs, g)
  BY <1>1, <1>2, <1>4 DEF AddsUp
<1> QED
  BY <1>6, <1>10, <1>11

\* Any sums of the lengths end in the same number.
LEMMA TotalIs ==
  ASSUME NEW descs, Lengthy(descs), NEW t, AddsUp(descs, t)
  PROVE  TotalLength(descs) = t[Len(descs)]
<1> DEFINE last == Len(descs)
           T == {n \in Nat : n <= last => \A s \in [0 .. last -> Nat] : AddsUp(descs, s) => t[n] = s[n]}
<1>1. last \in Nat
  BY DEF Lengthy, IsList
<1>2. 0 \in T
  BY DEF AddsUp
<1>3. ASSUME NEW n \in Nat, n \in T PROVE n + 1 \in T
  <2> SUFFICES ASSUME n + 1 <= last, NEW s \in [0 .. last -> Nat], AddsUp(descs, s)
               PROVE  t[n + 1] = s[n + 1]
    OBVIOUS
  <2> DEFINE k == n + 1
  <2>1. k \in 1 .. last /\ k - 1 = n /\ n <= last
    BY <1>1
  <2>2. t[n] = s[n]
    BY <1>3, <2>1
  <2> HIDE DEF k
  <2>3. t[k] = t[n] + descs[k].length /\ s[k] = s[n] + descs[k].length
    BY <2>1 DEF AddsUp
  <2> QED
    BY <2>2, <2>3 DEF k
<1>4. \A n \in Nat : n \in T
  <2> HIDE DEF T
  <2> QED
    BY <1>2, <1>3, Induct
<1>5. PICK s \in [0 .. last -> Nat] : AddsUp(descs, s) /\ TotalLength(descs) = s[last]
  BY TotalSteps
<1> QED
  BY <1>1, <1>4, <1>5

\* One descriptor more.
LEMMA TotalAppend ==
  ASSUME NEW descs, Lengthy(descs), NEW d, d.length \in Nat
  PROVE  /\ Lengthy(Append(descs, d))
         /\ TotalLength(Append(descs, d)) = TotalLength(descs) + d.length
<1> DEFINE n == Len(descs)
           e == Append(descs, d)
<1>1. n \in Nat /\ IsList(descs)
  BY DEF Lengthy, IsList
<1>2. IsList(e) /\ Len(e) = n + 1 /\ (\A i \in 1 .. n : e[i] = descs[i]) /\ e[n + 1] = d
  BY <1>1, AppendList
<1>3. \A i \in 1 .. n : descs[i].length \in Nat
  BY DEF Lengthy
<1> HIDE DEF e
<1>4. PICK s \in [0 .. n -> Nat] : AddsUp(descs, s) /\ TotalLength(descs) = s[n]
  BY TotalSteps
<1>5. s[0] = 0 /\ \A i \in 1 .. n : s[i] = s[i - 1] + descs[i].length
  BY <1>4 DEF AddsUp
<1> HIDE DEF n
<1> DEFINE t == [i \in 0 .. n + 1 |-> IF i = n + 1 THEN s[n] + d.length ELSE s[i]]
<1>6. ASSUME NEW i \in 1 .. n + 1 PROVE t[i] = t[i - 1] + e[i].length /\ e[i].length \in Nat
  <2>1. i - 1 \in 0 .. n + 1 /\ i - 1 # n + 1 /\ t[i - 1] = s[i - 1]
    BY <1>1
  <2>2. CASE i = n + 1
    <3>1. t[i] = s[n] + d.length /\ e[i] = d /\ i - 1 = n
      BY <1>1, <1>2, <2>2
    <3> QED
      BY <2>1, <3>1
  <2>3. CASE i # n + 1
    <3>1. i \in 1 .. n /\ t[i] = s[i] /\ e[i] = descs[i]
      BY <1>1, <1>2, <2>3
    <3> QED
      BY <1>3, <1>5, <2>1, <3>1
  <2> QED
    BY <2>2, <2>3
<1>7. t[0] = 0 /\ t[n + 1] = s[n] + d.length
  BY <1>1, <1>5
<1> HIDE DEF t
<1>8. AddsUp(e, t) /\ Lengthy(e)
  BY <1>2, <1>6, <1>7 DEF AddsUp, Lengthy
<1>9. TotalLength(e) = t[Len(e)]
  BY <1>8, TotalIs
<1>10. TotalLength(e) = TotalLength(descs) + d.length
  BY <1>2, <1>4, <1>7, <1>9
<1> QED
  BY <1>8, <1>10 DEF e

\* One descriptor less.
LEMMA TotalRemove ==
  ASSUME NEW descs, Lengthy(descs), NEW k \in 1 .. Len(descs)
  PROVE  /\ Lengthy(RemoveAt(descs, k))
         /\ TotalLength(RemoveAt(descs, k)) = TotalLength(descs) - descs[k].length
<1> DEFINE n == Len(descs)
           e == RemoveAt(descs, k)
<1>1. n \in Nat /\ IsList(descs) /\ k \in 1 .. n
  BY DEF Lengthy, IsList
<1>2. /\ IsList(e) /\ Len(e) = n - 1
      /\ \A i \in 1 .. k - 1 : e[i] = descs[i]
      /\ \A i \in k .. n - 1 : e[i] = descs[i + 1]
  BY <1>1, RemoveList
<1>3. \A i \in 1 .. n : descs[i].length \in Nat
  BY DEF Lengthy
<1> HIDE DEF e
<1>4. PICK s \in [0 .. n -> Nat] : AddsUp(descs, s) /\ TotalLength(descs) = s[n]
  BY TotalSteps
<1>5. s[0] = 0 /\ \A i \in 1 .. n : s[i] = s[i - 1] + descs[i].length
  BY <1>4 DEF AddsUp
<1> HIDE DEF n
<1> DEFINE c == descs[k].length
<1>6. c \in Nat /\ s[k] = s[k - 1] + c
  BY <1>1, <1>3, <1>5
<1> HIDE DEF c
<1> DEFINE t == [i \in 0 .. n - 1 |-> IF i < k THEN s[i] ELSE s[i + 1] - c]
<1>7. ASSUME NEW i \in 1 .. n - 1 PROVE t[i] = t[i - 1] + e[i].length /\ e[i].length \in Nat
  <2>0. i \in 0 .. n - 1 /\ i - 1 \in 0 .. n - 1
    BY <1>1
  <2>1. CASE i < k
    <3>1. i \in 1 .. k - 1 /\ i \in 1 .. n /\ i - 1 < k
      BY <1>1, <2>1
    <3>2. t[i] = s[i] /\ t[i - 1] = s[i - 1] /\ e[i] = descs[i]
      BY <1>2, <2>0, <2>1, <3>1
    <3> QED
      BY <1>3, <1>5, <3>1, <3>2
  <2>2. CASE i >= k
    <3> DEFINE j == i + 1
    <3>1. j \in 1 .. n /\ j - 1 = i /\ i \in k .. n - 1 /\ ~(i < k)
      BY <1>1, <2>2
    <3>2. s[j] = s[i] + descs[j].length /\ descs[j].length \in Nat /\ e[i] = descs[j]
      BY <1>2, <1>3, <1>5, <3>1
    <3>3. t[i] = s[j] - c
      BY <2>0, <3>1
    <3>4. s[i] \in Nat /\ s[j] \in Nat
      BY <1>1, <2>0, <3>1
    <3> HIDE DEF j
    <3>5. t[i - 1] = s[i] - c
      <4>1. CASE i = k
        <5>1. t[i - 1] = s[k - 1]
          BY <1>1, <2>0, <4>1
        <5>2. s[k - 1] \in Nat /\ s[k] \in Nat
          BY <1>1
        <5> QED
          BY <1>6, <4>1, <5>1, <5>2
      <4>2. CASE i # k
        <5>1. ~(i - 1 < k) /\ i - 1 + 1 = i
          BY <1>1, <2>2, <4>2
        <5> QED
          BY <2>0, <5>1
      <4> QED
        BY <4>1, <4>2
    <3> QED
      BY <1>6, <3>2, <3>3, <3>4, <3>5
  <2> QED
    BY <1>1, <2>1, <2>2
<1>8. t[0] = 0
  BY <1>1, <1>5
<1>9. t[n - 1] = s[n] - c
  <2>1. n - 1 \in 0 .. n - 1 /\ n - 1 + 1 = n
    BY <1>1
  <2>2. CASE k = n
    <3>1. t[n - 1] = s[k - 1]
      BY <1>1, <2>1, <2>2
    <3>2. s[k - 1] \in Nat /\ s[k] \in Nat
      BY <1>1
    <3> QED
      BY <1>6, <2>2, <3>1, <3>2
  <2>3. CASE k # n
    <3>1. ~(n - 1 < k)
      BY <1>1, <2>3
    <3> QED
      BY <2>1, <3>1
  <2> QED
    BY <2>2, <2>3
<1> HIDE DEF t
<1>10. AddsUp(e, t) /\ Lengthy(e)
  BY <1>2, <1>7, <1>8 DEF AddsUp, Lengthy
<1>11. TotalLength(e) = t[Len(e)]
  BY <1>10, TotalIs
<1>12. TotalLength(e) = TotalLength(descs) - c
  BY <1>2, <1>4, <1>9, <1>11
<1> QED
  BY <1>10, <1>12 DEF e, c

\* Descriptors of the same lengths.
LEMMA TotalSame ==
  ASSUME NEW descs, Lengthy(descs), NEW e, IsList(e), Len(e) = Len(descs),
         \A i \in 1 .. Len(descs) : e[i].length = descs[i].length
  PROVE  Lengthy(e) /\ TotalLength(e) = TotalLength(descs)
<1>1. PICK s \in [0 .. Len(descs) -> Nat] : AddsUp(descs, s) /\ TotalLength(descs) = s[Len(descs)]
  BY TotalSteps
<1>2. Lengthy(e) /\ AddsUp(e, s)
  BY <1>1 DEF Lengthy, AddsUp
<1> QED
  BY <1>1, <1>2, TotalIs

-----------------------------------------------------------------------------
(* The list without its checksum *)

\* The first entries of a list, place by place.
LEMMA PrefixList ==
  ASSUME NEW s, IsList(s), NEW n \in 0 .. Len(s)
  PROVE  /\ IsList(SubSeq(s, 1, n)) /\ Len(SubSeq(s, 1, n)) = n
         /\ \A i \in 1 .. n : SubSeq(s, 1, n)[i] = s[i]
<1>1. Len(s) \in Nat
  BY DEF IsList
<1>2. 1 \in 1 .. Len(s) + 1 /\ n \in 1 - 1 .. Len(s)
  BY <1>1
<1>3. /\ IsList(SubSeq(s, 1, n)) /\ Len(SubSeq(s, 1, n)) = n - 1 + 1
      /\ \A i \in 1 .. n - 1 + 1 : SubSeq(s, 1, n)[i] = s[1 + i - 1]
  BY <1>2, SubList
<1>4. n - 1 + 1 = n /\ \A i \in 1 .. n : 1 + i - 1 = i
  OBVIOUS
<1> QED
  BY <1>3, <1>4

\* All entries of a list are the list.
LEMMA PrefixAll ==
  ASSUME NEW s, IsList(s)
  PROVE  SubSeq(s, 1, Len(s)) = s
<1>1. Len(s) \in 0 .. Len(s)
  BY DEF IsList
<1>2. /\ IsList(SubSeq(s, 1, Len(s))) /\ Len(SubSeq(s, 1, Len(s))) = Len(s)
      /\ \A i \in 1 .. Len(s) : SubSeq(s, 1, Len(s))[i] = s[i]
  BY <1>1, PrefixList
<1> QED
  BY <1>2, SameLists

\* No entries of a list are the empty list.
LEMMA PrefixNone == \A s : SubSeq(s, 1, 0) = <<>>
BY SubSeqEmpty

\* A prefix grows by one entry.
LEMMA PrefixStep ==
  ASSUME NEW s, IsList(s), NEW n \in 1 .. Len(s)
  PROVE  SubSeq(s, 1, n) = Append(SubSeq(s, 1, n - 1), s[n])
<1> DEFINE a == SubSeq(s, 1, n)
           b == SubSeq(s, 1, n - 1)
<1>1. Len(s) \in Nat /\ n \in 0 .. Len(s) /\ n - 1 \in 0 .. Len(s)
  BY DEF IsList
<1>2. IsList(a) /\ Len(a) = n /\ \A i \in 1 .. n : a[i] = s[i]
  BY <1>1, PrefixList
<1>3. IsList(b) /\ Len(b) = n - 1 /\ \A i \in 1 .. n - 1 : b[i] = s[i]
  BY <1>1, PrefixList
<1> HIDE DEF a, b
<1>4. /\ IsList(Append(b, s[n])) /\ Len(Append(b, s[n])) = Len(b) + 1
      /\ \A i \in 1 .. Len(b) : Append(b, s[n])[i] = b[i]
      /\ Append(b, s[n])[Len(b) + 1] = s[n]
  BY <1>3, AppendList
<1>5. Len(b) + 1 = n /\ Len(b) = n - 1
  BY <1>1, <1>3
<1>6. ASSUME NEW i \in 1 .. n PROVE a[i] = Append(b, s[n])[i]
  <2>1. CASE i = n
    BY <1>2, <1>4, <1>5, <2>1
  <2>2. CASE i # n
    <3>1. i \in 1 .. n - 1
      BY <1>1, <2>2
    <3> QED
      BY <1>2, <1>3, <1>4, <1>5, <3>1
  <2> QED
    BY <2>1, <2>2
<1>7. Len(a) = Len(Append(b, s[n]))
  BY <1>2, <1>4, <1>5
<1>8. a = Append(b, s[n])
  BY <1>2, <1>4, <1>6, <1>7, SameLists
<1> QED
  BY <1>8 DEF a, b

\* Taking the last entry out leaves what was before it.
LEMMA RemoveLast ==
  ASSUME NEW s, IsList(s), NEW x
  PROVE  RemoveAt(Append(s, x), Len(s) + 1) = s
<1> DEFINE a == Append(s, x)
           n == Len(s) + 1
<1>1. Len(s) \in Nat /\ n \in Nat /\ n - 1 = Len(s)
  BY DEF IsList
<1>2. IsList(a) /\ Len(a) = n /\ \A i \in 1 .. Len(s) : a[i] = s[i]
  BY AppendList
<1> HIDE DEF a, n
<1>3. n \in 1 .. Len(a)
  BY <1>1, <1>2 DEF n
<1>4. /\ IsList(RemoveAt(a, n)) /\ Len(RemoveAt(a, n)) = Len(a) - 1
      /\ \A i \in 1 .. n - 1 : RemoveAt(a, n)[i] = a[i]
  BY <1>2, <1>3, RemoveList
<1>5. Len(RemoveAt(a, n)) = Len(s) /\ \A i \in 1 .. Len(s) : RemoveAt(a, n)[i] = s[i]
  BY <1>1, <1>2, <1>4
<1>6. RemoveAt(a, n) = s
  BY <1>4, <1>5, SameLists
<1> QED
  BY <1>6 DEF a, n

\* An entry that is added stays behind what is taken out.
LEMMA RemoveAppend ==
  ASSUME NEW s, IsList(s), NEW x, NEW k \in 1 .. Len(s)
  PROVE  RemoveAt(Append(s, x), k) = Append(RemoveAt(s, k), x)
<1> DEFINE n == Len(s)
           a == Append(s, x)
           r == RemoveAt(s, k)
           p == RemoveAt(a, k)
           q == Append(r, x)
<1>1. n \in Nat /\ k \in 1 .. n
  BY DEF IsList
<1>2. IsList(a) /\ Len(a) = n + 1 /\ (\A i \in 1 .. n : a[i] = s[i]) /\ a[n + 1] = x
  BY AppendList
<1>3. /\ IsList(r) /\ Len(r) = n - 1
      /\ \A i \in 1 .. k - 1 : r[i] = s[i]
      /\ \A i \in k .. n - 1 : r[i] = s[i + 1]
  BY RemoveList
<1>4. k \in 1 .. Len(a)
  BY <1>1, <1>2
<1> HIDE DEF a, r
<1>5. /\ IsList(p) /\ Len(p) = Len(a) - 1
      /\ \A i \in 1 .. k - 1 : p[i] = a[i]
      /\ \A i \in k .. Len(a) - 1 : p[i] = a[i + 1]
  BY <1>2, <1>4, RemoveList
<1>6. /\ IsList(q) /\ Len(q) = Len(r) + 1 /\ q[Len(r) + 1] = x
      /\ \A i \in 1 .. Len(r) : q[i] = r[i]
  BY <1>3, AppendList
<1> HIDE DEF p, q, n
<1>7. Len(p) = n /\ Len(q) = n /\ Len(a) - 1 = n /\ Len(r) = n - 1 /\ Len(r) + 1 = n
  BY <1>1, <1>2, <1>3, <1>5, <1>6
<1>8. ASSUME NEW i \in 1 .. n PROVE p[i] = q[i]
  <2>1. CASE i = n
    <3>1. i \in k .. n
      BY <1>1, <2>1
    <3>2. p[i] = a[n + 1]
      BY <1>5, <1>7, <2>1, <3>1
    <3> QED
      BY <1>2, <1>6, <1>7, <2>1, <3>2
  <2>2. CASE i # n /\ i < k
    <3>1. i \in 1 .. k - 1 /\ i \in 1 .. n - 1
      BY <1>1, <2>2
    <3> QED
      BY <1>2, <1>3, <1>5, <1>6, <1>7, <3>1
  <2>3. CASE i # n /\ ~(i < k)
    <3> DEFINE j == i + 1
    <3>1. i \in k .. n - 1 /\ i \in k .. n /\ j \in 1 .. n /\ i \in 1 .. n - 1
      BY <1>1, <2>3
    <3>2. p[i] = a[j] /\ q[i] = r[i] /\ r[i] = s[j]
      BY <1>3, <1>5, <1>6, <1>7, <3>1
    <3> HIDE DEF j
    <3> QED
      BY <1>2, <3>1, <3>2
  <2> QED
    BY <2>1, <2>2, <2>3
<1>9. p = q
  BY <1>5, <1>6, <1>7, <1>8, SameLists
<1> QED
  BY <1>9 DEF p, q, r, a

\* What a checksum goes over is the list without its only check, or all of it.
LEMMA UncheckedIs ==
  ASSUME NEW descs, IsList(descs), NEW k \in 0 .. Len(descs),
         \A j \in 1 .. Len(descs) : IsCheck(descs[j]) <=> j = k
  PROVE  Unchecked(descs) = IF k = 0 THEN descs ELSE RemoveAt(descs, k)
<1> DEFINE n == Len(descs)
           P(i) == SubSeq(descs, 1, i)
           g == [i \in 0 .. n |-> IF k = 0 \/ i < k THEN P(i) ELSE RemoveAt(P(i), k)]
           Def(f) == f = [i \in 0 .. Len(descs) |->
                            IF i = 0 THEN <<>>
                            ELSE IF IsCheck(descs[i]) THEN f[i - 1] ELSE Append(f[i - 1], descs[i])]
           w == CHOOSE f : Def(f)
<1>1. n \in Nat /\ n = Len(descs) /\ k \in 0 .. n
  BY DEF IsList
<1>2. \A i \in 0 .. n : IsList(P(i)) /\ Len(P(i)) = i
  BY PrefixList
<1>3. \A i \in 1 .. n : P(i) = Append(P(i - 1), descs[i])
  BY PrefixStep
<1>4. P(0) = <<>> /\ P(n) = descs
  BY PrefixNone, PrefixAll
<1> HIDE DEF P
<1>5. \A i \in 0 .. n : g[i] = IF k = 0 \/ i < k THEN P(i) ELSE RemoveAt(P(i), k)
  OBVIOUS
<1>6. ASSUME NEW i \in 1 .. n
      PROVE  g[i] = IF IsCheck(descs[i]) THEN g[i - 1] ELSE Append(g[i - 1], descs[i])
  <2> HIDE DEF g
  <2> DEFINE h == i - 1
             x == descs[i]
  <2>1. h \in 0 .. n /\ h + 1 = i /\ h = i - 1 /\ i \in 0 .. n
    BY <1>1
  <2>2. IsList(P(h)) /\ Len(P(h)) = h /\ P(i) = Append(P(h), x)
    BY <1>2, <1>3, <2>1
  <2>3. IsCheck(x) <=> i = k
    BY <1>1
  <2> HIDE DEF h, x
  <2>4. CASE k = 0 \/ i < k
    <3>1. (k = 0 \/ h < k) /\ i # k
      BY <1>1, <2>1, <2>4
    <3>2. g[i] = P(i) /\ g[h] = P(h)
      BY <1>5, <2>1, <2>4, <3>1
    <3> QED
      BY <2>1, <2>2, <2>3, <3>1, <3>2 DEF x
  <2>5. CASE k # 0 /\ i = k
    <3>1. h < k /\ ~(i < k) /\ k = Len(P(h)) + 1
      BY <1>1, <2>1, <2>2, <2>5
    <3>2. g[i] = RemoveAt(P(i), k) /\ g[h] = P(h)
      BY <1>5, <2>1, <2>5, <3>1
    <3>3. RemoveAt(Append(P(h), x), Len(P(h)) + 1) = P(h)
      BY <2>2, RemoveLast
    <3>4. g[i] = g[h]
      BY <2>2, <3>1, <3>2, <3>3
    <3> QED
      BY <2>1, <2>3, <2>5, <3>4 DEF x
  <2>6. CASE k # 0 /\ k < i
    <3>1. ~(h < k) /\ ~(i < k) /\ i # k /\ k \in 1 .. Len(P(h))
      BY <1>1, <2>1, <2>2, <2>6
    <3>2. g[i] = RemoveAt(P(i), k) /\ g[h] = RemoveAt(P(h), k)
      BY <1>5, <2>1, <2>6, <3>1
    <3>3. RemoveAt(Append(P(h), x), k) = Append(RemoveAt(P(h), k), x)
      BY <2>2, <3>1, RemoveAppend
    <3>4. g[i] = Append(g[h], x)
      BY <2>2, <3>2, <3>3
    <3> QED
      BY <2>1, <2>3, <3>1, <3>4 DEF x
  <2> QED
    BY <1>1, <2>4, <2>5, <2>6
<1>7. g[0] = <<>>
  <2>1. k = 0 \/ 0 < k
    BY <1>1
  <2> QED
    BY <1>1, <1>4, <1>5, <2>1
<1>8. Def(g)
  <2>1. g = [i \in 0 .. Len(descs) |-> g[i]]
    OBVIOUS
  <2> HIDE DEF g
  <2>2. ASSUME NEW i \in 0 .. Len(descs)
        PROVE  g[i] = IF i = 0 THEN <<>>
                      ELSE IF IsCheck(descs[i]) THEN g[i - 1] ELSE Append(g[i - 1], descs[i])
    <3>1. CASE i = 0
      BY <1>7, <3>1
    <3>2. CASE i # 0
      <4>1. i \in 1 .. n
        BY <1>1, <3>2
      <4> QED
        BY <1>6, <3>2, <4>1
    <3> QED
      BY <3>1, <3>2
  <2> QED
    BY <2>1, <2>2
<1>9. Unchecked(descs) = w[Len(descs)]
  BY DEF Unchecked
<1>10. Def(w)
  <2> HIDE DEF Def
  <2> QED
    BY <1>8
<1>11. \A i \in 0 .. n : w[i] = IF i = 0 THEN <<>>
                         ELSE IF IsCheck(descs[i]) THEN w[i - 1] ELSE Append(w[i - 1], descs[i])
  <2> HIDE DEF w
  <2> QED
    BY <1>10
<1> HIDE DEF w, Def, g
<1> DEFINE T == {i \in Nat : i <= n => w[i] = g[i]}
<1>12. \A i \in Nat : i \in T
  <2>1. 0 \in T
    BY <1>1, <1>7, <1>11
  <2>2. ASSUME NEW h \in Nat, h \in T PROVE h + 1 \in T
    <3> SUFFICES ASSUME h + 1 <= n PROVE w[h + 1] = g[h + 1]
      OBVIOUS
    <3> DEFINE i == h + 1
    <3>1. i \in 1 .. n /\ i # 0 /\ i - 1 = h /\ h <= n /\ i \in 0 .. n
      BY <1>1
    <3>2. w[h] = g[h]
      BY <2>2, <3>1
    <3> HIDE DEF i, n
    <3>3. g[i] = IF IsCheck(descs[i]) THEN g[h] ELSE Append(g[h], descs[i])
      BY <1>6, <3>1
    <3>4. w[i] = IF IsCheck(descs[i]) THEN w[h] ELSE Append(w[h], descs[i])
      BY <1>11, <3>1
    <3> QED
      BY <3>2, <3>3, <3>4 DEF i
  <2> HIDE DEF T
  <2> QED
    BY <2>1, <2>2, Induct
<1>13. w[n] = g[n]
  BY <1>1, <1>12
<1>14. g[n] = IF k = 0 THEN descs ELSE RemoveAt(descs, k)
  <2>1. n \in 0 .. n /\ (k # 0 => ~(n < k) \/ n = k) /\ ~(n < k)
    BY <1>1
  <2> QED
    BY <1>1, <1>4, <1>5, <2>1
<1> QED
  BY <1>9, <1>13, <1>14

\* What an entry more changes of struct carlfw.
LEMMA AddTail ==
  ASSUME NEW pc, NEW tool, NEW image, NEW descs, NEW entries, NEW len, NEW todo, NEW d
  PROVE  carlfw_desc_add_tail([pc |-> pc, tool |-> tool, image |-> image, descs |-> descs,
                               entries |-> entries, len |-> len, todo |-> todo], d)
         = [pc |-> pc, tool |-> tool, image |-> image, descs |-> Append(descs, d),
            entries |-> entries + 1, len |-> len + d.length, todo |-> todo]
<1> DEFINE p == [pc |-> pc, tool |-> tool, image |-> image, descs |-> descs,
                 entries |-> entries, len |-> len, todo |-> todo]
           a == Append(descs, d)
           e == entries + 1
           l == len + d.length
<1>1. p.descs = descs /\ p.entries = entries /\ p.len = len
  OBVIOUS
<1>2. carlfw_desc_add_tail(p, d) = [p EXCEPT !.descs = a, !.entries = e, !.len = l]
  BY <1>1 DEF carlfw_desc_add_tail
<1> HIDE DEF a, e, l
<1>3. [p EXCEPT !.descs = a, !.entries = e, !.len = l]
      = [pc |-> pc, tool |-> tool, image |-> image, descs |-> a, entries |-> e, len |-> l, todo |-> todo]
  <2> DEFINE p1 == [pc |-> pc, tool |-> tool, image |-> image, descs |-> a, entries |-> entries,
                    len |-> len, todo |-> todo]
             p2 == [pc |-> pc, tool |-> tool, image |-> image, descs |-> a, entries |-> e,
                    len |-> len, todo |-> todo]
             p3 == [pc |-> pc, tool |-> tool, image |-> image, descs |-> a, entries |-> e,
                    len |-> l, todo |-> todo]
  <2>1. [p EXCEPT !.descs = a] = p1
    OBVIOUS
  <2>2. [p1 EXCEPT !.entries = e] = p2
    OBVIOUS
  <2>3. [p2 EXCEPT !.len = l] = p3
    OBVIOUS
  <2>4. [p EXCEPT !.descs = a, !.entries = e, !.len = l]
        = [[[p EXCEPT !.descs = a] EXCEPT !.entries = e] EXCEPT !.len = l]
    OBVIOUS
  <2> QED
    BY <2>1, <2>2, <2>3, <2>4
<1> QED
  BY <1>2, <1>3 DEF a, e, l

\* Reading the list one entry after the other leaves all of it and counts it right.
LEMMA ReadList ==
  ASSUME NEW tool, NEW image, NEW descs, Lengthy(descs)
  PROVE  WithDescs([pc |-> "loaded", tool |-> tool, image |-> image, descs |-> <<>>,
                    entries |-> 0, len |-> 0, todo |-> <<>>], descs)
         = [pc |-> "loaded", tool |-> tool, image |-> image, descs |-> descs,
            entries |-> Len(descs), len |-> TotalLength(descs), todo |-> <<>>]
<1> DEFINE n == Len(descs)
           P(i) == SubSeq(descs, 1, i)
           from == [pc |-> "loaded", tool |-> tool, image |-> image, descs |-> <<>>,
                    entries |-> 0, len |-> 0, todo |-> <<>>]
           Def(f) == f = [i \in 0 .. Len(descs) |->
                            IF i = 0 THEN from ELSE carlfw_desc_add_tail(f[i - 1], descs[i])]
           w == CHOOSE f : Def(f)
<1>1. n \in Nat /\ n = Len(descs) /\ IsList(descs)
  BY DEF Lengthy, IsList
<1>2. PICK s \in [0 .. n -> Nat] : AddsUp(descs, s) /\ TotalLength(descs) = s[n]
  BY TotalSteps
<1>3. s[0] = 0 /\ \A i \in 1 .. n : s[i] = s[i - 1] + descs[i].length
  BY <1>2 DEF AddsUp
<1>4. \A i \in 1 .. n : P(i) = Append(P(i - 1), descs[i])
  BY <1>1, PrefixStep
<1>5. P(0) = <<>> /\ P(n) = descs
  BY <1>1, PrefixNone, PrefixAll
<1> HIDE DEF P
<1> DEFINE R(i) == [pc |-> "loaded", tool |-> tool, image |-> image, descs |-> P(i),
                    entries |-> i, len |-> s[i], todo |-> <<>>]
           g == [i \in 0 .. n |-> R(i)]
<1>6. ASSUME NEW i \in 1 .. n PROVE g[i] = carlfw_desc_add_tail(g[i - 1], descs[i])
  <2> DEFINE h == i - 1
             x == descs[i]
  <2>1. h \in 0 .. n /\ h + 1 = i /\ i \in 0 .. n
    BY <1>1
  <2>2. g[i] = R(i) /\ g[h] = R(h)
    BY <2>1
  <2>3. P(i) = Append(P(h), x) /\ s[i] = s[h] + x.length
    BY <1>3, <1>4
  <2> HIDE DEF g, h, x
  <2>4. carlfw_desc_add_tail(R(h), x) = R(i)
    <3>1. carlfw_desc_add_tail(R(h), x)
          = [pc |-> "loaded", tool |-> tool, image |-> image, descs |-> Append(P(h), x),
             entries |-> h + 1, len |-> s[h] + x.length, todo |-> <<>>]
      BY AddTail
    <3> QED
      BY <2>1, <2>3, <3>1
  <2> QED
    BY <2>2, <2>4 DEF h, x
<1>7. g[0] = from
  BY <1>1, <1>3, <1>5
<1>8. Def(g)
  <2>1. g = [i \in 0 .. Len(descs) |-> g[i]]
    OBVIOUS
  <2> HIDE DEF g, from
  <2>2. ASSUME NEW i \in 0 .. Len(descs)
        PROVE  g[i] = IF i = 0 THEN from ELSE carlfw_desc_add_tail(g[i - 1], descs[i])
    <3>1. CASE i = 0
      BY <1>7, <3>1
    <3>2. CASE i # 0
      <4>1. i \in 1 .. n
        BY <1>1, <3>2
      <4> QED
        BY <1>6, <3>2, <4>1
    <3> QED
      BY <3>1, <3>2
  <2> QED
    BY <2>1, <2>2
<1>9. WithDescs(from, descs) = w[Len(descs)]
  BY DEF WithDescs
<1>10. Def(w)
  <2> HIDE DEF Def
  <2> QED
    BY <1>8
<1> HIDE DEF from
<1>11. \A i \in 0 .. n : w[i] = IF i = 0 THEN from ELSE carlfw_desc_add_tail(w[i - 1], descs[i])
  <2> HIDE DEF w
  <2> QED
    BY <1>10
<1> HIDE DEF w, Def, g
<1> DEFINE T == {i \in Nat : i <= n => w[i] = g[i]}
<1>12. \A i \in Nat : i \in T
  <2>1. 0 \in T
    BY <1>1, <1>7, <1>11
  <2>2. ASSUME NEW h \in Nat, h \in T PROVE h + 1 \in T
    <3> SUFFICES ASSUME h + 1 <= n PROVE w[h + 1] = g[h + 1]
      OBVIOUS
    <3> DEFINE i == h + 1
    <3>1. i \in 1 .. n /\ i # 0 /\ i - 1 = h /\ h <= n /\ i \in 0 .. n
      BY <1>1
    <3>2. w[h] = g[h]
      BY <2>2, <3>1
    <3> HIDE DEF i, n
    <3>3. g[i] = carlfw_desc_add_tail(g[h], descs[i])
      BY <1>6, <3>1
    <3>4. w[i] = carlfw_desc_add_tail(w[h], descs[i])
      BY <1>11, <3>1
    <3> QED
      BY <3>2, <3>3, <3>4 DEF i
  <2> HIDE DEF T
  <2> QED
    BY <2>1, <2>2, Induct
<1>13. w[n] = g[n]
  BY <1>1, <1>12
<1>14. g[n] = R(n)
  <2>1. n \in 0 .. n
    BY <1>1
  <2> HIDE DEF R
  <2> QED
    BY <2>1 DEF g
<1>15. R(n) = [pc |-> "loaded", tool |-> tool, image |-> image, descs |-> descs,
               entries |-> Len(descs), len |-> TotalLength(descs), todo |-> <<>>]
  BY <1>1, <1>2, <1>5
<1>16. WithDescs(from, descs) = R(n)
  BY <1>9, <1>13, <1>14
<1> QED
  BY <1>15, <1>16 DEF from

-----------------------------------------------------------------------------
(* Cells *)

Magics == {"OTAR", "TXSQ", "MOTD", "DBG", "FIX", "CHK", "WOL", "LAST"}

\* The magics that are defined, their versions and sizes.
LEMMA Headers ==
  /\ DOMAIN Version = Magics
  /\ \A m \in Magics : /\ Version[m] \in Nat /\ Lowest[m] \in Nat /\ Lowest[m] <= Version[m]
                       /\ Size[m] \in Nat /\ Size[m] >= HeadLen /\ Size[m] < MaxLen
<1>1. DOMAIN Version = Magics
  BY DEF Version, Magics
<1>2. ASSUME NEW m \in Magics
      PROVE  /\ Version[m] \in Nat /\ Lowest[m] \in Nat /\ Lowest[m] <= Version[m]
             /\ Size[m] \in Nat /\ Size[m] >= HeadLen /\ Size[m] < MaxLen
  <2>1. Version[m] \in Nat /\ Lowest[m] \in Nat /\ Lowest[m] <= Version[m]
    BY DEF Version, Lowest, Magics
  <2>2. Size[m] \in Nat /\ Size[m] >= HeadLen /\ Size[m] < MaxLen
    BY DEF Size, Magics, HeadLen, MaxLen
  <2> QED
    BY <2>1, <2>2
<1> QED
  BY <1>1, <1>2

\* A descriptor is the one that is looked for if its magic says so and its length
\* is not damaged.
LEMMA Matches ==
  ASSUME NEW c, DescCell(c), NEW m \in Magics
  PROVE  carl9170fw_desc_cmp(c, m) <=> c.magic = m /\ c.length # 0
<1>1. /\ DOMAIN Version = Magics /\ Version[m] \in Nat /\ Lowest[m] \in Nat
      /\ Lowest[m] <= Version[m] /\ Size[m] \in Nat /\ Size[m] >= HeadLen
  BY Headers
<1>2. carl9170fw_desc_cmp(c, m) <=>
        c.magic = m /\ ~(c.cur < Version[m] \/ c.min > Version[m]) /\ c.length >= Size[m]
  BY DEF carl9170fw_desc_cmp, Incompatible
<1>3. c.length \in Nat
  BY DEF DescCell
<1>4. c.magic = m => c.cur = Version[m] /\ c.min = Lowest[m] /\ (c.length = 0 \/ c.length = Size[m])
  BY <1>1 DEF DescCell
<1>5. Size[m] # 0 /\ ~(0 >= Size[m])
  BY <1>1 DEF HeadLen
<1> QED
  BY <1>1, <1>2, <1>3, <1>4, <1>5

Body(m, body) ==
  /\ DOMAIN body \in {{"text"}, {"features", "miniboot"}, {"fw", "hdr"}}
  /\ m = "OTAR" => DOMAIN body = {"features", "miniboot"}
  /\ m = "CHK" => DOMAIN body = {"fw", "hdr"}
  /\ "miniboot" \in DOMAIN body => body.miniboot \in Nat

\* What a tool or the linker fills in is a descriptor.
LEMMA FilledIn ==
  ASSUME NEW m \in Magics, NEW body, Body(m, body)
  PROVE  /\ DescCell(Desc(m, body)) /\ Desc(m, body).magic = m
         /\ Desc(m, body).length = Size[m] /\ Desc(m, body).body = body
<1> DEFINE d == Desc(m, body)
<1>1. d = [magic |-> m, length |-> Size[m], min |-> Lowest[m], cur |-> Version[m], body |-> body]
  BY DEF Desc
<1>2. d.magic = m /\ d.length = Size[m] /\ d.min = Lowest[m] /\ d.cur = Version[m] /\ d.body = body
  BY <1>1
<1> HIDE DEF d
<1>3. DOMAIN Version = Magics /\ Size[m] \in Nat
  BY Headers
<1>4. DescCell(d)
  BY <1>1, <1>2, <1>3 DEF DescCell, Body
<1> QED
  BY <1>2, <1>4 DEF d

\* A text is the body of any descriptor but the head and the checksum.
LEMMA TextBody == \A t, m : m # "OTAR" /\ m # "CHK" => Body(m, [text |-> t])
BY DEF Body

\* Damage leaves code code and a descriptor a descriptor, if one without a name.
LEMMA DamagedCell ==
  ASSUME NEW c, Cell(c), NEW d \in Damaged(c)
  PROVE  /\ Cell(d) /\ (c.magic = "code" <=> d.magic = "code")
         /\ d.magic = c.magic \/ d.magic = "XXXX"
         /\ d.magic = "CHK" => d.body = c.body \/ d.body.fw = <<>> \/ d.body.hdr = <<>>
<1>1. CASE c.magic = "code"
  <2>1. d = Code(Junk)
    BY <1>1 DEF Damaged, IsDesc
  <2>2. d.magic = "code"
    BY <2>1 DEF Code
  <2> QED
    BY <1>1, <2>2 DEF Cell
<1>2. CASE c.magic # "code"
  <2>0. DescCell(c)
    BY <1>2 DEF Cell
  <2>1. c = [magic |-> c.magic, length |-> c.length, min |-> c.min, cur |-> c.cur, body |-> c.body]
    BY <2>0 DEF DescCell
  <2>2. DOMAIN Version = Magics
    BY Headers
  <2>3. \/ d = [c EXCEPT !.magic = "XXXX"]
        \/ d = [c EXCEPT !.length = 0]
        \/ \E b \in BadBodies(c.body) : d = [c EXCEPT !.body = b]
    BY <1>2 DEF Damaged, IsDesc
  <2>4. "code" \notin Magics /\ "XXXX" \notin Magics
    BY DEF Magics
  <2>5. CASE d = [c EXCEPT !.magic = "XXXX"]
    <3>1. /\ d = [magic |-> "XXXX", length |-> c.length, min |-> c.min, cur |-> c.cur, body |-> c.body]
          /\ d.magic = "XXXX" /\ d.length = c.length /\ d.min = c.min /\ d.cur = c.cur /\ d.body = c.body
      BY <2>1, <2>5
    <3>2. DescCell(d)
      BY <2>0, <2>2, <2>4, <3>1 DEF DescCell
    <3> QED
      BY <1>2, <3>1, <3>2 DEF Cell
  <2>6. CASE d = [c EXCEPT !.length = 0]
    <3>1. /\ d = [magic |-> c.magic, length |-> 0, min |-> c.min, cur |-> c.cur, body |-> c.body]
          /\ d.magic = c.magic /\ d.length = 0 /\ d.min = c.min /\ d.cur = c.cur /\ d.body = c.body
      BY <2>1, <2>6
    <3>2. DescCell(d)
      BY <2>0, <3>1 DEF DescCell
    <3> QED
      BY <1>2, <3>1, <3>2 DEF Cell
  <2>7. ASSUME NEW b \in BadBodies(c.body), d = [c EXCEPT !.body = b]
        PROVE  /\ Cell(d) /\ (c.magic = "code" <=> d.magic = "code")
               /\ d.magic = c.magic \/ d.magic = "XXXX"
               /\ d.magic = "CHK" => d.body = c.body \/ d.body.fw = <<>> \/ d.body.hdr = <<>>
    <3> DEFINE o == c.body
    <3>1. DOMAIN o \in {{"text"}, {"features", "miniboot"}, {"fw", "hdr"}}
      BY <2>0 DEF DescCell
    <3>2. "miniboot" \in DOMAIN o => o.miniboot \in Nat
      BY <2>0 DEF DescCell
    <3> HIDE DEF o
    <3>3. /\ DOMAIN b = DOMAIN o
          /\ "miniboot" \in DOMAIN b => b.miniboot \in Nat
          /\ DOMAIN o = {"fw", "hdr"} => b.fw = <<>> \/ b.hdr = <<>>
      <4>1. CASE DOMAIN o = {"text"}
        <5>1. b = [o EXCEPT !.text = "bad"]
          BY <4>1 DEF BadBodies, o
        <5> QED
          BY <4>1, <5>1
      <4>2. CASE DOMAIN o = {"features", "miniboot"}
        <5>1. b = [o EXCEPT !.miniboot = o.miniboot + 1]
          BY <4>2 DEF BadBodies, o
        <5> QED
          BY <3>2, <4>2, <5>1
      <4>3. CASE DOMAIN o = {"fw", "hdr"}
        <5>1. b = [o EXCEPT !.fw = <<>>] \/ b = [o EXCEPT !.hdr = <<>>]
          BY <4>3 DEF BadBodies, o
        <5> QED
          BY <4>3, <5>1
      <4> QED
        BY <3>1, <4>1, <4>2, <4>3
    <3>4. /\ d = [magic |-> c.magic, length |-> c.length, min |-> c.min, cur |-> c.cur, body |-> b]
          /\ d.magic = c.magic /\ d.length = c.length /\ d.min = c.min /\ d.cur = c.cur /\ d.body = b
      BY <2>1, <2>7
    <3>5. DescCell(d)
      BY <2>0, <3>3, <3>4 DEF DescCell, o
    <3>6. c.magic = "CHK" => DOMAIN o = {"fw", "hdr"}
      BY <2>0 DEF DescCell, o
    <3> QED
      BY <1>2, <3>3, <3>4, <3>5, <3>6 DEF Cell
  <2> QED
    BY <2>3, <2>5, <2>6, <2>7
<1> QED
  BY <1>1, <1>2

-----------------------------------------------------------------------------
(* Files *)

AllCode(s) == IsList(s) /\ \A i \in 1 .. Len(s) : s[i].magic = "code"

\* Descriptors as they stand in a file.
Stretch(d) ==
  /\ IsList(d) /\ \A i \in 1 .. Len(d) : DescCell(d[i]) /\ d[i].magic # "code"
  /\ \A i \in 1 .. Len(d) : d[i].magic = "OTAR" => i = 1
  /\ \A i \in 1 .. Len(d) : d[i].magic = "LAST" => i = Len(d)
  /\ \A i, j \in 1 .. Len(d) : d[i].magic = "CHK" /\ d[j].magic = "CHK" => i = j

\* A descriptor is not code.
LEMMA NotCode ==
  ASSUME NEW c, DescCell(c)
  PROVE  c.magic # "code"
<1>1. c.magic \in Magics \cup {"XXXX"}
  BY Headers DEF DescCell
<1> QED
  BY <1>1 DEF Magics

\* Which part of a file a cell is from.
LEMMA Parts ==
  ASSUME NEW a, NEW d, NEW b, IsList(a), IsList(d), IsList(b)
  PROVE  /\ IsList(a \o d \o b) /\ Len(a \o d \o b) = Len(a) + Len(d) + Len(b)
         /\ \A i \in 1 .. Len(a) : (a \o d \o b)[i] = a[i]
         /\ \A i \in 1 .. Len(d) : (a \o d \o b)[Len(a) + i] = d[i]
         /\ \A i \in 1 .. Len(b) : (a \o d \o b)[Len(a) + Len(d) + i] = b[i]
<1> DEFINE e == a \o d
<1>0. Len(a) \in Nat /\ Len(d) \in Nat /\ Len(b) \in Nat
  BY DEF IsList
<1>1. /\ IsList(e) /\ Len(e) = Len(a) + Len(d)
      /\ \A i \in 1 .. Len(a) : e[i] = a[i]
      /\ \A i \in 1 .. Len(d) : e[Len(a) + i] = d[i]
  BY ConcatList
<1> HIDE DEF e
<1>2. /\ IsList(e \o b) /\ Len(e \o b) = Len(e) + Len(b)
      /\ \A i \in 1 .. Len(e) : (e \o b)[i] = e[i]
      /\ \A i \in 1 .. Len(b) : (e \o b)[Len(e) + i] = b[i]
  BY <1>1, ConcatList
<1>3. ASSUME NEW i \in 1 .. Len(a) PROVE (e \o b)[i] = a[i]
  <2>1. i \in 1 .. Len(e)
    BY <1>0, <1>1
  <2> QED
    BY <1>1, <1>2, <2>1
<1>4. ASSUME NEW i \in 1 .. Len(d) PROVE (e \o b)[Len(a) + i] = d[i]
  <2> DEFINE k == Len(a) + i
  <2>1. k \in 1 .. Len(e)
    BY <1>0, <1>1
  <2>2. e[k] = d[i]
    BY <1>1
  <2> HIDE DEF k
  <2>3. (e \o b)[k] = d[i]
    BY <1>2, <2>1, <2>2
  <2> QED
    BY <2>3 DEF k
<1>5. IsList(e \o b) /\ Len(e \o b) = Len(a) + Len(d) + Len(b)
  BY <1>1, <1>2
<1>6. \A i \in 1 .. Len(b) : (e \o b)[Len(a) + Len(d) + i] = b[i]
  BY <1>1, <1>2
<1> QED
  BY <1>3, <1>4, <1>5, <1>6 DEF e

\* Code, descriptors and code make a file.
LEMMA Assembled ==
  ASSUME NEW a, NEW d, NEW b, AllCode(a), Stretch(d), AllCode(b)
  PROVE  /\ Layout(a \o d \o b)
         /\ (\A i \in 1 .. Len(d) : d[i].magic = "CHK" => Genuine(d[i])) => ChecksGenuine(a \o d \o b)
<1> DEFINE f == a \o d \o b
           x == Len(a)
           y == Len(d)
           z == Len(b)
<1>1. x \in Nat /\ y \in Nat /\ z \in Nat /\ IsList(a) /\ IsList(d) /\ IsList(b)
  BY DEF AllCode, Stretch, IsList
<1>2. /\ IsList(f) /\ Len(f) = x + y + z
      /\ \A i \in 1 .. x : f[i] = a[i]
      /\ \A i \in 1 .. y : f[x + i] = d[i]
      /\ \A i \in 1 .. z : f[x + y + i] = b[i]
  <2>1. IsList(a) /\ IsList(d) /\ IsList(b)
    BY <1>1
  <2> QED
    BY <2>1, Parts
<1>3. (\A i \in 1 .. x : a[i].magic = "code") /\ \A i \in 1 .. z : b[i].magic = "code"
  BY DEF AllCode
<1>4. /\ \A i \in 1 .. y : DescCell(d[i]) /\ d[i].magic # "code"
      /\ \A i \in 1 .. y : d[i].magic = "OTAR" => i = 1
      /\ \A i \in 1 .. y : d[i].magic = "LAST" => i = y
      /\ \A i, j \in 1 .. y : d[i].magic = "CHK" /\ d[j].magic = "CHK" => i = j
  BY DEF Stretch
<1> HIDE DEF f, x, y, z
<1>5. ASSUME NEW i \in 1 .. Len(f), f[i].magic # "code"
      PROVE  i - x \in 1 .. y /\ f[i] = d[i - x]
  <2>1. i \notin 1 .. x
    BY <1>2, <1>3, <1>5
  <2>2. ~(i > x + y)
    <3> SUFFICES ASSUME i > x + y PROVE FALSE
      OBVIOUS
    <3> DEFINE j == i - x - y
    <3>1. j \in 1 .. z /\ x + y + j = i
      BY <1>1, <1>2
    <3> HIDE DEF j
    <3>2. f[i] = b[j]
      BY <1>2, <3>1
    <3> QED
      BY <1>3, <1>5, <3>1, <3>2
  <2> DEFINE j == i - x
  <2>3. j \in 1 .. y /\ x + j = i
    BY <1>1, <1>2, <2>1, <2>2
  <2> HIDE DEF j
  <2>4. f[i] = d[j]
    BY <1>2, <2>3
  <2> QED
    BY <2>3, <2>4 DEF j
<1>6. ASSUME NEW i \in 1 .. Len(f), i <= x \/ i > x + y
      PROVE  f[i].magic = "code"
  <2> SUFFICES ASSUME f[i].magic # "code" PROVE FALSE
    OBVIOUS
  <2>1. i - x \in 1 .. y
    BY <1>5
  <2> QED
    BY <1>1, <1>2, <1>6, <2>1
<1>7. ASSUME NEW i \in 1 .. Len(f) PROVE Cell(f[i])
  BY <1>4, <1>5 DEF Cell
<1>8. ASSUME NEW i \in 1 .. Len(f), NEW j \in 1 .. Len(f), f[i].magic = "OTAR", j < i
      PROVE  f[j].magic = "code"
  <2>1. i - x \in 1 .. y /\ f[i] = d[i - x]
    BY <1>5, <1>8
  <2>2. i - x = 1
    BY <1>4, <1>8, <2>1
  <2>3. j <= x
    BY <1>1, <1>2, <1>8, <2>2
  <2> QED
    BY <1>6, <2>3
<1>9. ASSUME NEW i \in 1 .. Len(f), NEW j \in 1 .. Len(f), f[i].magic = "LAST", i < j
      PROVE  f[j].magic = "code"
  <2>1. i - x \in 1 .. y /\ f[i] = d[i - x]
    BY <1>5, <1>9
  <2>2. i - x = y
    BY <1>4, <1>9, <2>1
  <2>3. j > x + y
    BY <1>1, <1>2, <1>9, <2>2
  <2> QED
    BY <1>6, <2>3
<1>10. ASSUME NEW i \in 1 .. Len(f), NEW j \in 1 .. Len(f), f[i].magic = "CHK", f[j].magic = "CHK"
       PROVE  i = j
  <2>1. i - x \in 1 .. y /\ f[i] = d[i - x]
    BY <1>5, <1>10
  <2>2. j - x \in 1 .. y /\ f[j] = d[j - x]
    BY <1>5, <1>10
  <2>3. i - x = j - x
    BY <1>4, <1>10, <2>1, <2>2
  <2> QED
    BY <1>1, <1>2, <2>3
<1>11. Layout(f)
  BY <1>2, <1>7, <1>8, <1>9, <1>10 DEF Layout
<1>12. ASSUME \A i \in 1 .. y : d[i].magic = "CHK" => Genuine(d[i])
       PROVE  ChecksGenuine(f)
  <2>1. ASSUME NEW i \in 1 .. Len(f), f[i].magic = "CHK" PROVE Genuine(f[i])
    <3>1. i - x \in 1 .. y /\ f[i] = d[i - x]
      BY <1>5, <2>1
    <3> QED
      BY <1>12, <2>1, <3>1
  <2> QED
    BY <2>1 DEF ChecksGenuine
<1> QED
  BY <1>11, <1>12 DEF f, y

-----------------------------------------------------------------------------
(* Loading *)

\* What carlfw_load() cuts a file into.
LEMMA LoadSplits ==
  ASSUME NEW f, Layout(f), carlfw_load(f).err = "none"
  PROVE  \E image, descs :
           /\ carlfw_load(f) = [err |-> "none", image |-> image, descs |-> descs]
           /\ ImageOK(image) /\ ListOK(descs) /\ CheckAccepts(image, descs)
           /\ \A j \in 1 .. Len(descs) : \E i \in 1 .. Len(f) : descs[j] = f[i]
<1> DEFINE head == Find(f, "OTAR")
           tail == Find(f, "LAST")
           descs == carlfw_parse_descs(f, head)
           before == SubSeq(f, 1, head - 1)
           behind == SubSeq(f, tail + 1, Len(f))
           image == before \o behind
<1>1. carlfw_load(f) = IF head = 0 \/ tail = 0 \/ head > tail THEN [err |-> "ENODATA"]
                       ELSE IF ~CheckAccepts(image, descs) THEN [err |-> "EINVAL"]
                       ELSE [err |-> "none", image |-> image, descs |-> descs]
  BY DEF carlfw_load
<1> HIDE DEF head, tail, descs, before, behind, image
<1>2. ~(head = 0 \/ tail = 0 \/ head > tail) /\ CheckAccepts(image, descs)
  <2>1. [err |-> "ENODATA"].err # "none" /\ [err |-> "EINVAL"].err # "none"
    OBVIOUS
  <2>2. carlfw_load(f) # [err |-> "ENODATA"] /\ carlfw_load(f) # [err |-> "EINVAL"]
    BY <2>1
  <2> QED
    BY <1>1, <2>2
<1>3. carlfw_load(f) = [err |-> "none", image |-> image, descs |-> descs]
  BY <1>1, <1>2
<1>3a. head # 0 /\ tail # 0 /\ ~(head > tail)
  BY <1>2
<1>4. IsList(f) /\ Len(f) \in Nat
  BY DEF Layout, IsList
<1>5. head \in 2 .. Len(f) /\ carl9170fw_desc_cmp(f[head], "OTAR")
      /\ \A j \in 1 .. Len(f) : f[j].magic = "OTAR" => j <= head
  BY <1>3a, <1>4, FoundLast DEF head
<1>6. tail \in 2 .. Len(f) /\ carl9170fw_desc_cmp(f[tail], "LAST")
  BY <1>3a, <1>4, FoundLast DEF tail
<1>7. head \in 1 .. Len(f) /\ tail \in 1 .. Len(f) /\ head <= tail /\ head \in Nat /\ tail \in Nat
  BY <1>3a, <1>4, <1>5, <1>6
<1>8. f[head].magic = "OTAR" /\ f[tail].magic = "LAST"
  BY <1>5, <1>6 DEF carl9170fw_desc_cmp
<1>9. Ends(f[tail])
  BY <1>8 DEF Ends
<1>10. ~Ends(f[head])
  <2>1. Cell(f[head]) /\ f[head].magic # "code"
    BY <1>7, <1>8 DEF Layout
  <2>2. DescCell(f[head]) /\ "OTAR" \in Magics
    BY <2>1 DEF Cell, Magics
  <2>3. f[head].length # 0
    BY <1>5, <2>2, Matches
  <2>4. f[head].length = Size["OTAR"]
    BY <1>8, <2>2, <2>3, Headers DEF DescCell
  <2>5. f[head].length >= HeadLen /\ f[head].length < MaxLen /\ f[head].length \in Nat
    BY <2>2, <2>4, Headers
  <2>6. ~(f[head].length < HeadLen) /\ ~(f[head].length >= MaxLen)
    BY <2>5 DEF HeadLen, MaxLen
  <2> QED
    BY <1>8, <2>6 DEF Ends, IsDesc
<1>11. PICK n \in 0 .. tail - head :
         /\ IsList(descs) /\ Len(descs) = n
         /\ \A j \in 1 .. n : descs[j] = f[head + j - 1] /\ ~Ends(f[head + j - 1])
         /\ Ends(f[head + n])
  <2>1. tail \in head .. Len(f)
    BY <1>7
  <2> QED
    BY <1>4, <1>7, <1>9, <2>1, ParsedList DEF descs
<1>12. n # 0 /\ n \in Nat
  <2> SUFFICES ASSUME n = 0 PROVE FALSE
    BY <1>7
  <2>1. head + n = head
    BY <1>7
  <2> QED
    BY <1>10, <1>11, <2>1
<1>13. ASSUME NEW j \in 1 .. n
       PROVE  /\ head + j - 1 \in 1 .. Len(f) /\ descs[j] = f[head + j - 1] /\ ~Ends(descs[j])
              /\ Cell(descs[j]) /\ DescCell(descs[j])
  <2>1. head + j - 1 \in 1 .. Len(f)
    BY <1>7, <1>11
  <2>2. descs[j] = f[head + j - 1] /\ ~Ends(descs[j])
    BY <1>11
  <2>3. Cell(descs[j])
    BY <2>1, <2>2 DEF Layout
  <2> QED
    BY <2>1, <2>2, <2>3 DEF Cell, Ends, IsDesc
<1>14. ListOK(descs)
  <2>1. descs # <<>>
    BY <1>11, <1>12, ListLen
  <2>2. ASSUME NEW j \in 1 .. n
        PROVE  /\ DescCell(descs[j]) /\ descs[j].magic # "LAST"
               /\ descs[j].length >= HeadLen /\ descs[j].length < MaxLen
               /\ descs[j].magic = "OTAR" <=> j = 1
    <3>1. DescCell(descs[j]) /\ ~Ends(descs[j]) /\ descs[j].length \in Nat
      BY <1>13 DEF DescCell
    <3>2. descs[j].magic # "LAST" /\ ~(descs[j].length < HeadLen) /\ ~(descs[j].length >= MaxLen)
      BY <3>1 DEF Ends
    <3>3. descs[j].length >= HeadLen /\ descs[j].length < MaxLen
      BY <3>1, <3>2 DEF HeadLen, MaxLen
    <3>4. descs[j].magic = "OTAR" => j = 1
      <4> SUFFICES ASSUME descs[j].magic = "OTAR" PROVE j = 1
        OBVIOUS
      <4>1. head + j - 1 \in 1 .. Len(f) /\ f[head + j - 1].magic = "OTAR"
        BY <1>13
      <4>2. head + j - 1 <= head
        BY <1>5, <4>1
      <4> QED
        BY <1>7, <1>11, <4>2
    <3>5. j = 1 => descs[j].magic = "OTAR"
      <4> SUFFICES ASSUME j = 1 PROVE descs[j].magic = "OTAR"
        OBVIOUS
      <4>1. head + j - 1 = head
        BY <1>7
      <4> QED
        BY <1>8, <1>13, <4>1
    <3> QED
      BY <3>1, <3>2, <3>3, <3>4, <3>5
  <2>3. ASSUME NEW i \in 1 .. n, NEW j \in 1 .. n, descs[i].magic = "CHK", descs[j].magic = "CHK"
        PROVE  i = j
    <3>1. head + i - 1 \in 1 .. Len(f) /\ f[head + i - 1].magic = "CHK"
      BY <1>13, <2>3
    <3>2. head + j - 1 \in 1 .. Len(f) /\ f[head + j - 1].magic = "CHK"
      BY <1>13, <2>3
    <3>3. head + i - 1 = head + j - 1
      BY <3>1, <3>2 DEF Layout
    <3> QED
      BY <1>7, <1>11, <3>3
  <2> QED
    BY <1>11, <2>1, <2>2, <2>3 DEF ListOK
<1>15. ImageOK(image)
  <2>1. IsList(before) /\ Len(before) = head - 1 /\ \A i \in 1 .. head - 1 : before[i] = f[i]
    <3>1. head - 1 \in 0 .. Len(f)
      BY <1>4, <1>7
    <3> QED
      BY <1>4, <3>1, PrefixList DEF before
  <2>2. IsList(behind) /\ Len(behind) = Len(f) - tail /\ \A i \in 1 .. Len(f) - tail : behind[i] = f[tail + i]
    <3>1. tail + 1 \in 1 .. Len(f) + 1 /\ Len(f) \in (tail + 1) - 1 .. Len(f)
      BY <1>4, <1>7
    <3>2. /\ IsList(behind) /\ Len(behind) = Len(f) - (tail + 1) + 1
          /\ \A i \in 1 .. Len(f) - (tail + 1) + 1 : behind[i] = f[(tail + 1) + i - 1]
      BY <1>4, <3>1, SubList DEF behind
    <3>3. Len(f) - (tail + 1) + 1 = Len(f) - tail /\ \A i \in 1 .. Len(f) - tail : (tail + 1) + i - 1 = tail + i
      BY <1>4, <1>7
    <3> QED
      BY <3>2, <3>3
  <2>3. \A i \in 1 .. head - 1 : f[i].magic = "code"
    <3>1. ASSUME NEW i \in 1 .. head - 1 PROVE f[i].magic = "code"
      <4>1. i \in 1 .. Len(f) /\ i < head
        BY <1>4, <1>7
      <4> QED
        BY <1>7, <1>8, <4>1 DEF Layout
    <3> QED
      BY <3>1
  <2>4. ASSUME NEW i \in 1 .. Len(f) - tail PROVE behind[i].magic = "code"
    <3> DEFINE k == tail + i
    <3>1. k \in 1 .. Len(f) /\ tail < k
      BY <1>4, <1>7
    <3>2. behind[i] = f[k]
      BY <2>2
    <3> HIDE DEF k
    <3>3. f[k].magic = "code"
      BY <1>7, <1>8, <3>1 DEF Layout
    <3> QED
      BY <3>2, <3>3
  <2>5. /\ IsList(before \o behind) /\ Len(before \o behind) = Len(before) + Len(behind)
        /\ \A i \in 1 .. Len(before) : (before \o behind)[i] = before[i]
        /\ \A i \in 1 .. Len(behind) : (before \o behind)[Len(before) + i] = behind[i]
    <3>1. IsList(before) /\ IsList(behind)
      BY <2>1, <2>2
    <3> QED
      BY <3>1, ConcatList
  <2>6. ASSUME NEW i \in 1 .. Len(before \o behind) PROVE (before \o behind)[i].magic = "code"
    <3>1. CASE i <= Len(before)
      <4>1. i \in 1 .. head - 1 /\ i \in 1 .. Len(before)
        BY <1>7, <2>1, <3>1
      <4> QED
        BY <2>1, <2>3, <2>5, <4>1
    <3>2. CASE ~(i <= Len(before))
      <4> DEFINE k == i - Len(before)
      <4>1. k \in 1 .. Len(behind) /\ Len(before) + k = i /\ k \in 1 .. Len(f) - tail
        BY <1>4, <1>7, <2>1, <2>2, <2>5, <3>2
      <4> HIDE DEF k
      <4> QED
        BY <2>4, <2>5, <4>1
    <3> QED
      BY <3>1, <3>2
  <2>7. Len(before \o behind) > 0
    <3>1. Len(before) >= 1 /\ Len(before) \in Nat /\ Len(behind) \in Nat
      BY <1>4, <1>5, <1>7, <2>1, <2>2
    <3> QED
      BY <2>5, <3>1
  <2>8. before \o behind # <<>>
    BY <2>5, <2>7, ListLen
  <2> QED
    BY <2>5, <2>6, <2>8 DEF ImageOK, image
<1>16. \A j \in 1 .. Len(descs) : \E i \in 1 .. Len(f) : descs[j] = f[i]
  BY <1>11, <1>13
<1> QED
  BY <1>2, <1>3, <1>14, <1>15, <1>16

-----------------------------------------------------------------------------
(* The list of descriptors in memory *)

NoCheck(descs) == \A i \in 1 .. Len(descs) : descs[i].magic # "CHK"

\* What a list of descriptors is as a list, and which of them are checksums.
LEMMA ListFacts ==
  ASSUME NEW descs, ListOK(descs)
  PROVE  /\ IsList(descs) /\ Len(descs) \in Nat /\ Len(descs) >= 1 /\ Lengthy(descs)
         /\ DOMAIN descs = 1 .. Len(descs)
         /\ \A i \in 1 .. Len(descs) : IsCheck(descs[i]) <=> descs[i].magic = "CHK"
<1>1. IsList(descs) /\ descs # <<>>
  BY DEF ListOK
<1>2. Len(descs) \in Nat /\ DOMAIN descs = 1 .. Len(descs) /\ Len(descs) > 0
  BY <1>1, ListLen
<1>3. ASSUME NEW i \in 1 .. Len(descs)
      PROVE  descs[i].length \in Nat /\ (IsCheck(descs[i]) <=> descs[i].magic = "CHK")
  <2>1. DescCell(descs[i]) /\ descs[i].length >= HeadLen /\ descs[i].length \in Nat
    BY DEF ListOK, DescCell
  <2>2. descs[i].length # 0
    BY <2>1 DEF HeadLen
  <2>3. carl9170fw_desc_cmp(descs[i], "CHK") <=> descs[i].magic = "CHK" /\ descs[i].length # 0
    <3>1. "CHK" \in Magics
      BY DEF Magics
    <3> QED
      BY <2>1, <3>1, Matches
  <2> QED
    BY <2>1, <2>2, <2>3 DEF IsCheck
<1>4. Lengthy(descs)
  BY <1>1, <1>3 DEF Lengthy
<1> QED
  BY <1>1, <1>2, <1>3, <1>4

\* The head of the list is what add_mini() and del_mini() find.
LEMMA HeadFound ==
  ASSUME NEW descs, ListOK(descs)
  PROVE  find_entry(descs, "OTAR") = 1
<1> DEFINE e == find_entry(descs, "OTAR")
<1>1. IsList(descs) /\ Len(descs) \in Nat /\ Len(descs) >= 1
  BY ListFacts
<1>2. 1 \in 1 .. Len(descs)
  BY <1>1
<1>3. carl9170fw_desc_cmp(descs[1], "OTAR")
  <2>1. /\ DescCell(descs[1]) /\ descs[1].magic = "OTAR" /\ descs[1].length >= HeadLen
        /\ descs[1].length \in Nat
    BY <1>2 DEF ListOK, DescCell
  <2>2. "OTAR" \in Magics /\ descs[1].length # 0
    BY <2>1 DEF Magics, HeadLen
  <2> QED
    BY <2>1, <2>2, Matches
<1>4. /\ e = 0 => \A j \in 1 .. Len(descs) : ~carl9170fw_desc_cmp(descs[j], "OTAR")
      /\ e # 0 => /\ e \in 1 .. Len(descs)
                  /\ \A j \in 1 .. Len(descs) : carl9170fw_desc_cmp(descs[j], "OTAR") => e <= j
  BY <1>1, FoundEntry
<1> HIDE DEF e
<1>5. e # 0
  BY <1>2, <1>3, <1>4
<1>6. e \in 1 .. Len(descs) /\ e <= 1
  BY <1>2, <1>3, <1>4, <1>5
<1>7. e = 1
  BY <1>1, <1>6
<1> QED
  BY <1>7 DEF e

\* The checksum is found where it is.
LEMMA CheckFound ==
  ASSUME NEW descs, ListOK(descs)
  PROVE  /\ find_entry(descs, "CHK") \in 0 .. Len(descs)
         /\ \A j \in 1 .. Len(descs) : descs[j].magic = "CHK" <=> j = find_entry(descs, "CHK")
         /\ \A j \in 1 .. Len(descs) : IsCheck(descs[j]) <=> j = find_entry(descs, "CHK")
<1> DEFINE e == find_entry(descs, "CHK")
<1>1. IsList(descs) /\ Len(descs) \in Nat
  BY ListFacts
<1>2. \A i \in 1 .. Len(descs) : IsCheck(descs[i]) <=> descs[i].magic = "CHK"
  BY ListFacts
<1>3. /\ e = 0 => \A j \in 1 .. Len(descs) : ~carl9170fw_desc_cmp(descs[j], "CHK")
      /\ e # 0 => e \in 1 .. Len(descs) /\ carl9170fw_desc_cmp(descs[e], "CHK")
  BY <1>1, FoundEntry
<1>4. /\ e = 0 => \A j \in 1 .. Len(descs) : ~IsCheck(descs[j])
      /\ e # 0 => e \in 1 .. Len(descs) /\ IsCheck(descs[e])
  BY <1>3 DEF IsCheck
<1> HIDE DEF e
<1>5. e \in 0 .. Len(descs)
  BY <1>1, <1>4
<1>6. ASSUME NEW j \in 1 .. Len(descs) PROVE descs[j].magic = "CHK" <=> j = e
  <2>1. CASE e = 0
    <3>1. descs[j].magic # "CHK" /\ j # e
      BY <1>1, <1>2, <1>4, <2>1
    <3> QED
      BY <3>1
  <2>2. CASE e # 0
    <3>1. e \in 1 .. Len(descs) /\ descs[e].magic = "CHK"
      BY <1>2, <1>4, <2>2
    <3>2. descs[j].magic = "CHK" => j = e
      BY <3>1 DEF ListOK
    <3> QED
      BY <3>1, <3>2
  <2> QED
    BY <2>1, <2>2
<1> QED
  BY <1>2, <1>5, <1>6 DEF e

\* Without its checksum it is a list of descriptors still, shorter by what was
\* taken out.
LEMMA RestOK ==
  ASSUME NEW descs, ListOK(descs)
  PROVE  /\ ListOK(Unchecked(descs)) /\ NoCheck(Unchecked(descs))
         /\ Unchecked(descs) = IF find_entry(descs, "CHK") = 0 THEN descs
                               ELSE RemoveAt(descs, find_entry(descs, "CHK"))
<1> DEFINE k == find_entry(descs, "CHK")
           r == RemoveAt(descs, k)
<1>1. IsList(descs) /\ Len(descs) \in Nat /\ Len(descs) >= 1
  BY ListFacts
<1>2. /\ k \in 0 .. Len(descs)
      /\ \A j \in 1 .. Len(descs) : descs[j].magic = "CHK" <=> j = k
      /\ \A j \in 1 .. Len(descs) : IsCheck(descs[j]) <=> j = k
  BY CheckFound
<1> HIDE DEF k
<1>3. Unchecked(descs) = IF k = 0 THEN descs ELSE r
  BY <1>1, <1>2, UncheckedIs
<1>4. CASE k = 0
  <2>1. NoCheck(descs)
    BY <1>1, <1>2, <1>4 DEF NoCheck
  <2> QED
    BY <1>3, <1>4, <2>1 DEF k
<1>5. CASE k # 0
  <2>1. k \in 1 .. Len(descs)
    BY <1>1, <1>2, <1>5
  <2>2. k > 1
    <3>1. 1 \in 1 .. Len(descs)
      BY <1>1
    <3>2. descs[1].magic = "OTAR"
      BY <3>1 DEF ListOK
    <3>3. k # 1
      BY <1>2, <3>1, <3>2
    <3> QED
      BY <1>1, <2>1, <3>3
  <2>3. /\ IsList(r) /\ Len(r) = Len(descs) - 1
        /\ \A i \in 1 .. k - 1 : r[i] = descs[i]
        /\ \A i \in k .. Len(descs) - 1 : r[i] = descs[i + 1]
    BY <1>1, <2>1, RemoveList
  <2> HIDE DEF r
  <2>4. ASSUME NEW i \in 1 .. Len(r)
        PROVE  \E j \in 1 .. Len(descs) : j # k /\ r[i] = descs[j] /\ (i = 1 <=> j = 1)
    <3>1. CASE i < k
      <4>1. i \in 1 .. k - 1 /\ i \in 1 .. Len(descs) /\ i # k
        BY <1>1, <2>1, <2>3, <3>1
      <4> QED
        BY <2>3, <4>1
    <3>2. CASE ~(i < k)
      <4> DEFINE j == i + 1
      <4>1. i \in k .. Len(descs) - 1 /\ j \in 1 .. Len(descs) /\ j # k /\ i # 1 /\ j # 1
        BY <1>1, <2>1, <2>2, <2>3, <3>2
      <4>2. r[i] = descs[j]
        BY <2>3, <4>1
      <4> HIDE DEF j
      <4> QED
        BY <4>1, <4>2
    <3> QED
      BY <3>1, <3>2
  <2>5. \A i \in 1 .. Len(r) : r[i].magic # "CHK"
    BY <1>2, <2>4
  <2>6. ASSUME NEW i \in 1 .. Len(r)
        PROVE  /\ DescCell(r[i]) /\ r[i].magic # "LAST"
               /\ r[i].length >= HeadLen /\ r[i].length < MaxLen
               /\ r[i].magic = "OTAR" <=> i = 1
    BY <2>4 DEF ListOK
  <2>7. r # <<>>
    <3>1. Len(r) > 0
      BY <1>1, <2>1, <2>2, <2>3
    <3> QED
      BY <2>3, <3>1, ListLen
  <2>8. ListOK(r) /\ NoCheck(r)
    BY <2>3, <2>5, <2>6, <2>7 DEF ListOK, NoCheck
  <2> QED
    BY <1>3, <1>5, <2>8 DEF r, k
<1> QED
  BY <1>4, <1>5

\* The checksum that a store computes.
Check(image, rest) == Desc("CHK", [fw |-> ImageCrc(image), hdr |-> HeaderCrc(image, rest)])

\* The checksum descriptor that a store computes.
LEMMA CheckCell ==
  ASSUME NEW image, NEW rest
  PROVE  /\ DescCell(Check(image, rest)) /\ Check(image, rest).magic = "CHK"
         /\ Check(image, rest).length = Size["CHK"]
         /\ Check(image, rest).body = [fw |-> ImageCrc(image), hdr |-> HeaderCrc(image, rest)]
<1> DEFINE b == [fw |-> ImageCrc(image), hdr |-> HeaderCrc(image, rest)]
<1>1. Body("CHK", b)
  BY DEF Body
<1>2. "CHK" \in Magics
  BY DEF Magics
<1> HIDE DEF b
<1>3. /\ DescCell(Desc("CHK", b)) /\ Desc("CHK", b).magic = "CHK"
      /\ Desc("CHK", b).length = Size["CHK"] /\ Desc("CHK", b).body = b
  BY <1>1, <1>2, FilledIn
<1> QED
  BY <1>3 DEF b, Check

\* With a new one at its end it is a list with one checksum.
LEMMA CheckedOK ==
  ASSUME NEW rest, ListOK(rest), NoCheck(rest), NEW image
  PROVE  /\ ListOK(Append(rest, Check(image, rest)))
         /\ Len(Append(rest, Check(image, rest))) = Len(rest) + 1
         /\ Front(Append(rest, Check(image, rest))) = rest
<1> DEFINE c == Check(image, rest)
           d == Append(rest, c)
           n == Len(rest)
<1>1. IsList(rest) /\ n \in Nat /\ n >= 1
  BY ListFacts
<1>2. DescCell(c) /\ c.magic = "CHK" /\ c.length >= HeadLen /\ c.length < MaxLen
  <2>1. "CHK" \in Magics
    BY DEF Magics
  <2>2. Size["CHK"] >= HeadLen /\ Size["CHK"] < MaxLen
    BY <2>1, Headers
  <2> QED
    BY <2>2, CheckCell
<1> HIDE DEF c
<1>3. IsList(d) /\ Len(d) = n + 1 /\ (\A i \in 1 .. n : d[i] = rest[i]) /\ d[n + 1] = c
  BY <1>1, AppendList
<1> HIDE DEF d, n
<1>4. ASSUME NEW i \in 1 .. Len(d)
      PROVE  /\ DescCell(d[i]) /\ d[i].magic # "LAST"
             /\ d[i].length >= HeadLen /\ d[i].length < MaxLen
             /\ d[i].magic = "OTAR" <=> i = 1
             /\ d[i].magic = "CHK" <=> i = n + 1
  <2>1. CASE i = n + 1
    <3>1. d[i] = c /\ i # 1
      BY <1>1, <1>3, <2>1
    <3> QED
      BY <1>2, <2>1, <3>1
  <2>2. CASE i # n + 1
    <3>1. i \in 1 .. n
      BY <1>1, <1>3, <2>2
    <3>2. d[i] = rest[i]
      BY <1>3, <3>1
    <3> QED
      BY <2>2, <3>1, <3>2 DEF ListOK, NoCheck, n
  <2> QED
    BY <2>1, <2>2
<1>5. d # <<>>
  <2>1. Len(d) > 0
    BY <1>1, <1>3
  <2> QED
    BY <1>3, <2>1, ListLen
<1>6. ListOK(d)
  BY <1>3, <1>4, <1>5 DEF ListOK
<1>7. Front(d) = rest
  <2>1. Front(d) = SubSeq(d, 1, n)
    <3>1. Len(d) - 1 = n
      BY <1>1, <1>3
    <3> QED
      BY <3>1 DEF Front
  <2>2. n \in 0 .. Len(d)
    BY <1>1, <1>3
  <2>3. IsList(SubSeq(d, 1, n)) /\ Len(SubSeq(d, 1, n)) = n /\ \A i \in 1 .. n : SubSeq(d, 1, n)[i] = d[i]
    BY <1>3, <2>2, PrefixList
  <2>4. \A i \in 1 .. n : SubSeq(d, 1, n)[i] = rest[i]
    BY <1>3, <2>3
  <2>5. SubSeq(d, 1, n) = rest
    BY <1>1, <2>3, <2>4, SameLists DEF n
  <2> QED
    BY <2>1, <2>5
<1> QED
  BY <1>3, <1>6, <1>7 DEF d, c, n

\* What taking an entry out changes of struct carlfw.
LEMMA DelEntry ==
  ASSUME NEW pc, NEW tool, NEW image, NEW descs, NEW entries, NEW len, NEW todo, NEW i
  PROVE  carlfw_desc_del([pc |-> pc, tool |-> tool, image |-> image, descs |-> descs,
                          entries |-> entries, len |-> len, todo |-> todo], i)
         = [pc |-> pc, tool |-> tool, image |-> image, descs |-> RemoveAt(descs, i),
            entries |-> entries - 1, len |-> len - descs[i].length, todo |-> todo]
<1> DEFINE p == [pc |-> pc, tool |-> tool, image |-> image, descs |-> descs,
                 entries |-> entries, len |-> len, todo |-> todo]
           a == RemoveAt(descs, i)
           e == entries - 1
           l == len - descs[i].length
<1>1. p.descs = descs /\ p.entries = entries /\ p.len = len
  OBVIOUS
<1>2. carlfw_desc_del(p, i) = [p EXCEPT !.descs = a, !.entries = e, !.len = l]
  BY <1>1 DEF carlfw_desc_del
<1> HIDE DEF a, e, l
<1>3. [p EXCEPT !.descs = a, !.entries = e, !.len = l]
      = [pc |-> pc, tool |-> tool, image |-> image, descs |-> a, entries |-> e, len |-> l, todo |-> todo]
  <2> DEFINE p1 == [pc |-> pc, tool |-> tool, image |-> image, descs |-> a, entries |-> entries,
                    len |-> len, todo |-> todo]
             p2 == [pc |-> pc, tool |-> tool, image |-> image, descs |-> a, entries |-> e,
                    len |-> len, todo |-> todo]
             p3 == [pc |-> pc, tool |-> tool, image |-> image, descs |-> a, entries |-> e,
                    len |-> l, todo |-> todo]
  <2>1. [p EXCEPT !.descs = a] = p1
    OBVIOUS
  <2>2. [p1 EXCEPT !.entries = e] = p2
    OBVIOUS
  <2>3. [p2 EXCEPT !.len = l] = p3
    OBVIOUS
  <2>4. [p EXCEPT !.descs = a, !.entries = e, !.len = l]
        = [[[p EXCEPT !.descs = a] EXCEPT !.entries = e] EXCEPT !.len = l]
    OBVIOUS
  <2> QED
    BY <2>1, <2>2, <2>3, <2>4
<1> QED
  BY <1>2, <1>3 DEF a, e, l

\* A program with its firmware, its counters as they should be.
Holding(pc, tool, image, descs, todo) ==
  [pc |-> pc, tool |-> tool, image |-> image, descs |-> descs,
   entries |-> Len(descs), len |-> TotalLength(descs), todo |-> todo]

\* The fields of struct carlfw.
LEMMA HoldingIs ==
  ASSUME NEW pc, NEW tool, NEW image, NEW descs, NEW todo
  PROVE  LET p == Holding(pc, tool, image, descs, todo)
         IN  /\ p.pc = pc /\ p.tool = tool /\ p.image = image /\ p.descs = descs /\ p.todo = todo
             /\ p.entries = Len(descs) /\ p.len = TotalLength(descs)
             /\ ImageOK(image) /\ ListOK(descs) => Firmware(p)
<1> DEFINE p == Holding(pc, tool, image, descs, todo)
<1>1. p = [pc |-> pc, tool |-> tool, image |-> image, descs |-> descs,
           entries |-> Len(descs), len |-> TotalLength(descs), todo |-> todo]
  BY DEF Holding
<1>2. /\ p.pc = pc /\ p.tool = tool /\ p.image = image /\ p.descs = descs /\ p.todo = todo
      /\ p.entries = Len(descs) /\ p.len = TotalLength(descs)
  BY <1>1
<1> HIDE DEF p
<1>3. p = [pc |-> p.pc, tool |-> p.tool, image |-> p.image, descs |-> p.descs,
           entries |-> p.entries, len |-> p.len, todo |-> p.todo]
  BY <1>1, <1>2
<1>4. ImageOK(image) /\ ListOK(descs) => Firmware(p)
  BY <1>2, <1>3 DEF Firmware
<1> QED
  BY <1>2, <1>4 DEF p

\* A firmware is made of its fields.
LEMMA FirmwareIs ==
  ASSUME NEW p, Firmware(p)
  PROVE  p = Holding(p.pc, p.tool, p.image, p.descs, p.todo)
BY DEF Firmware, Holding

\* carlfw_apply_checksums() takes the old checksum out, puts the new one at the end
\* and keeps the counters.
LEMMA ApplyChecks ==
  ASSUME NEW p, Firmware(p)
  PROVE  carlfw_apply_checksums(p)
         = Holding(p.pc, p.tool, p.image,
                   Append(Unchecked(p.descs), Check(p.image, Unchecked(p.descs))), p.todo)
<1> DEFINE D == p.descs
           k == find_entry(D, "CHK")
           rest == Unchecked(D)
           q == IF k = 0 THEN p ELSE carlfw_desc_del(p, k)
           c == Check(q.image, q.descs)
<1>1. ListOK(D) /\ p = Holding(p.pc, p.tool, p.image, D, p.todo)
  BY FirmwareIs DEF Firmware
<1>2. carlfw_apply_checksums(p) = carlfw_desc_add_tail(q, c)
  BY DEF carlfw_apply_checksums, Check
<1> HIDE DEF c, q
<1>3. /\ ListOK(rest) /\ NoCheck(rest)
      /\ rest = IF k = 0 THEN D ELSE RemoveAt(D, k)
  BY <1>1, RestOK
<1>4. Len(D) \in Nat /\ IsList(D) /\ Lengthy(D) /\ k \in 0 .. Len(D)
  BY <1>1, ListFacts, CheckFound
<1>5. q = Holding(p.pc, p.tool, p.image, rest, p.todo)
  <2>1. CASE k = 0
    BY <1>1, <1>3, <2>1 DEF q
  <2>2. CASE k # 0
    <3>1. k \in 1 .. Len(D)
      BY <1>4, <2>2
    <3>2. rest = RemoveAt(D, k)
      BY <1>3, <2>2
    <3>3. Len(rest) = Len(D) - 1
      BY <1>4, <3>1, <3>2, RemoveList
    <3>4. TotalLength(rest) = TotalLength(D) - D[k].length
      BY <1>4, <3>1, <3>2, TotalRemove
    <3>5. q = carlfw_desc_del(Holding(p.pc, p.tool, p.image, D, p.todo), k)
      BY <1>1, <2>2 DEF q
    <3> DEFINE x1 == p.pc
               x2 == p.tool
               x3 == p.image
               x4 == p.todo
    <3> HIDE DEF x1, x2, x3, x4, D, k, rest
    <3>6. carlfw_desc_del(Holding(x1, x2, x3, D, x4), k) =
            [pc |-> x1, tool |-> x2, image |-> x3, descs |-> RemoveAt(D, k),
             entries |-> Len(D) - 1, len |-> TotalLength(D) - D[k].length, todo |-> x4]
      BY DelEntry DEF Holding
    <3>7. carlfw_desc_del(Holding(x1, x2, x3, D, x4), k) = Holding(x1, x2, x3, rest, x4)
      BY <3>2, <3>3, <3>4, <3>6 DEF Holding
    <3> QED
      BY <3>5, <3>7 DEF x1, x2, x3, x4
  <2> QED
    BY <2>1, <2>2
<1>6. q.image = p.image /\ q.descs = rest
  BY <1>5, HoldingIs
<1>7. c = Check(p.image, rest)
  BY <1>6 DEF c
<1> DEFINE x1 == p.pc
           x2 == p.tool
           x3 == p.image
           x4 == p.todo
           e == Check(x3, rest)
<1>8. carlfw_apply_checksums(p) = carlfw_desc_add_tail(Holding(x1, x2, x3, rest, x4), e)
  BY <1>2, <1>5, <1>7
<1>9. Lengthy(rest) /\ IsList(rest)
  BY <1>3, ListFacts
<1>10. e.length \in Nat
  BY CheckCell DEF DescCell
<1> HIDE DEF x1, x2, x3, x4, e, rest
<1>11. Len(Append(rest, e)) = Len(rest) + 1 /\ TotalLength(Append(rest, e)) = TotalLength(rest) + e.length
  BY <1>9, <1>10, AppendList, TotalAppend
<1>12. carlfw_desc_add_tail(Holding(x1, x2, x3, rest, x4), e) =
         [pc |-> x1, tool |-> x2, image |-> x3, descs |-> Append(rest, e),
          entries |-> Len(rest) + 1, len |-> TotalLength(rest) + e.length, todo |-> x4]
  <2> DEFINE n == Len(rest)
             l == TotalLength(rest)
  <2>1. Holding(x1, x2, x3, rest, x4)
        = [pc |-> x1, tool |-> x2, image |-> x3, descs |-> rest, entries |-> n, len |-> l, todo |-> x4]
    BY DEF Holding
  <2> HIDE DEF n, l
  <2>2. carlfw_desc_add_tail([pc |-> x1, tool |-> x2, image |-> x3, descs |-> rest,
                              entries |-> n, len |-> l, todo |-> x4], e)
        = [pc |-> x1, tool |-> x2, image |-> x3, descs |-> Append(rest, e),
           entries |-> n + 1, len |-> l + e.length, todo |-> x4]
    BY AddTail
  <2> QED
    BY <2>1, <2>2 DEF n, l
<1>13. carlfw_apply_checksums(p) = Holding(x1, x2, x3, Append(rest, e), x4)
  BY <1>8, <1>11, <1>12 DEF Holding
<1> QED
  BY <1>13 DEF x1, x2, x3, x4, e, rest

-----------------------------------------------------------------------------
(* The miniboot *)

\* Two ranges from one on are equal only if they end at the same number.
LEMMA SameRange ==
  ASSUME NEW i \in Nat, NEW j \in Nat, 1 .. i = 1 .. j
  PROVE  i = j
<1>1. i # 0 => i \in 1 .. j
  OBVIOUS
<1>2. j # 0 => j \in 1 .. i
  OBVIOUS
<1> QED
  BY <1>1, <1>2

\* The cells of a program text are code.
LEMMA CodeCells ==
  ASSUME NEW S, NEW text \in Seq(S)
  PROVE  AllCode(Cells(text)) /\ Len(Cells(text)) = Len(text)
<1> DEFINE T == {Code(x) : x \in S}
           n == Len(text)
<1>1. n \in Nat /\ text \in [1 .. n -> S] /\ DOMAIN text = 1 .. n
  BY LenProperties
<1>2. Cells(text) = [i \in 1 .. n |-> Code(text[i])]
  BY <1>1 DEF Cells
<1>3. Cells(text) \in [1 .. n -> T] /\ \A i \in 1 .. n : Cells(text)[i] = Code(text[i])
  BY <1>1, <1>2
<1> HIDE DEF T, n
<1>4. Cells(text) \in Seq(T)
  BY <1>1, <1>3, SeqDef
<1>5. IsList(Cells(text)) /\ Len(Cells(text)) = n
  <2>1. DOMAIN Cells(text) = 1 .. Len(Cells(text)) /\ Len(Cells(text)) \in Nat
    BY <1>4, LenProperties
  <2>2. DOMAIN Cells(text) = 1 .. n
    BY <1>2
  <2>3. Len(Cells(text)) = n
    <3>1. n \in Nat
      BY <1>1
    <3> QED
      BY <2>1, <2>2, <3>1, SameRange
  <2> QED
    BY <1>4, <2>3, SeqIsList
<1>6. \A i \in 1 .. n : Cells(text)[i].magic = "code"
  BY <1>3 DEF Code
<1> QED
  BY <1>5, <1>6 DEF AllCode, n

\* Code in front of an image is an image.
LEMMA MoreImage ==
  ASSUME NEW a, AllCode(a), NEW image, ImageOK(image)
  PROVE  ImageOK(a \o image)
<1>1. /\ IsList(a) /\ IsList(image) /\ Len(a) \in Nat /\ Len(image) \in Nat /\ Len(image) > 0
      /\ \A i \in 1 .. Len(a) : a[i].magic = "code"
      /\ \A i \in 1 .. Len(image) : image[i].magic = "code"
  <2>1. IsList(a) /\ IsList(image) /\ image # <<>>
    BY DEF AllCode, ImageOK
  <2> QED
    BY <2>1, ListLen DEF AllCode, ImageOK
<1> DEFINE e == a \o image
<1>2. /\ IsList(e) /\ Len(e) = Len(a) + Len(image)
      /\ \A i \in 1 .. Len(a) : e[i] = a[i]
      /\ \A i \in 1 .. Len(image) : e[Len(a) + i] = image[i]
  <2>1. IsList(a) /\ IsList(image)
    BY <1>1
  <2> QED
    BY <2>1, ConcatList
<1> HIDE DEF e
<1>3. ASSUME NEW i \in 1 .. Len(e) PROVE e[i].magic = "code"
  <2>1. CASE i \in 1 .. Len(a)
    BY <1>1, <1>2, <2>1
  <2>2. CASE i \notin 1 .. Len(a)
    <3> DEFINE k == i - Len(a)
    <3>1. k \in 1 .. Len(image) /\ Len(a) + k = i
      BY <1>1, <1>2, <2>2
    <3> HIDE DEF k
    <3> QED
      BY <1>1, <1>2, <3>1
  <2> QED
    BY <2>1, <2>2
<1>4. e # <<>>
  <2>1. Len(e) > 0
    BY <1>1, <1>2
  <2> QED
    BY <1>2, <2>1, ListLen
<1> QED
  BY <1>2, <1>3, <1>4 DEF ImageOK, e

\* carlfw_mod_headroom() leaves an image if it leaves anything.
LEMMA LessImage ==
  ASSUME NEW image, ImageOK(image), NEW n \in Nat, Len(image) - n > 0
  PROVE  ImageOK(Cut(image, n))
<1> DEFINE e == Cut(image, n)
           m == Len(image) - n
           F(i) == IF i <= n THEN Code(Junk) ELSE image[i - n]
           T == {F(i) : i \in 1 .. m}
<1>1. IsList(image) /\ Len(image) \in Nat /\ m \in Nat /\ m > 0
  BY DEF ImageOK, IsList
<1>2. e = [i \in 1 .. m |-> F(i)]
  BY DEF Cut
<1>3. ASSUME NEW i \in 1 .. m PROVE F(i).magic = "code"
  <2>1. CASE i <= n
    BY <2>1 DEF Code
  <2>2. CASE ~(i <= n)
    <3>1. i - n \in 1 .. Len(image)
      BY <1>1, <2>2
    <3> QED
      BY <2>2, <3>1 DEF ImageOK
  <2> QED
    BY <2>1, <2>2
<1> HIDE DEF F, m, e
<1>4. e \in [1 .. m -> T] /\ \A i \in 1 .. m : e[i] = F(i)
  BY <1>2
<1> HIDE DEF T
<1>5. e \in Seq(T)
  BY <1>1, <1>4, SeqDef
<1>6. IsList(e) /\ Len(e) = m
  <2>1. DOMAIN e = 1 .. Len(e) /\ Len(e) \in Nat
    BY <1>5, LenProperties
  <2>2. DOMAIN e = 1 .. m
    BY <1>4
  <2>3. Len(e) = m
    <3>1. m \in Nat
      BY <1>1
    <3> QED
      BY <2>1, <2>2, <3>1, SameRange
  <2> QED
    BY <1>5, <2>3, SeqIsList
<1>7. e # <<>>
  BY <1>1, <1>6, ListLen
<1>8. \A i \in 1 .. Len(e) : e[i].magic = "code"
  BY <1>3, <1>4, <1>6
<1> QED
  BY <1>6, <1>7, <1>8 DEF ImageOK, e

\* What the head of the list says of the miniboot may change.
LEMMA HeadChanged ==
  ASSUME NEW descs, ListOK(descs), NEW body, Body("OTAR", body)
  PROVE  LET e == [descs EXCEPT ![1] = [descs[1] EXCEPT !.body = body]]
         IN  ListOK(e) /\ Len(e) = Len(descs) /\ TotalLength(e) = TotalLength(descs)
<1> DEFINE c == descs[1]
           d == [c EXCEPT !.body = body]
           e == [descs EXCEPT ![1] = d]
           n == Len(descs)
<1>1. IsList(descs) /\ n \in Nat /\ n >= 1 /\ Lengthy(descs) /\ DOMAIN descs = 1 .. n
  BY ListFacts
<1>2. 1 \in 1 .. n
  BY <1>1
<1>3. DescCell(c) /\ c.magic = "OTAR"
  BY <1>2 DEF ListOK
<1>4. /\ d = [magic |-> c.magic, length |-> c.length, min |-> c.min, cur |-> c.cur, body |-> body]
      /\ d.magic = c.magic /\ d.length = c.length /\ d.min = c.min /\ d.cur = c.cur /\ d.body = body
  <2>1. c = [magic |-> c.magic, length |-> c.length, min |-> c.min, cur |-> c.cur, body |-> c.body]
    BY <1>3 DEF DescCell
  <2> HIDE DEF c
  <2> QED
    BY <2>1
<1> HIDE DEF c, d
<1>5. DescCell(d)
  BY <1>3, <1>4 DEF DescCell, Body
<1>6. /\ e = [i \in 1 .. n |-> IF i = 1 THEN d ELSE descs[i]]
      /\ \A i \in 1 .. n : e[i] = IF i = 1 THEN d ELSE descs[i]
  BY <1>1, <1>2
<1> DEFINE T == {e[i] : i \in 1 .. n}
<1> HIDE DEF n
<1>7. e \in [1 .. n -> T] /\ DOMAIN e = 1 .. n
  BY <1>6
<1> HIDE DEF T, e
<1>8. e \in Seq(T)
  BY <1>1, <1>7, SeqDef
<1>9. IsList(e) /\ Len(e) = n
  <2>1. DOMAIN e = 1 .. Len(e) /\ Len(e) \in Nat
    BY <1>8, LenProperties
  <2>2. Len(e) = n
    BY <1>1, <1>7, <2>1
  <2> QED
    BY <1>8, <2>2, SeqIsList
<1>10. ASSUME NEW i \in 1 .. n
       PROVE  /\ e[i].magic = descs[i].magic /\ e[i].length = descs[i].length /\ DescCell(e[i])
  <2>1. CASE i = 1
    BY <1>4, <1>5, <1>6, <2>1 DEF c
  <2>2. CASE i # 1
    <3>1. e[i] = descs[i]
      BY <1>6, <2>2
    <3>2. DescCell(descs[i])
      BY DEF ListOK, n
    <3> QED
      BY <3>1, <3>2
  <2> QED
    BY <2>1, <2>2
<1>11. e # <<>>
  <2>1. Len(e) > 0
    BY <1>1, <1>9
  <2> QED
    BY <1>9, <2>1, ListLen
<1>12. ListOK(e)
  BY <1>9, <1>10, <1>11 DEF ListOK, n
<1>13. TotalLength(e) = TotalLength(descs)
  <2>1. Len(e) = Len(descs) /\ \A i \in 1 .. Len(descs) : e[i].length = descs[i].length
    BY <1>9, <1>10 DEF n
  <2> QED
    BY <1>1, <1>9, <2>1, TotalSame
<1> QED
  BY <1>9, <1>12, <1>13 DEF e, d, c, n

\* The body of the head of the list.
LEMMA HeadBody ==
  ASSUME NEW descs, ListOK(descs)
  PROVE  /\ DOMAIN descs[1].body = {"features", "miniboot"} /\ descs[1].body.miniboot \in Nat
         /\ \A fs, n : n \in Nat =>
              Body("OTAR", [[descs[1].body EXCEPT !.features = fs] EXCEPT !.miniboot = n])
<1> DEFINE b == descs[1].body
<1>1. 1 \in 1 .. Len(descs)
  BY ListFacts
<1>2. DescCell(descs[1]) /\ descs[1].magic = "OTAR"
  BY <1>1 DEF ListOK
<1>3. DOMAIN b = {"features", "miniboot"} /\ b.miniboot \in Nat
  BY <1>2 DEF DescCell
<1> HIDE DEF b
<1>4. ASSUME NEW fs, NEW n \in Nat
      PROVE  Body("OTAR", [[b EXCEPT !.features = fs] EXCEPT !.miniboot = n])
  <2> DEFINE x == [[b EXCEPT !.features = fs] EXCEPT !.miniboot = n]
  <2>1. DOMAIN x = {"features", "miniboot"} /\ x.miniboot = n
    BY <1>3
  <2> HIDE DEF x
  <2>2. Body("OTAR", x)
    BY <2>1 DEF Body
  <2> QED
    BY <2>2 DEF x
<1> QED
  BY <1>3, <1>4 DEF b

\* What changing the head of the list and the image makes of struct carlfw.
MiniChanged(p, fs, n, image) ==
  [p EXCEPT !.descs[1].body.features = fs, !.descs[1].body.miniboot = n, !.image = image]

HeadWith(descs, fs, n) ==
  [descs EXCEPT ![1] = [descs[1] EXCEPT
     !.body = [[descs[1].body EXCEPT !.features = fs] EXCEPT !.miniboot = n]]]

\* The two changes of the head and that of the image, one after the other.
LEMMA MiniSteps ==
  ASSUME NEW p, Firmware(p), NEW fs, NEW n, NEW image
  PROVE  MiniChanged(p, fs, n, image)
         = [pc |-> p.pc, tool |-> p.tool, image |-> image, descs |-> HeadWith(p.descs, fs, n),
            entries |-> p.entries, len |-> p.len, todo |-> p.todo]
<1> DEFINE D == p.descs
           x == p.pc
           t == p.tool
           i == p.image
           e == p.entries
           l == p.len
           o == p.todo
           R(im, ds) == [pc |-> x, tool |-> t, image |-> im, descs |-> ds,
                         entries |-> e, len |-> l, todo |-> o]
           D1 == [D EXCEPT ![1].body.features = fs]
           D2 == [D1 EXCEPT ![1].body.miniboot = n]
           p1 == [p EXCEPT !.descs[1].body.features = fs]
           p2 == [p1 EXCEPT !.descs[1].body.miniboot = n]
           p3 == [p2 EXCEPT !.image = image]
<1>1. p = R(i, D) /\ ListOK(D)
  BY DEF Firmware
<1>2. 1 \in DOMAIN D
  BY <1>1, ListFacts
<1>3. DescCell(D[1])
  BY <1>1, ListFacts DEF ListOK
<1>4. DOMAIN D[1].body = {"features", "miniboot"}
  BY <1>1, HeadBody
<1> HIDE DEF D, x, t, i, e, l, o
<1>5. p1 = R(i, D1)
  <2>1. R(i, D).descs = D
    OBVIOUS
  <2>2. p1 = [R(i, D) EXCEPT !.descs = [R(i, D).descs EXCEPT ![1].body.features = fs]]
    BY <1>1
  <2>3. p1 = [R(i, D) EXCEPT !.descs = D1]
    BY <2>1, <2>2
  <2> HIDE DEF D1, p1
  <2> QED
    BY <2>3
<1> HIDE DEF p1, D1
<1>6. p2 = R(i, D2)
  <2>1. R(i, D1).descs = D1
    OBVIOUS
  <2>2. p2 = [R(i, D1) EXCEPT !.descs = [R(i, D1).descs EXCEPT ![1].body.miniboot = n]]
    BY <1>5
  <2>3. p2 = [R(i, D1) EXCEPT !.descs = D2]
    BY <2>1, <2>2
  <2> HIDE DEF D2, p2
  <2> QED
    BY <2>3
<1> HIDE DEF p2, D2
<1>7. p3 = R(image, D2)
  BY <1>6
<1>8. MiniChanged(p, fs, n, image) = p3
  BY DEF p1, p2, MiniChanged
<1> DEFINE c == D[1]
           b == c.body
           b1 == [b EXCEPT !.features = fs]
           b2 == [b1 EXCEPT !.miniboot = n]
           c1 == [c EXCEPT !.body = b1]
           c2 == [c EXCEPT !.body = b2]
<1>9. D2 = [D EXCEPT ![1] = c2]
  <2>1. D1 = [D EXCEPT ![1] = c1]
    BY DEF D1
  <2>2. c1.body = b1
    <3>1. c = [magic |-> c.magic, length |-> c.length, min |-> c.min, cur |-> c.cur, body |-> c.body]
      BY <1>3 DEF DescCell
    <3> HIDE DEF c, b1
    <3> QED
      BY <3>1
  <2>3. D1[1] = c1
    <3> HIDE DEF c1
    <3> QED
      BY <1>2, <2>1
  <2>4. D2 = [D1 EXCEPT ![1] = [D1[1] EXCEPT !.body = [D1[1].body EXCEPT !.miniboot = n]]]
    BY DEF D2
  <2>5. D2 = [D1 EXCEPT ![1] = [c1 EXCEPT !.body = b2]]
    BY <2>2, <2>3, <2>4
  <2>6. [c1 EXCEPT !.body = b2] = c2
    <3>1. c = [magic |-> c.magic, length |-> c.length, min |-> c.min, cur |-> c.cur, body |-> c.body]
      BY <1>3 DEF DescCell
    <3> HIDE DEF c, b1, b2
    <3> QED
      BY <3>1
  <2> HIDE DEF c1, c2
  <2> QED
    BY <2>1, <2>5, <2>6
<1>10. MiniChanged(p, fs, n, image) = R(image, [D EXCEPT ![1] = c2])
  BY <1>7, <1>8, <1>9
<1>11. [D EXCEPT ![1] = c2] = HeadWith(p.descs, fs, n)
  BY DEF HeadWith, D
<1> HIDE DEF c2
<1> QED
  BY <1>10, <1>11 DEF x, t, e, l, o

\* add_mini() leaves a firmware.
LEMMA AddMiniKeeps ==
  ASSUME NEW p, Firmware(p)
  PROVE  /\ Firmware(add_mini(p)) /\ add_mini(p).pc = p.pc /\ add_mini(p).tool = p.tool
         /\ add_mini(p).todo = p.todo
<1> DEFINE D == p.descs
           fs == D[1].body.features \cup {"MINIBOOT"}
           n == Len(Mini)
           image == Cells(Mini) \o p.image
           b == [[D[1].body EXCEPT !.features = fs] EXCEPT !.miniboot = n]
           e == HeadWith(D, fs, n)
<1>1. ListOK(D) /\ ImageOK(p.image) /\ p.entries = Len(D) /\ p.len = TotalLength(D)
  BY DEF Firmware
<1>2. AllCode(Cells(Mini)) /\ n \in Nat
  BY ImageAssumption, CodeCells, LenProperties
<1>3. ImageOK(image)
  BY <1>1, <1>2, MoreImage
<1>4. Body("OTAR", b)
  BY <1>1, <1>2, HeadBody
<1>5. ListOK(e) /\ Len(e) = Len(D) /\ TotalLength(e) = TotalLength(D)
  <2> HIDE DEF b
  <2> QED
    BY <1>1, <1>4, HeadChanged DEF HeadWith, b
<1>6. add_mini(p) = MiniChanged(p, fs, n, image)
  <2>1. find_entry(p.descs, "OTAR") = 1
    BY <1>1, HeadFound
  <2> QED
    BY <2>1 DEF add_mini, MiniChanged
<1>7. add_mini(p) = [pc |-> p.pc, tool |-> p.tool, image |-> image, descs |-> e,
                     entries |-> p.entries, len |-> p.len, todo |-> p.todo]
  <2> HIDE DEF fs, n, image
  <2> QED
    BY <1>6, MiniSteps
<1> HIDE DEF D, image, e
<1>8. add_mini(p) = Holding(p.pc, p.tool, image, e, p.todo)
  BY <1>1, <1>5, <1>7 DEF Holding
<1> QED
  BY <1>3, <1>5, <1>8, HoldingIs

\* del_mini() does, if there is more than what it cuts away.
LEMMA DelMiniKeeps ==
  ASSUME NEW p, Firmware(p), CanDel(p)
  PROVE  /\ Firmware(del_mini(p)) /\ del_mini(p).pc = p.pc /\ del_mini(p).tool = p.tool
         /\ del_mini(p).todo = p.todo
<1> DEFINE D == p.descs
           m == D[1].body.miniboot
           fs == D[1].body.features \ {"MINIBOOT"}
           n == 0
           image == Cut(p.image, m)
           b == [[D[1].body EXCEPT !.features = fs] EXCEPT !.miniboot = n]
           e == HeadWith(D, fs, n)
<1>1. ListOK(D) /\ ImageOK(p.image) /\ p.entries = Len(D) /\ p.len = TotalLength(D)
  BY DEF Firmware
<1>2. find_entry(p.descs, "OTAR") = 1
  BY <1>1, HeadFound
<1>3. ImageOK(image)
  <2>1. m \in Nat
    BY <1>1, HeadBody
  <2>2. Len(p.image) - m \in MinSize .. MaxSize
    BY <1>2 DEF CanDel, carl9170fw_size_check
  <2>3. MinSize \in Nat \ {0} /\ MaxSize \in Nat
    BY ImageAssumption
  <2>4. Len(p.image) \in Nat
    BY <1>1 DEF ImageOK, IsList
  <2>5. Len(p.image) - m > 0
    <3> HIDE DEF m
    <3> QED
      BY <2>1, <2>2, <2>3, <2>4
  <2> HIDE DEF m
  <2> QED
    BY <1>1, <2>1, <2>5, LessImage
<1>4. n \in Nat
  OBVIOUS
<1> HIDE DEF n
<1>5. Body("OTAR", b)
  BY <1>1, <1>4, HeadBody
<1>6. ListOK(e) /\ Len(e) = Len(D) /\ TotalLength(e) = TotalLength(D)
  <2> HIDE DEF b
  <2> QED
    BY <1>1, <1>5, HeadChanged DEF HeadWith, b
<1>7. del_mini(p) = MiniChanged(p, fs, n, image)
  BY <1>2 DEF del_mini, n, MiniChanged
<1>8. del_mini(p) = [pc |-> p.pc, tool |-> p.tool, image |-> image, descs |-> e,
                     entries |-> p.entries, len |-> p.len, todo |-> p.todo]
  <2> HIDE DEF fs, image
  <2> QED
    BY <1>7, MiniSteps
<1> HIDE DEF D, image, e
<1>9. del_mini(p) = Holding(p.pc, p.tool, image, e, p.todo)
  BY <1>1, <1>6, <1>8 DEF Holding
<1> QED
  BY <1>3, <1>6, <1>9, HoldingIs

-----------------------------------------------------------------------------
(* What the linker writes *)

\* A descriptor whose body is not interpreted.
LEMMA TextCell ==
  ASSUME NEW m \in Magics \ {"OTAR", "CHK"}, NEW t
  PROVE  DescCell(Text(m, t)) /\ Text(m, t).magic = m
<1>1. m \in Magics /\ Body(m, [text |-> t])
  BY TextBody
<1> QED
  BY <1>1, FilledIn DEF Text

\* carl9170fw_desc has the head at its start, the LAST descriptor at its end and no
\* checksum.
LEMMA LinkedList ==
  ASSUME NEW wol
  PROVE  Stretch(carl9170fw_desc(wol)) /\ NoCheck(carl9170fw_desc(wol))
<1> DEFINE a1 == Otus({}, 0)
           a2 == Text("TXSQ", "sequence")
           w1 == Text("WOL", "triggers")
           z1 == Text("MOTD", "release")
           z2 == Text("DBG", "counter")
           a == <<a1, a2>>
           w == IF wol THEN <<w1>> ELSE <<>>
           z == <<z1, z2, LastDesc>>
           d == a \o w \o z
           Plain(c) == DescCell(c) /\ c.magic \in {"TXSQ", "WOL", "MOTD", "DBG"}
<1>1. DescCell(a1) /\ a1.magic = "OTAR"
  <2>1. Body("OTAR", [features |-> {}, miniboot |-> 0])
    BY DEF Body
  <2>2. "OTAR" \in Magics
    BY DEF Magics
  <2> QED
    BY <2>1, <2>2, FilledIn DEF Otus
<1>2. Plain(a2)
  BY TextCell DEF Magics
<1>3. Plain(w1)
  BY TextCell DEF Magics
<1>4. Plain(z1)
  BY TextCell DEF Magics
<1>5. Plain(z2)
  BY TextCell DEF Magics
<1>6. DescCell(LastDesc) /\ LastDesc.magic = "LAST"
  BY TextCell DEF Magics, LastDesc
<1>7. carl9170fw_desc(wol) = d
  BY DEF carl9170fw_desc
<1> HIDE DEF a1, a2, w1, z1, z2, Plain
<1>8. IsList(a) /\ Len(a) = 2 /\ a[1] = a1 /\ a[2] = a2
  BY DEF IsList
<1>9. IsList(z) /\ Len(z) = 3 /\ z[1] = z1 /\ z[2] = z2 /\ z[3] = LastDesc
  BY DEF IsList
<1>10. IsList(w) /\ Len(w) \in Nat /\ Len(w) <= 1 /\ \A i \in 1 .. Len(w) : Plain(w[i])
  <2>1. CASE wol
    <3>1. w = <<w1>>
      BY <2>1
    <3>2. IsList(w) /\ Len(w) = 1 /\ w[1] = w1
      BY <3>1, ShortLists
    <3> HIDE DEF w
    <3> QED
      BY <1>3, <3>2
  <2>2. CASE ~wol
    <3>1. w = <<>>
      BY <2>2
    <3>2. IsList(w) /\ Len(w) = 0
      BY <3>1, ShortLists
    <3> HIDE DEF w
    <3> QED
      BY <3>2
  <2> QED
    BY <2>1, <2>2
<1> HIDE DEF a, w, z
<1>11. /\ IsList(d) /\ Len(d) = Len(a) + Len(w) + Len(z)
       /\ \A i \in 1 .. Len(a) : d[i] = a[i]
       /\ \A i \in 1 .. Len(w) : d[Len(a) + i] = w[i]
       /\ \A i \in 1 .. Len(z) : d[Len(a) + Len(w) + i] = z[i]
  <2>1. IsList(a) /\ IsList(w) /\ IsList(z)
    BY <1>8, <1>9, <1>10
  <2> QED
    BY <2>1, Parts
<1> HIDE DEF d
<1> DEFINE k == Len(w)
<1>12. k \in Nat /\ Len(d) = k + 5
  BY <1>8, <1>9, <1>10, <1>11
<1>13. d[1] = a1 /\ Plain(d[2])
  BY <1>2, <1>8, <1>11
<1>14. \A i \in 1 .. k : Plain(d[2 + i])
  BY <1>8, <1>10, <1>11
<1>15. Plain(d[k + 3]) /\ Plain(d[k + 4]) /\ d[k + 5] = LastDesc
  <2>1. \A i \in 1 .. 3 : d[2 + k + i] = z[i]
    BY <1>8, <1>9, <1>11
  <2>2. d[2 + k + 1] = z1 /\ d[2 + k + 2] = z2 /\ d[2 + k + 3] = LastDesc
    BY <1>9, <2>1
  <2>3. 2 + k + 1 = k + 3 /\ 2 + k + 2 = k + 4 /\ 2 + k + 3 = k + 5
    BY <1>12
  <2> QED
    BY <1>4, <1>5, <2>2, <2>3
<1> HIDE DEF k
<1>16. ASSUME NEW i \in 1 .. Len(d)
       PROVE  (i = 1 /\ d[i] = a1) \/ (i = Len(d) /\ d[i] = LastDesc) \/ Plain(d[i])
  <2>1. i = 1 \/ i = 2 \/ (i - 2 \in 1 .. k /\ i = 2 + (i - 2)) \/ i = k + 3 \/ i = k + 4 \/ i = k + 5
    BY <1>12
  <2> QED
    BY <1>12, <1>13, <1>14, <1>15, <2>1
<1>17. ASSUME NEW i \in 1 .. Len(d)
       PROVE  /\ DescCell(d[i]) /\ d[i].magic # "CHK"
              /\ d[i].magic = "OTAR" => i = 1
              /\ d[i].magic = "LAST" => i = Len(d)
  BY <1>1, <1>6, <1>16 DEF Plain
<1>18. \A i \in 1 .. Len(d) : d[i].magic # "code"
  BY <1>17, NotCode
<1>19. Stretch(d) /\ NoCheck(d)
  <2>1. IsList(d)
    BY <1>11
  <2> QED
    BY <2>1, <1>17, <1>18 DEF Stretch, NoCheck
<1> QED
  BY <1>7, <1>19

\* At first there is no program, and the file has no checksum.
LEMMA InitImage == ImageInit => ImageInv
<1> SUFFICES ASSUME ImageInit PROVE ImageInv
  OBVIOUS
<1>1. PICK b \in Builds : file = Cells(b.code) \o carl9170fw_desc(b.wol) \o Cells(b.after)
  BY DEF ImageInit, Linked
<1>2. AllCode(Cells(b.code)) /\ AllCode(Cells(b.after))
  BY ImageAssumption, CodeCells
<1> DEFINE d == carl9170fw_desc(b.wol)
<1>3. Stretch(d) /\ \A i \in 1 .. Len(d) : d[i].magic # "CHK"
  BY LinkedList DEF NoCheck
<1> HIDE DEF d
<1>4. Layout(file) /\ ChecksGenuine(file)
  BY <1>1, <1>2, <1>3, Assembled DEF d
<1>5. proc.pc = "off"
  BY DEF ImageInit, NoProgram
<1>6. ProcOK /\ OnlyVouched
  BY <1>5 DEF ProcOK, HasFirmware, OnlyVouched
<1> QED
  BY <1>4, <1>6 DEF ImageInv

-----------------------------------------------------------------------------
(* The steps *)

\* A checksum that fits an image and a list is genuine just if these were stored.
LEMMA FitsGenuine ==
  ASSUME NEW image, NEW rest, NEW c,
         c.body = [fw |-> ImageCrc(image), hdr |-> HeaderCrc(image, rest)]
  PROVE  Genuine(c) <=> [image |-> image, descs |-> rest] \in vouched
<1>1. c.body.fw = <<<<>>, image>> /\ c.body.hdr = <<ImageCrc(image), rest>>
  BY DEF ImageCrc, HeaderCrc, crc32
<1>2. c.body.fw # <<>> /\ c.body.hdr # <<>> /\ c.body.fw[2] = image /\ c.body.hdr[2] = rest
  BY <1>1
<1> QED
  BY <1>2 DEF Genuine

\* The file stays as it is.
LEMMA SameFile ==
  ASSUME ImageInv, UNCHANGED <<file, vouched>>
  PROVE  Layout(file)' /\ ChecksGenuine(file)'
BY DEF ImageInv, Layout, ChecksGenuine, Genuine

\* A program takes from the file what a store put there.
LEMMA LoadImage == ImageInv /\ Load => ImageInv'
<1> SUFFICES ASSUME ImageInv, Load PROVE ImageInv'
  OBVIOUS
<1>1. Layout(file)' /\ ChecksGenuine(file)'
  <2>1. UNCHANGED <<file, vouched>>
    BY DEF Load
  <2> QED
    BY <2>1, SameFile
<1>2. PICK tool \in Tools : proc' = Opened(tool, file)
  BY DEF Load
<1> DEFINE r == carlfw_load(file)
<1>3. CASE r.err # "none"
  <2>1. proc' = [pc |-> "refused", err |-> r.err]
    BY <1>2, <1>3 DEF Opened
  <2> HIDE DEF r
  <2>2. proc'.pc = "refused"
    BY <2>1
  <2>3. ProcOK' /\ OnlyVouched'
    BY <2>2 DEF ProcOK, HasFirmware, OnlyVouched
  <2> QED
    BY <1>1, <2>3 DEF ImageInv
<1>4. CASE r.err = "none"
  <2>1. Layout(file)
    BY DEF ImageInv
  <2>2. PICK image, descs :
           /\ r = [err |-> "none", image |-> image, descs |-> descs]
           /\ ImageOK(image) /\ ListOK(descs) /\ CheckAccepts(image, descs)
           /\ \A j \in 1 .. Len(descs) : \E i \in 1 .. Len(file) : descs[j] = file[i]
    BY <1>4, <2>1, LoadSplits
  <2>3. proc' = WithDescs([pc |-> "loaded", tool |-> tool, image |-> r.image, descs |-> <<>>,
                           entries |-> 0, len |-> 0, todo |-> <<>>], r.descs)
    BY <1>2, <1>4 DEF Opened
  <2> HIDE DEF r
  <2>4. Lengthy(descs)
    BY <2>2, ListFacts
  <2>5. r.image = image /\ r.descs = descs
    BY <2>2
  <2>6. proc' = Holding("loaded", tool, image, descs, <<>>)
    BY <2>3, <2>4, <2>5, ReadList DEF Holding
  <2> DEFINE p == Holding("loaded", tool, image, descs, <<>>)
  <2>7. p.pc = "loaded" /\ p.image = image /\ p.descs = descs /\ Firmware(p)
    BY <2>2, HoldingIs
  <2> HIDE DEF p
  <2>8. proc'.pc = "loaded" /\ Firmware(proc')
    BY <2>6, <2>7 DEF p
  <2>9. proc'.image = image /\ proc'.descs = descs
    BY <2>6, <2>7 DEF p
  <2>10. ProcOK'
    BY <2>8 DEF ProcOK, HasFirmware, Firmware
  <2>11. ASSUME Checks(descs) # {}
         PROVE  [image |-> image, descs |-> Unchecked(descs)] \in vouched
    <3>1. PICK i \in DOMAIN descs : IsCheck(descs[i])
      BY <2>11 DEF Checks
    <3>2. i \in 1 .. Len(descs)
      BY <2>2, <3>1, ListFacts
    <3>3. descs[i].magic = "CHK" /\ i = find_entry(descs, "CHK") /\ i # 0
      BY <2>2, <3>1, <3>2, CheckFound
    <3>4. descs[i].body = [fw |-> ImageCrc(image), hdr |-> HeaderCrc(image, Unchecked(descs))]
      BY <2>2, <3>3 DEF CheckAccepts
    <3>5. Genuine(descs[i])
      <4>1. PICK k \in 1 .. Len(file) : descs[i] = file[k]
        BY <2>2, <3>2
      <4>2. file[k].magic = "CHK"
        BY <3>3, <4>1
      <4>3. Genuine(file[k])
        BY <4>2 DEF ImageInv, ChecksGenuine
      <4> QED
        BY <4>1, <4>3
    <3> QED
      BY <3>4, <3>5, FitsGenuine
  <2>12. vouched' = vouched
    BY DEF Load
  <2>13. OnlyVouched'
    BY <2>9, <2>11, <2>12 DEF OnlyVouched, Checks, Unchecked
  <2> QED
    BY <1>1, <2>10, <2>13 DEF ImageInv
<1> QED
  BY <1>3, <1>4

\* The pieces of a store: the image, each descriptor, the LAST descriptor.
LEMMA PiecesList ==
  ASSUME NEW p, IsList(p.descs)
  PROVE  /\ IsList(Pieces(p)) /\ Len(Pieces(p)) = Len(p.descs) + 2
         /\ Pieces(p)[1] = p.image
         /\ \A i \in 1 .. Len(p.descs) : Pieces(p)[i + 1] = <<p.descs[i]>>
         /\ Pieces(p)[Len(p.descs) + 2] = <<LastDesc>>
<1> DEFINE D == p.descs
           l == Len(D)
           a == <<p.image>>
           m == [i \in DOMAIN D |-> <<D[i]>>]
           z == <<<<LastDesc>>>>
           T == {<<D[i]>> : i \in 1 .. l}
<1>1. l \in Nat /\ DOMAIN D = 1 .. l
  BY ListLen
<1>2. Pieces(p) = a \o m \o z
  BY DEF Pieces
<1>3. m \in [1 .. l -> T] /\ \A i \in 1 .. l : m[i] = <<D[i]>>
  BY <1>1
<1>4. DOMAIN m = 1 .. l
  BY <1>1
<1> HIDE DEF m, T, l
<1>5. m \in Seq(T)
  BY <1>1, <1>3, SeqDef
<1>6. IsList(m) /\ Len(m) = l
  <2>1. DOMAIN m = 1 .. Len(m) /\ Len(m) \in Nat
    BY <1>5, LenProperties
  <2>2. Len(m) = l
    BY <1>1, <1>4, <2>1, SameRange
  <2> QED
    BY <1>5, <2>2, SeqIsList
<1>7. IsList(a) /\ IsList(z) /\ Len(a) = 1 /\ Len(z) = 1 /\ a[1] = p.image /\ z[1] = <<LastDesc>>
  BY ShortLists
<1> HIDE DEF a, z
<1>8. IsList(a) /\ IsList(m) /\ IsList(z)
  BY <1>6, <1>7
<1>9. /\ IsList(a \o m \o z) /\ Len(a \o m \o z) = Len(a) + Len(m) + Len(z)
      /\ \A i \in 1 .. Len(a) : (a \o m \o z)[i] = a[i]
      /\ \A i \in 1 .. Len(m) : (a \o m \o z)[Len(a) + i] = m[i]
      /\ \A i \in 1 .. Len(z) : (a \o m \o z)[Len(a) + Len(m) + i] = z[i]
  BY <1>8, Parts
<1> DEFINE w == a \o m \o z
<1> HIDE DEF w
<1>10. /\ IsList(w) /\ Len(w) = l + 2 /\ w[1] = p.image
       /\ \A i \in 1 .. l : w[1 + i] = <<D[i]>>
       /\ w[1 + l + 1] = <<LastDesc>>
  BY <1>1, <1>3, <1>6, <1>7, <1>9 DEF w
<1>11. 1 + l + 1 = l + 2 /\ \A i \in 1 .. l : 1 + i = i + 1
  BY <1>1
<1>12. Pieces(p) = w
  BY <1>2 DEF w
<1> QED
  BY <1>10, <1>11, <1>12 DEF l

\* What is left of a list after its head.
LEMMA RestOfList ==
  ASSUME NEW s, IsList(s), NEW m \in 1 .. Len(s)
  PROVE  LET t == SubSeq(s, m, Len(s))
         IN  /\ Head(t) = s[m] /\ Len(t) = Len(s) - m + 1 /\ t # <<>>
             /\ Tail(t) = SubSeq(s, m + 1, Len(s))
<1> DEFINE n == Len(s)
           t == SubSeq(s, m, n)
           u == SubSeq(s, m + 1, n)
<1>1. n \in Nat /\ m \in 1 .. n
  BY DEF IsList
<1>2. m \in 1 .. n + 1 /\ m + 1 \in 1 .. n + 1 /\ n \in m - 1 .. n /\ n \in (m + 1) - 1 .. n
  BY <1>1
<1>3. /\ IsList(t) /\ Len(t) = n - m + 1
      /\ \A i \in 1 .. n - m + 1 : t[i] = s[m + i - 1]
  BY <1>2, SubList
<1> DEFINE k == m + 1
<1>4. /\ IsList(u) /\ Len(u) = n - k + 1
      /\ \A i \in 1 .. n - k + 1 : u[i] = s[k + i - 1]
  <2> HIDE DEF k
  <2>1. k \in 1 .. n + 1 /\ n \in k - 1 .. n
    BY <1>2 DEF k
  <2>2. /\ IsList(SubSeq(s, k, n)) /\ Len(SubSeq(s, k, n)) = n - k + 1
        /\ \A i \in 1 .. n - k + 1 : SubSeq(s, k, n)[i] = s[k + i - 1]
    BY <2>1, SubList
  <2> QED
    BY <2>2 DEF k
<1> HIDE DEF t, u, n
<1>5. t # <<>> /\ t[1] = s[m]
  <2>1. Len(t) > 0
    BY <1>1, <1>3
  <2>2. t # <<>>
    BY <1>3, <2>1, ListLen
  <2>3. t[1] = s[m + 1 - 1] /\ m + 1 - 1 = m
    BY <1>1, <1>3
  <2> QED
    BY <2>2, <2>3
<1>6. Head(t) = t[1]
  BY <1>3 DEF IsList
<1>7. Tail(t) = u
  <2>1. PICK S : t \in Seq(S)
    BY <1>3, ListsAreSeqs
  <2>2. /\ Tail(t) \in Seq(S) /\ Len(Tail(t)) = Len(t) - 1
        /\ \A i \in 1 .. Len(t) - 1 : Tail(t)[i] = t[i + 1]
    BY <1>5, <2>1, HeadTailProperties
  <2>3. IsList(Tail(t)) /\ Len(Tail(t)) = n - m
    <3>1. IsList(Tail(t))
      BY <2>2, SeqIsList
    <3>2. Len(Tail(t)) = n - m
      BY <1>1, <1>3, <2>2
    <3> QED
      BY <3>1, <3>2
  <2>4. Len(u) = n - m
    BY <1>1, <1>4
  <2>5. ASSUME NEW i \in 1 .. n - m
        PROVE  Tail(t)[i] = u[i]
    <3>1. i \in 1 .. Len(t) - 1 /\ i + 1 \in 1 .. n - m + 1 /\ i \in 1 .. n - k + 1
      BY <1>1, <1>3
    <3>2. Tail(t)[i] = t[i + 1] /\ t[i + 1] = s[m + (i + 1) - 1]
      BY <1>3, <2>2, <3>1
    <3>3. u[i] = s[k + i - 1]
      BY <1>4, <3>1
    <3>4. k + i - 1 = m + (i + 1) - 1
      BY <1>1
    <3> QED
      BY <3>2, <3>3, <3>4
  <2> QED
    BY <1>4, <2>3, <2>4, <2>5, SameLists
<1> QED
  BY <1>3, <1>5, <1>6, <1>7 DEF n, t, u

\* What one more cell makes of a file.
LEMMA OneMore ==
  ASSUME NEW s, IsList(s)
  PROVE  /\ s \o <<>> = s /\ <<>> \o s = s
         /\ \A t, x : IsList(t) => s \o t \o <<x>> = s \o Append(t, x)
<1>1. PICK S : s \in Seq(S)
  BY ListsAreSeqs
<1>2. s \o <<>> = s /\ <<>> \o s = s
  BY <1>1, ConcatEmptySeq
<1>3. ASSUME NEW t, NEW x, IsList(t)
      PROVE  s \o t \o <<x>> = s \o Append(t, x)
  <2> DEFINE a == Append(t, x)
             e == <<x>>
             w == s \o t \o e
             v == s \o a
             l == Len(s)
             n == Len(t)
  <2>1. IsList(e) /\ Len(e) = 1 /\ e[1] = x
    BY ShortLists
  <2>2. IsList(a) /\ Len(a) = n + 1 /\ (\A i \in 1 .. n : a[i] = t[i]) /\ a[n + 1] = x
    BY <1>3, AppendList
  <2> HIDE DEF a, e
  <2>3. IsList(s) /\ IsList(t) /\ IsList(e)
    BY <1>3, <2>1
  <2>4. /\ IsList(w) /\ Len(w) = l + n + Len(e)
        /\ \A i \in 1 .. l : w[i] = s[i]
        /\ \A i \in 1 .. n : w[l + i] = t[i]
        /\ \A i \in 1 .. Len(e) : w[l + n + i] = e[i]
    BY <2>3, Parts
  <2>5. /\ IsList(v) /\ Len(v) = l + Len(a)
        /\ \A i \in 1 .. l : v[i] = s[i]
        /\ \A i \in 1 .. Len(a) : v[l + i] = a[i]
    BY <2>2, ConcatList
  <2>6. l \in Nat /\ n \in Nat
    BY <1>3 DEF IsList
  <2> HIDE DEF w, v, l, n
  <2>7. Len(w) = l + n + 1 /\ Len(v) = l + n + 1
    BY <2>1, <2>2, <2>4, <2>5, <2>6
  <2>8. ASSUME NEW i \in 1 .. l + n + 1
        PROVE  w[i] = v[i]
    <3>1. CASE i \in 1 .. l
      BY <2>4, <2>5, <3>1
    <3>2. CASE i \in l + 1 .. l + n
      <4> DEFINE j == i - l
      <4>1. j \in 1 .. n /\ j \in 1 .. n + 1 /\ i = l + j
        BY <2>6, <3>2
      <4> HIDE DEF j
      <4> QED
        BY <2>2, <2>4, <2>5, <4>1
    <3>3. CASE i = l + n + 1
      <4>1. w[l + n + 1] = x
        BY <2>1, <2>4
      <4>2. v[l + (n + 1)] = x
        BY <2>2, <2>5, <2>6
      <4>3. l + (n + 1) = l + n + 1
        BY <2>6
      <4> QED
        BY <3>3, <4>1, <4>2, <4>3
    <3> QED
      BY <2>6, <3>1, <3>2, <3>3
  <2>9. w = v
    BY <2>4, <2>5, <2>7, <2>8, SameLists
  <2> QED
    BY <2>9 DEF w, v, a, e
<1> QED
  BY <1>2, <1>3

\* The descriptors of a store, as far as they are written, stand in the file as they
\* should, and their checksum is genuine.
LEMMA StoredPart ==
  ASSUME NEW descs, ListOK(descs), NEW n \in 0 .. Len(descs)
  PROVE  /\ Stretch(SubSeq(descs, 1, n))
         /\ \A i \in 1 .. Len(SubSeq(descs, 1, n)) :
              i \in 1 .. Len(descs) /\ SubSeq(descs, 1, n)[i] = descs[i]
<1> DEFINE d == SubSeq(descs, 1, n)
<1>1. IsList(descs) /\ Len(descs) \in Nat
  BY ListFacts
<1>2. IsList(d) /\ Len(d) = n /\ \A i \in 1 .. n : d[i] = descs[i]
  BY <1>1, PrefixList
<1> HIDE DEF d
<1>3. \A i \in 1 .. Len(d) : i \in 1 .. Len(descs) /\ d[i] = descs[i]
  BY <1>1, <1>2
<1>4. \A i \in 1 .. Len(d) : DescCell(d[i]) /\ d[i].magic # "LAST" /\ (d[i].magic = "OTAR" => i = 1)
  BY <1>3 DEF ListOK
<1>5. \A i \in 1 .. Len(d) : d[i].magic # "code"
  BY <1>4, NotCode
<1>6. \A i, j \in 1 .. Len(d) : d[i].magic = "CHK" /\ d[j].magic = "CHK" => i = j
  BY <1>3 DEF ListOK
<1>7. Stretch(d)
  BY <1>2, <1>4, <1>5, <1>6 DEF Stretch
<1> QED
  BY <1>3, <1>7 DEF d

\* With the LAST descriptor behind them they still do.
LEMMA StoredWhole ==
  ASSUME NEW descs, ListOK(descs)
  PROVE  /\ Stretch(Append(descs, LastDesc))
         /\ \A i \in 1 .. Len(Append(descs, LastDesc)) :
              Append(descs, LastDesc)[i].magic = "CHK" =>
                i \in 1 .. Len(descs) /\ Append(descs, LastDesc)[i] = descs[i]
<1> DEFINE d == Append(descs, LastDesc)
           n == Len(descs)
<1>1. IsList(descs) /\ n \in Nat /\ n >= 1
  BY ListFacts
<1>2. IsList(d) /\ Len(d) = n + 1 /\ (\A i \in 1 .. n : d[i] = descs[i]) /\ d[n + 1] = LastDesc
  BY <1>1, AppendList
<1>3. DescCell(LastDesc) /\ LastDesc.magic = "LAST"
  BY TextCell DEF Magics, LastDesc
<1> HIDE DEF d
<1>4. \A i \in 1 .. n : DescCell(d[i]) /\ d[i].magic # "LAST" /\ (d[i].magic = "OTAR" => i = 1)
  BY <1>2 DEF ListOK
<1>5. \A i, j \in 1 .. n : d[i].magic = "CHK" /\ d[j].magic = "CHK" => i = j
  BY <1>2 DEF ListOK
<1> HIDE DEF n
<1>6. \A i \in 1 .. Len(d) : i \in 1 .. n \/ (i = Len(d) /\ d[i] = LastDesc)
  BY <1>1, <1>2
<1>7. \A i \in 1 .. Len(d) : d[i].magic = "CHK" => i \in 1 .. n /\ d[i] = descs[i]
  BY <1>2, <1>3, <1>6
<1>8. /\ \A i \in 1 .. Len(d) : DescCell(d[i]) /\ (d[i].magic = "OTAR" => i = 1)
      /\ \A i \in 1 .. Len(d) : d[i].magic = "LAST" => i = Len(d)
  BY <1>3, <1>4, <1>6
<1>9. \A i \in 1 .. Len(d) : d[i].magic # "code"
  BY <1>8, NotCode
<1>10. \A i, j \in 1 .. Len(d) : d[i].magic = "CHK" /\ d[j].magic = "CHK" => i = j
  BY <1>5, <1>7
<1>11. Stretch(d)
  BY <1>2, <1>8, <1>9, <1>10 DEF Stretch
<1> QED
  BY <1>7, <1>11 DEF d, n

\* The only checksum of a store is the one it has computed.
LEMMA OwnCheck ==
  ASSUME NEW p, Firmware(p), Checksummed(p), NEW i \in 1 .. Len(p.descs),
         p.descs[i].magic = "CHK"
  PROVE  Genuine(p.descs[i])
<1> DEFINE n == Len(p.descs)
           c == Check(p.image, Front(p.descs))
<1>1. ListOK(p.descs)
  BY DEF Firmware
<1>2. /\ n > 1 /\ p.descs[n] = c
      /\ [image |-> p.image, descs |-> Front(p.descs)] \in vouched
  BY DEF Checksummed, Check
<1>3. c.magic = "CHK" /\ c.body = [fw |-> ImageCrc(p.image), hdr |-> HeaderCrc(p.image, Front(p.descs))]
  BY CheckCell
<1> HIDE DEF c
<1>4. n \in 1 .. Len(p.descs) /\ p.descs[n].magic = "CHK"
  BY <1>1, <1>2, <1>3, ListFacts
<1>5. i = n
  BY <1>1, <1>4 DEF ListOK
<1>6. Genuine(c)
  BY <1>2, <1>3, FitsGenuine
<1> QED
  BY <1>2, <1>5, <1>6

\* An image is code, and so is nothing at all.
LEMMA CodeOnly ==
  ASSUME NEW image, ImageOK(image)
  PROVE  AllCode(image) /\ AllCode(<<>>) /\ IsList(image)
<1>1. IsList(image) /\ \A i \in 1 .. Len(image) : image[i].magic = "code"
  BY DEF ImageOK
<1>2. IsList(<<>>) /\ Len(<<>>) = 0
  BY ShortLists
<1> QED
  BY <1>1, <1>2 DEF AllCode

\* An emptied file is as it should be.
LEMMA EmptyFile == Layout(<<>>) /\ ChecksGenuine(<<>>)
<1>1. IsList(<<>>) /\ Len(<<>>) = 0
  BY ShortLists
<1> QED
  BY <1>1 DEF Layout, ChecksGenuine

\* Whatever a store has written so far is a file as it should be.
LEMMA PartSound ==
  ASSUME NEW p, Firmware(p), Checksummed(p), NEW n \in 0 .. Len(p.descs) + 1
  PROVE  Layout(Written(p, n)) /\ ChecksGenuine(Written(p, n))
<1>1. ImageOK(p.image) /\ ListOK(p.descs) /\ Len(p.descs) \in Nat
  BY ListFacts DEF Firmware
<1>2. CASE n = 0
  BY <1>2, EmptyFile DEF Written
<1>3. CASE n # 0
  <2> DEFINE k == n - 1
             d == SubSeq(p.descs, 1, k)
  <2>1. k \in 0 .. Len(p.descs)
    BY <1>1, <1>3
  <2>2. Written(p, n) = p.image \o d
    BY <1>3 DEF Written
  <2> HIDE DEF k
  <2>3. Stretch(d) /\ \A i \in 1 .. Len(d) : i \in 1 .. Len(p.descs) /\ d[i] = p.descs[i]
    BY <1>1, <2>1, StoredPart
  <2> HIDE DEF d
  <2>4. \A i \in 1 .. Len(d) : d[i].magic = "CHK" => Genuine(d[i])
    BY <2>3, OwnCheck
  <2>5. AllCode(p.image) /\ AllCode(<<>>) /\ IsList(p.image) /\ IsList(d)
    BY <1>1, <2>3, CodeOnly DEF Stretch
  <2>6. Layout(p.image \o d \o <<>>) /\ ChecksGenuine(p.image \o d \o <<>>)
    BY <2>3, <2>4, <2>5, Assembled
  <2>7. p.image \o d \o <<>> = p.image \o d
    <3>1. IsList(p.image \o d)
      BY <2>5, ConcatList
    <3> QED
      BY <3>1, OneMore
  <2> QED
    BY <2>2, <2>6, <2>7
<1> QED
  BY <1>2, <1>3

\* So is the file at the end of a store.
LEMMA WholeSound ==
  ASSUME NEW p, Firmware(p), Checksummed(p)
  PROVE  /\ Layout(p.image \o p.descs \o <<LastDesc>>)
         /\ ChecksGenuine(p.image \o p.descs \o <<LastDesc>>)
<1> DEFINE d == Append(p.descs, LastDesc)
<1>1. ImageOK(p.image) /\ ListOK(p.descs) /\ IsList(p.descs)
  BY ListFacts DEF Firmware
<1>2. /\ Stretch(d)
      /\ \A i \in 1 .. Len(d) : d[i].magic = "CHK" => i \in 1 .. Len(p.descs) /\ d[i] = p.descs[i]
  BY <1>1, StoredWhole
<1>3. p.image \o p.descs \o <<LastDesc>> = p.image \o d
  <2>1. IsList(p.image) /\ IsList(p.descs)
    BY <1>1, CodeOnly
  <2>2. \A t, x : IsList(t) => p.image \o t \o <<x>> = p.image \o Append(t, x)
    BY <2>1, OneMore
  <2> QED
    BY <2>1, <2>2
<1> HIDE DEF d
<1>4. \A i \in 1 .. Len(d) : d[i].magic = "CHK" => Genuine(d[i])
  BY <1>2, OwnCheck
<1>5. AllCode(p.image) /\ AllCode(<<>>) /\ IsList(p.image) /\ IsList(d)
  BY <1>1, <1>2, CodeOnly DEF Stretch
<1>6. Layout(p.image \o d \o <<>>) /\ ChecksGenuine(p.image \o d \o <<>>)
  BY <1>2, <1>4, <1>5, Assembled
<1>7. p.image \o d \o <<>> = p.image \o d
  <2>1. IsList(p.image \o d)
    BY <1>5, ConcatList
  <2> QED
    BY <2>1, OneMore
<1> QED
  BY <1>3, <1>6, <1>7

\* A store begins with an empty file and everything to be written.
LEMMA StoreBegins ==
  ASSUME ImageInv, NEW p, Firmware(p), Store(p)
  PROVE  ImageInv'
<1> DEFINE rest == Unchecked(p.descs)
           D == Append(rest, Check(p.image, rest))
           q == Holding(p.pc, p.tool, p.image, D, p.todo)
           todo == Pieces(q)
           r == Holding("write", p.tool, p.image, D, todo)
<1>1. ImageOK(p.image) /\ ListOK(p.descs)
  BY DEF Firmware
<1>2. ListOK(rest) /\ NoCheck(rest)
  BY <1>1, RestOK
<1>3. ListOK(D) /\ Len(D) = Len(rest) + 1 /\ Front(D) = rest
  <2> HIDE DEF rest
  <2> QED
    BY <1>2, CheckedOK
<1>4. Len(rest) \in Nat /\ Len(rest) >= 1
  <2> HIDE DEF rest
  <2> QED
    BY <1>2, ListFacts
<1>5. carlfw_apply_checksums(p) = q
  BY ApplyChecks
<1>6. file' = <<>> /\ vouched' = vouched \cup {[image |-> p.image, descs |-> rest]}
  BY DEF Store
<1>7. D[Len(D)] = Check(p.image, rest)
  <2> HIDE DEF rest
  <2>1. IsList(rest)
    BY <1>2, ListFacts
  <2>2. D[Len(rest) + 1] = Check(p.image, rest)
    BY <2>1, AppendList
  <2> QED
    BY <1>3, <2>2
<1> HIDE DEF rest, D
<1>8. proc' = r
  <2>1. proc' = [carlfw_apply_checksums(p) EXCEPT !.pc = "write", !.todo = Pieces(carlfw_apply_checksums(p))]
    BY DEF Store, Pieces
  <2>2. proc' = [q EXCEPT !.pc = "write", !.todo = todo]
    BY <1>5, <2>1
  <2> HIDE DEF todo
  <2> QED
    BY <2>2 DEF Holding
<1>9. q.image = p.image /\ q.descs = D
  BY HoldingIs
<1>10. /\ r.pc = "write" /\ r.image = p.image /\ r.descs = D /\ r.todo = todo /\ Firmware(r)
  <2> HIDE DEF todo
  <2> QED
    BY <1>1, <1>3, HoldingIs
<1>11. Pieces(r) = todo
  BY <1>9, <1>10 DEF Pieces
<1>12. todo = SubSeq(todo, 1, Len(D) + 2)
  <2>1. IsList(D)
    BY <1>3, ListFacts
  <2>2. IsList(Pieces(q)) /\ Len(Pieces(q)) = Len(D) + 2
    <3> HIDE DEF q
    <3> QED
      BY <1>9, <2>1, PiecesList
  <2> HIDE DEF todo
  <2> QED
    BY <2>2, PrefixAll DEF todo
<1> HIDE DEF q, todo, r
<1>13. Firmware(proc') /\ proc'.pc = "write"
  BY <1>8, <1>10
<1>14. Checksummed(proc)'
  <2>1. proc'.descs = D /\ proc'.image = p.image
    BY <1>8, <1>10
  <2>2. Len(D) > 1
    BY <1>3, <1>4
  <2>3. [image |-> p.image, descs |-> rest] \in vouched'
    BY <1>6
  <2> QED
    BY <1>3, <1>7, <2>1, <2>2, <2>3 DEF Checksummed, Check
<1>15. InFile(proc, 0)'
  <2>1. proc' = r /\ r.descs = D /\ r.todo = todo /\ Pieces(r) = todo
    BY <1>8, <1>10, <1>11
  <2>2. 0 + 1 = 1 /\ Written(r, 0) = <<>>
    BY DEF Written
  <2>3. r.todo = SubSeq(Pieces(r), 0 + 1, Len(r.descs) + 2) /\ file' = Written(r, 0)
    BY <1>6, <1>12, <2>1, <2>2
  <2> QED
    BY <2>1, <2>3 DEF InFile, Pieces, Written
<1>16. ProcOK'
  <2>1. Len(proc'.descs) \in Nat
    <3>1. proc'.descs = D
      BY <1>8, <1>10
    <3>2. Len(D) \in Nat
      BY <1>3, <1>4
    <3> QED
      BY <3>1, <3>2
  <2>2. 0 \in 0 .. Len(proc'.descs) + 1
    BY <2>1
  <2>3. (\E n \in 0 .. Len(proc.descs) + 1 : InFile(proc, n))'
    BY <1>15, <2>2
  <2>4. Firmware(proc)'
    BY <1>13 DEF Firmware
  <2> QED
    BY <1>13, <1>14, <2>3, <2>4 DEF ProcOK
<1>17. Layout(file)' /\ ChecksGenuine(file)'
  <2>1. Len(<<>>) = 0
    BY ShortLists
  <2>2. ChecksGenuine(file)'
    BY <1>6, <2>1 DEF ChecksGenuine
  <2> QED
    BY <1>6, <2>2, EmptyFile
<1>18. OnlyVouched'
  BY <1>13 DEF OnlyVouched
<1> QED
  BY <1>16, <1>17, <1>18 DEF ImageInv

\* checksum and the two changes of miniboot begin a store.
LEMMA StoreImage == ImageInv /\ (Checksum \/ AddMini \/ DelMini) => ImageInv'
<1> SUFFICES ASSUME ImageInv, Checksum \/ AddMini \/ DelMini PROVE ImageInv'
  OBVIOUS
<1>1. Firmware(proc)
  BY DEF ImageInv, ProcOK, HasFirmware, Checksum, AddMini, DelMini, Loaded
<1>2. CASE Checksum
  <2>1. Store(proc)
    BY <1>2 DEF Checksum
  <2> QED
    BY <1>1, <2>1, StoreBegins
<1>3. CASE AddMini
  <2>1. Store(add_mini(proc))
    BY <1>3 DEF AddMini
  <2>2. Firmware(add_mini(proc))
    BY <1>1, AddMiniKeeps
  <2> QED
    BY <2>1, <2>2, StoreBegins
<1>4. CASE DelMini
  <2>1. CanDel(proc) /\ Store(del_mini(proc))
    BY <1>4 DEF DelMini
  <2>2. Firmware(del_mini(proc))
    BY <1>1, <2>1, DelMiniKeeps
  <2> QED
    BY <2>1, <2>2, StoreBegins
<1> QED
  BY <1>2, <1>3, <1>4

\* One more piece is in the file.
LEMMA NextPiece ==
  ASSUME NEW p, Firmware(p), NEW n \in 0 .. Len(p.descs) + 1
  PROVE  Written(p, n) \o Pieces(p)[n + 1]
         = IF n = Len(p.descs) + 1 THEN p.image \o p.descs \o <<LastDesc>> ELSE Written(p, n + 1)
<1> DEFINE l == Len(p.descs)
<1>1. IsList(p.descs) /\ l \in Nat /\ l >= 1 /\ IsList(p.image)
  BY ListFacts, CodeOnly DEF Firmware
<1>2. /\ Pieces(p)[1] = p.image /\ Pieces(p)[l + 2] = <<LastDesc>>
      /\ \A i \in 1 .. l : Pieces(p)[i + 1] = <<p.descs[i]>>
  BY <1>1, PiecesList
<1>3. p.image \o <<>> = p.image /\ <<>> \o p.image = p.image
  BY <1>1, OneMore
<1>4. CASE n = 0
  <2>1. SubSeq(p.descs, 1, 1 - 1) = <<>>
    BY PrefixNone
  <2>2. Written(p, 0) = <<>> /\ Written(p, 1) = p.image
    <3>1. Written(p, 0) = <<>>
      BY DEF Written
    <3>2. Written(p, 1) = p.image \o SubSeq(p.descs, 1, 1 - 1)
      BY DEF Written
    <3> QED
      BY <1>3, <2>1, <3>1, <3>2
  <2>3. 0 + 1 = 1 /\ n # l + 1
    BY <1>1, <1>4
  <2> QED
    BY <1>2, <1>3, <1>4, <2>2, <2>3
<1>5. CASE n \in 1 .. l
  <2> DEFINE d == SubSeq(p.descs, 1, n - 1)
             x == p.descs[n]
  <2>1. Written(p, n) = p.image \o d
    <3>1. n # 0
      BY <1>5
    <3> QED
      BY <3>1 DEF Written
  <2>2. Written(p, n + 1) = p.image \o SubSeq(p.descs, 1, n)
    <3>1. n + 1 # 0 /\ (n + 1) - 1 = n
      BY <1>5
    <3> QED
      BY <3>1 DEF Written
  <2>3. SubSeq(p.descs, 1, n) = Append(d, x)
    BY <1>1, <1>5, PrefixStep
  <2>4. IsList(d)
    <3> DEFINE k == n - 1
    <3>1. k \in 0 .. l
      BY <1>1, <1>5
    <3> HIDE DEF k
    <3>2. IsList(SubSeq(p.descs, 1, k))
      BY <1>1, <3>1, PrefixList
    <3> QED
      BY <3>2 DEF k
  <2>5. Pieces(p)[n + 1] = <<x>>
    BY <1>2, <1>5
  <2> HIDE DEF d, x
  <2>6. p.image \o d \o <<x>> = p.image \o Append(d, x)
    <3>1. \A e, y : IsList(e) => p.image \o e \o <<y>> = p.image \o Append(e, y)
      BY <1>1, OneMore
    <3> QED
      BY <2>4, <3>1
  <2>7. n # l + 1
    BY <1>1, <1>5
  <2> QED
    BY <2>1, <2>2, <2>3, <2>5, <2>6, <2>7
<1>6. CASE n = l + 1
  <2>1. n # 0 /\ n - 1 = l /\ n + 1 = l + 2
    BY <1>1, <1>6
  <2>2. Written(p, n) = p.image \o p.descs
    BY <1>1, <2>1, PrefixAll DEF Written
  <2> QED
    BY <1>2, <1>6, <2>1, <2>2
<1>7. n = 0 \/ n \in 1 .. l \/ n = l + 1
  BY <1>1
<1> QED
  BY <1>4, <1>5, <1>6, <1>7

\* What is left to be written.
LEMMA LeftToWrite ==
  ASSUME NEW p, Firmware(p), NEW n \in 0 .. Len(p.descs) + 1,
         p.todo = SubSeq(Pieces(p), n + 1, Len(p.descs) + 2)
  PROVE  /\ Head(p.todo) = Pieces(p)[n + 1]
         /\ Tail(p.todo) = SubSeq(Pieces(p), n + 2, Len(p.descs) + 2)
         /\ Len(p.todo) = 1 <=> n = Len(p.descs) + 1
<1> DEFINE s == Pieces(p)
           m == n + 1
           l == Len(p.descs)
<1>1. IsList(p.descs) /\ l \in Nat
  BY ListFacts DEF Firmware
<1>2. IsList(s) /\ Len(s) = l + 2
  BY <1>1, PiecesList
<1>3. m \in 1 .. Len(s)
  BY <1>1, <1>2
<1>4. p.todo = SubSeq(s, m, Len(s))
  BY <1>2
<1>5. m + 1 = n + 2
  BY <1>1
<1> HIDE DEF s, m
<1>6. /\ Head(p.todo) = s[m] /\ Len(p.todo) = Len(s) - m + 1
      /\ Tail(p.todo) = SubSeq(s, m + 1, Len(s))
  BY <1>2, <1>3, <1>4, RestOfList
<1>7. Len(p.todo) = l + 2 - n
  BY <1>1, <1>2, <1>6 DEF m
<1>8. Len(p.todo) = 1 <=> n = l + 1
  BY <1>1, <1>7
<1>9. Head(p.todo) = s[n + 1] /\ Tail(p.todo) = SubSeq(s, n + 2, l + 2)
  BY <1>2, <1>5, <1>6 DEF m
<1> QED
  BY <1>8, <1>9 DEF s

\* A store goes on by one piece, or ends with the LAST descriptor.
LEMMA WriteImage == ImageInv /\ fwrite => ImageInv'
<1> SUFFICES ASSUME ImageInv, fwrite PROVE ImageInv'
  OBVIOUS
<1>1. /\ proc.pc = "write" /\ file' = file \o Head(proc.todo) /\ vouched' = vouched
      /\ proc' = [proc EXCEPT !.todo = Tail(@), !.pc = IF Len(proc.todo) = 1 THEN "stored" ELSE @]
  BY DEF fwrite
<1>2. Firmware(proc) /\ Checksummed(proc)
  BY <1>1 DEF ImageInv, ProcOK, HasFirmware
<1>3. PICK n \in 0 .. Len(proc.descs) + 1 : InFile(proc, n)
  BY <1>1 DEF ImageInv, ProcOK
<1> DEFINE l == Len(proc.descs)
           pc == IF Len(proc.todo) = 1 THEN "stored" ELSE "write"
           todo == Tail(proc.todo)
           r == Holding(pc, proc.tool, proc.image, proc.descs, todo)
<1>4. l \in Nat /\ ImageOK(proc.image) /\ ListOK(proc.descs)
  BY <1>2, ListFacts DEF Firmware
<1>5. /\ Head(proc.todo) = Pieces(proc)[n + 1] /\ todo = SubSeq(Pieces(proc), n + 2, l + 2)
      /\ Len(proc.todo) = 1 <=> n = l + 1
  <2>1. proc.todo = SubSeq(Pieces(proc), n + 1, Len(proc.descs) + 2)
    BY <1>3 DEF InFile
  <2> QED
    BY <1>2, <2>1, LeftToWrite
<1>6. file' = IF n = l + 1 THEN proc.image \o proc.descs \o <<LastDesc>> ELSE Written(proc, n + 1)
  <2>1. file = Written(proc, n)
    BY <1>3 DEF InFile
  <2> QED
    BY <1>1, <1>2, <1>5, <2>1, NextPiece
<1>7. proc' = r
  <2>1. proc = Holding(proc.pc, proc.tool, proc.image, proc.descs, proc.todo)
    BY <1>2, FirmwareIs
  <2>2. proc' = [proc EXCEPT !.todo = todo, !.pc = pc]
    BY <1>1
  <2> DEFINE x == proc.pc
             t == proc.tool
             i == proc.image
             d == proc.descs
             o == proc.todo
  <2>3. proc = Holding(x, t, i, d, o) /\ r = Holding(pc, t, i, d, todo)
    BY <2>1
  <2> HIDE DEF x, t, i, d, o, pc, todo, r
  <2>4. proc' = [Holding(x, t, i, d, o) EXCEPT !.todo = todo, !.pc = pc]
    BY <2>2, <2>3
  <2>5. [Holding(x, t, i, d, o) EXCEPT !.todo = todo, !.pc = pc] = Holding(pc, t, i, d, todo)
    <3>1. [Holding(x, t, i, d, o) EXCEPT !.todo = todo] = Holding(x, t, i, d, todo)
      BY DEF Holding
    <3>2. [Holding(x, t, i, d, todo) EXCEPT !.pc = pc] = Holding(pc, t, i, d, todo)
      BY DEF Holding
    <3>3. [Holding(x, t, i, d, o) EXCEPT !.todo = todo, !.pc = pc]
          = [[Holding(x, t, i, d, o) EXCEPT !.todo = todo] EXCEPT !.pc = pc]
      OBVIOUS
    <3> QED
      BY <3>1, <3>2, <3>3
  <2> QED
    BY <2>3, <2>4, <2>5
<1> HIDE DEF pc, todo
<1>8. /\ r.pc = pc /\ r.image = proc.image /\ r.descs = proc.descs /\ r.todo = todo /\ Firmware(r)
  BY <1>4, HoldingIs
<1> HIDE DEF r
<1>9. Firmware(proc)' /\ proc'.pc = pc
  <2>1. Firmware(proc')
    BY <1>7, <1>8
  <2> QED
    BY <1>7, <1>8, <2>1 DEF Firmware
<1>10. proc'.image = proc.image /\ proc'.descs = proc.descs /\ proc'.todo = todo
  BY <1>7, <1>8
<1>11. Checksummed(proc)'
  BY <1>1, <1>2, <1>10 DEF Checksummed
<1>12. CASE n = l + 1
  <2>1. pc = "stored"
    BY <1>5, <1>12 DEF pc
  <2>2. file' = proc.image \o proc.descs \o <<LastDesc>>
    BY <1>6, <1>12
  <2>3. Layout(file') /\ ChecksGenuine(file')
    BY <1>2, <2>2, WholeSound
  <2>4. ProcOK'
    BY <1>9, <1>10, <1>11, <2>1, <2>2 DEF ProcOK
  <2>5. OnlyVouched'
    BY <1>9, <2>1 DEF OnlyVouched
  <2>6. ChecksGenuine(file)'
    BY <1>1, <2>3 DEF ChecksGenuine, Genuine
  <2> QED
    BY <2>3, <2>4, <2>5, <2>6 DEF ImageInv
<1>13. CASE n # l + 1
  <2>1. pc = "write"
    BY <1>5, <1>13 DEF pc
  <2> DEFINE m == n + 1
  <2>2. file' = Written(proc, m)
    BY <1>6, <1>13
  <2>3. m \in 0 .. l + 1 /\ m + 1 = n + 2
    BY <1>4, <1>13
  <2> HIDE DEF m
  <2>4. Layout(file') /\ ChecksGenuine(file')
    BY <1>2, <2>2, <2>3, PartSound
  <2>5. InFile(proc, m)'
    <3>1. Pieces(proc)' = Pieces(proc) /\ Written(proc, m)' = Written(proc, m)
      BY <1>10 DEF Pieces, Written
    <3>2. proc'.todo = SubSeq(Pieces(proc), m + 1, l + 2)
      BY <1>5, <1>10, <2>3
    <3> QED
      BY <1>10, <2>2, <3>1, <3>2 DEF InFile
  <2>6. (\E k \in 0 .. Len(proc.descs) + 1 : InFile(proc, k))'
    BY <1>10, <2>3, <2>5
  <2>7. ProcOK'
    BY <1>9, <1>11, <2>1, <2>6 DEF ProcOK
  <2>8. OnlyVouched'
    BY <1>9, <2>1 DEF OnlyVouched
  <2>9. ChecksGenuine(file)'
    BY <1>1, <2>4 DEF ChecksGenuine, Genuine
  <2> QED
    BY <2>4, <2>7, <2>8, <2>9 DEF ImageInv
<1> QED
  BY <1>12, <1>13

\* A damaged cell is still a cell, and a damaged checksum fits nothing.
LEMMA DamageImage == ImageInv /\ Damage => ImageInv'
<1> SUFFICES ASSUME ImageInv, Damage PROVE ImageInv'
  OBVIOUS
<1>1. Layout(file) /\ ChecksGenuine(file)
  BY DEF ImageInv
<1>0. PICK k \in DOMAIN file : \E d \in Damaged(file[k]) : file' = [file EXCEPT ![k] = d]
  BY DEF Damage
<1>2. PICK d \in Damaged(file[k]) : file' = [file EXCEPT ![k] = d]
  BY <1>0
<1> DEFINE n == Len(file)
           g == file'
           T == {g[i] : i \in 1 .. n}
<1>3. IsList(file) /\ n \in Nat /\ DOMAIN file = 1 .. n
  BY <1>1, ListLen DEF Layout
<1>4. \A i \in 1 .. n : g[i] = IF i = k THEN d ELSE file[i]
  BY <1>2, <1>3
<1>5. DOMAIN g = 1 .. n /\ g \in [1 .. n -> T]
  BY <1>2, <1>3
<1> HIDE DEF T, n, g
<1>6. g \in Seq(T)
  BY <1>3, <1>5, SeqDef
<1>7. IsList(g) /\ Len(g) = n
  <2>1. DOMAIN g = 1 .. Len(g) /\ Len(g) \in Nat
    BY <1>6, LenProperties
  <2>2. Len(g) = n
    BY <1>3, <1>5, <2>1, SameRange
  <2> QED
    BY <1>6, <2>2, SeqIsList
<1>8. ASSUME NEW i \in 1 .. n
      PROVE  /\ Cell(g[i]) /\ (file[i].magic = "code" <=> g[i].magic = "code")
             /\ g[i].magic = file[i].magic \/ g[i].magic = "XXXX"
             /\ g[i].magic = "CHK" => \/ g[i].body = file[i].body
                                      \/ g[i].body.fw = <<>> \/ g[i].body.hdr = <<>>
  <2>1. Cell(file[i])
    BY <1>1 DEF Layout, n
  <2>2. CASE i = k
    <3>1. g[i] = d /\ d \in Damaged(file[i])
      BY <1>2, <1>4, <2>2
    <3> QED
      BY <2>1, <3>1, DamagedCell
  <2>3. CASE i # k
    <3>1. g[i] = file[i]
      BY <1>4, <2>3
    <3> QED
      BY <2>1, <3>1
  <2> QED
    BY <2>2, <2>3
<1>9. Layout(g)
  <2>1. \A i, j \in 1 .. n : file[i].magic = "OTAR" /\ j < i => file[j].magic = "code"
    BY <1>1 DEF Layout, n
  <2>2. \A i, j \in 1 .. n : file[i].magic = "LAST" /\ i < j => file[j].magic = "code"
    BY <1>1 DEF Layout, n
  <2>3. \A i, j \in 1 .. n : file[i].magic = "CHK" /\ file[j].magic = "CHK" => i = j
    BY <1>1 DEF Layout, n
  <2>4. \A i \in 1 .. n : g[i].magic \in {"OTAR", "LAST", "CHK"} => g[i].magic = file[i].magic
    BY <1>8
  <2>5. \A i, j \in 1 .. n : g[i].magic = "OTAR" /\ j < i => g[j].magic = "code"
    BY <1>8, <2>1, <2>4
  <2>6. \A i, j \in 1 .. n : g[i].magic = "LAST" /\ i < j => g[j].magic = "code"
    BY <1>8, <2>2, <2>4
  <2>7. \A i, j \in 1 .. n : g[i].magic = "CHK" /\ g[j].magic = "CHK" => i = j
    BY <2>3, <2>4
  <2> QED
    BY <1>7, <1>8, <2>5, <2>6, <2>7 DEF Layout
<1>10. \A i \in 1 .. n : g[i].magic = "CHK" => Genuine(g[i])
  <2> SUFFICES ASSUME NEW i \in 1 .. n, g[i].magic = "CHK" PROVE Genuine(g[i])
    OBVIOUS
  <2>1. file[i].magic = "CHK"
    BY <1>8
  <2>2. Genuine(file[i])
    BY <1>1, <2>1 DEF ChecksGenuine, n
  <2> QED
    BY <1>8, <2>2 DEF Genuine
<1>11. ChecksGenuine(file)'
  <2>1. vouched' = vouched
    BY DEF Damage
  <2> QED
    BY <1>7, <1>10, <2>1 DEF ChecksGenuine, Genuine, g
<1>12. proc.pc = "off" /\ proc' = proc
  BY DEF Damage, NoProgram
<1>13. ProcOK' /\ OnlyVouched'
  BY <1>12 DEF ProcOK, HasFirmware, OnlyVouched
<1> QED
  BY <1>9, <1>11, <1>13 DEF ImageInv, g

\* The other steps only end a program.
LEMMA EndImage ==
  ImageInv /\ (NoAdd \/ NoDel \/ Show \/ Refused \/ Finish \/ CutShort) => ImageInv'
<1> SUFFICES ASSUME ImageInv, NoAdd \/ NoDel \/ Show \/ Refused \/ Finish \/ CutShort PROVE ImageInv'
  OBVIOUS
<1>1. proc' = NoProgram /\ UNCHANGED <<file, vouched>>
  BY DEF NoAdd, NoDel, Show, Refused, Finish, CutShort, GiveUp
<1>2. proc'.pc = "off"
  BY <1>1 DEF NoProgram
<1>3. ProcOK' /\ OnlyVouched'
  BY <1>2 DEF ProcOK, HasFirmware, OnlyVouched
<1> QED
  BY <1>1, <1>3, SameFile DEF ImageInv

\* Nothing changes.
LEMMA StutterImage == ImageInv /\ UNCHANGED imageVars => ImageInv'
<1> SUFFICES ASSUME ImageInv, UNCHANGED imageVars PROVE ImageInv'
  OBVIOUS
<1>1. file' = file /\ proc' = proc /\ vouched' = vouched
  BY DEF imageVars
<1>2. Layout(file)' /\ ChecksGenuine(file)'
  BY <1>1, SameFile
<1>3. ProcOK'
  BY <1>1 DEF ImageInv, ProcOK, HasFirmware, Firmware, Checksummed, InFile, Written, Pieces
<1>4. OnlyVouched'
  BY <1>1 DEF ImageInv, OnlyVouched
<1> QED
  BY <1>2, <1>3, <1>4 DEF ImageInv

-----------------------------------------------------------------------------
(* What the invariant says of a load *)

\* The list without its last entry.
LEMMA FrontOf ==
  ASSUME NEW s, IsList(s), Len(s) >= 1
  PROVE  RemoveAt(s, Len(s)) = Front(s) /\ s = Append(Front(s), s[Len(s)])
<1> DEFINE n == Len(s)
           k == n - 1
           t == SubSeq(s, 1, k)
<1>1. n \in Nat /\ n \in 1 .. n /\ k \in 0 .. n /\ k + 1 = n
  BY DEF IsList
<1>2. Front(s) = t
  BY DEF Front
<1>3. s = Append(t, s[n])
  <2>1. SubSeq(s, 1, n) = s
    BY PrefixAll
  <2>2. SubSeq(s, 1, n) = Append(SubSeq(s, 1, n - 1), s[n])
    BY <1>1, PrefixStep
  <2> QED
    BY <2>1, <2>2
<1> HIDE DEF k
<1>4. IsList(t) /\ Len(t) = k
  BY <1>1, PrefixList
<1> HIDE DEF t
<1>5. RemoveAt(Append(t, s[n]), Len(t) + 1) = t
  BY <1>4, RemoveLast
<1> QED
  BY <1>1, <1>2, <1>3, <1>4, <1>5

\* A store that ended well can be loaded: the descriptors are found where they begin and
\* end, and the list is read up to its end.
LEMMA StoredLoads ==
  ASSUME NEW image, ImageOK(image), NEW descs, ListOK(descs), CheckAccepts(image, descs)
  PROVE  carlfw_load(image \o descs \o <<LastDesc>>)
         = [err |-> "none", image |-> image, descs |-> descs]
<1> DEFINE z == <<LastDesc>>
           f == image \o descs \o z
           m == Len(image)
           l == Len(descs)
<1>1. IsList(image) /\ IsList(descs) /\ IsList(z)
  BY CodeOnly, ListFacts, ShortLists
<1>2. m \in Nat /\ m >= 1 /\ l \in Nat /\ l >= 1
  <2>1. m \in Nat /\ m > 0
    BY <1>1, ListLen DEF ImageOK
  <2> QED
    BY <2>1, ListFacts
<1>3. Len(z) = 1 /\ z[1] = LastDesc
  BY ShortLists
<1> HIDE DEF z
<1>4. /\ IsList(f) /\ Len(f) = m + l + Len(z)
      /\ \A i \in 1 .. m : f[i] = image[i]
      /\ \A i \in 1 .. l : f[m + i] = descs[i]
      /\ \A i \in 1 .. Len(z) : f[m + l + i] = z[i]
  BY <1>1, Parts
<1> HIDE DEF f
<1> DEFINE n == m + l + 1
           o == m + 1
<1>5. Len(f) = n /\ f[n] = LastDesc /\ f[o] = descs[1]
  BY <1>2, <1>3, <1>4
<1>6. n \in Nat /\ o \in 2 .. n /\ n \in 2 .. n /\ o < n
  BY <1>2
<1>7. DescCell(LastDesc) /\ LastDesc.magic = "LAST" /\ LastDesc.length # 0
  <2>1. "LAST" \in Magics /\ Body("LAST", [text |-> "none"])
    BY TextBody DEF Magics
  <2>2. DescCell(LastDesc) /\ LastDesc.magic = "LAST" /\ LastDesc.length = Size["LAST"]
    BY <2>1, FilledIn DEF LastDesc, Text
  <2>3. Size["LAST"] # 0
    BY DEF Size
  <2> QED
    BY <2>2, <2>3
<1>8. ASSUME NEW i \in 1 .. n
      PROVE  \/ f[i].magic = "code"
             \/ \E j \in 1 .. l : i = m + j /\ f[i] = descs[j]
             \/ i = n /\ f[i] = LastDesc
  <2>1. CASE i \in 1 .. m
    <3>1. f[i] = image[i] /\ image[i].magic = "code"
      BY <1>4, <2>1 DEF ImageOK
    <3> QED
      BY <3>1
  <2>2. CASE i \in m + 1 .. m + l
    <3> DEFINE j == i - m
    <3>1. j \in 1 .. l /\ i = m + j
      BY <1>2, <2>2
    <3> HIDE DEF j
    <3>2. f[m + j] = descs[j]
      BY <1>4, <3>1
    <3> QED
      BY <3>1, <3>2
  <2>3. CASE i = n
    BY <1>5, <2>3
  <2>4. i \in 1 .. m \/ i \in m + 1 .. m + l \/ i = n
    BY <1>2
  <2> QED
    BY <2>1, <2>2, <2>3, <2>4
<1>9. Find(f, "OTAR") = o
  <2>1. carl9170fw_desc_cmp(f[o], "OTAR")
    <3>1. find_entry(descs, "OTAR") = 1
      BY HeadFound
    <3> QED
      BY <1>1, <1>5, <3>1, FoundEntry
  <2>2. ASSUME NEW i \in 1 .. n, f[i].magic = "OTAR"
        PROVE  i <= o
    <3>1. CASE \E j \in 1 .. l : i = m + j /\ f[i] = descs[j]
      <4>1. PICK j \in 1 .. l : i = m + j /\ f[i] = descs[j]
        BY <3>1
      <4>2. j = 1
        BY <2>2, <4>1 DEF ListOK
      <4> QED
        BY <1>2, <4>1, <4>2
    <3> QED
      BY <1>7, <1>8, <2>2, <3>1
  <2> HIDE DEF o, n
  <2> QED
    BY <1>4, <1>5, <1>6, <2>1, <2>2, FindsLast
<1>10. Find(f, "LAST") = n
  <2>1. carl9170fw_desc_cmp(f[n], "LAST")
    <3>1. "LAST" \in Magics
      BY DEF Magics
    <3> QED
      BY <1>5, <1>7, <3>1, Matches
  <2>2. \A i \in 1 .. n : f[i].magic = "LAST" => i <= n
    BY <1>6
  <2> HIDE DEF o, n
  <2> QED
    BY <1>4, <1>5, <1>6, <2>1, <2>2, FindsLast
<1> HIDE DEF n, o
<1>11. carlfw_parse_descs(f, o) = descs
  <2>1. Ends(f[n])
    BY <1>5, <1>7 DEF Ends
  <2>2. o \in 1 .. Len(f) /\ n \in o .. Len(f)
    BY <1>5, <1>6
  <2>3. PICK k \in 0 .. n - o :
           /\ IsList(carlfw_parse_descs(f, o)) /\ Len(carlfw_parse_descs(f, o)) = k
           /\ \A j \in 1 .. k : carlfw_parse_descs(f, o)[j] = f[o + j - 1] /\ ~Ends(f[o + j - 1])
           /\ Ends(f[o + k])
    BY <1>4, <2>1, <2>2, ParsedList
  <2>4. \A j \in 1 .. l : f[o + j - 1] = descs[j] /\ o + j - 1 = m + j
    <3>1. \A j \in 1 .. l : o + j - 1 = m + j
      BY <1>2 DEF o
    <3> QED
      BY <1>4, <3>1
  <2>5. \A j \in 1 .. l : ~Ends(descs[j])
    <3> SUFFICES ASSUME NEW j \in 1 .. l PROVE ~Ends(descs[j])
      OBVIOUS
    <3>1. /\ DescCell(descs[j]) /\ descs[j].magic # "LAST"
          /\ descs[j].length >= HeadLen /\ descs[j].length < MaxLen
      BY DEF ListOK
    <3>2. IsDesc(descs[j]) /\ descs[j].length \in Nat
      BY <3>1, NotCode DEF IsDesc, DescCell
    <3> QED
      BY <3>1, <3>2 DEF Ends, HeadLen, MaxLen
  <2>6. k = l
    <3>1. n - o = l
      BY <1>2 DEF n, o
    <3>2. k \in 0 .. l
      BY <3>1
    <3>3. ASSUME k < l
          PROVE  FALSE
      <4> DEFINE j == k + 1
      <4>1. j \in 1 .. l /\ o + j - 1 = o + k
        BY <1>2, <1>6, <3>2, <3>3
      <4> HIDE DEF j
      <4>2. f[o + k] = descs[j] /\ ~Ends(descs[j])
        BY <2>4, <2>5, <4>1
      <4> QED
        BY <2>3, <4>2
    <3> QED
      BY <1>2, <3>2, <3>3
  <2> DEFINE d == carlfw_parse_descs(f, o)
  <2> HIDE DEF d
  <2>7. IsList(d) /\ Len(d) = l /\ \A j \in 1 .. l : d[j] = descs[j]
    BY <2>3, <2>4, <2>6 DEF d
  <2>8. d = descs
    BY <1>1, <2>7, SameLists
  <2> QED
    BY <2>8 DEF d
<1>12. SubSeq(f, 1, o - 1) \o SubSeq(f, n + 1, Len(f)) = image
  <2>1. o - 1 = m /\ m \in 0 .. Len(f)
    BY <1>2, <1>5 DEF o, n
  <2>2. IsList(SubSeq(f, 1, m)) /\ Len(SubSeq(f, 1, m)) = m /\ \A i \in 1 .. m : SubSeq(f, 1, m)[i] = f[i]
    BY <1>4, <2>1, PrefixList
  <2>3. SubSeq(f, 1, m) = image
    <3> DEFINE a == SubSeq(f, 1, m)
    <3> HIDE DEF a
    <3>1. IsList(a) /\ Len(a) = Len(image) /\ \A i \in 1 .. Len(a) : a[i] = image[i]
      BY <1>4, <2>2 DEF a
    <3>2. a = image
      BY <1>1, <3>1, SameLists
    <3> QED
      BY <3>2 DEF a
  <2>4. SubSeq(f, n + 1, n) = <<>>
    BY <1>6, SubSeqEmpty
  <2>5. image \o <<>> = image
    BY <1>1, OneMore
  <2> QED
    BY <1>5, <2>1, <2>3, <2>4, <2>5
<1>13. o # 0 /\ n # 0 /\ ~(o > n)
  BY <1>6
<1>14. carlfw_load(f) = [err |-> "none", image |-> image, descs |-> descs]
  BY <1>9, <1>10, <1>11, <1>12, <1>13 DEF carlfw_load
<1> QED
  BY <1>14 DEF f, z

\* What a store has computed fits, and computing it again gives the same.
LEMMA StoredFits ==
  ASSUME NEW p, Firmware(p), Checksummed(p)
  PROVE  /\ CheckAccepts(p.image, p.descs) /\ Checks(p.descs) = {Len(p.descs)}
         /\ carlfw_apply_checksums(p).descs = p.descs
<1> DEFINE D == p.descs
           n == Len(D)
           rest == Front(D)
           c == Check(p.image, rest)
<1>1. ListOK(D) /\ IsList(D) /\ n \in Nat /\ DOMAIN D = 1 .. n
  BY ListFacts DEF Firmware
<1>2. n > 1 /\ D[n] = c
  BY DEF Checksummed, Check
<1>3. c.magic = "CHK" /\ c.body = [fw |-> ImageCrc(p.image), hdr |-> HeaderCrc(p.image, rest)]
  BY CheckCell
<1> HIDE DEF c
<1>4. n \in 1 .. n /\ D[n].magic = "CHK"
  BY <1>1, <1>2, <1>3
<1> HIDE DEF D
<1>5. /\ find_entry(D, "CHK") = n
      /\ \A j \in 1 .. n : IsCheck(D[j]) <=> j = n
  <2>1. /\ \A j \in 1 .. n : D[j].magic = "CHK" <=> j = find_entry(D, "CHK")
        /\ \A j \in 1 .. n : IsCheck(D[j]) <=> j = find_entry(D, "CHK")
    BY <1>1, CheckFound
  <2> QED
    BY <1>4, <2>1
<1>6. RemoveAt(D, n) = rest /\ D = Append(rest, D[n])
  <2>1. IsList(D) /\ Len(D) >= 1
    BY <1>1, <1>2
  <2>2. RemoveAt(D, Len(D)) = Front(D) /\ D = Append(Front(D), D[Len(D)])
    BY <2>1, FrontOf
  <2> QED
    BY <2>2
<1>7. Unchecked(D) = rest
  <2>1. Unchecked(D) = IF find_entry(D, "CHK") = 0 THEN D ELSE RemoveAt(D, find_entry(D, "CHK"))
    BY <1>1, RestOK
  <2> QED
    BY <1>2, <1>5, <1>6, <2>1
<1> HIDE DEF rest
<1>8. CheckAccepts(p.image, D)
  BY <1>2, <1>3, <1>5, <1>7 DEF CheckAccepts
<1>9. Checks(D) = {n}
  BY <1>1, <1>4, <1>5 DEF Checks
<1>10. carlfw_apply_checksums(p).descs = D
  <2>1. carlfw_apply_checksums(p)
        = Holding(p.pc, p.tool, p.image,
                  Append(Unchecked(p.descs), Check(p.image, Unchecked(p.descs))), p.todo)
    BY ApplyChecks
  <2>2. carlfw_apply_checksums(p).descs = Append(Unchecked(D), Check(p.image, Unchecked(D)))
    <3> DEFINE w == Append(Unchecked(p.descs), Check(p.image, Unchecked(p.descs)))
    <3>1. carlfw_apply_checksums(p) = Holding(p.pc, p.tool, p.image, w, p.todo)
      BY <2>1
    <3>2. w = Append(Unchecked(D), Check(p.image, Unchecked(D)))
      BY DEF D
    <3> DEFINE x == p.pc
               t == p.tool
               i == p.image
               o == p.todo
    <3>3. carlfw_apply_checksums(p) = Holding(x, t, i, w, o)
      BY <3>1
    <3> HIDE DEF w, x, t, i, o
    <3>4. Holding(x, t, i, w, o).descs = w
      BY DEF Holding
    <3> QED
      BY <3>2, <3>3, <3>4
  <2>3. Append(Unchecked(D), Check(p.image, Unchecked(D))) = Append(rest, c)
    BY <1>7 DEF c
  <2> QED
    BY <1>2, <1>6, <2>2, <2>3
<1> QED
  BY <1>8, <1>9, <1>10 DEF D

\* A file without a LAST descriptor is refused.
LEMMA NoEnd ==
  ASSUME NEW f, IsList(f), \A i \in 1 .. Len(f) : f[i].magic # "LAST"
  PROVE  carlfw_load(f).err = "ENODATA"
<1>1. Find(f, "LAST") = 0
  <2>1. ASSUME Find(f, "LAST") # 0
        PROVE  FALSE
    <3> DEFINE l == Find(f, "LAST")
    <3>1. l \in 2 .. Len(f) /\ carl9170fw_desc_cmp(f[l], "LAST")
      BY <2>1, FoundLast
    <3> HIDE DEF l
    <3>2. l \in 1 .. Len(f) /\ f[l].magic = "LAST"
      BY <3>1 DEF carl9170fw_desc_cmp, IsList
    <3> QED
      BY <3>2
  <2> QED
    BY <2>1
<1> QED
  BY <1>1 DEF carlfw_load

\* The LAST descriptor comes last: whatever else a store has written is refused.
LEMMA PartRefused ==
  ASSUME NEW p, Firmware(p), NEW n \in 0 .. Len(p.descs) + 1
  PROVE  carlfw_load(Written(p, n)).err = "ENODATA"
<1>1. ImageOK(p.image) /\ ListOK(p.descs) /\ Len(p.descs) \in Nat
  BY ListFacts DEF Firmware
<1>2. CASE n = 0
  <2>1. IsList(<<>>) /\ Len(<<>>) = 0
    BY ShortLists
  <2>2. carlfw_load(<<>>).err = "ENODATA"
    <3>1. IsList(<<>>) /\ \A i \in 1 .. Len(<<>>) : <<>>[i].magic # "LAST"
      BY <2>1
    <3> QED
      BY <3>1, NoEnd
  <2>3. Written(p, n) = <<>>
    BY <1>2 DEF Written
  <2> QED
    BY <2>2, <2>3
<1>3. CASE n # 0
  <2> DEFINE k == n - 1
             d == SubSeq(p.descs, 1, k)
             f == p.image \o d
  <2>1. k \in 0 .. Len(p.descs)
    BY <1>1, <1>3
  <2>2. Written(p, n) = f
    BY <1>3 DEF Written
  <2> HIDE DEF k
  <2>3. Stretch(d) /\ \A i \in 1 .. Len(d) : i \in 1 .. Len(p.descs) /\ d[i] = p.descs[i]
    BY <1>1, <2>1, StoredPart
  <2> HIDE DEF d
  <2>4. \A i \in 1 .. Len(d) : d[i].magic # "LAST"
    BY <1>1, <2>3 DEF ListOK
  <2>5. IsList(p.image) /\ IsList(d) /\ \A i \in 1 .. Len(p.image) : p.image[i].magic = "code"
    BY <1>1, <2>3 DEF Stretch, ImageOK
  <2>6. /\ IsList(f) /\ Len(f) = Len(p.image) + Len(d)
        /\ \A i \in 1 .. Len(p.image) : f[i] = p.image[i]
        /\ \A i \in 1 .. Len(d) : f[Len(p.image) + i] = d[i]
    BY <2>5, ConcatList
  <2> HIDE DEF f
  <2>7. ASSUME NEW i \in 1 .. Len(f)
        PROVE  f[i].magic # "LAST"
    <3>1. Len(p.image) \in Nat /\ Len(d) \in Nat
      BY <2>5 DEF IsList
    <3> DEFINE j == i - Len(p.image)
    <3>2. i \in 1 .. Len(p.image) \/ (j \in 1 .. Len(d) /\ i = Len(p.image) + j)
      BY <2>6, <3>1
    <3> HIDE DEF j
    <3> QED
      BY <2>4, <2>5, <2>6, <3>2
  <2>8. carlfw_load(f).err = "ENODATA"
    BY <2>6, <2>7, NoEnd
  <2> QED
    BY <2>2, <2>8
<1> QED
  BY <1>2, <1>3

\* The invariant says all that ImageSound says.
LEMMA ImpliesSound == ImageInv => ImageSound
<1> SUFFICES ASSUME ImageInv PROVE ImageSound
  OBVIOUS
<1>1. ProcOK /\ OnlyVouched
  BY DEF ImageInv
<1>2. CountersAgree
  BY <1>1 DEF ProcOK, CountersAgree, Firmware
<1>3. ASSUME proc.pc = "stored"
      PROVE  RoundTrip
  <2>1. Firmware(proc) /\ Checksummed(proc) /\ file = proc.image \o proc.descs \o <<LastDesc>>
    BY <1>1, <1>3 DEF ProcOK, HasFirmware
  <2>2. /\ CheckAccepts(proc.image, proc.descs) /\ Checks(proc.descs) = {Len(proc.descs)}
        /\ carlfw_apply_checksums(proc).descs = proc.descs
    BY <2>1, StoredFits
  <2>3. ImageOK(proc.image) /\ ListOK(proc.descs)
    BY <2>1 DEF Firmware
  <2>4. carlfw_load(file) = [err |-> "none", image |-> proc.image, descs |-> proc.descs]
    BY <2>1, <2>2, <2>3, StoredLoads
  <2> DEFINE r == carlfw_load(file)
  <2>5. r.err = "none" /\ r.image = proc.image /\ r.descs = proc.descs
    BY <2>4
  <2> HIDE DEF r
  <2> QED
    BY <2>2, <2>5 DEF RoundTrip, r
<1>4. ASSUME proc.pc = "write"
      PROVE  carlfw_load(file).err = "ENODATA"
  <2>1. Firmware(proc)
    BY <1>1, <1>4 DEF ProcOK, HasFirmware
  <2>2. PICK n \in 0 .. Len(proc.descs) + 1 : InFile(proc, n)
    BY <1>1, <1>4 DEF ProcOK
  <2>3. file = Written(proc, n)
    BY <2>2 DEF InFile
  <2> QED
    BY <2>1, <2>3, PartRefused
<1>5. RoundTrip /\ CutShortRefused
  BY <1>3, <1>4 DEF RoundTrip, CutShortRefused
<1> QED
  BY <1>1, <1>2, <1>5 DEF ImageSound

-----------------------------------------------------------------------------

\* Every step keeps the invariant.
LEMMA ImageStep == ImageInv /\ [ImageNext]_imageVars => ImageInv'
<1> SUFFICES ASSUME ImageInv, [ImageNext]_imageVars PROVE ImageInv'
  OBVIOUS
<1>1. CASE Load
  BY <1>1, LoadImage
<1>2. CASE Checksum \/ AddMini \/ DelMini
  BY <1>2, StoreImage
<1>3. CASE fwrite
  BY <1>3, WriteImage
<1>4. CASE Damage
  BY <1>4, DamageImage
<1>5. CASE NoAdd \/ NoDel \/ Show \/ Refused \/ Finish \/ CutShort
  BY <1>5, EndImage
<1>6. CASE UNCHANGED imageVars
  BY <1>6, StutterImage
<1> QED
  BY <1>1, <1>2, <1>3, <1>4, <1>5, <1>6 DEF ImageNext

\* Whatever is linked, and however many programs are run, killed while they write
\* or meet damaged cells: a program takes from a file with a checksum only what some
\* store computed it for, counts the descriptors it holds, and loads again what a store
\* wrote to its end, while a store that was cut short is refused (carlfw_load(),
\* carlfw_store(), carlfw_apply_checksums()).
THEOREM ImageIsSound == ImageSpec => []ImageSound
<1>1. ImageInit => ImageInv
  BY InitImage
<1>2. ImageInv /\ [ImageNext]_imageVars => ImageInv'
  BY ImageStep
<1> QED
  BY <1>1, <1>2, ImpliesSound, PTL DEF ImageSpec
=============================================================================

--------------------------- MODULE RingArithmetic ---------------------------
(***************************************************************************)
(* The arithmetic of indices that are counted up and reduced modulo the     *)
(* size of their ring, as tx_status_cache, int_buf and ba_cache do it; and    *)
(* the induction over the places of a chain of descriptors.                 *)
(***************************************************************************)
EXTENDS Integers, WellFoundedInduction, TLAPS

\* An index below the size is left alone.
LEMMA ModSmall ==
  ASSUME NEW n \in Nat \ {0}, NEW x \in 0 .. n - 1
  PROVE  x % n = x
  BY SMTT(20)

\* A remainder by n is an index.
LEMMA ModIsIndex ==
  ASSUME NEW n \in Nat \ {0}, NEW x \in Int
  PROVE  x % n \in 0 .. n - 1
  BY SMTT(20)

\* Taking l entries off the front moves the head and leaves the end of the
\* pending stretch where it is.
LEMMA EndStays ==
  ASSUME NEW n \in Nat \ {0}, NEW h \in 0 .. n - 1, NEW p \in 0 .. n,
         NEW l \in 1 .. p, h + l <= n
  PROVE  (((h + l) % n) + (p - l)) % n = (h + p) % n
<1>1. (h + l) % n = IF h + l < n THEN h + l ELSE 0
  BY SMTT(20)
<1>2. (h + p) % n = IF h + p < n THEN h + p ELSE h + p - n
  BY SMTT(20)
<1>3. CASE h + l < n
  BY <1>1, <1>3
<1>4. CASE h + l = n
  <2>1. (p - l) % n = p - l
    BY ModSmall
  <2> QED
    BY <1>1, <1>2, <1>4, <2>1
<1> QED
  BY <1>3, <1>4

\* Counting on from a head that has moved by l is counting on from the old one.
LEMMA StepFromHead ==
  ASSUME NEW n \in Nat \ {0}, NEW h \in 0 .. n - 1, NEW l \in 1 .. n,
         NEW j \in 0 .. n - 1, h + l <= n, l + j <= n
  PROVE  (((h + l) % n) + j) % n = (h + (l + j)) % n
<1>1. (h + l) % n = IF h + l < n THEN h + l ELSE 0
  BY SMTT(20)
<1>2. (h + (l + j)) % n = IF h + (l + j) < n THEN h + (l + j) ELSE h + (l + j) - n
  BY SMTT(20)
<1>3. CASE h + l < n
  BY <1>1, <1>3
<1>4. CASE h + l = n
  <2>1. j % n = j
    BY ModSmall
  <2> QED
    BY <1>1, <1>2, <1>4, <2>1
<1> QED
  BY <1>3, <1>4

\* The slot handed out becomes the last pending one: this is what keeps the
\* tail in step when a report is added.
LEMMA TailFollows ==
  ASSUME NEW n \in Nat \ {0}, NEW h \in 0 .. n - 1, NEW p \in 0 .. n - 1
  PROVE  (((h + p) % n) + 1) % n = (h + (p + 1)) % n
<1>1. (h + p) % n = IF h + p < n THEN h + p ELSE h + p - n
  BY SMTT(20)
<1>2. (h + (p + 1)) % n = IF h + (p + 1) < n THEN h + (p + 1) ELSE h + (p + 1) - n
  BY SMTT(20)
<1>3. (n - 1 + 1) % n = 0
  BY SMTT(20)
<1>4. CASE h + p = n - 1
  BY <1>1, <1>2, <1>3, <1>4
<1>5. CASE h + p # n - 1
  <2>1. (h + p) % n \in 0 .. n - 2
    BY <1>1, <1>5
  <2>2. (((h + p) % n) + 1) % n = ((h + p) % n) + 1
    BY <2>1, ModSmall
  <2> QED
    BY <1>1, <1>2, <1>5, <2>2
<1> QED
  BY <1>4, <1>5

\* Fewer than n steps from the head never meet the same slot twice.
LEMMA SlotsDiffer ==
  ASSUME NEW n \in Nat \ {0}, NEW h \in 0 .. n - 1,
         NEW a \in 0 .. n - 1, NEW b \in 0 .. n - 1, a # b
  PROVE  (h + a) % n # (h + b) % n
<1>1. (h + a) % n = IF h + a < n THEN h + a ELSE h + a - n
  BY SMTT(20)
<1>2. (h + b) % n = IF h + b < n THEN h + b ELSE h + b - n
  BY SMTT(20)
<1> QED
  BY <1>1, <1>2

-----------------------------------------------------------------------------
(* Induction over the naturals, with a set for the property *)

Less == {ss \in Nat \X Nat : ss[1] < ss[2]}

\* Less is well founded.
LEMMA LessIsWellFounded == IsWellFoundedOn(Less, Nat)
BY NatLessThanWellFounded DEF OpToRel, Less

\* A set of naturals that is not empty has a least element.
LEMMA Least ==
  ASSUME NEW T \in SUBSET Nat, T # {}
  PROVE  \E x \in T : \A y \in T : x <= y
<1>1. PICK x \in T : \A y \in T : ~(<<y, x>> \in Less)
  BY LessIsWellFounded, WFMin
<1>2. ASSUME NEW y \in T PROVE x <= y
  <2>1. x \in Nat /\ y \in Nat
    OBVIOUS
  <2>2. ~(<<y, x>> \in Less)
    BY <1>1
  <2>3. <<y, x>> \in Nat \X Nat /\ <<y, x>>[1] = y /\ <<y, x>>[2] = x
    BY <2>1
  <2>4. ~(y < x)
    BY <2>2, <2>3 DEF Less
  <2> QED
    BY <2>1, <2>4
<1> QED
  BY <1>2

\* Induction: a set that has 0 and with every natural the next one has them all.
LEMMA Induct ==
  ASSUME NEW S, 0 \in S, \A n \in Nat : n \in S => n + 1 \in S
  PROVE  \A n \in Nat : n \in S
<1> DEFINE T == {n \in Nat : n \notin S}
<1> SUFFICES ASSUME T # {} PROVE FALSE
  OBVIOUS
<1>1. PICK x \in T : \A y \in T : x <= y
  BY Least
<1>2. x \in Nat /\ x # 0
  OBVIOUS
<1>3. x - 1 \in Nat /\ x - 1 \notin T
  BY <1>1, <1>2
<1> QED
  BY <1>2, <1>3
=============================================================================

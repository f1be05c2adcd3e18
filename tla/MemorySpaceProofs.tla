------------------------- MODULE MemorySpaceProofs --------------------------
(***************************************************************************)
(* Theorems about MemorySpace: the list of holes is in order and merged,   *)
(* no cell is handed out twice, and the allocator implements               *)
(* PageAllocator.                                                          *)
(***************************************************************************)
EXTENDS MemorySpace, SequenceTheorems, FiniteSetTheorems, WellFoundedInduction,
        TLAPS

-----------------------------------------------------------------------------
(* Numbers: whole pages. *)

LEMMA Below ==
  ASSUME NEW m \in Nat, NEW n \in Nat
  PROVE  <<m, n>> \in OpToRel(<, Nat) <=> m < n
  BY DEF OpToRel

\* Every set of numbers has a least one.
LEMMA LeastNat ==
  ASSUME NEW S, S \subseteq Nat, S # {}
  PROVE  \E m \in S : \A k \in S : m <= k
<1>1. PICK R : R = OpToRel(<, Nat)
  OBVIOUS
<1>2. IsWellFoundedOn(R, Nat)
  BY <1>1, NatLessThanWellFounded
<1>3. PICK m \in S : \A k \in S : ~(<<k, m>> \in R)
  BY <1>2, WFMin
<1>4. ASSUME NEW k \in S PROVE m <= k
  <2>1. k \in Nat /\ m \in Nat
    OBVIOUS
  <2>2. ~(k < m)
    BY <1>1, <1>3, <2>1, Below
  <2> QED
    BY <2>1, <2>2
<1> QED
  BY <1>4

LEMMA Division ==
  ASSUME NEW p \in Nat, p > 0, NEW a \in Nat
  PROVE  \E q, r \in Nat : /\ q = a \div p /\ r = a % p
                           /\ r < p /\ a = q * p + r
<1>1. a \div p \in Nat /\ a % p \in Nat /\ a % p < p
  OBVIOUS
<1>2. ASSUME NEW q \in Int, q = a \div p PROVE a % p = a - p * q
  BY <1>2
<1>3. PICK q \in Nat, r \in Nat : q = a \div p /\ r = a % p
  BY <1>1
<1>4. r < p /\ r = a - p * q
  BY <1>1, <1>2, <1>3
<1>5. a = q * p + r
  BY <1>4
<1> QED
  BY <1>3, <1>4, <1>5

LEMMA Remainder ==
  ASSUME NEW p \in Nat, p > 0, NEW q \in Nat, NEW r \in Nat, r < p
  PROVE  (q * p + r) % p = r /\ (q * p + r) \div p = q
<1>1. \A a \in Nat : a = p * q + r => a % p = r
  OBVIOUS
<1>2. \A a \in Nat : a = p * q + r => a \div p = q
  OBVIOUS
<1>3. q * p + r = p * q + r /\ q * p + r \in Nat
  OBVIOUS
<1> QED
  BY <1>1, <1>2, <1>3

LEMMA Multiple ==
  ASSUME NEW p \in Nat, p > 0, NEW a \in Nat
  PROVE  a % p = 0 <=> \E k \in Nat : a = k * p
<1>1. a % p = 0 => \E k \in Nat : a = k * p
  BY Division
<1>2. ASSUME NEW k \in Nat, a = k * p PROVE a % p = 0
  <2>1. (k * p + 0) % p = 0
    BY Remainder
  <2>2. k * p + 0 = a
    BY <1>2
  <2> QED
    BY <2>1, <2>2
<1> QED
  BY <1>1, <1>2

LEMMA Multiples ==
  ASSUME NEW p \in Nat, p > 0, NEW a \in Nat, NEW b \in Nat,
         a % p = 0, b % p = 0
  PROVE  /\ (a + b) % p = 0
         /\ b <= a => (a - b) % p = 0
         /\ b < a => b + p <= a
<1>1. PICK k \in Nat : a = k * p
  BY Multiple
<1>2. PICK m \in Nat : b = m * p
  BY Multiple
<1>3. a + b = (k + m) * p /\ k + m \in Nat /\ a + b \in Nat
  BY <1>1, <1>2
<1>4. b <= a => m <= k
  BY <1>1, <1>2
<1>5. m <= k => a - b = (k - m) * p /\ k - m \in Nat /\ a - b \in Nat
  BY <1>1, <1>2
<1>6. b < a => m < k
  BY <1>1, <1>2
<1>7. m < k => (m + 1) * p <= k * p
  OBVIOUS
<1>8. (m + 1) * p = b + p
  BY <1>2
<1> QED
  BY <1>1, <1>3, <1>4, <1>5, <1>6, <1>7, <1>8, Multiple

\* roundup, and a multiple of a page inside it is below what was rounded.
LEMMA Rounded ==
  ASSUME NEW n \in Nat
  PROVE  /\ RoundUp(n) \in Nat /\ RoundUp(n) % Page = 0
         /\ n <= RoundUp(n) /\ RoundUp(n) < n + Page
<1>1. Page \in Nat /\ Page > 0
  BY MemorySpaceAssumption
<1>2. PICK q \in Nat, r \in Nat : r = n % Page /\ r < Page /\ n = q * Page + r
  BY <1>1, Division
<1>3. RoundUp(n) = IF r = 0 THEN n ELSE (n + Page) - r
  BY <1>2, Zenon DEF RoundUp
<1>4. RoundUp(n) = IF r = 0 THEN q * Page ELSE (q + 1) * Page
  BY <1>1, <1>2, <1>3
<1>5. RoundUp(n) \in Nat /\ n <= RoundUp(n) /\ RoundUp(n) < n + Page
  BY <1>1, <1>2, <1>3
<1>6. \E k \in Nat : RoundUp(n) = k * Page
  BY <1>4
<1> QED
  BY <1>1, <1>5, <1>6, Multiple

-----------------------------------------------------------------------------
(* Lists of holes. *)

HoleSet == [base : Nat, len : Nat]

\* The cells of a list of holes.
CellsOf(s) == UNION {Run(s[i].base, s[i].len) : i \in DOMAIN s}

\* The holes of s are in order and apart, except that those at the positions
\* of A may touch the next one.
Loose(s, A) ==
  /\ s \in Seq(HoleSet)
  /\ \A i \in 1 .. Len(s) : s[i].len > 0
  /\ \A i, j \in 1 .. Len(s) : i < j =>
       \/ End(s[i]) < s[j].base
       \/ End(s[i]) = s[j].base /\ i \in A

LEMMA HoleTyped ==
  ASSUME NEW s \in Seq(HoleSet), NEW i \in 1 .. Len(s)
  PROVE  /\ s[i] \in HoleSet /\ s[i].base \in Nat /\ s[i].len \in Nat
         /\ End(s[i]) \in Nat /\ End(s[i]) = s[i].base + s[i].len
<1>1. s[i] \in HoleSet
  BY ElementOfSeq
<1> QED
  BY <1>1 DEF HoleSet, End

LEMMA InCells ==
  ASSUME NEW s \in Seq(HoleSet), NEW x
  PROVE  x \in CellsOf(s) <=>
           \E i \in 1 .. Len(s) : x \in Nat /\ s[i].base <= x /\ x < End(s[i])
<1>1. DOMAIN s = 1 .. Len(s)
  BY LenProperties
<1>2. ASSUME NEW i \in 1 .. Len(s)
      PROVE  x \in Run(s[i].base, s[i].len) <=>
               x \in Nat /\ s[i].base <= x /\ x < End(s[i])
  BY HoleTyped DEF Run
<1> QED
  BY <1>1, <1>2 DEF CellsOf

\* The operators of SequencesExt, by position.
LEMMA Removed ==
  ASSUME NEW S, NEW s \in Seq(S), NEW i \in 1 .. Len(s)
  PROVE  /\ RemoveAt(s, i) \in Seq(S) /\ Len(RemoveAt(s, i)) = Len(s) - 1
         /\ \A j \in 1 .. Len(s) - 1 :
              RemoveAt(s, i)[j] = IF j < i THEN s[j] ELSE s[j + 1]
<1> DEFINE u == SubSeq(s, 1, i - 1)
           v == SubSeq(s, i + 1, Len(s))
<1>1. Len(s) \in Nat /\ \A j \in 1 .. Len(s) : s[j] \in S
  BY LenProperties, ElementOfSeq
<1>2. /\ u \in Seq(S) /\ Len(u) = i - 1
      /\ \A j \in 1 .. i - 1 : u[j] = s[j]
  <2>1. \A j \in 1 .. i - 1 : s[j] \in S
    BY <1>1
  <2>2. /\ u \in Seq(S) /\ Len(u) = IF 1 <= i - 1 THEN i - 1 - 1 + 1 ELSE 0
        /\ \A j \in 1 .. i - 1 - 1 + 1 : u[j] = s[1 + j - 1]
    BY <1>1, <2>1, SubSeqProperties
  <2> QED
    BY <1>1, <2>2
<1>3. /\ v \in Seq(S) /\ Len(v) = Len(s) - i
      /\ \A j \in 1 .. Len(s) - i : v[j] = s[i + j]
  <2>1. \A j \in i + 1 .. Len(s) : s[j] \in S
    BY <1>1
  <2>2. /\ v \in Seq(S)
        /\ Len(v) = IF i + 1 <= Len(s) THEN Len(s) - (i + 1) + 1 ELSE 0
        /\ \A j \in 1 .. Len(s) - (i + 1) + 1 : v[j] = s[i + 1 + j - 1]
    BY <1>1, <2>1, SubSeqProperties
  <2> QED
    BY <1>1, <2>2
<1>4. RemoveAt(s, i) = u \o v
  BY DEF RemoveAt
<1> HIDE DEF u, v
<1>5. /\ u \o v \in Seq(S) /\ Len(u \o v) = Len(s) - 1
      /\ \A j \in 1 .. Len(s) - 1 :
           (u \o v)[j] = IF j <= i - 1 THEN u[j] ELSE v[j - (i - 1)]
  <2>1. Len(u) + Len(v) = Len(s) - 1
    BY <1>1, <1>2, <1>3
  <2>2. /\ u \o v \in Seq(S) /\ Len(u \o v) = Len(u) + Len(v)
        /\ \A j \in 1 .. Len(u) + Len(v) :
             (u \o v)[j] = IF j <= Len(u) THEN u[j] ELSE v[j - Len(u)]
    BY <1>2, <1>3, ConcatProperties
  <2> QED
    BY <1>2, <2>1, <2>2
<1>6. ASSUME NEW j \in 1 .. Len(s) - 1
      PROVE  (u \o v)[j] = IF j < i THEN s[j] ELSE s[j + 1]
  <2>1. CASE j < i
    BY <1>1, <1>2, <1>5, <2>1
  <2>2. CASE ~(j < i)
    <3>1. /\ j - (i - 1) \in 1 .. Len(s) - i /\ i + (j - (i - 1)) = j + 1
          /\ ~(j <= i - 1)
      BY <1>1, <2>2
    <3>2. (u \o v)[j] = v[j - (i - 1)]
      BY <1>5, <3>1
    <3>3. v[j - (i - 1)] = s[i + (j - (i - 1))]
      BY <1>3, <3>1
    <3> QED
      BY <2>2, <3>1, <3>2, <3>3
  <2> QED
    BY <2>1, <2>2
<1> QED
  BY <1>4, <1>5, <1>6

LEMMA Inserted ==
  ASSUME NEW S, NEW s \in Seq(S), NEW k \in 1 .. Len(s) + 1, NEW e \in S
  PROVE  /\ InsertAt(s, k, e) \in Seq(S) /\ Len(InsertAt(s, k, e)) = Len(s) + 1
         /\ \A j \in 1 .. Len(s) + 1 :
              InsertAt(s, k, e)[j] = IF j < k THEN s[j]
                                     ELSE IF j = k THEN e ELSE s[j - 1]
<1> DEFINE u == SubSeq(s, 1, k - 1)
           v == SubSeq(s, k, Len(s))
           w == u \o <<e>>
<1>1. Len(s) \in Nat /\ \A j \in 1 .. Len(s) : s[j] \in S
  BY LenProperties, ElementOfSeq
<1>2. /\ u \in Seq(S) /\ Len(u) = k - 1
      /\ \A j \in 1 .. k - 1 : u[j] = s[j]
  <2>1. \A j \in 1 .. k - 1 : s[j] \in S
    BY <1>1
  <2>2. /\ u \in Seq(S) /\ Len(u) = IF 1 <= k - 1 THEN k - 1 - 1 + 1 ELSE 0
        /\ \A j \in 1 .. k - 1 - 1 + 1 : u[j] = s[1 + j - 1]
    BY <1>1, <2>1, SubSeqProperties
  <2> QED
    BY <1>1, <2>2
<1>3. /\ v \in Seq(S) /\ Len(v) = Len(s) + 1 - k
      /\ \A j \in 1 .. Len(s) + 1 - k : v[j] = s[k + j - 1]
  <2>1. \A j \in k .. Len(s) : s[j] \in S
    BY <1>1
  <2>2. /\ v \in Seq(S) /\ Len(v) = IF k <= Len(s) THEN Len(s) - k + 1 ELSE 0
        /\ \A j \in 1 .. Len(s) - k + 1 : v[j] = s[k + j - 1]
    BY <1>1, <2>1, SubSeqProperties
  <2> QED
    BY <1>1, <2>2
<1>4. InsertAt(s, k, e) = w \o v
  BY DEF InsertAt
<1>5. <<e>> \in Seq(S) /\ Len(<<e>>) = 1 /\ <<e>>[1] = e
  OBVIOUS
<1> HIDE DEF u, v
<1>6. /\ w \in Seq(S) /\ Len(w) = k
      /\ \A j \in 1 .. k : w[j] = IF j <= k - 1 THEN u[j] ELSE <<e>>[j - (k - 1)]
  <2>1. Len(u) + Len(<<e>>) = k
    BY <1>2, <1>5
  <2> QED
    BY <1>2, <1>5, <2>1, ConcatProperties
<1> HIDE DEF w
<1>7. /\ w \o v \in Seq(S) /\ Len(w \o v) = Len(s) + 1
      /\ \A j \in 1 .. Len(s) + 1 :
           (w \o v)[j] = IF j <= k THEN w[j] ELSE v[j - k]
  <2>1. Len(w) + Len(v) = Len(s) + 1
    BY <1>1, <1>3, <1>6
  <2>2. /\ w \o v \in Seq(S) /\ Len(w \o v) = Len(w) + Len(v)
        /\ \A j \in 1 .. Len(w) + Len(v) :
             (w \o v)[j] = IF j <= Len(w) THEN w[j] ELSE v[j - Len(w)]
    BY <1>3, <1>6, ConcatProperties
  <2> QED
    BY <1>6, <2>1, <2>2
<1>8. ASSUME NEW j \in 1 .. Len(s) + 1
      PROVE  (w \o v)[j] = IF j < k THEN s[j] ELSE IF j = k THEN e ELSE s[j - 1]
  <2>1. CASE j < k
    BY <1>1, <1>2, <1>6, <1>7, <2>1
  <2>2. CASE j = k
    BY <1>1, <1>5, <1>6, <1>7, <2>2
  <2>3. CASE j > k
    <3>1. /\ j - k \in 1 .. Len(s) + 1 - k /\ k + (j - k) - 1 = j - 1
          /\ ~(j <= k) /\ ~(j < k) /\ j # k
      BY <1>1, <2>3
    <3>2. (w \o v)[j] = v[j - k]
      BY <1>7, <3>1
    <3>3. v[j - k] = s[k + (j - k) - 1]
      BY <1>3, <3>1
    <3> QED
      BY <3>1, <3>2, <3>3
  <2>4. j < k \/ j = k \/ j > k
    BY <1>1
  <2> QED
    BY <2>1, <2>2, <2>3, <2>4
<1> QED
  BY <1>4, <1>7, <1>8

-----------------------------------------------------------------------------
(* merge_hole. *)

\* Where the next hole does not touch there is no exception.
LEMMA Tightened ==
  ASSUME NEW s, NEW A, Loose(s, A), NEW i \in Nat, ~Touches(s, i)
  PROVE  Loose(s, A \ {i})
<1>1. s \in Seq(HoleSet) /\ Len(s) \in Nat
  BY LenProperties DEF Loose
<1>2. ASSUME NEW m \in 1 .. Len(s), NEW n \in 1 .. Len(s), m < n
      PROVE  \/ End(s[m]) < s[n].base
             \/ End(s[m]) = s[n].base /\ m \in A \ {i}
  <2>1. CASE m # i
    BY <1>2, <2>1 DEF Loose
  <2>2. CASE m = i
    <3>1. i + 1 \in 1 .. Len(s) /\ End(s[i]) # s[i + 1].base
      BY <1>1, <1>2, <2>2 DEF Touches
    <3>2. End(s[i]) < s[i + 1].base
      BY <1>1, <2>2, <3>1 DEF Loose
    <3>3. n = i + 1 \/ i + 1 < n
      BY <1>1, <1>2, <2>2
    <3>4. CASE i + 1 < n
      <4>1. End(s[i + 1]) <= s[n].base
        <5>1. End(s[i + 1]) < s[n].base \/ End(s[i + 1]) = s[n].base
          BY <3>1, <3>4 DEF Loose
        <5> QED
          BY <1>1, <3>1, <5>1, HoleTyped
      <4>2. /\ End(s[i]) \in Nat /\ s[i + 1].base \in Nat /\ s[n].base \in Nat
            /\ s[i + 1].base <= End(s[i + 1]) /\ End(s[i + 1]) \in Nat
        BY <1>1, <2>2, <3>1, HoleTyped
      <4> QED
        BY <2>2, <3>2, <4>1, <4>2
    <3> QED
      BY <2>2, <3>2, <3>3, <3>4
  <2> QED
    BY <2>1, <2>2
<1> QED
  BY <1>1, <1>2 DEF Loose

\* Absorbing the next hole: the same cells in one hole less.
LEMMA Absorbed ==
  ASSUME NEW s, NEW A, Loose(s, A), NEW i \in Nat \ {0}, Touches(s, i),
         NEW B, \A a \in A : a # i => a > i /\ a - 1 \in B, A \subseteq Nat
  PROVE  Loose(Absorb(s, i), B) /\ CellsOf(Absorb(s, i)) = CellsOf(s)
<1> DEFINE h == Hole(s[i].base, s[i].len + s[i + 1].len)
           t == [s EXCEPT ![i] = h]
           u == RemoveAt(t, i + 1)
<1>1. /\ s \in Seq(HoleSet) /\ Len(s) \in Nat
      /\ i \in 1 .. Len(s) /\ i + 1 \in 1 .. Len(s)
      /\ End(s[i]) = s[i + 1].base
  BY LenProperties DEF Loose, Touches
<1>2. /\ s[i] \in HoleSet /\ s[i].base \in Nat /\ s[i].len \in Nat
      /\ End(s[i]) = s[i].base + s[i].len
      /\ s[i + 1].base \in Nat /\ s[i + 1].len \in Nat
      /\ End(s[i + 1]) = s[i + 1].base + s[i + 1].len
  BY <1>1, HoleTyped
<1>3. /\ h \in HoleSet /\ h.base = s[i].base /\ h.len = s[i].len + s[i + 1].len
      /\ End(h) = End(s[i + 1])
  <2>1. PICK base \in Nat, m \in Nat, n \in Nat :
          base = s[i].base /\ m = s[i].len /\ n = s[i + 1].len
    BY <1>2
  <2>2. h = [base |-> base, len |-> m + n] /\ m + n \in Nat
    BY <2>1 DEF Hole
  <2>3. End(s[i + 1]) = base + m + n
    BY <1>1, <1>2, <2>1
  <2>4. End(h) = base + (m + n) /\ base + (m + n) = base + m + n
    BY <2>1, <2>2 DEF End
  <2> QED
    BY <2>1, <2>2, <2>3, <2>4 DEF HoleSet
<1>4. Absorb(s, i) = u
  <2>1. [s EXCEPT ![i].len = @ + s[i + 1].len] = t
    <3>1. [s[i] EXCEPT !.len = @ + s[i + 1].len] = h
      BY <1>2 DEF HoleSet, Hole
    <3> QED
      BY <3>1, Zenon
  <2> QED
    BY <2>1 DEF Absorb
<1> HIDE DEF h
<1>5. /\ t \in Seq(HoleSet) /\ Len(t) = Len(s)
      /\ \A j \in 1 .. Len(s) : t[j] = IF j = i THEN h ELSE s[j]
  <2>1. s \in Seq(HoleSet) /\ i \in 1 .. Len(s) /\ h \in HoleSet
    BY <1>1, <1>3
  <2> QED
    BY <2>1, ExceptSeq
<1> HIDE DEF t
<1>6. /\ u \in Seq(HoleSet) /\ Len(u) = Len(s) - 1
      /\ \A j \in 1 .. Len(s) - 1 : u[j] = IF j < i + 1 THEN t[j] ELSE t[j + 1]
  <2>1. t \in Seq(HoleSet) /\ i + 1 \in 1 .. Len(t)
    BY <1>1, <1>5
  <2>2. /\ RemoveAt(t, i + 1) \in Seq(HoleSet)
        /\ Len(RemoveAt(t, i + 1)) = Len(t) - 1
        /\ \A j \in 1 .. Len(t) - 1 :
             RemoveAt(t, i + 1)[j] = IF j < i + 1 THEN t[j] ELSE t[j + 1]
    BY <2>1, Removed
  <2> QED
    BY <1>5, <2>2
<1> HIDE DEF u
<1>7. ASSUME NEW j \in 1 .. Len(u)
      PROVE  /\ j < i => u[j] = s[j]
             /\ j = i => u[j] = h
             /\ j > i => u[j] = s[j + 1]
  <2>1. j \in 1 .. Len(s) - 1 /\ j \in 1 .. Len(s) /\ j + 1 \in 1 .. Len(s)
    BY <1>1, <1>6
  <2>2. j < i => u[j] = t[j] /\ t[j] = s[j]
    BY <1>1, <1>5, <1>6, <2>1
  <2>3. j = i => u[j] = t[j] /\ t[j] = h
    BY <1>1, <1>5, <1>6, <2>1
  <2>4. j > i => u[j] = t[j + 1] /\ t[j + 1] = s[j + 1]
    BY <1>1, <1>5, <1>6, <2>1
  <2> QED
    BY <2>2, <2>3, <2>4
<1>8. \A j \in 1 .. Len(u) : u[j].len > 0
  <2> SUFFICES ASSUME NEW j \in 1 .. Len(u) PROVE u[j].len > 0
    OBVIOUS
  <2>1. j \in 1 .. Len(s) /\ j + 1 \in 1 .. Len(s)
    BY <1>1, <1>6
  <2>2. s[j].len > 0 /\ s[j + 1].len > 0 /\ s[i].len > 0
    BY <1>1, <2>1 DEF Loose
  <2>3. j < i \/ j = i \/ j > i
    BY <1>1, <2>1
  <2> QED
    BY <1>2, <1>3, <1>7, <2>2, <2>3
<1>9. ASSUME NEW m \in 1 .. Len(u), NEW n \in 1 .. Len(u), m < n
      PROVE  \/ End(u[m]) < u[n].base
             \/ End(u[m]) = u[n].base /\ m \in B
  <2>1. /\ m \in 1 .. Len(s) /\ n \in 1 .. Len(s)
        /\ m + 1 \in 1 .. Len(s) /\ n + 1 \in 1 .. Len(s) /\ m + 1 < n + 1
    BY <1>1, <1>6, <1>9
  <2>2. CASE n <= i
    <3>1. u[m] = s[m] /\ u[n].base = s[n].base
      BY <1>1, <1>3, <1>7, <1>9, <2>2
    <3>2. End(s[m]) < s[n].base
      <4>1. m \notin A
        BY <1>1, <1>9, <2>2
      <4> QED
        BY <1>9, <2>1, <4>1 DEF Loose
    <3> QED
      BY <3>1, <3>2
  <2>3. CASE m < i /\ n > i
    <3>1. u[m] = s[m] /\ u[n] = s[n + 1]
      BY <1>7, <2>3
    <3>2. m \notin A
      BY <1>1, <2>3
    <3>3. m < n + 1
      BY <1>9, <2>1
    <3> QED
      BY <2>1, <3>1, <3>2, <3>3 DEF Loose
  <2>4. CASE m = i
    <3>1. End(u[m]) = End(s[i + 1]) /\ u[n] = s[n + 1]
      BY <1>3, <1>7, <1>9, <2>1, <2>4
    <3>2. i + 1 < n + 1 /\ (i + 1 \in A => i \in B)
      BY <1>1, <1>9, <2>1, <2>4
    <3> QED
      BY <1>1, <2>1, <2>4, <3>1, <3>2 DEF Loose
  <2>5. CASE m > i
    <3>1. n > i
      BY <1>1, <1>9, <2>1, <2>5
    <3>2. u[m] = s[m + 1] /\ u[n] = s[n + 1]
      BY <1>7, <2>5, <3>1
    <3>3. m + 1 \in A => m \in B
      BY <1>1, <2>1, <2>5
    <3> QED
      BY <2>1, <3>2, <3>3 DEF Loose
  <2> QED
    BY <1>1, <1>6, <2>2, <2>3, <2>4, <2>5
<1>10. ASSUME NEW x \in CellsOf(s) PROVE x \in CellsOf(u)
  <2>1. PICK j \in 1 .. Len(s) : x \in Nat /\ s[j].base <= x /\ x < End(s[j])
    BY <1>1, InCells
  <2>2. CASE j < i
    <3>1. j \in 1 .. Len(u) /\ u[j] = s[j]
      BY <1>1, <1>6, <1>7, <2>2
    <3> QED
      BY <1>6, <2>1, <3>1, InCells
  <2>3. CASE j \in {i, i + 1}
    <3>1. i \in 1 .. Len(u) /\ u[i] = h
      BY <1>1, <1>6, <1>7
    <3>2. h.base <= x /\ x < End(h)
      <4>1. /\ s[i].base <= End(s[i]) /\ End(s[i]) \in Nat
            /\ End(s[i]) <= End(s[i + 1]) /\ End(s[i + 1]) \in Nat
            /\ s[i + 1].base = End(s[i])
        <5>1. \A a, n \in Nat : a <= a + n /\ a + n \in Nat
          OBVIOUS
        <5>2. s[i].base <= End(s[i]) /\ End(s[i]) \in Nat
          BY <1>2, <5>1
        <5>3. s[i + 1].base <= End(s[i + 1]) /\ End(s[i + 1]) \in Nat
          BY <1>2, <5>1
        <5> QED
          BY <1>1, <5>2, <5>3
      <4>2. x \in Nat /\ s[i].base <= x /\ x < End(s[i + 1])
        <5>1. CASE j = i
          BY <1>2, <2>1, <4>1, <5>1
        <5>2. CASE j = i + 1
          BY <1>2, <2>1, <4>1, <5>2
        <5> QED
          BY <2>3, <5>1, <5>2
      <4> QED
        BY <1>3, <4>2
    <3> QED
      BY <1>6, <2>1, <3>1, <3>2, InCells
  <2>4. CASE j > i + 1
    <3>1. j - 1 \in 1 .. Len(u) /\ u[j - 1] = s[j]
      <4>1. j - 1 \in 1 .. Len(u) /\ j - 1 > i /\ j - 1 + 1 = j
        BY <1>1, <1>6, <2>4
      <4> QED
        BY <1>7, <4>1
    <3> QED
      BY <1>6, <2>1, <3>1, InCells
  <2> QED
    BY <1>1, <2>1, <2>2, <2>3, <2>4
<1>11. ASSUME NEW x \in CellsOf(u) PROVE x \in CellsOf(s)
  <2>1. PICK j \in 1 .. Len(u) : x \in Nat /\ u[j].base <= x /\ x < End(u[j])
    BY <1>6, InCells
  <2>2. j \in 1 .. Len(s) /\ j + 1 \in 1 .. Len(s)
    BY <1>1, <1>6
  <2>3. CASE j < i
    BY <1>1, <1>7, <2>1, <2>2, <2>3, InCells
  <2>4. CASE j > i
    BY <1>1, <1>7, <2>1, <2>2, <2>4, InCells
  <2>5. CASE j = i
    <3>1. \/ s[i].base <= x /\ x < End(s[i])
          \/ s[i + 1].base <= x /\ x < End(s[i + 1])
      BY <1>1, <1>2, <1>3, <1>7, <2>1, <2>5
    <3> QED
      BY <1>1, <2>1, <3>1, InCells
  <2> QED
    BY <1>1, <2>2, <2>3, <2>4, <2>5
<1> QED
  BY <1>4, <1>6, <1>8, <1>9, <1>10, <1>11 DEF Loose

\* merge_hole looks at two pairs; that is enough where only they can touch.
LEMMA Merged ==
  ASSUME NEW s, NEW m \in Nat \ {0}, Loose(s, {m, m + 1})
  PROVE  Loose(MergeHole(s, m), {}) /\ CellsOf(MergeHole(s, m)) = CellsOf(s)
<1>1. CASE Touches(s, m)
  <2> DEFINE first == Absorb(s, m)
  <2>1. Loose(first, {m}) /\ CellsOf(first) = CellsOf(s)
    <3>1. \A a \in {m, m + 1} : a # m => a > m /\ a - 1 \in {m}
      OBVIOUS
    <3>2. {m, m + 1} \subseteq Nat
      OBVIOUS
    <3> QED
      BY <1>1, <3>1, <3>2, Absorbed
  <2>2. MergeHole(s, m) = IF Touches(first, m) THEN Absorb(first, m) ELSE first
    BY <1>1 DEF MergeHole
  <2> HIDE DEF first
  <2>3. CASE Touches(first, m)
    <3>1. Loose(Absorb(first, m), {}) /\ CellsOf(Absorb(first, m)) = CellsOf(first)
      BY <2>1, <2>3, Absorbed
    <3> QED
      BY <2>1, <2>2, <2>3, <3>1
  <2>4. CASE ~Touches(first, m)
    <3>1. Loose(first, {m} \ {m}) /\ {m} \ {m} = {}
      BY <2>1, <2>4, Tightened
    <3> QED
      BY <2>1, <2>2, <2>4, <3>1
  <2> QED
    BY <2>3, <2>4
<1>2. CASE ~Touches(s, m)
  <2>1. Loose(s, {m + 1})
    <3>1. Loose(s, {m, m + 1} \ {m}) /\ {m, m + 1} \ {m} = {m + 1}
      BY <1>2, Tightened
    <3> QED
      BY <3>1
  <2>2. MergeHole(s, m) = IF Touches(s, m + 1) THEN Absorb(s, m + 1) ELSE s
    BY <1>2 DEF MergeHole
  <2>3. CASE Touches(s, m + 1)
    <3>1. Loose(Absorb(s, m + 1), {}) /\ CellsOf(Absorb(s, m + 1)) = CellsOf(s)
      BY <2>1, <2>3, Absorbed
    <3> QED
      BY <2>2, <2>3, <3>1
  <2>4. CASE ~Touches(s, m + 1)
    <3>1. Loose(s, {m + 1} \ {m + 1}) /\ {m + 1} \ {m + 1} = {}
      BY <2>1, <2>4, Tightened
    <3> QED
      BY <2>2, <2>4, <3>1
  <2> QED
    BY <2>3, <2>4
<1> QED
  BY <1>1, <1>2

-----------------------------------------------------------------------------
(* free: a block that no hole meets. *)

LEMMA Placed ==
  ASSUME NEW s \in Seq(HoleSet), NEW addr \in Nat
  PROVE  /\ Place(s, addr) \in 1 .. Len(s) + 1
         /\ Place(s, addr) <= Len(s) => addr <= s[Place(s, addr)].base
         /\ \A j \in 1 .. Place(s, addr) - 1 : addr > s[j].base
<1> DEFINE P(k) == /\ k <= Len(s) => addr <= s[k].base
                   /\ \A j \in 1 .. k - 1 : addr > s[j].base
           late == {k \in 1 .. Len(s) + 1 : k <= Len(s) => addr <= s[k].base}
<1>1. Len(s) \in Nat /\ \A j \in 1 .. Len(s) : s[j].base \in Nat
  BY LenProperties, HoleTyped
<1>2. late \subseteq Nat /\ Len(s) + 1 \in late
  BY <1>1
<1>3. PICK k \in late : \A j \in late : k <= j
  <2>1. late # {}
    BY <1>2
  <2> QED
    BY <1>2, <2>1, LeastNat
<1>4. k \in 1 .. Len(s) + 1 /\ P(k)
  <2>1. ASSUME NEW j \in 1 .. k - 1 PROVE addr > s[j].base
    <3>1. j \in 1 .. Len(s) /\ ~(k <= j)
      BY <1>1, <1>3
    <3>2. ~(addr <= s[j].base)
      BY <1>1, <1>3, <3>1
    <3> QED
      BY <1>1, <3>1, <3>2
  <2> QED
    BY <1>3, <2>1
<1>5. Place(s, addr) = CHOOSE n \in 1 .. Len(s) + 1 : P(n)
  BY DEF Place
<1> HIDE DEF P
<1>6. Place(s, addr) \in 1 .. Len(s) + 1 /\ P(Place(s, addr))
  BY <1>4, <1>5
<1> QED
  BY <1>6 DEF P

LEMMA InsertedLoose ==
  ASSUME NEW s, Loose(s, {}), NEW addr \in Nat, NEW len \in Nat, len > 0,
         CellsOf(s) \cap Run(addr, len) = {},
         NEW k, k = Place(s, addr), NEW t, t = InsertAt(s, k, Hole(addr, len))
  PROVE  /\ Loose(t, {k - 1, k}) /\ k \in Nat \ {0}
         /\ CellsOf(t) = CellsOf(s) \cup Run(addr, len)
<1> DEFINE h == Hole(addr, len)
<1>1. /\ h \in HoleSet /\ h.base = addr /\ h.len = len
      /\ End(h) = addr + len
  BY DEF HoleSet, Hole, End
<1>2. t = InsertAt(s, k, h)
  OBVIOUS
<1> HIDE DEF h
<1>3. /\ s \in Seq(HoleSet) /\ Len(s) \in Nat
      /\ \A i \in 1 .. Len(s) : /\ s[i].len > 0 /\ s[i].base \in Nat
                                /\ End(s[i]) \in Nat /\ s[i].len \in Nat
                                /\ End(s[i]) = s[i].base + s[i].len
      /\ \A i, j \in 1 .. Len(s) : i < j => End(s[i]) < s[j].base
  BY LenProperties, HoleTyped DEF Loose
<1>4. /\ k \in 1 .. Len(s) + 1
      /\ k <= Len(s) => addr <= s[k].base
      /\ \A j \in 1 .. k - 1 : addr > s[j].base
  BY <1>3, Placed
<1>5. /\ t \in Seq(HoleSet) /\ Len(t) = Len(s) + 1
      /\ \A j \in 1 .. Len(s) + 1 : t[j] = IF j < k THEN s[j]
                                           ELSE IF j = k THEN h ELSE s[j - 1]
  <2>1. s \in Seq(HoleSet) /\ k \in 1 .. Len(s) + 1 /\ h \in HoleSet
    BY <1>1, <1>3, <1>4
  <2>2. /\ InsertAt(s, k, h) \in Seq(HoleSet)
        /\ Len(InsertAt(s, k, h)) = Len(s) + 1
        /\ \A j \in 1 .. Len(s) + 1 :
             InsertAt(s, k, h)[j] = IF j < k THEN s[j]
                                    ELSE IF j = k THEN h ELSE s[j - 1]
    BY <2>1, Inserted
  <2> QED
    BY <1>2, <2>2
\* Nothing of the block lies in a hole, so the holes before end before it.
<1>6. ASSUME NEW j \in 1 .. Len(s), j < k PROVE End(s[j]) <= addr
  <2>1. addr > s[j].base /\ addr \in Run(addr, len)
    BY <1>3, <1>4, <1>6 DEF Run
  <2>2. addr \notin CellsOf(s)
    BY <2>1
  <2>3. ~(s[j].base <= addr /\ addr < End(s[j]))
    BY <1>3, <2>2, InCells
  <2> QED
    BY <1>3, <2>1, <2>3
<1>7. ASSUME NEW j \in 1 .. Len(s), j >= k PROVE addr + len <= s[j].base
  <2>1. addr <= s[j].base
    <3>1. k \in 1 .. Len(s) /\ addr <= s[k].base
      BY <1>3, <1>4, <1>7
    <3>2. CASE j = k
      BY <3>1, <3>2
    <3>3. CASE j # k
      <4>1. k < j
        BY <1>3, <1>7, <3>1, <3>3
      <4>2. End(s[k]) < s[j].base
        BY <1>3, <3>1, <4>1
      <4>3. s[k].base \in Nat /\ s[k].base <= End(s[k]) /\ End(s[k]) \in Nat
        <5>1. \A a, n \in Nat : a <= a + n
          OBVIOUS
        <5> QED
          BY <1>3, <3>1, <5>1
      <4>4. s[j].base \in Nat
        BY <1>3
      <4> QED
        BY <3>1, <4>2, <4>3, <4>4
    <3> QED
      BY <3>2, <3>3
  <2>2. s[j].base \in CellsOf(s)
    <3>1. s[j].base <= s[j].base /\ s[j].base < End(s[j])
      <4>1. \A a, n \in Nat : n > 0 => a <= a /\ a < a + n
        OBVIOUS
      <4> QED
        BY <1>3, <4>1
    <3> QED
      BY <1>3, <3>1, InCells
  <2>3. s[j].base \notin Run(addr, len)
    BY <2>2
  <2> QED
    BY <1>3, <2>1, <2>3 DEF Run
<1>8. \A j \in 1 .. Len(t) : t[j].len > 0
  <2> SUFFICES ASSUME NEW j \in 1 .. Len(t) PROVE t[j].len > 0
    OBVIOUS
  <2>1. CASE j < k
    <3>1. j \in 1 .. Len(s) /\ t[j] = s[j]
      BY <1>3, <1>4, <1>5, <2>1
    <3> QED
      BY <1>3, <3>1
  <2>2. CASE j = k
    BY <1>1, <1>4, <1>5, <2>2
  <2>3. CASE j > k
    <3>1. j - 1 \in 1 .. Len(s) /\ t[j] = s[j - 1]
      BY <1>3, <1>4, <1>5, <2>3
    <3> QED
      BY <1>3, <3>1
  <2> QED
    BY <1>3, <1>4, <1>5, <2>1, <2>2, <2>3
<1>9. ASSUME NEW i \in 1 .. Len(t), NEW j \in 1 .. Len(t), i < j
      PROVE  \/ End(t[i]) < t[j].base
             \/ End(t[i]) = t[j].base /\ i \in {k - 1, k}
  <2>1. i \in 1 .. Len(s) + 1 /\ j \in 1 .. Len(s) + 1
    BY <1>5
  <2>2. CASE j < k
    <3>1. /\ i \in 1 .. Len(s) /\ j \in 1 .. Len(s)
          /\ t[i] = s[i] /\ t[j] = s[j]
      BY <1>3, <1>4, <1>5, <1>9, <2>1, <2>2
    <3> QED
      BY <1>3, <1>9, <3>1
  <2>3. CASE j = k
    <3>1. i \in 1 .. Len(s) /\ t[i] = s[i] /\ t[j].base = addr
      BY <1>1, <1>3, <1>4, <1>5, <1>9, <2>1, <2>3
    <3>2. CASE i = k - 1
      <4>1. End(s[i]) <= addr
        BY <1>6, <1>9, <2>3, <3>1
      <4> QED
        BY <1>3, <3>1, <3>2, <4>1
    <3>3. CASE i # k - 1
      <4>1. i + 1 \in 1 .. Len(s) /\ i < i + 1 /\ i + 1 \in 1 .. k - 1
        BY <1>3, <1>4, <1>9, <2>1, <2>3, <3>3
      <4>2. End(s[i]) < s[i + 1].base /\ addr > s[i + 1].base
        BY <1>3, <1>4, <3>1, <4>1
      <4>3. End(s[i]) \in Nat /\ s[i + 1].base \in Nat
        BY <1>3, <3>1, <4>1
      <4> QED
        BY <3>1, <4>2, <4>3
    <3> QED
      BY <3>2, <3>3
  <2>4. CASE j > k /\ i < k
    <3>1. /\ i \in 1 .. Len(s) /\ j - 1 \in 1 .. Len(s) /\ j - 1 >= k
          /\ t[i] = s[i] /\ t[j] = s[j - 1] /\ i < j - 1
      BY <1>3, <1>4, <1>5, <2>1, <2>4
    <3> QED
      BY <1>3, <3>1
  <2>5. CASE j > k /\ i = k
    <3>1. /\ j - 1 \in 1 .. Len(s) /\ j - 1 >= k
          /\ End(t[i]) = addr + len /\ t[j] = s[j - 1]
      BY <1>1, <1>3, <1>4, <1>5, <2>1, <2>5
    <3>2. addr + len <= s[j - 1].base
      BY <1>7, <3>1
    <3>3. /\ addr + len \in Nat /\ t[j].base \in Nat
          /\ End(t[i]) <= t[j].base /\ End(t[i]) \in Nat
      BY <1>3, <3>1, <3>2
    <3> QED
      BY <2>5, <3>3
  <2>6. CASE j > k /\ i > k
    <3>1. /\ i - 1 \in 1 .. Len(s) /\ j - 1 \in 1 .. Len(s) /\ i - 1 < j - 1
          /\ t[i] = s[i - 1] /\ t[j] = s[j - 1]
      BY <1>3, <1>4, <1>5, <1>9, <2>1, <2>6
    <3> QED
      BY <1>3, <3>1
  <2> QED
    BY <1>3, <1>4, <2>1, <2>2, <2>3, <2>4, <2>5, <2>6
<1>10. ASSUME NEW x \in CellsOf(s) PROVE x \in CellsOf(t)
  <2>1. PICK j \in 1 .. Len(s) : x \in Nat /\ s[j].base <= x /\ x < End(s[j])
    BY <1>3, InCells
  <2>2. PICK i \in 1 .. Len(t) : t[i] = s[j]
    <3>1. CASE j < k
      <4>1. j \in 1 .. Len(s) + 1
        BY <1>3
      <4> QED
        BY <1>5, <3>1, <4>1
    <3>2. CASE ~(j < k)
      <4>1. /\ j + 1 \in 1 .. Len(s) + 1 /\ ~(j + 1 < k) /\ j + 1 # k
            /\ j + 1 - 1 = j
        BY <1>3, <1>4, <3>2
      <4> QED
        BY <1>5, <4>1
    <3> QED
      BY <3>1, <3>2
  <2> QED
    BY <1>5, <2>1, <2>2, InCells
<1>11. ASSUME NEW x \in Run(addr, len) PROVE x \in CellsOf(t)
  <2>1. x \in Nat /\ h.base <= x /\ x < End(h)
    BY <1>1 DEF Run
  <2>2. k \in 1 .. Len(t) /\ t[k] = h
    BY <1>3, <1>4, <1>5
  <2> QED
    BY <1>5, <2>1, <2>2, InCells
<1>12. ASSUME NEW x \in CellsOf(t) PROVE x \in CellsOf(s) \cup Run(addr, len)
  <2>1. PICK j \in 1 .. Len(t) : x \in Nat /\ t[j].base <= x /\ x < End(t[j])
    BY <1>5, InCells
  <2>2. CASE j < k
    <3>1. j \in 1 .. Len(s) /\ t[j] = s[j]
      BY <1>3, <1>4, <1>5, <2>2
    <3> QED
      BY <1>3, <2>1, <3>1, InCells
  <2>3. CASE j = k
    BY <1>1, <1>4, <1>5, <2>1, <2>3 DEF Run
  <2>4. CASE j > k
    <3>1. j - 1 \in 1 .. Len(s) /\ t[j] = s[j - 1]
      BY <1>3, <1>4, <1>5, <2>4
    <3> QED
      BY <1>3, <2>1, <3>1, InCells
  <2> QED
    BY <1>3, <1>4, <1>5, <2>2, <2>3, <2>4
<1> QED
  BY <1>4, <1>5, <1>8, <1>9, <1>10, <1>11, <1>12 DEF Loose

\* free keeps the list in order and merged, and adds the block's cells.
LEMMA FreedMerged ==
  ASSUME NEW s, Loose(s, {}), NEW addr \in Nat, NEW len \in Nat, len > 0,
         CellsOf(s) \cap Run(addr, len) = {}
  PROVE  /\ Loose(Freed(s, addr, len), {})
         /\ CellsOf(Freed(s, addr, len)) = CellsOf(s) \cup Run(addr, len)
<1> DEFINE k == Place(s, addr)
           t == InsertAt(s, k, Hole(addr, len))
           m == IF k = 1 THEN 1 ELSE k - 1
<1>1. /\ Loose(t, {k - 1, k}) /\ k \in Nat \ {0}
      /\ CellsOf(t) = CellsOf(s) \cup Run(addr, len)
  BY InsertedLoose
<1>2. Freed(s, addr, len) = MergeHole(t, m)
  BY DEF Freed
<1> HIDE DEF k, t
<1>3. Loose(t, {m, m + 1}) /\ m \in Nat \ {0}
  <2>1. CASE k = 1
    <3>1. m = 1 /\ \A i \in 1 .. Len(t) : i \in {k - 1, k} => i \in {m, m + 1}
      BY <1>1, <2>1
    <3> QED
      BY <1>1, <3>1 DEF Loose
  <2>2. CASE k # 1
    <3>1. m \in Nat \ {0} /\ {k - 1, k} = {m, m + 1}
      BY <1>1, <2>2
    <3> QED
      BY <1>1, <3>1
  <2> QED
    BY <2>1, <2>2
<1> HIDE DEF m
<1> QED
  BY <1>1, <1>2, <1>3, Merged

-----------------------------------------------------------------------------
(* allocate, of an aligned hole. *)

\* Without a gap the block is the first cells of its hole.
LEMMA TakenMerged ==
  ASSUME NEW s, Loose(s, {}), NEW i \in 1 .. Len(s), s[i].base % Page = 0,
         NEW n \in Nat, n <= s[i].len
  PROVE  /\ Gap(s[i], Page) = 0
         /\ Loose(Taken(s, i, n, Page), {})
         /\ CellsOf(Taken(s, i, n, Page)) = CellsOf(s) \ Run(s[i].base, n)
         /\ Run(s[i].base, n) \subseteq CellsOf(s)
         /\ \A j \in 1 .. Len(Taken(s, i, n, Page)) :
              \/ \E m \in 1 .. Len(s) : Taken(s, i, n, Page)[j].base = s[m].base
              \/ Taken(s, i, n, Page)[j].base = s[i].base + n
<1>1. /\ s \in Seq(HoleSet) /\ Len(s) \in Nat
      /\ \A j \in 1 .. Len(s) : /\ s[j].len > 0 /\ s[j].base \in Nat
                                /\ End(s[j]) \in Nat /\ s[j].len \in Nat
                                /\ End(s[j]) = s[j].base + s[j].len
      /\ \A j, m \in 1 .. Len(s) : j < m => End(s[j]) < s[m].base
  BY LenProperties, HoleTyped DEF Loose
<1>2. PICK base \in Nat : base = s[i].base
  BY <1>1
<1>3. PICK len \in Nat : len = s[i].len
  BY <1>1
<1>4. Gap(s[i], Page) = 0
  BY DEF Gap
<1>5. base + 0 = base /\ n + 0 = n /\ End(s[i]) = base + len
  BY <1>1, <1>2, <1>3
<1> DEFINE rest == [s EXCEPT ![i] = Hole(base + n, len - n)]
           u == IF len = n THEN RemoveAt(s, i) ELSE rest
<1>6. Taken(s, i, n, Page) = u
  <2>1. ~(i > 1 /\ End(s[i - 1]) = base)
    <3> SUFFICES ASSUME i > 1 PROVE End(s[i - 1]) # base
      OBVIOUS
    <3>1. i - 1 \in 1 .. Len(s) /\ i - 1 < i
      BY <1>1
    <3>2. End(s[i - 1]) < s[i].base /\ End(s[i - 1]) \in Nat
      BY <1>1, <3>1
    <3> QED
      BY <1>2, <3>2
  <2> QED
    BY <1>2, <1>3, <1>4, <1>5, <2>1, Zenon DEF Taken
\* The cells of the other holes are elsewhere.
<1>7. ASSUME NEW j \in 1 .. Len(s), j # i,
             NEW x \in Nat, s[j].base <= x, x < End(s[j])
      PROVE  ~(base <= x /\ x < base + len)
  <2>1. j < i \/ i < j
    BY <1>1, <1>7
  <2>2. End(s[j]) < base \/ base + len < s[j].base
    BY <1>1, <1>2, <1>5, <2>1
  <2> QED
    BY <1>1, <1>7, <2>2
<1>8. Run(base, n) \subseteq CellsOf(s)
  <2> SUFFICES ASSUME NEW x \in Run(base, n) PROVE x \in CellsOf(s)
    OBVIOUS
  <2>1. x \in Nat /\ base <= x /\ x < End(s[i])
    BY <1>3, <1>5 DEF Run
  <2> QED
    BY <1>1, <1>2, <2>1, InCells
<1>9. CASE len = n
  <2>1. /\ u \in Seq(HoleSet) /\ Len(u) = Len(s) - 1
        /\ \A j \in 1 .. Len(s) - 1 : u[j] = IF j < i THEN s[j] ELSE s[j + 1]
    BY <1>1, <1>9, Removed
  <2> HIDE DEF u
  <2>2. ASSUME NEW j \in 1 .. Len(u)
        PROVE  /\ j \in 1 .. Len(s) /\ j + 1 \in 1 .. Len(s)
               /\ j < i => u[j] = s[j]
               /\ ~(j < i) => u[j] = s[j + 1]
    <3>1. j \in 1 .. Len(s) - 1 /\ Len(s) \in Nat
      BY <1>1, <2>1
    <3>2. j \in 1 .. Len(s) /\ j + 1 \in 1 .. Len(s)
      BY <3>1
    <3> QED
      BY <2>1, <3>1, <3>2, Zenon
  <2>3. \A j \in 1 .. Len(u) : u[j].len > 0
    BY <1>1, <2>2
  <2>4. ASSUME NEW j \in 1 .. Len(u), NEW m \in 1 .. Len(u), j < m
        PROVE  End(u[j]) < u[m].base
    <3>1. CASE m < i
      <4>1. j < i
        BY <1>1, <2>1, <2>4, <3>1
      <4> QED
        BY <1>1, <2>2, <2>4, <3>1, <4>1
    <3>2. CASE j < i /\ ~(m < i)
      <4>1. j < m + 1
        BY <1>1, <2>1, <2>4
      <4> QED
        BY <1>1, <2>2, <3>2, <4>1
    <3>3. CASE ~(j < i)
      <4>1. ~(m < i) /\ j + 1 < m + 1
        BY <1>1, <2>1, <2>4, <3>3
      <4> QED
        BY <1>1, <2>2, <3>3, <4>1
    <3> QED
      BY <3>1, <3>2, <3>3
  <2>5. ASSUME NEW x \in CellsOf(u) PROVE x \in CellsOf(s) \ Run(base, n)
    <3>1. PICK j \in 1 .. Len(u) : x \in Nat /\ u[j].base <= x /\ x < End(u[j])
      BY <2>1, InCells
    <3>2. PICK m \in 1 .. Len(s) : m # i /\ u[j] = s[m]
      <4>1. CASE j < i
        BY <2>2, <4>1
      <4>2. CASE ~(j < i)
        <5>1. j + 1 # i
          BY <1>1, <2>1, <4>2
        <5> QED
          BY <2>2, <4>2, <5>1
      <4> QED
        BY <4>1, <4>2
    <3>3. x \in CellsOf(s)
      BY <1>1, <3>1, <3>2, InCells
    <3>4. ~(base <= x /\ x < base + len)
      BY <1>7, <3>1, <3>2
    <3> QED
      BY <1>9, <3>3, <3>4 DEF Run
  <2>6. ASSUME NEW x \in CellsOf(s) \ Run(base, n) PROVE x \in CellsOf(u)
    <3>1. PICK j \in 1 .. Len(s) : x \in Nat /\ s[j].base <= x /\ x < End(s[j])
      BY <1>1, InCells
    <3>2. j # i
      BY <1>2, <1>5, <1>9, <2>6, <3>1 DEF Run
    <3>3. PICK m \in 1 .. Len(u) : u[m] = s[j]
      <4>1. CASE j < i
        <5>1. j \in 1 .. Len(u)
          BY <1>1, <2>1, <4>1
        <5> QED
          BY <2>2, <4>1, <5>1
      <4>2. CASE j > i
        <5>1. j - 1 \in 1 .. Len(u) /\ ~(j - 1 < i) /\ j - 1 + 1 = j
          BY <1>1, <2>1, <4>2
        <5> QED
          BY <2>2, <5>1
      <4> QED
        BY <1>1, <3>2, <4>1, <4>2
    <3> QED
      BY <2>1, <3>1, <3>3, InCells
  <2>7. \A j \in 1 .. Len(u) : \E m \in 1 .. Len(s) : u[j].base = s[m].base
    BY <2>2
  <2>8. Loose(u, {})
    BY <2>1, <2>3, <2>4 DEF Loose
  <2> QED
    BY <1>2, <1>4, <1>6, <1>8, <2>5, <2>6, <2>7, <2>8
<1>10. CASE len # n
  <2> DEFINE h == Hole(base + n, len - n)
  <2>1. /\ h \in HoleSet /\ h.base = base + n /\ h.len = len - n /\ h.len > 0
        /\ End(h) = base + len
    <3>1. len - n \in Nat /\ len - n > 0 /\ base + n \in Nat
          /\ (base + n) + (len - n) = base + len
      BY <1>3, <1>10
    <3> QED
      BY <3>1 DEF HoleSet, Hole, End
  <2>2. u = [s EXCEPT ![i] = h]
    BY <1>10
  <2> HIDE DEF h, u
  <2>3. /\ u \in Seq(HoleSet) /\ Len(u) = Len(s)
        /\ \A j \in 1 .. Len(s) : u[j] = IF j = i THEN h ELSE s[j]
    BY <1>1, <2>1, <2>2, ExceptSeq
  <2>4. \A j \in 1 .. Len(u) : u[j].len > 0
    BY <1>1, <2>1, <2>3
  <2>5. ASSUME NEW j \in 1 .. Len(u), NEW m \in 1 .. Len(u), j < m
        PROVE  End(u[j]) < u[m].base
    <3>1. /\ j \in 1 .. Len(s) /\ m \in 1 .. Len(s)
          /\ End(s[j]) < s[m].base
      BY <1>1, <2>3, <2>5
    <3>2. End(u[j]) = End(s[j])
      BY <1>5, <2>1, <2>3, <3>1
    <3>3. s[m].base <= u[m].base /\ u[m].base \in Nat
      <4>1. CASE m = i
        BY <1>2, <2>1, <2>3, <3>1, <4>1
      <4>2. CASE m # i
        BY <1>1, <2>3, <3>1, <4>2
      <4> QED
        BY <4>1, <4>2
    <3>4. End(s[j]) \in Nat /\ s[m].base \in Nat
      BY <1>1, <3>1
    <3> QED
      BY <3>1, <3>2, <3>3, <3>4
  <2>6. ASSUME NEW x \in CellsOf(u) PROVE x \in CellsOf(s) \ Run(base, n)
    <3>1. PICK j \in 1 .. Len(s) : x \in Nat /\ u[j].base <= x /\ x < End(u[j])
      BY <2>3, InCells
    <3>2. CASE j = i
      <4>1. base + n <= x /\ x < base + len
        BY <2>1, <2>3, <3>1, <3>2
      <4>2. x \in CellsOf(s)
        <5>1. s[i].base <= x /\ x < End(s[i])
          BY <1>2, <1>5, <3>1, <4>1
        <5> QED
          BY <1>1, <3>1, <5>1, InCells
      <4> QED
        BY <3>1, <4>1, <4>2 DEF Run
    <3>3. CASE j # i
      <4>1. u[j] = s[j]
        BY <2>3, <3>3
      <4>2. x \in CellsOf(s)
        BY <1>1, <3>1, <4>1, InCells
      <4>3. ~(base <= x /\ x < base + len)
        BY <1>7, <3>1, <3>3, <4>1
      <4> QED
        BY <1>3, <3>1, <4>2, <4>3 DEF Run
    <3> QED
      BY <3>2, <3>3
  <2>7. ASSUME NEW x \in CellsOf(s) \ Run(base, n) PROVE x \in CellsOf(u)
    <3>1. PICK j \in 1 .. Len(s) : x \in Nat /\ s[j].base <= x /\ x < End(s[j])
      BY <1>1, InCells
    <3>2. CASE j = i
      <4>1. base + n <= x /\ x < base + len
        BY <1>2, <1>5, <2>7, <3>1, <3>2 DEF Run
      <4>2. u[i].base <= x /\ x < End(u[i])
        BY <2>1, <2>3, <4>1
      <4> QED
        BY <2>3, <3>1, <4>2, InCells
    <3>3. CASE j # i
      <4>1. u[j] = s[j]
        BY <2>3, <3>3
      <4> QED
        BY <2>3, <3>1, <4>1, InCells
    <3> QED
      BY <3>2, <3>3
  <2>8. \A j \in 1 .. Len(u) : \/ \E m \in 1 .. Len(s) : u[j].base = s[m].base
                               \/ u[j].base = base + n
    BY <2>1, <2>3
  <2>9. Loose(u, {})
    BY <2>3, <2>4, <2>5 DEF Loose
  <2> QED
    BY <1>2, <1>4, <1>6, <1>8, <2>6, <2>7, <2>8, <2>9
<1> QED
  BY <1>9, <1>10

\* The bases of the holes after a free: those there were, and the block's.
LEMMA FreedBases ==
  ASSUME NEW s \in Seq(HoleSet), NEW addr \in Nat, NEW len \in Nat,
         \A j \in 1 .. Len(s) : s[j].base % Page = 0, addr % Page = 0
  PROVE  \A j \in 1 .. Len(Freed(s, addr, len)) :
           Freed(s, addr, len)[j].base % Page = 0
<1> DEFINE Even(t) == t \in Seq(HoleSet) /\ \A j \in 1 .. Len(t) : t[j].base % Page = 0
<1>1. ASSUME NEW t, Even(t), NEW i \in Nat \ {0}, Touches(t, i)
      PROVE  Even(Absorb(t, i))
  <2> DEFINE h == Hole(t[i].base, t[i].len + t[i + 1].len)
             v == [t EXCEPT ![i] = h]
             u == RemoveAt(v, i + 1)
  <2>1. /\ t \in Seq(HoleSet) /\ Len(t) \in Nat
        /\ i \in 1 .. Len(t) /\ i + 1 \in 1 .. Len(t)
    BY <1>1, LenProperties DEF Touches
  <2>2. t[i] \in HoleSet /\ t[i + 1] \in HoleSet
    BY <2>1, HoleTyped
  <2>3. h \in HoleSet /\ h.base = t[i].base
    BY <2>2 DEF HoleSet, Hole
  <2>4. Absorb(t, i) = u
    <3>1. PICK hi \in HoleSet : hi = t[i]
      BY <2>2
    <3>2. [hi EXCEPT !.len = @ + t[i + 1].len] =
            Hole(hi.base, hi.len + t[i + 1].len)
      BY DEF HoleSet, Hole
    <3>3. [t[i] EXCEPT !.len = @ + t[i + 1].len] = h
      BY <3>1, <3>2, Zenon
    <3> QED
      BY <3>3, Zenon DEF Absorb
  <2> HIDE DEF h
  <2>5. /\ v \in Seq(HoleSet) /\ Len(v) = Len(t)
        /\ \A j \in 1 .. Len(t) : v[j] = IF j = i THEN h ELSE t[j]
    BY <2>1, <2>3, ExceptSeq
  <2>6. \A j \in 1 .. Len(t) : v[j].base % Page = 0
    <3> SUFFICES ASSUME NEW j \in 1 .. Len(t) PROVE v[j].base % Page = 0
      OBVIOUS
    <3>1. v[j].base = t[j].base
      BY <2>3, <2>5
    <3> QED
      BY <1>1, <3>1, Zenon
  <2> HIDE DEF v
  <2>7. /\ u \in Seq(HoleSet) /\ Len(u) = Len(t) - 1
        /\ \A j \in 1 .. Len(t) - 1 : u[j] = IF j < i + 1 THEN v[j] ELSE v[j + 1]
    BY <2>1, <2>5, Removed
  <2>8. ASSUME NEW j \in 1 .. Len(u) PROVE u[j].base % Page = 0
    <3>1. j \in 1 .. Len(t) /\ j + 1 \in 1 .. Len(t)
      BY <2>1, <2>7
    <3>2. u[j] = v[j] \/ u[j] = v[j + 1]
      BY <2>7
    <3> QED
      BY <2>6, <3>1, <3>2, Zenon
  <2> QED
    BY <2>4, <2>7, <2>8
<1> DEFINE k == Place(s, addr)
           t == InsertAt(s, k, Hole(addr, len))
           m == IF k = 1 THEN 1 ELSE k - 1
<1>2. k \in Nat \ {0} /\ m \in Nat \ {0} /\ Even(t)
  <2>1. k \in 1 .. Len(s) + 1 /\ Len(s) \in Nat
    BY Placed, LenProperties
  <2>2. Hole(addr, len) \in HoleSet /\ Hole(addr, len).base = addr
    BY DEF HoleSet, Hole
  <2> HIDE DEF k
  <2>3. /\ t \in Seq(HoleSet) /\ Len(t) = Len(s) + 1
        /\ \A j \in 1 .. Len(s) + 1 :
             t[j] = IF j < k THEN s[j]
                    ELSE IF j = k THEN Hole(addr, len) ELSE s[j - 1]
    BY <2>1, <2>2, Inserted
  <2> HIDE DEF t
  <2>4. ASSUME NEW j \in 1 .. Len(t) PROVE t[j].base % Page = 0
    <3>1. \/ t[j] = Hole(addr, len)
          \/ \E i \in 1 .. Len(s) : t[j] = s[i]
      <4>1. CASE j < k
        BY <2>1, <2>3, <4>1
      <4>2. CASE j = k
        BY <2>3, <4>2
      <4>3. CASE j > k
        <5>1. j - 1 \in 1 .. Len(s) /\ ~(j < k) /\ j # k
          BY <2>1, <2>3, <4>3
        <5> QED
          BY <2>3, <5>1
      <4> QED
        BY <2>1, <2>3, <4>1, <4>2, <4>3
    <3>2. CASE t[j] = Hole(addr, len)
      BY <2>2, <3>2, Zenon
    <3>3. ASSUME NEW i \in 1 .. Len(s), t[j] = s[i]
          PROVE  t[j].base % Page = 0
      <4>1. s[i].base % Page = 0
        OBVIOUS
      <4> QED
        BY <3>3, <4>1, Zenon
    <3> QED
      BY <3>1, <3>2, <3>3
  <2> QED
    BY <2>1, <2>3, <2>4
<1>3. Freed(s, addr, len) = MergeHole(t, m)
  BY DEF Freed
<1> HIDE DEF k, t, m, Even
<1> DEFINE first == IF Touches(t, m) THEN Absorb(t, m) ELSE t
           j == IF Touches(t, m) THEN m ELSE m + 1
<1>4. Even(first) /\ j \in Nat \ {0}
  BY <1>1, <1>2
<1>5. MergeHole(t, m) = IF Touches(first, j) THEN Absorb(first, j) ELSE first
  BY DEF MergeHole
<1> HIDE DEF first, j
<1>6. Even(MergeHole(t, m))
  BY <1>1, <1>4, <1>5
<1> QED
  BY <1>3, <1>6 DEF Even

-----------------------------------------------------------------------------
(* The invariant. *)

BlockSet == [base : Nat, len : Nat]

\* The holes are in order and merged, and start on page boundaries; so do the
\* blocks, none of which meets another or a hole.
HolesRight ==
  /\ Loose(holes, {})
  /\ \A i \in 1 .. Len(holes) : holes[i].base % Page = 0

Space ==
  /\ HolesRight
  /\ blocks \subseteq BlockSet
  /\ \A b \in blocks : b.base % Page = 0 /\ Cells(b) \cap FreeCells = {}
  /\ \A b, c \in blocks : b # c => Cells(b) \cap Cells(c) = {}

LEMMA FreeCellsOf == FreeCells = CellsOf(holes) /\ FreeCells' = CellsOf(holes')
  BY DEF FreeCells, CellsOf

\* What an allocation does to the cells.
LEMMA AllocateCells ==
  ASSUME Space, NEW len \in Sizes, AllocatePages(len)
  PROVE  /\ HolesRight' /\ status' = status
         /\ \E base \in FreeCells :
              /\ base \in Nat /\ base % Page = 0
              /\ Run(base, RoundUp(len)) \subseteq FreeCells
              /\ FreeCells' = FreeCells \ Run(base, RoundUp(len))
              /\ blocks' = blocks \cup {[base |-> base, len |-> len]}
<1> DEFINE n == RoundUp(len)
<1>1. len \in Nat /\ Page \in Nat /\ Page > 0
  BY MemorySpaceAssumption
<1>2. n \in Nat /\ n % Page = 0
  BY <1>1, Rounded
<1>3. /\ holes \in Seq(HoleSet) /\ Loose(holes, {})
      /\ \A i \in 1 .. Len(holes) : holes[i].base % Page = 0
      /\ DOMAIN holes = 1 .. Len(holes)
  BY LenProperties DEF Space, HolesRight, Loose
<1>4. PICK i \in 1 .. Len(holes) :
        /\ Fits(holes[i], n, Page)
        /\ holes' = Taken(holes, i, n, Page)
        /\ blocks' = blocks \cup {[base |-> holes[i].base + Gap(holes[i], Page),
                                   len |-> len]}
  BY <1>3 DEF AllocatePages
<1>5. status' = status
  BY DEF AllocatePages
<1> HIDE DEF n
<1>6. /\ holes[i].base \in Nat /\ holes[i].len \in Nat /\ holes[i].len > 0
      /\ holes[i].base % Page = 0 /\ End(holes[i]) = holes[i].base + holes[i].len
  BY <1>3, HoleTyped DEF Loose
<1>7. Gap(holes[i], Page) = 0
  BY <1>6 DEF Gap
<1>8. n <= holes[i].len
  BY <1>2, <1>4, <1>6, <1>7 DEF Fits
<1>9. /\ Loose(holes', {})
      /\ CellsOf(holes') = CellsOf(holes) \ Run(holes[i].base, n)
      /\ Run(holes[i].base, n) \subseteq CellsOf(holes)
      /\ \A j \in 1 .. Len(holes') :
           \/ \E m \in 1 .. Len(holes) : holes'[j].base = holes[m].base
           \/ holes'[j].base = holes[i].base + n
  <2> DEFINE t == Taken(holes, i, n, Page)
  <2>1. /\ Loose(t, {})
        /\ CellsOf(t) = CellsOf(holes) \ Run(holes[i].base, n)
        /\ Run(holes[i].base, n) \subseteq CellsOf(holes)
        /\ \A j \in 1 .. Len(t) :
             \/ \E m \in 1 .. Len(holes) : t[j].base = holes[m].base
             \/ t[j].base = holes[i].base + n
    <3>1. /\ Loose(holes, {}) /\ holes[i].base % Page = 0
          /\ n \in Nat /\ n <= holes[i].len
      BY <1>2, <1>3, <1>8
    <3> QED
      BY <3>1, TakenMerged
  <2> HIDE DEF t
  <2>2. holes' = t
    BY <1>4 DEF t
  <2> QED
    BY <2>1, <2>2
<1>10. (holes[i].base + n) % Page = 0
  BY <1>1, <1>2, <1>6, Multiples
<1>11. \A j \in 1 .. Len(holes') : holes'[j].base % Page = 0
  <2> SUFFICES ASSUME NEW j \in 1 .. Len(holes') PROVE holes'[j].base % Page = 0
    OBVIOUS
  <2>1. ASSUME NEW m \in 1 .. Len(holes), holes'[j].base = holes[m].base
        PROVE  holes'[j].base % Page = 0
    <3>1. holes[m].base % Page = 0
      BY <1>3
    <3> QED
      BY <2>1, <3>1, Zenon
  <2>2. CASE holes'[j].base = holes[i].base + n
    BY <1>10, <2>2, Zenon
  <2> QED
    BY <1>9, <2>1, <2>2
<1>12. holes[i].base \in CellsOf(holes)
  <2>1. holes[i].base <= holes[i].base /\ holes[i].base < End(holes[i])
    BY <1>6
  <2> QED
    BY <1>3, <1>6, <2>1, InCells
<1>13. holes[i].base + Gap(holes[i], Page) = holes[i].base
  BY <1>6, <1>7
<1> QED
  BY <1>4, <1>5, <1>6, <1>9, <1>11, <1>12, <1>13, FreeCellsOf, Zenon
     DEF HolesRight, n

\* What a free does to the cells.
LEMMA FreeCellsGrow ==
  ASSUME Space, NEW b \in blocks, Free(b), status' = "ok"
  PROVE  /\ HolesRight' /\ status = "ok"
         /\ FreeCells' = FreeCells \cup Run(b.base, b.len)
         /\ blocks' = blocks \ {b}
<1>1. /\ b.base \in Nat /\ b.len \in Nat /\ b.base % Page = 0
      /\ Cells(b) \cap FreeCells = {}
  BY DEF Space, BlockSet
<1>2. Run(b.base, b.len) \subseteq Cells(b)
  <2>1. RoundUp(b.len) \in Nat /\ b.len <= RoundUp(b.len)
    BY <1>1, Rounded
  <2> QED
    BY <1>1, <2>1 DEF Cells, Run
<1>3. /\ holes \in Seq(HoleSet) /\ Loose(holes, {})
      /\ \A i \in 1 .. Len(holes) : holes[i].base % Page = 0
  BY DEF Space, HolesRight, Loose
<1>4. CASE b.len = 0
  <2>1. holes' = holes /\ blocks' = blocks \ {b} /\ status = "ok"
    BY <1>4 DEF Free
  <2>2. Run(b.base, b.len) = {}
    BY <1>1, <1>4 DEF Run
  <2> QED
    BY <1>3, <2>1, <2>2, FreeCellsOf DEF HolesRight
<1>5. CASE b.len # 0
  <2>1. /\ holes' = Freed(holes, b.base, b.len)
        /\ blocks' = blocks \ {b} /\ status = "ok"
    BY <1>5 DEF Free
  <2>2. CellsOf(holes) \cap Run(b.base, b.len) = {} /\ b.len > 0
    BY <1>1, <1>2, <1>5, FreeCellsOf
  <2>3. /\ Loose(holes', {})
        /\ CellsOf(holes') = CellsOf(holes) \cup Run(b.base, b.len)
    BY <1>1, <1>3, <2>1, <2>2, FreedMerged
  <2>4. \A i \in 1 .. Len(holes') : holes'[i].base % Page = 0
    BY <1>1, <1>3, <2>1, FreedBases
  <2> QED
    BY <2>1, <2>3, <2>4, FreeCellsOf DEF HolesRight
<1> QED
  BY <1>4, <1>5

LEMMA SpaceInit ==
  ASSUME IovaBase % Page = 0, Init
  PROVE  /\ Space
         /\ FreeCells \in {Run(h.base, h.len) : h \in Areas}
<1>1. /\ Page \in Nat /\ Page > 0 /\ IovaBase \in Nat /\ MapSize \in Nat
      /\ MapSize > Page
  BY MemorySpaceAssumption
<1>2. /\ << >> \in Seq(HoleSet) /\ Len(<< >>) = 0
      /\ Loose(<< >>, {}) /\ CellsOf(<< >>) = {}
  <2>1. << >> \in Seq(HoleSet) /\ Len(<< >>) = 0
    BY EmptySeq
  <2>2. 1 .. Len(<< >>) = {}
    BY <2>1
  <2>3. DOMAIN << >> = {}
    OBVIOUS
  <2>4. CellsOf(<< >>) = {}
    BY <2>3, Zenon DEF CellsOf
  <2> QED
    BY <2>1, <2>2, <2>4 DEF Loose
<1>3. ASSUME NEW a \in Nat, NEW n \in Nat, n > 0, a % Page = 0,
             holes = Freed(<< >>, a, n)
      PROVE  HolesRight /\ FreeCells = a .. a + n - 1
  <2>1. Loose(holes, {}) /\ CellsOf(holes) = Run(a, n)
    BY <1>2, <1>3, FreedMerged
  <2>2. \A i \in 1 .. Len(holes) : holes[i].base % Page = 0
    <3>1. \A j \in 1 .. Len(<< >>) : << >>[j].base % Page = 0
      BY <1>2
    <3> QED
      BY <1>2, <1>3, <3>1, FreedBases
  <2> QED
    BY <2>1, <2>2, FreeCellsOf DEF HolesRight, Run
<1>4. PICK h \in Areas : holes = Freed(<< >>, h.base, h.len)
  BY DEF Init, Initial
<1>5. /\ h.base \in Nat /\ h.base % Page = 0
      /\ h.len \in Nat /\ h.len > 0
  <2>1. h.len > 0
    BY AreasAssumption
  <2>2. /\ U32 \in Nat /\ U32 > 0
        /\ MapSize - Page \in Nat /\ IovaBase + MapSize \in Nat
    BY <1>1, MemorySpaceAssumption
  <2>3. CASE h = Hole(Page, (MapSize - Page) % U32)
    <3>1. Page % Page = 0
      <4>1. \E k \in Nat : Page = k * Page
        BY <1>1
      <4> QED
        BY <1>1, <4>1, Multiple
    <3>2. (MapSize - Page) % U32 \in Nat
      BY <2>2
    <3>3. h.base = Page /\ h.len = (MapSize - Page) % U32
      BY <2>3 DEF Hole
    <3> QED
      BY <1>1, <2>1, <3>1, <3>2, <3>3
  <2>4. CASE h = Hole(IovaBase, (IovaBase + MapSize) % U32)
    <3>1. (IovaBase + MapSize) % U32 \in Nat
      BY <2>2
    <3>2. h.base = IovaBase /\ h.len = (IovaBase + MapSize) % U32
      BY <2>4 DEF Hole
    <3> QED
      BY <1>1, <2>1, <3>1, <3>2
  <2> QED
    BY <2>3, <2>4 DEF Areas
<1>6. HolesRight /\ FreeCells = Run(h.base, h.len)
  BY <1>3, <1>4, <1>5 DEF Run
<1> QED
  BY <1>6 DEF Init, Space

LEMMA SpaceStep == Space /\ [Next]_vars => Space'
<1> SUFFICES ASSUME Space, [Next]_vars PROVE Space'
  OBVIOUS
<1>1. ASSUME HolesRight', FreeCells' = FreeCells, blocks' \subseteq blocks
      PROVE  Space'
  BY <1>1 DEF Space, Cells
<1>2. ASSUME NEW len \in Sizes, AllocatePages(len) PROVE Space'
  <2>1. HolesRight'
    BY <1>2, AllocateCells
  <2>2. PICK base \in FreeCells :
          /\ base \in Nat /\ base % Page = 0
          /\ Run(base, RoundUp(len)) \subseteq FreeCells
          /\ FreeCells' = FreeCells \ Run(base, RoundUp(len))
          /\ blocks' = blocks \cup {[base |-> base, len |-> len]}
    BY <1>2, AllocateCells
  <2> DEFINE new == [base |-> base, len |-> len]
  <2>3. /\ new \in BlockSet /\ new.base = base
        /\ Cells(new) = Run(base, RoundUp(len))
    BY <2>2, MemorySpaceAssumption DEF BlockSet, Cells
  <2> HIDE DEF new
  <2>4. blocks' \subseteq BlockSet /\ blocks' = blocks \cup {new}
    BY <2>2, <2>3 DEF Space, new
  <2>5. ASSUME NEW b \in blocks'
        PROVE  b.base % Page = 0 /\ Cells(b) \cap FreeCells' = {}
    <3>1. CASE b \in blocks
      BY <2>2, <3>1 DEF Space
    <3>2. CASE b = new
      BY <2>2, <2>3, <3>2, Zenon
    <3> QED
      BY <2>4, <3>1, <3>2
  <2>6. ASSUME NEW b \in blocks', NEW c \in blocks', b # c
        PROVE  Cells(b) \cap Cells(c) = {}
    <3>1. \A d \in blocks : Cells(d) \cap Cells(new) = {}
      BY <2>2, <2>3 DEF Space
    <3> QED
      BY <2>4, <2>6, <3>1 DEF Space
  <2> QED
    BY <2>1, <2>4, <2>5, <2>6 DEF Space, Cells
<1>3. ASSUME NEW len \in Sizes, NotAvailable(len) PROVE Space'
  <2>1. UNCHANGED <<holes, blocks>>
    BY <1>3 DEF NotAvailable
  <2> QED
    BY <1>1, <2>1, FreeCellsOf DEF Space, HolesRight
<1>4. ASSUME NEW b \in blocks, Free(b) PROVE Space'
  <2>1. CASE status' = "ok"
    <3>1. /\ HolesRight' /\ blocks' = blocks \ {b}
          /\ FreeCells' = FreeCells \cup Run(b.base, b.len)
      BY <1>4, <2>1, FreeCellsGrow
    <3>2. Run(b.base, b.len) \subseteq Cells(b)
      <4>1. b.base \in Nat /\ b.len \in Nat
        BY DEF Space, BlockSet
      <4>2. RoundUp(b.len) \in Nat /\ b.len <= RoundUp(b.len)
        BY <4>1, Rounded
      <4> QED
        BY <4>1, <4>2 DEF Cells, Run
    <3>3. ASSUME NEW c \in blocks'
          PROVE  c.base % Page = 0 /\ Cells(c) \cap FreeCells' = {}
      BY <3>1, <3>2 DEF Space
    <3> QED
      BY <3>1, <3>3 DEF Space, Cells
  <2>2. CASE status' # "ok"
    <3>1. UNCHANGED <<holes, blocks>>
      BY <1>4, <2>2 DEF Free
    <3> QED
      BY <1>1, <3>1, FreeCellsOf DEF Space, HolesRight
  <2> QED
    BY <2>1, <2>2
<1>5. CASE UNCHANGED vars
  BY <1>1, <1>5, FreeCellsOf DEF vars, Space, HolesRight
<1> QED
  BY <1>2, <1>3, <1>4, <1>5 DEF Next

LEMMA SpaceAlways == IovaBase % Page = 0 => (Spec => []Space)
<1> SUFFICES ASSUME IovaBase % Page = 0 PROVE Spec => []Space
  OBVIOUS
<1>1. Init => Space
  BY SpaceInit
<1> QED
  BY <1>1, SpaceStep, PTL DEF Spec

-----------------------------------------------------------------------------
(* Every step is one of PageAllocator's. *)

\* A run of free cells lies in one hole: the one its first cell is in.
LEMMA OneHole ==
  ASSUME NEW s, Loose(s, {}), NEW i \in 1 .. Len(s), NEW base \in Nat,
         s[i].base <= base, base < End(s[i]),
         NEW n \in Nat, Run(base, n) \subseteq CellsOf(s)
  PROVE  base + n <= End(s[i])
<1>1. /\ s \in Seq(HoleSet) /\ Len(s) \in Nat
      /\ \A j \in 1 .. Len(s) : s[j].base \in Nat /\ End(s[j]) \in Nat
      /\ \A j, m \in 1 .. Len(s) : j < m => End(s[j]) < s[m].base
  BY LenProperties, HoleTyped DEF Loose
<1> SUFFICES ASSUME End(s[i]) < base + n PROVE FALSE
  BY <1>1
<1>2. End(s[i]) \in CellsOf(s)
  BY <1>1 DEF Run
<1>3. PICK j \in 1 .. Len(s) : s[j].base <= End(s[i]) /\ End(s[i]) < End(s[j])
  BY <1>1, <1>2, InCells
<1>4. CASE j = i
  BY <1>1, <1>3, <1>4
<1>5. CASE i < j
  <2>1. End(s[i]) < s[j].base
    BY <1>1, <1>5
  <2> QED
    BY <1>1, <1>3, <2>1
<1>6. CASE j < i
  <2>1. End(s[j]) < s[i].base
    BY <1>1, <1>6
  <2> QED
    BY <1>1, <1>3, <2>1
<1> QED
  BY <1>1, <1>4, <1>5, <1>6

\* Definitions both modules have.
LEMMA RoundsAlike == \A n : Abstract!RoundUp(n) = RoundUp(n)
  BY DEF RoundUp, Abstract!RoundUp

LEMMA CountsAlike == \A S : Abstract!Cardinality(S) = Cardinality(S)
  BY Zenon DEF Cardinality, Abstract!Cardinality

LEMMA RunsAlike == \A a, n : Abstract!Run(a, n) = Run(a, n)
  BY DEF Run, Abstract!Run

\* First fit fails only if no aligned run is long enough: an aligned free cell
\* lies in a hole, with the whole run, and the hole starts on a page boundary.
LEMMA FailsForAll ==
  ASSUME Space, NEW len \in Sizes, NotAvailable(len), NEW base \in FreeCells
  PROVE  ~Abstract!Available(base, len)
<1> DEFINE n == RoundUp(len)
<1> SUFFICES ASSUME base % Page = 0, Run(base, n) \subseteq FreeCells
             PROVE  FALSE
  BY RoundsAlike, RunsAlike DEF Abstract!Available
<1>1. n \in Nat
  BY Rounded, MemorySpaceAssumption
<1>2. /\ holes \in Seq(HoleSet) /\ Loose(holes, {})
      /\ DOMAIN holes = 1 .. Len(holes)
  BY LenProperties DEF Space, HolesRight, Loose
<1>3. PICK i \in 1 .. Len(holes) :
        base \in Nat /\ holes[i].base <= base /\ base < End(holes[i])
  BY <1>2, InCells, FreeCellsOf
<1>4. base + n <= End(holes[i])
  BY <1>1, <1>2, <1>3, OneHole, FreeCellsOf
<1>5. /\ holes[i].base \in Nat /\ holes[i].len \in Nat
      /\ End(holes[i]) = holes[i].base + holes[i].len
  BY <1>2, HoleTyped
<1>6. Gap(holes[i], Page) = 0
  <2>1. holes[i].base % Page = 0
    BY DEF Space, HolesRight
  <2> QED
    BY <2>1 DEF Gap
<1>7. n <= holes[i].len
  BY <1>1, <1>3, <1>4, <1>5
<1>8. Fits(holes[i], n, Page)
  BY <1>1, <1>5, <1>6, <1>7 DEF Fits
<1>9. ~Fits(holes[i], n, Page)
  BY <1>2, <1>3 DEF NotAvailable
<1> QED
  BY <1>8, <1>9

\* The holes are the separate runs of the free cells.
LEMMA HolesAreRuns ==
  ASSUME Space
  PROVE  Cardinality({c \in FreeCells : c - 1 \notin FreeCells}) = Len(holes)
<1> DEFINE starts == {c \in FreeCells : c - 1 \notin FreeCells}
           f == [i \in 1 .. Len(holes) |-> holes[i].base]
<1>1. /\ holes \in Seq(HoleSet) /\ Len(holes) \in Nat
      /\ \A i \in 1 .. Len(holes) :
           /\ holes[i].base \in Nat /\ End(holes[i]) \in Nat
           /\ holes[i].base < End(holes[i])
      /\ \A i, j \in 1 .. Len(holes) : i < j => End(holes[i]) < holes[j].base
  <2>1. Loose(holes, {}) /\ holes \in Seq(HoleSet)
    BY DEF Space, HolesRight, Loose
  <2>2. ASSUME NEW i \in 1 .. Len(holes)
        PROVE  /\ holes[i].base \in Nat /\ End(holes[i]) \in Nat
               /\ holes[i].base < End(holes[i])
    <3>1. /\ holes[i].base \in Nat /\ holes[i].len \in Nat
          /\ End(holes[i]) = holes[i].base + holes[i].len
      BY <2>1, HoleTyped
    <3>2. holes[i].len > 0
      BY <2>1 DEF Loose
    <3> QED
      BY <3>1, <3>2
  <2> QED
    BY <2>1, <2>2, LenProperties DEF Loose
<1>2. ASSUME NEW i \in 1 .. Len(holes) PROVE holes[i].base \in starts
  <2>1. holes[i].base \in FreeCells
    <3>1. holes[i].base <= holes[i].base
      BY <1>1
    <3> QED
      BY <1>1, <3>1, InCells, FreeCellsOf
  <2>2. holes[i].base - 1 \notin FreeCells
    <3> SUFFICES ASSUME holes[i].base - 1 \in FreeCells PROVE FALSE
      OBVIOUS
    <3>1. PICK j \in 1 .. Len(holes) :
            /\ holes[j].base <= holes[i].base - 1
            /\ holes[i].base - 1 < End(holes[j])
      BY <1>1, InCells, FreeCellsOf
    <3>2. CASE j = i
      BY <1>1, <3>1, <3>2
    <3>3. CASE i < j
      BY <1>1, <3>1, <3>3
    <3>4. CASE j < i
      BY <1>1, <3>1, <3>4
    <3> QED
      BY <1>1, <3>2, <3>3, <3>4
  <2> QED
    BY <2>1, <2>2
<1>3. ASSUME NEW c \in starts PROVE \E i \in 1 .. Len(holes) : holes[i].base = c
  <2>1. PICK i \in 1 .. Len(holes) :
          c \in Nat /\ holes[i].base <= c /\ c < End(holes[i])
    BY <1>1, InCells, FreeCellsOf
  <2>2. holes[i].base = c
    <3> SUFFICES ASSUME holes[i].base < c PROVE FALSE
      BY <1>1, <2>1
    <3>1. c - 1 \in Nat /\ holes[i].base <= c - 1 /\ c - 1 < End(holes[i])
      BY <1>1, <2>1
    <3>2. c - 1 \in FreeCells
      BY <1>1, <3>1, InCells, FreeCellsOf
    <3> QED
      BY <3>2
  <2> QED
    BY <2>2
<1>4. f \in Bijection(1 .. Len(holes), starts)
  <2> HIDE DEF starts
  <2>1. f \in [1 .. Len(holes) -> starts]
    BY <1>2
  <2>2. ASSUME NEW i \in 1 .. Len(holes), NEW j \in 1 .. Len(holes), f[i] = f[j]
        PROVE  i = j
    <3>1. holes[i].base = holes[j].base
      BY <2>2
    <3>2. ~(i < j) /\ ~(j < i)
      BY <1>1, <3>1
    <3> QED
      BY <1>1, <3>2
  <2>3. \A c \in starts : \E i \in 1 .. Len(holes) : f[i] = c
    BY <1>3
  <2> HIDE DEF f
  <2>4. f \in Injection(1 .. Len(holes), starts)
    BY <2>1, <2>2 DEF Injection, IsInjective
  <2>5. f \in Surjection(1 .. Len(holes), starts)
    BY <2>1, <2>3 DEF Surjection
  <2> QED
    BY <2>4, <2>5 DEF Bijection
<1>5. Cardinality(starts) = Len(holes)
  <2>1. ExistsBijection(1 .. Len(holes), starts)
    BY <1>4 DEF ExistsBijection
  <2> HIDE DEF starts
  <2> QED
    BY <1>1, <2>1, FS_CountingElements
<1> QED
  BY <1>5

LEMMA StepsImplement ==
  Space /\ [Next]_vars => [Abstract!Next]_<<FreeCells, blocks, status>>
<1> SUFFICES ASSUME Space, [Next]_vars
             PROVE  [Abstract!Next]_<<FreeCells, blocks, status>>
  OBVIOUS
<1>1. ASSUME NEW len \in Sizes, AllocatePages(len) PROVE Abstract!Next
  <2>1. status = "ok" /\ status' = status
    BY <1>1 DEF AllocatePages
  <2>2. PICK base \in FreeCells :
          /\ base \in Nat /\ base % Page = 0
          /\ Run(base, RoundUp(len)) \subseteq FreeCells
          /\ FreeCells' = FreeCells \ Run(base, RoundUp(len))
          /\ blocks' = blocks \cup {[base |-> base, len |-> len]}
    BY <1>1, AllocateCells
  <2>3. Abstract!Allocate(base, len)
    BY <2>1, <2>2, RoundsAlike, RunsAlike
       DEF Abstract!Allocate, Abstract!Available
  <2> QED
    BY <2>1, <2>3 DEF Abstract!Next
<1>2. ASSUME NEW len \in Sizes, NotAvailable(len) PROVE Abstract!Next
  <2>1. /\ status = "ok" /\ status' = "nomem"
        /\ holes' = holes /\ blocks' = blocks
    BY <1>2 DEF NotAvailable
  <2>2. FreeCells' = FreeCells
    BY <2>1, FreeCellsOf
  <2>3. Abstract!NotAvailable(len)
    BY <1>2, <2>1, <2>2, FailsForAll DEF Abstract!NotAvailable
  <2> QED
    BY <2>1, <2>3 DEF Abstract!Next
<1>3. ASSUME NEW b \in blocks, Free(b) PROVE Abstract!Next
  <2>1. status = "ok"
    BY <1>3 DEF Free
  <2>2. CASE status' = "ok"
    <3>1. /\ blocks' = blocks \ {b}
          /\ FreeCells' = FreeCells \cup Run(b.base, b.len)
      BY <1>3, <2>2, FreeCellsGrow
    <3>2. Abstract!Release(b)
      BY <2>1, <2>2, <3>1, RunsAlike DEF Abstract!Release
    <3> QED
      BY <2>1, <3>2 DEF Abstract!Next
  <2>3. CASE status' # "ok"
    <3>1. /\ Len(holes) = NrHoles /\ status' = "aborted"
          /\ holes' = holes /\ blocks' = blocks
      BY <1>3, <2>1, <2>3 DEF Free
    <3>2. FreeCells' = FreeCells
      BY <3>1, FreeCellsOf
    <3>3. Cardinality({c \in FreeCells : c - 1 \notin FreeCells}) >= NrHoles
      BY <3>1, HolesAreRuns, MemorySpaceAssumption
    <3>4. Abstract!OutOfSlots
      BY <3>1, <3>2, <3>3, CountsAlike, Zenon DEF Abstract!OutOfSlots
    <3> QED
      BY <2>1, <3>4 DEF Abstract!Next
  <2> QED
    BY <2>2, <2>3
<1>4. CASE UNCHANGED vars
  BY <1>4, FreeCellsOf DEF vars
<1> QED
  BY <1>1, <1>2, <1>3, <1>4 DEF Next

-----------------------------------------------------------------------------
(* The theorems. *)

\* The list of holes stays in order and merged: looking at two pairs, before
\* and after the block that came back, is enough.
THEOREM HolesAreMerged == IovaBase % Page = 0 => (Spec => []HolesMerged)
<1> SUFFICES ASSUME IovaBase % Page = 0 PROVE Spec => []HolesMerged
  OBVIOUS
<1>1. Space => HolesMerged
  <2> SUFFICES ASSUME Space PROVE HolesMerged
    OBVIOUS
  <2>1. /\ Loose(holes, {}) /\ Len(holes) \in Nat
        /\ DOMAIN holes = 1 .. Len(holes)
    BY LenProperties DEF Space, HolesRight, Loose
  <2>2. ASSUME NEW i \in 1 .. Len(holes) - 1
        PROVE  End(holes[i]) < holes[i + 1].base
    <3>1. i \in 1 .. Len(holes) /\ i + 1 \in 1 .. Len(holes) /\ i < i + 1
      BY <2>1
    <3> QED
      BY <2>1, <3>1 DEF Loose
  <2> QED
    BY <2>1, <2>2 DEF HolesMerged, Loose
<1> QED
  BY <1>1, SpaceAlways, PTL

\* No cell is handed out twice, whatever is allocated and freed in any order,
\* by any number of clients.
THEOREM CellsAreExclusive == IovaBase % Page = 0 => (Spec => []NoOverlap)
<1> SUFFICES ASSUME IovaBase % Page = 0 PROVE Spec => []NoOverlap
  OBVIOUS
<1>1. Space => NoOverlap
  BY DEF Space, NoOverlap
<1> QED
  BY <1>1, SpaceAlways, PTL

\* A hole never starts inside a page, so allocate never has a gap to give back.
THEOREM HolesAreAligned == IovaBase % Page = 0 => (Spec => []AlignedHoles)
<1> SUFFICES ASSUME IovaBase % Page = 0 PROVE Spec => []AlignedHoles
  OBVIOUS
<1>1. Space => AlignedHoles
  <2> SUFFICES ASSUME Space PROVE AlignedHoles
    OBVIOUS
  <2>1. DOMAIN holes = 1 .. Len(holes)
    BY LenProperties DEF Space, HolesRight, Loose
  <2> QED
    BY <2>1 DEF Space, HolesRight, AlignedHoles
<1> QED
  BY <1>1, SpaceAlways, PTL

\* MemorySpace implements PageAllocator, for every page size, size of memory,
\* size of table and lengths: first fit fails only when no aligned run of free
\* cells is long enough, and free gives up only when the free cells are in as
\* many runs as there are slots.
THEOREM SpaceIsPageAllocator ==
  IovaBase % Page = 0 => (Spec => ImplementsPageAllocator)
<1> SUFFICES ASSUME IovaBase % Page = 0 PROVE Spec => ImplementsPageAllocator
  OBVIOUS
<1>1. Init => Abstract!Init
  BY SpaceInit DEF Init, Abstract!Init
<1> QED
  BY <1>1, SpaceAlways, StepsImplement, PTL
     DEF Spec, ImplementsPageAllocator, Abstract!Spec
=============================================================================

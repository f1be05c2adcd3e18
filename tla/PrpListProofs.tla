--------------------------- MODULE PrpListProofs ----------------------------
(***************************************************************************)
(* Theorems about PrpList, for any number of commands, any page size, any  *)
(* memory and any lengths.                                                 *)
(***************************************************************************)
EXTENDS PrpList, SequenceTheorems, WellFoundedInduction, TLAPS

-----------------------------------------------------------------------------
(* Numbers: whole pages. *)

LEMMA Below ==
  ASSUME NEW m \in Nat, NEW n \in Nat
  PROVE  <<m, n>> \in OpToRel(<, Nat) <=> m < n
  BY DEF OpToRel

\* Every set of numbers has a least one.
LEMMA LeastNat ==
  ASSUME NEW S, S \subseteq Nat, S # {}
  PROVE  \E m \in S : \A k \in S : m <= k
<1>1. PICK R : R = OpToRel(<, Nat)
  OBVIOUS
<1>2. IsWellFoundedOn(R, Nat)
  BY <1>1, NatLessThanWellFounded
<1>3. PICK m \in S : \A k \in S : ~(<<k, m>> \in R)
  BY <1>2, WFMin
<1>4. ASSUME NEW k \in S PROVE m <= k
  <2>1. k \in Nat /\ m \in Nat
    OBVIOUS
  <2>2. ~(k < m)
    BY <1>1, <1>3, <2>1, Below
  <2> QED
    BY <2>1, <2>2
<1> QED
  BY <1>4

LEMMA Division ==
  ASSUME NEW p \in Nat, p > 0, NEW a \in Nat
  PROVE  \E q, r \in Nat : /\ q = a \div p /\ r = a % p
                           /\ r < p /\ a = q * p + r
<1>1. a \div p \in Nat /\ a % p \in Nat /\ a % p < p
  OBVIOUS
<1>2. ASSUME NEW q \in Int, q = a \div p PROVE a % p = a - p * q
  BY <1>2
<1>3. PICK q \in Nat, r \in Nat : q = a \div p /\ r = a % p
  BY <1>1
<1>4. r < p /\ r = a - p * q
  BY <1>1, <1>2, <1>3
<1>5. a = q * p + r
  BY <1>4
<1> QED
  BY <1>3, <1>4, <1>5

LEMMA Remainder ==
  ASSUME NEW p \in Nat, p > 0, NEW q \in Nat, NEW r \in Nat, r < p
  PROVE  (q * p + r) % p = r /\ (q * p + r) \div p = q
<1>1. \A a \in Nat : a = p * q + r => a % p = r
  OBVIOUS
<1>2. \A a \in Nat : a = p * q + r => a \div p = q
  OBVIOUS
<1>3. q * p + r = p * q + r /\ q * p + r \in Nat
  OBVIOUS
<1> QED
  BY <1>1, <1>2, <1>3

LEMMA Multiple ==
  ASSUME NEW p \in Nat, p > 0, NEW a \in Nat
  PROVE  a % p = 0 <=> \E k \in Nat : a = k * p
<1>1. a % p = 0 => \E k \in Nat : a = k * p
  BY Division
<1>2. ASSUME NEW k \in Nat, a = k * p PROVE a % p = 0
  <2>1. (k * p + 0) % p = 0
    BY Remainder
  <2>2. k * p + 0 = a
    BY <1>2
  <2> QED
    BY <2>1, <2>2
<1> QED
  BY <1>1, <1>2

LEMMA Multiples ==
  ASSUME NEW p \in Nat, p > 0, NEW a \in Nat, NEW b \in Nat,
         a % p = 0, b % p = 0
  PROVE  /\ (a + b) % p = 0
         /\ b <= a => (a - b) % p = 0
         /\ b < a => b + p <= a
<1>1. PICK k \in Nat : a = k * p
  BY Multiple
<1>2. PICK m \in Nat : b = m * p
  BY Multiple
<1>3. a + b = (k + m) * p /\ k + m \in Nat /\ a + b \in Nat
  BY <1>1, <1>2
<1>4. b <= a => m <= k
  BY <1>1, <1>2
<1>5. m <= k => a - b = (k - m) * p /\ k - m \in Nat /\ a - b \in Nat
  BY <1>1, <1>2
<1>6. b < a => m < k
  BY <1>1, <1>2
<1>7. m < k => (m + 1) * p <= k * p
  OBVIOUS
<1>8. (m + 1) * p = b + p
  BY <1>2
<1> QED
  BY <1>1, <1>3, <1>4, <1>5, <1>6, <1>7, <1>8, Multiple

\* roundup, and a multiple of a page inside it is below what was rounded.
LEMMA Rounded ==
  ASSUME NEW n \in Nat
  PROVE  /\ RoundUp(n) \in Nat /\ RoundUp(n) % Page = 0
         /\ n <= RoundUp(n) /\ RoundUp(n) < n + Page
<1>1. Page \in Nat /\ Page > 0
  BY PrpListAssumption
<1>2. PICK q \in Nat, r \in Nat : r = n % Page /\ r < Page /\ n = q * Page + r
  BY <1>1, Division
<1>3. RoundUp(n) = IF r = 0 THEN n ELSE (n + Page) - r
  BY <1>2, Zenon DEF RoundUp
<1>4. RoundUp(n) = IF r = 0 THEN q * Page ELSE (q + 1) * Page
  BY <1>1, <1>2, <1>3
<1>5. RoundUp(n) \in Nat /\ n <= RoundUp(n) /\ RoundUp(n) < n + Page
  BY <1>1, <1>2, <1>3
<1>6. \E k \in Nat : RoundUp(n) = k * Page
  BY <1>4
<1> QED
  BY <1>1, <1>5, <1>6, Multiple

\* Pages that meet are the same page.
LEMMA SamePage ==
  ASSUME NEW a \in Nat, NEW b \in Nat, a % Page = 0, b % Page = 0,
         NEW x \in Run(a, Page), x \in Run(b, Page)
  PROVE  a = b
<1>1. Page \in Nat /\ Page > 0
  BY PrpListAssumption
<1>2. (a < b => a + Page <= b) /\ (b < a => b + Page <= a)
  BY <1>1, Multiples
<1>3. x \in Int /\ a <= x /\ x < a + Page /\ b <= x /\ x < b + Page
  BY <1>1 DEF Run
<1> QED
  BY <1>1, <1>2, <1>3

-----------------------------------------------------------------------------
(* The invariant: who has which pages. *)

States == {"idle", "setup", "list", "device", "completed"}

\* The pages the allocator was given.
Usable == {a \in Cells : a >= Page}

Types ==
  /\ freed \subseteq Usable
  /\ pc \in [Cmds -> States]
  /\ block \in [Cmds -> Block \cup {None}]
  /\ prp_lists \in [Cmds -> Lists \cup {None}]

\* A command's buffer with what roundup added, and the pages of its lists.
Places == {"buffer", "lists"} \X Cmds

BufferOf(c) == IF block[c] = None THEN {}
               ELSE Run(block[c].base, RoundUp(block[c].len))

ListsOf(c) == IF prp_lists[c] = None THEN {}
              ELSE UNION {Run(l, Page) : l \in ToSet(prp_lists[c])}

PagesOf(p) == IF p[1] = "buffer" THEN BufferOf(p[2]) ELSE ListsOf(p[2])

\* A cell is free or in one place, if it is in use at all.
Apart ==
  /\ \A p \in Places : PagesOf(p) \cap freed = {} /\ PagesOf(p) \subseteq Usable
  /\ \A p, q \in Places : p # q => PagesOf(p) \cap PagesOf(q) = {}

\* Both are whole pages.
Aligned(c) ==
  /\ block[c] # None => block[c].base % Page = 0 /\ block[c].len > 0
  /\ prp_lists[c] # None => \A l \in ToSet(prp_lists[c]) : l \in Nat /\ l % Page = 0

\* What a command has at each step of its life.
Holds(c) ==
  /\ pc[c] = "idle" => block[c] = None /\ prp_lists[c] = None
  /\ pc[c] \in {"setup", "list", "device"} => block[c] # None /\ prp_lists[c] # None
  /\ pc[c] = "completed" => block[c] # None \/ prp_lists[c] # None

\* Every page is free or has a place.
Accounted ==
  \A a \in Usable : a % Page = 0 =>
    a \in freed \/ \E p \in Places : a \in PagesOf(p)

Owned ==
  Types /\ Apart /\ Accounted /\ \A c \in Cmds : Aligned(c) /\ Holds(c)

\* The elements of a sequence with one more.
LEMMA AppendSet ==
  ASSUME NEW s \in Seq(Nat), NEW e \in Nat
  PROVE  /\ ToSet(Append(s, e)) = ToSet(s) \cup {e}
         /\ \A i \in 1 .. Len(s) : s[i] \in ToSet(s)
<1>1. DOMAIN s = 1 .. Len(s) /\ Len(s) \in Nat
  BY LenProperties
<1>2. /\ DOMAIN Append(s, e) = 1 .. Len(s) + 1
      /\ \A i \in 1 .. Len(s) : Append(s, e)[i] = s[i]
      /\ Append(s, e)[Len(s) + 1] = e
  BY AppendProperties, LenProperties
<1>3. /\ ToSet(s) = {s[i] : i \in 1 .. Len(s)}
      /\ ToSet(Append(s, e)) = {Append(s, e)[i] : i \in 1 .. Len(s) + 1}
  BY <1>1, <1>2 DEF ToSet
<1> QED
  BY <1>1, <1>2, <1>3

\* An allocation finds the run it promises.
LEMMA AllocateFinds ==
  ASSUME NEW n, freed \subseteq Usable, Candidates(n) # {}
  PROVE  /\ AllocatePages(n) \in freed /\ AllocatePages(n) % Page = 0
         /\ Run(AllocatePages(n), RoundUp(n)) \subseteq freed
         /\ AllocatePages(n) \in Nat
<1>1. Cells \subseteq Nat
  BY PrpListAssumption DEF Cells
<1>2. Candidates(n) \subseteq Nat
  BY <1>1 DEF Candidates, Usable
<1>3. \E a \in Candidates(n) : \A b \in Candidates(n) : a <= b
  BY <1>2, LeastNat
<1>4. AllocatePages(n) \in Candidates(n)
  BY <1>3 DEF AllocatePages
<1> QED
  BY <1>2, <1>4 DEF Candidates

\* Taking free cells to a place, and giving a place back.
LEMMA TakeApart ==
  ASSUME Apart, NEW p \in Places, NEW A, A \subseteq freed, A \subseteq Usable,
         freed' = freed \ A, PagesOf(p)' \subseteq PagesOf(p) \cup A,
         \A q \in Places : q # p => PagesOf(q)' = PagesOf(q)
  PROVE  Apart'
<1>1. ASSUME NEW q \in Places
      PROVE  /\ PagesOf(q)' \cap freed' = {}
             /\ PagesOf(q)' \subseteq Usable
  BY DEF Apart
<1>2. ASSUME NEW q \in Places, NEW r \in Places, q # r
      PROVE  PagesOf(q)' \cap PagesOf(r)' = {}
  BY <1>2 DEF Apart
<1> QED
  BY <1>1, <1>2 DEF Apart, Places, Usable, Cells

LEMMA GiveApart ==
  ASSUME Apart, NEW p \in Places, freed' \subseteq freed \cup PagesOf(p),
         PagesOf(p)' = {}, \A q \in Places : q # p => PagesOf(q)' = PagesOf(q)
  PROVE  Apart'
<1>1. ASSUME NEW q \in Places
      PROVE  /\ PagesOf(q)' \cap freed' = {}
             /\ PagesOf(q)' \subseteq Usable
  BY DEF Apart
<1>2. ASSUME NEW q \in Places, NEW r \in Places, q # r
      PROVE  PagesOf(q)' \cap PagesOf(r)' = {}
  BY <1>2 DEF Apart
<1> QED
  BY <1>1, <1>2 DEF Apart, Places, Usable, Cells

LEMMA TakeAccounted ==
  ASSUME Accounted, NEW p \in Places, NEW A, freed' = freed \ A,
         PagesOf(p) \subseteq PagesOf(p)',
         \A a \in A \cap Usable : a % Page = 0 => a \in PagesOf(p)',
         \A q \in Places : q # p => PagesOf(q)' = PagesOf(q)
  PROVE  Accounted'
<1> SUFFICES ASSUME NEW a \in Usable, a % Page = 0, a \notin freed'
             PROVE  \E q \in Places : a \in PagesOf(q)'
  BY DEF Accounted, Places, Usable, Cells
<1>1. a \in freed \/ \E q \in Places : a \in PagesOf(q)
  BY DEF Accounted
<1> QED
  BY <1>1

LEMMA GiveAccounted ==
  ASSUME Accounted, NEW p \in Places, freed \subseteq freed',
         \A a \in PagesOf(p) : a % Page = 0 => a \in freed',
         \A q \in Places : q # p => PagesOf(q)' = PagesOf(q)
  PROVE  Accounted'
<1> SUFFICES ASSUME NEW a \in Usable, a % Page = 0, a \notin freed'
             PROVE  \E q \in Places : a \in PagesOf(q)'
  BY DEF Accounted, Places, Usable, Cells
<1>1. a \in freed \/ \E q \in Places : a \in PagesOf(q)
  BY DEF Accounted
<1> QED
  BY <1>1

\* A change of one command's buffer or lists leaves the other places alone.
LEMMA OtherBuffers ==
  ASSUME NEW c \in Cmds, \A d \in Cmds : d # c => block'[d] = block[d],
         \A d \in Cmds : ListsOf(d)' = ListsOf(d)
  PROVE  \A q \in Places : q # <<"buffer", c>> => PagesOf(q)' = PagesOf(q)
<1> SUFFICES ASSUME NEW k \in {"buffer", "lists"}, NEW d \in Cmds,
                    <<k, d>> # <<"buffer", c>>
             PROVE  PagesOf(<<k, d>>)' = PagesOf(<<k, d>>)
  BY DEF Places
<1> QED
  BY DEF PagesOf, BufferOf

LEMMA OtherLists ==
  ASSUME NEW c \in Cmds, \A d \in Cmds : d # c => prp_lists'[d] = prp_lists[d],
         block' = block
  PROVE  \A q \in Places : q # <<"lists", c>> => PagesOf(q)' = PagesOf(q)
<1> SUFFICES ASSUME NEW k \in {"buffer", "lists"}, NEW d \in Cmds,
                    <<k, d>> # <<"lists", c>>
             PROVE  PagesOf(<<k, d>>)' = PagesOf(<<k, d>>)
  BY DEF Places
<1> QED
  BY DEF PagesOf, BufferOf, ListsOf

LEMMA RequestOwned ==
  ASSUME Owned, NEW c \in Cmds, NEW len \in Lens, Request(c, len)
  PROVE  Owned'
<1> DEFINE base == AllocatePages(len)
           b    == [base |-> base, len |-> len]
           A    == Run(base, RoundUp(len))
           p    == <<"buffer", c>>
<1>1. /\ pc[c] = "idle" /\ freed' = freed \ A
      /\ block' = [block EXCEPT ![c] = b]
      /\ prp_lists' = [prp_lists EXCEPT ![c] = << >>]
      /\ pc' = [pc EXCEPT ![c] = "setup"]
  BY DEF Request
<1>2. Types /\ Apart /\ Accounted
  BY DEF Owned
<1>3. base \in Nat /\ base % Page = 0 /\ A \subseteq freed
  BY <1>2, AllocateFinds DEF Request, Types
<1>4. len \in Nat /\ len > 0
  BY PrpListAssumption
<1>5. b \in Block /\ b # None /\ b.base = base /\ b.len = len
  BY <1>3, <1>4, NoneAssumption DEF Block
<1>6. << >> \in Lists /\ << >> # None
  <2>1. << >> \in Seq(Nat)
    OBVIOUS
  <2> QED
    BY <2>1, NoneAssumption DEF Lists
<1>7. block[c] = None /\ prp_lists[c] = None
  BY <1>1 DEF Owned, Holds
<1>8. block'[c] = b /\ prp_lists'[c] = << >> /\ pc'[c] = "setup"
  BY <1>1, <1>2 DEF Types
<1>9. \A d \in Cmds : d # c => /\ block'[d] = block[d] /\ pc'[d] = pc[d]
                               /\ prp_lists'[d] = prp_lists[d]
  BY <1>1, <1>2 DEF Types
<1>10. p \in Places /\ PagesOf(p) = {} /\ PagesOf(p)' = A
  BY <1>5, <1>7, <1>8 DEF Places, PagesOf, BufferOf
<1>11. \A q \in Places : q # p => PagesOf(q)' = PagesOf(q)
  <2>1. ToSet(<< >>) = {}
    BY DEF ToSet
  <2>2. ListsOf(c) = {} /\ ListsOf(c)' = {}
    BY <1>6, <1>7, <1>8, <2>1 DEF ListsOf
  <2>3. \A d \in Cmds : d # c => ListsOf(d)' = ListsOf(d)
    BY <1>9 DEF ListsOf
  <2> QED
    BY <1>9, <2>2, <2>3, OtherBuffers
<1> HIDE DEF base, b, A, p
<1>12. Apart'
  BY <1>1, <1>2, <1>3, <1>10, <1>11, TakeApart DEF Types
<1>13. Accounted'
  BY <1>1, <1>2, <1>10, <1>11, TakeAccounted
<1>14. Types'
  BY <1>1, <1>2, <1>5, <1>6 DEF Types, States, Usable, Cells
<1>15. ASSUME NEW d \in Cmds PROVE Aligned(d)' /\ Holds(d)'
  <2>1. CASE d = c
    BY <1>3, <1>4, <1>5, <1>6, <1>8, <2>1 DEF Aligned, Holds, ToSet
  <2>2. CASE d # c
    BY <1>9, <2>2 DEF Owned, Aligned, Holds
  <2> QED
    BY <2>1, <2>2
<1> QED
  BY <1>12, <1>13, <1>14, <1>15 DEF Owned

\* A list more, for a command that goes on with it.
LEMMA ListOwned ==
  ASSUME Owned, NEW c \in Cmds, NewList(c), block' = block,
         pc[c] \in {"setup", "list"}, pc'[c] \in {"list", "device"},
         pc' \in [Cmds -> States], \A d \in Cmds : d # c => pc'[d] = pc[d]
  PROVE  Owned'
<1> DEFINE list == AllocatePages(Page)
           A    == Run(list, Page)
           p    == <<"lists", c>>
<1>1. /\ freed' = freed \ A
      /\ prp_lists' = [prp_lists EXCEPT ![c] = Append(@, list)]
  BY DEF NewList
<1>2. Types /\ Apart /\ Accounted
  BY DEF Owned
<1>3. RoundUp(Page) = Page
  <2>1. Page \in Nat /\ Page > 0
    BY PrpListAssumption
  <2>2. \E k \in Nat : Page = k * Page
    BY <2>1
  <2>3. Page % Page = 0
    BY <2>1, <2>2, Multiple
  <2> QED
    BY <2>3 DEF RoundUp
<1>4. list \in Nat /\ list % Page = 0 /\ A \subseteq freed
  BY <1>2, <1>3, AllocateFinds DEF NewList, Types
<1>5. prp_lists[c] # None /\ prp_lists[c] \in Lists /\ block[c] # None
  BY <1>2 DEF Owned, Holds, Types
<1>6. prp_lists'[c] = Append(prp_lists[c], list)
  BY <1>1, <1>2 DEF Types
<1>7. /\ prp_lists'[c] \in Lists /\ prp_lists'[c] # None
      /\ ToSet(prp_lists'[c]) = ToSet(prp_lists[c]) \cup {list}
  <2>1. prp_lists'[c] \in Lists
    BY <1>4, <1>5, <1>6 DEF Lists
  <2>2. ToSet(Append(prp_lists[c], list)) = ToSet(prp_lists[c]) \cup {list}
    BY <1>4, <1>5, AppendSet DEF Lists
  <2> QED
    BY <1>6, <2>1, <2>2, NoneAssumption
<1>8. \A d \in Cmds : d # c => prp_lists'[d] = prp_lists[d]
  BY <1>1, <1>2 DEF Types
<1> HIDE DEF list
<1>9. p \in Places /\ PagesOf(p)' = PagesOf(p) \cup A
  <2>1. ListsOf(c)' = ListsOf(c) \cup A
    BY <1>5, <1>7 DEF ListsOf
  <2> QED
    BY <2>1 DEF Places, PagesOf
<1>10. \A q \in Places : q # p => PagesOf(q)' = PagesOf(q)
  BY <1>8, OtherLists
<1> HIDE DEF A, p
<1>11. Apart'
  BY <1>1, <1>2, <1>4, <1>9, <1>10, TakeApart DEF Types
<1>12. Accounted'
  BY <1>1, <1>2, <1>9, <1>10, TakeAccounted
<1>13. Types'
  BY <1>1, <1>2, <1>5, <1>6, <1>7, <1>8 DEF Types, Usable, Cells
<1>14. ASSUME NEW d \in Cmds PROVE Aligned(d)' /\ Holds(d)'
  <2>1. CASE d = c
    BY <1>4, <1>5, <1>7, <2>1 DEF Owned, Aligned, Holds
  <2>2. CASE d # c
    BY <1>8, <2>2 DEF Owned, Aligned, Holds
  <2> QED
    BY <2>1, <2>2
<1> QED
  BY <1>11, <1>12, <1>13, <1>14 DEF Owned

\* Steps that leave the pages where they are.
LEMMA StillOwned ==
  ASSUME Owned, UNCHANGED <<freed, block, prp_lists>>,
         pc' \in [Cmds -> States], \A c \in Cmds : Holds(c)'
  PROVE  Owned'
<1>1. \A p \in Places : PagesOf(p)' = PagesOf(p)
  BY DEF Places, PagesOf, BufferOf, ListsOf
<1>2. Types' /\ Apart' /\ Accounted'
  BY <1>1 DEF Owned, Types, Apart, Accounted, Usable, Cells, Places
<1>3. \A c \in Cmds : Aligned(c)'
  BY DEF Owned, Aligned
<1> QED
  BY <1>2, <1>3 DEF Owned

\* What a buffer's free gives back of its pages: as far as was asked for, and
\* with that the start of every page.
LEMMA FreedRun ==
  ASSUME NEW base \in Nat, NEW len \in Nat, base % Page = 0, len > 0
  PROVE  /\ Run(base, len) \subseteq Run(base, RoundUp(len))
         /\ \A a \in Run(base, RoundUp(len)) : a % Page = 0 => a \in Run(base, len)
<1>1. Page \in Nat /\ Page > 0
  BY PrpListAssumption
<1> DEFINE up == RoundUp(len)
<1>2. up \in Nat /\ up % Page = 0 /\ len <= up /\ up < len + Page
  BY Rounded
<1> HIDE DEF up
<1>3. Run(base, len) \subseteq Run(base, up)
  BY <1>2 DEF Run
<1>4. ASSUME NEW a \in Run(base, up), a % Page = 0
      PROVE  a \in Run(base, len)
  <2>1. a \in Nat /\ base <= a /\ a < base + up /\ base + up \in Nat
    BY <1>2 DEF Run
  <2>2. (base + up) % Page = 0
    BY <1>1, <1>2, Multiples
  <2>3. a + Page <= base + up
    BY <1>1, <1>4, <2>1, <2>2, Multiples
  <2> QED
    BY <1>1, <1>2, <2>1, <2>3 DEF Run
<1> QED
  BY <1>3, <1>4 DEF up

LEMMA FreeBufferOwned ==
  ASSUME Owned, NEW c \in Cmds, FreeBuffer(c)
  PROVE  Owned'
<1> DEFINE p == <<"buffer", c>>
<1>1. /\ pc[c] = "completed" /\ block[c] # None
      /\ freed' = freed \cup Run(block[c].base, block[c].len)
      /\ block' = [block EXCEPT ![c] = None]
      /\ pc' = [pc EXCEPT ![c] = IF prp_lists[c] = None THEN "idle" ELSE @]
      /\ prp_lists' = prp_lists
  BY DEF FreeBuffer
<1>2. Types /\ Apart /\ Accounted
  BY DEF Owned
<1>3. /\ block[c].base \in Nat /\ block[c].len \in Nat
      /\ block[c].base % Page = 0 /\ block[c].len > 0
  BY <1>1, <1>2 DEF Owned, Types, Aligned, Block
<1>4. block'[c] = None /\ \A d \in Cmds : d # c => block'[d] = block[d]
  BY <1>1, <1>2 DEF Types
<1>5. /\ pc'[c] = IF prp_lists[c] = None THEN "idle" ELSE "completed"
      /\ \A d \in Cmds : d # c => pc'[d] = pc[d]
  BY <1>1, <1>2 DEF Types
<1>6. /\ p \in Places /\ PagesOf(p)' = {}
      /\ PagesOf(p) = Run(block[c].base, RoundUp(block[c].len))
  BY <1>1, <1>4 DEF Places, PagesOf, BufferOf
<1>7. \A q \in Places : q # p => PagesOf(q)' = PagesOf(q)
  <2>1. \A d \in Cmds : ListsOf(d)' = ListsOf(d)
    BY <1>1 DEF ListsOf
  <2> QED
    BY <1>4, <2>1, OtherBuffers
<1> HIDE DEF p
<1>8. /\ freed' \subseteq freed \cup PagesOf(p) /\ freed \subseteq freed'
      /\ \A a \in PagesOf(p) : a % Page = 0 => a \in freed'
  <2>1. freed' \subseteq freed \cup PagesOf(p)
    BY <1>1, <1>3, <1>6, FreedRun
  <2>2. \A a \in PagesOf(p) : a % Page = 0 => a \in freed'
    BY <1>1, <1>3, <1>6, FreedRun
  <2> QED
    BY <1>1, <2>1, <2>2
<1>9. Apart'
  BY <1>2, <1>6, <1>7, <1>8, GiveApart
<1>10. Accounted'
  BY <1>2, <1>6, <1>7, <1>8, GiveAccounted
<1>11. Types'
  <2>1. freed' \subseteq Usable
    BY <1>2, <1>6, <1>8 DEF Types, Apart
  <2> QED
    BY <1>1, <1>2, <2>1 DEF Types, States, Usable, Cells
<1>12. ASSUME NEW d \in Cmds PROVE Aligned(d)' /\ Holds(d)'
  <2>1. CASE d = c
    BY <1>1, <1>4, <1>5, <2>1 DEF Owned, Aligned, Holds
  <2>2. CASE d # c
    BY <1>1, <1>4, <1>5, <2>2 DEF Owned, Aligned, Holds
  <2> QED
    BY <2>1, <2>2
<1> QED
  BY <1>9, <1>10, <1>11, <1>12 DEF Owned

LEMMA DestroyOwned ==
  ASSUME Owned, NEW c \in Cmds, DestroyCommand(c)
  PROVE  Owned'
<1> DEFINE p == <<"lists", c>>
<1>1. /\ pc[c] = "completed" /\ prp_lists[c] # None
      /\ freed' = freed \cup ListsOf(c)
      /\ prp_lists' = [prp_lists EXCEPT ![c] = None]
      /\ pc' = [pc EXCEPT ![c] = IF block[c] = None THEN "idle" ELSE @]
      /\ block' = block
  BY DEF DestroyCommand, ListsOf
<1>2. Types /\ Apart /\ Accounted
  BY DEF Owned
<1>3. prp_lists'[c] = None /\ \A d \in Cmds : d # c => prp_lists'[d] = prp_lists[d]
  BY <1>1, <1>2 DEF Types
<1>4. /\ pc'[c] = IF block[c] = None THEN "idle" ELSE "completed"
      /\ \A d \in Cmds : d # c => pc'[d] = pc[d]
  BY <1>1, <1>2 DEF Types
<1>5. p \in Places /\ PagesOf(p)' = {} /\ PagesOf(p) = ListsOf(c)
  <2>1. ListsOf(c)' = {}
    BY <1>3 DEF ListsOf
  <2> QED
    BY <2>1 DEF Places, PagesOf
<1>6. \A q \in Places : q # p => PagesOf(q)' = PagesOf(q)
  BY <1>1, <1>3, OtherLists
<1> HIDE DEF p
<1>7. Apart'
  BY <1>1, <1>2, <1>5, <1>6, GiveApart
<1>8. Accounted'
  BY <1>1, <1>2, <1>5, <1>6, GiveAccounted
<1>9. Types'
  <2>1. freed' \subseteq Usable
    BY <1>1, <1>2, <1>5 DEF Types, Apart
  <2> QED
    BY <1>1, <1>2, <2>1 DEF Types, States, Usable, Cells
<1>10. ASSUME NEW d \in Cmds PROVE Aligned(d)' /\ Holds(d)'
  <2>1. CASE d = c
    BY <1>1, <1>3, <1>4, <2>1 DEF Owned, Aligned, Holds
  <2>2. CASE d # c
    BY <1>1, <1>3, <1>4, <2>2 DEF Owned, Aligned, Holds
  <2> QED
    BY <2>1, <2>2
<1> QED
  BY <1>7, <1>8, <1>9, <1>10 DEF Owned

-----------------------------------------------------------------------------
(* Every step. *)

LEMMA OwnedInit == Init => Owned
<1> SUFFICES ASSUME Init PROVE Owned
  OBVIOUS
<1>1. \A p \in Places : PagesOf(p) = {}
  BY DEF Init, Places, PagesOf, BufferOf, ListsOf
<1>2. freed = Usable
  BY DEF Init, Usable
<1>3. Types
  BY <1>2 DEF Init, Types, States
<1>4. Apart /\ Accounted
  BY <1>1, <1>2 DEF Apart, Accounted
<1>5. \A c \in Cmds : Aligned(c) /\ Holds(c)
  BY DEF Init, Aligned, Holds
<1> QED
  BY <1>3, <1>4, <1>5 DEF Owned

LEMMA OwnedStep == Owned /\ [Next]_vars => Owned'
<1> SUFFICES ASSUME Owned, [Next]_vars PROVE Owned'
  OBVIOUS
<1>1. pc \in [Cmds -> States]
  BY DEF Owned, Types
<1>2. CASE UNCHANGED vars
  <2>1. \A c \in Cmds : Holds(c)'
    BY <1>2 DEF vars, Owned, Holds
  <2> QED
    BY <1>1, <1>2, <2>1, StillOwned DEF vars
<1>3. CASE Next
  <2> PICK c \in Cmds :
        \/ \E len \in Lens : Request(c, len) \/ RequestThrows(c, len)
        \/ TwoPages(c) \/ FirstList(c) \/ WriteEntry(c) \/ ChainList(c)
        \/ ListThrows(c)
        \/ DevComplete(c) \/ FreeBuffer(c) \/ DestroyCommand(c)
    BY <1>3 DEF Next
  <2>1. ASSUME NEW len \in Lens, Request(c, len) PROVE Owned'
    BY <2>1, RequestOwned
  <2>2. ASSUME NEW len \in Lens, RequestThrows(c, len) PROVE Owned'
    <3>1. UNCHANGED <<freed, pc, block, prp_lists>>
      BY <2>2 DEF RequestThrows, NotAvailable
    <3>2. \A d \in Cmds : Holds(d)'
      BY <3>1 DEF Owned, Holds
    <3> QED
      BY <1>1, <3>1, <3>2, StillOwned
  <2>3. CASE TwoPages(c)
    <3>1. /\ UNCHANGED <<freed, block, prp_lists>> /\ pc[c] = "setup"
          /\ pc' = [pc EXCEPT ![c] = "device"]
      BY <2>3 DEF TwoPages
    <3>2. pc' \in [Cmds -> States]
      BY <1>1, <3>1 DEF States
    <3>3. \A d \in Cmds : Holds(d)'
      BY <1>1, <3>1 DEF Owned, Holds
    <3> QED
      BY <3>1, <3>2, <3>3, StillOwned
  <2>4. CASE FirstList(c)
    <3>1. /\ NewList(c) /\ block' = block /\ pc[c] = "setup"
          /\ pc' = [pc EXCEPT ![c] = "list"]
      BY <2>4 DEF FirstList
    <3>2. /\ pc' \in [Cmds -> States] /\ pc'[c] = "list"
          /\ \A d \in Cmds : d # c => pc'[d] = pc[d]
      BY <1>1, <3>1 DEF States
    <3> QED
      BY <3>1, <3>2, ListOwned
  <2>5. CASE WriteEntry(c)
    <3>1. UNCHANGED <<freed, block, prp_lists>> /\ pc[c] = "list"
      BY <2>5 DEF WriteEntry
    <3>2. \/ pc' = pc
          \/ pc' = [pc EXCEPT ![c] = "device"]
          \/ pc' = [pc EXCEPT ![c] = "list"]
      BY <2>5 DEF WriteEntry, StoreEntry
    <3>3. pc' \in [Cmds -> States]
      BY <1>1, <3>2 DEF States
    <3>4. \A d \in Cmds : Holds(d)'
      BY <1>1, <3>1, <3>2 DEF Owned, Holds
    <3> QED
      BY <3>1, <3>3, <3>4, StillOwned
  <2>6. CASE ChainList(c)
    <3>1. NewList(c) /\ block' = block /\ pc[c] = "list"
      BY <2>6 DEF ChainList
    <3>2. \/ pc' = pc
          \/ pc' = [pc EXCEPT ![c] = "device"]
          \/ pc' = [pc EXCEPT ![c] = "list"]
      BY <2>6 DEF ChainList, StoreEntry
    <3>3. /\ pc' \in [Cmds -> States] /\ pc'[c] \in {"list", "device"}
          /\ \A d \in Cmds : d # c => pc'[d] = pc[d]
      BY <1>1, <3>1, <3>2 DEF States
    <3> QED
      BY <3>1, <3>3, ListOwned
  <2>7. CASE ListThrows(c)
    <3>1. UNCHANGED <<freed, pc, block, prp_lists>>
      BY <2>7 DEF ListThrows, NotAvailable
    <3>2. \A d \in Cmds : Holds(d)'
      BY <3>1 DEF Owned, Holds
    <3> QED
      BY <1>1, <3>1, <3>2, StillOwned
  <2>8. CASE DevComplete(c)
    <3>1. /\ UNCHANGED <<freed, block, prp_lists>> /\ pc[c] = "device"
          /\ pc' = [pc EXCEPT ![c] = "completed"]
      BY <2>8 DEF DevComplete
    <3>2. pc' \in [Cmds -> States]
      BY <1>1, <3>1 DEF States
    <3>3. \A d \in Cmds : Holds(d)'
      BY <1>1, <3>1 DEF Owned, Holds
    <3> QED
      BY <3>1, <3>2, <3>3, StillOwned
  <2>9. CASE FreeBuffer(c)
    BY <2>9, FreeBufferOwned
  <2>10. CASE DestroyCommand(c)
    BY <2>10, DestroyOwned
  <2> QED
    BY <2>1, <2>2, <2>3, <2>4, <2>5, <2>6, <2>7, <2>8, <2>9, <2>10
<1> QED
  BY <1>2, <1>3

LEMMA OwnedAlways == Spec => []Owned
  BY OwnedInit, OwnedStep, PTL DEF Spec

\* No page is used twice, however the threads interleave: a buffer or a list is
\* nobody else's, and the allocator does not have it, from the allocation in
\* the request or in setup_buffer to the free of its own request or command.
THEOREM PagesArePrivate == Spec => []PagesPrivate
<1>1. Owned => PagesPrivate
  <2> SUFFICES ASSUME Owned PROVE PagesPrivate
    OBVIOUS
  <2> DEFINE used(c) == BufferOf(c) \cup ListsOf(c)
  <2>1. Apart
    BY DEF Owned
  <2>2. ASSUME NEW c \in Cmds
        PROVE  /\ <<"buffer", c>> \in Places /\ <<"lists", c>> \in Places
               /\ PagesOf(<<"buffer", c>>) = BufferOf(c)
               /\ PagesOf(<<"lists", c>>) = ListsOf(c)
    BY DEF Places, PagesOf
  <2>3. \A c \in Cmds : used(c) \cap freed = {}
    BY <2>1, <2>2 DEF Apart
  <2>4. ASSUME NEW c \in Cmds, NEW d \in Cmds, c # d
        PROVE  used(c) \cap used(d) = {}
    <3>1. ASSUME NEW j \in {"buffer", "lists"}, NEW k \in {"buffer", "lists"}
          PROVE  PagesOf(<<j, c>>) \cap PagesOf(<<k, d>>) = {}
      <4>1. <<j, c>> \in Places /\ <<k, d>> \in Places /\ <<j, c>> # <<k, d>>
        BY <2>4 DEF Places
      <4> QED
        BY <2>1, <4>1 DEF Apart
    <3> QED
      BY <2>2, <3>1
  <2> QED
    BY <2>3, <2>4 DEF PagesPrivate, BufferOf, ListsOf
<1> QED
  BY <1>1, OwnedAlways, PTL

\* When nothing is in progress every page of the memory is free again: no list
\* of any command, and no page of any buffer, has been forgotten.
THEOREM PagesComeBack == Spec => []PagesReturned
<1>1. Owned => PagesReturned
  <2> SUFFICES ASSUME Owned, \A c \in Cmds : pc[c] = "idle",
                      NEW a \in Cells, a >= Page, a % Page = 0
               PROVE  a \in freed
    BY DEF PagesReturned
  <2>1. \A p \in Places : PagesOf(p) = {}
    BY DEF Owned, Holds, Places, PagesOf, BufferOf, ListsOf
  <2> QED
    BY <2>1 DEF Owned, Accounted, Usable
<1> QED
  BY <1>1, OwnedAlways, PTL

-----------------------------------------------------------------------------
(* What setup_buffer has said so far. *)

PageAt(b, k) == b.base + k * Page

\* Command c has the list l, with its first n entries.
Listed(c, l, n) ==
  /\ prp[c] = <<block[c].base, l>> /\ prp_lists[c] = <<l>>
  /\ block[c].len > 2 * Page
  /\ \A j \in 0 .. n - 1 : mem[l + j] = PageAt(block[c], j + 1)

Right(c) ==
  /\ pc[c] = "setup" =>
       /\ local[c] = [buf |-> block[c].base, buflen |-> block[c].len,
                      prp_list |-> 0, i |-> 0]
       /\ prp_lists[c] = << >>
  /\ pc[c] = "list" =>
       \E l \in Nat, n \in 0 .. Page :
         /\ local[c] = [buf |-> PageAt(block[c], n + 1),
                        buflen |-> block[c].len - (n + 1) * Page,
                        prp_list |-> l, i |-> n]
         /\ (n + 1) * Page < block[c].len
         /\ Listed(c, l, n)
  /\ pc[c] = "device" =>
       \/ block[c].len <= Page /\ prp[c] = <<block[c].base, 0>>
       \/ /\ Page < block[c].len /\ block[c].len <= 2 * Page
          /\ prp[c] = <<block[c].base, block[c].base + Page>>
       \/ \E l \in Nat, n \in 0 .. Page :
            /\ n * Page < block[c].len /\ block[c].len <= (n + 1) * Page
            /\ Listed(c, l, n)

Domains == DOMAIN mem = Cells /\ DOMAIN local = Cmds /\ DOMAIN prp = Cmds

AllRight == Owned /\ Domains /\ (~overrun => \A c \in Cmds : Right(c))

LEMMA EntriesOfOneList ==
  ASSUME NEW list \in Nat, NEW n \in 0 .. Page, Run(list, Page) \subseteq Cells
  PROVE  Entries(list, n) = [j \in 1 .. n |-> mem[list + j - 1]]
<1> DEFINE entry(f, k) ==
             [l \in Nat |->
               IF ~(Run(l, Page) \subseteq Cells) THEN << >>
               ELSE IF k <= Page
                    THEN [j \in 1 .. k |-> mem[l + j - 1]]
                    ELSE [j \in 1 .. Page - 1 |-> mem[l + j - 1]]
                           \o f[k - (Page - 1)][mem[l + Page - 1]]]
           plain(k) ==
             [l \in Nat |->
               IF ~(Run(l, Page) \subseteq Cells) THEN << >>
               ELSE [j \in 1 .. k |-> mem[l + j - 1]]]
           walk == CHOOSE f : f = [k \in 0 .. n |-> entry(f, k)]
           g == [k \in 0 .. n |-> plain(k)]
<1>1. Entries(list, n) = walk[n][list]
  BY Zenon DEF Entries
<1>2. Page \in Nat
  BY PrpListAssumption
<1>3. \A f : \A k \in 0 .. n : entry(f, k) = plain(k)
  BY <1>2
<1> HIDE DEF entry
<1>4. g = [k \in 0 .. n |-> entry(g, k)]
  BY <1>3
<1> HIDE DEF g
<1>5. walk = [k \in 0 .. n |-> entry(walk, k)]
  BY <1>4, Zenon
<1> HIDE DEF walk
<1>6. walk[n] = plain(n)
  BY <1>3, <1>5
<1> QED
  BY <1>1, <1>6

\* What a command has said stays, while nobody writes into its list.
LEMMA StaysRight ==
  ASSUME NEW c \in Cmds, Right(c), pc[c] \in States,
         pc'[c] = pc[c], block'[c] = block[c], local'[c] = local[c],
         prp'[c] = prp[c], prp_lists'[c] = prp_lists[c],
         \A a \in ListsOf(c) : mem'[a] = mem[a]
  PROVE  Right(c)'
<1>1. ASSUME NEW l \in Nat, NEW n \in 0 .. Page, Listed(c, l, n)
      PROVE  Listed(c, l, n)'
  <2>1. \A j \in 0 .. n - 1 : l + j \in Run(l, Page)
    BY PrpListAssumption DEF Run
  <2>2. ToSet(<<l>>) = {l}
    BY DEF ToSet
  <2>3. <<l>> \in Lists
    BY DEF Lists
  <2>4. Run(l, Page) \subseteq ListsOf(c)
    BY <1>1, <2>2, <2>3, NoneAssumption DEF ListsOf, Listed
  <2> QED
    BY <1>1, <2>1, <2>4 DEF Listed, PageAt
<1>2. CASE pc[c] = "setup"
  BY <1>2 DEF Right
<1>3. CASE pc[c] = "list"
  <2>1. PICK l \in Nat, n \in 0 .. Page :
          /\ local[c] = [buf |-> PageAt(block[c], n + 1),
                         buflen |-> block[c].len - (n + 1) * Page,
                         prp_list |-> l, i |-> n]
          /\ (n + 1) * Page < block[c].len
          /\ Listed(c, l, n)
    BY <1>3 DEF Right
  <2>2. Listed(c, l, n)'
    BY <1>1, <2>1
  <2> QED
    BY <1>3, <2>1, <2>2 DEF Right, PageAt
<1>4. CASE pc[c] = "device"
  BY <1>1, <1>4 DEF Right
<1>5. CASE pc[c] \in {"idle", "completed"}
  BY <1>5 DEF Right
<1> QED
  BY <1>2, <1>3, <1>4, <1>5 DEF States

LEMMA OthersStayRight ==
  ASSUME AllRight, ~overrun, NEW c \in Cmds,
         \A d \in Cmds : d # c =>
           /\ pc'[d] = pc[d] /\ block'[d] = block[d] /\ local'[d] = local[d]
           /\ prp'[d] = prp[d] /\ prp_lists'[d] = prp_lists[d]
           /\ \A a \in ListsOf(d) : mem'[a] = mem[a]
  PROVE  \A d \in Cmds : d # c => Right(d)'
<1> SUFFICES ASSUME NEW d \in Cmds, d # c PROVE Right(d)'
  OBVIOUS
<1>1. Right(d) /\ pc[d] \in States
  BY DEF AllRight, Owned, Types
<1> QED
  BY <1>1, StaysRight

\* A buffer's place among the numbers.
LEMMA BufferTyped ==
  ASSUME AllRight, NEW c \in Cmds, pc[c] \in {"setup", "list", "device"}
  PROVE  /\ block[c].base \in Nat /\ block[c].len \in Nat /\ block[c].len > 0
         /\ block[c].base % Page = 0
  BY DEF AllRight, Owned, Types, Holds, Aligned, Block

LEMMA TwoPagesRight ==
  ASSUME AllRight, ~overrun, NEW c \in Cmds, TwoPages(c)
  PROVE  \A d \in Cmds : Right(d)'
<1>1. /\ pc[c] = "setup" /\ Right(c) /\ Domains
      /\ pc \in [Cmds -> States]
  BY DEF AllRight, Owned, Types, TwoPages
<1>2. PICK base \in Nat, len \in Nat :
        base = block[c].base /\ len = block[c].len /\ base % Page = 0
  BY <1>1, BufferTyped
<1>3. local[c] = [buf |-> base, buflen |-> len, prp_list |-> 0, i |-> 0]
  BY <1>1, <1>2 DEF Right
<1>4. /\ Page \in Nat /\ Page > 0
      /\ local[c].buf = base /\ local[c].buflen = len
      /\ Page - (local[c].buf % Page) = Page
      /\ (local[c].buf % Page) + local[c].buflen = len
  <2>1. Page \in Nat /\ Page > 0 /\ len \in Nat
    BY PrpListAssumption
  <2>2. local[c].buf = base /\ local[c].buflen = len
    BY <1>3
  <2>3. local[c].buf % Page = 0
    BY <1>2, <2>2, Zenon
  <2>4. Page - 0 = Page /\ 0 + len = len
    BY <2>1
  <2> QED
    BY <2>1, <2>2, <2>3, <2>4, Zenon
<1>5. /\ len <= 2 * Page
      /\ prp' = [prp EXCEPT ![c] =
                   <<base, IF len > Page THEN base + Page ELSE 0>>]
      /\ local' = [local EXCEPT ![c] = None]
      /\ pc' = [pc EXCEPT ![c] = "device"]
      /\ UNCHANGED <<mem, block, prp_lists>>
  BY <1>4, Zenon DEF TwoPages
<1>6. /\ pc'[c] = "device" /\ block'[c].base = base /\ block'[c].len = len
      /\ prp'[c] = <<base, IF len > Page THEN base + Page ELSE 0>>
  BY <1>1, <1>2, <1>5 DEF Domains
<1>7. Right(c)'
  <2>1. CASE len <= Page
    <3>1. prp'[c] = <<base, 0>>
      BY <1>4, <1>6, <2>1
    <3> QED
      BY <1>6, <2>1, <3>1 DEF Right
  <2>2. CASE Page < len
    <3>1. prp'[c] = <<base, base + Page>>
      BY <1>4, <1>6, <2>2
    <3> QED
      BY <1>5, <1>6, <2>2, <3>1 DEF Right
  <2> QED
    BY <1>4, <2>1, <2>2
<1>8. \A d \in Cmds : d # c => Right(d)'
  BY <1>1, <1>5, OthersStayRight DEF Domains
<1> QED
  BY <1>7, <1>8

LEMMA FirstListRight ==
  ASSUME AllRight, ~overrun, NEW c \in Cmds, FirstList(c)
  PROVE  \A d \in Cmds : Right(d)'
<1>1. /\ pc[c] = "setup" /\ Right(c) /\ Domains /\ Types
  BY DEF AllRight, Owned, FirstList
<1>2. PICK base \in Nat, len \in Nat :
        base = block[c].base /\ len = block[c].len /\ base % Page = 0
  BY <1>1, BufferTyped
<1>3. /\ local[c] = [buf |-> base, buflen |-> len, prp_list |-> 0, i |-> 0]
      /\ prp_lists[c] = << >>
  BY <1>1, <1>2 DEF Right
<1>4. /\ Page \in Nat /\ Page > 0
      /\ local[c].buf = base /\ local[c].buflen = len
      /\ Page - (local[c].buf % Page) = Page
      /\ (local[c].buf % Page) + local[c].buflen = len
  <2>1. Page \in Nat /\ Page > 0 /\ len \in Nat
    BY PrpListAssumption
  <2>2. local[c].buf = base /\ local[c].buflen = len
    BY <1>3
  <2>3. local[c].buf % Page = 0
    BY <1>2, <2>2, Zenon
  <2>4. Page - 0 = Page /\ 0 + len = len
    BY <2>1
  <2> QED
    BY <2>1, <2>2, <2>3, <2>4, Zenon
<1>5. PICK list \in Nat : list = AllocatePages(Page)
  BY <1>1, AllocateFinds DEF FirstList, NewList, Types
<1>6. /\ len > 2 * Page
      /\ prp' = [prp EXCEPT ![c] = <<base, list>>]
      /\ prp_lists' = [prp_lists EXCEPT ![c] = Append(@, list)]
      /\ local' = [local EXCEPT ![c] = [buf |-> base + Page, buflen |-> len - Page,
                                        prp_list |-> list, i |-> 0]]
      /\ pc' = [pc EXCEPT ![c] = "list"]
      /\ UNCHANGED <<mem, block>>
  BY <1>4, <1>5, Zenon DEF FirstList, NewList
<1>7. prp_lists'[c] = <<list>>
  BY <1>1, <1>3, <1>5, <1>6 DEF Types
<1>8. Listed(c, list, 0)'
  <2>1. /\ prp'[c] = <<base, list>> /\ block'[c].base = base
        /\ block'[c].len > 2 * Page
    BY <1>1, <1>2, <1>6 DEF Domains
  <2>2. 0 .. 0 - 1 = {}
    OBVIOUS
  <2> QED
    BY <1>7, <2>1, <2>2 DEF Listed
<1>9. /\ local'[c] = [buf |-> PageAt(block[c], 0 + 1)',
                      buflen |-> block'[c].len - (0 + 1) * Page,
                      prp_list |-> list, i |-> 0]
      /\ (0 + 1) * Page < block'[c].len
  <2>1. PageAt(block[c], 0 + 1)' = base + Page
    BY <1>2, <1>4, <1>6 DEF PageAt
  <2>2. block'[c].len = len /\ (0 + 1) * Page = Page /\ Page < len
    <3>1. Page \in Nat /\ (0 + 1) * Page = Page /\ (len > 2 * Page => Page < len)
      BY PrpListAssumption
    <3> QED
      BY <1>2, <1>6, <3>1
  <2> QED
    BY <1>1, <1>6, <2>1, <2>2 DEF Domains
<1>10. Right(c)'
  <2>1. pc'[c] = "list" /\ 0 \in 0 .. Page
    BY <1>1, <1>4, <1>6 DEF Types
  <2> QED
    BY <1>5, <1>8, <1>9, <2>1 DEF Right, PageAt
<1>11. \A d \in Cmds : d # c => Right(d)'
  BY <1>1, <1>6, OthersStayRight DEF Domains, Types
<1> QED
  BY <1>10, <1>11

LEMMA WriteEntryRight ==
  ASSUME AllRight, ~overrun, NEW c \in Cmds, WriteEntry(c)
  PROVE  \A d \in Cmds : Right(d)'
<1>1. /\ pc[c] = "list" /\ Right(c) /\ Domains /\ Types /\ Apart
  BY DEF AllRight, Owned, WriteEntry
<1>2. PICK base \in Nat, len \in Nat :
        base = block[c].base /\ len = block[c].len
  BY <1>1, BufferTyped
<1>3. Page \in Nat /\ Page > 0
  BY PrpListAssumption
<1>4. PICK l \in Nat, n \in 0 .. Page :
        /\ local[c] = [buf |-> PageAt(block[c], n + 1),
                       buflen |-> block[c].len - (n + 1) * Page,
                       prp_list |-> l, i |-> n]
        /\ (n + 1) * Page < block[c].len
        /\ Listed(c, l, n)
  BY <1>1 DEF Right
<1>5. n # Page /\ n + 1 \in 0 .. Page
  BY <1>3, <1>4 DEF WriteEntry
<1>6. PICK buf \in Nat, left \in Int :
        /\ buf = base + (n + 1) * Page /\ left = len - (n + 1) * Page
        /\ local[c] = [buf |-> buf, buflen |-> left, prp_list |-> l, i |-> n]
  <2>1. PageAt(block[c], n + 1) = base + (n + 1) * Page
    BY <1>2 DEF PageAt
  <2>2. block[c].len - (n + 1) * Page = len - (n + 1) * Page
    BY <1>2
  <2>3. base + (n + 1) * Page \in Nat /\ len - (n + 1) * Page \in Int
    BY <1>3
  <2> QED
    BY <1>4, <2>1, <2>2, <2>3
<1>7. l + n \in ListsOf(c) /\ l + n \in Cells
  <2>1. l + n \in Run(l, Page)
    BY <1>3, <1>4, <1>5 DEF Run
  <2>2. ToSet(<<l>>) = {l} /\ <<l>> \in Lists
    BY DEF ToSet, Lists
  <2>3. l + n \in ListsOf(c)
    BY <1>4, <2>1, <2>2, NoneAssumption DEF ListsOf, Listed
  <2>4. <<"lists", c>> \in Places /\ PagesOf(<<"lists", c>>) = ListsOf(c)
    BY DEF Places, PagesOf
  <2> QED
    BY <1>1, <2>3, <2>4 DEF Apart, Usable
<1>8. /\ mem' = [mem EXCEPT ![l + n] = buf]
      /\ local' = [local EXCEPT ![c] =
                     IF left <= Page THEN None
                     ELSE [buf |-> buf + Page, buflen |-> left - Page,
                           prp_list |-> l, i |-> n + 1]]
      /\ pc' = [pc EXCEPT ![c] = IF left <= Page THEN "device" ELSE "list"]
      /\ UNCHANGED <<block, prp, prp_lists>>
  BY <1>6, <1>7 DEF WriteEntry, StoreEntry
<1>9. Listed(c, l, n + 1)'
  <2>1. mem'[l + n] = buf
    BY <1>1, <1>7, <1>8 DEF Domains
  <2>2. ASSUME NEW j \in 0 .. n
        PROVE  mem'[l + j] = PageAt(block[c], j + 1)
    <3>1. CASE j = n
      BY <1>2, <1>6, <2>1, <3>1 DEF PageAt
    <3>2. CASE j # n
      <4>1. j \in 0 .. n - 1 /\ l + j # l + n
        BY <3>2
      <4>2. mem[l + j] = PageAt(block[c], j + 1)
        BY <1>4, <4>1 DEF Listed
      <4>3. l + j \in Cells
        BY <1>7, <4>1, PrpListAssumption DEF Cells
      <4> QED
        BY <1>1, <1>8, <4>1, <4>2, <4>3 DEF Domains
    <3> QED
      BY <3>1, <3>2
  <2>3. n = n + 1 - 1
    OBVIOUS
  <2> QED
    BY <1>4, <1>8, <2>2, <2>3 DEF Listed, PageAt
<1>10. Right(c)'
  <2>1. CASE left <= Page
    <3>1. pc'[c] = "device"
      BY <1>1, <1>8, <2>1 DEF Types
    <3>2. /\ (n + 1) * Page < block'[c].len
          /\ block'[c].len <= (n + 1 + 1) * Page
      BY <1>2, <1>3, <1>4, <1>6, <1>8, <2>1
    <3> QED
      BY <1>5, <1>9, <3>1, <3>2 DEF Right
  <2>2. CASE ~(left <= Page)
    <3>1. pc'[c] = "list"
      BY <1>1, <1>8, <2>2 DEF Types
    <3>2. (n + 1 + 1) * Page < block'[c].len
      BY <1>2, <1>3, <1>6, <1>8, <2>2
    <3>3. /\ buf + Page = PageAt(block[c], n + 1 + 1)'
          /\ left - Page = block'[c].len - (n + 1 + 1) * Page
      BY <1>2, <1>3, <1>6, <1>8 DEF PageAt
    <3>4. local'[c] = [buf |-> PageAt(block[c], n + 1 + 1)',
                       buflen |-> block'[c].len - (n + 1 + 1) * Page,
                       prp_list |-> l, i |-> n + 1]
      BY <1>1, <1>8, <2>2, <3>3 DEF Domains
    <3> QED
      BY <1>4, <1>5, <1>9, <3>1, <3>2, <3>4 DEF Right, PageAt
  <2> QED
    BY <2>1, <2>2
<1>11. ASSUME NEW d \in Cmds, d # c, NEW a \in ListsOf(d)
       PROVE  mem'[a] = mem[a]
  <2>1. /\ <<"lists", d>> \in Places /\ <<"lists", c>> \in Places
        /\ <<"lists", d>> # <<"lists", c>>
        /\ PagesOf(<<"lists", d>>) = ListsOf(d)
        /\ PagesOf(<<"lists", c>>) = ListsOf(c)
    BY <1>11 DEF Places, PagesOf
  <2>2. a # l + n /\ a \in Cells
    BY <1>1, <1>7, <1>11, <2>1 DEF Apart, Usable
  <2> QED
    BY <1>1, <1>8, <2>2 DEF Domains
<1>12. \A d \in Cmds : d # c => Right(d)'
  BY <1>1, <1>8, <1>11, OthersStayRight DEF Domains, Types
<1> QED
  BY <1>10, <1>12

\* Steps of c that end its setup, or that are not part of one.
LEMMA PassesRight ==
  ASSUME AllRight, ~overrun, NEW c \in Cmds,
         pc'[c] \in {"idle", "completed"}, mem' = mem, local' = local, prp' = prp,
         \A d \in Cmds : d # c => /\ pc'[d] = pc[d] /\ block'[d] = block[d]
                                  /\ prp_lists'[d] = prp_lists[d]
  PROVE  \A d \in Cmds : Right(d)'
<1>1. Right(c)'
  BY DEF Right
<1>2. \A d \in Cmds : d # c => Right(d)'
  BY OthersStayRight
<1> QED
  BY <1>1, <1>2

LEMMA RequestRight ==
  ASSUME AllRight, ~overrun, NEW c \in Cmds, NEW len \in Lens, Request(c, len)
  PROVE  \A d \in Cmds : Right(d)'
<1>1. Domains /\ Types
  BY DEF AllRight, Owned
<1> DEFINE base == AllocatePages(len)
           first == [buf |-> base, buflen |-> len, prp_list |-> 0, i |-> 0]
           b == [base |-> base, len |-> len]
<1>2. /\ block' = [block EXCEPT ![c] = b]
      /\ prp_lists' = [prp_lists EXCEPT ![c] = << >>]
      /\ local' = [local EXCEPT ![c] = first]
      /\ pc' = [pc EXCEPT ![c] = "setup"]
      /\ UNCHANGED <<mem, prp>>
  BY DEF Request
<1>3. b.base = base /\ b.len = len
  OBVIOUS
<1> HIDE DEF base, b
<1>4. /\ pc'[c] = "setup" /\ prp_lists'[c] = << >>
      /\ local'[c] = first /\ block'[c] = b
  BY <1>1, <1>2 DEF Domains, Types
<1>5. Right(c)'
  BY <1>3, <1>4 DEF Right
<1> HIDE DEF first
<1>6. \A d \in Cmds : d # c => Right(d)'
  BY <1>1, <1>2, OthersStayRight DEF Domains, Types
<1> QED
  BY <1>5, <1>6

LEMMA RightStep ==
  ASSUME AllRight, ~overrun', Next
  PROVE  ~overrun /\ \A d \in Cmds : Right(d)'
<1>1. /\ pc \in [Cmds -> States] /\ DOMAIN block = Cmds /\ DOMAIN prp_lists = Cmds
  BY DEF AllRight, Owned, Types
<1> PICK c \in Cmds :
      \/ \E len \in Lens : Request(c, len) \/ RequestThrows(c, len)
      \/ TwoPages(c) \/ FirstList(c) \/ WriteEntry(c) \/ ChainList(c)
      \/ ListThrows(c)
      \/ DevComplete(c) \/ FreeBuffer(c) \/ DestroyCommand(c)
  BY DEF Next
<1>2. ~ChainList(c) /\ ~overrun
  <2>1. ~overrun
    BY DEF Request, RequestThrows, NotAvailable, TwoPages, FirstList, WriteEntry,
           StoreEntry, ChainList, ListThrows, DevComplete, FreeBuffer, DestroyCommand
  <2>2. ~ChainList(c)
    <3> SUFFICES ASSUME ChainList(c) PROVE FALSE
      OBVIOUS
    <3>1. local[c].i = Page /\ ~(local[c].i >= Page)
      BY DEF ChainList, StoreEntry
    <3>2. Page >= Page
      BY PrpListAssumption
    <3> QED
      BY <3>1, <3>2
  <2> QED
    BY <2>1, <2>2
<1>3. ASSUME NEW len \in Lens, Request(c, len) PROVE \A d \in Cmds : Right(d)'
  BY <1>2, <1>3, RequestRight
<1>4. ASSUME UNCHANGED <<mem, pc, block, local, prp, prp_lists>>
      PROVE  \A d \in Cmds : Right(d)'
  <2>1. ASSUME NEW d \in Cmds PROVE Right(d)'
    BY <1>1, <1>2, <1>4, StaysRight DEF AllRight
  <2> QED
    BY <2>1
<1>5. ASSUME NEW len \in Lens, RequestThrows(c, len) PROVE \A d \in Cmds : Right(d)'
  BY <1>4, <1>5 DEF RequestThrows, NotAvailable
<1>6. CASE TwoPages(c)
  BY <1>2, <1>6, TwoPagesRight
<1>7. CASE FirstList(c)
  BY <1>2, <1>7, FirstListRight
<1>8. CASE WriteEntry(c)
  BY <1>2, <1>8, WriteEntryRight
<1>9. CASE ListThrows(c)
  BY <1>4, <1>9 DEF ListThrows, NotAvailable
<1>10. CASE DevComplete(c)
  BY <1>1, <1>2, <1>10, PassesRight DEF DevComplete
<1>11. CASE FreeBuffer(c)
  BY <1>1, <1>2, <1>11, PassesRight DEF FreeBuffer
<1>12. CASE DestroyCommand(c)
  BY <1>1, <1>2, <1>12, PassesRight DEF DestroyCommand
<1> QED
  BY <1>2, <1>3, <1>5, <1>6, <1>7, <1>8, <1>9, <1>10, <1>11, <1>12

LEMMA AllRightInit == Init => AllRight
<1> SUFFICES ASSUME Init PROVE AllRight
  OBVIOUS
<1>1. Domains
  BY DEF Init, Domains
<1>2. \A c \in Cmds : Right(c)
  BY DEF Init, Right
<1> QED
  BY <1>1, <1>2, OwnedInit DEF AllRight

LEMMA AllRightStep == AllRight /\ [Next]_vars => AllRight'
<1> SUFFICES ASSUME AllRight, [Next]_vars PROVE AllRight'
  OBVIOUS
<1>1. Owned'
  BY OwnedStep DEF AllRight
<1>2. Domains'
  <2>1. Domains
    BY DEF AllRight
  <2>2. CASE UNCHANGED vars
    BY <2>1, <2>2 DEF vars, Domains, Cells
  <2>3. CASE Next
    <3> PICK c \in Cmds :
          \/ \E len \in Lens : Request(c, len) \/ RequestThrows(c, len)
          \/ TwoPages(c) \/ FirstList(c) \/ WriteEntry(c) \/ ChainList(c)
          \/ ListThrows(c)
          \/ DevComplete(c) \/ FreeBuffer(c) \/ DestroyCommand(c)
      BY <2>3 DEF Next
    <3>1. DOMAIN local' = DOMAIN local
      BY DEF Request, RequestThrows, NotAvailable, TwoPages, FirstList, WriteEntry,
             StoreEntry, ChainList, ListThrows, DevComplete, FreeBuffer,
             DestroyCommand
    <3>2. DOMAIN prp' = DOMAIN prp
      BY DEF Request, RequestThrows, NotAvailable, TwoPages, FirstList, WriteEntry,
             StoreEntry, ChainList, ListThrows, DevComplete, FreeBuffer,
             DestroyCommand
    <3>3. DOMAIN mem' = DOMAIN mem
      BY DEF Request, RequestThrows, NotAvailable, TwoPages, FirstList, WriteEntry,
             StoreEntry, ChainList, ListThrows, DevComplete, FreeBuffer,
             DestroyCommand
    <3> QED
      BY <2>1, <3>1, <3>2, <3>3 DEF Domains, Cells
  <2> QED
    BY <2>2, <2>3
<1>3. ASSUME ~overrun' PROVE \A c \in Cmds : Right(c)'
  <2>1. CASE UNCHANGED vars
    <3>1. /\ ~overrun
          /\ UNCHANGED <<mem, pc, block, local, prp, prp_lists>>
      BY <1>3, <2>1 DEF vars
    <3>2. ASSUME NEW c \in Cmds PROVE Right(c)'
      <4>1. Right(c) /\ pc[c] \in States
        BY <3>1 DEF AllRight, Owned, Types
      <4> QED
        BY <3>1, <4>1, StaysRight
    <3> QED
      BY <3>2
  <2>2. CASE Next
    BY <1>3, <2>2, RightStep
  <2> QED
    BY <2>1, <2>2
<1> QED
  BY <1>1, <1>2, <1>3 DEF AllRight

\* What the device reads of a command that is right.
LEMMA SeesBuffer ==
  ASSUME Page < U16, AllRight, ~overrun,
         NEW c \in Cmds, pc[c] = "device", block[c].len % Page = 0
  PROVE  DeviceSees(c) = [k \in 1 .. block[c].len \div Page |->
                            block[c].base + (k - 1) * Page]
<1>1. PICK base \in Nat, len \in Nat :
        base = block[c].base /\ len = block[c].len /\ len > 0 /\ len % Page = 0
  BY BufferTyped
<1>2. Page \in Nat /\ Page >= 2 /\ U16 \in Nat
  BY PrpListAssumption
<1>3. PICK m \in Nat : len = m * Page
  BY <1>1, <1>2, Multiple
<1>4. m >= 1
  BY <1>1, <1>2, <1>3
<1>5. len \div Page = m
  <2>1. (m * Page + 0) \div Page = m
    BY <1>2, Remainder
  <2>2. m * Page + 0 = len
    BY <1>2, <1>3
  <2> QED
    BY <2>1, <2>2
<1>6. m <= Page + 1 => Length(len) + 1 = m
  <2>1. m <= Page + 1 => (m - 1) % U16 = m - 1
    BY <1>2, <1>4
  <2>2. Length(len) = (m - 1) % U16
    BY <1>5 DEF Length
  <2>3. m - 1 + 1 = m
    OBVIOUS
  <2> QED
    BY <2>1, <2>2, <2>3
<1>7. Right(c)
  BY DEF AllRight
<1>8. CASE len <= Page /\ prp[c] = <<base, 0>>
  <2>1. m = 1
    BY <1>2, <1>3, <1>4, <1>8
  <2>2. Length(block[c].len) + 1 = 1
    BY <1>1, <1>2, <1>6, <2>1
  <2>3. DeviceSees(c) = <<base>> \o << >>
    <3>1. <<prp[c][1]>> = <<base>>
      BY <1>8
    <3> DEFINE rest(b) == CASE b = 1 -> << >>
                            [] b = 2 -> <<prp[c][2]>>
                            [] OTHER -> Entries(prp[c][2], b - 1)
    <3>2. DeviceSees(c) = <<prp[c][1]>> \o rest(1)
      BY <2>2, Zenon DEF DeviceSees
    <3>3. rest(1) = << >>
      OBVIOUS
    <3> HIDE DEF rest
    <3> QED
      BY <3>1, <3>2, <3>3, Zenon
  <2>4. <<base>> \o << >> = <<base>>
    BY <1>1
  <2>5. [k \in 1 .. 1 |-> base + (k - 1) * Page] = <<base>>
    BY <1>2
  <2> QED
    BY <1>1, <1>5, <2>1, <2>3, <2>4, <2>5
<1>9. CASE Page < len /\ len <= 2 * Page /\ prp[c] = <<base, base + Page>>
  <2>1. m = 2
    BY <1>2, <1>3, <1>4, <1>9
  <2>2. Length(block[c].len) + 1 = 2
    BY <1>1, <1>2, <1>6, <2>1
  <2>3. DeviceSees(c) = <<base>> \o <<base + Page>>
    BY <1>9, <2>2 DEF DeviceSees
  <2>4. [k \in 1 .. 2 |-> base + (k - 1) * Page] = <<base, base + Page>>
    BY <1>2
  <2> QED
    BY <1>1, <1>5, <2>1, <2>3, <2>4
<1>10. ASSUME NEW l \in Nat, NEW n \in 0 .. Page,
              n * Page < len, len <= (n + 1) * Page, Listed(c, l, n)
       PROVE  DeviceSees(c) = [k \in 1 .. m |-> base + (k - 1) * Page]
  <2>1. m = n + 1 /\ n \in Nat
    BY <1>2, <1>3, <1>10
  <2>2. n >= 2
    BY <1>1, <1>2, <1>3, <1>10, <2>1 DEF Listed
  <2>3. Length(block[c].len) + 1 = n + 1 /\ n + 1 - 1 = n
    BY <1>1, <1>2, <1>6, <2>1
  <2>4. Entries(l, n) = [j \in 1 .. n |-> mem[l + j - 1]]
    <3>1. Run(l, Page) \subseteq Cells
      <4>1. ToSet(<<l>>) = {l} /\ <<l>> \in Lists
        BY DEF ToSet, Lists
      <4>2. ListsOf(c) = Run(l, Page)
        BY <1>10, <4>1, NoneAssumption DEF ListsOf, Listed
      <4>3. <<"lists", c>> \in Places /\ PagesOf(<<"lists", c>>) = ListsOf(c)
        BY DEF Places, PagesOf
      <4> QED
        BY <4>2, <4>3 DEF AllRight, Owned, Apart, Usable
    <3> QED
      BY <3>1, EntriesOfOneList
  <2>5. DeviceSees(c) = <<base>> \o Entries(l, n)
    <3>1. prp[c][1] = base /\ prp[c][2] = l
      BY <1>1, <1>10 DEF Listed
    <3>2. n + 1 # 1 /\ n + 1 # 2
      BY <2>2
    <3> QED
      BY <2>3, <3>1, <3>2 DEF DeviceSees
  <2>6. Entries(l, n) = [j \in 1 .. n |-> base + j * Page]
    <3>1. ASSUME NEW j \in 1 .. n PROVE mem[l + j - 1] = base + j * Page
      <4>1. PICK i \in 0 .. n - 1 : i = j - 1
        BY <2>1
      <4>2. l + j - 1 = l + i /\ i + 1 = j
        BY <4>1
      <4> QED
        BY <1>1, <1>10, <4>2 DEF Listed, PageAt
    <3> QED
      BY <2>4, <3>1
  <2> DEFINE e == [j \in 1 .. n |-> base + j * Page]
  <2>7. e \in Seq(Nat) /\ Len(e) = n
    <3>1. \A j \in 1 .. n : base + j * Page \in Nat
      BY <1>2
    <3>2. e \in [1 .. n -> Nat]
      BY <3>1
    <3> QED
      BY <2>1, <3>2
  <2>8. e = [j \in 1 .. n |-> base + j * Page]
    OBVIOUS
  <2> DEFINE pages == <<base>> \o e
  <2> HIDE DEF e
  <2>9. <<base>> \o e = [k \in 1 .. n + 1 |-> base + (k - 1) * Page]
    <3>1. <<base>> \in Seq(Nat) /\ Len(<<base>>) = 1
      OBVIOUS
    <3>2. /\ pages \in Seq(Nat) /\ Len(pages) = n + 1
          /\ \A k \in 1 .. n + 1 :
               pages[k] = IF k <= 1 THEN <<base>>[k] ELSE e[k - 1]
      BY <2>1, <2>7, <3>1, ConcatProperties
    <3> HIDE DEF pages
    <3>3. ASSUME NEW k \in 1 .. n + 1
          PROVE  pages[k] = base + (k - 1) * Page
      <4>1. CASE k = 1
        BY <1>2, <3>2, <4>1
      <4>2. CASE k # 1
        <5>1. k - 1 \in 1 .. n /\ ~(k <= 1)
          BY <2>1, <4>2
        <5> QED
          BY <2>8, <3>2, <5>1
      <4> QED
        BY <4>1, <4>2
    <3>4. pages \in [1 .. n + 1 -> Nat]
      BY <3>2, LenProperties
    <3>5. pages = [k \in 1 .. n + 1 |-> base + (k - 1) * Page]
      BY <3>3, <3>4
    <3> QED
      BY <3>5 DEF pages
  <2> QED
    BY <2>1, <2>5, <2>6, <2>8, <2>9
<1> QED
  BY <1>1, <1>5, <1>7, <1>8, <1>9, <1>10 DEF Right

\* As long as no entry has been written outside its list, a device that goes by
\* PRP1, PRP2 and the length finds exactly the pages of the buffer, in order,
\* whatever the other threads have done to the memory: the entries stand in a
\* page that is nobody else's.  A list must not hold more entries than a length
\* of 16 bits can count.
THEOREM TransfersAreExact == Page < U16 => (Spec => []TransferExact)
<1> SUFFICES ASSUME Page < U16 PROVE Spec => []TransferExact
  OBVIOUS
<1>1. AllRight => TransferExact
  <2> SUFFICES ASSUME AllRight, ~overrun,
                      NEW c \in Cmds, pc[c] = "device", block[c].len % Page = 0
               PROVE  DeviceSees(c) = [k \in 1 .. block[c].len \div Page |->
                                         block[c].base + (k - 1) * Page]
    BY DEF TransferExact
  <2> QED
    BY SeesBuffer
<1>2. Spec => []AllRight
  BY AllRightInit, AllRightStep, PTL DEF Spec
<1> QED
  BY <1>1, <1>2, PTL
=============================================================================

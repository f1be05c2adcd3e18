---------------------------- MODULE MemorySpace -----------------------------
(***************************************************************************)
(* The allocator of the memory shared with the device: MemorySpace         *)
(* (memory_space.cpp), a list of holes in a table of NrHoles slots, first  *)
(* fit, merged with its neighbours when a block is freed.  Every operation *)
(* holds alloc_mutex from its first to its last line, so each is one step  *)
(* whatever threads call it.                                               *)
(*                                                                         *)
(* The linked list of slots is a sequence of holes; the free slots are the *)
(* ones it does not use.  The clients are the I/O threads and the driver:  *)
(* all of them call allocate_pages(len) and later free(addr, len) with the *)
(* length they asked for, not the rounded one.                             *)
(***************************************************************************)
EXTENDS Integers, FiniteSets, SequencesExt

CONSTANTS
  Page,      \* the page size, 0x1000
  IovaBase,  \* iova_base of a VfioMemorySpace; SharedMemorySpace has 0
  MapSize,   \* MemorySpace::map_size
  NrHoles,   \* NR_HOLES
  Sizes,     \* the lengths clients ask for
  U32        \* range of Address and of h_len, uint32_t

ASSUME MemorySpaceAssumption ==
  /\ Page \in Nat \ {0}
  /\ IovaBase \in Nat /\ MapSize \in Nat /\ MapSize > Page
  /\ NrHoles \in Nat \ {0}
  /\ Sizes \subseteq Nat
  /\ U32 \in Nat \ {0}

VARIABLES
  holes,     \* hole_head's list: base and length of each hole
  blocks,    \* what the clients hold: address and length asked for
  status     \* "ok"; "nomem": MemoryNotAvailable, which nobody catches;
             \* "aborted": the hole table was full

vars == <<holes, blocks, status>>

Hole(base, len) == [base |-> base, len |-> len]
End(h) == h.base + h.len

\* The roundup macro.
RoundUp(len) == IF len % Page = 0 THEN len ELSE (len + Page) - (len % Page)

-----------------------------------------------------------------------------
(* merge_hole and free. *)

\* hp absorbs its successor, whose slot delete_slot returns.
Absorb(s, i) ==
  RemoveAt([s EXCEPT ![i].len = @ + s[i + 1].len], i + 1)

Touches(s, i) == i < Len(s) /\ End(s[i]) = s[i + 1].base

\* Variant: the second pair is not looked at.
MergeHoleOnce(s, i) == IF Touches(s, i) THEN Absorb(s, i) ELSE s

\* merge_hole: the hole and its successor, then that one (or the result) and
\* the next.
MergeHole(s, i) ==
  LET first == IF Touches(s, i) THEN Absorb(s, i) ELSE s
      j     == IF Touches(s, i) THEN i ELSE i + 1
  IN IF Touches(first, j) THEN Absorb(first, j) ELSE first

\* Where free inserts: before the first hole that does not start below addr.
Place(s, addr) ==
  CHOOSE k \in 1 .. Len(s) + 1 :
    /\ k <= Len(s) => addr <= s[k].base
    /\ \A j \in 1 .. k - 1 : addr > s[j].base

\* free(addr, len) on the list.  The merge starts at the hole before the new
\* one, or at the new one if it is the first.
Freed(s, addr, len) ==
  LET k == Place(s, addr) IN
  MergeHole(InsertAt(s, k, Hole(addr, len)), IF k = 1 THEN 1 ELSE k - 1)

-----------------------------------------------------------------------------
(* allocate. *)

Gap(h, align) == IF h.base % align # 0 THEN align - (h.base % align) ELSE 0

\* Variant: a hole of exactly the right size is passed over.
FitsStrictly(h, len, align) == h.len > len + Gap(h, align)

Fits(h, len, align) == h.len >= len + Gap(h, align)

\* Variant: the base of what remains of the hole is not moved.
TakenKeepsBase(s, i, len, align) ==
  IF s[i].len = len + Gap(s[i], align)
  THEN RemoveAt(s, i)
  ELSE [s EXCEPT ![i].len = @ - (len + Gap(s[i], align))]

\* The list without the first len cells of its i-th hole, after the gap.  The
\* gap goes to the hole before if that one ends where the block starts.
Taken(s, i, len, align) ==
  LET gap   == Gap(s[i], align)
      base  == s[i].base + gap
      grown == IF i > 1 /\ End(s[i - 1]) = base
               THEN [s EXCEPT ![i - 1].len = @ + gap] ELSE s
  IN IF s[i].len = len + gap
     THEN RemoveAt(grown, i)
     ELSE [grown EXCEPT ![i] = Hole(base + len, s[i].len - (len + gap))]

-----------------------------------------------------------------------------
\* What the constructors give to an empty table: SharedMemorySpace all of the
\* file but its first page, VfioMemorySpace as many cells as iova_base and
\* map_size add up to, from iova_base on.  h_len takes 32 bits of either; the
\* lengths freed later were allocated, and are shorter.
Areas == { Hole(Page, (MapSize - Page) % U32),
           Hole(IovaBase, (IovaBase + MapSize) % U32) }

\* Something is left of the length in 32 bits, and addresses do not wrap.  For
\* whole pages of memory only a remainder of just one page is excluded.
ASSUME AreasAssumption == \A h \in Areas : h.len > 0 /\ End(h) <= U32

Initial == {Freed(<< >>, h.base, h.len) : h \in Areas}

Init == holes \in Initial /\ blocks = {} /\ status = "ok"

\* Variant: the length is not rounded up to whole pages.
AllocatePagesUnrounded(len) ==
  /\ status = "ok"
  /\ \E i \in DOMAIN holes :
       LET n == len IN
       /\ Fits(holes[i], n, Page)
       /\ \A j \in 1 .. i - 1 : ~Fits(holes[j], n, Page)
       /\ holes' = Taken(holes, i, n, Page)
       /\ blocks' = blocks \cup
                      {[base |-> holes[i].base + Gap(holes[i], Page),
                        len |-> len]}
  /\ UNCHANGED status

\* allocate_pages(len), of the first hole it fits in.
AllocatePages(len) ==
  /\ status = "ok"
  /\ \E i \in DOMAIN holes :
       LET n == RoundUp(len) IN
       /\ Fits(holes[i], n, Page)
       /\ \A j \in 1 .. i - 1 : ~Fits(holes[j], n, Page)
       /\ holes' = Taken(holes, i, n, Page)
       /\ blocks' = blocks \cup
                      {[base |-> holes[i].base + Gap(holes[i], Page),
                        len |-> len]}
  /\ UNCHANGED status

\* throw MemoryNotAvailable, which ends the program.
NotAvailable(len) ==
  /\ status = "ok"
  /\ \A i \in DOMAIN holes : ~Fits(holes[i], RoundUp(len), Page)
  /\ status' = "nomem"
  /\ UNCHANGED <<holes, blocks>>

\* free(b.base, b.len).
Free(b) ==
  /\ status = "ok"
  /\ \/ /\ b.len = 0
        /\ blocks' = blocks \ {b}
        /\ UNCHANGED <<holes, status>>
     \/ /\ b.len # 0 /\ Len(holes) < NrHoles
        /\ blocks' = blocks \ {b}
        /\ holes' = Freed(holes, b.base, b.len)
        /\ UNCHANGED status
     \/ /\ b.len # 0 /\ Len(holes) = NrHoles
        /\ status' = "aborted"
        /\ UNCHANGED <<holes, blocks>>

Next ==
  \/ \E len \in Sizes : AllocatePages(len) \/ NotAvailable(len)
  \/ \E b \in blocks : Free(b)

Spec == Init /\ [][Next]_vars

-----------------------------------------------------------------------------
(* Properties. *)

Run(base, len) == base .. base + len - 1

FreeCells == UNION {Run(holes[i].base, holes[i].len) : i \in DOMAIN holes}
Cells(b)  == Run(b.base, RoundUp(b.len))

\* The holes are in order and fully merged: between two of them there is at
\* least one cell that is not free.  merge_hole looks at two pairs only.
HolesMerged ==
  /\ \A i \in DOMAIN holes : holes[i].len > 0
  /\ \A i \in 1 .. Len(holes) - 1 : End(holes[i]) < holes[i + 1].base

\* No cell is handed out twice: blocks are disjoint and none is free.
NoOverlap ==
  /\ \A b, c \in blocks : b # c => Cells(b) \cap Cells(c) = {}
  /\ \A b \in blocks : Cells(b) \cap FreeCells = {}

\* Every hole starts on a page boundary, whatever lengths are freed: the gap
\* allocate would have to give back (and gives back only if the hole before
\* ends where the block starts) is never there.
AlignedHoles == \A i \in DOMAIN holes : holes[i].base % Page = 0

\* MemorySpace is a page allocator: nothing that is given back is lost, first
\* fit never fails while any aligned run of the free cells is long enough, and
\* free gives up only when the free cells lie in NR_HOLES separate runs.
Abstract == INSTANCE PageAllocator WITH
              Regions <- {Run(h.base, h.len) : h \in Areas},
              MaxRuns <- NrHoles,
              freed <- FreeCells
ImplementsPageAllocator == Abstract!Spec
=============================================================================

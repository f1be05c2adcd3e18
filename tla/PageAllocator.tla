--------------------------- MODULE PageAllocator ----------------------------
(***************************************************************************)
(* What MemorySpace promises its clients: a set of free cells, from which  *)
(* allocate_pages takes page-aligned runs and to which free returns what   *)
(* it is given.  A request fails only when no such run is free.            *)
(***************************************************************************)
EXTENDS Integers, FiniteSets

CONSTANTS
  Page,     \* the page size, 0x1000
  Regions,  \* the cells the space may manage: one of these sets
  Sizes,    \* the lengths clients ask for
  MaxRuns   \* separate runs of free cells that can be kept track of

VARIABLES
  freed,    \* the free cells
  blocks,   \* the blocks clients hold: address and length asked for
  status    \* "ok"; "nomem": MemoryNotAvailable was thrown; "aborted"

Run(base, len) == base .. base + len - 1

\* The roundup macro.
RoundUp(len) == IF len % Page = 0 THEN len ELSE (len + Page) - (len % Page)

Init == freed \in Regions /\ blocks = {} /\ status = "ok"

Available(base, len) ==
  base \in freed /\ base % Page = 0 /\ Run(base, RoundUp(len)) \subseteq freed

Allocate(base, len) ==
  /\ Available(base, len)
  /\ freed' = freed \ Run(base, RoundUp(len))
  /\ blocks' = blocks \cup {[base |-> base, len |-> len]}
  /\ UNCHANGED status

Release(b) ==
  /\ freed' = freed \cup Run(b.base, b.len)
  /\ blocks' = blocks \ {b}
  /\ UNCHANGED status

NotAvailable(len) ==
  /\ \A base \in freed : ~Available(base, len)
  /\ status' = "nomem"
  /\ UNCHANGED <<freed, blocks>>

\* The free cells are in too many pieces.
OutOfSlots ==
  /\ Cardinality({c \in freed : c - 1 \notin freed}) >= MaxRuns
  /\ status' = "aborted"
  /\ UNCHANGED <<freed, blocks>>

Next ==
  /\ status = "ok"
  /\ \/ \E len \in Sizes :
          (\E base \in freed : Allocate(base, len)) \/ NotAvailable(len)
     \/ \E b \in blocks : Release(b)
     \/ OutOfSlots

Spec == Init /\ [][Next]_<<freed, blocks, status>>
=============================================================================

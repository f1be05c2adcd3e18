------------------------------ MODULE PrpList -------------------------------
(***************************************************************************)
(* How a command names its buffer to the device: NVMeDriver::setup_buffer  *)
(* (nvme_driver.cpp) fills in PRP1 and PRP2 and, for a buffer of more than *)
(* two pages, a list of page addresses in a page of shared memory; the     *)
(* list belongs to the AsyncCommand, whose destructor frees it.            *)
(*                                                                         *)
(* setup_buffer takes no lock, so the lists of several threads are written *)
(* at the same time, and the memory of one command is allocated while      *)
(* another one's is in the device's hands.  MemorySpace is the allocator   *)
(* here: the lowest free run of whole pages.                               *)
(*                                                                         *)
(* A cell is the eight bytes of a PRP entry; addresses and lengths count   *)
(* cells, so a page holds Page of them and a list Page entries.            *)
(***************************************************************************)
EXTENDS Integers, SequencesExt

CONSTANTS
  Cmds,     \* the commands in progress at a time
  Page,     \* ctrl_page_size >> 3
  NrPages,  \* size of the shared memory; the allocator leaves out page 0
  Lens,     \* lengths of buffers
  Calls,    \* bound: requests each of the Cmds makes
  U16,      \* range of uint16_t
  None

ASSUME PrpListAssumption ==
  /\ Page \in Nat /\ Page >= 2
  /\ NrPages \in Nat \ {0}
  /\ Lens \subseteq Nat \ {0}
  /\ Calls \in Nat /\ U16 \in Nat \ {0}

VARIABLES
  mem,      \* the cells of the shared memory
  freed,    \* the cells the allocator may hand out
  status,   \* "ok", "nomem" (an exception nobody catches) or "assert"
  pc,       \* per command: "idle", "setup", "list", "device" or "completed"
  calls,    \* requests made
  block,    \* the request's buffer, or None: freed
  local,    \* setup_buffer's buf, buflen, prp_list and i while it runs, or None
  prp,      \* PRP1 and PRP2 of the command, or None
  prp_lists,\* AsyncCommand::prp_lists, or None: no such object
  overrun   \* history: a list entry was written outside its list

vars == <<mem, freed, status, pc, calls, block, local, prp, prp_lists,
          overrun>>

Cells == 0 .. NrPages * Page - 1

Block == [base : Nat, len : Nat]  \* a buffer: address and length asked for
Lists == Seq(Nat)                 \* AsyncCommand::prp_lists

ASSUME NoneAssumption == None \notin Block /\ None \notin Lists

Init ==
  /\ mem       = [a \in Cells |-> 0]
  /\ freed     = {a \in Cells : a >= Page}
  /\ status    = "ok"
  /\ pc        = [c \in Cmds |-> "idle"]
  /\ calls     = [c \in Cmds |-> 0]
  /\ block     = [c \in Cmds |-> None]
  /\ local     = [c \in Cmds |-> None]
  /\ prp       = [c \in Cmds |-> None]
  /\ prp_lists = [c \in Cmds |-> None]
  /\ overrun   = FALSE

-----------------------------------------------------------------------------
(* The allocator. *)

RoundUp(n) == IF n % Page = 0 THEN n ELSE (n + Page) - (n % Page)

Run(base, n) == base .. base + n - 1

\* Where the free runs of whole pages for n cells start.
Candidates(n) ==
  {a \in freed : a % Page = 0 /\ Run(a, RoundUp(n)) \subseteq freed}

\* allocate_pages(n) returns the lowest ...
AllocatePages(n) == CHOOSE a \in Candidates(n) : \A b \in Candidates(n) : a <= b

\* ... or throws MemoryNotAvailable.
NotAvailable(n) ==
  /\ Candidates(n) = {}
  /\ status' = "nomem"
  /\ UNCHANGED <<mem, freed, pc, calls, block, local, prp, prp_lists, overrun>>

-----------------------------------------------------------------------------
(* setup_buffer. *)

\* A request allocates its pages, and setup_buffer is called for its command.
Request(c, len) ==
  LET base == AllocatePages(len) IN
  /\ pc[c] = "idle" /\ calls[c] < Calls
  /\ Candidates(len) # {}
  /\ freed' = freed \ Run(base, RoundUp(len))
  /\ calls' = [calls EXCEPT ![c] = @ + 1]
  /\ block' = [block EXCEPT ![c] = [base |-> base, len |-> len]]
  /\ prp_lists' = [prp_lists EXCEPT ![c] = << >>]
  /\ local' = [local EXCEPT ![c] = [buf |-> base, buflen |-> len,
                                    prp_list |-> 0, i |-> 0]]
  /\ pc' = [pc EXCEPT ![c] = "setup"]
  /\ UNCHANGED <<mem, status, prp, overrun>>

RequestThrows(c, len) ==
  /\ pc[c] = "idle" /\ calls[c] < Calls
  /\ NotAvailable(len)

\* At most two pages: PRP1 and, if there is a second one, PRP2.
TwoPages(c) ==
  LET l == local[c]
      first_prp_len == Page - (l.buf % Page)
  IN /\ pc[c] = "setup" /\ (l.buf % Page) + l.buflen <= 2 * Page
     /\ prp' = [prp EXCEPT ![c] =
                  << l.buf, IF l.buflen > first_prp_len
                            THEN l.buf + first_prp_len ELSE 0 >>]
     /\ local' = [local EXCEPT ![c] = None]
     /\ pc' = [pc EXCEPT ![c] = "device"]
     /\ UNCHANGED <<mem, freed, status, calls, block, prp_lists, overrun>>

\* Variant: the page stays on the allocator's list.
NewListUntaken(c) ==
  /\ Candidates(Page) # {}
  /\ UNCHANGED freed
  /\ prp_lists' = [prp_lists EXCEPT ![c] = Append(@, AllocatePages(Page))]

\* allocate_pages(ctrl_page_size), remembered by the command.
NewList(c) ==
  /\ Candidates(Page) # {}
  /\ freed' = freed \ Run(AllocatePages(Page), Page)
  /\ prp_lists' = [prp_lists EXCEPT ![c] = Append(@, AllocatePages(Page))]

\* More: the first list.
FirstList(c) ==
  LET l     == local[c]
      first == Page - (l.buf % Page)
      list  == AllocatePages(Page)
  IN /\ pc[c] = "setup" /\ (l.buf % Page) + l.buflen > 2 * Page
     /\ NewList(c)
     /\ prp' = [prp EXCEPT ![c] = << l.buf, list >>]
     /\ local' = [local EXCEPT ![c] = [buf |-> l.buf + first,
                                       buflen |-> l.buflen - first,
                                       prp_list |-> list, i |-> 0]]
     /\ pc' = [pc EXCEPT ![c] = "list"]
     /\ UNCHANGED <<mem, status, calls, block, overrun>>

\* The loop's last lines: one entry into the list, and whether to go on.  The
\* write asserts that it stays inside the mapped memory.
StoreEntry(c, m, list) ==
  LET l    == local[c]
      next == [buf |-> l.buf + Page, buflen |-> l.buflen - Page,
               prp_list |-> list, i |-> l.i + 1]
  IN /\ overrun' = (overrun \/ l.i >= Page)
     /\ \/ /\ list + l.i \in Cells
           /\ mem' = [m EXCEPT ![list + l.i] = l.buf]
           /\ local' = [local EXCEPT ![c] = IF l.buflen <= Page THEN None ELSE next]
           /\ pc' = [pc EXCEPT ![c] = IF l.buflen <= Page THEN "device" ELSE "list"]
           /\ UNCHANGED status
        \/ /\ list + l.i \notin Cells
           /\ status' = "assert"
           /\ mem' = m
           /\ UNCHANGED <<local, pc>>

\* One round of the loop while the list has room.
WriteEntry(c) ==
  /\ pc[c] = "list" /\ local[c].i # Page
  /\ StoreEntry(c, mem, local[c].prp_list)
  /\ UNCHANGED <<freed, calls, block, prp, prp_lists>>

\* The round that finds the list full: its last entry moves to a new list and
\* names that one instead.  i is not set back, so the entry of this round is
\* written a whole page after the new list's address.
ChainList(c) ==
  LET l    == local[c]
      last == l.prp_list + l.i - 1
      list == AllocatePages(Page)
  IN /\ pc[c] = "list" /\ l.i = Page
     /\ NewList(c)
     /\ StoreEntry(c, [mem EXCEPT ![list] = mem[last], ![last] = list], list)
     /\ UNCHANGED <<calls, block, prp>>

ListThrows(c) ==
  /\ \/ pc[c] = "setup" /\ (local[c].buf % Page) + local[c].buflen > 2 * Page
     \/ pc[c] = "list" /\ local[c].i = Page
  /\ NotAvailable(Page)

-----------------------------------------------------------------------------
(* Completion: the request's thread frees the buffer while the receive      *)
(* thread destroys the command.                                             *)

DevComplete(c) ==
  /\ pc[c] = "device"
  /\ pc' = [pc EXCEPT ![c] = "completed"]
  /\ UNCHANGED <<mem, freed, status, calls, block, local, prp, prp_lists, overrun>>

\* process_completed_request: free(req->buf, req->size).
FreeBuffer(c) ==
  /\ pc[c] = "completed" /\ block[c] # None
  /\ freed' = freed \cup Run(block[c].base, block[c].len)
  /\ block' = [block EXCEPT ![c] = None]
  /\ pc' = [pc EXCEPT ![c] = IF prp_lists[c] = None THEN "idle" ELSE @]
  /\ UNCHANGED <<mem, status, calls, local, prp, prp_lists, overrun>>

\* Variant: only the list PRP2 names is freed.
DestroyFirstList(c) ==
  /\ pc[c] = "completed" /\ prp_lists[c] # None
  /\ freed' = IF prp_lists[c] = << >> THEN freed
              ELSE freed \cup Run(Head(prp_lists[c]), Page)
  /\ prp_lists' = [prp_lists EXCEPT ![c] = None]
  /\ pc' = [pc EXCEPT ![c] = IF block[c] = None THEN "idle" ELSE @]
  /\ UNCHANGED <<mem, status, calls, block, local, prp, overrun>>

\* Variant: the lists are freed while the command is at the device.
DestroyEarly(c) ==
  /\ pc[c] \in {"device", "completed"} /\ prp_lists[c] # None
  /\ freed' = freed \cup UNION {Run(l, Page) : l \in ToSet(prp_lists[c])}
  /\ prp_lists' = [prp_lists EXCEPT ![c] = None]
  /\ pc' = [pc EXCEPT ![c] = IF block[c] = None THEN "idle" ELSE @]
  /\ UNCHANGED <<mem, status, calls, block, local, prp, overrun>>

\* ~AsyncCommand: every list is freed.
DestroyCommand(c) ==
  /\ pc[c] = "completed" /\ prp_lists[c] # None
  /\ freed' = freed \cup UNION {Run(l, Page) : l \in ToSet(prp_lists[c])}
  /\ prp_lists' = [prp_lists EXCEPT ![c] = None]
  /\ pc' = [pc EXCEPT ![c] = IF block[c] = None THEN "idle" ELSE @]
  /\ UNCHANGED <<mem, status, calls, block, local, prp, overrun>>

Next ==
  /\ status = "ok"
  /\ \E c \in Cmds :
       \/ \E len \in Lens : Request(c, len) \/ RequestThrows(c, len)
       \/ TwoPages(c) \/ FirstList(c) \/ WriteEntry(c) \/ ChainList(c)
       \/ ListThrows(c)
       \/ DevComplete(c) \/ FreeBuffer(c) \/ DestroyCommand(c)

Spec == Init /\ [][Next]_vars

-----------------------------------------------------------------------------
(* What the device makes of a command. *)

\* The addresses it finds for n pages in a list: the last entry of a full list
\* that does not end the buffer names the next list.
Entries(list, n) ==
  LET walk[k \in 0 .. n] ==
        [l \in Nat |->
          IF ~(Run(l, Page) \subseteq Cells) THEN << >>
          ELSE IF k <= Page
               THEN [j \in 1 .. k |-> mem[l + j - 1]]
               ELSE [j \in 1 .. Page - 1 |-> mem[l + j - 1]]
                      \o walk[k - (Page - 1)][mem[l + Page - 1]]]
  IN walk[n][list]

\* Variant: the length is the number of blocks.
LengthPlain(len) == (len \div Page) % U16

\* submit_rw_command's length: blocks (of a page), one less, in 16 bits.
Length(len) == (len \div Page - 1) % U16

\* The device goes by that length, not by the buffer, which it is not told of.
DeviceSees(c) ==
  LET blocks == Length(block[c].len) + 1 IN
  << prp[c][1] >> \o
    CASE blocks = 1 -> << >>
      [] blocks = 2 -> << prp[c][2] >>
      [] OTHER      -> Entries(prp[c][2], blocks - 1)

-----------------------------------------------------------------------------
(* Properties. *)

\* Until an entry is written outside its list: as long as the device has a
\* command for whole blocks, what it finds through PRP1, PRP2 and the list for
\* the command's length are the pages of the buffer, all of them and in order,
\* whatever other threads allocate, write and free in the meantime.  For other
\* sizes the length and the PRPs disagree: two blocks and a half are a length
\* of two, and a device that moves two pages takes PRP2 for the second of them
\* where setup_buffer has put a list.
TransferExact ==
  ~overrun =>
    \A c \in Cmds :
      pc[c] = "device" /\ block[c].len % Page = 0 =>
        DeviceSees(c) = [k \in 1 .. block[c].len \div Page |->
                           block[c].base + (k - 1) * Page]

\* No page is used twice: the blocks and lists of the commands are disjoint
\* and not free.
PagesPrivate ==
  LET used(c) == (IF block[c] = None THEN {}
                  ELSE Run(block[c].base, RoundUp(block[c].len)))
                 \cup (IF prp_lists[c] = None THEN {}
                       ELSE UNION {Run(l, Page) : l \in ToSet(prp_lists[c])})
  IN /\ \A c \in Cmds : used(c) \cap freed = {}
     /\ \A c, d \in Cmds : c # d => used(c) \cap used(d) = {}

\* When no command is in progress every page is free again, the lists of the
\* longest buffers included; of a buffer that is not whole pages, what lies
\* after its end is not (process_completed_request frees what was asked for).
PagesReturned ==
  (\A c \in Cmds : pc[c] = "idle") =>
    \A a \in Cells : a >= Page /\ a % Page = 0 => a \in freed

=============================================================================

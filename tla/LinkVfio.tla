------------------------------ MODULE LinkVfio ------------------------------
(***************************************************************************)
(* PCIeLinkVfio (pcie_link_vfio.cpp): interrupts arrive as eventfds, one   *)
(* per vector, on which the receive thread waits with epoll; one more      *)
(* eventfd wakes it up when PCIeLink::stop (pcie_link.cpp) is called.      *)
(* Register accesses are loads and stores to the BAR, and part of the      *)
(* actions of whoever makes them.                                          *)
(*                                                                         *)
(* Of an eventfd's counter only zero or not matters, for a read takes all  *)
(* of it.  epoll is level-triggered: what it reports goes to the end of    *)
(* its list, and what is found without a count when its turn comes leaves. *)
(***************************************************************************)
EXTENDS Integers, SequencesExt

CONSTANTS
  NrVectors,  \* eventfds made by init: 16
  Room        \* length of recv_thread's events array: 2

ASSUME LinkVfioAssumption == NrVectors \in Nat \ {0} /\ Room \in Nat \ {0}

VARIABLES
  routed,      \* vectors the device was given an eventfd for
  signalled,   \* eventfds whose counter is not zero
  rdlist,      \* epoll's ready list
  events,      \* what epoll_wait returned and the loop has not done
  link_pc,     \* where the receive thread is; "none": not started
  stopped,
  irq_handler, \* a handler was set
  use          \* the link's user: "new", "started", "flagged", "woken", "joined"

recvVars == <<events, link_pc>>
fdVars   == <<signalled, rdlist>>
userVars == <<routed, stopped, irq_handler, use>>
linkVars == <<recvVars, fdVars, userVars>>

Vectors  == 0 .. NrVectors - 1
event_fd == NrVectors

\* init, for a device that has irq.count vectors at each index: an index with
\* too few is left alone.
Route(counts) ==
  IF \E i \in DOMAIN counts : counts[i] >= NrVectors THEN Vectors ELSE {}

LinkInit(counts) ==
  /\ routed = Route(counts)
  /\ signalled = {} /\ rdlist = << >>
  /\ events = << >> /\ link_pc = "none"
  /\ stopped = FALSE /\ irq_handler = FALSE /\ use = "new"

\* A write to an eventfd, by the kernel or by stop.
Write(fd) ==
  /\ signalled' = signalled \cup {fd}
  /\ rdlist' = IF Contains(rdlist, fd) THEN rdlist ELSE Append(rdlist, fd)

\* The device raises v; without an eventfd nobody hears of it.
Signal(v) ==
  IF v \in routed THEN Write(v) ELSE UNCHANGED fdVars

-----------------------------------------------------------------------------
(* recv_thread. *)

\* The head of the loop, with all events done: while (!stopped.load()).
TestStopped ==
  /\ link_pc = "events" /\ events = << >>
  /\ link_pc' = IF stopped THEN "ended" ELSE "wait"
  /\ UNCHANGED <<events, fdVars, userVars>>

\* What has a count among the first n descriptors of the list.
Ready[n \in 0 .. Len(rdlist)] ==
  IF n = 0 THEN << >>
  ELSE IF rdlist[n] \in signalled THEN Append(Ready[n - 1], rdlist[n])
                                  ELSE Ready[n - 1]

\* epoll_wait: it goes through the list until the array is full.
EpollWait ==
  /\ link_pc = "wait"
  /\ \E n \in 1 .. Len(rdlist) :
       /\ Ready[n] # << >> /\ Len(Ready[n - 1]) < Room
       /\ Len(Ready[n]) = Room \/ n = Len(rdlist)
       /\ events' = Ready[n]
       /\ rdlist' = SubSeq(rdlist, n + 1, Len(rdlist)) \o Ready[n]
  /\ link_pc' = "check"
  /\ UNCHANGED <<signalled, userVars>>

\* if (stopped.load()) break.
CheckStopped ==
  /\ link_pc = "check"
  /\ link_pc' = IF stopped THEN "ended" ELSE "events"
  /\ UNCHANGED <<events, fdVars, userVars>>

\* Variant: the loop over the events looks at the first of them only.
DoneFirstOnly == events' = << >>

DoneEvent == events' = Tail(events)

\* The stop event is in no map; it is not read and stays.
SkipEvent ==
  /\ link_pc = "events" /\ events # << >> /\ Head(events) \notin Vectors
  /\ DoneEvent
  /\ UNCHANGED <<link_pc, fdVars, userVars>>

\* read takes the counter before the handler looks; it would block on none.
ReadEvent ==
  /\ link_pc = "events" /\ events # << >> /\ Head(events) \in Vectors
  /\ Head(events) \in signalled
  /\ signalled' = signalled \ {Head(events)}
  /\ link_pc' = "call"
  /\ UNCHANGED <<events, rdlist, userVars>>

\* if (irq_handler) irq_handler(it->second).
CallHandler(v) ==
  /\ link_pc = "call" /\ v = Head(events)
  /\ IF irq_handler
     THEN link_pc' = "return" /\ UNCHANGED events
     ELSE link_pc' = "events" /\ DoneEvent
  /\ UNCHANGED <<fdVars, userVars>>

HandlerReturns ==
  /\ link_pc = "return"
  /\ link_pc' = "events" /\ DoneEvent
  /\ UNCHANGED <<fdVars, userVars>>

\* All of the thread but the handler, which is its user's.
Recv ==
  \/ TestStopped \/ EpollWait \/ CheckStopped
  \/ SkipEvent \/ ReadEvent \/ HandlerReturns

-----------------------------------------------------------------------------
(* The user of the link. *)

Start ==
  /\ use = "new" /\ use' = "started"
  /\ link_pc' = "events"
  /\ UNCHANGED <<events, fdVars, routed, stopped, irq_handler>>

SetIrqHandler ==
  /\ use = "started" /\ ~irq_handler
  /\ irq_handler' = TRUE
  /\ UNCHANGED <<recvVars, fdVars, routed, stopped, use>>

\* stop: the flag, the wake-up, the join.
StopFlag ==
  /\ use = "started" /\ use' = "flagged"
  /\ stopped' = TRUE
  /\ UNCHANGED <<recvVars, fdVars, routed, irq_handler>>

\* Variant: the thread is left to notice the flag.
StopWakeNot ==
  /\ use = "flagged" /\ use' = "woken"
  /\ UNCHANGED <<recvVars, fdVars, routed, stopped, irq_handler>>

StopWake ==
  /\ use = "flagged" /\ use' = "woken"
  /\ Write(event_fd)
  /\ UNCHANGED <<recvVars, routed, stopped, irq_handler>>

\* Variant: the thread is not waited for.
StopJoinNot ==
  /\ use = "woken" /\ use' = "joined"
  /\ UNCHANGED <<recvVars, fdVars, routed, stopped, irq_handler>>

StopJoin ==
  /\ use = "woken" /\ link_pc = "ended" /\ use' = "joined"
  /\ UNCHANGED <<recvVars, fdVars, routed, stopped, irq_handler>>

Stop == StopFlag \/ StopWake \/ StopJoin
=============================================================================

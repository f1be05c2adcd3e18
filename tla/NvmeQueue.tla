------------------------------ MODULE NvmeQueue ------------------------------
(***************************************************************************)
(* The NVMe queue pairs of NVMeDriver (nvme_driver.h, nvme_driver.cpp) and *)
(* the protocol they run with the device: the submission ring in shared    *)
(* memory, the doorbell writes, the completion ring with its phase tag and *)
(* the interrupt handler nvme_irq, run by the link's receive thread.       *)
(*                                                                         *)
(* Every queue belongs to one submitting thread (set_thread_id), so        *)
(* submissions to one queue never race with each other; they do race with  *)
(* the device and with the receive thread.                                 *)
(*                                                                         *)
(* The device is external: it is modelled by what the driver relies on     *)
(* (it fetches entries between its head and the tail doorbell in order,    *)
(* completes them in any order, never overruns the completion ring it      *)
(* knows the head of, inverts the phase tag on every lap).                 *)
(***************************************************************************)
EXTENDS Integers, Sequences, FiniteSets

CONSTANTS
  Queues,   \* the I/O queues, one per submitting thread
  Depth,    \* NVMeQueue::depth, entries of each ring
  Cmds,     \* the commands that may be submitted
  NoCmd,    \* contents of a ring entry nobody has written
  Limit,    \* most commands the client keeps outstanding on one queue
  U16,      \* 2^16: the ring indices are uint16_t
  Posted    \* TRUE: a doorbell is a message on the socket (PCIeLinkMcmq);
            \* FALSE: a store the device sees at once (VFIO BAR or dbbuf)

ASSUME NvmeQueueAssumption ==
  /\ Depth \in Nat /\ Depth >= 2
  /\ U16 \in Nat /\ Depth <= U16
  /\ Limit \in Nat
  /\ NoCmd \notin Cmds
  /\ Posted \in BOOLEAN

VARIABLES
  \* shared memory and the fields of NVMeQueue
  sq,            \* submission ring
  sq_tail,       \* next entry to write
  cq,            \* completion ring: command and phase tag
  cq_head,       \* next entry to look at
  cq_phase,      \* phase tag a new entry at cq_head carries
  \* doorbell writes on the wire, oldest first
  sq_db,
  cq_db,
  \* the device's registers and state
  dev_sq_tail,   \* SQ tail doorbell register
  dev_sq_head,   \* next entry to fetch
  executing,     \* fetched, not yet completed
  dev_cq_head,   \* CQ head doorbell register
  dev_cq_tail,   \* next completion entry to write
  dev_phase,     \* phase tag of the device's current lap
  irq,           \* queues whose interrupt is signalled and not yet taken
  \* the receive thread inside nvme_irq
  irq_pc,        \* "idle", "poll", "handle", "advance" or "ring"
  irq_q,         \* the queue being served (meaningless when idle)
  found,         \* found > 0
  \* the commands submitted and not yet handled, per queue
  live

sqVars   == <<sq, sq_tail, sq_db>>
cqVars   == <<cq_head, cq_phase, cq_db>>
devVars  == <<cq, dev_sq_tail, dev_sq_head, executing,
              dev_cq_head, dev_cq_tail, dev_phase>>
irqVars  == <<irq_pc, irq_q, found>>
vars     == <<sqVars, cqVars, devVars, irq, irqVars, live>>

Slots  == 0 .. Depth - 1
Entry  == [cmd : Cmds \cup {NoCmd}, phase : {0, 1}]

-----------------------------------------------------------------------------
(* Index arithmetic. *)

\* ++ on a uint16_t.
Inc16(i) == IF i + 1 = U16 THEN 0 ELSE i + 1

\* Variant: the tail is never wrapped.
SqNextNoWrap(i) == Inc16(i)

\* if (++sq_tail == depth) sq_tail = 0
SqNext(i) == IF Inc16(i) = Depth THEN 0 ELSE Inc16(i)

\* update_cq_head: the head, and whether the expected phase is inverted.
CqNext(i)  == IF Inc16(i) = Depth THEN 0 ELSE Inc16(i)
CqWraps(i) == Inc16(i) = Depth

\* The device's own index arithmetic.
DevNext(i) == IF i + 1 = Depth THEN 0 ELSE i + 1

-----------------------------------------------------------------------------
(* allocate_queue and init_queue: the queue is empty, its completion ring   *)
(* zeroed, and the first lap is the one with phase tag 1.                   *)
Init ==
  /\ sq          = [q \in Queues |-> [i \in Slots |-> NoCmd]]
  /\ sq_tail     = [q \in Queues |-> 0]
  /\ cq          = [q \in Queues |->
                      [i \in Slots |-> [cmd |-> NoCmd, phase |-> 0]]]
  /\ cq_head     = [q \in Queues |-> 0]
  /\ cq_phase    = [q \in Queues |-> 1]
  /\ sq_db       = [q \in Queues |-> << >>]
  /\ cq_db       = [q \in Queues |-> << >>]
  /\ dev_sq_tail = [q \in Queues |-> 0]
  /\ dev_sq_head = [q \in Queues |-> 0]
  /\ executing   = [q \in Queues |-> {}]
  /\ dev_cq_head = [q \in Queues |-> 0]
  /\ dev_cq_tail = [q \in Queues |-> 0]
  /\ dev_phase   = [q \in Queues |-> 1]
  /\ irq         = {}
  /\ irq_pc      = "idle"
  /\ irq_q       \in Queues
  /\ found       = FALSE
  /\ live        = [q \in Queues |-> {}]

-----------------------------------------------------------------------------
(* The submitting thread. *)

\* write_sq_doorbell; every caller passes write_sq = true, so the tail is
\* announced with each command.
WriteSqDoorbell(q, tail) ==
  IF Posted
  THEN /\ sq_db' = [sq_db EXCEPT ![q] = Append(@, tail)]
       /\ UNCHANGED dev_sq_tail
  ELSE /\ dev_sq_tail' = [dev_sq_tail EXCEPT ![q] = tail]
       /\ UNCHANGED sq_db

\* Variant: the tail is advanced before the entry is written.
SubmitSqCommandLate(q, c) ==
  /\ sq' = [sq EXCEPT ![q][SqNext(sq_tail[q])] = c]
  /\ sq_tail' = [sq_tail EXCEPT ![q] = SqNext(@)]
  /\ WriteSqDoorbell(q, SqNext(sq_tail[q]))
  /\ live' = [live EXCEPT ![q] = @ \cup {c}]
  /\ UNCHANGED <<cqVars, cq, dev_sq_head, executing, dev_cq_head,
                 dev_cq_tail, dev_phase, irq, irqVars>>

\* submit_sq_command: write the entry, advance the tail, ring the doorbell.
\* Nothing here looks at the device's head.
SubmitSqCommand(q, c) ==
  /\ sq' = [sq EXCEPT ![q][sq_tail[q]] = c]
  /\ sq_tail' = [sq_tail EXCEPT ![q] = SqNext(@)]
  /\ WriteSqDoorbell(q, SqNext(sq_tail[q]))
  /\ live' = [live EXCEPT ![q] = @ \cup {c}]
  /\ UNCHANGED <<cqVars, cq, dev_sq_head, executing, dev_cq_head,
                 dev_cq_tail, dev_phase, irq, irqVars>>

\* A client that respects Limit and never has one command outstanding twice.
Submit(q, c) ==
  /\ Cardinality(live[q]) < Limit
  /\ c \notin UNION {live[p] : p \in Queues}
  /\ SubmitSqCommand(q, c)

-----------------------------------------------------------------------------
(* The device. *)

\* A doorbell write reaches the device (Posted only).
DevSqDoorbell(q) ==
  /\ sq_db[q] # << >>
  /\ dev_sq_tail' = [dev_sq_tail EXCEPT ![q] = Head(sq_db[q])]
  /\ sq_db' = [sq_db EXCEPT ![q] = Tail(@)]
  /\ UNCHANGED <<sq, sq_tail, cqVars, cq, dev_sq_head, executing,
                 dev_cq_head, dev_cq_tail, dev_phase, irq, irqVars, live>>

DevCqDoorbell(q) ==
  /\ cq_db[q] # << >>
  /\ dev_cq_head' = [dev_cq_head EXCEPT ![q] = Head(cq_db[q])]
  /\ cq_db' = [cq_db EXCEPT ![q] = Tail(@)]
  /\ UNCHANGED <<sqVars, cq_head, cq_phase, cq, dev_sq_tail, dev_sq_head,
                 executing, dev_cq_tail, dev_phase, irq, irqVars, live>>

\* The device reads the next submission entry.
DevFetch(q) ==
  /\ dev_sq_head[q] # dev_sq_tail[q]
  /\ executing' = [executing EXCEPT ![q] = @ \cup {sq[q][dev_sq_head[q]]}]
  /\ dev_sq_head' = [dev_sq_head EXCEPT ![q] = DevNext(@)]
  /\ UNCHANGED <<sqVars, cqVars, cq, dev_sq_tail, dev_cq_head, dev_cq_tail,
                 dev_phase, irq, irqVars, live>>

\* The device completes c: it writes the completion entry and then signals
\* the queue's interrupt vector.  It keeps one entry of the ring unused.
DevComplete(q, c) ==
  /\ c \in executing[q]
  /\ DevNext(dev_cq_tail[q]) # dev_cq_head[q]
  /\ executing' = [executing EXCEPT ![q] = @ \ {c}]
  /\ cq' = [cq EXCEPT ![q][dev_cq_tail[q]] =
                        [cmd |-> c, phase |-> dev_phase[q]]]
  /\ dev_cq_tail' = [dev_cq_tail EXCEPT ![q] = DevNext(@)]
  /\ dev_phase' = [dev_phase EXCEPT ![q] =
                     IF dev_cq_tail[q] + 1 = Depth THEN 1 - @ ELSE @]
  /\ irq' = irq \cup {q}
  /\ UNCHANGED <<sqVars, cqVars, dev_sq_tail, dev_sq_head, dev_cq_head,
                 irqVars, live>>

-----------------------------------------------------------------------------
(* The receive thread. *)

\* The irq handler installed by start(): nvme_irq(queues[vector]).
RecvIrq(q) ==
  /\ irq_pc = "idle" /\ q \in irq
  /\ irq' = irq \ {q}
  /\ irq_pc' = "poll" /\ irq_q' = q /\ found' = FALSE
  /\ UNCHANGED <<sqVars, cqVars, devVars, live>>

\* Variant: any entry with its phase tag set is new.
CqePendingTagSet(q) == cq[q][cq_head[q]].phase = 1

\* cqe_pending: the entry at the head carries the expected phase tag.
CqePending(q) == cq[q][cq_head[q]].phase = cq_phase[q]

\* One evaluation of nvme_irq's loop condition, and what follows the loop.
PollCq ==
  /\ irq_pc = "poll"
  /\ irq_pc' = IF CqePending(irq_q) THEN "handle"
               ELSE IF found THEN "ring" ELSE "idle"
  /\ UNCHANGED <<sqVars, cqVars, devVars, irq, irq_q, found, live>>

\* The entry handle_cqe(nvmeq, nvmeq->cq_head) reads.
Cqe(q) == cq[q][cq_head[q]]

\* handle_cqe: the command the entry names is finished.
HandleCqe ==
  /\ irq_pc = "handle"
  /\ live' = [live EXCEPT ![irq_q] = @ \ {Cqe(irq_q).cmd}]
  /\ irq_pc' = "advance"
  /\ found' = TRUE
  /\ UNCHANGED <<sqVars, cqVars, devVars, irq, irq_q>>

\* Variant: the expected phase is not inverted when the head wraps.
UpdateCqHeadSamePhase ==
  /\ irq_pc = "advance"
  /\ cq_head' = [cq_head EXCEPT ![irq_q] = CqNext(@)]
  /\ irq_pc' = "poll"
  /\ UNCHANGED <<sqVars, cq_db, cq_phase, devVars, irq, irq_q, found, live>>

\* Variant: the head stays where it is.
UpdateCqHeadStuck ==
  /\ irq_pc = "advance"
  /\ irq_pc' = "poll"
  /\ UNCHANGED <<sqVars, cqVars, devVars, irq, irq_q, found, live>>

\* update_cq_head.
UpdateCqHead ==
  /\ irq_pc = "advance"
  /\ cq_head' = [cq_head EXCEPT ![irq_q] = CqNext(@)]
  /\ cq_phase' = [cq_phase EXCEPT ![irq_q] =
                    IF CqWraps(cq_head[irq_q]) THEN 1 - @ ELSE @]
  /\ irq_pc' = "poll"
  /\ UNCHANGED <<sqVars, cq_db, devVars, irq, irq_q, found, live>>

\* Variant: the head doorbell is never rung.
RingCqDoorbellForgotten ==
  /\ irq_pc = "ring"
  /\ irq_pc' = "idle"
  /\ UNCHANGED <<sqVars, cqVars, devVars, irq, irq_q, found, live>>

\* ring_cq_doorbell: once, after the loop.
RingCqDoorbell ==
  /\ irq_pc = "ring"
  /\ IF Posted
     THEN /\ cq_db' = [cq_db EXCEPT ![irq_q] = Append(@, cq_head[irq_q])]
          /\ UNCHANGED dev_cq_head
     ELSE /\ dev_cq_head' = [dev_cq_head EXCEPT ![irq_q] = cq_head[irq_q]]
          /\ UNCHANGED cq_db
  /\ irq_pc' = "idle"
  /\ UNCHANGED <<sqVars, cq_head, cq_phase, cq, dev_sq_tail, dev_sq_head,
                 executing, dev_cq_tail, dev_phase, irq, irq_q, found, live>>

RecvThread == PollCq \/ HandleCqe \/ UpdateCqHead \/ RingCqDoorbell

Device(q) ==
  \/ DevSqDoorbell(q)
  \/ DevCqDoorbell(q)
  \/ DevFetch(q)
  \/ \E c \in Cmds : DevComplete(q, c)

Next ==
  \/ \E q \in Queues, c \in Cmds : Submit(q, c)
  \/ \E q \in Queues : Device(q) \/ RecvIrq(q)
  \/ RecvThread

Spec == Init /\ [][Next]_vars

\* The receive thread keeps running, takes the interrupts of every queue (the
\* socket is a FIFO, epoll's ready list is served in turn), and the device
\* takes doorbells, fetches entries and completes every command it executes
\* when it has room to.
Fairness ==
  /\ WF_vars(RecvThread)
  /\ \A q \in Queues :
       /\ SF_vars(RecvIrq(q))
       /\ WF_vars(DevSqDoorbell(q))
       /\ WF_vars(DevCqDoorbell(q))
       /\ WF_vars(DevFetch(q))
       /\ \A c \in Cmds : SF_vars(DevComplete(q, c))

FairSpec == Spec /\ Fairness

-----------------------------------------------------------------------------
(* Properties. *)

TypeOK ==
  /\ sq \in [Queues -> [Slots -> Cmds \cup {NoCmd}]]
  /\ sq_tail \in [Queues -> Slots]
  /\ cq \in [Queues -> [Slots -> Entry]]
  /\ cq_head \in [Queues -> Slots]
  /\ cq_phase \in [Queues -> {0, 1}]
  /\ sq_db \in [Queues -> Seq(Slots)]
  /\ cq_db \in [Queues -> Seq(Slots)]
  /\ dev_sq_tail \in [Queues -> Slots]
  /\ dev_sq_head \in [Queues -> Slots]
  /\ executing \in [Queues -> SUBSET (Cmds \cup {NoCmd})]
  /\ dev_cq_head \in [Queues -> Slots]
  /\ dev_cq_tail \in [Queues -> Slots]
  /\ dev_phase \in [Queues -> {0, 1}]
  /\ irq \subseteq Queues
  /\ irq_pc \in {"idle", "poll", "handle", "advance", "ring"}
  /\ irq_q \in Queues
  /\ found \in BOOLEAN
  /\ live \in [Queues -> SUBSET Cmds]

\* i lies in the part of the ring that starts at h and ends before t.
InRing(h, t, i) == IF h <= t THEN h <= i /\ i < t ELSE h <= i \/ i < t

SqWindow(q) == {i \in Slots : InRing(dev_sq_head[q], sq_tail[q], i)}

\* The entry handle_cqe has just dealt with stays in the ring until
\* update_cq_head moves the head past it.
Handled(q) ==
  IF irq_pc = "advance" /\ irq_q = q THEN {cq_head[q]} ELSE {}
CqWindow(q) ==
  {i \in Slots : InRing(cq_head[q], dev_cq_tail[q], i)} \ Handled(q)

SqCmds(q) == {sq[q][i] : i \in SqWindow(q)}
CqCmds(q) == {cq[q][i].cmd : i \in CqWindow(q)}

\* No command is lost and none is invented: what the driver waits for is what
\* lies unfetched in the submission ring, what the device executes and what
\* lies unhandled in the completion ring.  submit_sq_command overwrites
\* whatever is at the tail without looking at the device's head.
NoCommandLost ==
  \A q \in Queues : live[q] = SqCmds(q) \cup executing[q] \cup CqCmds(q)

\* A command is in one place only, so it is completed at most once.
OnePlace ==
  \A q \in Queues :
    /\ \A i, j \in SqWindow(q) : i # j => sq[q][i] # sq[q][j]
    /\ \A i, j \in CqWindow(q) : i # j => cq[q][i].cmd # cq[q][j].cmd
    /\ SqCmds(q) \cap executing[q] = {}
    /\ SqCmds(q) \cap CqCmds(q) = {}
    /\ executing[q] \cap CqCmds(q) = {}

\* cqe_pending decides by the phase tag alone; it is right in every state:
\* an entry is reported exactly when the device wrote one the driver has not
\* handled, so no completion is missed and no old entry is taken again.
PhaseExact ==
  \A q \in Queues :
    Handled(q) = {} => (CqePending(q) <=> CqWindow(q) # {})

\* handle_cqe always finds the command of the entry it reads: the branch that
\* logs "Completion queue entry without command" is never taken.
CompletionIsLive ==
  irq_pc = "handle" => Cqe(irq_q).cmd \in live[irq_q]

\* Every submitted command is handled.
EveryCommandCompletes ==
  \A q \in Queues, c \in Cmds : c \in live[q] ~> c \notin live[q]

=============================================================================

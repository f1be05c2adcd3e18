------------------------------ MODULE HostVfio ------------------------------
(***************************************************************************)
(* The whole program on the vfio backend: main (DriverStart) and the I/O   *)
(* threads, which learn of their completions through the link (LinkVfio).  *)
(* The handler main sets is nvme_irq for the queue of the vector's number; *)
(* it delivers what the device has posted there.                           *)
(*                                                                         *)
(* A thread has one request outstanding (IOThread and IoPath have more)    *)
(* and makes as many as it likes.                                          *)
(***************************************************************************)
EXTENDS DriverStart, LinkVfio

CONSTANT IrqCounts  \* devices: numbers of vectors at each irq index

\* With more vectors than eventfds at an index, init's loop would write beyond
\* irq_set and read beyond irq_fds.
ASSUME IrqCountsAssumption ==
  \A counts \in IrqCounts : \A i \in DOMAIN counts : counts[i] <= NrVectors

VARIABLES
  posted,  \* queues with a completion entry nvme_irq has not taken
  io       \* per thread, its outstanding command, or None

hostVars == <<vars, linkVars, posted, io>>

HostInit ==
  /\ Init
  /\ \E counts \in IrqCounts : LinkInit(counts)
  /\ posted = {}
  /\ io = [t \in IoQueues |-> None]

-----------------------------------------------------------------------------
(* main. *)

\* From link->start to the end of NVMeDriver::shutdown, then link->stop.
Host ==
  \/ (Start \/ SetIrqHandler) /\ UNCHANGED <<vars, posted, io>>
  \/ irq_handler /\ Main /\ UNCHANGED <<linkVars, posted, io>>
  \/ pc = "done" /\ Stop /\ UNCHANGED <<vars, posted, io>>

\* main has returned, or an exception or an assertion has ended the program.
Ended == pc \in {"threw", "failed", "aborted"} \/ use = "joined"

\* A thread generates a request and submits it on its own queue, which the
\* device may not have.
Submit(t, r) ==
  /\ threads[t] = "io" /\ io[t] = None /\ t < queue_count
  /\ io' = [io EXCEPT ![t] = RwCommand(r)]
  /\ UNCHANGED <<vars, linkVars, posted>>

\* A queue that was not even allocated has its ring at address 0, which is below
\* iova_base: an assertion of MemorySpace::write fails.
SubmitAborts(t) ==
  /\ threads[t] = "io" /\ t >= queue_count
  /\ Goto("aborted")
  /\ UNCHANGED <<driverVars, threads, devVars, admin, linkVars, posted, io>>

\* With its last request completed it ends.
ThreadEnds(t) ==
  /\ t \in dev_sqs /\ io[t] = None
  /\ ThreadDone(t)
  /\ UNCHANGED <<linkVars, posted, io>>

-----------------------------------------------------------------------------
(* The device and the receive thread. *)

\* The device executes what it finds on queue q, posts and interrupts.
Post(q) ==
  /\ q \notin posted
  /\ posted' = posted \cup {q}
  /\ Signal(q)
  /\ UNCHANGED <<vars, recvVars, userVars, io>>

PostAdmin == admin # None /\ admin.status = None /\ dev_aq = "new" /\ Post(0)

PostIo(t) == io[t] # None /\ t \in dev_cqs /\ t \in dev_sqs /\ Post(t)

Device == DevSwitches /\ UNCHANGED <<linkVars, posted, io>>

\* nvme_irq, if it was set: the command is completed, and the waiter or its
\* thread goes on while the handler has yet to return.
NvmeIrq(v) ==
  /\ CallHandler(v)
  /\ IF irq_handler /\ v \in posted
     THEN /\ posted' = posted \ {v}
          /\ IF v = 0 THEN DevAnswersAny /\ UNCHANGED io
                      ELSE io' = [io EXCEPT ![v] = None] /\ UNCHANGED vars
     ELSE UNCHANGED <<vars, posted, io>>

Receive ==
  \/ Recv /\ UNCHANGED <<vars, posted, io>>
  \/ \E v \in Vectors : NvmeIrq(v)

HostNext ==
  \/ /\ ~Ended
     /\ \/ Host \/ Device \/ PostAdmin \/ Receive
        \/ \E t \in IoQueues :
             \/ \E r \in Requests(Flows[t]) : Submit(t, r)
             \/ SubmitAborts(t) \/ ThreadEnds(t) \/ PostIo(t)
  \/ Ended /\ UNCHANGED hostVars

HostSpec == HostInit /\ [][HostNext]_hostVars

\* Main and the receive thread run, the device reacts to CC and completes what
\* it is given.  Nothing makes a thread submit or end: its workload does.
HostFairSpec ==
  /\ HostSpec
  /\ WF_hostVars(~Ended /\ Host)
  /\ WF_hostVars(~Ended /\ Receive)
  /\ WF_hostVars(~Ended /\ (Device \/ PostAdmin))
  /\ \A t \in IoQueues : WF_hostVars(~Ended /\ PostIo(t))

-----------------------------------------------------------------------------
(* Properties. *)

\* The receive thread is in nvme_irq only while the driver exists: the driver
\* is destroyed when main returns, which it must not do before the thread has
\* ended.  (main's return at an unknown namespace does not keep to this.)
HandlerHasDriver ==
  link_pc \in {"call", "return"} => use # "joined" /\ irq_handler

\* For flows of a block or more, aligned to their size or more as workload.yaml's
\* or of less than two blocks as by default, every command lies within what the
\* thread was told of the namespace and within what the device has of it, and
\* moves the request's whole blocks.
CommandsInside ==
  \A t \in IoQueues : io[t] # None =>
    LET end == (io[t].slba + io[t].length + 1) * 4096 IN
    /\ end <= NsCapacitySects[Flows[t].nsid] * SectorSize
    /\ end <= DeviceBytes(Flows[t].nsid)
    /\ io[t].length + 1 = Flows[t].size \div 8

\* The refinement mapping: an interrupt is over when its eventfd is read, before
\* its handler starts.
Pending == signalled \cap Vectors
Busy    == IF link_pc \in {"call", "return"} THEN Head(events) ELSE event_fd
Open    == ~stopped /\ ~Ended

Lines == INSTANCE IrqLines WITH
  pending <- Pending, busy <- Busy, open <- Open, None <- event_fd

\* The receive thread serves the vectors as NvmeQueue assumes it does: no
\* interrupt is lost, and none is passed over for ever however busy the others
\* keep it.
ImplementsIrqLines == Lines!FairSpec

\* A request on a queue that the driver counts as online and whose vector has
\* an eventfd completes, whatever the other threads do and however many of them
\* have queues without one, unless a thread aborts the program.
EveryIoCompletes ==
  \A t \in IoQueues :
    io[t] # None /\ t < online_queues /\ t \in routed
      ~> io[t] = None \/ pc = "aborted"

\* The program ends, with its result or with an error, unless a thread goes on
\* for ever.  A thread does if its queue could not be created, for start goes
\* on all the same, or has no vector; and a device with fewer vectors than
\* eventfds is never heard of.
HostEnds ==
  (\A t \in IoQueues : []<>(threads[t] # "io")) => <>(Ended \/ routed = {})
=============================================================================

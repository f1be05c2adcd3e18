--------------------------- MODULE HostVfioProofs ---------------------------
(***************************************************************************)
(* Theorems about HostVfio, for any flows and namespaces, any number of    *)
(* vectors, any room for events and any device: the controller's start,    *)
(* the receive thread as an implementation of IrqLines, where the threads' *)
(* commands lie (for flows of a block or more), and, in the second half,   *)
(* that no completion is forgotten on its way to the one who waits for it. *)
(***************************************************************************)
EXTENDS HostVfio, SequenceTheorems, WellFoundedInduction, TLAPS

-----------------------------------------------------------------------------
(* The inductive invariant. *)

\* From here on the controller runs for this driver.
Up == { "init_admin", "identify", "features", "allocate", "create_cq",
        "create_sq", "run", "join", "shutdown", "done" }

Before == {"disable", "wait_off", "admin_queue", "wait_on", "init_admin",
           "identify", "features", "allocate", "create_cq", "create_sq", "run"}

\* What CC and CSTS are at each step of reset.
Restarted ==
  /\ cc_en \in BOOLEAN
  /\ pc = "wait_off" => cc_en = FALSE
  /\ pc = "admin_queue" => cc_en = FALSE /\ csts = "off"
  /\ pc = "wait_on" => cc_en = TRUE /\ aq_regs = TRUE
                       /\ (csts = "ready" => dev_aq = "new")
  /\ pc \in Up => cc_en = TRUE /\ csts = "ready" /\ dev_aq = "new"
  /\ pc \in Up \ {"init_admin"} => 0 \in zeroed

\* Admin commands are over before there are threads.
AdminFirst ==
  /\ pc \in Before => \A t \in IoQueues : threads[t] = "new"
  /\ admin # None => pc \in {"identify", "features", "create_cq", "create_sq"}

\* Nothing is signalled before the handler is set.
HandlerFirst ==
  ~irq_handler =>
    /\ pc = "disable" /\ admin = None
    /\ signalled = {} /\ link_pc \notin {"call", "return"}
    /\ \A t \in IoQueues : io[t] = None

JoinedAfter == use = "joined" => link_pc = "ended"

HostInv == Restarted /\ AdminFirst /\ HandlerFirst /\ JoinedAfter

LEMMA InitInv == HostInit => HostInv
  BY DEF HostInit, Init, LinkInit, HostInv, Restarted, AdminFirst, HandlerFirst,
         JoinedAfter, Up, Before

\* What main's and the device's steps leave alone.
LEMMA StepInv == HostInv /\ [HostNext]_hostVars => HostInv'
<1> SUFFICES ASSUME HostInv, [HostNext]_hostVars PROVE HostInv'
  OBVIOUS
<1> USE DEF HostInv, Restarted, AdminFirst, HandlerFirst, JoinedAfter, Up, Before,
            vars, driverVars, devVars, linkVars, recvVars, fdVars, userVars, Goto
<1>1. CASE (Start \/ SetIrqHandler) /\ UNCHANGED <<vars, posted, io>>
  BY <1>1 DEF Start, SetIrqHandler
<1>2. CASE irq_handler /\ Main /\ UNCHANGED <<linkVars, posted, io>>
  <2>1. CASE DisableController
    BY <1>2, <2>1 DEF DisableController
  <2>2. CASE WaitDisabled
    BY <1>2, <2>2 DEF WaitDisabled, WaitReady
  <2>3. ASSUME NEW ok \in {TRUE, ~MayFail}, SetupAdminQueue(ok) PROVE HostInv'
    BY <1>2, <2>3 DEF SetupAdminQueue
  <2>4. CASE WaitEnabled
    BY <1>2, <2>4 DEF WaitEnabled, WaitReady
  <2>5. CASE InitAdminQueue
    BY <1>2, <2>5 DEF InitAdminQueue, InitQueue
  <2>6. CASE Identify \/ SetFeatures \/ CreateCq \/ CreateSq
    BY <1>2, <2>6 DEF Identify, SetFeatures, CreateCq, CreateSq, SubmitAdmin
  <2>7. CASE Identified \/ CqCreated
    BY <1>2, <2>7 DEF Identified, CqCreated, Answered
  <2>8. CASE SetQueueCount
    BY <1>2, <2>8 DEF SetQueueCount, Answered
  <2>9. CASE AllocateQueues \/ QueuesSetUp
    BY <1>2, <2>9 DEF AllocateQueues, QueuesSetUp
  <2>10. CASE SqCreated
    BY <1>2, <2>10 DEF SqCreated, Answered, InitQueue
  <2>11. CASE RunThreads
    BY <1>2, <2>11 DEF RunThreads
  <2>12. CASE JoinThreads \/ Shutdown
    BY <1>2, <2>12 DEF JoinThreads, Shutdown
  <2> QED
    BY <1>2, <2>1, <2>2, <2>3, <2>4, <2>5, <2>6, <2>7, <2>8, <2>9, <2>10, <2>11,
       <2>12 DEF Main
<1>3. CASE pc = "done" /\ Stop /\ UNCHANGED <<vars, posted, io>>
  BY <1>3 DEF Stop, StopFlag, StopWake, StopJoin
<1>4. CASE Device
  BY <1>4 DEF Device, DevSwitches, DevEnables, DevDisables, DevFails
<1>5. CASE PostAdmin
  BY <1>5 DEF PostAdmin, Post, Signal, Write
<1>6. CASE Recv /\ UNCHANGED <<vars, posted, io>>
  BY <1>6 DEF Recv, TestStopped, EpollWait, CheckStopped, SkipEvent, ReadEvent,
              HandlerReturns
<1>7. ASSUME NEW v \in Vectors, NvmeIrq(v) PROVE HostInv'
  BY <1>7 DEF NvmeIrq, CallHandler, DevAnswersAny, DevAnswers
<1>8. ASSUME NEW t \in IoQueues, NEW r \in Requests(Flows[t]), Submit(t, r)
      PROVE  HostInv'
  BY <1>8 DEF Submit
<1>9. ASSUME NEW t \in IoQueues, SubmitAborts(t) PROVE HostInv'
  BY <1>9 DEF SubmitAborts
<1>10. ASSUME NEW t \in IoQueues, ThreadEnds(t) PROVE HostInv'
  BY <1>10 DEF ThreadEnds, ThreadDone
<1>11. ASSUME NEW t \in IoQueues, PostIo(t) PROVE HostInv'
  BY <1>11 DEF PostIo, Post, Signal, Write
<1>12. CASE UNCHANGED hostVars
  BY <1>12 DEF hostVars
<1> QED
  BY <1>1, <1>2, <1>3, <1>4, <1>5, <1>6, <1>7, <1>8, <1>9, <1>10, <1>11, <1>12
     DEF HostNext, Host, Receive

LEMMA Invariant == HostSpec => []HostInv
  BY InitInv, StepInv, PTL DEF HostSpec

-----------------------------------------------------------------------------
\* No admin command reaches a controller that was not restarted (reset,
\* wait_ready), whatever it did before and however long it takes.
THEOREM AdminReachesController == HostSpec => []AdminReaches
<1>1. HostInv => AdminReaches
  BY DEF HostInv, Restarted, AdminFirst, Up, AdminReaches
<1> QED
  BY <1>1, Invariant, PTL

\* No handler runs on a driver that main has destroyed or not set up yet
\* (NVMeDriver::start, PCIeLink::stop).
THEOREM HandlersEnd == HostSpec => []HandlerHasDriver
<1>1. HostInv => HandlerHasDriver
  BY DEF HostInv, HandlerFirst, JoinedAfter, HandlerHasDriver
<1> QED
  BY <1>1, Invariant, PTL
-----------------------------------------------------------------------------
(* The receive thread keeps the promise of IrqLines: the steps. *)

\* A step that leaves the descriptors and the handler alone: nothing, or the
\* end of the link.
LEMMA QuietStep ==
  ASSUME UNCHANGED <<Pending, Busy>>, Ended => Ended', stopped => stopped'
  PROVE  [Lines!Next]_<<Pending, Busy, Open>>
<1>1. CASE Open' = Open
  BY <1>1
<1>2. CASE Open' = FALSE
  <2>1. Lines!Close
    BY <1>2 DEF Lines!Close
  <2> QED
    BY <2>1 DEF Lines!Next
<1>3. Open' = Open \/ Open' = FALSE
  BY DEF Open
<1> QED
  BY <1>1, <1>2, <1>3

\* A write to an eventfd raises its vector, if it has one.
LEMMA WriteStep ==
  ASSUME NEW fd, Write(fd), UNCHANGED <<link_pc, events, Open>>
  PROVE  [Lines!Next]_<<Pending, Busy, Open>>
<1>1. Busy' = Busy
  BY DEF Busy, event_fd
<1>2. CASE fd \in Vectors
  <2>1. Lines!Raise(fd)
    BY <1>1, <1>2 DEF Write, Pending, Vectors, Lines!Raise
  <2> QED
    BY <1>2, <2>1 DEF Lines!Next
<1>3. CASE fd \notin Vectors
  BY <1>1, <1>3 DEF Write, Pending, Vectors
<1> QED
  BY <1>2, <1>3

\* A step after which no handler runs.
LEMMA ReturnStep ==
  ASSUME Busy' = event_fd, UNCHANGED <<Pending, Open>>
  PROVE  [Lines!Next]_<<Pending, Busy, Open>>
<1>1. Lines!Return
  BY DEF Lines!Return
<1> QED
  BY <1>1 DEF Lines!Next

LEMMA LinesStep ==
  ASSUME [HostNext]_hostVars
  PROVE  [Lines!Next]_<<Pending, Busy, Open>>
<1> USE DEF vars, linkVars, recvVars, fdVars, userVars, Goto
<1>1. ASSUME UNCHANGED <<link_pc, events, signalled>>
      PROVE  UNCHANGED <<Pending, Busy>>
  BY <1>1 DEF Pending, Busy, Vectors, event_fd
<1>2. ASSUME UNCHANGED <<pc, use, stopped>> PROVE UNCHANGED Open
  BY <1>2 DEF Open, Ended
<1>3. CASE (Start \/ SetIrqHandler) /\ UNCHANGED <<vars, posted, io>>
  <2>1. CASE Start
    <3>1. Busy' = event_fd
      BY <2>1 DEF Start, Busy, event_fd
    <3>2. UNCHANGED <<Pending, Open>>
      BY <1>3, <2>1 DEF Start, Pending, Vectors, Open, Ended
    <3> QED
      BY <3>1, <3>2, ReturnStep
  <2>2. CASE SetIrqHandler
    <3>1. UNCHANGED <<link_pc, events, signalled, pc, use, stopped>>
      BY <1>3, <2>2 DEF SetIrqHandler
    <3> QED
      BY <3>1, <1>1, QuietStep DEF Ended
  <2> QED
    BY <1>3, <2>1, <2>2
<1>4. CASE ~Ended /\ Host /\ UNCHANGED linkVars
  <2>1. UNCHANGED <<link_pc, events, signalled, stopped>>
    BY <1>4
  <2> QED
    BY <2>1, <1>1, <1>4, QuietStep
<1>5. CASE pc = "done" /\ Stop /\ UNCHANGED <<vars, posted, io>>
  <2>1. CASE StopFlag \/ StopJoin
    <3>1. UNCHANGED <<link_pc, events, signalled, pc>>
      BY <1>5, <2>1 DEF StopFlag, StopJoin
    <3>2. (stopped => stopped') /\ (Ended => Ended')
      BY <1>5, <2>1, <3>1 DEF StopFlag, StopJoin, Ended
    <3> QED
      BY <3>1, <3>2, <1>1, QuietStep
  <2>2. CASE StopWake
    <3>1. UNCHANGED Open
      BY <1>5, <2>2 DEF StopWake, Open, Ended
    <3> QED
      BY <2>2, <3>1, WriteStep DEF StopWake
  <2> QED
    BY <1>5, <2>1, <2>2 DEF Stop
<1>6. CASE Device \/ UNCHANGED hostVars
  <2>1. UNCHANGED <<link_pc, events, signalled, pc, use, stopped>>
    BY <1>6 DEF Device, DevSwitches, DevEnables, DevDisables, DevFails, hostVars
  <2> QED
    BY <2>1, <1>1, QuietStep DEF Ended
<1>7. ASSUME NEW q, Post(q) PROVE [Lines!Next]_<<Pending, Busy, Open>>
  <2>1. UNCHANGED <<link_pc, events, pc, use, stopped>>
    BY <1>7 DEF Post
  <2>2. CASE Write(q)
    BY <2>1, <2>2, <1>2, WriteStep
  <2>3. CASE UNCHANGED fdVars
    BY <2>1, <2>3, <1>1, QuietStep DEF Ended
  <2> QED
    BY <1>7, <2>2, <2>3 DEF Post, Signal
<1>8. CASE Recv /\ UNCHANGED <<vars, posted, io>>
  <2>1. UNCHANGED Open
    BY <1>8, <1>2 DEF Recv, TestStopped, EpollWait, CheckStopped, SkipEvent,
                      ReadEvent, HandlerReturns
  <2>2. CASE TestStopped \/ EpollWait \/ CheckStopped \/ SkipEvent \/ HandlerReturns
    <3>1. link_pc' \notin {"call", "return"} /\ UNCHANGED signalled
      BY <2>2 DEF TestStopped, EpollWait, CheckStopped, SkipEvent, HandlerReturns
    <3>2. Busy' = event_fd /\ UNCHANGED Pending
      BY <3>1 DEF Busy, event_fd, Pending, Vectors
    <3> QED
      BY <2>1, <3>2, ReturnStep
  <2>3. CASE ReadEvent
    <3>1. Lines!Take(Head(events)) /\ Head(events) \in Vectors
      BY <2>1, <2>3 DEF ReadEvent, Lines!Take, Busy, event_fd, Pending, Vectors
    <3> QED
      BY <3>1 DEF Lines!Next
  <2> QED
    BY <1>8, <2>2, <2>3 DEF Recv
<1>9. ASSUME NEW v \in Vectors, NvmeIrq(v)
      PROVE  [Lines!Next]_<<Pending, Busy, Open>>
  <2>1. UNCHANGED <<signalled, pc, use, stopped>>
    BY <1>9 DEF NvmeIrq, CallHandler, DevAnswersAny, DevAnswers
  <2>2. UNCHANGED <<Pending, Open>>
    BY <2>1, <1>2 DEF Pending, Vectors
  <2>3. CASE irq_handler
    <3>1. UNCHANGED Busy
      BY <1>9, <2>3 DEF NvmeIrq, CallHandler, Busy, event_fd
    <3> QED
      BY <2>2, <3>1
  <2>4. CASE ~irq_handler
    <3>1. Busy' = event_fd
      BY <1>9, <2>4 DEF NvmeIrq, CallHandler, Busy, event_fd
    <3> QED
      BY <2>2, <3>1, ReturnStep
  <2> QED
    BY <2>3, <2>4
<1>10. ASSUME NEW t \in IoQueues, NEW r \in Requests(Flows[t]), Submit(t, r)
       PROVE  [Lines!Next]_<<Pending, Busy, Open>>
  <2>1. UNCHANGED <<link_pc, events, signalled, pc, use, stopped>>
    BY <1>10 DEF Submit
  <2> QED
    BY <2>1, <1>1, QuietStep DEF Ended
<1>11. ASSUME ~Ended, NEW t \in IoQueues, SubmitAborts(t) \/ ThreadEnds(t)
       PROVE  [Lines!Next]_<<Pending, Busy, Open>>
  <2>1. UNCHANGED <<link_pc, events, signalled, stopped>>
    BY <1>11 DEF SubmitAborts, ThreadEnds
  <2> QED
    BY <2>1, <1>1, <1>11, QuietStep
<1> QED
  BY <1>3, <1>4, <1>5, <1>6, <1>7, <1>8, <1>9, <1>10, <1>11
     DEF HostNext, Host, Receive, PostAdmin, PostIo

\* Whatever the device raises, however many vectors there are and wherever main
\* is: interrupts are handled one at a time and none is lost (recv_thread of
\* pcie_link_vfio.cpp implements IrqLines; that none waits for ever needs
\* fairness and is ImplementsIrqLines).
THEOREM LinkKeepsIrqLines == HostSpec => Lines!Spec
<1>1. HostInit => Lines!Init
  BY DEF HostInit, Init, LinkInit, Lines!Init, Pending, Busy, Open, Ended
<1> QED
  BY <1>1, LinesStep, PTL DEF HostSpec, Lines!Spec, Lines!vars

-----------------------------------------------------------------------------
(* What the threads ask for lies within the device. *)

\* ConfigReader takes the pages of a block for the bytes of a page: right, or
\* less than there is, only if no block has more pages.
FlashHypothesis ==
  /\ Flash \in [dies : Nat, planes : Nat, blocks : Nat, pages : Nat,
                page_capacity : Nat]
  /\ Flash.pages <= Flash.page_capacity
  /\ U32 \in Nat \ {0}
  /\ \A n \in DOMAIN Namespaces :
       Namespaces[n].channels \in Nat /\ Namespaces[n].chips \in Nat

\* workload.yaml's flows, and those of the defaults: requests of at least a block
\* whose blocks a 16-bit length can count, aligned to their size or more, or else
\* of less than two blocks, in a namespace of a whole number of alignments.
Sectors(f) == f.size \in Nat /\ f.size \div 8 > 0 /\ f.size \div 8 <= 65536
Aligned(f) == /\ f.alignment \in Nat
              /\ f.alignment >= f.size \/ (f.alignment = 0 /\ f.size < 16)
Grain(f)   == IF f.alignment = 0 THEN 8 ELSE f.alignment

FlowsHypothesis ==
  \A t \in IoQueues :
    /\ Sectors(Flows[t]) /\ Aligned(Flows[t])
    /\ Flows[t].nsid \in DOMAIN Namespaces
         => NsCapacitySects[Flows[t].nsid] % Grain(Flows[t]) = 0

LEMMA Division ==
  ASSUME NEW p \in Nat, p > 0, NEW a \in Nat
  PROVE  \E q, r \in Nat : /\ q = a \div p /\ r = a % p
                           /\ r < p /\ a = q * p + r
<1>1. a \div p \in Nat /\ a % p \in Nat /\ a % p < p
  OBVIOUS
<1>2. ASSUME NEW q \in Int, q = a \div p PROVE a % p = a - p * q
  BY <1>2
<1>3. PICK q \in Nat, r \in Nat : q = a \div p /\ r = a % p
  BY <1>1
<1>4. r < p /\ r = a - p * q
  BY <1>1, <1>2, <1>3
<1>5. a = q * p + r
  BY <1>4
<1> QED
  BY <1>3, <1>4, <1>5

LEMMA Product == ASSUME NEW a \in Nat, NEW b \in Nat PROVE a * b \in Nat
  OBVIOUS

LEMMA Monotonic ==
  ASSUME NEW a \in Nat, NEW b \in Nat, NEW c \in Nat, a <= b
  PROVE  a * c <= b * c
  OBVIOUS

\* The sectors the threads are given are there.
LEMMA CapacityFits ==
  ASSUME FlashHypothesis, NEW n \in DOMAIN Namespaces
  PROVE  /\ NsCapacitySects[n] \in Nat /\ DeviceBytes(n) \in Nat
         /\ NsCapacitySects[n] * 512 <= DeviceBytes(n)
<1>1. PICK g \in Nat, u \in Nat, k \in Nat, x \in Nat, z \in Nat :
        /\ g = Flash.pages /\ u = Flash.page_capacity /\ g <= u
        /\ x = Flash.dies * Flash.planes * Flash.blocks * Flash.pages
        /\ k = Namespaces[n].channels /\ z = Namespaces[n].chips
  <2>1. /\ Flash.dies \in Nat /\ Flash.planes \in Nat /\ Flash.blocks \in Nat
        /\ Flash.pages \in Nat /\ Flash.page_capacity \in Nat
        /\ Flash.pages <= Flash.page_capacity
        /\ Namespaces[n].channels \in Nat /\ Namespaces[n].chips \in Nat
    BY DEF FlashHypothesis
  <2>2. Flash.dies * Flash.planes * Flash.blocks * Flash.pages \in Nat
    BY <2>1, Product
  <2> QED
    BY <2>1, <2>2
<1>2. PICK c \in Nat, d \in Nat : c = x * g /\ d = x * u /\ c <= d
  BY <1>1
<1>3. PICK w \in Nat : w = c % U32 /\ w <= c
  <2>1. U32 \in Nat /\ U32 > 0
    BY DEF FlashHypothesis
  <2>2. PICK q \in Nat, r \in Nat : r = c % U32 /\ c = q * U32 + r
    BY <2>1, Division
  <2>3. q * U32 \in Nat
    BY <2>1, Product
  <2> QED
    BY <2>2, <2>3
<1>4. PICK y \in Nat : y = w \div 512 /\ y * 512 <= w
  <2>1. PICK q \in Nat, r \in Nat : q = w \div 512 /\ w = q * 512 + r
    BY Division
  <2> QED
    BY <2>1
<1>5. y = ChipCapacitySects
  BY <1>1, <1>2, <1>3, <1>4 DEF ChipCapacitySects, SectorSize
<1>6. NsCapacitySects[n] = y * k * z
  BY <1>1, <1>5 DEF NsCapacitySects
<1>7. DeviceBytes(n) = d * k * z
  BY <1>1, <1>2 DEF DeviceBytes
<1>8. y * 512 <= d
  BY <1>2, <1>3, <1>4
<1>9. PICK s \in Nat : s = y * 512
  OBVIOUS
<1>10. s * k \in Nat /\ d * k \in Nat /\ s * k <= d * k
  BY <1>8, <1>9, Monotonic, Product
<1>11. (s * k) * z <= (d * k) * z
  BY <1>10, Monotonic
<1>12. y * k * z \in Nat /\ d * k * z \in Nat
       /\ y * k * z * 512 = (s * k) * z
  BY <1>9, Product
<1> QED
  BY <1>6, <1>7, <1>11, <1>12

\* Where generate_request starts, by the position drawn.
StartOf(f, p) == IF f.alignment = 0 THEN p ELSE p - (p % f.alignment)

\* The request of the position p starts b blocks and r sectors into the
\* namespace and has m blocks and v sectors.
Placed(f, p, m, v, b, r) ==
  /\ m > 0 /\ m <= 65536 /\ f.size = 8 * m + v /\ v < 8 /\ f.size \div 8 = m
  /\ r < 8 /\ StartOf(f, p) = 8 * b + r
  /\ 8 * (b + m) <= NsCapacitySects[f.nsid]

\* A request starts at a multiple of its alignment, with its blocks inside.
LEMMA RequestPlace ==
  ASSUME NEW f, Sectors(f), Aligned(f), NEW p \in Positions(f),
         NsCapacitySects[f.nsid] \in Nat, NsCapacitySects[f.nsid] % Grain(f) = 0
  PROVE  \E m, v, b, r \in Nat : Placed(f, p, m, v, b, r)
<1>1. PICK s \in Nat, cap \in Nat, g \in Nat :
        /\ s = f.size /\ cap = NsCapacitySects[f.nsid] /\ g = Grain(f) /\ g > 0
  BY DEF Sectors, Aligned, Grain
<1>2. p \in Nat /\ p < cap /\ cap % g = 0 /\ g > 0
  BY <1>1 DEF Positions
<1>3. PICK m \in Nat, v \in Nat : /\ s = m * 8 + v /\ v < 8 /\ m = s \div 8
                                  /\ m > 0 /\ m <= 65536
  <2>1. PICK j \in Nat, i \in Nat : j = s \div 8 /\ i = s % 8 /\ i < 8 /\ s = j * 8 + i
    BY Division
  <2>2. s \div 8 > 0 /\ s \div 8 <= 65536
    BY <1>1 DEF Sectors
  <2> QED
    BY <2>1, <2>2
<1>4. PICK j \in Nat : cap = j * g
  <2>1. PICK l \in Nat, i \in Nat : i = cap % g /\ cap = l * g + i
    BY <1>2, Division
  <2>2. i = 0
    BY <1>2, <2>1
  <2>3. PICK z \in Nat : z = l * g
    BY Product
  <2>4. cap = z + i
    BY <2>1, <2>3
  <2>5. cap = z
    BY <2>2, <2>4
  <2> QED
    BY <2>3, <2>5
<1>5. PICK k \in Nat, i \in Nat : k = p \div g /\ i = p % g /\ i < g /\ p = k * g + i
  BY <1>2, Division
<1>6. PICK e \in Nat : e = k * g /\ e + g <= cap
  <2>1. k < j
    <3>1. SUFFICES ASSUME j <= k PROVE FALSE
      OBVIOUS
    <3>2. j * g <= k * g
      BY <3>1, Monotonic
    <3>3. k * g \in Nat /\ j * g \in Nat
      BY Product
    <3> QED
      BY <1>2, <1>4, <1>5, <3>2, <3>3
  <2>2. (k + 1) * g <= j * g
    BY <2>1, Monotonic
  <2>3. k * g \in Nat /\ (k + 1) * g = k * g + g
    BY Product
  <2> QED
    BY <1>4, <2>2, <2>3
<1>7. CASE f.alignment # 0
  <2>1. g = f.alignment /\ s <= g
    BY <1>1, <1>7 DEF Aligned, Grain
  <2>2. StartOf(f, p) = p - i
    BY <1>5, <1>7, <2>1 DEF StartOf
  <2>3. StartOf(f, p) = e
    BY <1>2, <1>5, <1>6, <2>2
  <2>4. PICK b \in Nat, r \in Nat : b = e \div 8 /\ r < 8 /\ e = b * 8 + r
    BY Division
  <2>5. 8 * (b + m) <= cap
    <3>1. s = m * 8 + v /\ e + g <= cap /\ s <= g /\ e = b * 8 + r
      BY <1>3, <1>6, <2>1, <2>4
    <3>2. 8 * (b + m) <= e + s
      BY <3>1
    <3> QED
      BY <3>1, <3>2
  <2>6. Placed(f, p, m, v, b, r)
    BY <1>1, <1>3, <2>3, <2>4, <2>5 DEF Placed
  <2> QED
    BY <2>6
<1>8. CASE f.alignment = 0
  <2>1. g = 8 /\ s < 16
    BY <1>1, <1>8 DEF Aligned, Grain
  <2>2. m = 1
    BY <1>3, <2>1
  <2>3. StartOf(f, p) = 8 * k + i /\ i < 8
    BY <1>5, <1>8, <2>1 DEF StartOf
  <2>4. 8 * (k + m) <= cap
    BY <1>6, <2>1, <2>2
  <2>5. Placed(f, p, m, v, k, i)
    BY <1>1, <1>3, <2>3, <2>4 DEF Placed
  <2> QED
    BY <2>5
<1> QED
  BY <1>7, <1>8

\* The command of such a request: its blocks, all inside.
LEMMA CommandInside ==
  ASSUME FlashHypothesis, NEW f, Sectors(f), Aligned(f),
         f.nsid \in DOMAIN Namespaces, NsCapacitySects[f.nsid] % Grain(f) = 0,
         NEW request \in Requests(f)
  PROVE  LET c   == RwCommand(request)
             end == (c.slba + c.length + 1) * 4096 IN
         /\ end <= NsCapacitySects[f.nsid] * SectorSize
         /\ end <= DeviceBytes(f.nsid)
         /\ c.length + 1 = f.size \div 8
<1>1. PICK cap \in Nat : cap = NsCapacitySects[f.nsid]
                         /\ cap * 512 <= DeviceBytes(f.nsid)
  BY CapacityFits
<1>2. PICK p \in Positions(f) :
        request = [pos |-> 512 * StartOf(f, p), size |-> 512 * f.size]
  BY DEF Requests, SectorSize, StartOf
<1>3. PICK m \in Nat, v \in Nat, b \in Nat, r \in Nat : Placed(f, p, m, v, b, r)
  BY <1>1, RequestPlace
<1>4. /\ m > 0 /\ m <= 65536 /\ f.size = 8 * m + v /\ v < 8 /\ r < 8
      /\ StartOf(f, p) = 8 * b + r /\ 8 * (b + m) <= cap /\ f.size \div 8 = m
  BY <1>1, <1>3 DEF Placed
<1>5. request.pos = 4096 * b + 512 * r /\ request.size = 4096 * m + 512 * v
  BY <1>2, <1>4
<1>6. request.pos \div 4096 = b
  <2>1. 512 * r < 4096 /\ request.pos \in Nat
    BY <1>4, <1>5
  <2> QED
    BY <1>5, <2>1
<1>7. (request.size \div 4096 - 1) % 65536 = m - 1
  <2>1. 512 * v < 4096 /\ request.size \in Nat
    BY <1>4, <1>5
  <2>2. request.size \div 4096 = m
    BY <1>5, <2>1
  <2>3. (m - 1) % 65536 = m - 1
    BY <1>4
  <2> QED
    BY <2>2, <2>3
<1>8. /\ (b + (m - 1) + 1) * 4096 <= DeviceBytes(f.nsid)
      /\ (b + (m - 1) + 1) * 4096 <= cap * 512
  <2>1. (b + (m - 1) + 1) * 4096 = 8 * (b + m) * 512
    OBVIOUS
  <2>2. 8 * (b + m) * 512 <= cap * 512
    BY <1>4
  <2>3. DeviceBytes(f.nsid) \in Nat
    BY CapacityFits
  <2> QED
    BY <1>1, <2>1, <2>2, <2>3
<1>9. m - 1 + 1 = m
  OBVIOUS
<1> QED
  BY <1>1, <1>4, <1>6, <1>7, <1>8, <1>9 DEF RwCommand, SectorSize

\* A thread's command is that of one of its flow's requests, and there are
\* threads only if every flow has a namespace.
Issued ==
  /\ io = [t \in IoQueues |-> io[t]]
  /\ \A t \in IoQueues : threads[t] # "new" => FlowsKnown
  /\ \A t \in IoQueues : io[t] # None =>
       FlowsKnown /\ \E r \in Requests(Flows[t]) : io[t] = RwCommand(r)

LEMMA IssuedKept == Issued /\ [HostNext]_hostVars => Issued'
<1> SUFFICES ASSUME Issued, [HostNext]_hostVars PROVE Issued'
  OBVIOUS
<1> USE DEF Issued, FlowsKnown
<1>1. ASSUME UNCHANGED <<threads, io>> PROVE Issued'
  BY <1>1
<1>2. ASSUME RunThreads, UNCHANGED io PROVE Issued'
  BY <1>2 DEF RunThreads
<1>3. CASE (Start \/ SetIrqHandler) /\ UNCHANGED <<vars, posted, io>>
  BY <1>1, <1>3 DEF vars
<1>4. CASE irq_handler /\ Main /\ UNCHANGED <<linkVars, posted, io>>
  BY <1>1, <1>2, <1>4 DEF Main, DisableController, WaitDisabled, WaitReady,
     SetupAdminQueue, WaitEnabled, InitAdminQueue, InitQueue, Identify, SetFeatures,
     CreateCq, CreateSq, SubmitAdmin, Identified, CqCreated, Answered, SetQueueCount,
     AllocateQueues, QueuesSetUp, SqCreated, JoinThreads, Shutdown
<1>5. CASE pc = "done" /\ Stop /\ UNCHANGED <<vars, posted, io>>
  BY <1>1, <1>5 DEF vars
<1>6. CASE Device
  BY <1>1, <1>6 DEF Device, DevSwitches, DevEnables, DevDisables, DevFails
<1>7. CASE PostAdmin
  BY <1>1, <1>7 DEF PostAdmin, Post, vars
<1>8. CASE Recv /\ UNCHANGED <<vars, posted, io>>
  BY <1>1, <1>8 DEF vars
<1>9. ASSUME NEW v \in Vectors, NvmeIrq(v) PROVE Issued'
  <2>1. UNCHANGED threads
    BY <1>9 DEF NvmeIrq, DevAnswersAny, DevAnswers, vars
  <2>2. UNCHANGED io \/ io' = [io EXCEPT ![v] = None]
    BY <1>9 DEF NvmeIrq
  <2>3. ASSUME io' = [io EXCEPT ![v] = None]
        PROVE  /\ \A t \in IoQueues : io'[t] = io[t] \/ io'[t] = None
               /\ io' = [t \in IoQueues |-> io'[t]]
    BY <2>3
  <2>4. CASE UNCHANGED io
    BY <1>1, <2>1, <2>4
  <2>5. CASE io' = [io EXCEPT ![v] = None]
    BY <2>1, <2>3, <2>5
  <2> QED
    BY <2>2, <2>4, <2>5
<1>10. ASSUME NEW t \in IoQueues, NEW r \in Requests(Flows[t]), Submit(t, r)
       PROVE  Issued'
  <2>1. UNCHANGED threads /\ FlowsKnown /\ io' = [io EXCEPT ![t] = RwCommand(r)]
    BY <1>10 DEF Submit, vars
  <2>2. /\ \A q \in IoQueues : q # t => io'[q] = io[q]
        /\ io'[t] = RwCommand(r)
        /\ io' = [q \in IoQueues |-> io'[q]]
    BY <2>1
  <2> QED
    BY <2>1, <2>2
<1>11. ASSUME NEW t \in IoQueues, SubmitAborts(t) PROVE Issued'
  BY <1>1, <1>11 DEF SubmitAborts
<1>12. ASSUME NEW t \in IoQueues, ThreadEnds(t) PROVE Issued'
  <2>1. UNCHANGED io /\ FlowsKnown
    BY <1>12 DEF ThreadEnds, ThreadDone
  <2> QED
    BY <2>1
<1>13. ASSUME NEW t \in IoQueues, PostIo(t) PROVE Issued'
  BY <1>1, <1>13 DEF PostIo, Post, vars
<1>14. CASE UNCHANGED hostVars
  BY <1>1, <1>14 DEF hostVars, vars
<1> QED
  BY <1>3, <1>4, <1>5, <1>6, <1>7, <1>8, <1>9, <1>10, <1>11, <1>12, <1>13, <1>14
     DEF HostNext, Host, Receive

\* Every command lies within the namespace, the one the host computes and the one
\* the device has, and moves the request's whole blocks (generate_request,
\* submit_rw_command), for every flash without more pages to a block than bytes
\* to a page, wrapped capacity or not, and for every flow of at least a block.
THEOREM CommandsAreInside ==
  FlashHypothesis /\ FlowsHypothesis => (HostSpec => []CommandsInside)
<1> SUFFICES ASSUME FlashHypothesis, FlowsHypothesis
             PROVE  HostSpec => []CommandsInside
  OBVIOUS
<1>1. HostInit => Issued
  BY DEF HostInit, Init, Issued
<1>2. ASSUME Issued PROVE CommandsInside
  <2>1. SUFFICES ASSUME NEW t \in IoQueues, io[t] # None
                 PROVE  LET end == (io[t].slba + io[t].length + 1) * 4096 IN
                        /\ end <= NsCapacitySects[Flows[t].nsid] * SectorSize
                        /\ end <= DeviceBytes(Flows[t].nsid)
                        /\ io[t].length + 1 = Flows[t].size \div 8
    BY DEF CommandsInside
  <2>2. PICK r \in Requests(Flows[t]) : io[t] = RwCommand(r)
    BY <1>2, <2>1 DEF Issued
  <2>3. Flows[t].nsid \in DOMAIN Namespaces
    BY <1>2, <2>1 DEF Issued, FlowsKnown, IoQueues, NCpus
  <2>4. /\ Sectors(Flows[t]) /\ Aligned(Flows[t])
        /\ NsCapacitySects[Flows[t].nsid] % Grain(Flows[t]) = 0
    BY <2>1, <2>3 DEF FlowsHypothesis
  <2> QED
    BY <2>2, <2>3, <2>4, CommandInside
<1> QED
  BY <1>1, <1>2, IssuedKept, PTL DEF HostSpec

-----------------------------------------------------------------------------
(* What epoll_wait reports. *)

Fds == 0 .. NrVectors

NoTwice(s) == \A i, j \in 1 .. Len(s) : s[i] = s[j] => i = j

\* The order that Induction goes by.
LEMMA Below ==
  ASSUME NEW m \in Nat, NEW n \in Nat
  PROVE  <<m, n>> \in OpToRel(<, Nat) <=> m < n
  BY DEF OpToRel

\* Induction up to k.
LEMMA Induction ==
  ASSUME NEW k \in Nat, NEW S, 0 \in S,
         \A n \in 0 .. k - 1 : n \in S => n + 1 \in S
  PROVE  0 .. k \subseteq S
<1>1. PICK R : R = OpToRel(<, Nat)
  OBVIOUS
<1>2. IsWellFoundedOn(R, Nat)
  BY <1>1, NatLessThanWellFounded
<1>3. PICK B : B = {n \in 0 .. k : n \notin S}
  OBVIOUS
<1>4. SUFFICES ASSUME B # {} PROVE FALSE
  BY <1>3
<1>5. B \subseteq Nat
  BY <1>3
<1>6. PICK m \in B : \A n \in B : ~(<<n, m>> \in R)
  BY <1>2, <1>4, <1>5, WFMin
<1>7. m \in 0 .. k /\ m \notin S /\ m # 0
  BY <1>3, <1>6
<1>8. m - 1 \in 0 .. k - 1 /\ m - 1 \in 0 .. k /\ (m - 1) + 1 = m /\ m - 1 < m
      /\ m - 1 \in Nat /\ m \in Nat
  BY <1>7
<1>9. m - 1 \notin S
  BY <1>7, <1>8
<1>10. m - 1 \in B
  BY <1>3, <1>8, <1>9
<1> QED
  BY <1>1, <1>6, <1>8, <1>10, Below

\* g[i] is what has a count among the first i descriptors of s.
Scan(s, counts, n, g) ==
  /\ DOMAIN g = 0 .. n
  /\ g[0] = << >>
  /\ \A i \in 1 .. n :
       g[i] = IF s[i] \in counts THEN Append(g[i - 1], s[i]) ELSE g[i - 1]

\* The same of all i at once, with the list so far taken from g.
Scanned(s, counts, n, g) ==
  [i \in 0 .. n |-> IF i = 0 THEN << >>
                    ELSE IF s[i] \in counts THEN Append(g[i - 1], s[i])
                                            ELSE g[i - 1]]

LEMMA ScanExists ==
  ASSUME NEW s, NEW counts, NEW k \in Nat
  PROVE  \E g : g = Scanned(s, counts, k, g)
<1> DEFINE S == {n \in 0 .. k : \E g : g = Scanned(s, counts, n, g)}
<1>1. 0 \in S
  <2>1. PICK g : g = [i \in 0 .. 0 |-> << >>]
    OBVIOUS
  <2>2. \A i \in 0 .. 0 : i = 0
    OBVIOUS
  <2>3. g = Scanned(s, counts, 0, g)
    BY <2>1, <2>2 DEF Scanned
  <2> QED
    BY <2>3
<1>2. ASSUME NEW n \in 0 .. k - 1, n \in S PROVE n + 1 \in S
  <2>1. PICK f : f = Scanned(s, counts, n, f)
    BY <1>2
  <2>2. PICK e : e = IF s[n + 1] \in counts THEN Append(f[n], s[n + 1]) ELSE f[n]
    OBVIOUS
  <2>3. PICK g : g = [i \in 0 .. n + 1 |-> IF i = n + 1 THEN e ELSE f[i]]
    OBVIOUS
  <2>4. ASSUME NEW i \in 0 .. n + 1 PROVE g[i] = Scanned(s, counts, n + 1, g)[i]
    <3>1. CASE i = n + 1
      <4>1. i # 0 /\ i - 1 = n /\ n \in 0 .. n + 1 /\ n # n + 1
        BY <3>1
      <4>2. g[i] = e /\ g[n] = f[n]
        BY <2>3, <3>1, <4>1
      <4> QED
        BY <2>2, <3>1, <4>1, <4>2 DEF Scanned
    <3>2. CASE i \in 0 .. n
      <4>1. g[i] = f[i] /\ i # n + 1
        BY <2>3, <3>2
      <4>2. i # 0 => /\ i - 1 \in 0 .. n + 1 /\ i - 1 # n + 1
                     /\ g[i - 1] = f[i - 1]
        BY <2>3, <3>2
      <4>3. f[i] = Scanned(s, counts, n, f)[i]
        BY <2>1
      <4> QED
        BY <3>2, <4>1, <4>2, <4>3 DEF Scanned
    <3> QED
      BY <3>1, <3>2
  <2>5. g = Scanned(s, counts, n + 1, g)
    <3>1. g = [i \in 0 .. n + 1 |-> g[i]]
      BY <2>3
    <3>2. Scanned(s, counts, n + 1, g)
            = [i \in 0 .. n + 1 |-> Scanned(s, counts, n + 1, g)[i]]
      BY DEF Scanned
    <3> QED
      BY <2>4, <3>1, <3>2
  <2> QED
    BY <2>5
<1>3. 0 .. k \subseteq S
  <2> HIDE DEF S
  <2> QED
    BY <1>1, <1>2, Induction
<1>4. k \in S
  BY <1>3
<1> QED
  BY <1>4

LEMMA ReadyScan ==
  ASSUME Len(rdlist) \in Nat
  PROVE  Scan(rdlist, signalled, Len(rdlist), Ready)
<1>1. PICK k \in Nat : k = Len(rdlist)
  OBVIOUS
<1>2. \E g : g = Scanned(rdlist, signalled, k, g)
  BY ScanExists
<1>3. Ready = CHOOSE g : g = Scanned(rdlist, signalled, k, g)
  BY <1>1 DEF Ready, Scanned
<1>4. PICK r : r = Ready /\ r = Scanned(rdlist, signalled, k, r)
  BY <1>2, <1>3
<1>6. DOMAIN r = 0 .. k /\ 0 \in 0 .. k /\ \A i \in 1 .. k : i \in 0 .. k /\ i # 0
  BY <1>4 DEF Scanned
<1>7. r[0] = << >>
  BY <1>4, <1>6 DEF Scanned
<1>8. ASSUME NEW i \in 1 .. k
      PROVE  r[i] = IF rdlist[i] \in signalled THEN Append(r[i - 1], rdlist[i])
                                               ELSE r[i - 1]
  BY <1>4, <1>6 DEF Scanned
<1>9. Scan(rdlist, signalled, k, r)
  BY <1>6, <1>7, <1>8 DEF Scan
<1> QED
  BY <1>1, <1>4, <1>9

\* r is what has a count among the first n descriptors of s, each once.
Found(s, counts, n, r) ==
  /\ r \in Seq(Fds) /\ NoTwice(r)
  /\ \A i \in 1 .. Len(r) : r[i] \in counts /\ \E j \in 1 .. n : s[j] = r[i]
  /\ \A j \in 1 .. n : s[j] \in counts => \E i \in 1 .. Len(r) : r[i] = s[j]

LEMMA FoundMore ==
  ASSUME NEW s \in Seq(Fds), NoTwice(s), NEW counts, NEW n \in Nat, n + 1 <= Len(s),
         NEW r, Found(s, counts, n, r),
         NEW t, t = IF s[n + 1] \in counts THEN Append(r, s[n + 1]) ELSE r
  PROVE  Found(s, counts, n + 1, t)
<1>1. Len(s) \in Nat /\ n + 1 \in 1 .. Len(s)
  BY LenProperties
<1>2. /\ \A j \in 1 .. n : j \in 1 .. n + 1 /\ j # n + 1 /\ j \in 1 .. Len(s)
      /\ \A j \in 1 .. n + 1 : j = n + 1 \/ j \in 1 .. n
      /\ n + 1 \in 1 .. n + 1
  BY <1>1
<1>3. CASE s[n + 1] \notin counts
  <2>1. \A i \in 1 .. Len(r) : \E j \in 1 .. n + 1 : s[j] = r[i]
    BY <1>2 DEF Found
  <2>2. \A j \in 1 .. n + 1 : s[j] \in counts => \E i \in 1 .. Len(r) : r[i] = s[j]
    BY <1>2, <1>3 DEF Found
  <2> QED
    BY <1>3, <2>1, <2>2 DEF Found
<1>4. CASE s[n + 1] \in counts
  <2>1. PICK x \in Fds : x = s[n + 1]
    BY <1>1, ElementOfSeq
  <2>2. r \in Seq(Fds) /\ t = Append(r, x)
    BY <1>4, <2>1 DEF Found
  <2>3. PICK m \in Nat : m = Len(r)
    BY <2>2, LenProperties
  <2>4. /\ t \in Seq(Fds) /\ Len(t) = m + 1 /\ t[m + 1] = x
        /\ \A i \in 1 .. m : t[i] = r[i]
    BY <2>2, <2>3, AppendProperties
  <2>5. /\ \A i \in 1 .. m + 1 : i = m + 1 \/ i \in 1 .. m
        /\ m + 1 \in 1 .. m + 1 /\ \A i \in 1 .. m : i \in 1 .. m + 1
    BY <2>3
  <2>6. ASSUME NEW i \in 1 .. m PROVE r[i] # x
    <3>1. PICK j \in 1 .. n : s[j] = r[i]
      BY <2>3 DEF Found
    <3> QED
      BY <1>1, <1>2, <2>1, <3>1 DEF NoTwice
  <2>7. NoTwice(t)
    <3>1. SUFFICES ASSUME NEW i \in 1 .. m + 1, NEW j \in 1 .. m + 1, t[i] = t[j]
                   PROVE  i = j
      BY <2>4 DEF NoTwice
    <3>2. CASE i = m + 1 \/ j = m + 1
      BY <2>4, <2>5, <2>6, <3>1, <3>2
    <3>3. CASE i \in 1 .. m /\ j \in 1 .. m
      BY <2>3, <2>4, <3>1, <3>3 DEF Found, NoTwice
    <3> QED
      BY <2>5, <3>2, <3>3
  <2>8. ASSUME NEW i \in 1 .. m + 1
        PROVE  t[i] \in counts /\ \E j \in 1 .. n + 1 : s[j] = t[i]
    BY <1>2, <1>4, <2>1, <2>3, <2>4, <2>5 DEF Found
  <2>9. ASSUME NEW j \in 1 .. n + 1, s[j] \in counts
        PROVE  \E i \in 1 .. m + 1 : t[i] = s[j]
    <3>1. CASE j = n + 1
      BY <2>1, <2>4, <2>5, <3>1
    <3>2. CASE j \in 1 .. n
      <4>1. PICK i \in 1 .. m : r[i] = s[j]
        BY <2>3, <2>9, <3>2 DEF Found
      <4> QED
        BY <2>4, <2>5, <4>1
    <3> QED
      BY <1>2, <3>1, <3>2
  <2> QED
    BY <2>4, <2>7, <2>8, <2>9 DEF Found
<1> QED
  BY <1>3, <1>4

LEMMA ReadyFound ==
  ASSUME rdlist \in Seq(Fds), NoTwice(rdlist)
  PROVE  \A n \in 0 .. Len(rdlist) : Found(rdlist, signalled, n, Ready[n])
<1>1. PICK k \in Nat : k = Len(rdlist)
  BY LenProperties
<1>2. PICK r : r = Ready /\ Scan(rdlist, signalled, k, r)
  BY <1>1, ReadyScan
<1> DEFINE S == {n \in 0 .. k : Found(rdlist, signalled, n, r[n])}
<1>3. 0 \in S
  <2>1. r[0] = << >> /\ << >> \in Seq(Fds) /\ Len(<< >>) = 0
    BY <1>2, EmptySeq DEF Scan
  <2>2. Found(rdlist, signalled, 0, << >>)
    BY <2>1 DEF Found, NoTwice
  <2> QED
    BY <2>1, <2>2
<1>4. ASSUME NEW n \in 0 .. k - 1, n \in S PROVE n + 1 \in S
  <2>1. n \in Nat /\ n + 1 \in 1 .. k /\ n + 1 \in 0 .. k /\ (n + 1) - 1 = n
        /\ n + 1 <= k
    BY <1>1
  <2>2. r[n + 1] = IF rdlist[n + 1] \in signalled THEN Append(r[n], rdlist[n + 1])
                                                 ELSE r[n]
    BY <1>2, <2>1 DEF Scan
  <2>3. Found(rdlist, signalled, n + 1, r[n + 1])
    BY <1>1, <1>4, <2>1, <2>2, FoundMore
  <2> QED
    BY <2>1, <2>3
<1>5. 0 .. k \subseteq S
  <2> HIDE DEF S
  <2> QED
    BY <1>3, <1>4, Induction
<1> QED
  BY <1>1, <1>2, <1>5

\* The list after that: what was not looked at, and what was reported.
LEMMA Requeued ==
  ASSUME rdlist \in Seq(Fds), NoTwice(rdlist), NEW n \in 1 .. Len(rdlist),
         NEW r, Found(rdlist, signalled, n, r),
         NEW t, t = SubSeq(rdlist, n + 1, Len(rdlist)) \o r
  PROVE  /\ t \in Seq(Fds) /\ NoTwice(t)
         /\ \A fd \in signalled : Contains(rdlist, fd) => Contains(t, fd)
<1>1. PICK k \in Nat : k = Len(rdlist)
  BY LenProperties
<1>2. PICK u : u = SubSeq(rdlist, n + 1, k)
  OBVIOUS
<1>3. PICK d \in Nat : d = k - n
  <2>1. k - n \in Nat
    BY <1>1
  <2> QED
    BY <2>1
<1>4. /\ u \in Seq(Fds) /\ Len(u) = d
      /\ \A i \in 1 .. d : u[i] = rdlist[n + i]
  <2>1. n + 1 \in 1 .. Len(rdlist) + 1 /\ k \in n .. Len(rdlist)
    BY <1>1
  <2>2. u \in Seq(Fds) /\ Len(u) = IF n + 1 <= k THEN k - (n + 1) + 1 ELSE 0
    BY <1>1, <1>2, <2>1, SubSeqProperties
  <2>3. \A i \in 1 .. k - (n + 1) + 1 : u[i] = rdlist[(n + 1) + i - 1]
    BY <1>1, <1>2, <2>1, SubSeqProperties
  <2>4. Len(u) = d
    BY <1>1, <1>3, <2>2
  <2>5. ASSUME NEW i \in 1 .. d PROVE u[i] = rdlist[n + i]
    <3>1. i \in 1 .. k - (n + 1) + 1 /\ (n + 1) + i - 1 = n + i
      BY <1>1, <1>3
    <3> QED
      BY <2>3, <3>1
  <2> QED
    BY <2>2, <2>4, <2>5
<1>5. PICK m \in Nat : m = Len(r) /\ r \in Seq(Fds)
  BY LenProperties DEF Found
<1>6. /\ t \in Seq(Fds) /\ Len(t) = d + m
      /\ \A i \in 1 .. d : t[i] = rdlist[n + i]
      /\ \A i \in 1 .. m : t[d + i] = r[i]
  <2>1. t = u \o r
    BY <1>1, <1>2
  <2>2. /\ u \o r \in Seq(Fds) /\ Len(u \o r) = Len(u) + Len(r)
        /\ \A i \in 1 .. Len(u) + Len(r) :
             (u \o r)[i] = IF i <= Len(u) THEN u[i] ELSE r[i - Len(u)]
    BY <1>4, <1>5, ConcatProperties
  <2>3. ASSUME NEW i \in 1 .. d PROVE t[i] = rdlist[n + i]
    <3>1. i \in 1 .. d + m /\ i <= d
      OBVIOUS
    <3> QED
      BY <1>4, <1>5, <2>1, <2>2, <3>1
  <2>4. ASSUME NEW i \in 1 .. m PROVE t[d + i] = r[i]
    <3>1. d + i \in 1 .. d + m /\ ~(d + i <= d) /\ (d + i) - d = i
      OBVIOUS
    <3> QED
      BY <1>4, <1>5, <2>1, <2>2, <3>1
  <2> QED
    BY <1>4, <1>5, <2>1, <2>2, <2>3, <2>4
<1>7. /\ \A i \in 1 .. d + m : i \in 1 .. d \/ \E j \in 1 .. m : i = d + j
      /\ \A i \in 1 .. d : i \in 1 .. d + m /\ n + i \in 1 .. k /\ n + i \notin 1 .. n
      /\ \A i \in 1 .. m : d + i \in 1 .. d + m
      /\ \A i \in 1 .. n : i \in 1 .. k
  <2>1. ASSUME NEW i \in 1 .. d + m, i \notin 1 .. d
        PROVE  i - d \in 1 .. m /\ i = d + (i - d)
    BY <2>1
  <2>2. \A i \in 1 .. d : i \in 1 .. d + m /\ n + i \in 1 .. k /\ n + i \notin 1 .. n
    BY <1>1, <1>3
  <2>3. (\A i \in 1 .. m : d + i \in 1 .. d + m) /\ (\A i \in 1 .. n : i \in 1 .. k)
    BY <1>1
  <2> QED
    BY <2>1, <2>2, <2>3
  \* What was reported was among the first n, and the others were not.
<1>8. ASSUME NEW i \in 1 .. d, NEW j \in 1 .. m PROVE rdlist[n + i] # r[j]
  <2>1. PICK l \in 1 .. n : rdlist[l] = r[j]
    BY <1>5 DEF Found
  <2> QED
    BY <1>1, <1>7, <2>1 DEF NoTwice
<1>9. ASSUME NEW i \in 1 .. d + m, NEW j \in 1 .. d + m, t[i] = t[j] PROVE i = j
  <2>1. CASE i \in 1 .. d /\ j \in 1 .. d
    <3>1. n + i \in 1 .. k /\ n + j \in 1 .. k /\ rdlist[n + i] = rdlist[n + j]
      BY <1>6, <1>7, <1>9, <2>1
    <3>2. n + i = n + j
      BY <1>1, <3>1 DEF NoTwice
    <3> QED
      BY <3>2
  <2>2. ASSUME NEW a \in 1 .. m, NEW b \in 1 .. m, i = d + a, j = d + b PROVE i = j
    <3>1. r[a] = r[b]
      BY <1>6, <1>9, <2>2
    <3>2. a = b
      BY <1>5, <3>1 DEF Found, NoTwice
    <3> QED
      BY <2>2, <3>2
  <2>3. ASSUME NEW x \in 1 .. d, NEW y \in 1 .. m PROVE t[x] # t[d + y]
    BY <1>6, <1>8
  <2>4. CASE i \in 1 .. d
    BY <1>7, <1>9, <2>1, <2>3, <2>4
  <2>5. CASE \E a \in 1 .. m : i = d + a
    <3>1. CASE j \in 1 .. d
      BY <1>9, <2>3, <2>5, <3>1
    <3>2. CASE \E b \in 1 .. m : j = d + b
      BY <2>2, <2>5, <3>2
    <3> QED
      BY <1>7, <3>1, <3>2
  <2> QED
    BY <1>7, <2>4, <2>5
<1>10. ASSUME NEW fd \in signalled, Contains(rdlist, fd) PROVE Contains(t, fd)
  <2>1. PICK i \in 1 .. k : rdlist[i] = fd
    BY <1>1, <1>10 DEF Contains
  <2>2. CASE i \in 1 .. n
    <3>1. PICK j \in 1 .. m : r[j] = fd
      BY <1>5, <2>1, <2>2 DEF Found
    <3> QED
      BY <1>6, <1>7, <3>1 DEF Contains
  <2>3. CASE i \notin 1 .. n
    <3>1. i - n \in 1 .. d /\ n + (i - n) = i
      BY <1>1, <1>3, <2>3
    <3>2. t[i - n] = fd
      BY <1>6, <2>1, <3>1
    <3> QED
      BY <1>6, <1>7, <3>1, <3>2 DEF Contains
  <2> QED
    BY <2>2, <2>3
<1> QED
  BY <1>6, <1>9, <1>10 DEF NoTwice

\* All of epoll_wait: it reports some descriptors once, each with a count, and
\* forgets none that has one.
LEMMA EpollReports ==
  ASSUME rdlist \in Seq(Fds), NoTwice(rdlist), EpollWait
  PROVE  /\ rdlist' \in Seq(Fds) /\ NoTwice(rdlist')
         /\ events' \in Seq(Fds) /\ NoTwice(events')
         /\ \A i \in 1 .. Len(events') : events'[i] \in signalled
         /\ \A fd \in signalled : Contains(rdlist, fd) => Contains(rdlist', fd)
<1>1. PICK n \in 1 .. Len(rdlist) :
        /\ events' = Ready[n]
        /\ rdlist' = SubSeq(rdlist, n + 1, Len(rdlist)) \o Ready[n]
  BY DEF EpollWait
<1>2. n \in 0 .. Len(rdlist)
  BY LenProperties
<1>3. PICK r : r = Ready[n] /\ Found(rdlist, signalled, n, r)
  BY <1>2, ReadyFound
<1>4. PICK t : t = SubSeq(rdlist, n + 1, Len(rdlist)) \o r
  OBVIOUS
<1>5. events' = r /\ rdlist' = t
  BY <1>1, <1>3, <1>4
<1>6. /\ t \in Seq(Fds) /\ NoTwice(t)
      /\ \A fd \in signalled : Contains(rdlist, fd) => Contains(t, fd)
  BY <1>3, <1>4, Requeued
<1>7. r \in Seq(Fds) /\ NoTwice(r) /\ \A i \in 1 .. Len(r) : r[i] \in signalled
  BY <1>3 DEF Found
<1> QED
  BY <1>5, <1>6, <1>7

-----------------------------------------------------------------------------
(* The driver's view of the device. *)

\* A queue that the driver counts as online was created at the device, both
\* halves of it, and is still there.
OnlineQueuesExist ==
  \A q \in 1 .. online_queues - 1 : q \in dev_cqs /\ q \in dev_sqs

Early == {"disable", "wait_off", "admin_queue", "wait_on", "init_admin"}

Opcodes == {"identify", "set_features", "create_cq", "create_sq"}

AdminCommands ==
  [opcode : Opcodes, qid : Int, status : {None, "ok", "error"}, grant : Nat]

\* The queue that is being created is the next, and what the device answered
\* is what it did.
Created ==
  /\ pc \in Early \cup Up \cup {"threw", "failed", "aborted"}
  /\ online_queues \in Nat
  /\ pc \in Early => online_queues = 0
  /\ pc \in {"identify", "features", "allocate"} => online_queues = 1
  /\ pc \in {"create_cq", "create_sq"} => next_q = online_queues
  /\ pc = "create_sq" => next_q \in dev_cqs
  /\ admin # None =>
       /\ admin \in AdminCommands
       /\ pc = "create_cq" => /\ admin.opcode = "create_cq" /\ admin.qid = next_q
                              /\ admin.status = "ok" => next_q \in dev_cqs
       /\ pc = "create_sq" => /\ admin.opcode = "create_sq" /\ admin.qid = next_q
                              /\ admin.status = "ok" => next_q \in dev_sqs
  /\ OnlineQueuesExist

LEMMA NewCommand ==
  ASSUME NEW opcode \in Opcodes, NEW qid \in Int,
         NEW a, a = [opcode |-> opcode, qid |-> qid, status |-> None, grant |-> 0]
  PROVE  a \in AdminCommands /\ a.opcode = opcode /\ a.qid = qid /\ a.status = None
  BY DEF AdminCommands

\* The device's answer to a command.
LEMMA Answer ==
  ASSUME admin \in AdminCommands, NEW status \in {"ok", "error"}, NEW grant \in Nat,
         NEW a, a = [admin EXCEPT !.status = status, !.grant = grant]
  PROVE  a \in AdminCommands /\ a.opcode = admin.opcode /\ a.qid = admin.qid
         /\ a.status = status
  BY DEF AdminCommands

LEMMA CreatedKept ==
  ASSUME HostInv, Created, [HostNext]_hostVars
  PROVE  Created'
<1>1. ASSUME UNCHANGED <<pc, driverVars, dev_cqs, dev_sqs, admin>> PROVE Created'
  BY <1>1 DEF driverVars, Created, OnlineQueuesExist
<1>2. ASSUME UNCHANGED vars PROVE Created'
  BY <1>1, <1>2 DEF vars, devVars
<1>3. CASE irq_handler /\ Main /\ UNCHANGED <<linkVars, posted, io>>
  <2> USE DEF driverVars, devVars, Created, OnlineQueuesExist, Early, Up, Goto
  <2>1. CASE DisableController
    BY <2>1 DEF DisableController
  <2>2. CASE WaitDisabled \/ WaitEnabled
    BY <2>2 DEF WaitDisabled, WaitEnabled, WaitReady
  <2>3. ASSUME NEW ok \in {TRUE, ~MayFail}, SetupAdminQueue(ok) PROVE Created'
    BY <2>3 DEF SetupAdminQueue
  <2>4. CASE InitAdminQueue
    BY <2>4 DEF InitAdminQueue, InitQueue, HostInv, AdminFirst
  <2>5. CASE Identify \/ SetFeatures
    <3>1. PICK opcode, a :
            /\ opcode \in Opcodes
            /\ a = [opcode |-> opcode, qid |-> 0, status |-> None, grant |-> 0]
            /\ pc \in {"identify", "features"} /\ admin' = a
            /\ UNCHANGED <<pc, driverVars, devVars>>
      <4>1. CASE Identify
        BY <4>1 DEF Identify, SubmitAdmin, Opcodes
      <4>2. CASE SetFeatures
        BY <4>2 DEF SetFeatures, SubmitAdmin, Opcodes
      <4> QED
        BY <2>5, <4>1, <4>2
    <3>2. a \in AdminCommands
      BY <3>1, NewCommand
    <3> QED
      BY <3>1, <3>2
  <2>6. CASE CreateCq
    <3>1. PICK opcode, a :
            /\ opcode = "create_cq"
            /\ a = [opcode |-> opcode, qid |-> next_q, status |-> None, grant |-> 0]
            /\ pc = "create_cq" /\ admin' = a /\ next_q \in Int
            /\ UNCHANGED <<pc, driverVars, devVars>>
      BY <2>6 DEF CreateCq, SubmitAdmin
    <3>2. opcode \in Opcodes
      BY <3>1 DEF Opcodes
    <3>3. /\ a \in AdminCommands /\ a.opcode = opcode /\ a.qid = next_q
          /\ a.status = None
      BY <3>1, <3>2, NewCommand
    <3>4. None # "ok"
      BY DriverStartAssumption
    <3> QED
      BY <3>1, <3>3, <3>4
  <2>7. CASE CreateSq
    <3>1. PICK opcode, a :
            /\ opcode = "create_sq"
            /\ a = [opcode |-> opcode, qid |-> next_q, status |-> None, grant |-> 0]
            /\ pc = "create_sq" /\ admin' = a /\ next_q \in Int
            /\ UNCHANGED <<pc, driverVars, devVars>>
      BY <2>7 DEF CreateSq, SubmitAdmin
    <3>2. opcode \in Opcodes
      BY <3>1 DEF Opcodes
    <3>3. /\ a \in AdminCommands /\ a.opcode = opcode /\ a.qid = next_q
          /\ a.status = None
      BY <3>1, <3>2, NewCommand
    <3>4. None # "ok"
      BY DriverStartAssumption
    <3> QED
      BY <3>1, <3>3, <3>4
  <2>8. CASE Identified \/ CqCreated
    BY <2>8 DEF Identified, CqCreated, Answered, Failed, AdminCommands
  <2>9. CASE SetQueueCount
    BY <2>9 DEF SetQueueCount, Answered
  <2>10. CASE AllocateQueues \/ QueuesSetUp
    BY <2>10 DEF AllocateQueues, QueuesSetUp, HostInv, AdminFirst
  <2>11. CASE SqCreated
    BY <2>11 DEF SqCreated, Answered, InitQueue, Failed, AdminCommands
  <2>12. CASE RunThreads \/ JoinThreads \/ Shutdown
    BY <2>12 DEF RunThreads, JoinThreads, Shutdown, HostInv, AdminFirst
  <2> QED
    BY <1>3, <2>1, <2>2, <2>3, <2>4, <2>5, <2>6, <2>7, <2>8, <2>9, <2>10, <2>11,
       <2>12 DEF Main
<1>4. CASE (Start \/ SetIrqHandler) /\ UNCHANGED <<vars, posted, io>>
  BY <1>2, <1>4
<1>5. CASE pc = "done" /\ Stop /\ UNCHANGED <<vars, posted, io>>
  BY <1>2, <1>5
<1>6. CASE ~Ended /\ Device
  <2>1. CASE DevEnables \/ DevFails
    BY <1>1, <2>1 DEF DevEnables, DevFails
  <2>2. CASE DevDisables
    <3>1. pc \in Early /\ admin = None
      BY <1>6, <2>2 DEF DevDisables, Ended, Created, HostInv, Restarted, AdminFirst,
         Up, Early
    <3>2. UNCHANGED <<pc, driverVars, admin>>
      BY <2>2 DEF DevDisables
    <3> QED
      BY <3>1, <3>2 DEF driverVars, Created, OnlineQueuesExist, Early
  <2> QED
    BY <1>6, <2>1, <2>2 DEF Device, DevSwitches
<1>7. CASE PostAdmin
  BY <1>2, <1>7 DEF PostAdmin, Post
<1>8. CASE Recv /\ UNCHANGED <<vars, posted, io>>
  BY <1>2, <1>8
<1>9. ASSUME NEW v \in Vectors, NvmeIrq(v) PROVE Created'
  <2>1. ASSUME NEW status \in {"ok", "error"}, NEW grant \in Nat,
               DevAnswers(status, grant)
        PROVE  Created'
    <3>1. admin \in AdminCommands /\ admin # None
      BY <2>1 DEF DevAnswers, Created
    <3>2. PICK a : a = [admin EXCEPT !.status = status, !.grant = grant]
      OBVIOUS
    <3>3. /\ a \in AdminCommands /\ a.opcode = admin.opcode
          /\ a.qid = admin.qid /\ a.status = status
      BY <3>1, <3>2, Answer
    <3>4. /\ UNCHANGED <<pc, driverVars>> /\ admin' = a
          /\ dev_cqs \subseteq dev_cqs' /\ dev_sqs \subseteq dev_sqs'
          /\ status = "ok" /\ admin.opcode = "create_cq" => admin.qid \in dev_cqs'
          /\ status = "ok" /\ admin.opcode = "create_sq" => admin.qid \in dev_sqs'
      BY <2>1, <3>2 DEF DevAnswers
    <3> QED
      BY <3>1, <3>3, <3>4 DEF driverVars, Created, OnlineQueuesExist
  <2> QED
    BY <1>2, <1>9, <2>1, DriverStartAssumption DEF NvmeIrq, DevAnswersAny
<1>10. ASSUME NEW t \in IoQueues, NEW r \in Requests(Flows[t]), Submit(t, r)
       PROVE  Created'
  BY <1>2, <1>10 DEF Submit
<1>11. ASSUME ~Ended, NEW t \in IoQueues, SubmitAborts(t) PROVE Created'
  BY <1>11 DEF SubmitAborts, driverVars, devVars, HostInv, AdminFirst, Before, Goto,
     Created, OnlineQueuesExist, Early, Up
<1>12. ASSUME NEW t \in IoQueues, ThreadEnds(t) PROVE Created'
  BY <1>1, <1>12 DEF ThreadEnds, ThreadDone, devVars
<1>13. ASSUME NEW t \in IoQueues, PostIo(t) PROVE Created'
  BY <1>2, <1>13 DEF PostIo, Post
<1>14. CASE UNCHANGED hostVars
  BY <1>2, <1>14 DEF hostVars
<1> QED
  BY <1>3, <1>4, <1>5, <1>6, <1>7, <1>8, <1>9, <1>10, <1>11, <1>12, <1>13, <1>14
     DEF HostNext, Host, Receive

-----------------------------------------------------------------------------
(* The threads end before the link is stopped. *)

\* The link is told to stop only when nothing is outstanding: no command whose
\* completion the receive thread would not hear of any more.
StopsIdle ==
  stopped => pc = "done" /\ admin = None /\ \A t \in IoQueues : io[t] = None

Draining ==
  /\ DOMAIN io = IoQueues
  /\ \A t \in IoQueues : io[t] # None => threads[t] = "io"
  /\ \A t \in IoQueues : threads[t] = "io" => pc \in {"join", "aborted"}
  /\ stopped => pc = "done"
  /\ link_pc = "ended" => stopped

LEMMA DrainingKept ==
  ASSUME HostInv, Created, Draining, [HostNext]_hostVars
  PROVE  Draining'
<1>1. ASSUME UNCHANGED <<pc, threads, io, stopped, link_pc>> PROVE Draining'
  BY <1>1 DEF Draining
<1>2. ASSUME UNCHANGED <<vars, linkVars, io>> PROVE Draining'
  BY <1>1, <1>2 DEF vars, linkVars, recvVars, userVars
<1>3. CASE irq_handler /\ Main /\ UNCHANGED <<linkVars, posted, io>>
  <2>1. UNCHANGED <<io, stopped, link_pc>> /\ ~(pc \in {"done", "aborted"})
    BY <1>3 DEF linkVars, recvVars, userVars, Main, DisableController, WaitDisabled,
       SetupAdminQueue, WaitEnabled, InitAdminQueue, Identify, SetFeatures, CreateCq,
       CreateSq, SubmitAdmin, Identified, SetQueueCount, CqCreated, SqCreated,
       Answered, AllocateQueues, QueuesSetUp, RunThreads, JoinThreads, Shutdown
  <2>2. CASE RunThreads
    <3>1. \A t \in IoQueues : threads[t] = "new"
      BY <2>2 DEF RunThreads, HostInv, AdminFirst, Before
    <3>2. (threads' = [t \in IoQueues |-> "io"] /\ pc' = "join") \/ UNCHANGED threads
      BY <2>2 DEF RunThreads, Goto
    <3> QED
      BY <2>1, <3>1, <3>2 DEF Draining
  <2>3. CASE JoinThreads
    <3>1. UNCHANGED threads /\ \A t \in IoQueues : threads[t] = "done"
      BY <2>3 DEF JoinThreads
    <3> QED
      BY <2>1, <3>1 DEF Draining
  <2>4. CASE UNCHANGED threads /\ pc # "join"
    <3>1. \A t \in IoQueues : threads[t] # "io"
      BY <2>1, <2>4 DEF Draining
    <3> QED
      BY <2>1, <2>4, <3>1 DEF Draining
  <2>5. RunThreads \/ JoinThreads \/ pc # "join"
    BY <1>3 DEF Main, DisableController, WaitDisabled,
       SetupAdminQueue, WaitEnabled, InitAdminQueue, Identify, SetFeatures, CreateCq,
       CreateSq, SubmitAdmin, Identified, SetQueueCount, CqCreated, SqCreated,
       Answered, AllocateQueues, QueuesSetUp, Shutdown
  <2>6. RunThreads \/ UNCHANGED threads
    BY <1>3 DEF Main, DisableController, WaitDisabled, WaitReady,
       SetupAdminQueue, WaitEnabled, InitAdminQueue, Identify, SetFeatures, CreateCq,
       CreateSq, SubmitAdmin, Identified, SetQueueCount, CqCreated, SqCreated,
       AllocateQueues, QueuesSetUp, JoinThreads, Shutdown
  <2> QED
    BY <2>2, <2>3, <2>4, <2>5, <2>6
<1>4. CASE (Start \/ SetIrqHandler) /\ UNCHANGED <<vars, posted, io>>
  BY <1>4 DEF Start, SetIrqHandler, vars, Draining, recvVars
<1>5. CASE pc = "done" /\ Stop /\ UNCHANGED <<vars, posted, io>>
  BY <1>5 DEF Stop, StopFlag, StopWake, StopJoin, vars, Draining, recvVars
<1>6. CASE Device
  BY <1>1, <1>6 DEF Device, DevSwitches, DevEnables, DevDisables, DevFails,
     linkVars, recvVars, userVars
<1>7. ASSUME NEW q, Post(q) PROVE Draining'
  BY <1>1, <1>7 DEF Post, vars, recvVars, userVars
<1>8. CASE Recv /\ UNCHANGED <<vars, posted, io>>
  <2>1. UNCHANGED <<pc, threads, io, stopped>>
    BY <1>8 DEF Recv, TestStopped, EpollWait, CheckStopped, SkipEvent, ReadEvent,
       HandlerReturns, vars, userVars
  <2>2. link_pc' = "ended" => stopped \/ link_pc = "ended"
    BY <1>8 DEF Recv, TestStopped, EpollWait, CheckStopped, SkipEvent, ReadEvent,
       HandlerReturns
  <2> QED
    BY <2>1, <2>2 DEF Draining
<1>9. ASSUME NEW v \in Vectors, NvmeIrq(v) PROVE Draining'
  <2>1. UNCHANGED <<pc, threads, stopped>> /\ (link_pc' = "ended" => stopped)
    BY <1>9 DEF NvmeIrq, CallHandler, DevAnswersAny, DevAnswers, vars, userVars
  <2>2. UNCHANGED io \/ io' = [io EXCEPT ![v] = None]
    BY <1>9 DEF NvmeIrq
  <2> QED
    BY <2>1, <2>2 DEF Draining
<1>10. ASSUME NEW t \in IoQueues, NEW r \in Requests(Flows[t]), Submit(t, r)
       PROVE  Draining'
  BY <1>10 DEF Submit, Draining, vars, linkVars, recvVars, userVars
<1>11. ASSUME ~Ended, NEW t \in IoQueues, SubmitAborts(t) PROVE Draining'
  <2>1. pc = "join" /\ ~stopped
    BY <1>11 DEF SubmitAborts, Ended, Draining
  <2> QED
    BY <1>11, <2>1 DEF SubmitAborts, Draining, Goto, linkVars, recvVars, userVars
<1>12. ASSUME NEW t \in IoQueues, ThreadEnds(t) PROVE Draining'
  BY <1>12 DEF ThreadEnds, ThreadDone, Draining, linkVars, recvVars, userVars
<1>13. CASE UNCHANGED hostVars
  BY <1>2, <1>13 DEF hostVars
<1> QED
  BY <1>3, <1>4, <1>5, <1>6, <1>7, <1>8, <1>9, <1>10, <1>11, <1>12, <1>13
     DEF HostNext, Host, Receive, PostAdmin, PostIo

-----------------------------------------------------------------------------
(* The receive thread and its descriptors. *)

\* The receive thread reads an eventfd only while it has a count: it does not
\* block there, deaf to the others and to the stop event.
ReadsNeverBlock ==
  link_pc = "events" /\ events # << >> /\ Head(events) \in Vectors
    => Head(events) \in signalled

\* Every count is heard of: epoll has its descriptor in the list.  What was
\* reported and not yet read still has its count.
Watched ==
  /\ rdlist \in Seq(Fds) /\ NoTwice(rdlist)
  /\ routed \in {{}, Vectors}
  /\ signalled \subseteq routed \cup {event_fd}
  /\ \A fd \in signalled : Contains(rdlist, fd)
  /\ events \in Seq(Fds) /\ NoTwice(events)
  /\ link_pc \in {"none", "wait"} => events = << >>
  /\ link_pc \in {"check", "events"} =>
       \A i \in 1 .. Len(events) : events[i] \in signalled
  /\ link_pc \in {"call", "return"} =>
       /\ events # << >> /\ events[1] \in routed
       /\ \A i \in 2 .. Len(events) : events[i] \in signalled
  /\ use = "new" => link_pc = "none" /\ ~irq_handler

\* A write to one of the link's eventfds.
LEMMA WriteKept ==
  ASSUME Watched, NEW fd \in routed \cup {event_fd}, Write(fd),
         UNCHANGED <<recvVars, routed, irq_handler>>, use' = use \/ use' # "new"
  PROVE  Watched'
<1>1. fd \in Fds
  BY LinkVfioAssumption DEF Watched, Vectors, event_fd, Fds
<1>2. /\ rdlist' \in Seq(Fds) /\ NoTwice(rdlist')
      /\ \A x \in signalled' : Contains(rdlist', x)
  <2>1. CASE Contains(rdlist, fd)
    BY <2>1 DEF Write, Watched
  <2>2. CASE ~Contains(rdlist, fd)
    <3>1. PICK t : t = Append(rdlist, fd) /\ rdlist' = t
      BY <2>2 DEF Write
    <3>2. PICK m \in Nat : m = Len(rdlist)
      BY LenProperties DEF Watched
    <3>3. /\ t \in Seq(Fds) /\ Len(t) = m + 1 /\ t[m + 1] = fd
          /\ \A i \in 1 .. m : t[i] = rdlist[i]
      BY <1>1, <3>1, <3>2, AppendProperties DEF Watched
    <3>4. /\ \A i \in 1 .. m + 1 : i = m + 1 \/ i \in 1 .. m
          /\ m + 1 \in 1 .. m + 1 /\ \A i \in 1 .. m : i \in 1 .. m + 1
      BY <3>2
    <3>5. \A i \in 1 .. m : rdlist[i] # fd
      BY <2>2, <3>2 DEF Contains
    <3>6. NoTwice(t)
      BY <3>2, <3>3, <3>4, <3>5 DEF NoTwice, Watched
    <3>7. ASSUME NEW x \in signalled \cup {fd} PROVE Contains(t, x)
      <4>1. CASE x = fd
        BY <3>3, <3>4, <4>1 DEF Contains
      <4>2. CASE x \in signalled
        BY <3>2, <3>3, <3>4, <4>2 DEF Contains, Watched
      <4> QED
        BY <4>1, <4>2
    <3> QED
      BY <3>1, <3>3, <3>6, <3>7 DEF Write
  <2> QED
    BY <2>1, <2>2
<1>3. signalled' = signalled \cup {fd}
  BY DEF Write
<1> QED
  BY <1>2, <1>3 DEF Watched, recvVars, Vectors, event_fd

\* The loop goes on to the next event.
LEMMA DoneKept ==
  ASSUME Watched, DoneEvent, link_pc' = "events", events # << >>,
         \A i \in 2 .. Len(events) : events[i] \in signalled,
         UNCHANGED <<fdVars, userVars>>, use # "new"
  PROVE  Watched'
<1>1. PICK t : t = Tail(events) /\ events' = t
  BY DEF DoneEvent
<1>2. PICK m \in Nat : m = Len(events) /\ events \in Seq(Fds)
  BY LenProperties DEF Watched
<1>3. /\ t \in Seq(Fds) /\ Len(t) = m - 1
      /\ \A i \in 1 .. m - 1 : t[i] = events[i + 1]
  BY <1>1, <1>2, HeadTailProperties
<1>4. \A i \in 1 .. m - 1 : i + 1 \in 2 .. m /\ i + 1 \in 1 .. m
  BY <1>2
<1>5. \A i \in 1 .. m - 1 : t[i] \in signalled
  BY <1>2, <1>3, <1>4
<1>6. NoTwice(t)
  <2>1. SUFFICES ASSUME NEW i \in 1 .. m - 1, NEW j \in 1 .. m - 1, t[i] = t[j]
                 PROVE  i = j
    BY <1>3 DEF NoTwice
  <2>2. i + 1 = j + 1
    BY <1>2, <1>3, <1>4, <2>1 DEF Watched, NoTwice
  <2> QED
    BY <2>2
<1> QED
  BY <1>1, <1>3, <1>5, <1>6 DEF Watched, fdVars, userVars, Vectors, event_fd

LEMMA WatchedKept ==
  ASSUME HostInv, Watched, [HostNext]_hostVars
  PROVE  Watched'
<1>1. ASSUME UNCHANGED linkVars PROVE Watched'
  BY <1>1 DEF Watched, linkVars, recvVars, fdVars, userVars, Vectors, event_fd
<1>2. events \in Seq(Fds) /\ Len(events) \in Nat
      /\ (events # << >> => Head(events) = events[1])
  BY LenProperties, HeadTailProperties DEF Watched
<1>3. CASE (Start \/ SetIrqHandler) /\ UNCHANGED <<vars, posted, io>>
  <2>1. CASE Start
    BY <2>1, EmptySeq DEF Start, Watched, fdVars, Vectors, event_fd
  <2>2. CASE SetIrqHandler
    BY <2>2 DEF SetIrqHandler, Watched, recvVars, fdVars, Vectors, event_fd
  <2> QED
    BY <1>3, <2>1, <2>2
<1>4. CASE pc = "done" /\ Stop /\ UNCHANGED <<vars, posted, io>>
  <2>1. CASE StopFlag \/ StopJoin
    BY <2>1 DEF StopFlag, StopJoin, Watched, recvVars, fdVars, Vectors, event_fd
  <2>2. CASE StopWake
    BY <2>2, WriteKept DEF StopWake
  <2> QED
    BY <1>4, <2>1, <2>2 DEF Stop
<1>5. ASSUME NEW q, Post(q) PROVE Watched'
  <2>1. CASE q \in routed
    BY <1>5, <2>1, WriteKept DEF Post, Signal, userVars
  <2>2. CASE q \notin routed
    BY <1>1, <1>5, <2>2 DEF Post, Signal, linkVars
  <2> QED
    BY <2>1, <2>2
<1>6. CASE Recv
  <2>1. CASE TestStopped \/ CheckStopped
    BY <2>1, EmptySeq DEF TestStopped, CheckStopped, Watched, fdVars, userVars, Vectors,
       event_fd
  <2>2. CASE EpollWait
    <3>1. /\ rdlist' \in Seq(Fds) /\ NoTwice(rdlist')
          /\ events' \in Seq(Fds) /\ NoTwice(events')
          /\ \A i \in 1 .. Len(events') : events'[i] \in signalled
          /\ \A fd \in signalled : Contains(rdlist', fd)
      BY <2>2, EpollReports DEF Watched
    <3>2. link_pc = "wait" /\ link_pc' = "check" /\ UNCHANGED <<signalled, userVars>>
      BY <2>2 DEF EpollWait
    <3> QED
      BY <3>1, <3>2 DEF Watched, userVars, Vectors, event_fd
  <2>3. CASE SkipEvent
    <3>1. \A i \in 2 .. Len(events) : events[i] \in signalled
      BY <1>2, <2>3 DEF SkipEvent, Watched
    <3>2. link_pc' = "events" /\ use # "new"
      BY <2>3 DEF SkipEvent, Watched
    <3> QED
      BY <2>3, <3>1, <3>2, DoneKept DEF SkipEvent
  <2>4. CASE HandlerReturns
    BY <2>4, DoneKept DEF HandlerReturns, Watched
  <2>5. CASE ReadEvent
    <3>1. \A i \in 2 .. Len(events) : events[i] \in signalled /\ events[i] # events[1]
      <4>1. ASSUME NEW i \in 2 .. Len(events)
            PROVE  i \in 1 .. Len(events) /\ 1 \in 1 .. Len(events) /\ i # 1
        BY <1>2
      <4> QED
        BY <2>5, <4>1 DEF ReadEvent, Watched, NoTwice
    <3>2. /\ link_pc' = "call" /\ events # << >> /\ Head(events) = events[1]
          /\ signalled' = signalled \ {events[1]} /\ link_pc = "events"
          /\ events[1] \in Vectors /\ events[1] \in signalled
          /\ UNCHANGED <<events, rdlist, userVars>>
      BY <1>2, <2>5 DEF ReadEvent
    <3>3. events[1] \in routed
      BY <3>2, LinkVfioAssumption DEF Watched, Vectors, event_fd
    <3> QED
      BY <3>1, <3>2, <3>3 DEF Watched, userVars, Vectors, event_fd
  <2> QED
    BY <1>6, <2>1, <2>2, <2>3, <2>4, <2>5 DEF Recv
<1>7. ASSUME NEW v \in Vectors, NvmeIrq(v) PROVE Watched'
  <2>1. irq_handler /\ link_pc = "call" /\ link_pc' = "return"
        /\ UNCHANGED <<events, fdVars, userVars>>
    BY <1>7 DEF NvmeIrq, CallHandler, HostInv, HandlerFirst
  <2> QED
    BY <2>1 DEF Watched, fdVars, userVars, Vectors, event_fd
<1>8. ASSUME NEW t \in IoQueues, NEW r \in Requests(Flows[t]), Submit(t, r)
      PROVE  Watched'
  BY <1>1, <1>8 DEF Submit
<1>9. CASE UNCHANGED hostVars
  BY <1>1, <1>9 DEF hostVars
<1> QED
  BY <1>1, <1>3, <1>4, <1>5, <1>6, <1>7, <1>8, <1>9
     DEF HostNext, Host, Receive, Device, PostAdmin, PostIo, SubmitAborts, ThreadEnds

-----------------------------------------------------------------------------
(* No completion is forgotten. *)

\* Whatever the device has posted belongs to a command that somebody waits for,
\* while the link is not stopped; and the receive thread will come by: the count
\* of its eventfd is there and known to epoll, or has been read by a handler
\* that has not looked at the queue yet.
NoCompletionForgotten ==
  \A q \in posted :
    /\ IF q = 0 THEN admin # None /\ admin.status = None ELSE io[q] # None
    /\ ~stopped
    /\ q \in routed =>
         \/ q \in signalled /\ Contains(rdlist, q)
         \/ link_pc = "call" /\ Head(events) = q

\* A device with fewer vectors than there are eventfds is never heard of: the
\* driver waits for its first command, and no thread runs.
DeafDriverWaits ==
  routed = {} => /\ pc \in Early \cup {"identify", "threw"}
                 /\ \A t \in IoQueues : threads[t] # "io"

Owed ==
  /\ 0 \in posted => admin # None /\ admin.status = None
  /\ \A q \in posted \ {0} : q \in IoQueues /\ io[q] # None
  /\ \A q \in posted \cap routed :
       q \in signalled \/ (link_pc = "call" /\ events[1] = q)
  /\ routed = {} => /\ pc \in Early \cup {"identify", "threw"}
                    /\ admin # None => admin.status = None

\* The device posts, for a command that is outstanding.
LEMMA PostKept ==
  ASSUME Owed, NEW q, Post(q),
         IF q = 0 THEN admin # None /\ admin.status = None
                  ELSE q \in IoQueues /\ io[q] # None
  PROVE  Owed'
<1>1. posted' = posted \cup {q} /\ UNCHANGED <<pc, admin, io, link_pc, events, routed>>
      /\ IoQueues' = IoQueues
  BY DEF Post, vars, recvVars, userVars, IoQueues, NCpus
<1>2. signalled \subseteq signalled' /\ (q \in routed => q \in signalled')
  BY DEF Post, Signal, Write, fdVars
<1>3. \A p \in posted' \cap routed' :
        p \in signalled' \/ (link_pc' = "call" /\ events'[1] = p)
  <2>1. link_pc' = link_pc /\ events'[1] = events[1] /\ routed' = routed
    BY <1>1
  <2>2. SUFFICES ASSUME NEW p \in posted \cup {q}, p \in routed
                 PROVE  p \in signalled' \/ (link_pc = "call" /\ events[1] = p)
    BY <1>1, <2>1
  <2>3. CASE p \in posted
    BY <1>2, <2>2, <2>3 DEF Owed
  <2>4. CASE p = q
    <3>1. q \in routed
      BY <2>2, <2>4
    <3> QED
      BY <1>2, <2>4, <3>1
  <2> QED
    BY <2>2, <2>3, <2>4
<1>4. 0 \in posted' => admin' # None /\ admin'.status = None
  BY <1>1 DEF Owed
<1>5. \A p \in posted' \ {0} : p \in IoQueues' /\ io'[p] # None
  BY <1>1 DEF Owed
<1>6. routed' = {} => /\ pc' \in Early \cup {"identify", "threw"}
                      /\ admin' # None => admin'.status = None
  BY <1>1 DEF Owed
<1> QED
  BY <1>3, <1>4, <1>5, <1>6 DEF Owed, Early

LEMMA OwedKept ==
  ASSUME HostInv, Created, Draining, Watched, Owed, [HostNext]_hostVars
  PROVE  Owed'
<1>1. ASSUME UNCHANGED <<pc, admin, linkVars, posted, io>> PROVE Owed'
  BY <1>1 DEF Owed, linkVars, recvVars, fdVars, userVars, IoQueues, NCpus
<1>2. events # << >> => Head(events) = events[1]
  BY HeadTailProperties DEF Watched
  \* Steps of the receive thread and of its user.
<1>3. ASSUME UNCHANGED <<pc, admin, routed, posted, io>>, signalled \subseteq signalled',
             link_pc = "call" => UNCHANGED <<link_pc, events>>
      PROVE  Owed'
  <2>1. \A q \in posted \cap routed :
          q \in signalled' \/ (link_pc' = "call" /\ events'[1] = q)
    <3>1. link_pc = "call" => (link_pc' = "call" /\ events'[1] = events[1])
      BY <1>3
    <3>2. ASSUME NEW q \in posted \cap routed
          PROVE  q \in signalled' \/ (link_pc' = "call" /\ events'[1] = q)
      <4>1. q \in signalled \/ (link_pc = "call" /\ events[1] = q)
        BY DEF Owed
      <4>2. CASE q \in signalled
        BY <1>3, <4>2
      <4> QED
        BY <3>1, <4>1, <4>2
    <3> QED
      BY <3>2
  <2> QED
    BY <1>3, <2>1 DEF Owed, Early, IoQueues, NCpus
<1>4. CASE irq_handler /\ Main /\ UNCHANGED <<linkVars, posted, io>>
  <2>1. UNCHANGED admin \/ admin = None \/ admin.status # None
    BY <1>4 DEF Main, DisableController, WaitDisabled, WaitReady,
       SetupAdminQueue, WaitEnabled, InitAdminQueue, Identify, SetFeatures, CreateCq,
       CreateSq, SubmitAdmin, Identified, SetQueueCount, CqCreated, SqCreated,
       Answered, AllocateQueues, QueuesSetUp, RunThreads, JoinThreads, Shutdown
  <2>2. ASSUME pc \in Early \cup {"identify", "threw"}, admin # None => admin.status = None
        PROVE  /\ pc' \in Early \cup {"identify", "threw"}
               /\ admin' # None => admin'.status = None
    BY <1>4, <2>2 DEF Main, DisableController, WaitDisabled, WaitReady,
       SetupAdminQueue, WaitEnabled, InitAdminQueue, Identify, SetFeatures, CreateCq,
       CreateSq, SubmitAdmin, Identified, SetQueueCount, CqCreated, SqCreated,
       Answered, AllocateQueues, QueuesSetUp, RunThreads, JoinThreads, Shutdown,
       Early, Goto
  <2>3. UNCHANGED <<link_pc, events, signalled, routed, posted, io, IoQueues>>
    BY <1>4 DEF linkVars, recvVars, fdVars, userVars, IoQueues, NCpus
  <2> QED
    BY <2>1, <2>2, <2>3 DEF Owed, Early
<1>5. CASE (Start \/ SetIrqHandler) /\ UNCHANGED <<vars, posted, io>>
  BY <1>3, <1>5 DEF Start, SetIrqHandler, vars, recvVars, fdVars, Watched
<1>6. CASE pc = "done" /\ Stop /\ UNCHANGED <<vars, posted, io>>
  BY <1>3, <1>6 DEF Stop, StopFlag, StopWake, StopJoin, Write, vars, recvVars, fdVars
<1>7. CASE Device
  BY <1>1, <1>7 DEF Device, DevSwitches, DevEnables, DevDisables, DevFails
<1>8. CASE PostAdmin
  BY <1>8, PostKept DEF PostAdmin
<1>9. ASSUME NEW t \in IoQueues, PostIo(t) PROVE Owed'
  <2>1. t # 0
    BY DEF IoQueues
  <2> QED
    BY <1>9, <2>1, PostKept DEF PostIo
<1>10. CASE Recv /\ UNCHANGED <<vars, posted, io>>
  <2>1. CASE ReadEvent
    <3>1. /\ link_pc = "events" /\ link_pc' = "call"
          /\ signalled' = signalled \ {events[1]} /\ UNCHANGED <<events, routed>>
      BY <1>2, <2>1 DEF ReadEvent, userVars
    <3>2. UNCHANGED <<pc, admin, posted, io, IoQueues>>
      BY <1>10 DEF vars, IoQueues, NCpus
    <3> QED
      BY <3>1, <3>2 DEF Owed, Early
  <2>2. CASE Recv /\ ~ReadEvent
    <3>1. link_pc # "call" /\ UNCHANGED <<signalled, routed>>
      BY <2>2 DEF Recv, TestStopped, EpollWait, CheckStopped, SkipEvent, HandlerReturns,
         fdVars, userVars
    <3> QED
      BY <1>3, <1>10, <3>1 DEF vars
  <2> QED
    BY <1>10, <2>1, <2>2
<1>11. ASSUME NEW v \in Vectors, NvmeIrq(v) PROVE Owed'
  <2>1. /\ link_pc = "call" /\ v = events[1] /\ events[1] \in routed
        /\ posted' = posted \ {v} /\ UNCHANGED <<events, signalled, routed, IoQueues>>
    BY <1>2, <1>11 DEF NvmeIrq, CallHandler, Watched, HostInv, HandlerFirst, fdVars,
       userVars, IoQueues, NCpus
  <2>2. \A q \in posted' \cap routed : q \in signalled'
    BY <2>1 DEF Owed
  <2>3. CASE v = 0 \/ v \notin posted
    <3>1. UNCHANGED io /\ (0 \in posted' => UNCHANGED admin)
      BY <1>11, <2>1, <2>3 DEF NvmeIrq, vars
    <3> QED
      BY <2>1, <2>2, <3>1 DEF Owed
  <2>4. CASE v # 0 /\ v \in posted
    <3>1. io' = [io EXCEPT ![v] = None] /\ UNCHANGED admin
      <4>1. irq_handler
        BY <2>1 DEF HostInv, HandlerFirst
      <4> QED
        BY <1>11, <2>4, <4>1 DEF NvmeIrq, vars
    <3>2. \A q \in IoQueues \ {v} : io'[q] = io[q]
      BY <3>1 DEF Draining
    <3> QED
      BY <2>1, <2>2, <3>1, <3>2 DEF Owed
  <2> QED
    BY <2>3, <2>4
<1>12. ASSUME NEW t \in IoQueues, NEW r \in Requests(Flows[t]), Submit(t, r)
       PROVE  Owed'
  <2>1. t # 0 /\ io[t] = None /\ io' = [io EXCEPT ![t] = RwCommand(r)]
        /\ UNCHANGED <<pc, admin, link_pc, events, signalled, routed, posted, IoQueues>>
    BY <1>12 DEF Submit, vars, linkVars, recvVars, fdVars, userVars, IoQueues, NCpus
  <2>2. t \notin posted
    BY <2>1 DEF Owed
  <2>3. \A q \in IoQueues \ {t} : io'[q] = io[q]
    BY <2>1 DEF Draining
  <2> QED
    BY <2>1, <2>2, <2>3 DEF Owed, Early
<1>13. ASSUME NEW t \in IoQueues, SubmitAborts(t) PROVE Owed'
  <2>1. pc \in {"join", "aborted"}
    BY <1>13 DEF SubmitAborts, Draining
  <2>2. routed # {}
    BY <2>1 DEF Owed, Early
  <2>3. UNCHANGED <<admin, link_pc, events, signalled, routed, posted, io, IoQueues>>
    BY <1>13 DEF SubmitAborts, linkVars, recvVars, fdVars, userVars, IoQueues, NCpus
  <2> QED
    BY <2>2, <2>3 DEF Owed
<1>14. ASSUME NEW t \in IoQueues, ThreadEnds(t) PROVE Owed'
  BY <1>1, <1>14 DEF ThreadEnds, ThreadDone
<1>15. CASE UNCHANGED hostVars
  BY <1>1, <1>15 DEF hostVars, vars
<1> QED
  BY <1>4, <1>5, <1>6, <1>7, <1>8, <1>9, <1>10, <1>11, <1>12, <1>13, <1>14, <1>15
     DEF HostNext, Host, Receive

-----------------------------------------------------------------------------
HeardInv == HostInv /\ Created /\ Draining /\ Watched /\ Owed

LEMMA HeardInit == HostInit => HeardInv
<1> SUFFICES ASSUME HostInit PROVE HeardInv
  OBVIOUS
<1>1. HostInv
  BY InitInv
<1>2. Created
  BY DEF HostInit, Init, Created, OnlineQueuesExist, Early, Up
<1>3. Draining
  BY DEF HostInit, Init, LinkInit, Draining
<1>4. Watched
  <2>1. << >> \in Seq(Fds) /\ Len(<< >>) = 0
    BY EmptySeq
  <2>2. /\ rdlist = << >> /\ events = << >> /\ signalled = {} /\ link_pc = "none"
        /\ routed \in {{}, Vectors} /\ irq_handler = FALSE
    BY DEF HostInit, LinkInit, Route
  <2> QED
    BY <2>1, <2>2 DEF Watched, NoTwice
<1>5. Owed
  BY DEF HostInit, Init, LinkInit, Owed, Early
<1> QED
  BY <1>1, <1>2, <1>3, <1>4, <1>5 DEF HeardInv

LEMMA HeardKept == HeardInv /\ [HostNext]_hostVars => HeardInv'
  BY StepInv, CreatedKept, DrainingKept, WatchedKept, OwedKept DEF HeardInv

LEMMA Heard == HostSpec => []HeardInv
  BY HeardInit, HeardKept, PTL DEF HostSpec

\* A queue the driver counts as online exists at the device, whatever the device
\* grants, refuses or fails (setup_io_queues, create_queue): what is submitted
\* there is executed.
THEOREM OnlineQueuesAreThere == HostSpec => []OnlineQueuesExist
<1>1. HeardInv => OnlineQueuesExist
  BY DEF HeardInv, Created
<1> QED
  BY <1>1, Heard, PTL

\* PCIeLink::stop is called only with nothing outstanding (main joins the threads
\* first): no completion comes when nobody receives any more.
THEOREM LinkStopsIdle == HostSpec => []StopsIdle
<1>1. HeardInv => StopsIdle
  BY DEF HeardInv, Draining, HostInv, AdminFirst, StopsIdle
<1> QED
  BY <1>1, Heard, PTL

\* recv_thread of pcie_link_vfio.cpp reads no eventfd without a count, however
\* many events it was given at once and whatever came in the meantime.
THEOREM EventReadsReturn == HostSpec => []ReadsNeverBlock
<1>1. HeardInv => ReadsNeverBlock
  <2>1. SUFFICES ASSUME HeardInv, link_pc = "events", events # << >>
                 PROVE  Head(events) \in signalled
    BY DEF ReadsNeverBlock
  <2>2. Watched
    BY <2>1 DEF HeardInv
  <2>3. 1 \in 1 .. Len(events) /\ Head(events) = events[1]
    BY <2>1, <2>2, EmptySeq, HeadTailProperties DEF Watched
  <2> QED
    BY <2>1, <2>2, <2>3 DEF Watched
<1> QED
  BY <1>1, Heard, PTL

\* Between the device's interrupt and nvme_irq no completion is lost: not in the
\* eventfds, not in epoll's list of which only Room are reported at a time, not
\* in the loop over them and not by a stop.
THEOREM CompletionsAreHeard == HostSpec => []NoCompletionForgotten
<1>1. HeardInv => NoCompletionForgotten
  <2>1. SUFFICES ASSUME HeardInv, NEW q \in posted
        PROVE  /\ IF q = 0 THEN admin # None /\ admin.status = None ELSE io[q] # None
               /\ ~stopped
               /\ q \in routed =>
                    \/ q \in signalled /\ Contains(rdlist, q)
                    \/ link_pc = "call" /\ Head(events) = q
    BY DEF NoCompletionForgotten
  <2>2. IF q = 0 THEN admin # None /\ admin.status = None
                 ELSE q \in IoQueues /\ io[q] # None
    BY <2>1 DEF HeardInv, Owed
  <2>3. ~stopped
    BY <2>1, <2>2 DEF HeardInv, Draining, HostInv, AdminFirst
  <2>4. link_pc = "call" => Head(events) = events[1]
    BY <2>1, HeadTailProperties DEF HeardInv, Watched
  <2>5. q \in routed => \/ q \in signalled /\ Contains(rdlist, q)
                        \/ link_pc = "call" /\ events[1] = q
    BY <2>1 DEF HeardInv, Owed, Watched
  <2> QED
    BY <2>2, <2>3, <2>4, <2>5
<1> QED
  BY <1>1, Heard, PTL

\* With too few vectors at every index PCIeLinkVfio::init gives the device no
\* eventfd and reports nothing; NVMeDriver::start then never gets beyond its
\* first command.
THEOREM DeafDriverNeverRuns == HostSpec => []DeafDriverWaits
<1>1. HeardInv => DeafDriverWaits
  <2>1. SUFFICES ASSUME HeardInv, routed = {} PROVE DeafDriverWaits
    BY DEF DeafDriverWaits
  <2>2. pc \in Early \cup {"identify", "threw"}
    BY <2>1 DEF HeardInv, Owed
  <2> QED
    BY <2>1, <2>2 DEF HeardInv, DeafDriverWaits, Early, Draining
<1> QED
  BY <1>1, Heard, PTL
=============================================================================

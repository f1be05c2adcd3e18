---------------------------- MODULE DriverStart -----------------------------
(***************************************************************************)
(* The life of the program around the I/O: NVMeDriver::reset               *)
(* (nvme_driver.cpp), which brings the controller and its queues up, the   *)
(* threads that main.cpp then starts on them, the report and the shutdown. *)
(*                                                                         *)
(* Main is one thread; what makes it hard is the device, which changes     *)
(* CSTS.RDY in its own time, may be running when the program starts, may   *)
(* fail a command or grant fewer queues than asked for.  Register accesses *)
(* reach the device in order.  An admin command is one round trip          *)
(* (SyncCommand).  HostVfio puts these steps, a link and the threads' I/O  *)
(* together.                                                               *)
(***************************************************************************)
EXTENDS Workload

CONSTANTS
  Grants,    \* the numbers of queues the device may grant
  MayFail,   \* TRUE: the device may fail admin commands or break down
  None

ASSUME DriverStartAssumption ==
  /\ Grants \subseteq Nat \ {0}
  /\ MayFail \in BOOLEAN
  /\ None \notin {"ok", "error"}

VARIABLES
  pc,             \* where main is
  queue_count,    \* queues allocated, the admin queue included
  online_queues,
  zeroed,         \* queues whose completion ring was cleared
  nr_io_queues,   \* what set_queue_count leaves
  next_q,         \* the loop counter of setup_io_queues
  threads,        \* state of each IOThread
  cc_en,          \* device: CC.EN
  csts,           \* device: "off", "ready" or "bad" (reads as all ones)
  aq_regs,        \* device: AQA, ASQ and ACQ are this driver's
  dev_aq,         \* device: admin queue in use: "none", "old" or "new"
  dev_cqs, dev_sqs,  \* device: the I/O queues created
  admin           \* the admin command in progress, or None

driverVars == <<queue_count, online_queues, zeroed, nr_io_queues, next_q>>
devVars    == <<cc_en, csts, aq_regs, dev_aq, dev_cqs, dev_sqs>>
vars       == <<pc, driverVars, threads, devVars, admin>>

\* main asks for one queue per flow.
NCpus == Len(Flows)
IoQueues == 1 .. NCpus
Smaller(a, b) == IF a < b THEN a ELSE b

\* The device may be running already, on queues of somebody else.
Init ==
  /\ pc = "disable"
  /\ queue_count = 0 /\ online_queues = 0 /\ zeroed = {}
  /\ nr_io_queues = NCpus /\ next_q = 0
  /\ threads = [t \in IoQueues |-> "new"]
  /\ cc_en \in BOOLEAN
  /\ csts = IF cc_en THEN "ready" ELSE "off"
  /\ dev_aq = IF cc_en THEN "old" ELSE "none"
  /\ aq_regs = FALSE
  /\ dev_cqs = {} /\ dev_sqs = {}
  /\ admin = None

-----------------------------------------------------------------------------
(* reset and setup_admin_queue. *)

Goto(l) == pc' = l

\* disable_controller writes CC with EN cleared.
DisableController ==
  /\ pc = "disable"
  /\ cc_en' = FALSE
  /\ Goto("wait_off")
  /\ UNCHANGED <<driverVars, threads, csts, aq_regs, dev_aq, dev_cqs, dev_sqs, admin>>

\* Variant: the controller is not waited for.
WaitReadyOnce(want, then) ==
  /\ Goto(IF csts = "bad" THEN "threw" ELSE then)
  /\ UNCHANGED <<driverVars, threads, devVars, admin>>

\* wait_ready: one reading of CSTS.
WaitReady(want, then) ==
  /\ \/ csts = "bad" /\ Goto("threw")
     \/ csts = want /\ Goto(then)
     \/ csts \notin {"bad", want} /\ UNCHANGED pc
  /\ UNCHANGED <<driverVars, threads, devVars, admin>>

WaitDisabled == pc = "wait_off" /\ WaitReady("off", "admin_queue")

\* allocate_queue(0), the admin queue registers, and the writing of CC with EN
\* set, unless the device wants larger pages.
SetupAdminQueue(page_size_ok) ==
  /\ pc = "admin_queue"
  /\ queue_count' = queue_count + 1
  /\ aq_regs' = TRUE
  /\ IF page_size_ok
     THEN cc_en' = TRUE /\ Goto("wait_on")
     ELSE Goto("threw") /\ UNCHANGED cc_en
  /\ UNCHANGED <<online_queues, zeroed, nr_io_queues, next_q, threads, csts,
                 dev_aq, dev_cqs, dev_sqs, admin>>

WaitEnabled == pc = "wait_on" /\ WaitReady("ready", "init_admin")

\* init_queue: indices, phase, and a cleared completion ring.
InitQueue(q) ==
  /\ zeroed' = zeroed \cup {q}
  /\ online_queues' = online_queues + 1

InitAdminQueue ==
  /\ pc = "init_admin"
  /\ InitQueue(0)
  /\ Goto("identify")
  /\ UNCHANGED <<queue_count, nr_io_queues, next_q, threads, devVars, admin>>

-----------------------------------------------------------------------------
(* Admin commands: submit_sync_command on queue 0. *)

SubmitAdmin(at, opcode, qid) ==
  /\ pc = at /\ admin = None
  /\ admin' = [opcode |-> opcode, qid |-> qid, status |-> None, grant |-> 0]
  /\ UNCHANGED <<pc, driverVars, threads, devVars>>

Answered(at) == pc = at /\ admin # None /\ admin.status # None

Failed == admin.status = "error"

\* identify_controller; nobody looks at its status.
Identify == SubmitAdmin("identify", "identify", 0)
Identified ==
  /\ Answered("identify")
  /\ admin' = None
  /\ Goto("features")
  /\ UNCHANGED <<driverVars, threads, devVars>>

\* set_queue_count and the check of its outcome: no queue is an error.
SetFeatures == SubmitAdmin("features", "set_features", 0)
SetQueueCount ==
  /\ Answered("features")
  /\ nr_io_queues' = IF Failed THEN 0 ELSE Smaller(nr_io_queues, admin.grant)
  /\ admin' = None
  /\ Goto(IF nr_io_queues' = 0 THEN "threw" ELSE "allocate")
  /\ UNCHANGED <<queue_count, online_queues, zeroed, next_q, threads, devVars>>

\* setup_io_queues: allocate all, then create from the first that is offline.
AllocateQueues ==
  /\ pc = "allocate"
  /\ queue_count' = nr_io_queues + 1
  /\ next_q' = online_queues
  /\ Goto("create_cq")
  /\ UNCHANGED <<online_queues, zeroed, nr_io_queues, threads, devVars, admin>>

MaxQs == Smaller(queue_count - 1, nr_io_queues)

CreateCq == next_q <= MaxQs /\ SubmitAdmin("create_cq", "create_cq", next_q)

\* An error ends the loop, and setup_io_queues returns as if all were well.
CqCreated ==
  /\ Answered("create_cq")
  /\ admin' = None
  /\ Goto(IF Failed THEN "run" ELSE "create_sq")
  /\ UNCHANGED <<driverVars, threads, devVars>>

CreateSq == SubmitAdmin("create_sq", "create_sq", next_q)

\* Variant: a queue that could not be created is taken for online.
SqCreatedAnyway ==
  /\ Answered("create_sq")
  /\ admin' = None
  /\ InitQueue(next_q)
  /\ next_q' = next_q + 1
  /\ Goto("create_cq")
  /\ UNCHANGED <<queue_count, nr_io_queues, threads, devVars>>

SqCreated ==
  /\ Answered("create_sq")
  /\ admin' = None
  /\ IF Failed
     THEN Goto("run") /\ UNCHANGED <<zeroed, online_queues, next_q>>
     ELSE /\ InitQueue(next_q)
          /\ next_q' = next_q + 1
          /\ Goto("create_cq")
  /\ UNCHANGED <<queue_count, nr_io_queues, threads, devVars>>

QueuesSetUp ==
  /\ pc = "create_cq" /\ admin = None /\ next_q > MaxQs
  /\ Goto("run")
  /\ UNCHANGED <<driverVars, threads, devVars, admin>>

-----------------------------------------------------------------------------
(* main: the threads, the report, the shutdown. *)

\* The loops that create the threads and run them; a flow of an unknown
\* namespace makes main return, with the link running.
RunThreads ==
  /\ pc = "run"
  /\ IF FlowsKnown
     THEN threads' = [t \in IoQueues |-> "io"] /\ Goto("join")
     ELSE Goto("failed") /\ UNCHANGED threads
  /\ UNCHANGED <<driverVars, devVars, admin>>

\* The last request of thread t completes, on the queue of the same number.
ThreadDone(t) ==
  /\ threads[t] = "io"
  /\ threads' = [threads EXCEPT ![t] = "done"]
  /\ UNCHANGED <<pc, driverVars, devVars, admin>>

\* join, get_stats, report and export_result.
JoinThreads ==
  /\ pc = "join" /\ \A t \in IoQueues : threads[t] = "done"
  /\ Goto("shutdown")
  /\ UNCHANGED <<driverVars, threads, devVars, admin>>

\* shutdown asks for it and does not wait.
Shutdown ==
  /\ pc = "shutdown"
  /\ Goto("done")
  /\ UNCHANGED <<driverVars, threads, devVars, admin>>

-----------------------------------------------------------------------------
(* The device. *)

DevEnables ==
  /\ cc_en /\ csts = "off"
  /\ csts' = "ready"
  /\ dev_aq' = IF aq_regs THEN "new" ELSE "old"
  /\ UNCHANGED <<pc, driverVars, threads, cc_en, aq_regs, dev_cqs,
                 dev_sqs, admin>>

DevDisables ==
  /\ ~cc_en /\ csts = "ready"
  /\ csts' = "off"
  /\ dev_aq' = "none"
  /\ dev_cqs' = {} /\ dev_sqs' = {}
  /\ UNCHANGED <<pc, driverVars, threads, cc_en, aq_regs, admin>>

\* The device breaks down while it is being switched on or off.
DevFails ==
  /\ MayFail /\ (cc_en <=> csts = "off")
  /\ csts' = "bad"
  /\ UNCHANGED <<pc, driverVars, threads, cc_en, aq_regs, dev_aq, dev_cqs, dev_sqs, admin>>

DevAnswers(status, grant) ==
  /\ admin # None /\ admin.status = None /\ dev_aq = "new"
  /\ admin' = [admin EXCEPT !.status = status, !.grant = grant]
  /\ dev_cqs' = IF status = "ok" /\ admin.opcode = "create_cq"
                THEN dev_cqs \cup {admin.qid} ELSE dev_cqs
  /\ dev_sqs' = IF status = "ok" /\ admin.opcode = "create_sq"
                THEN dev_sqs \cup {admin.qid} ELSE dev_sqs
  /\ UNCHANGED <<pc, driverVars, threads, cc_en, csts, aq_regs, dev_aq>>

\* CSTS follows CC.
DevSwitches == DevEnables \/ DevDisables \/ DevFails

DevAnswersAny ==
  \/ \E g \in Grants : DevAnswers("ok", g)
  \/ MayFail /\ DevAnswers("error", 0)

-----------------------------------------------------------------------------
Main ==
  \/ DisableController \/ WaitDisabled
  \/ \E ok \in {TRUE, ~MayFail} : SetupAdminQueue(ok)
  \/ WaitEnabled \/ InitAdminQueue
  \/ Identify \/ Identified \/ SetFeatures \/ SetQueueCount
  \/ AllocateQueues \/ CreateCq \/ CqCreated \/ CreateSq \/ SqCreated
  \/ QueuesSetUp \/ RunThreads \/ JoinThreads \/ Shutdown

-----------------------------------------------------------------------------
(* Properties. *)

\* An admin command is submitted only to a controller that runs on the admin
\* queue of this driver, whose completion ring was cleared: RDY read before
\* or after must not be the RDY of an earlier life of the controller.
AdminReaches ==
  admin # None => csts = "ready" /\ dev_aq = "new" /\ 0 \in zeroed
=============================================================================

------------------------------- MODULE IoPath -------------------------------
(***************************************************************************)
(* The whole I/O path: the IOThreads, the command table of NVMeDriver      *)
(* (setup_async_command, handle_cqe, remove_async_command) and the queue   *)
(* pairs shared with the device.  IOThread and NvmeQueue are instantiated  *)
(* on the same variables; this module adds the command table that joins    *)
(* them: a command id travels through the rings, and the id names the      *)
(* callback when the completion comes back.                                *)
(*                                                                         *)
(* The ring entries carry the thread and the request besides the id so     *)
(* that a property can say which request a completion belongs to; no       *)
(* action of the driver looks at them.                                     *)
(***************************************************************************)
EXTENDS Integers, Sequences, FiniteSets

CONSTANTS
  Threads, QueueDepth, RequestCount, Avg,  \* of IOThread
  Depth, U16, Posted, NoCmd,               \* of NvmeQueue
  None                                     \* no command

ASSUME IoPathAssumption ==
  /\ QueueDepth \in Nat \ {0} /\ RequestCount \in Nat /\ Avg \in Nat
  /\ Depth \in Nat /\ Depth >= 2
  /\ U16 \in Nat /\ Depth <= U16
  /\ Posted \in BOOLEAN

VARIABLES
  pc, ret, cur, nr_submitted, nr_completed, inflight, waiting, completed,
  reqs, held, atDevice,
  sq, sq_tail, cq, cq_head, cq_phase, sq_db, cq_db, dev_sq_tail, dev_sq_head,
  executing, dev_cq_head, dev_cq_tail, dev_phase, irq, irq_pc, irq_q, found,
  live,
  command_id_counter,  \* a std::atomic<uint16_t> that nothing initialises
  command_map,         \* id -> the request its callback completes, or None
  acmd,                \* id of the command a thread is submitting, or None
  release              \* id handle_cqe still has to remove, or None

T == INSTANCE IOThread

Ids  == 0 .. U16 - 1
Cmds == [id : Ids, thread : Threads, req : T!Requests]

\* A thread has at most Avg requests outstanding, at most QueueDepth of them
\* at the device.
Limit == IF Avg < QueueDepth THEN Avg ELSE QueueDepth

Q == INSTANCE NvmeQueue WITH Queues <- Threads

Callback == [thread : Threads, req : T!Requests]

ASSUME NoneAssumption ==
  /\ None \notin Ids /\ None \notin Callback
  /\ NoCmd \notin Cmds

threadVars == <<pc, ret, cur, nr_submitted, nr_completed, inflight, waiting,
                completed, reqs, held, atDevice>>
queueVars  == <<sq, sq_tail, cq, cq_head, cq_phase, sq_db, cq_db, dev_sq_tail,
                dev_sq_head, executing, dev_cq_head, dev_cq_tail, dev_phase,
                irq, irq_pc, irq_q, found, live>>
tableVars  == <<command_id_counter, command_map, acmd, release>>
vars       == <<threadVars, queueVars, tableVars>>

Init ==
  /\ T!Init
  /\ Q!Init
  /\ command_id_counter \in Ids
  /\ command_map = [i \in Ids |-> None]
  /\ acmd = [t \in Threads |-> None]
  /\ release = None

-----------------------------------------------------------------------------
(* The submitting threads. *)

\* setup_async_command, under command_mutex.  emplace keeps the object an id
\* already has; its callback is overwritten all the same.
SetupAsyncCommand(t) ==
  LET id == command_id_counter IN
  /\ pc[t] = "device" /\ acmd[t] = None
  /\ command_id_counter' = (id + 1) % U16
  /\ command_map' = [command_map EXCEPT ![id] = [thread |-> t, req |-> cur[t]]]
  /\ acmd' = [acmd EXCEPT ![t] = id]
  /\ UNCHANGED <<threadVars, queueVars, release>>

\* Variant: the id is taken from the counter again, outside command_mutex.
SubmitAsyncCommandRereads(t) ==
  /\ acmd[t] # None
  /\ Q!SubmitSqCommand(t, [id |-> (command_id_counter + U16 - 1) % U16,
                           thread |-> t, req |-> cur[t]])
  /\ T!SubmitToDevice(t)
  /\ acmd' = [acmd EXCEPT ![t] = None]
  /\ UNCHANGED <<command_id_counter, command_map, release>>

\* The rest of submit_async_command: the entry goes into the ring.
SubmitAsyncCommand(t) ==
  /\ acmd[t] # None
  /\ Q!SubmitSqCommand(t, [id |-> acmd[t], thread |-> t, req |-> cur[t]])
  /\ T!SubmitToDevice(t)
  /\ acmd' = [acmd EXCEPT ![t] = None]
  /\ UNCHANGED <<command_id_counter, command_map, release>>

-----------------------------------------------------------------------------
(* The receive thread. *)

\* Variant: the command is not released after its callback.
HandleCqeKeeps ==
  LET id == Q!Cqe(irq_q).cmd.id
      cb == command_map[id]
  IN /\ Q!HandleCqe
     /\ IF cb = None
        THEN UNCHANGED threadVars
        ELSE T!NotifyRequestCompletion(cb.thread, cb.req)
     /\ UNCHANGED tableVars

\* handle_cqe, under command_mutex: find the command and call its callback.
HandleCqe ==
  LET id == Q!Cqe(irq_q).cmd.id
      cb == command_map[id]
  IN /\ Q!HandleCqe
     /\ IF cb = None
        THEN UNCHANGED <<threadVars, release>>
        ELSE /\ T!NotifyRequestCompletion(cb.thread, cb.req)
             /\ release' = id
     /\ UNCHANGED <<command_id_counter, command_map, acmd>>

\* remove_async_command, which takes command_mutex again.
RemoveAsyncCommand ==
  /\ release # None
  /\ command_map' = [command_map EXCEPT ![release] = None]
  /\ release' = None
  /\ UNCHANGED <<threadVars, queueVars, command_id_counter, acmd>>

\* The steps of nvme_irq around handle_cqe.
NvmeIrq ==
  /\ release = None
  /\ Q!PollCq \/ Q!UpdateCqHead \/ Q!RingCqDoorbell
  /\ UNCHANGED <<threadVars, tableVars>>

RecvThread == HandleCqe \/ RemoveAsyncCommand \/ NvmeIrq

RecvIrq(t) == Q!RecvIrq(t) /\ UNCHANGED <<threadVars, tableVars>>

-----------------------------------------------------------------------------
Device(t) == Q!Device(t) /\ UNCHANGED <<threadVars, tableVars>>

Internal(t)       == T!Internal(t) /\ UNCHANGED <<queueVars, tableVars>>
SpuriousWakeup(t) == T!SpuriousWakeup(t) /\ UNCHANGED <<queueVars, tableVars>>

Terminating == (\A t \in Threads : pc[t] = "done") /\ UNCHANGED vars

Next ==
  \/ \E t \in Threads :
       \/ Internal(t) \/ SpuriousWakeup(t)
       \/ SetupAsyncCommand(t) \/ SubmitAsyncCommand(t)
       \/ Device(t) \/ RecvIrq(t)
  \/ RecvThread
  \/ Terminating

Spec == Init /\ [][Next]_vars

\* Every thread runs, interrupts are taken, and the device keeps taking
\* doorbells, fetching and completing.  No command need be completed before
\* another: with finitely many requests none can be passed over for ever.
Fairness ==
  /\ WF_vars(RecvThread)
  /\ \A t \in Threads :
       /\ WF_vars(Internal(t) \/ SetupAsyncCommand(t) \/ SubmitAsyncCommand(t))
       /\ WF_vars(RecvIrq(t))
       /\ WF_vars(Device(t))

FairSpec == Spec /\ Fairness

-----------------------------------------------------------------------------
(* Properties. *)

\* A request waits for its callback exactly while its command is live: the
\* callback of a completion is the one of the command that completed, on the
\* thread that submitted it, and it is called once.
RightCallback ==
  \A t \in Threads : atDevice[t] = {c.req : c \in live[t]}

\* The ids in use: being submitted, live, or about to be removed.
Live == UNION {live[t] : t \in Threads}
Submitting == {[id |-> acmd[t], thread |-> t, req |-> cur[t]] :
                 t \in {u \in Threads : acmd[u] # None}}

\* The command table holds the commands in use and nothing else, each under an
\* id of its own: no entry leaks, none is removed early, none is overwritten.
CommandMapExact ==
  LET used == Live \cup Submitting IN
  /\ \A c \in used : command_map[c.id] = [thread |-> c.thread, req |-> c.req]
  /\ \A c, d \in used : c # d => c.id # d.id
  /\ {i \in Ids : command_map[i] # None}
       = {c.id : c \in used} \cup ({release} \ {None})

\* The driver and the device do for the threads what IOThread assumes: every
\* callback is called once, for a request that was handed over.
ImplementsIOThread == T!Spec

\* The threads use a queue as NvmeQueue assumes: at most Limit commands
\* outstanding, never the same twice.
ImplementsNvmeQueue == Q!Spec

\* Every thread finishes its workload.
EveryThreadFinishes == T!EveryThreadFinishes

=============================================================================

---------------------------- MODULE IoPathProofs ----------------------------
(***************************************************************************)
(* Theorems about IoPath, for any number of threads, any workload and any  *)
(* depths.  They rest on those of IOThreadProofs and NvmeQueueProofs: the  *)
(* path implements both IOThread and NvmeQueue, so that their inductive    *)
(* invariants hold of it, and what is left to show is about the command    *)
(* table between them.                                                     *)
(***************************************************************************)
EXTENDS IoPath, FiniteSetTheorems, TLAPS

TP == INSTANCE IOThreadProofs
QP == INSTANCE NvmeQueueProofs WITH Queues <- Threads

-----------------------------------------------------------------------------
(* The instances.  Their theorems are about TP and QP, the path's actions   *)
(* are made of T's and Q's, which are the same.                             *)

LEMMA InstancesAssume == TP!IOThreadAssumption /\ QP!NvmeQueueAssumption
<1>1. TP!IOThreadAssumption
  BY IoPathAssumption DEF TP!IOThreadAssumption
<1>2. Limit \in Nat
  BY IoPathAssumption DEF Limit
<1>3. QP!NvmeQueueAssumption
  BY IoPathAssumption, NoneAssumption, <1>2 DEF QP!NvmeQueueAssumption
<1> QED
  BY <1>1, <1>3

LEMMA SameCardinality ==
  ASSUME NEW S
  PROVE  /\ Q!Cardinality(S) = Cardinality(S)
         /\ QP!Cardinality(S) = Cardinality(S)
         /\ TP!Cardinality(S) = Cardinality(S)
         /\ TP!IsFiniteSet(S) <=> IsFiniteSet(S)
<1>1. Q!Cardinality(S) = Cardinality(S)
  BY DEF Q!Cardinality, Cardinality
<1>2. QP!Cardinality(S) = Cardinality(S)
  BY DEF QP!Cardinality, Cardinality
<1>3. TP!Cardinality(S) = Cardinality(S)
  BY DEF TP!Cardinality, Cardinality
<1>4. TP!IsFiniteSet(S) <=> IsFiniteSet(S)
  BY DEF TP!IsFiniteSet, IsFiniteSet
<1> QED
  BY <1>1, <1>2, <1>3, <1>4

LEMMA SameThreadSteps == [T!Next]_threadVars => [TP!Next]_(TP!vars)
  BY DEF T!Next, TP!Next, T!Internal, TP!Internal, T!SubmitLoop, TP!SubmitLoop,
    T!SubmitIoRequest, TP!SubmitIoRequest, T!CallSubmitToDevice,
    TP!CallSubmitToDevice, T!SubmitLoopEnds, TP!SubmitLoopEnds, T!LoopTest,
    TP!LoopTest, T!Sleep, TP!Sleep, T!Collect, TP!Collect,
    T!ProcessCompletedRequest, TP!ProcessCompletedRequest, T!BatchProcessed,
    TP!BatchProcessed, T!CanDrain, TP!CanDrain, T!DrainWaiting,
    TP!DrainWaiting, T!OnRequestCompleted, TP!OnRequestCompleted,
    T!SpuriousWakeup, TP!SpuriousWakeup, T!SubmitToDevice, TP!SubmitToDevice,
    T!Requests, TP!Requests, T!Complete, TP!Complete,
    T!NotifyRequestCompletion, TP!NotifyRequestCompletion, T!Terminating,
    TP!Terminating, T!vars, TP!vars, threadVars

LEMMA SameQueueSteps == [Q!Next]_queueVars => [QP!Next]_(QP!vars)
<1> USE DEF Q!cqVars, QP!cqVars, Q!irqVars, QP!irqVars, Q!sqVars, QP!sqVars,
            Q!devVars, QP!devVars
<1>1. ASSUME NEW q \in Threads, NEW c \in Cmds, Q!Submit(q, c)
      PROVE  QP!Submit(q, c)
  <2>1. Q!SubmitSqCommand(q, c) => QP!SubmitSqCommand(q, c)
    BY DEF Q!SubmitSqCommand, QP!SubmitSqCommand, Q!SqNext, QP!SqNext,
      Q!Inc16, QP!Inc16, Q!WriteSqDoorbell, QP!WriteSqDoorbell
  <2>2. QP!Cardinality(live[q]) = Q!Cardinality(live[q])
    BY SameCardinality
  <2> QED
    BY <1>1, <2>1, <2>2 DEF Q!Submit, QP!Submit
<1>2. ASSUME NEW q \in Threads, Q!Device(q) PROVE QP!Device(q)
  <2>1. Q!DevSqDoorbell(q) => QP!DevSqDoorbell(q)
    BY DEF Q!DevSqDoorbell, QP!DevSqDoorbell
  <2>2. Q!DevCqDoorbell(q) => QP!DevCqDoorbell(q)
    BY DEF Q!DevCqDoorbell, QP!DevCqDoorbell
  <2>3. Q!DevFetch(q) => QP!DevFetch(q)
    BY DEF Q!DevFetch, QP!DevFetch, Q!DevNext, QP!DevNext
  <2>4. ASSUME NEW c \in Cmds, Q!DevComplete(q, c) PROVE QP!DevComplete(q, c)
    BY <2>4 DEF Q!DevComplete, QP!DevComplete, Q!DevNext, QP!DevNext
  <2> QED
    BY <1>2, <2>1, <2>2, <2>3, <2>4 DEF Q!Device, QP!Device
<1>3. ASSUME NEW q \in Threads, Q!RecvIrq(q) PROVE QP!RecvIrq(q)
  BY <1>3 DEF Q!RecvIrq, QP!RecvIrq
<1>4. ASSUME Q!RecvThread PROVE QP!RecvThread
  <2>1. Q!PollCq => QP!PollCq
    BY DEF Q!PollCq, QP!PollCq, Q!CqePending, QP!CqePending
  <2>2. Q!HandleCqe => QP!HandleCqe
    BY DEF Q!HandleCqe, QP!HandleCqe, Q!Cqe, QP!Cqe
  <2>3. Q!UpdateCqHead => QP!UpdateCqHead
    BY DEF Q!UpdateCqHead, QP!UpdateCqHead, Q!CqNext, QP!CqNext, Q!CqWraps,
      QP!CqWraps, Q!Inc16, QP!Inc16
  <2>4. Q!RingCqDoorbell => QP!RingCqDoorbell
    BY DEF Q!RingCqDoorbell, QP!RingCqDoorbell
  <2> QED
    BY <1>4, <2>1, <2>2, <2>3, <2>4 DEF Q!RecvThread, QP!RecvThread
<1>5. UNCHANGED queueVars => UNCHANGED QP!vars
  BY DEF queueVars, QP!vars
<1> QED
  BY <1>1, <1>2, <1>3, <1>4, <1>5 DEF Q!Next, QP!Next

-----------------------------------------------------------------------------
(* The inductive invariant. *)

\* Where setup_async_command may run, the id it takes is not in use.
FreshId ==
  \A t \in Threads :
    pc[t] = "device" /\ acmd[t] = None
      => command_map[command_id_counter] = None

TableTypes ==
  /\ command_id_counter \in Ids
  /\ command_map \in [Ids -> Callback \cup {None}]
  /\ acmd \in [Threads -> Ids \cup {None}]
  /\ release \in Ids \cup {None}

\* A live command of t is t's, and its id names its callback.
Registered(t) ==
  \A c \in live[t] :
    /\ c.thread = t /\ c.id # release
    /\ command_map[c.id] = [thread |-> t, req |-> c.req]

OneCall(t) == \A c, d \in live[t] : c.req = d.req => c = d

\* The command a thread is submitting is in the table already.
Prepared(t) ==
  acmd[t] # None =>
    /\ pc[t] = "device" /\ acmd[t] # release
    /\ command_map[acmd[t]] = [thread |-> t, req |-> cur[t]]

Used(i) ==
  \/ i = release
  \/ \E t \in Threads : acmd[t] = i \/ \E c \in live[t] : c.id = i

NoLeak == \A i \in Ids : command_map[i] # None => Used(i)

\* The command just called back goes before the next entry is looked at.
Releasing ==
  release # None => irq_pc = "advance" /\ command_map[release] # None

TableInv ==
  /\ TableTypes /\ NoLeak /\ Releasing
  /\ \A t \in Threads : Registered(t) /\ OneCall(t) /\ Prepared(t)
  /\ RightCallback

PathInv == TP!IInv /\ QP!RingInv /\ TableInv

\* What the instances' invariants say of the variables used here.
LEMMA Facts ==
  ASSUME TP!IInv, QP!RingInv
  PROVE  /\ irq_q \in Threads
         /\ live \in [Threads -> SUBSET Cmds]
         /\ \A t \in Threads :
              /\ pc[t] = "device" => cur[t] \in T!Requests
                                     /\ cur[t] \notin atDevice[t]
              /\ pc[t] = "device" => IsFiniteSet(atDevice[t])
              /\ pc[t] = "device" => Cardinality(atDevice[t]) < Limit
         /\ DOMAIN pc = Threads /\ DOMAIN atDevice = Threads
         /\ pc = [t \in Threads |-> pc[t]]
         /\ atDevice = [t \in Threads |-> atDevice[t]]
         /\ cur = [t \in Threads |-> cur[t]]
         /\ irq_pc = "handle" => Q!Cqe(irq_q).cmd \in live[irq_q]
<1>1. irq_q \in Threads /\ live \in [Threads -> SUBSET Cmds]
  BY DEF QP!RingInv, QP!TypeOK
<1>2. /\ pc \in [Threads -> TP!PC] /\ cur \in [Threads -> Nat]
      /\ atDevice \in [Threads -> SUBSET Nat]
  BY DEF TP!IInv, TP!Types
<1>3. irq_pc = "handle" => Q!Cqe(irq_q).cmd \in live[irq_q]
  <2>1. QP!CompletionIsLive
    BY QP!RingUses, InstancesAssume
  <2> QED
    BY <2>1 DEF QP!CompletionIsLive, QP!Cqe, Q!Cqe
<1>4. ASSUME NEW t \in Threads, pc[t] = "device"
      PROVE  /\ cur[t] \in T!Requests /\ cur[t] \notin atDevice[t]
             /\ IsFiniteSet(atDevice[t]) /\ Cardinality(atDevice[t]) < Limit
  <2>1. /\ cur[t] \in TP!Requests /\ cur[t] \notin atDevice[t]
        /\ TP!IsFiniteSet(atDevice[t])
        /\ TP!Cardinality(atDevice[t]) < QueueDepth
        /\ TP!Cardinality(atDevice[t]) < Avg
    BY <1>4, TP!AsksForNew, InstancesAssume
  <2>2. T!Requests = TP!Requests
    BY DEF T!Requests, TP!Requests
  <2> QED
    BY <2>1, <2>2, SameCardinality DEF Limit
<1> QED
  BY <1>1, <1>2, <1>3, <1>4

\* Two commands in use have different ids.
LEMMA IdsDiffer ==
  ASSUME PathInv, NEW t \in Threads, NEW u \in Threads
  PROVE  /\ \A c \in live[t], d \in live[u] : c.id = d.id => c = d
         /\ \A c \in live[t] : acmd[u] # c.id
         /\ acmd[t] # None /\ acmd[t] = acmd[u] => t = u
         /\ \A c \in live[t] : c \in Cmds /\ c.id \in Ids /\ c.req \in T!Requests
<1>1. /\ Registered(t) /\ Registered(u) /\ OneCall(t) /\ Prepared(t)
      /\ Prepared(u) /\ atDevice[t] = {c.req : c \in live[t]}
  BY DEF PathInv, TableInv, RightCallback
<1>2. \A c \in live[t] : c \in Cmds /\ c.id \in Ids /\ c.req \in T!Requests
  BY Facts DEF PathInv, Cmds
<1>3. \A c \in live[t], d \in live[u] : c.id = d.id => c = d
  <2> SUFFICES ASSUME NEW c \in live[t], NEW d \in live[u], c.id = d.id
               PROVE  c = d
    OBVIOUS
  <2>1. [thread |-> t, req |-> c.req] = [thread |-> u, req |-> d.req]
    BY <1>1 DEF Registered
  <2>2. t = u /\ c.req = d.req
    BY <2>1
  <2> QED
    BY <1>1, <2>2 DEF OneCall
<1>4. \A c \in live[t] : acmd[u] # c.id
  <2> SUFFICES ASSUME NEW c \in live[t], acmd[u] = c.id PROVE FALSE
    OBVIOUS
  <2>1. acmd[u] # None
    BY <1>2, NoneAssumption
  <2>2. /\ [thread |-> t, req |-> c.req] = [thread |-> u, req |-> cur[u]]
        /\ pc[u] = "device"
    BY <1>1, <2>1 DEF Registered, Prepared
  <2>3. t = u /\ cur[u] = c.req
    BY <2>2
  <2> QED
    BY <1>1, <2>2, <2>3, Facts DEF PathInv
<1>5. acmd[t] # None /\ acmd[t] = acmd[u] => t = u
  <2> SUFFICES ASSUME acmd[t] # None, acmd[t] = acmd[u] PROVE t = u
    OBVIOUS
  <2>1. [thread |-> t, req |-> cur[t]] = [thread |-> u, req |-> cur[u]]
    BY <1>1 DEF Prepared
  <2> QED
    BY <2>1
<1> QED
  BY <1>2, <1>3, <1>4, <1>5

-----------------------------------------------------------------------------
(* A step of the path is a step of the threads and of the queues. *)

\* handle_cqe finds the command, and its callback is the right one.
LEMMA FindsCallback ==
  ASSUME PathInv, irq_pc = "handle"
  PROVE  LET c == Q!Cqe(irq_q).cmd
         IN /\ irq_q \in Threads /\ release = None
            /\ c \in live[irq_q] /\ c.id \in Ids /\ c.req \in T!Requests
            /\ command_map[c.id] = [thread |-> irq_q, req |-> c.req]
            /\ command_map[c.id] # None
            /\ c.req \in atDevice[irq_q]
<1> DEFINE c == Q!Cqe(irq_q).cmd
<1>1. irq_q \in Threads /\ c \in live[irq_q]
  BY Facts DEF PathInv
<1>2. c.id \in Ids /\ c.req \in T!Requests
  BY <1>1, IdsDiffer
<1>3. command_map[c.id] = [thread |-> irq_q, req |-> c.req]
  BY <1>1 DEF PathInv, TableInv, Registered
<1>4. command_map[c.id] # None
  BY <1>1, <1>2, <1>3, NoneAssumption DEF Callback
<1>5. release = None
  BY DEF PathInv, TableInv, Releasing
<1>6. c.req \in atDevice[irq_q]
  BY <1>1 DEF PathInv, TableInv, RightCallback
<1> QED
  BY <1>1, <1>2, <1>3, <1>4, <1>5, <1>6

LEMMA CompleteStep ==
  ASSUME PathInv, HandleCqe
  PROVE  /\ Q!HandleCqe
         /\ T!Complete(irq_q, Q!Cqe(irq_q).cmd.req)
         /\ release' = Q!Cqe(irq_q).cmd.id
         /\ UNCHANGED <<command_id_counter, command_map, acmd>>
<1>1. Q!HandleCqe /\ irq_pc = "handle"
  BY DEF HandleCqe, Q!HandleCqe
<1> DEFINE c == Q!Cqe(irq_q).cmd
<1>2. /\ command_map[c.id] = [thread |-> irq_q, req |-> c.req]
      /\ command_map[c.id] # None /\ c.req \in atDevice[irq_q]
  BY <1>1, FindsCallback
<1>3. command_map[c.id].thread = irq_q /\ command_map[c.id].req = c.req
  BY <1>2
<1> QED
  BY <1>1, <1>2, <1>3 DEF HandleCqe, T!Complete

\* submit_sq_command is called within the bound, with a new command.
LEMMA SubmitStep ==
  ASSUME PathInv, NEW t \in Threads, SubmitAsyncCommand(t)
  PROVE  LET c == [id |-> acmd[t], thread |-> t, req |-> cur[t]]
         IN c \in Cmds /\ Q!Submit(t, c)
<1> DEFINE c == [id |-> acmd[t], thread |-> t, req |-> cur[t]]
<1>1. acmd[t] # None /\ Q!SubmitSqCommand(t, c)
  BY DEF SubmitAsyncCommand
<1>2. pc[t] = "device" /\ acmd[t] \in Ids /\ atDevice[t] = {d.req : d \in live[t]}
  BY <1>1 DEF PathInv, TableInv, TableTypes, Prepared, RightCallback
<1>3. /\ cur[t] \in T!Requests /\ cur[t] \notin atDevice[t]
      /\ IsFiniteSet(atDevice[t]) /\ Cardinality(atDevice[t]) < Limit
  BY <1>2, Facts DEF PathInv
<1>4. c \in Cmds
  BY <1>2, <1>3 DEF Cmds
<1>5. ASSUME NEW p \in Threads PROVE c \notin live[p]
  <2> SUFFICES ASSUME c \in live[p] PROVE FALSE
    OBVIOUS
  <2>1. acmd[t] # c.id
    BY IdsDiffer
  <2> QED
    BY <2>1
<1>6. IsFiniteSet(live[t]) /\ Cardinality(live[t]) <= Cardinality(atDevice[t])
  <2> DEFINE f == [r \in atDevice[t] |-> CHOOSE d \in live[t] : d.req = r]
  <2>1. ASSUME NEW r \in atDevice[t] PROVE f[r] \in live[t] /\ f[r].req = r
    BY <1>2
  <2>2. ASSUME NEW d \in live[t] PROVE d.req \in atDevice[t] /\ f[d.req] = d
    <3>1. d.req \in atDevice[t]
      BY <1>2
    <3>2. f[d.req] \in live[t] /\ f[d.req].req = d.req
      BY <2>1, <3>1
    <3> HIDE DEF f
    <3> QED
      BY <3>1, <3>2 DEF PathInv, TableInv, OneCall
  <2>3. f \in [atDevice[t] -> live[t]]
    BY <2>1
  <2> HIDE DEF f
  <2>4. f \in Surjection(atDevice[t], live[t])
    BY <2>2, <2>3 DEF Surjection
  <2> QED
    BY <1>3, <2>4, FS_Surjection
<1>7. Cardinality(live[t]) < Limit
  <2>1. /\ Cardinality(live[t]) \in Nat /\ Cardinality(atDevice[t]) \in Nat
        /\ Limit \in Nat
    BY <1>3, <1>6, IoPathAssumption, FS_CardinalityType DEF Limit
  <2> QED
    BY <1>3, <1>6, <2>1
<1> QED
  BY <1>1, <1>4, <1>5, <1>7, SameCardinality DEF Q!Submit

LEMMA StepsImplement ==
  PathInv /\ [Next]_vars => [T!Next]_threadVars /\ [Q!Next]_queueVars
<1> SUFFICES ASSUME PathInv, [Next]_vars
             PROVE  [T!Next]_threadVars /\ [Q!Next]_queueVars
  OBVIOUS
<1>1. ASSUME NEW t \in Threads, Internal(t) \/ SpuriousWakeup(t)
      PROVE  [T!Next]_threadVars /\ [Q!Next]_queueVars
  <2>1. T!Internal(t) \/ T!SpuriousWakeup(t)
    BY <1>1 DEF Internal, SpuriousWakeup
  <2>2. UNCHANGED queueVars
    BY <1>1 DEF Internal, SpuriousWakeup
  <2> QED
    BY <2>1, <2>2 DEF T!Next
<1>2. ASSUME NEW t \in Threads, SetupAsyncCommand(t)
      PROVE  UNCHANGED threadVars /\ UNCHANGED queueVars
  BY <1>2 DEF SetupAsyncCommand
<1>3. ASSUME NEW t \in Threads, SubmitAsyncCommand(t)
      PROVE  [T!Next]_threadVars /\ [Q!Next]_queueVars
  <2>1. T!SubmitToDevice(t)
    BY <1>3 DEF SubmitAsyncCommand
  <2>2. Q!Next
    BY <1>3, SubmitStep DEF Q!Next
  <2> QED
    BY <2>1, <2>2 DEF T!Next
<1>4. ASSUME NEW t \in Threads, Device(t) \/ RecvIrq(t)
      PROVE  UNCHANGED threadVars /\ Q!Next
  <2>1. Q!Device(t) \/ Q!RecvIrq(t)
    BY <1>4 DEF Device, RecvIrq
  <2>2. UNCHANGED threadVars
    BY <1>4 DEF Device, RecvIrq
  <2> QED
    BY <2>1, <2>2 DEF Q!Next
<1>5. ASSUME HandleCqe PROVE T!Next /\ Q!Next
  <2>1. Q!HandleCqe /\ T!Complete(irq_q, Q!Cqe(irq_q).cmd.req)
    BY <1>5, CompleteStep
  <2>2. irq_q \in Threads /\ Q!Cqe(irq_q).cmd.req \in T!Requests
    BY <2>1, FindsCallback DEF Q!HandleCqe
  <2>3. T!Next
    BY <2>1, <2>2 DEF T!Next
  <2>4. Q!Next
    BY <2>1 DEF Q!Next, Q!RecvThread
  <2> QED
    BY <2>3, <2>4
<1>6. ASSUME RemoveAsyncCommand
      PROVE  UNCHANGED threadVars /\ UNCHANGED queueVars
  BY <1>6 DEF RemoveAsyncCommand
<1>7. ASSUME NvmeIrq PROVE UNCHANGED threadVars /\ Q!Next
  BY <1>7 DEF NvmeIrq, Q!Next, Q!RecvThread
<1>8. ASSUME UNCHANGED vars
      PROVE  UNCHANGED threadVars /\ UNCHANGED queueVars
  BY <1>8 DEF vars
<1> QED
  BY <1>1, <1>2, <1>3, <1>4, <1>5, <1>6, <1>7, <1>8
  DEF Next, RecvThread, Terminating

-----------------------------------------------------------------------------
(* The command table through a step. *)

\* What TableInv reads of the threads and the queues, left alone by a step.
Untouched == UNCHANGED <<live, atDevice, tableVars>>

\* A step that leaves the table, live and atDevice alone: the threads and the
\* receive thread only have to stay where the submission and the removal of a
\* command need them.
LEMMA QuietStep ==
  TableInv /\ Untouched
    /\ (\A t \in Threads : acmd[t] # None => pc'[t] = pc[t] /\ cur'[t] = cur[t])
    /\ (release # None => irq_pc' = irq_pc)
    => TableInv'
<1> SUFFICES ASSUME TableInv, Untouched,
                    \A t \in Threads : acmd[t] # None
                                         => pc'[t] = pc[t] /\ cur'[t] = cur[t],
                    release # None => irq_pc' = irq_pc
             PROVE  TableInv'
  OBVIOUS
<1>1. /\ live' = live /\ atDevice' = atDevice
      /\ command_id_counter' = command_id_counter
      /\ command_map' = command_map /\ acmd' = acmd /\ release' = release
  BY DEF Untouched, tableVars
<1>2. TableTypes' /\ NoLeak' /\ RightCallback'
  BY <1>1 DEF TableInv, TableTypes, NoLeak, Used, RightCallback
<1>3. Releasing'
  BY <1>1 DEF TableInv, Releasing
<1>4. ASSUME NEW t \in Threads
      PROVE  Registered(t)' /\ OneCall(t)' /\ Prepared(t)'
  <2>1. Registered(t) /\ OneCall(t) /\ Prepared(t)
    BY DEF TableInv
  <2>2. Registered(t)' /\ OneCall(t)'
    BY <1>1, <2>1 DEF Registered, OneCall
  <2>3. Prepared(t)'
    BY <1>1, <2>1 DEF Prepared
  <2> QED
    BY <2>2, <2>3
<1> QED
  BY <1>2, <1>3, <1>4 DEF TableInv

\* The steps of a thread between two calls are not those of one that submits.
LEMMA ThreadStep ==
  ASSUME PathInv, NEW t \in Threads, Internal(t) \/ SpuriousWakeup(t)
  PROVE  TableInv'
<1>1. T!Internal(t) \/ T!SpuriousWakeup(t)
  BY DEF Internal, SpuriousWakeup
<1>2. live' = live /\ irq_pc' = irq_pc /\ UNCHANGED tableVars
  BY DEF Internal, SpuriousWakeup, queueVars
<1>3. DOMAIN pc = Threads /\ pc = [u \in Threads |-> pc[u]]
      /\ cur = [u \in Threads |-> cur[u]]
  BY Facts DEF PathInv
<1>4. pc[t] # "device" /\ atDevice' = atDevice
  BY <1>1 DEF T!Internal, T!SubmitLoop, T!SubmitLoopEnds, T!LoopTest, T!Sleep,
    T!Collect, T!ProcessCompletedRequest, T!BatchProcessed, T!DrainWaiting,
    T!OnRequestCompleted, T!SpuriousWakeup
<1>5. ASSUME NEW u \in Threads, u # t
      PROVE  pc'[u] = pc[u] /\ cur'[u] = cur[u]
  BY <1>1, <1>3, <1>5 DEF T!Internal, T!SubmitLoop, T!SubmitLoopEnds, T!LoopTest,
    T!Sleep, T!Collect, T!ProcessCompletedRequest, T!BatchProcessed,
    T!DrainWaiting, T!OnRequestCompleted, T!SpuriousWakeup, T!SubmitIoRequest,
    T!CallSubmitToDevice
<1>6. acmd[t] = None
  BY <1>4 DEF PathInv, TableInv, Prepared
<1> QED
  BY <1>2, <1>4, <1>5, <1>6, QuietStep DEF Untouched, PathInv

\* The device and the receive thread between two completions.
LEMMA QueueStep ==
  PathInv /\ ((\E t \in Threads : Device(t) \/ RecvIrq(t)) \/ NvmeIrq)
    => TableInv'
<1> SUFFICES ASSUME PathInv,
                    (\E t \in Threads : Device(t) \/ RecvIrq(t)) \/ NvmeIrq
             PROVE  TableInv'
  OBVIOUS
<1>1. UNCHANGED <<threadVars, tableVars>>
  BY DEF Device, RecvIrq, NvmeIrq
<1>2. live' = live /\ (release # None => irq_pc' = irq_pc)
  <2>1. CASE \E t \in Threads : Device(t)
    BY <2>1 DEF Device, Q!Device, Q!DevSqDoorbell, Q!DevCqDoorbell, Q!DevFetch,
      Q!DevComplete, Q!irqVars
  <2>2. CASE \E t \in Threads : RecvIrq(t)
    <3>1. live' = live /\ irq_pc = "idle"
      BY <2>2 DEF RecvIrq, Q!RecvIrq
    <3> QED
      BY <3>1 DEF PathInv, TableInv, Releasing
  <2>3. CASE NvmeIrq
    BY <2>3 DEF NvmeIrq, Q!PollCq, Q!UpdateCqHead, Q!RingCqDoorbell
  <2> QED
    BY <2>1, <2>2, <2>3
<1>3. pc' = pc /\ cur' = cur /\ atDevice' = atDevice
  BY <1>1 DEF threadVars
<1> QED
  BY <1>1, <1>2, <1>3, QuietStep DEF Untouched, PathInv

\* setup_async_command takes an id no command has.
LEMMA SetupStep ==
  ASSUME PathInv, FreshId, NEW t \in Threads, SetupAsyncCommand(t)
  PROVE  TableInv'
<1> DEFINE id == command_id_counter
           cb == [thread |-> t, req |-> cur[t]]
<1>1. /\ pc[t] = "device" /\ acmd[t] = None
      /\ command_id_counter' = (id + 1) % U16
      /\ command_map' = [command_map EXCEPT ![id] = cb]
      /\ acmd' = [acmd EXCEPT ![t] = id]
      /\ release' = release
  BY DEF SetupAsyncCommand
<1>2. /\ live' = live /\ atDevice' = atDevice /\ pc' = pc /\ cur' = cur
      /\ irq_pc' = irq_pc
  BY DEF SetupAsyncCommand, threadVars, queueVars
<1>3. TableTypes /\ NoLeak /\ Releasing /\ RightCallback
  BY DEF PathInv, TableInv
<1>4. id \in Ids /\ command_map[id] = None
  BY <1>1, <1>3 DEF FreshId, TableTypes
<1>5. cb \in Callback /\ cb # None
  BY <1>1, Facts, NoneAssumption DEF PathInv, Callback
<1>6. id # None /\ id # release
  BY <1>3, <1>4, NoneAssumption DEF Releasing
<1>7. (id + 1) % U16 \in Ids
  BY <1>4, IoPathAssumption DEF Ids
<1> HIDE DEF cb, id
<1>8. TableTypes'
  BY <1>1, <1>3, <1>4, <1>5, <1>7 DEF TableTypes
<1>9. Releasing'
  BY <1>1, <1>2, <1>3, <1>6 DEF Releasing, TableTypes
<1>10. NoLeak'
  <2> SUFFICES ASSUME NEW i \in Ids, command_map'[i] # None PROVE Used(i)'
    BY DEF NoLeak
  <2>1. CASE i = id
    BY <1>1, <1>3, <2>1 DEF Used, TableTypes
  <2>2. CASE i # id
    <3>1. command_map[i] # None
      BY <1>1, <1>3, <2>2 DEF TableTypes
    <3>2. Used(i)
      BY <1>3, <3>1 DEF NoLeak
    <3>3. i # None
      BY NoneAssumption
    <3>4. ASSUME NEW u \in Threads, acmd[u] = i PROVE acmd'[u] = i
      BY <1>1, <1>3, <3>3, <3>4 DEF TableTypes
    <3> QED
      BY <1>1, <1>2, <3>2, <3>4 DEF Used
  <2> QED
    BY <2>1, <2>2
<1>11. ASSUME NEW u \in Threads
       PROVE  Registered(u)' /\ OneCall(u)' /\ Prepared(u)'
  <2>1. Registered(u) /\ OneCall(u) /\ Prepared(u)
    BY DEF PathInv, TableInv
  <2>2. OneCall(u)'
    BY <1>2, <2>1 DEF OneCall
  <2>3. Registered(u)'
    <3> SUFFICES ASSUME NEW c \in live[u]
                 PROVE  /\ c.thread = u /\ c.id # release
                        /\ command_map'[c.id] = [thread |-> u, req |-> c.req]
      BY <1>1, <1>2 DEF Registered
    <3>1. /\ c.thread = u /\ c.id # release
          /\ command_map[c.id] = [thread |-> u, req |-> c.req]
      BY <2>1 DEF Registered
    <3>2. c.id \in Ids /\ c.req \in T!Requests
      BY IdsDiffer
    <3>3. c.id # id
      BY <1>4, <3>1, <3>2, NoneAssumption DEF Callback
    <3> QED
      BY <1>1, <1>3, <3>1, <3>2, <3>3 DEF TableTypes
  <2>4. Prepared(u)'
    <3>1. CASE u = t
      BY <1>1, <1>2, <1>3, <1>4, <1>6, <3>1 DEF Prepared, TableTypes, cb
    <3>2. CASE u # t
      <4>1. acmd'[u] = acmd[u]
        BY <1>1, <1>3, <3>2 DEF TableTypes
      <4> SUFFICES ASSUME acmd[u] # None
                   PROVE  /\ pc[u] = "device" /\ acmd[u] # release
                          /\ command_map'[acmd[u]] = [thread |-> u, req |-> cur[u]]
        BY <1>1, <1>2, <4>1 DEF Prepared
      <4>2. /\ pc[u] = "device" /\ acmd[u] # release
            /\ command_map[acmd[u]] = [thread |-> u, req |-> cur[u]]
        BY <2>1 DEF Prepared
      <4>3. acmd[u] \in Ids
        BY <1>3 DEF TableTypes
      <4>4. [thread |-> u, req |-> cur[u]] \in Callback
        BY <4>2, Facts DEF PathInv, Callback
      <4>5. acmd[u] # id
        BY <1>4, <4>2, <4>4, NoneAssumption
      <4> QED
        BY <1>1, <1>3, <4>2, <4>3, <4>5 DEF TableTypes
    <3> QED
      BY <3>1, <3>2
  <2> QED
    BY <2>2, <2>3, <2>4
<1>12. RightCallback'
  BY <1>2, <1>3 DEF RightCallback
<1> QED
  BY <1>8, <1>9, <1>10, <1>11, <1>12 DEF TableInv

\* The rest of submit_async_command.
LEMMA SubmittedStep ==
  ASSUME PathInv, NEW t \in Threads, SubmitAsyncCommand(t)
  PROVE  TableInv'
<1> DEFINE c == [id |-> acmd[t], thread |-> t, req |-> cur[t]]
<1>1. /\ acmd[t] # None /\ acmd' = [acmd EXCEPT ![t] = None]
      /\ command_id_counter' = command_id_counter
      /\ command_map' = command_map /\ release' = release
      /\ Q!SubmitSqCommand(t, c) /\ T!SubmitToDevice(t)
  BY DEF SubmitAsyncCommand
<1>2. live' = [live EXCEPT ![t] = @ \cup {c}] /\ irq_pc' = irq_pc
  BY <1>1 DEF Q!SubmitSqCommand, Q!irqVars
<1>3. /\ atDevice' = [atDevice EXCEPT ![t] = @ \cup {cur[t]}]
      /\ pc' = [pc EXCEPT ![t] = ret[t]] /\ cur' = cur
  BY <1>1 DEF T!SubmitToDevice
<1>4. TableTypes /\ NoLeak /\ Releasing /\ RightCallback
  BY DEF PathInv, TableInv
<1>5. /\ DOMAIN pc = Threads /\ DOMAIN atDevice = Threads
      /\ live \in [Threads -> SUBSET Cmds]
  BY Facts DEF PathInv
<1>6. /\ pc[t] = "device" /\ acmd[t] # release
      /\ command_map[acmd[t]] = [thread |-> t, req |-> cur[t]]
  BY <1>1 DEF PathInv, TableInv, Prepared
<1>7. cur[t] \notin atDevice[t] /\ atDevice[t] = {d.req : d \in live[t]}
  BY <1>4, <1>6, Facts DEF PathInv, RightCallback
<1>8. c.id = acmd[t] /\ c.thread = t /\ c.req = cur[t]
  OBVIOUS
<1> HIDE DEF c
<1>9. live'[t] = live[t] \cup {c}
  BY <1>2, <1>5
<1>10. ASSUME NEW u \in Threads, u # t
       PROVE  /\ live'[u] = live[u] /\ atDevice'[u] = atDevice[u]
              /\ acmd'[u] = acmd[u] /\ pc'[u] = pc[u]
  BY <1>1, <1>2, <1>3, <1>4, <1>5, <1>10 DEF TableTypes
<1>11. TableTypes'
  BY <1>1, <1>4 DEF TableTypes
<1>12. Releasing'
  BY <1>1, <1>2, <1>4 DEF Releasing
<1>13. NoLeak'
  <2> SUFFICES ASSUME NEW i \in Ids, command_map[i] # None PROVE Used(i)'
    BY <1>1 DEF NoLeak
  <2>1. Used(i)
    BY <1>4 DEF NoLeak
  <2>2. i = release => Used(i)'
    BY <1>1 DEF Used
  <2>3. ASSUME NEW u \in Threads, acmd[u] = i PROVE Used(i)'
    BY <1>8, <1>9, <1>10, <2>3 DEF Used
  <2>4. ASSUME NEW u \in Threads, NEW d \in live[u], d.id = i PROVE Used(i)'
    BY <1>9, <1>10, <2>4 DEF Used
  <2> QED
    BY <2>1, <2>2, <2>3, <2>4 DEF Used
<1>14. ASSUME NEW u \in Threads
       PROVE  Registered(u)' /\ OneCall(u)' /\ Prepared(u)'
  <2>1. Registered(u) /\ OneCall(u) /\ Prepared(u)
    BY DEF PathInv, TableInv
  <2>2. CASE u = t
    <3>1. Registered(t)'
      BY <1>1, <1>6, <1>8, <1>9, <2>1, <2>2 DEF Registered
    <3>2. ASSUME NEW d \in live[t] PROVE d.req # c.req
      BY <1>7, <1>8
    <3>3. OneCall(t)'
      BY <1>9, <2>1, <2>2, <3>2 DEF OneCall
    <3>4. Prepared(t)'
      BY <1>1, <1>4 DEF Prepared, TableTypes
    <3> QED
      BY <2>2, <3>1, <3>3, <3>4
  <2>3. CASE u # t
    BY <1>1, <1>3, <1>10, <2>1, <2>3 DEF Registered, OneCall, Prepared
  <2> QED
    BY <2>2, <2>3
<1>15. RightCallback'
  <2> SUFFICES ASSUME NEW u \in Threads
               PROVE  atDevice'[u] = {d.req : d \in live'[u]}
    BY DEF RightCallback
  <2>1. CASE u = t
    <3>1. atDevice'[t] = atDevice[t] \cup {cur[t]}
      BY <1>3, <1>5
    <3> QED
      BY <1>7, <1>8, <1>9, <2>1, <3>1
  <2>2. CASE u # t
    BY <1>4, <1>10, <2>2 DEF RightCallback
  <2> QED
    BY <2>1, <2>2
<1> QED
  BY <1>11, <1>12, <1>13, <1>14, <1>15 DEF TableInv

\* handle_cqe takes the command out of live and its request off the device.
LEMMA HandledStep ==
  ASSUME PathInv, HandleCqe
  PROVE  TableInv'
<1> DEFINE c == Q!Cqe(irq_q).cmd
           q == irq_q
<1>1. /\ irq_pc = "handle" /\ irq_pc' = "advance"
      /\ live' = [live EXCEPT ![q] = @ \ {c}]
      /\ release' = c.id /\ UNCHANGED <<command_id_counter, command_map, acmd>>
      /\ T!Complete(q, c.req)
  BY CompleteStep DEF Q!HandleCqe
<1>2. /\ q \in Threads /\ release = None
      /\ c \in live[q] /\ c.id \in Ids /\ c.req \in T!Requests
      /\ command_map[c.id] # None
  BY <1>1, FindsCallback
<1>3. PICK d \in live[q] : d = c
  BY <1>2
<1>4. /\ atDevice' = [atDevice EXCEPT ![q] = @ \ {d.req}]
      /\ pc' = [pc EXCEPT ![q] = IF @ = "asleep" THEN "wait" ELSE @]
      /\ cur' = cur
  BY <1>1, <1>3 DEF T!Complete, T!NotifyRequestCompletion
<1>5. TableTypes /\ NoLeak /\ Releasing /\ RightCallback
  BY DEF PathInv, TableInv
<1>6. /\ DOMAIN pc = Threads /\ DOMAIN atDevice = Threads
      /\ live \in [Threads -> SUBSET Cmds]
  BY Facts DEF PathInv
<1>7. /\ command_id_counter' = command_id_counter
      /\ command_map' = command_map /\ acmd' = acmd
  BY <1>1
<1>8. /\ release' = d.id /\ d.id \in Ids /\ command_map[d.id] # None
      /\ live' = [live EXCEPT ![q] = @ \ {d}] /\ irq_pc' = "advance"
  BY <1>1, <1>2, <1>3
<1>9. PICK p \in Threads : p = q
  BY <1>2
<1> HIDE DEF c, q
<1>10. live'[p] = live[p] \ {d} /\ atDevice'[p] = atDevice[p] \ {d.req}
  BY <1>4, <1>6, <1>8, <1>9
<1>11. ASSUME NEW u \in Threads
       PROVE  /\ u # p => live'[u] = live[u] /\ atDevice'[u] = atDevice[u]
              /\ pc[u] = "device" => pc'[u] = "device"
              /\ live'[u] \subseteq live[u]
  BY <1>4, <1>6, <1>8, <1>9
<1>12. TableTypes'
  BY <1>5, <1>7, <1>8 DEF TableTypes
<1>13. Releasing'
  BY <1>7, <1>8 DEF Releasing
<1>14. NoLeak'
  <2> SUFFICES ASSUME NEW i \in Ids, command_map[i] # None PROVE Used(i)'
    BY <1>7 DEF NoLeak
  <2>1. Used(i) /\ i # None
    BY <1>5, NoneAssumption DEF NoLeak
  <2>2. ASSUME NEW u \in Threads, acmd[u] = i PROVE Used(i)'
    BY <1>7, <2>2 DEF Used
  <2>3. ASSUME NEW u \in Threads, NEW e \in live[u], e.id = i PROVE Used(i)'
    <3>1. CASE e = d
      BY <1>8, <2>3, <3>1 DEF Used
    <3>2. CASE e # d
      <4>1. e \in live'[u]
        BY <1>10, <1>11, <3>2
      <4> QED
        BY <2>3, <4>1 DEF Used
    <3> QED
      BY <3>1, <3>2
  <2> QED
    BY <1>2, <2>1, <2>2, <2>3 DEF Used
<1>15. ASSUME NEW u \in Threads
       PROVE  Registered(u)' /\ OneCall(u)' /\ Prepared(u)'
  <2>1. Registered(u) /\ OneCall(u) /\ Prepared(u)
    BY DEF PathInv, TableInv
  <2>2. d \in live[p]
    BY <1>3, <1>9
  <2>3. Registered(u)'
    <3> SUFFICES ASSUME NEW e \in live'[u]
                 PROVE  /\ e.thread = u /\ e.id # d.id
                        /\ command_map[e.id] = [thread |-> u, req |-> e.req]
      BY <1>7, <1>8 DEF Registered
    <3>1. e \in live[u] /\ e # d
      <4>1. e \in live[u]
        BY <1>11
      <4>2. CASE u = p
        BY <1>10, <4>1, <4>2
      <4>3. CASE u # p
        <5>1. e.thread = u /\ d.thread = p
          BY <2>1, <2>2, <4>1 DEF Registered, PathInv, TableInv
        <5> QED
          BY <4>1, <4>3, <5>1
      <4> QED
        BY <4>1, <4>2, <4>3
    <3>2. e.id # d.id
      BY <2>2, <3>1, IdsDiffer
    <3> QED
      BY <2>1, <3>1, <3>2 DEF Registered
  <2>4. OneCall(u)'
    BY <1>11, <2>1 DEF OneCall
  <2>5. Prepared(u)'
    <3>1. acmd[u] # d.id
      BY <2>2, IdsDiffer
    <3> QED
      BY <1>4, <1>7, <1>8, <1>11, <2>1, <3>1 DEF Prepared
  <2> QED
    BY <2>3, <2>4, <2>5
<1>16. RightCallback'
  <2> SUFFICES ASSUME NEW u \in Threads
               PROVE  atDevice'[u] = {e.req : e \in live'[u]}
    BY DEF RightCallback
  <2>1. CASE u = p
    <3>1. atDevice[p] = {e.req : e \in live[p]} /\ OneCall(p) /\ d \in live[p]
      BY <1>3, <1>5, <1>9 DEF RightCallback, PathInv, TableInv
    <3>2. ASSUME NEW e \in live[p], e # d PROVE e.req # d.req
      BY <3>1, <3>2 DEF OneCall
    <3> QED
      BY <1>10, <2>1, <3>1, <3>2
  <2>2. CASE u # p
    BY <1>5, <1>11, <2>2 DEF RightCallback
  <2> QED
    BY <2>1, <2>2
<1> QED
  BY <1>12, <1>13, <1>14, <1>15, <1>16 DEF TableInv

\* remove_async_command takes out an entry nothing else names.
LEMMA RemovedStep == PathInv /\ RemoveAsyncCommand => TableInv'
<1> SUFFICES ASSUME PathInv, RemoveAsyncCommand PROVE TableInv'
  OBVIOUS
<1>1. /\ release # None /\ release' = None
      /\ command_map' = [command_map EXCEPT ![release] = None]
      /\ command_id_counter' = command_id_counter /\ acmd' = acmd
  BY DEF RemoveAsyncCommand
<1>2. /\ live' = live /\ atDevice' = atDevice /\ pc' = pc /\ cur' = cur
  BY DEF RemoveAsyncCommand, threadVars, queueVars
<1>3. TableTypes /\ NoLeak /\ RightCallback
  BY DEF PathInv, TableInv
<1>4. release \in Ids /\ release' # release
  BY <1>1, <1>3 DEF TableTypes
<1>5. \A i \in Ids : command_map'[i] = IF i = release THEN None
                                       ELSE command_map[i]
  BY <1>1, <1>3, <1>4 DEF TableTypes
<1>6. TableTypes'
  BY <1>1, <1>3, <1>4 DEF TableTypes
<1>7. Releasing' /\ RightCallback'
  BY <1>1, <1>2, <1>3 DEF Releasing, RightCallback
<1>8. NoLeak'
  BY <1>1, <1>2, <1>3, <1>5 DEF NoLeak, Used
<1>9. ASSUME NEW u \in Threads
      PROVE  Registered(u)' /\ OneCall(u)' /\ Prepared(u)'
  <2>1. Registered(u) /\ OneCall(u) /\ Prepared(u)
    BY DEF PathInv, TableInv
  <2>2. \A e \in live[u] : e.id \in Ids
    BY IdsDiffer
  <2>3. Registered(u)'
    BY <1>1, <1>2, <1>5, <2>1, <2>2, NoneAssumption DEF Registered
  <2>4. OneCall(u)'
    BY <1>2, <2>1 DEF OneCall
  <2>5. acmd[u] \in Ids \cup {None}
    BY <1>3 DEF TableTypes
  <2>6. Prepared(u)'
    BY <1>1, <1>2, <1>5, <2>1, <2>5 DEF Prepared
  <2> QED
    BY <2>3, <2>4, <2>6
<1> QED
  BY <1>6, <1>7, <1>8, <1>9 DEF TableInv

LEMMA TableStep == PathInv /\ FreshId /\ [Next]_vars => TableInv'
<1> SUFFICES ASSUME PathInv, FreshId, [Next]_vars PROVE TableInv'
  OBVIOUS
<1>1. ASSUME UNCHANGED vars PROVE TableInv'
  BY <1>1, QuietStep DEF Untouched, vars, threadVars, queueVars, PathInv
<1> QED
  BY <1>1, ThreadStep, QueueStep, SetupStep, SubmittedStep, HandledStep,
     RemovedStep DEF Next, RecvThread, Terminating

-----------------------------------------------------------------------------
(* The invariant. *)

LEMMA InitPath == Init => PathInv
<1> SUFFICES ASSUME Init PROVE PathInv
  OBVIOUS
<1>1. TP!Init
  BY DEF Init, T!Init, TP!Init
<1>2. QP!Init
  BY DEF Init, Q!Init, QP!Init, Q!Slots, QP!Slots
<1>3. TP!IInv /\ QP!RingInv
  BY <1>1, <1>2, TP!InitIInv, QP!RingInit, InstancesAssume
<1>4. /\ live = [t \in Threads |-> {}] /\ atDevice = [t \in Threads |-> {}]
      /\ command_id_counter \in Ids /\ command_map = [i \in Ids |-> None]
      /\ acmd = [t \in Threads |-> None] /\ release = None
  BY DEF Init, T!Init, Q!Init
<1>5. TableTypes /\ NoLeak /\ Releasing
  BY <1>4 DEF TableTypes, NoLeak, Releasing
<1>6. RightCallback /\ \A t \in Threads : Registered(t) /\ OneCall(t) /\ Prepared(t)
  BY <1>4 DEF RightCallback, Registered, OneCall, Prepared
<1> QED
  BY <1>3, <1>5, <1>6 DEF PathInv, TableInv

LEMMA PathStep ==
  Depth < U16 /\ Limit < Depth /\ PathInv /\ FreshId /\ [Next]_vars => PathInv'
<1> SUFFICES ASSUME Depth < U16, Limit < Depth, PathInv, FreshId, [Next]_vars
             PROVE  PathInv'
  OBVIOUS
<1>1. [T!Next]_threadVars /\ [Q!Next]_queueVars
  BY StepsImplement
<1>2. TP!IInv'
  <2>1. [TP!Next]_(TP!vars)
    BY <1>1, SameThreadSteps
  <2>2. TP!IInv
    BY DEF PathInv
  <2> QED
    BY <2>1, <2>2, TP!StepIInv, InstancesAssume
<1>3. QP!RingInv'
  <2>1. [QP!Next]_(QP!vars)
    BY <1>1, SameQueueSteps
  <2>2. QP!RingInv
    BY DEF PathInv
  <2> QED
    BY <2>1, <2>2, QP!RingStep, InstancesAssume
<1>4. TableInv'
  BY TableStep
<1> QED
  BY <1>2, <1>3, <1>4 DEF PathInv

\* PathInv of all states, when no id comes round while it is in use.
LEMMA PathInvariant ==
  ASSUME Limit < Depth, Depth < U16
  PROVE  Spec /\ []FreshId => []PathInv
<1>1. PathInv /\ FreshId /\ [Next]_vars => PathInv'
  BY PathStep
<1> QED
  BY <1>1, InitPath, PTL DEF Spec

LEMMA PathUses == PathInv => RightCallback /\ CommandMapExact
<1> SUFFICES ASSUME PathInv PROVE RightCallback /\ CommandMapExact
  OBVIOUS
<1> DEFINE used == Live \cup Submitting
<1>1. RightCallback
  BY DEF PathInv, TableInv
<1>2. ASSUME NEW c \in used
      PROVE  \E t \in Threads :
               \/ c \in live[t]
               \/ acmd[t] # None /\ c = [id |-> acmd[t], thread |-> t, req |-> cur[t]]
  BY DEF Live, Submitting
<1>3. ASSUME NEW t \in Threads
      PROVE  Registered(t) /\ OneCall(t) /\ Prepared(t)
  BY DEF PathInv, TableInv
<1>4. ASSUME NEW c \in used
      PROVE  /\ command_map[c.id] = [thread |-> c.thread, req |-> c.req]
             /\ c.id \in Ids /\ command_map[c.id] # None
  <2>1. PICK t \in Threads :
               \/ c \in live[t]
               \/ acmd[t] # None /\ c = [id |-> acmd[t], thread |-> t, req |-> cur[t]]
    BY <1>2
  <2>2. CASE c \in live[t]
    <3>1. /\ c.thread = t /\ c.id \in Ids /\ c.req \in T!Requests
          /\ command_map[c.id] = [thread |-> t, req |-> c.req]
      BY <1>3, <2>2, IdsDiffer DEF Registered
    <3> QED
      BY <3>1, NoneAssumption DEF Callback
  <2>3. CASE acmd[t] # None /\ c = [id |-> acmd[t], thread |-> t, req |-> cur[t]]
    <3>1. c.id = acmd[t] /\ c.thread = t /\ c.req = cur[t]
      BY <2>3
    <3>2. command_map[acmd[t]] = [thread |-> t, req |-> cur[t]] /\ acmd[t] \in Ids
          /\ cur[t] \in T!Requests
      BY <1>3, <2>3, Facts DEF Prepared, PathInv, TableInv, TableTypes
    <3> QED
      BY <3>1, <3>2, NoneAssumption DEF Callback
  <2> QED
    BY <2>1, <2>2, <2>3
<1>5. ASSUME NEW c \in used, NEW d \in used, c.id = d.id PROVE c = d
  <2>1. PICK t \in Threads :
               \/ c \in live[t]
               \/ acmd[t] # None /\ c = [id |-> acmd[t], thread |-> t, req |-> cur[t]]
    BY <1>2
  <2>2. PICK u \in Threads :
               \/ d \in live[u]
               \/ acmd[u] # None /\ d = [id |-> acmd[u], thread |-> u, req |-> cur[u]]
    BY <1>2
  <2>3. CASE c \in live[t] /\ d \in live[u]
    BY <1>5, <2>3, IdsDiffer
  <2>4. CASE c \in live[t] /\ d \notin live[u]
    <3>1. acmd[u] = c.id
      BY <1>5, <2>2, <2>4
    <3> QED
      BY <2>4, <3>1, IdsDiffer
  <2>5. CASE c \notin live[t] /\ d \in live[u]
    <3>1. acmd[t] = d.id
      BY <1>5, <2>1, <2>5
    <3> QED
      BY <2>5, <3>1, IdsDiffer
  <2>6. CASE c \notin live[t] /\ d \notin live[u]
    <3>1. acmd[t] # None /\ acmd[t] = acmd[u]
      BY <1>5, <2>1, <2>2, <2>6
    <3>2. t = u
      BY <3>1, IdsDiffer
    <3> QED
      BY <2>1, <2>2, <2>6, <3>2
  <2> QED
    BY <2>3, <2>4, <2>5, <2>6
<1>6. ASSUME NEW i \in Ids, command_map[i] # None
      PROVE  i \in {c.id : c \in used} \cup ({release} \ {None})
  <2>1. Used(i) /\ i # None
    BY <1>6, NoneAssumption DEF PathInv, TableInv, NoLeak
  <2>2. ASSUME NEW t \in Threads, acmd[t] = i PROVE i \in {c.id : c \in used}
    <3>1. [id |-> acmd[t], thread |-> t, req |-> cur[t]] \in used
      BY <2>1, <2>2 DEF Submitting
    <3> QED
      BY <2>2, <3>1
  <2>3. ASSUME NEW t \in Threads, NEW c \in live[t], c.id = i
        PROVE  i \in {d.id : d \in used}
    BY <2>3 DEF Live
  <2> QED
    BY <2>1, <2>2, <2>3 DEF Used
<1>7. release # None => release \in Ids /\ command_map[release] # None
  BY DEF PathInv, TableInv, TableTypes, Releasing
<1>8. {i \in Ids : command_map[i] # None}
        = {c.id : c \in used} \cup ({release} \ {None})
  <2> HIDE DEF used
  <2>1. ASSUME NEW c \in used PROVE c.id \in {i \in Ids : command_map[i] # None}
    BY <1>4
  <2> QED
    BY <1>6, <1>7, <2>1
<1> QED
  BY <1>1, <1>4, <1>5, <1>8 DEF CommandMapExact

-----------------------------------------------------------------------------
(* The theorems. *)

\* The callback of a completion is the one of the command that completed, on
\* the thread that submitted it, and it is called once: for any number of
\* threads, as long as no id comes round while it is in use and the threads
\* keep fewer commands outstanding than a ring has entries.
THEOREM CallbacksAreRight ==
  ASSUME Limit < Depth, Depth < U16
  PROVE  Spec /\ []FreshId => []RightCallback
<1> QED
  BY PathInvariant, PathUses, PTL

\* Under the same conditions command_map holds the commands in use, each under
\* an id of its own, and nothing else.
THEOREM CommandMapIsExact ==
  ASSUME Limit < Depth, Depth < U16
  PROVE  Spec /\ []FreshId => []CommandMapExact
<1> QED
  BY PathInvariant, PathUses, PTL

\* The driver and the device do for the threads what IOThread assumes.
THEOREM PathImplementsIOThread ==
  ASSUME Limit < Depth, Depth < U16
  PROVE  Spec /\ []FreshId => ImplementsIOThread
<1>1. Init => T!Init
  BY DEF Init
<1>2. PathInv /\ [Next]_vars => [T!Next]_(T!vars)
  BY StepsImplement DEF threadVars, T!vars
<1> QED
  BY <1>1, <1>2, PathInvariant, PTL DEF Spec, ImplementsIOThread, T!Spec

\* The threads use a queue as NvmeQueue assumes: within its limit, though
\* submit_sq_command does not look, and with no command twice.
THEOREM PathImplementsNvmeQueue ==
  ASSUME Limit < Depth, Depth < U16
  PROVE  Spec /\ []FreshId => ImplementsNvmeQueue
<1>1. Init => Q!Init
  BY DEF Init
<1>2. PathInv /\ [Next]_vars => [Q!Next]_(Q!vars)
  BY StepsImplement
  DEF queueVars, Q!vars, Q!sqVars, Q!cqVars, Q!devVars, Q!irqVars
<1> QED
  BY <1>1, <1>2, PathInvariant, PTL DEF Spec, ImplementsNvmeQueue, Q!Spec

-----------------------------------------------------------------------------
(* When no id comes round in use: not in a workload of at most U16 requests. *)

AllRequests == Threads \X T!Requests

\* The requests setup_async_command has run for.
Started == {k \in AllRequests : \/ k[2] \notin TP!Due(k[1])
                                \/ acmd[k[1]] # None /\ k[2] = cur[k[1]]}

\* How many ids were given after this one.
Age(i) == IF i < command_id_counter THEN command_id_counter - 1 - i
                                    ELSE command_id_counter - 1 - i + U16

\* An id in use is as young as there are requests begun.
Young == \A i \in Ids : command_map[i] # None => Age(i) < Cardinality(Started)

FewRequests == IsFiniteSet(Threads) /\ Cardinality(AllRequests) <= U16

LEMMA StartedIsFinite ==
  ASSUME FewRequests
  PROVE  /\ IsFiniteSet(AllRequests) /\ Cardinality(AllRequests) \in Nat
         /\ IsFiniteSet(Started) /\ Cardinality(Started) \in Nat
<1>1. IsFiniteSet(T!Requests)
  BY FS_Interval, IoPathAssumption DEF T!Requests
<1>2. IsFiniteSet(AllRequests)
  BY <1>1, FS_Product DEF FewRequests, AllRequests
<1>3. IsFiniteSet(Started)
  BY <1>2, FS_Subset DEF Started
<1> QED
  BY <1>2, <1>3, FS_CardinalityType

\* A request about to be set up is missing from those begun.
LEMMA AboutToStart ==
  ASSUME PathInv, NEW t \in Threads, pc[t] = "device", acmd[t] = None
  PROVE  <<t, cur[t]>> \in AllRequests /\ <<t, cur[t]>> \notin Started
<1>1. cur[t] \in T!Requests
  BY Facts DEF PathInv
<1>2. cur[t] \in TP!Due(t)
  BY <1>1 DEF TP!Due, TP!Requests, T!Requests
<1> QED
  BY <1>1, <1>2 DEF AllRequests, Started

\* So the oldest id is not in use then.
LEMMA YoungIsFresh == FewRequests /\ PathInv /\ Young => FreshId
<1> SUFFICES ASSUME FewRequests, PathInv, Young, NEW t \in Threads,
                    pc[t] = "device", acmd[t] = None,
                    command_map[command_id_counter] # None
             PROVE  FALSE
  BY DEF FreshId
<1>1. Started \subseteq AllRequests /\ Started # AllRequests
  BY AboutToStart DEF Started
<1>2. Cardinality(Started) < Cardinality(AllRequests)
  BY <1>1, StartedIsFinite, FS_Subset
<1>3. command_id_counter \in Ids
  BY DEF PathInv, TableInv, TableTypes
<1>4. Age(command_id_counter) = U16 - 1
  BY <1>3, IoPathAssumption DEF Age, Ids
<1>5. Age(command_id_counter) < Cardinality(Started)
  BY <1>3 DEF Young
<1> QED
  BY <1>2, <1>4, <1>5, StartedIsFinite, IoPathAssumption DEF FewRequests

\* What a thread is submitting stays until it is submitted.
LEMMA KeepsCall ==
  ASSUME PathInv, [Next]_vars, NEW t \in Threads, acmd[t] # None,
         ~SubmitAsyncCommand(t)
  PROVE  acmd'[t] = acmd[t] /\ cur'[t] = cur[t]
<1>1. pc[t] = "device" /\ acmd \in [Threads -> Ids \cup {None}]
  BY DEF PathInv, TableInv, TableTypes, Prepared
<1>2. DOMAIN pc = Threads /\ cur = [u \in Threads |-> cur[u]]
  BY Facts DEF PathInv
<1>3. ASSUME NEW u \in Threads, Internal(u) \/ SpuriousWakeup(u)
      PROVE  acmd'[t] = acmd[t] /\ cur'[t] = cur[t]
  <2>1. T!Internal(u) \/ T!SpuriousWakeup(u)
    BY <1>3 DEF Internal, SpuriousWakeup
  <2>2. acmd' = acmd
    BY <1>3 DEF Internal, SpuriousWakeup, tableVars
  <2>3. pc[u] # "device"
    BY <2>1 DEF T!Internal, T!SubmitLoop, T!SubmitLoopEnds, T!LoopTest, T!Sleep,
      T!Collect, T!ProcessCompletedRequest, T!BatchProcessed, T!DrainWaiting,
      T!OnRequestCompleted, T!SpuriousWakeup
  <2>4. cur'[t] = cur[t]
    BY <1>1, <1>2, <2>1, <2>3 DEF T!Internal, T!SubmitLoop, T!SubmitLoopEnds,
      T!LoopTest, T!Sleep, T!Collect, T!ProcessCompletedRequest,
      T!BatchProcessed, T!DrainWaiting, T!OnRequestCompleted,
      T!SpuriousWakeup, T!SubmitIoRequest, T!CallSubmitToDevice
  <2> QED
    BY <2>2, <2>4
<1>4. ASSUME NEW u \in Threads, SetupAsyncCommand(u)
      PROVE  acmd'[t] = acmd[t] /\ cur'[t] = cur[t]
  BY <1>1, <1>4 DEF SetupAsyncCommand, threadVars
<1>5. ASSUME NEW u \in Threads, SubmitAsyncCommand(u)
      PROVE  acmd'[t] = acmd[t] /\ cur'[t] = cur[t]
  BY <1>1, <1>5 DEF SubmitAsyncCommand, T!SubmitToDevice
<1>6. ASSUME HandleCqe PROVE acmd'[t] = acmd[t] /\ cur'[t] = cur[t]
  BY <1>6, CompleteStep DEF T!Complete, T!NotifyRequestCompletion
<1>7. ASSUME \/ \E u \in Threads : Device(u) \/ RecvIrq(u)
             \/ NvmeIrq \/ RemoveAsyncCommand \/ UNCHANGED vars
      PROVE  acmd'[t] = acmd[t] /\ cur'[t] = cur[t]
  BY <1>7 DEF Device, RecvIrq, NvmeIrq, RemoveAsyncCommand, threadVars,
    tableVars, vars
<1> QED
  BY <1>3, <1>4, <1>5, <1>6, <1>7 DEF Next, RecvThread, Terminating

\* A request once begun stays begun.
LEMMA StartedGrows == PathInv /\ [Next]_vars => Started \subseteq Started'
<1> SUFFICES ASSUME PathInv, [Next]_vars, NEW k \in Started
             PROVE  k \in Started'
  OBVIOUS
<1>1. PICK t \in Threads, r \in T!Requests : k = <<t, r>>
  BY DEF Started, AllRequests
<1>2. k \in AllRequests /\ k[1] = t /\ k[2] = r
  BY <1>1 DEF AllRequests
<1>3. /\ TP!Due(t)' \subseteq TP!Due(t)
      /\ TP!SubmitToDevice(t) => cur[t] \notin TP!Due(t)'
  <2>1. TP!IInv /\ [TP!Next]_(TP!vars)
    BY StepsImplement, SameThreadSteps DEF PathInv
  <2> QED
    BY <2>1, TP!DueShrinks, InstancesAssume
<1>4. CASE r \notin TP!Due(t)
  BY <1>2, <1>3, <1>4 DEF Started
<1>5. CASE acmd[t] # None /\ r = cur[t]
  <2>1. CASE SubmitAsyncCommand(t)
    <3>1. TP!SubmitToDevice(t)
      BY <2>1 DEF SubmitAsyncCommand, T!SubmitToDevice, TP!SubmitToDevice
    <3> QED
      BY <1>2, <1>3, <1>5, <3>1 DEF Started
  <2>2. CASE ~SubmitAsyncCommand(t)
    <3>1. acmd'[t] = acmd[t] /\ cur'[t] = cur[t]
      BY <1>5, <2>2, KeepsCall
    <3> QED
      BY <1>2, <1>5, <3>1 DEF Started
  <2> QED
    BY <2>1, <2>2
<1> QED
  BY <1>2, <1>4, <1>5 DEF Started

LEMMA YoungStep ==
  ASSUME FewRequests, PathInv, Young, [Next]_vars, PathInv'
  PROVE  Young'
<1>1. FreshId /\ TableTypes
  BY YoungIsFresh DEF PathInv, TableInv
<1>2. /\ Started \subseteq Started'
      /\ IsFiniteSet(Started') /\ Cardinality(Started') \in Nat
      /\ IsFiniteSet(Started) /\ Cardinality(Started) \in Nat
  <2>1. IsFiniteSet(AllRequests)
    BY StartedIsFinite
  <2>2. Started' \subseteq AllRequests
    BY DEF Started, AllRequests
  <2> QED
    BY <2>1, <2>2, StartedIsFinite, StartedGrows, FS_Subset, FS_CardinalityType
<1>3. Cardinality(Started) <= Cardinality(Started')
  BY <1>2, FS_Subset
<1>4. ASSUME command_id_counter' = command_id_counter,
             \A i \in Ids : command_map'[i] # None => command_map[i] # None
      PROVE  Young'
  <2> SUFFICES ASSUME NEW i \in Ids, command_map'[i] # None
               PROVE  Age(i)' < Cardinality(Started)'
    BY DEF Young
  <2>1. Age(i)' = Age(i) /\ Age(i) \in Int
    BY <1>1, <1>4, IoPathAssumption DEF Age, Ids, TableTypes
  <2>2. Age(i) < Cardinality(Started)
    BY <1>4 DEF Young
  <2> QED
    BY <1>2, <1>3, <2>1, <2>2
<1>5. ASSUME NEW t \in Threads, SetupAsyncCommand(t) PROVE Young'
  <2>1. PICK id, k : id = command_id_counter /\ k = <<t, cur[t]>>
    OBVIOUS
  <2>2. /\ id \in Ids
        /\ command_id_counter' = IF id + 1 < U16 THEN id + 1 ELSE 0
        /\ \A i \in Ids : i # id => command_map'[i] = command_map[i]
    <3>1. id \in Ids
      BY <1>1, <2>1 DEF TableTypes
    <3>2. (id + 1) % U16 = IF id + 1 < U16 THEN id + 1 ELSE 0
      BY <3>1, IoPathAssumption DEF Ids
    <3>3. \A i \in Ids : i # id => command_map'[i] = command_map[i]
      BY <1>1, <1>5, <2>1 DEF SetupAsyncCommand, TableTypes
    <3> QED
      BY <1>5, <2>1, <3>1, <3>2, <3>3 DEF SetupAsyncCommand
  <2>3. k \in AllRequests /\ k \notin Started
    BY <1>5, <2>1, AboutToStart DEF SetupAsyncCommand
  <2>4. k \in Started'
    <3>1. acmd'[t] = id /\ id # None /\ cur' = cur
      BY <1>1, <1>5, <2>1, <2>2, NoneAssumption
      DEF SetupAsyncCommand, TableTypes, threadVars
    <3>2. k[1] = t /\ k[2] = cur[t]
      BY <2>1
    <3> QED
      BY <2>3, <3>1, <3>2 DEF Started, AllRequests
  <2>5. Cardinality(Started) < Cardinality(Started')
    <3>1. Started # Started'
      BY <2>3, <2>4
    <3> QED
      BY <1>2, <3>1, FS_Subset
  <2> SUFFICES ASSUME NEW i \in Ids, command_map'[i] # None
               PROVE  Age(i)' < Cardinality(Started)'
    BY DEF Young
  <2>6. CASE i = id
    <3>1. Age(i)' = 0
      BY <2>2, <2>6, IoPathAssumption DEF Age, Ids
    <3> QED
      BY <1>2, <2>5, <3>1
  <2>7. CASE i # id
    <3>1. Age(i) < Cardinality(Started)
      BY <2>2, <2>7 DEF Young
    <3>2. Age(i)' = Age(i) + 1 /\ Age(i) \in Int
      BY <2>1, <2>2, <2>7, IoPathAssumption DEF Age, Ids
    <3> QED
      BY <1>2, <2>5, <3>1, <3>2
  <2> QED
    BY <2>6, <2>7
<1>6. ASSUME RemoveAsyncCommand PROVE Young'
  <2>1. \A i \in Ids : command_map'[i] # None => command_map[i] # None
    BY <1>1, <1>6 DEF RemoveAsyncCommand, TableTypes
  <2> QED
    BY <1>4, <1>6, <2>1 DEF RemoveAsyncCommand
<1>7. ASSUME command_id_counter' = command_id_counter,
             command_map' = command_map
      PROVE  Young'
  BY <1>4, <1>7
<1>8. ASSUME HandleCqe PROVE Young'
  BY <1>7, <1>8, CompleteStep
<1>9. ASSUME NEW t \in Threads,
             \/ Internal(t) \/ SpuriousWakeup(t) \/ SubmitAsyncCommand(t)
             \/ Device(t) \/ RecvIrq(t)
      PROVE  Young'
  BY <1>7, <1>9 DEF Internal, SpuriousWakeup, SubmitAsyncCommand, Device,
    RecvIrq, tableVars
<1>10. ASSUME NvmeIrq \/ UNCHANGED vars PROVE Young'
  BY <1>7, <1>10 DEF NvmeIrq, vars, tableVars
<1> QED
  BY <1>5, <1>6, <1>8, <1>9, <1>10 DEF Next, RecvThread, Terminating

LEMMA FewRequestsInv ==
  ASSUME FewRequests, Limit < Depth, Depth < U16
  PROVE  Spec => [](PathInv /\ Young)
<1>1. Init => PathInv /\ Young
  BY InitPath DEF Init, Young
<1>2. PathInv /\ Young /\ [Next]_vars => (PathInv /\ Young)'
  <2> SUFFICES ASSUME PathInv, Young, [Next]_vars PROVE PathInv' /\ Young'
    OBVIOUS
  <2>1. PathInv'
    BY YoungIsFresh, PathStep
  <2> QED
    BY <2>1, YoungStep
<1> QED
  BY <1>1, <1>2, PTL DEF Spec

\* The uninitialised counter may start anywhere and come round: in a workload
\* of at most U16 requests setup_async_command never takes an id in use.
THEOREM IdsAreFresh ==
  ASSUME FewRequests, Limit < Depth, Depth < U16
  PROVE  Spec => []FreshId
<1>1. FewRequests /\ PathInv /\ Young => FreshId
  BY YoungIsFresh
<1> QED
  BY <1>1, FewRequestsInv, PTL

\* So for such a workload the path is right outright.
THEOREM SmallWorkloadsAreRight ==
  ASSUME FewRequests, Limit < Depth, Depth < U16
  PROVE  Spec => /\ [](RightCallback /\ CommandMapExact)
                 /\ ImplementsIOThread /\ ImplementsNvmeQueue
<1>1. Spec => []FreshId
  BY IdsAreFresh
<1>2. Spec /\ []FreshId => [](RightCallback /\ CommandMapExact)
  BY CallbacksAreRight, CommandMapIsExact, PTL
<1>3. Spec /\ []FreshId => ImplementsIOThread /\ ImplementsNvmeQueue
  BY PathImplementsIOThread, PathImplementsNvmeQueue
<1> QED
  BY <1>1, <1>2, <1>3, PTL
=============================================================================

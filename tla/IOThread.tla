------------------------------ MODULE IOThread ------------------------------
(***************************************************************************)
(* The load generators: IOThread (io_thread.cpp) and its only subclass     *)
(* IOThreadSynthetic (io_thread_synthetic.cpp).  A thread keeps a closed   *)
(* loop of requests going: it submits a first batch, and every completed   *)
(* request is replaced by a new one until request_count of them have been  *)
(* submitted.  A request goes to the device while fewer than queue_depth   *)
(* are in flight, else it waits.  Completions arrive on the link's receive *)
(* thread, through notify_request_completion.                              *)
(*                                                                         *)
(* A request is the number of its submission.  Its direction, position and *)
(* size (generate_request) only fill in the command and the statistics.    *)
(* The driver and the device are what submit_to_device hands a request to, *)
(* and what calls the callback for it later; IoPath puts the real ones in. *)
(*                                                                         *)
(* A step of a thread runs to its next call into the driver or to its next *)
(* use of completion_mutex; everything else it touches is its own.         *)
(***************************************************************************)
EXTENDS Integers, Sequences, FiniteSets

CONSTANTS
  Threads,       \* the flows of the workload, one IOThread each
  QueueDepth,    \* IOThread::queue_depth
  RequestCount,  \* IOThread::request_count
  Avg            \* IOThreadSynthetic::average_enqueued_requests

ASSUME IOThreadAssumption ==
  /\ QueueDepth \in Nat \ {0}
  /\ RequestCount \in Nat
  /\ Avg \in Nat

VARIABLES
  pc,             \* where the thread is, see PC
  ret,            \* where submit_to_device returns to
  cur,            \* the request submit_to_device was called with
  nr_submitted,   \* nr_submitted_requests
  nr_completed,   \* nr_completed_requests
  inflight,       \* inflight_requests
  waiting,        \* waiting_requests
  completed,      \* completed_requests, under completion_mutex
  reqs,           \* rest of the local vector of wait_for_completed_requests
  held,           \* requests whose buffer is allocated
  atDevice        \* requests whose callback the driver still owes

vars == <<pc, ret, cur, nr_submitted, nr_completed, inflight, waiting,
          completed, reqs, held, atDevice>>

PC == { "start",    \* run_impl's for loop
        "device",   \* submit_to_device, before the driver's read or write
        "loop",     \* run_impl's while loop
        "wait",     \* holds completion_mutex, tests completed_requests
        "asleep",   \* in completion_cv.wait
        "process",  \* between two process_completed_request calls
        "drain",    \* process_completed_request's while loop
        "done" }    \* run_impl has returned

Elems(s) == {s[i] : i \in DOMAIN s}

Init ==
  /\ pc           = [t \in Threads |-> "start"]
  /\ ret          = [t \in Threads |-> "start"]
  /\ cur          = [t \in Threads |-> 0]
  /\ nr_submitted = [t \in Threads |-> 0]
  /\ nr_completed = [t \in Threads |-> 0]
  /\ inflight     = [t \in Threads |-> 0]
  /\ waiting      = [t \in Threads |-> << >>]
  /\ completed    = [t \in Threads |-> << >>]
  /\ reqs         = [t \in Threads |-> << >>]
  /\ held         = [t \in Threads |-> {}]
  /\ atDevice     = [t \in Threads |-> {}]

-----------------------------------------------------------------------------
(* Submission. *)

\* Calling submit_to_device(r): inflight_requests++ and on to the driver.
CallSubmitToDevice(t, r, back) ==
  /\ inflight' = [inflight EXCEPT ![t] = @ + 1]
  /\ cur' = [cur EXCEPT ![t] = r]
  /\ ret' = [ret EXCEPT ![t] = back]
  /\ pc' = [pc EXCEPT ![t] = "device"]

\* submit_io_request: a new request with its buffer, to the device or, when
\* queue_depth requests are in flight, to the waiting queue.
SubmitIoRequest(t, back) ==
  LET r == nr_submitted[t] + 1 IN
  /\ held' = [held EXCEPT ![t] = @ \cup {r}]
  /\ nr_submitted' = [nr_submitted EXCEPT ![t] = r]
  /\ IF inflight[t] >= QueueDepth
     THEN /\ waiting' = [waiting EXCEPT ![t] = Append(@, r)]
          /\ pc' = [pc EXCEPT ![t] = back]
          /\ UNCHANGED <<ret, cur, inflight>>
     ELSE /\ CallSubmitToDevice(t, r, back)
          /\ UNCHANGED waiting

\* Variant: one request too many in the first batch.
SubmitLoopOffByOne(t) ==
  /\ pc[t] = "start" /\ nr_submitted[t] <= Avg
  /\ SubmitIoRequest(t, "start")
  /\ UNCHANGED <<nr_completed, completed, reqs, atDevice>>

\* The first Avg requests.  The loop's counter is nr_submitted.
SubmitLoop(t) ==
  /\ pc[t] = "start" /\ nr_submitted[t] < Avg
  /\ SubmitIoRequest(t, "start")
  /\ UNCHANGED <<nr_completed, completed, reqs, atDevice>>

SubmitLoopEnds(t) ==
  /\ pc[t] = "start" /\ nr_submitted[t] >= Avg
  /\ pc' = [pc EXCEPT ![t] = "loop"]
  /\ UNCHANGED <<ret, cur, nr_submitted, nr_completed, inflight, waiting,
                 completed, reqs, held, atDevice>>

\* submit_to_device: read_async or write_async with the callback of cur.
SubmitToDevice(t) ==
  /\ pc[t] = "device"
  /\ atDevice' = [atDevice EXCEPT ![t] = @ \cup {cur[t]}]
  /\ pc' = [pc EXCEPT ![t] = ret[t]]
  /\ UNCHANGED <<ret, cur, nr_submitted, nr_completed, inflight, waiting,
                 completed, reqs, held>>

-----------------------------------------------------------------------------
(* Completion. *)

\* while (nr_completed_requests < request_count)
LoopTest(t) ==
  /\ pc[t] = "loop"
  /\ pc' = [pc EXCEPT ![t] =
              IF nr_completed[t] < RequestCount THEN "wait" ELSE "done"]
  /\ UNCHANGED <<ret, cur, nr_submitted, nr_completed, inflight, waiting,
                 completed, reqs, held, atDevice>>

\* wait_for_completed_requests finds nothing: completion_cv.wait.
Sleep(t) ==
  /\ pc[t] = "wait" /\ completed[t] = << >>
  /\ pc' = [pc EXCEPT ![t] = "asleep"]
  /\ UNCHANGED <<ret, cur, nr_submitted, nr_completed, inflight, waiting,
                 completed, reqs, held, atDevice>>

SpuriousWakeup(t) ==
  /\ pc[t] = "asleep"
  /\ pc' = [pc EXCEPT ![t] = "wait"]
  /\ UNCHANGED <<ret, cur, nr_submitted, nr_completed, inflight, waiting,
                 completed, reqs, held, atDevice>>

\* Variant: the queue is cleared though only its first request is taken.
CollectFirst(t) ==
  /\ pc[t] = "wait" /\ completed[t] # << >>
  /\ reqs' = [reqs EXCEPT ![t] = << Head(completed[t]) >>]
  /\ completed' = [completed EXCEPT ![t] = << >>]
  /\ pc' = [pc EXCEPT ![t] = "process"]
  /\ UNCHANGED <<ret, cur, nr_submitted, nr_completed, inflight, waiting,
                 held, atDevice>>

\* ... or it takes everything that has completed.
Collect(t) ==
  /\ pc[t] = "wait" /\ completed[t] # << >>
  /\ reqs' = [reqs EXCEPT ![t] = completed[t]]
  /\ completed' = [completed EXCEPT ![t] = << >>]
  /\ pc' = [pc EXCEPT ![t] = "process"]
  /\ UNCHANGED <<ret, cur, nr_submitted, nr_completed, inflight, waiting,
                 held, atDevice>>

\* Variant: inflight_requests is not decremented.
ProcessCompletedRequestUncounted(t) ==
  /\ pc[t] = "process" /\ reqs[t] # << >>
  /\ nr_completed' = [nr_completed EXCEPT ![t] = @ + 1]
  /\ held' = [held EXCEPT ![t] = @ \ {Head(reqs[t])}]
  /\ reqs' = [reqs EXCEPT ![t] = Tail(@)]
  /\ pc' = [pc EXCEPT ![t] = "drain"]
  /\ UNCHANGED <<ret, cur, nr_submitted, inflight, waiting, completed,
                 atDevice>>

\* process_completed_request, to its while loop.
ProcessCompletedRequest(t) ==
  /\ pc[t] = "process" /\ reqs[t] # << >>
  /\ inflight' = [inflight EXCEPT ![t] = @ - 1]
  /\ nr_completed' = [nr_completed EXCEPT ![t] = @ + 1]
  /\ held' = [held EXCEPT ![t] = @ \ {Head(reqs[t])}]
  /\ reqs' = [reqs EXCEPT ![t] = Tail(@)]
  /\ pc' = [pc EXCEPT ![t] = "drain"]
  /\ UNCHANGED <<ret, cur, nr_submitted, waiting, completed, atDevice>>

BatchProcessed(t) ==
  /\ pc[t] = "process" /\ reqs[t] = << >>
  /\ pc' = [pc EXCEPT ![t] = "loop"]
  /\ UNCHANGED <<ret, cur, nr_submitted, nr_completed, inflight, waiting,
                 completed, reqs, held, atDevice>>

\* Variant: one slot of the device is left unused.
CanDrainOffByOne(t) == waiting[t] # << >> /\ inflight[t] + 1 < QueueDepth

\* process_completed_request's loop: a waiting request and room for it.
CanDrain(t) == waiting[t] # << >> /\ inflight[t] < QueueDepth

\* Variant: the request that waited least goes first.
DrainWaitingLast(t) ==
  /\ pc[t] = "drain" /\ CanDrain(t)
  /\ waiting' = [waiting EXCEPT ![t] = SubSeq(@, 1, Len(@) - 1)]
  /\ CallSubmitToDevice(t, waiting[t][Len(waiting[t])], "drain")
  /\ UNCHANGED <<nr_submitted, nr_completed, completed, reqs, held, atDevice>>

DrainWaiting(t) ==
  /\ pc[t] = "drain" /\ CanDrain(t)
  /\ waiting' = [waiting EXCEPT ![t] = Tail(@)]
  /\ CallSubmitToDevice(t, Head(waiting[t]), "drain")
  /\ UNCHANGED <<nr_submitted, nr_completed, completed, reqs, held, atDevice>>

\* Variant: one request more than request_count.
OnRequestCompletedOffByOne(t) ==
  /\ pc[t] = "drain" /\ ~CanDrain(t)
  /\ IF nr_submitted[t] <= RequestCount
     THEN SubmitIoRequest(t, "process")
     ELSE /\ pc' = [pc EXCEPT ![t] = "process"]
          /\ UNCHANGED <<ret, cur, nr_submitted, inflight, waiting, held>>
  /\ UNCHANGED <<nr_completed, completed, reqs, atDevice>>

\* on_request_completed: a new request for the one that completed.
OnRequestCompleted(t) ==
  /\ pc[t] = "drain" /\ ~CanDrain(t)
  /\ IF nr_submitted[t] < RequestCount
     THEN SubmitIoRequest(t, "process")
     ELSE /\ pc' = [pc EXCEPT ![t] = "process"]
          /\ UNCHANGED <<ret, cur, nr_submitted, inflight, waiting, held>>
  /\ UNCHANGED <<nr_completed, completed, reqs, atDevice>>

\* Variant: the condition variable is not notified.
NotifyRequestCompletionSilent(t, r) ==
  /\ completed' = [completed EXCEPT ![t] = Append(@, r)]
  /\ atDevice' = [atDevice EXCEPT ![t] = @ \ {r}]
  /\ UNCHANGED <<pc, ret, cur, nr_submitted, nr_completed, inflight, waiting,
                 reqs, held>>

\* notify_request_completion(r), on the receive thread.
NotifyRequestCompletion(t, r) ==
  /\ completed' = [completed EXCEPT ![t] = Append(@, r)]
  /\ atDevice' = [atDevice EXCEPT ![t] = @ \ {r}]
  /\ pc' = [pc EXCEPT ![t] = IF @ = "asleep" THEN "wait" ELSE @]
  /\ UNCHANGED <<ret, cur, nr_submitted, nr_completed, inflight, waiting,
                 reqs, held>>

\* The driver calls the callback of each request handed to it once.
Complete(t, r) == r \in atDevice[t] /\ NotifyRequestCompletion(t, r)

-----------------------------------------------------------------------------
\* The steps between two calls into the driver.
Internal(t) ==
  \/ SubmitLoop(t)
  \/ SubmitLoopEnds(t)
  \/ LoopTest(t)
  \/ Sleep(t)
  \/ Collect(t)
  \/ ProcessCompletedRequest(t)
  \/ BatchProcessed(t)
  \/ DrainWaiting(t)
  \/ OnRequestCompleted(t)

Requests == 1 .. (IF Avg > RequestCount THEN Avg ELSE RequestCount)

Terminating == (\A t \in Threads : pc[t] = "done") /\ UNCHANGED vars

Next ==
  \/ \E t \in Threads :
       \/ Internal(t) \/ SpuriousWakeup(t) \/ SubmitToDevice(t)
       \/ \E r \in Requests : Complete(t, r)
  \/ Terminating

Spec == Init /\ [][Next]_vars

\* Every thread is scheduled, and the driver answers every request.
Fairness ==
  \A t \in Threads :
    /\ WF_vars(Internal(t) \/ SubmitToDevice(t))
    /\ \A r \in Requests : WF_vars(Complete(t, r))

FairSpec == Spec /\ Fairness

-----------------------------------------------------------------------------
(* Properties. *)

\* The request submit_to_device is about to hand over.
Calling(t) == IF pc[t] = "device" THEN {cur[t]} ELSE {}

\* inflight_requests, which only the thread itself updates, long after the
\* completion arrived on another thread, counts exactly the requests between
\* submit_to_device and process_completed_request, and stays within queue_depth:
\* the rings have no test of their own.
InflightExact ==
  \A t \in Threads :
    /\ inflight[t] = Cardinality(atDevice[t]) + Len(completed[t])
                       + Len(reqs[t]) + Cardinality(Calling(t))
    /\ inflight[t] <= QueueDepth

\* A request is in one place only, wherever it is its buffer is allocated,
\* and no buffer outlives its request: none is freed under the device's
\* hands, none is freed twice, none leaks.
BufferHeldWhileOutstanding ==
  \A t \in Threads :
    LET places == << Elems(waiting[t]), Calling(t), atDevice[t],
                     Elems(completed[t]), Elems(reqs[t]) >>
    IN /\ held[t] = UNION Elems(places)
       /\ \A i, j \in 1 .. 5 : i # j => places[i] \cap places[j] = {}
       /\ Cardinality(held[t]) = nr_submitted[t] - nr_completed[t]

\* No request waits while the device has room for it.
WorkConserving ==
  \A t \in Threads :
    pc[t] \in {"loop", "wait", "asleep", "process"} /\ waiting[t] # << >>
      => inflight[t] = QueueDepth

\* Requests go to the device in the order of their submission: none overtakes
\* the waiting queue.
InOrderDispatch ==
  \A t \in Threads :
    \A w \in Elems(waiting[t]) :
      \A r \in held[t] \ Elems(waiting[t]) : r < w

\* The closed loop: whenever the thread waits, each completed request has been
\* replaced, so Avg of them are outstanding until the last are submitted.
ClosedLoop ==
  \A t \in Threads :
    pc[t] \in {"wait", "asleep"} =>
      nr_submitted[t] =
        LET n == nr_completed[t] + Avg IN
        IF n < RequestCount THEN n
        ELSE IF RequestCount < Avg THEN Avg ELSE RequestCount

\* Every thread finishes, having missed no notification it slept for, and with
\* nothing outstanding: no callback is left that would touch its members later.
EveryThreadFinishes ==
  <>(\A t \in Threads : pc[t] = "done" /\ held[t] = {} /\ atDevice[t] = {})

=============================================================================

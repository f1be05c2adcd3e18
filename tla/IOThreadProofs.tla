--------------------------- MODULE IOThreadProofs ---------------------------
(***************************************************************************)
(* Theorems about IOThread, for any number of threads, any queue depth and *)
(* any workload.  A thread's variables are its own, so the invariant is    *)
(* one of each thread; only the callbacks reach in from outside.           *)
(***************************************************************************)
EXTENDS IOThread, FiniteSetTheorems, SequenceTheorems, TLAPS

-----------------------------------------------------------------------------
(* The inductive invariant. *)

Types ==
  /\ pc \in [Threads -> PC]
  /\ ret \in [Threads -> {"start", "drain", "process"}]
  /\ cur \in [Threads -> Nat]
  /\ nr_submitted \in [Threads -> Nat]
  /\ nr_completed \in [Threads -> Nat]
  /\ inflight \in [Threads -> Nat]
  /\ waiting \in [Threads -> Seq(Nat)]
  /\ completed \in [Threads -> Seq(Nat)]
  /\ reqs \in [Threads -> Seq(Nat)]
  /\ held \in [Threads -> SUBSET Nat]
  /\ atDevice \in [Threads -> SUBSET Nat]

Distinct(s) == \A i, j \in 1 .. Len(s) : s[i] = s[j] => i = j
Sorted(s)   == \A i, j \in 1 .. Len(s) : i < j => s[i] < s[j]

\* A request is in one of five places, once, as long as its buffer is held.
Places(t) ==
  LET w == Elems(waiting[t])
      c == Calling(t)
      d == atDevice[t]
      e == Elems(completed[t])
      r == Elems(reqs[t])
  IN /\ held[t] = w \cup c \cup d \cup e \cup r
     /\ w \cap c = {} /\ w \cap d = {} /\ w \cap e = {} /\ w \cap r = {}
     /\ c \cap d = {} /\ c \cap e = {} /\ c \cap r = {}
     /\ d \cap e = {} /\ d \cap r = {} /\ e \cap r = {}
     /\ Distinct(completed[t]) /\ Distinct(reqs[t])

\* Buffers are those of the requests submitted and not completed.
Buffers(t) ==
  /\ held[t] \subseteq 1 .. nr_submitted[t]
  /\ Cardinality(held[t]) = nr_submitted[t] - nr_completed[t]

Counted(t) ==
  /\ inflight[t] = Cardinality(atDevice[t]) + Len(completed[t])
                     + Len(reqs[t]) + (IF pc[t] = "device" THEN 1 ELSE 0)
  /\ inflight[t] <= QueueDepth

\* Outside the processing of a batch there is none.
Idle(t) ==
  \/ pc[t] \in {"start", "loop", "wait", "asleep"}
  \/ pc[t] = "device" /\ ret[t] = "start"

Batch(t) == Idle(t) => reqs[t] = << >>

\* process_completed_request has filled the slot that became free.
Room(t) ==
  Idle(t) \/ pc[t] = "process" \/ (pc[t] = "device" /\ ret[t] = "process")
    => (waiting[t] # << >> => inflight[t] = QueueDepth)

Order(t) ==
  /\ Sorted(waiting[t])
  /\ \A w \in Elems(waiting[t]) : \A r \in held[t] \ Elems(waiting[t]) : r < w

\* The requests submitted by the time n have been replaced.
Target(n) ==
  IF n + Avg < RequestCount THEN n + Avg
  ELSE IF RequestCount < Avg THEN Avg ELSE RequestCount

\* The first batch, then a request for each completed one; in
\* process_completed_request's loop the last is not replaced yet.
Replaced(t) ==
  /\ pc[t] = "start" \/ (pc[t] = "device" /\ ret[t] = "start")
       => nr_completed[t] = 0 /\ nr_submitted[t] <= Avg
  /\ pc[t] \in {"loop", "wait", "asleep", "process"}
       \/ (pc[t] = "device" /\ ret[t] = "process")
       => nr_submitted[t] = Target(nr_completed[t])
  /\ pc[t] = "drain" \/ (pc[t] = "device" /\ ret[t] = "drain")
       => nr_submitted[t] = Target(nr_completed[t] - 1)

ThreadInv(t) ==
  /\ Places(t) /\ Buffers(t) /\ Counted(t) /\ Batch(t)
  /\ Room(t) /\ Order(t) /\ Replaced(t)

IInv == Types /\ \A t \in Threads : ThreadInv(t)

-----------------------------------------------------------------------------
(* Sequences of requests. *)

LEMMA ElemsOf ==
  ASSUME NEW s \in Seq(Nat)
  PROVE  /\ Elems(s) = {s[i] : i \in 1 .. Len(s)}
         /\ Elems(s) \subseteq Nat
         /\ Len(s) \in Nat
         /\ s = << >> <=> Elems(s) = {}
         /\ s = << >> <=> Len(s) = 0
<1>1. DOMAIN s = 1 .. Len(s) /\ Len(s) \in Nat /\ s \in [1 .. Len(s) -> Nat]
  BY LenProperties
<1>2. s # << >> => Len(s) > 0
  BY <1>1, EmptySeq
<1>3. s = << >> => Len(s) = 0
  OBVIOUS
<1>4. Elems(s) = {s[i] : i \in 1 .. Len(s)}
  BY <1>1 DEF Elems
<1>5. Len(s) > 0 => s[1] \in Elems(s)
  BY <1>1, <1>4
<1>6. Len(s) = 0 => Elems(s) = {}
  BY <1>4
<1> QED
  BY <1>1, <1>2, <1>3, <1>4, <1>5, <1>6

LEMMA ElemsAppend ==
  ASSUME NEW s \in Seq(Nat), NEW e \in Nat
  PROVE  /\ Append(s, e) \in Seq(Nat)
         /\ Append(s, e) # << >>
         /\ Len(Append(s, e)) = Len(s) + 1
         /\ Elems(Append(s, e)) = Elems(s) \cup {e}
         /\ Distinct(s) /\ e \notin Elems(s) => Distinct(Append(s, e))
         /\ Sorted(s) /\ (\A x \in Elems(s) : x < e) => Sorted(Append(s, e))
<1> DEFINE a == Append(s, e)
<1>1. /\ a \in Seq(Nat) /\ a # << >> /\ Len(a) = Len(s) + 1
      /\ \A i \in 1 .. Len(s) : a[i] = s[i]
      /\ a[Len(s) + 1] = e
  BY AppendProperties
<1>2. Len(s) \in Nat
  BY LenProperties
<1>3. /\ Elems(a) = {a[i] : i \in 1 .. Len(s) + 1}
      /\ Elems(s) = {s[i] : i \in 1 .. Len(s)}
  BY <1>1, ElemsOf
<1> HIDE DEF a
<1>4. Elems(a) = Elems(s) \cup {e}
  BY <1>1, <1>2, <1>3, SMTT(20)
<1>5. \A i \in 1 .. Len(s) : s[i] \in Elems(s)
  BY <1>3
<1>6. \A i \in 1 .. Len(a) : i \in 1 .. Len(s) \/ i = Len(s) + 1
  BY <1>1, <1>2
<1>7. Distinct(s) /\ e \notin Elems(s) => Distinct(a)
  BY <1>5, <1>1, <1>2, <1>6 DEF Distinct
<1>8. Sorted(s) /\ (\A x \in Elems(s) : x < e) => Sorted(a)
  <2> SUFFICES ASSUME Sorted(s), \A x \in Elems(s) : x < e,
                      NEW i \in 1 .. Len(a), NEW j \in 1 .. Len(a), i < j
               PROVE  a[i] < a[j]
    BY DEF Sorted
  <2>1. i \in 1 .. Len(s)
    BY <1>1, <1>2
  <2>2. CASE j \in 1 .. Len(s)
    BY <1>1, <2>1, <2>2 DEF Sorted
  <2>3. CASE j = Len(s) + 1
    BY <1>5, <1>1, <2>1, <2>3
  <2> QED
    BY <1>6, <2>2, <2>3
<1> QED
  BY <1>1, <1>4, <1>7, <1>8 DEF a

LEMMA ElemsTail ==
  ASSUME NEW s \in Seq(Nat), s # << >>
  PROVE  /\ Head(s) \in Nat /\ Head(s) \in Elems(s)
         /\ Tail(s) \in Seq(Nat)
         /\ Len(Tail(s)) = Len(s) - 1
         /\ Elems(s) = Elems(Tail(s)) \cup {Head(s)}
         /\ Distinct(s) => Head(s) \notin Elems(Tail(s)) /\ Distinct(Tail(s))
         /\ Sorted(s) => Sorted(Tail(s)) /\ \A x \in Elems(Tail(s)) : Head(s) < x
<1> DEFINE r == Tail(s)
<1>1. /\ r \in Seq(Nat) /\ Len(r) = Len(s) - 1 /\ Head(s) \in Nat
      /\ \A i \in 1 .. Len(r) : r[i] = s[i + 1]
  BY HeadTailProperties
<1>2. Len(s) \in Nat \ {0} /\ Head(s) = s[1]
  BY EmptySeq
<1>3. /\ Elems(r) = {r[i] : i \in 1 .. Len(r)}
      /\ Elems(s) = {s[i] : i \in 1 .. Len(s)}
  BY <1>1, ElemsOf
<1> HIDE DEF r
<1>4. Elems(s) \subseteq Elems(r) \cup {Head(s)}
  <2> SUFFICES ASSUME NEW i \in 1 .. Len(s) PROVE s[i] \in Elems(r) \cup {Head(s)}
    BY <1>3
  <2>1. CASE i = 1
    BY <2>1, <1>2
  <2>2. CASE i # 1
    <3>1. i - 1 \in 1 .. Len(r) /\ r[i - 1] = s[i]
      BY <1>1, <1>2, <2>2
    <3> QED
      BY <3>1, <1>3
  <2> QED
    BY <2>1, <2>2
<1>5. Elems(r) \cup {Head(s)} \subseteq Elems(s)
  BY <1>1, <1>2, <1>3
<1>6. \A i \in 1 .. Len(r) : /\ i + 1 \in 1 .. Len(s) /\ i + 1 > 1
                              /\ r[i] = s[i + 1]
  BY <1>1, <1>2
<1>7. Distinct(s) => Head(s) \notin Elems(r) /\ Distinct(r)
  <2> SUFFICES ASSUME Distinct(s) PROVE Head(s) \notin Elems(r) /\ Distinct(r)
    OBVIOUS
  <2>1. 1 \in 1 .. Len(s)
    BY <1>2
  <2>2. \A i \in 1 .. Len(r) : r[i] # s[1]
    BY <1>6, <2>1 DEF Distinct
  <2>3. Distinct(r)
    <3> SUFFICES ASSUME NEW i \in 1 .. Len(r), NEW j \in 1 .. Len(r), r[i] = r[j]
                 PROVE  i = j
      BY DEF Distinct
    <3>1. s[i + 1] = s[j + 1] => i + 1 = j + 1
      BY <1>6 DEF Distinct
    <3> QED
      BY <1>6, <3>1
  <2> QED
    BY <1>2, <1>3, <2>2, <2>3
<1>8. Sorted(s) => Sorted(r) /\ \A x \in Elems(r) : Head(s) < x
  <2> SUFFICES ASSUME Sorted(s)
               PROVE  Sorted(r) /\ \A x \in Elems(r) : Head(s) < x
    OBVIOUS
  <2>1. 1 \in 1 .. Len(s)
    BY <1>2
  <2>2. \A i \in 1 .. Len(r) : s[1] < r[i]
    BY <1>6, <2>1 DEF Sorted
  <2>3. Sorted(r)
    <3> SUFFICES ASSUME NEW i \in 1 .. Len(r), NEW j \in 1 .. Len(r), i < j
                 PROVE  r[i] < r[j]
      BY DEF Sorted
    <3>1. i + 1 < j + 1
      OBVIOUS
    <3> QED
      BY <1>6, <3>1 DEF Sorted
  <2> QED
    BY <1>2, <1>3, <2>2, <2>3
<1> QED
  BY <1>1, <1>2, <1>4, <1>5, <1>7, <1>8 DEF r

\* The places of requests are finite: there are only so many requests.
LEMMA PlacesFinite ==
  ASSUME Types, NEW t \in Threads, Places(t), Buffers(t)
  PROVE  /\ IsFiniteSet(held[t]) /\ IsFiniteSet(atDevice[t])
         /\ Cardinality(held[t]) \in Nat /\ Cardinality(atDevice[t]) \in Nat
<1>1. nr_submitted[t] \in Nat
  BY DEF Types
<1>2. IsFiniteSet(1 .. nr_submitted[t])
  BY <1>1, FS_Interval
<1>3. held[t] \in SUBSET (1 .. nr_submitted[t]) /\ atDevice[t] \in SUBSET held[t]
  BY DEF Places, Buffers
<1>4. IsFiniteSet(held[t])
  BY <1>2, <1>3, FS_Subset
<1>5. IsFiniteSet(atDevice[t])
  BY <1>3, <1>4, FS_Subset
<1> QED
  BY <1>4, <1>5, FS_CardinalityType

\* A request that completed is in flight until it is processed.
LEMMA InflightPositive ==
  ASSUME Types, NEW t \in Threads, ThreadInv(t), reqs[t] # << >>
  PROVE  inflight[t] - 1 \in Nat
<1>1. Len(reqs[t]) \in Nat \ {0} /\ Len(completed[t]) \in Nat
  BY ElemsOf DEF Types
<1>2. Cardinality(atDevice[t]) \in Nat
  BY PlacesFinite DEF ThreadInv
<1>3. (IF pc[t] = "device" THEN 1 ELSE 0) \in Nat
  OBVIOUS
<1> QED
  BY <1>1, <1>2, <1>3 DEF ThreadInv, Counted

-----------------------------------------------------------------------------
(* The steps of other threads, and steps that only move pc. *)

\* The steps of thread t, and the callbacks of its requests.
Step(t) ==
  Internal(t) \/ SpuriousWakeup(t) \/ SubmitToDevice(t)
    \/ \E r \in Requests : Complete(t, r)

\* A step of one thread leaves the others' variables alone.
LEMMA Others ==
  ASSUME Types, NEW t \in Threads, Step(t), NEW u \in Threads, u # t
  PROVE  /\ pc'[u] = pc[u] /\ ret'[u] = ret[u] /\ cur'[u] = cur[u]
         /\ nr_submitted'[u] = nr_submitted[u]
         /\ nr_completed'[u] = nr_completed[u]
         /\ inflight'[u] = inflight[u] /\ waiting'[u] = waiting[u]
         /\ completed'[u] = completed[u] /\ reqs'[u] = reqs[u]
         /\ held'[u] = held[u] /\ atDevice'[u] = atDevice[u]
<1> USE DEF Types
<1>1. CASE SubmitLoop(t)
  BY <1>1, SMTT(20) DEF SubmitLoop, SubmitIoRequest, CallSubmitToDevice
<1>2. CASE SubmitLoopEnds(t)
  BY <1>2 DEF SubmitLoopEnds
<1>3. CASE LoopTest(t)
  BY <1>3 DEF LoopTest
<1>4. CASE Sleep(t)
  BY <1>4 DEF Sleep
<1>5. CASE Collect(t)
  BY <1>5 DEF Collect
<1>6. CASE ProcessCompletedRequest(t)
  BY <1>6 DEF ProcessCompletedRequest
<1>7. CASE BatchProcessed(t)
  BY <1>7 DEF BatchProcessed
<1>8. CASE DrainWaiting(t)
  BY <1>8 DEF DrainWaiting, CallSubmitToDevice
<1>9. CASE OnRequestCompleted(t)
  BY <1>9, SMTT(30) DEF OnRequestCompleted, SubmitIoRequest, CallSubmitToDevice
<1>10. CASE SpuriousWakeup(t)
  BY <1>10 DEF SpuriousWakeup
<1>11. CASE SubmitToDevice(t)
  BY <1>11 DEF SubmitToDevice
<1>12. ASSUME NEW r \in Requests, Complete(t, r)
       PROVE  /\ pc'[u] = pc[u] /\ ret'[u] = ret[u] /\ cur'[u] = cur[u]
              /\ nr_submitted'[u] = nr_submitted[u]
              /\ nr_completed'[u] = nr_completed[u]
              /\ inflight'[u] = inflight[u] /\ waiting'[u] = waiting[u]
              /\ completed'[u] = completed[u] /\ reqs'[u] = reqs[u]
              /\ held'[u] = held[u] /\ atDevice'[u] = atDevice[u]
  BY <1>12 DEF Complete, NotifyRequestCompletion
<1> QED
  BY <1>1, <1>2, <1>3, <1>4, <1>5, <1>6, <1>7, <1>8, <1>9, <1>10, <1>11, <1>12
  DEF Step, Internal

LEMMA Frame ==
  ASSUME NEW u \in Threads, ThreadInv(u),
         pc'[u] = pc[u], ret'[u] = ret[u], cur'[u] = cur[u],
         nr_submitted'[u] = nr_submitted[u],
         nr_completed'[u] = nr_completed[u],
         inflight'[u] = inflight[u], waiting'[u] = waiting[u],
         completed'[u] = completed[u], reqs'[u] = reqs[u],
         held'[u] = held[u], atDevice'[u] = atDevice[u]
  PROVE  ThreadInv(u)'
<1>1. Places(u)'
  BY DEF ThreadInv, Places, Calling
<1>2. Buffers(u)' /\ Counted(u)' /\ Batch(u)' /\ Room(u)' /\ Order(u)'
  BY DEF ThreadInv, Buffers, Counted, Batch, Room, Order, Idle
<1>3. Replaced(u)'
  BY DEF ThreadInv, Replaced
<1> QED
  BY <1>1, <1>2, <1>3 DEF ThreadInv

\* A step that moves pc but not into or out of submit_to_device.
LEMMA Quiet ==
  ASSUME NEW t \in Threads, ThreadInv(t), pc[t] # "device", pc'[t] # "device",
         UNCHANGED <<ret, cur, nr_submitted, nr_completed, inflight, waiting,
                     completed, reqs, held, atDevice>>
  PROVE  (Places(t) /\ Buffers(t) /\ Counted(t) /\ Order(t))'
<1>1. Places(t)'
  BY DEF ThreadInv, Places, Calling
<1> QED
  BY <1>1 DEF ThreadInv, Buffers, Counted, Order

-----------------------------------------------------------------------------
(* Types. *)

LEMMA SubmitTypes ==
  ASSUME Types, NEW t \in Threads, NEW back \in {"start", "process"},
         SubmitIoRequest(t, back),
         UNCHANGED <<nr_completed, completed, reqs, atDevice>>
  PROVE  Types'
<1> USE DEF Types, SubmitIoRequest
<1> DEFINE r == nr_submitted[t] + 1
<1>1. r \in Nat
  OBVIOUS
<1>2. Append(waiting[t], r) \in Seq(Nat)
  BY <1>1, ElemsAppend
<1>3. /\ held' \in [Threads -> SUBSET Nat]
      /\ nr_submitted' \in [Threads -> Nat]
  OBVIOUS
<1>4. CASE inflight[t] >= QueueDepth
  <2>1. waiting' \in [Threads -> Seq(Nat)]
    BY <1>2, <1>4, ZenonT(40)
  <2> QED
    BY <1>3, <1>4, <2>1 DEF PC
<1>5. CASE ~(inflight[t] >= QueueDepth)
  <2>1. CallSubmitToDevice(t, r, back) /\ UNCHANGED waiting
    BY <1>5
  <2>2. cur' \in [Threads -> Nat] /\ inflight' \in [Threads -> Nat]
    BY <1>1, <2>1 DEF CallSubmitToDevice
  <2>3. /\ pc' \in [Threads -> PC]
        /\ ret' \in [Threads -> {"start", "drain", "process"}]
    BY <2>1 DEF CallSubmitToDevice, PC
  <2> QED
    BY <1>3, <2>1, <2>2, <2>3
<1> QED
  BY <1>4, <1>5

LEMMA TypesStep ==
  ASSUME Types, NEW t \in Threads, Step(t), ThreadInv(t)
  PROVE  Types'
<1> USE DEF Types, PC
<1>1. CASE SubmitLoop(t)
  BY <1>1, SubmitTypes DEF SubmitLoop
<1>2. CASE SubmitLoopEnds(t)
  BY <1>2 DEF SubmitLoopEnds
<1>3. CASE LoopTest(t)
  BY <1>3 DEF LoopTest
<1>4. CASE Sleep(t)
  BY <1>4 DEF Sleep
<1>5. CASE Collect(t)
  BY <1>5 DEF Collect
<1>6. CASE ProcessCompletedRequest(t)
  <2>1. inflight[t] - 1 \in Nat
    BY <1>6, InflightPositive DEF ProcessCompletedRequest
  <2>2. Tail(reqs[t]) \in Seq(Nat)
    BY <1>6, ElemsTail DEF ProcessCompletedRequest
  <2>3. inflight' \in [Threads -> Nat] /\ reqs' \in [Threads -> Seq(Nat)]
    BY <1>6, <2>1, <2>2 DEF ProcessCompletedRequest
  <2>4. held' \in [Threads -> SUBSET Nat] /\ nr_completed' \in [Threads -> Nat]
    BY <1>6 DEF ProcessCompletedRequest
  <2> QED
    BY <1>6, <2>3, <2>4 DEF ProcessCompletedRequest
<1>7. CASE BatchProcessed(t)
  BY <1>7 DEF BatchProcessed
<1>8. CASE DrainWaiting(t)
  <2>1. Head(waiting[t]) \in Nat /\ Tail(waiting[t]) \in Seq(Nat)
    BY <1>8, ElemsTail DEF DrainWaiting, CanDrain
  <2>2. /\ waiting' \in [Threads -> Seq(Nat)] /\ cur' \in [Threads -> Nat]
        /\ inflight' \in [Threads -> Nat]
    BY <1>8, <2>1, SMTT(20) DEF DrainWaiting, CallSubmitToDevice
  <2>3. /\ pc' \in [Threads -> PC]
        /\ ret' \in [Threads -> {"start", "drain", "process"}]
    BY <1>8 DEF DrainWaiting, CallSubmitToDevice
  <2> QED
    BY <1>8, <2>2, <2>3 DEF DrainWaiting, CallSubmitToDevice
<1>9. CASE OnRequestCompleted(t)
  <2>1. CASE nr_submitted[t] < RequestCount
    BY <1>9, <2>1, SubmitTypes DEF OnRequestCompleted
  <2>2. CASE ~(nr_submitted[t] < RequestCount)
    BY <1>9, <2>2 DEF OnRequestCompleted
  <2> QED
    BY <2>1, <2>2
<1>10. CASE SpuriousWakeup(t)
  BY <1>10 DEF SpuriousWakeup
<1>11. CASE SubmitToDevice(t)
  BY <1>11 DEF SubmitToDevice
<1>12. ASSUME NEW r \in Requests, Complete(t, r) PROVE Types'
  <2>1. r \in Nat
    BY <1>12 DEF Complete
  <2>2. Append(completed[t], r) \in Seq(Nat)
    BY <2>1, ElemsAppend
  <2> QED
    BY <1>12, <2>2 DEF Complete, NotifyRequestCompletion
<1> QED
  BY <1>1, <1>2, <1>3, <1>4, <1>5, <1>6, <1>7, <1>8, <1>9, <1>10, <1>11, <1>12
  DEF Step, Internal

-----------------------------------------------------------------------------
(* Submission. *)

\* submit_io_request keeps the requests in their places and in order, and lets
\* none wait when there is room.
LEMMA SubmitStep ==
  ASSUME Types, NEW t \in Threads, ThreadInv(t), NEW back \in {"start", "process"},
         pc[t] # "device", waiting[t] # << >> => inflight[t] >= QueueDepth,
         SubmitIoRequest(t, back),
         UNCHANGED <<nr_completed, completed, reqs, atDevice>>
  PROVE  /\ (Places(t) /\ Buffers(t) /\ Counted(t) /\ Order(t))'
         /\ waiting'[t] # << >> => inflight'[t] = QueueDepth
         /\ nr_submitted'[t] = nr_submitted[t] + 1
         /\ pc'[t] = back \/ (pc'[t] = "device" /\ ret'[t] = back)
<1> DEFINE r == nr_submitted[t] + 1
<1>1. /\ r \in Nat /\ inflight[t] \in Nat /\ waiting[t] \in Seq(Nat)
      /\ nr_submitted[t] \in Nat /\ nr_completed[t] \in Nat
      /\ r \notin held[t] /\ \A x \in held[t] : x < r
  BY DEF Types, ThreadInv, Buffers
<1>2. /\ held'[t] = held[t] \cup {r} /\ nr_submitted'[t] = r
      /\ nr_completed'[t] = nr_completed[t]
      /\ completed'[t] = completed[t] /\ reqs'[t] = reqs[t]
      /\ atDevice'[t] = atDevice[t]
  BY DEF Types, SubmitIoRequest
<1>3. Calling(t) = {} /\ Elems(waiting[t]) \subseteq held[t]
  BY DEF ThreadInv, Places, Calling
<1>4. Buffers(t)'
  <2>1. held'[t] \subseteq 1 .. nr_submitted'[t]
    BY <1>1, <1>2 DEF ThreadInv, Buffers
  <2>2. IsFiniteSet(held[t])
    BY PlacesFinite DEF ThreadInv
  <2>3. Cardinality(held[t] \cup {r}) = Cardinality(held[t]) + 1
    BY <1>1, <2>2, FS_AddElement
  <2>4. Cardinality(held[t]) = nr_submitted[t] - nr_completed[t]
    BY DEF ThreadInv, Buffers
  <2> QED
    BY <1>1, <1>2, <2>1, <2>3, <2>4 DEF Buffers
<1>5. CASE inflight[t] >= QueueDepth
  <2>1. /\ waiting'[t] = Append(waiting[t], r) /\ pc'[t] = back
        /\ inflight'[t] = inflight[t]
    BY <1>5 DEF Types, SubmitIoRequest
  <2>2. /\ Elems(waiting'[t]) = Elems(waiting[t]) \cup {r}
        /\ Sorted(waiting'[t])
    BY <1>1, <1>3, <2>1, ElemsAppend DEF ThreadInv, Order
  <2>3. Calling(t)' = {}
    BY <2>1 DEF Calling
  <2>4. Places(t)'
    BY <1>1, <1>2, <1>3, <2>2, <2>3 DEF ThreadInv, Places
  <2>5. Order(t)'
    BY <1>1, <1>2, <2>2 DEF ThreadInv, Order
  <2>6. Counted(t)'
    BY <1>2, <2>1 DEF ThreadInv, Counted
  <2>7. inflight'[t] = QueueDepth
    BY <1>1, <1>5, <2>1, IOThreadAssumption DEF ThreadInv, Counted
  <2> QED
    BY <1>2, <1>4, <2>1, <2>4, <2>5, <2>6, <2>7
<1>6. CASE ~(inflight[t] >= QueueDepth)
  <2>1. /\ waiting'[t] = waiting[t] /\ pc'[t] = "device" /\ ret'[t] = back
        /\ cur'[t] = r /\ inflight'[t] = inflight[t] + 1
    BY <1>6 DEF Types, SubmitIoRequest, CallSubmitToDevice
  <2>2. waiting[t] = << >>
    BY <1>6
  <2>3. Calling(t)' = {r}
    BY <2>1 DEF Calling
  <2>4. Elems(waiting[t]) = {}
    BY <1>1, <2>2, ElemsOf
  <2>5. Places(t)'
    BY <1>1, <1>2, <1>3, <2>1, <2>3 DEF ThreadInv, Places
  <2>6. Order(t)'
    BY <2>1, <2>4 DEF ThreadInv, Order
  <2>7. Counted(t)'
    <3>1. Cardinality(atDevice[t]) \in Nat
      BY PlacesFinite DEF ThreadInv
    <3>2. Len(completed[t]) \in Nat /\ Len(reqs[t]) \in Nat
      BY ElemsOf DEF Types
    <3> QED
      BY <1>1, <1>2, <1>6, <2>1, <3>1, <3>2, IOThreadAssumption
      DEF ThreadInv, Counted
  <2> QED
    BY <1>2, <1>4, <2>1, <2>2, <2>5, <2>6, <2>7
<1> QED
  BY <1>5, <1>6

LEMMA SubmitLoopInv ==
  ASSUME Types, NEW t \in Threads, ThreadInv(t), SubmitLoop(t)
  PROVE  ThreadInv(t)'
<1>1. pc[t] = "start" /\ nr_submitted[t] < Avg
  BY DEF SubmitLoop
<1>2. waiting[t] # << >> => inflight[t] = QueueDepth
  BY <1>1 DEF ThreadInv, Room, Idle
<1>3. waiting[t] # << >> => inflight[t] >= QueueDepth
  BY <1>2, IOThreadAssumption
<1>4. /\ (Places(t) /\ Buffers(t) /\ Counted(t) /\ Order(t))'
      /\ waiting'[t] # << >> => inflight'[t] = QueueDepth
      /\ nr_submitted'[t] = nr_submitted[t] + 1
      /\ pc'[t] = "start" \/ (pc'[t] = "device" /\ ret'[t] = "start")
  BY <1>3, <1>1, SubmitStep DEF SubmitLoop
<1>5. nr_completed'[t] = nr_completed[t] /\ reqs'[t] = reqs[t]
  BY DEF SubmitLoop
<1>6. Batch(t)' /\ Room(t)'
  BY <1>1, <1>4, <1>5 DEF ThreadInv, Batch, Room, Idle
<1>7. Replaced(t)'
  BY <1>1, <1>4, <1>5, IOThreadAssumption DEF Types, ThreadInv, Replaced
<1> QED
  BY <1>4, <1>6, <1>7 DEF ThreadInv

LEMMA OnRequestCompletedInv ==
  ASSUME Types, NEW t \in Threads, ThreadInv(t), OnRequestCompleted(t)
  PROVE  ThreadInv(t)'
<1>1. pc[t] = "drain" /\ ~CanDrain(t)
  BY DEF OnRequestCompleted
<1>2. waiting[t] # << >> => inflight[t] >= QueueDepth
  BY <1>1, IOThreadAssumption DEF CanDrain, Types
<1>3. /\ nr_submitted[t] = Target(nr_completed[t] - 1)
      /\ nr_submitted[t] \in Nat /\ nr_completed[t] \in Nat
  BY <1>1 DEF ThreadInv, Replaced, Types
<1>4. nr_completed'[t] = nr_completed[t] /\ reqs'[t] = reqs[t]
  BY DEF OnRequestCompleted
<1>5. CASE nr_submitted[t] < RequestCount
  <2>1. /\ (Places(t) /\ Buffers(t) /\ Counted(t) /\ Order(t))'
        /\ waiting'[t] # << >> => inflight'[t] = QueueDepth
        /\ nr_submitted'[t] = nr_submitted[t] + 1
        /\ pc'[t] = "process" \/ (pc'[t] = "device" /\ ret'[t] = "process")
    BY <1>1, <1>2, <1>5, SubmitStep DEF OnRequestCompleted
  <2>2. Batch(t)' /\ Room(t)'
    BY <2>1 DEF Batch, Room, Idle
  <2>3. Replaced(t)'
    BY <1>3, <1>4, <1>5, <2>1, IOThreadAssumption DEF Replaced, Target
  <2> QED
    BY <2>1, <2>2, <2>3 DEF ThreadInv
<1>6. CASE ~(nr_submitted[t] < RequestCount)
  <2>1. /\ pc'[t] = "process"
        /\ UNCHANGED <<ret, cur, nr_submitted, nr_completed, inflight, waiting,
                       completed, reqs, held, atDevice>>
    BY <1>6 DEF OnRequestCompleted, Types
  <2>2. (Places(t) /\ Buffers(t) /\ Counted(t) /\ Order(t))'
    BY <1>1, <2>1, Quiet
  <2>3. waiting'[t] # << >> => inflight'[t] = QueueDepth
    BY <1>2, <2>1, IOThreadAssumption DEF ThreadInv, Counted, Types
  <2>4. Batch(t)' /\ Room(t)'
    BY <2>1, <2>3 DEF Batch, Room, Idle
  <2>5. Replaced(t)'
    BY <1>3, <1>6, <2>1, IOThreadAssumption DEF Replaced, Target
  <2> QED
    BY <2>2, <2>4, <2>5 DEF ThreadInv
<1> QED
  BY <1>5, <1>6

-----------------------------------------------------------------------------
(* The other steps. *)

LEMMA QuietInv ==
  ASSUME Types, NEW t \in Threads, ThreadInv(t),
         \/ SubmitLoopEnds(t) \/ LoopTest(t) \/ Sleep(t) \/ SpuriousWakeup(t)
         \/ BatchProcessed(t)
  PROVE  ThreadInv(t)'
<1>1. /\ UNCHANGED <<ret, cur, nr_submitted, nr_completed, inflight, waiting,
                     completed, reqs, held, atDevice>>
      /\ pc[t] # "device" /\ pc'[t] # "device"
  BY DEF Types, SubmitLoopEnds, LoopTest, Sleep, SpuriousWakeup, BatchProcessed
<1>2. (Places(t) /\ Buffers(t) /\ Counted(t) /\ Order(t))'
  BY <1>1, Quiet
<1>3. /\ nr_submitted[t] \in Nat /\ nr_completed[t] \in Nat
      /\ waiting[t] # << >> => inflight[t] = QueueDepth
      /\ reqs[t] = << >>
  BY DEF Types, ThreadInv, Room, Batch, Idle, SubmitLoopEnds, LoopTest, Sleep,
         SpuriousWakeup, BatchProcessed
<1>4. Batch(t)' /\ Room(t)'
  BY <1>1, <1>3 DEF Batch, Room
<1>5. pc'[t] \in {"loop", "wait", "asleep", "done"}
  BY DEF Types, SubmitLoopEnds, LoopTest, Sleep, SpuriousWakeup, BatchProcessed
<1>6. pc'[t] # "done" => nr_submitted[t] = Target(nr_completed[t])
  <2>1. CASE SubmitLoopEnds(t)
    BY <1>3, <2>1, IOThreadAssumption
    DEF SubmitLoopEnds, ThreadInv, Replaced, Target
  <2>2. CASE ~SubmitLoopEnds(t)
    <3>1. pc[t] \in {"loop", "wait", "asleep", "process"}
      BY <2>2 DEF LoopTest, Sleep, SpuriousWakeup, BatchProcessed
    <3> QED
      BY <3>1 DEF ThreadInv, Replaced
  <2> QED
    BY <2>1, <2>2
<1>7. Replaced(t)'
  BY <1>1, <1>5, <1>6 DEF Replaced, Target
<1> QED
  BY <1>2, <1>4, <1>7 DEF ThreadInv

\* wait_for_completed_requests takes over all that completed.
LEMMA CollectInv ==
  ASSUME Types, NEW t \in Threads, ThreadInv(t), Collect(t)
  PROVE  ThreadInv(t)'
<1>1. /\ pc[t] = "wait" /\ pc'[t] = "process"
      /\ reqs[t] = << >> /\ reqs'[t] = completed[t] /\ completed'[t] = << >>
      /\ UNCHANGED <<ret, cur, nr_submitted, nr_completed, inflight, waiting,
                     held, atDevice>>
  BY DEF Types, Collect, ThreadInv, Batch, Idle
<1>2. /\ Elems(reqs'[t]) = Elems(completed[t]) /\ Elems(completed'[t]) = {}
      /\ Elems(reqs[t]) = {}
      /\ Calling(t) = {} /\ Calling(t)' = {}
  BY <1>1, EmptySeq, ElemsOf DEF Calling, Elems
<1>3. Distinct(completed'[t]) /\ Distinct(reqs'[t])
  BY <1>1 DEF Distinct, ThreadInv, Places
<1>4. Places(t)'
  BY <1>1, <1>2, <1>3 DEF ThreadInv, Places
<1>5. Counted(t)'
  <2>1. Cardinality(atDevice[t]) \in Nat /\ Len(completed[t]) \in Nat
    BY PlacesFinite, ElemsOf DEF ThreadInv, Types
  <2> QED
    BY <1>1, <2>1 DEF ThreadInv, Counted
<1>6. Buffers(t)' /\ Order(t)'
  BY <1>1 DEF ThreadInv, Buffers, Order
<1>7. Batch(t)' /\ Room(t)' /\ Replaced(t)'
  BY <1>1 DEF ThreadInv, Batch, Room, Idle, Replaced, Target
<1> QED
  BY <1>4, <1>5, <1>6, <1>7 DEF ThreadInv

\* process_completed_request frees the buffer of one request, which is nowhere
\* else.
LEMMA ProcessInv ==
  ASSUME Types, NEW t \in Threads, ThreadInv(t), ProcessCompletedRequest(t)
  PROVE  ThreadInv(t)'
<1> DEFINE r == Head(reqs[t])
<1>1. /\ pc[t] = "process" /\ pc'[t] = "drain" /\ reqs[t] # << >>
      /\ inflight'[t] = inflight[t] - 1
      /\ nr_completed'[t] = nr_completed[t] + 1
      /\ held'[t] = held[t] \ {r} /\ reqs'[t] = Tail(reqs[t])
      /\ UNCHANGED <<ret, cur, nr_submitted, waiting, completed, atDevice>>
  BY DEF Types, ProcessCompletedRequest
<1>2. /\ r \in Elems(reqs[t])
      /\ Elems(reqs[t]) = Elems(Tail(reqs[t])) \cup {r}
      /\ Len(Tail(reqs[t])) = Len(reqs[t]) - 1
      /\ Distinct(reqs[t]) => r \notin Elems(Tail(reqs[t]))
                                /\ Distinct(Tail(reqs[t]))
  BY <1>1, ElemsTail DEF Types
<1>3. Calling(t) = {} /\ Calling(t)' = {}
  BY <1>1 DEF Calling
<1>4. Places(t)'
  BY <1>1, <1>2, <1>3 DEF ThreadInv, Places
<1>5. Buffers(t)'
  <2>1. r \in held[t]
    BY <1>2 DEF ThreadInv, Places
  <2>2. IsFiniteSet(held[t])
    BY PlacesFinite DEF ThreadInv
  <2>3. Cardinality(held[t] \ {r}) = Cardinality(held[t]) - 1
    BY <2>1, <2>2, FS_RemoveElement
  <2>4. /\ held[t] \subseteq 1 .. nr_submitted[t]
        /\ Cardinality(held[t]) = nr_submitted[t] - nr_completed[t]
        /\ nr_submitted[t] \in Nat /\ nr_completed[t] \in Nat
    BY DEF ThreadInv, Buffers, Types
  <2>5. Cardinality(held'[t]) = nr_submitted[t] - (nr_completed[t] + 1)
    BY <1>1, <2>3, <2>4
  <2> QED
    BY <1>1, <2>4, <2>5 DEF Buffers
<1>6. Counted(t)'
  <2>1. /\ Cardinality(atDevice[t]) \in Nat /\ Len(completed[t]) \in Nat
        /\ Len(reqs[t]) \in Nat
    BY PlacesFinite, ElemsOf DEF ThreadInv, Types
  <2>2. /\ inflight[t] = Cardinality(atDevice[t]) + Len(completed[t]) + Len(reqs[t])
        /\ inflight[t] <= QueueDepth
    BY <1>1, <2>1 DEF ThreadInv, Counted
  <2>3. /\ inflight'[t] = Cardinality(atDevice[t]) + Len(completed[t])
                            + (Len(reqs[t]) - 1)
        /\ inflight'[t] <= QueueDepth
    BY <1>1, <2>1, <2>2, IOThreadAssumption
  <2> QED
    BY <1>1, <1>2, <2>1, <2>3 DEF Counted
<1>7. Order(t)'
  BY <1>1 DEF ThreadInv, Order
<1>8. Batch(t)' /\ Room(t)'
  BY <1>1 DEF Batch, Room, Idle
<1>9. Replaced(t)'
  <2>1. nr_completed'[t] - 1 = nr_completed[t]
    BY <1>1 DEF Types
  <2>2. nr_submitted'[t] = Target(nr_completed'[t] - 1)
    BY <1>1, <2>1 DEF ThreadInv, Replaced
  <2> QED
    BY <1>1, <2>2 DEF Replaced, Target
<1> QED
  BY <1>4, <1>5, <1>6, <1>7, <1>8, <1>9 DEF ThreadInv

\* process_completed_request submits the request that waited longest.
LEMMA DrainInv ==
  ASSUME Types, NEW t \in Threads, ThreadInv(t), DrainWaiting(t)
  PROVE  ThreadInv(t)'
<1> DEFINE r == Head(waiting[t])
<1>1. /\ pc[t] = "drain" /\ pc'[t] = "device" /\ ret'[t] = "drain"
      /\ waiting[t] # << >> /\ waiting'[t] = Tail(waiting[t])
      /\ cur'[t] = r /\ inflight[t] < QueueDepth
      /\ inflight'[t] = inflight[t] + 1
      /\ UNCHANGED <<nr_submitted, nr_completed, completed, reqs, held,
                     atDevice>>
  BY DEF Types, DrainWaiting, CanDrain, CallSubmitToDevice
<1>2. Sorted(waiting[t])
  BY DEF ThreadInv, Order
<1>3. /\ r \in Elems(waiting[t]) /\ r \in Nat
      /\ Elems(waiting[t]) = Elems(waiting'[t]) \cup {r}
      /\ Sorted(waiting'[t]) /\ \A x \in Elems(waiting'[t]) : r < x
      /\ Elems(waiting'[t]) \subseteq Nat
  <2>1. waiting[t] \in Seq(Nat) /\ waiting[t] # << >>
    BY <1>1 DEF Types
  <2>2. /\ r \in Elems(waiting[t]) /\ r \in Nat /\ waiting'[t] \in Seq(Nat)
        /\ Elems(waiting[t]) = Elems(waiting'[t]) \cup {r}
        /\ Sorted(waiting'[t]) /\ \A x \in Elems(waiting'[t]) : r < x
    BY <1>1, <1>2, <2>1, ElemsTail
  <2> QED
    BY <2>2, ElemsOf
<1>4. r \notin Elems(waiting'[t])
  BY <1>3
<1>5. Calling(t) = {} /\ Calling(t)' = {r}
  BY <1>1 DEF Calling
<1>6. Places(t)'
  BY <1>1, <1>3, <1>4, <1>5 DEF ThreadInv, Places
<1>7. Counted(t)'
  <2>1. /\ Cardinality(atDevice[t]) \in Nat /\ Len(completed[t]) \in Nat
        /\ Len(reqs[t]) \in Nat /\ inflight[t] \in Nat
    BY PlacesFinite, ElemsOf DEF ThreadInv, Types
  <2> QED
    BY <1>1, <2>1, IOThreadAssumption DEF ThreadInv, Counted
<1>8. Order(t)'
  BY <1>1, <1>3 DEF ThreadInv, Order
<1>9. Buffers(t)' /\ Batch(t)' /\ Room(t)' /\ Replaced(t)'
  BY <1>1 DEF ThreadInv, Buffers, Batch, Room, Idle, Replaced, Target
<1> QED
  BY <1>6, <1>7, <1>8, <1>9 DEF ThreadInv

\* submit_to_device hands over the request it was called with.
LEMMA SubmitToDeviceInv ==
  ASSUME Types, NEW t \in Threads, ThreadInv(t), SubmitToDevice(t)
  PROVE  ThreadInv(t)'
<1>1. /\ pc[t] = "device" /\ pc'[t] = ret[t]
      /\ ret[t] \in {"start", "drain", "process"}
      /\ atDevice'[t] = atDevice[t] \cup {cur[t]}
      /\ UNCHANGED <<ret, cur, nr_submitted, nr_completed, inflight, waiting,
                     completed, reqs, held>>
  BY DEF Types, SubmitToDevice
<1>2. Calling(t) = {cur[t]} /\ Calling(t)' = {}
  BY <1>1 DEF Calling
<1>3. Places(t)'
  BY <1>1, <1>2 DEF ThreadInv, Places
<1>4. Counted(t)'
  <2>1. cur[t] \notin atDevice[t]
    BY <1>2 DEF ThreadInv, Places
  <2>2. IsFiniteSet(atDevice[t])
    BY PlacesFinite DEF ThreadInv
  <2>3. Cardinality(atDevice[t] \cup {cur[t]}) = Cardinality(atDevice[t]) + 1
    BY <2>1, <2>2, FS_AddElement
  <2>4. /\ Cardinality(atDevice[t]) \in Nat /\ Len(completed[t]) \in Nat
        /\ Len(reqs[t]) \in Nat
    BY PlacesFinite, ElemsOf DEF ThreadInv, Types
  <2>5. /\ inflight[t] = Cardinality(atDevice[t]) + Len(completed[t])
                           + Len(reqs[t]) + 1
        /\ inflight[t] <= QueueDepth
    BY <1>1 DEF ThreadInv, Counted
  <2>6. inflight'[t] = Cardinality(atDevice'[t]) + Len(completed[t])
                         + Len(reqs[t]) + 0
    BY <1>1, <2>3, <2>4, <2>5
  <2> QED
    BY <1>1, <2>5, <2>6 DEF Counted
<1>5. Buffers(t)' /\ Order(t)'
  BY <1>1 DEF ThreadInv, Buffers, Order
<1>6. Batch(t)' /\ Room(t)' /\ Replaced(t)'
  BY <1>1 DEF ThreadInv, Batch, Room, Idle, Replaced, Target
<1> QED
  BY <1>3, <1>4, <1>5, <1>6 DEF ThreadInv

\* A callback moves its request from the device to the completed ones, wherever
\* the thread is.
LEMMA CompleteInv ==
  ASSUME Types, NEW t \in Threads, ThreadInv(t), NEW r \in Requests,
         Complete(t, r)
  PROVE  ThreadInv(t)'
<1>1. /\ r \in atDevice[t] /\ r \in Nat
      /\ completed'[t] = Append(completed[t], r)
      /\ atDevice'[t] = atDevice[t] \ {r}
      /\ pc'[t] = IF pc[t] = "asleep" THEN "wait" ELSE pc[t]
      /\ UNCHANGED <<ret, cur, nr_submitted, nr_completed, inflight, waiting,
                     reqs, held>>
  BY DEF Types, Complete, NotifyRequestCompletion
<1>2. r \notin Elems(completed[t]) /\ Distinct(completed[t])
  BY <1>1 DEF ThreadInv, Places
<1>3. /\ Elems(completed'[t]) = Elems(completed[t]) \cup {r}
      /\ Distinct(completed'[t])
      /\ Len(completed'[t]) = Len(completed[t]) + 1
  BY <1>1, <1>2, ElemsAppend DEF Types
<1>4. Calling(t)' = Calling(t)
  BY <1>1 DEF Calling
<1>5. Places(t)'
  BY <1>1, <1>3, <1>4 DEF ThreadInv, Places
<1>6. Counted(t)'
  <2>1. IsFiniteSet(atDevice[t])
    BY PlacesFinite DEF ThreadInv
  <2>2. Cardinality(atDevice[t] \ {r}) = Cardinality(atDevice[t]) - 1
    BY <1>1, <2>1, FS_RemoveElement
  <2>3. /\ Cardinality(atDevice[t]) \in Nat /\ Len(completed[t]) \in Nat
        /\ Len(reqs[t]) \in Nat
    BY PlacesFinite, ElemsOf DEF ThreadInv, Types
  <2>4. PICK n \in {0, 1} : n = IF pc[t] = "device" THEN 1 ELSE 0
    OBVIOUS
  <2>5. /\ inflight[t] = Cardinality(atDevice[t]) + Len(completed[t])
                           + Len(reqs[t]) + n
        /\ inflight[t] <= QueueDepth
    BY <2>4 DEF ThreadInv, Counted
  <2>6. inflight'[t] = Cardinality(atDevice'[t]) + Len(completed'[t])
                         + Len(reqs[t]) + n
    <3>1. Cardinality(atDevice[t]) + Len(completed[t]) =
            (Cardinality(atDevice[t]) - 1) + (Len(completed[t]) + 1)
      BY <2>3
    <3> QED
      BY <1>1, <1>3, <2>2, <2>5, <3>1
  <2>7. n = IF pc'[t] = "device" THEN 1 ELSE 0
    BY <1>1, <2>4
  <2> QED
    BY <1>1, <2>5, <2>6, <2>7 DEF Counted
<1>7. Buffers(t)' /\ Order(t)'
  BY <1>1 DEF ThreadInv, Buffers, Order
<1>8. Batch(t)' /\ Room(t)'
  BY <1>1 DEF ThreadInv, Batch, Room, Idle
<1>9. Replaced(t)'
  BY <1>1 DEF ThreadInv, Replaced, Target
<1> QED
  BY <1>5, <1>6, <1>7, <1>8, <1>9 DEF ThreadInv

-----------------------------------------------------------------------------
(* The invariant holds, and what follows from it. *)

LEMMA InitIInv == Init => IInv
<1> SUFFICES ASSUME Init PROVE IInv
  OBVIOUS
<1>1. << >> \in Seq(Nat) /\ Len(<< >>) = 0
  BY EmptySeq
<1>2. Types
  BY <1>1 DEF Init, Types, PC
<1>3. Elems(<< >>) = {}
  BY <1>1, ElemsOf
<1>4. ASSUME NEW t \in Threads PROVE ThreadInv(t)
  <2>1. Places(t)
    BY <1>1, <1>3 DEF Init, Places, Calling, Distinct
  <2>2. Buffers(t)
    BY FS_EmptySet DEF Init, Buffers
  <2>3. Counted(t)
    BY <1>1, FS_EmptySet, IOThreadAssumption DEF Init, Counted
  <2>4. Batch(t) /\ Room(t)
    BY DEF Init, Batch, Room
  <2>5. Order(t)
    BY <1>1, <1>3 DEF Init, Order, Sorted
  <2>6. Replaced(t)
    BY IOThreadAssumption DEF Init, Replaced
  <2> QED
    BY <2>1, <2>2, <2>3, <2>4, <2>5, <2>6 DEF ThreadInv
<1> QED
  BY <1>2, <1>4 DEF IInv

LEMMA StepIInv == IInv /\ [Next]_vars => IInv'
<1>1. ASSUME IInv, NEW t \in Threads, Step(t) PROVE IInv'
  <2>1. Types /\ \A u \in Threads : ThreadInv(u)
    BY <1>1 DEF IInv
  <2>2. Types'
    BY <1>1, <2>1, TypesStep
  <2>3. ThreadInv(t)'
    BY <1>1, <2>1, SubmitLoopInv, OnRequestCompletedInv, QuietInv, CollectInv,
       ProcessInv, DrainInv, SubmitToDeviceInv, CompleteInv
    DEF Step, Internal
  <2>4. ASSUME NEW u \in Threads, u # t PROVE ThreadInv(u)'
    BY <1>1, <2>1, <2>4, Others, Frame
  <2> QED
    BY <2>2, <2>3, <2>4 DEF IInv
<1>2. ASSUME IInv, UNCHANGED vars PROVE IInv'
  <2>1. Types'
    BY <1>2 DEF IInv, Types, vars
  <2>2. ASSUME NEW u \in Threads PROVE ThreadInv(u)'
    BY <1>2, Frame DEF IInv, vars
  <2> QED
    BY <2>1, <2>2 DEF IInv
<1> QED
  BY <1>1, <1>2 DEF Next, Terminating, Step

LEMMA Invariance == Spec => []IInv
  BY InitIInv, StepIInv, PTL DEF Spec

\* What a thread hands to the driver, for a module composed of this one: a
\* request of the workload the driver does not have, while it has room.
LEMMA AsksForNew ==
  IInv => \A t \in Threads :
            pc[t] = "device" =>
              /\ cur[t] \in Requests /\ cur[t] \notin atDevice[t]
              /\ IsFiniteSet(atDevice[t])
              /\ Cardinality(atDevice[t]) < QueueDepth
              /\ Cardinality(atDevice[t]) < Avg
<1> SUFFICES ASSUME IInv, NEW t \in Threads, pc[t] = "device"
             PROVE  /\ cur[t] \in Requests /\ cur[t] \notin atDevice[t]
                    /\ IsFiniteSet(atDevice[t])
                    /\ Cardinality(atDevice[t]) < QueueDepth
                    /\ Cardinality(atDevice[t]) < Avg
  OBVIOUS
<1>1. Types /\ ThreadInv(t)
  BY DEF IInv
<1>2. /\ nr_submitted[t] \in Nat /\ nr_completed[t] \in Nat
      /\ Len(completed[t]) \in Nat /\ Len(reqs[t]) \in Nat
  BY <1>1, LenProperties DEF Types
<1>3. /\ IsFiniteSet(held[t]) /\ IsFiniteSet(atDevice[t])
      /\ Cardinality(held[t]) \in Nat /\ Cardinality(atDevice[t]) \in Nat
  BY <1>1, PlacesFinite DEF ThreadInv
<1>4. /\ cur[t] \in held[t] /\ cur[t] \notin atDevice[t]
      /\ atDevice[t] \subseteq held[t]
  BY <1>1 DEF ThreadInv, Places, Calling
<1>5. /\ nr_submitted[t] <= nr_completed[t] + Avg
      /\ nr_submitted[t] <= (IF Avg > RequestCount THEN Avg ELSE RequestCount)
  <2>1. ret[t] \in {"start", "drain", "process"} /\ Replaced(t)
    BY <1>1 DEF Types, ThreadInv
  <2>2. CASE ret[t] = "start"
    BY <1>2, <2>1, <2>2, IOThreadAssumption DEF Replaced
  <2>3. CASE ret[t] = "process"
    <3>1. nr_submitted[t] = Target(nr_completed[t])
      BY <2>1, <2>3 DEF Replaced
    <3> QED
      BY <1>2, <3>1, IOThreadAssumption DEF Target
  <2>4. CASE ret[t] = "drain"
    <3>1. nr_submitted[t] = Target(nr_completed[t] - 1)
      BY <2>1, <2>4 DEF Replaced
    <3> QED
      BY <1>2, <3>1, IOThreadAssumption DEF Target
  <2> QED
    BY <2>1, <2>2, <2>3, <2>4
<1>6. cur[t] \in Requests
  BY <1>1, <1>2, <1>4, <1>5, IOThreadAssumption
  DEF ThreadInv, Buffers, Requests
<1>7. Cardinality(atDevice[t]) < Avg
  <2>1. Cardinality(atDevice[t]) < Cardinality(held[t])
    BY <1>3, <1>4, FS_Subset
  <2> QED
    <3>1. Cardinality(held[t]) = nr_submitted[t] - nr_completed[t]
      BY <1>1 DEF ThreadInv, Buffers
    <3> QED
      BY <1>2, <1>3, <1>5, <2>1, <3>1, IOThreadAssumption
<1>8. Cardinality(atDevice[t]) < QueueDepth
  BY <1>1, <1>2, <1>3, IOThreadAssumption DEF ThreadInv, Counted, Types
<1> QED
  BY <1>3, <1>4, <1>6, <1>7, <1>8

\* The requests a thread has still to hand to the driver.
Due(t) ==
  {r \in Requests : \/ r > nr_submitted[t] \/ r \in Elems(waiting[t])
                    \/ pc[t] = "device" /\ r = cur[t]}

\* No step adds to them, and what submit_to_device hands over leaves them.
LEMMA DueShrinks ==
  ASSUME IInv, [Next]_vars, NEW t \in Threads
  PROVE  /\ Due(t)' \subseteq Due(t)
         /\ SubmitToDevice(t) => cur[t] \notin Due(t)'
<1>1. Types /\ ThreadInv(t)
  BY DEF IInv
<1>2. /\ nr_submitted[t] \in Nat /\ waiting[t] \in Seq(Nat)
      /\ DOMAIN pc = Threads /\ DOMAIN cur = Threads
      /\ DOMAIN waiting = Threads /\ DOMAIN nr_submitted = Threads
  BY <1>1 DEF Types
<1>3. Requests \subseteq Nat
  BY IOThreadAssumption DEF Requests
<1>4. ASSUME pc'[t] = "device" => pc[t] = "device" /\ cur'[t] = cur[t],
             nr_submitted'[t] = nr_submitted[t], waiting'[t] = waiting[t]
      PROVE  Due(t)' \subseteq Due(t)
  BY <1>4 DEF Due
<1>5. ASSUME NEW back, back # "device", SubmitIoRequest(t, back)
      PROVE  Due(t)' \subseteq Due(t)
  <2>1. nr_submitted'[t] = nr_submitted[t] + 1
    BY <1>2, <1>5 DEF SubmitIoRequest
  <2>2. CASE inflight[t] >= QueueDepth
    <3>1. /\ waiting'[t] = Append(waiting[t], nr_submitted[t] + 1)
          /\ pc'[t] = back
      BY <1>2, <1>5, <2>2 DEF SubmitIoRequest
    <3>2. Elems(waiting'[t]) = Elems(waiting[t]) \cup {nr_submitted[t] + 1}
      BY <1>2, <3>1, ElemsAppend
    <3>3. ASSUME NEW r \in Requests, r \in Due(t)' PROVE r \in Due(t)
      BY <1>2, <1>3, <1>5, <2>1, <3>1, <3>2, <3>3 DEF Due
    <3> QED
      BY <3>3 DEF Due
  <2>3. CASE ~(inflight[t] >= QueueDepth)
    <3>1. waiting'[t] = waiting[t] /\ cur'[t] = nr_submitted[t] + 1
      BY <1>2, <1>5, <2>3 DEF SubmitIoRequest, CallSubmitToDevice
    <3>2. ASSUME NEW r \in Requests, r \in Due(t)' PROVE r \in Due(t)
      BY <1>2, <1>3, <2>1, <3>1, <3>2 DEF Due
    <3> QED
      BY <3>2 DEF Due
  <2> QED
    BY <2>2, <2>3
<1>6. ASSUME SubmitLoop(t) PROVE Due(t)' \subseteq Due(t)
  BY <1>5, <1>6 DEF SubmitLoop
<1>7. ASSUME OnRequestCompleted(t) PROVE Due(t)' \subseteq Due(t)
  <2>1. CASE nr_submitted[t] < RequestCount
    BY <1>5, <1>7, <2>1 DEF OnRequestCompleted
  <2>2. CASE ~(nr_submitted[t] < RequestCount)
    BY <1>2, <1>4, <1>7, <2>2 DEF OnRequestCompleted
  <2> QED
    BY <2>1, <2>2
<1>8. ASSUME DrainWaiting(t) PROVE Due(t)' \subseteq Due(t)
  <2>1. /\ waiting[t] # << >> /\ waiting'[t] = Tail(waiting[t])
        /\ cur'[t] = Head(waiting[t]) /\ nr_submitted' = nr_submitted
    BY <1>2, <1>8 DEF DrainWaiting, CanDrain, CallSubmitToDevice
  <2>2. Elems(waiting[t]) = Elems(waiting'[t]) \cup {cur'[t]}
    BY <1>2, <2>1, ElemsTail
  <2> QED
    BY <2>1, <2>2 DEF Due
<1>9. ASSUME \/ SubmitLoopEnds(t) \/ LoopTest(t) \/ Sleep(t) \/ Collect(t)
             \/ ProcessCompletedRequest(t) \/ BatchProcessed(t)
             \/ SpuriousWakeup(t)
      PROVE  Due(t)' \subseteq Due(t)
  <2>1. /\ pc'[t] # "device" /\ nr_submitted' = nr_submitted
        /\ waiting' = waiting
    BY <1>2, <1>9 DEF SubmitLoopEnds, LoopTest, Sleep, Collect,
      ProcessCompletedRequest, BatchProcessed, SpuriousWakeup
  <2> QED
    BY <1>4, <2>1
<1>10. ASSUME SubmitToDevice(t)
       PROVE  Due(t)' \subseteq Due(t) /\ cur[t] \notin Due(t)'
  <2>1. /\ pc[t] = "device" /\ pc'[t] = ret[t] /\ ret[t] # "device"
        /\ nr_submitted' = nr_submitted /\ waiting' = waiting
    BY <1>1, <1>2, <1>10 DEF SubmitToDevice, Types
  <2>2. Due(t)' \subseteq Due(t)
    BY <1>4, <2>1
  <2>3. cur[t] \notin Elems(waiting[t]) /\ cur[t] \in held[t]
    BY <1>1, <2>1 DEF ThreadInv, Places, Calling
  <2>4. cur[t] \in 1 .. nr_submitted[t]
    BY <1>1, <2>3 DEF ThreadInv, Buffers
  <2> QED
    BY <1>2, <2>1, <2>2, <2>3, <2>4 DEF Due
<1>11. ASSUME NEW r \in Requests, Complete(t, r)
       PROVE  Due(t)' \subseteq Due(t)
  <2>1. /\ pc'[t] = "device" => pc[t] = "device"
        /\ cur' = cur /\ nr_submitted' = nr_submitted /\ waiting' = waiting
    BY <1>2, <1>11 DEF Complete, NotifyRequestCompletion
  <2> QED
    BY <1>4, <2>1
<1>12. ASSUME UNCHANGED vars PROVE Due(t)' \subseteq Due(t)
  BY <1>4, <1>12 DEF vars
<1>13. ASSUME NEW u \in Threads, u # t, Step(u)
       PROVE  Due(t)' \subseteq Due(t)
  BY <1>1, <1>4, <1>13, Others
<1>14. Step(t) => Due(t)' \subseteq Due(t)
  BY <1>6, <1>7, <1>8, <1>9, <1>10, <1>11 DEF Step, Internal
<1> QED
  BY <1>10, <1>12, <1>13, <1>14 DEF Next, Terminating, Step

\* inflight_requests counts exactly what is between submit_to_device and
\* process_completed_request, at most queue_depth, whatever the callbacks'
\* timing: the thread's own arithmetic needs no lock.
THEOREM InflightIsExact == Spec => []InflightExact
<1>1. IInv => InflightExact
  <2> SUFFICES ASSUME IInv, NEW t \in Threads
               PROVE  /\ inflight[t] = Cardinality(atDevice[t])
                           + Len(completed[t]) + Len(reqs[t])
                           + Cardinality(Calling(t))
                      /\ inflight[t] <= QueueDepth
    BY DEF InflightExact
  <2>1. Cardinality(Calling(t)) = IF pc[t] = "device" THEN 1 ELSE 0
    BY FS_Singleton, FS_EmptySet DEF Calling
  <2> QED
    BY <2>1 DEF IInv, ThreadInv, Counted
<1> QED
  BY <1>1, Invariance, PTL

\* A request is in one place at a time, its buffer is allocated from its
\* submission until it is processed, and there is a buffer for no other.
THEOREM BuffersAreHeld == Spec => []BufferHeldWhileOutstanding
<1>1. IInv => BufferHeldWhileOutstanding
  <2> SUFFICES ASSUME IInv PROVE BufferHeldWhileOutstanding
    OBVIOUS
  <2>1. ASSUME NEW t \in Threads
        PROVE  LET places == << Elems(waiting[t]), Calling(t), atDevice[t],
                                Elems(completed[t]), Elems(reqs[t]) >>
               IN /\ held[t] = UNION Elems(places)
                  /\ \A i, j \in 1 .. 5 : i # j => places[i] \cap places[j] = {}
                  /\ Cardinality(held[t]) = nr_submitted[t] - nr_completed[t]
    <3> DEFINE places == << Elems(waiting[t]), Calling(t), atDevice[t],
                            Elems(completed[t]), Elems(reqs[t]) >>
    <3>1. Places(t) /\ Buffers(t)
      BY DEF IInv, ThreadInv
    <3>2. Elems(places) = { Elems(waiting[t]), Calling(t), atDevice[t],
                            Elems(completed[t]), Elems(reqs[t]) }
        <4>1. DOMAIN places = {1, 2, 3, 4, 5}
        OBVIOUS
      <4>2. Elems(places) = {places[i] : i \in {1, 2, 3, 4, 5}}
        BY <4>1 DEF Elems
      <4> QED
        BY <4>2
    <3>3. held[t] = UNION Elems(places)
      BY <3>1, <3>2 DEF Places
    <3>4. \A i, j \in 1 .. 5 : i # j => places[i] \cap places[j] = {}
      BY <3>1 DEF Places
    <3> QED
      BY <3>1, <3>3, <3>4 DEF Buffers
  <2> QED
    BY <2>1 DEF BufferHeldWhileOutstanding
<1> QED
  BY <1>1, Invariance, PTL

\* process_completed_request and submit_io_request between them keep the device
\* busy: no request waits while fewer than queue_depth are in flight.
THEOREM NoneWaitsForNothing == Spec => []WorkConserving
<1>1. IInv => WorkConserving
  BY DEF IInv, ThreadInv, Room, Idle, WorkConserving
<1> QED
  BY <1>1, Invariance, PTL

\* The waiting queue is first in, first out, and nothing goes round it.
THEOREM NoneOvertakes == Spec => []InOrderDispatch
<1>1. IInv => InOrderDispatch
  BY DEF IInv, ThreadInv, Order, InOrderDispatch
<1> QED
  BY <1>1, Invariance, PTL

\* Whenever the thread waits, it has replaced each request that completed, and
\* submitted exactly as many as run_impl and on_request_completed intend.
THEOREM LoopIsClosed == Spec => []ClosedLoop
<1>1. IInv => ClosedLoop
  <2> SUFFICES ASSUME IInv, NEW t \in Threads, pc[t] \in {"wait", "asleep"}
               PROVE  nr_submitted[t] = Target(nr_completed[t])
    BY DEF ClosedLoop, Target
  <2> QED
    BY DEF IInv, ThreadInv, Replaced
<1> QED
  BY <1>1, Invariance, PTL
=============================================================================

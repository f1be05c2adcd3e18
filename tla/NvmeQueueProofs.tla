-------------------------- MODULE NvmeQueueProofs ---------------------------
(***************************************************************************)
(* Theorems about NvmeQueue, for any number of queues, any ring depth and  *)
(* any set of commands.                                                    *)
(***************************************************************************)
EXTENDS NvmeQueue, FiniteSetTheorems, TLAPS

-----------------------------------------------------------------------------
(* Type correctness. *)

\* The index arithmetic stays inside the rings, whatever the depth.
LEMMA NextInSlots ==
  ASSUME NEW i \in Slots
  PROVE  SqNext(i) \in Slots /\ CqNext(i) \in Slots /\ DevNext(i) \in Slots
  BY NvmeQueueAssumption DEF Slots, SqNext, CqNext, DevNext, Inc16

\* Every step keeps the types.
LEMMA TypeStep == TypeOK /\ [Next]_vars => TypeOK'
<1> SUFFICES ASSUME TypeOK, [Next]_vars PROVE TypeOK'
  OBVIOUS
<1> USE NvmeQueueAssumption DEF TypeOK, Entry
<1>1. ASSUME NEW q \in Queues, NEW c \in Cmds, Submit(q, c) PROVE TypeOK'
  <2>1. SqNext(sq_tail[q]) \in Slots
    BY NextInSlots
  <2>2. WriteSqDoorbell(q, SqNext(sq_tail[q]))
    BY <1>1 DEF Submit, SubmitSqCommand
  <2>3. /\ sq_db' \in [Queues -> Seq(Slots)]
        /\ dev_sq_tail' \in [Queues -> Slots]
    <3>1. CASE Posted
      <4>1. Append(sq_db[q], SqNext(sq_tail[q])) \in Seq(Slots)
        BY <2>1
      <4> QED
        BY <2>2, <3>1, <4>1, ZenonT(40) DEF WriteSqDoorbell
    <3>2. CASE ~Posted
      BY <2>1, <2>2, <3>2 DEF WriteSqDoorbell
    <3> QED
      BY <3>1, <3>2
  <2>4. /\ sq' \in [Queues -> [Slots -> Cmds \cup {NoCmd}]]
        /\ sq_tail' \in [Queues -> Slots]
        /\ live' \in [Queues -> SUBSET Cmds]
    BY <1>1, <2>1 DEF Submit, SubmitSqCommand
  <2> QED
    BY <1>1, <2>3, <2>4
    DEF Submit, SubmitSqCommand, cqVars, irqVars
<1>2. ASSUME NEW q \in Queues, DevSqDoorbell(q) PROVE TypeOK'
  BY <1>2 DEF DevSqDoorbell, cqVars, irqVars
<1>3. ASSUME NEW q \in Queues, DevCqDoorbell(q) PROVE TypeOK'
  BY <1>3 DEF DevCqDoorbell, sqVars, irqVars
<1>4. ASSUME NEW q \in Queues, DevFetch(q) PROVE TypeOK'
  BY <1>4, NextInSlots DEF DevFetch, sqVars, cqVars, irqVars
<1>5. ASSUME NEW q \in Queues, NEW c \in Cmds, DevComplete(q, c) PROVE TypeOK'
  <2>1. DevNext(dev_cq_tail[q]) \in Slots
    BY NextInSlots
  <2>2. cq' \in [Queues -> [Slots -> Entry]]
    BY <1>5 DEF DevComplete
  <2>3. /\ executing' \in [Queues -> SUBSET (Cmds \cup {NoCmd})]
        /\ dev_cq_tail' \in [Queues -> Slots]
        /\ irq' \subseteq Queues
    BY <1>5, <2>1 DEF DevComplete
  <2>4. dev_phase' \in [Queues -> {0, 1}]
    BY <1>5 DEF DevComplete
  <2> QED
    BY <1>5, <2>2, <2>3, <2>4 DEF DevComplete, sqVars, cqVars, irqVars
<1>6. ASSUME NEW q \in Queues, RecvIrq(q) PROVE TypeOK'
  BY <1>6 DEF RecvIrq, sqVars, cqVars, devVars
<1>7. CASE PollCq
  BY <1>7 DEF PollCq, sqVars, cqVars, devVars
<1>8. CASE HandleCqe
  BY <1>8 DEF HandleCqe, sqVars, cqVars, devVars
<1>9. CASE UpdateCqHead
  <2>1. CqNext(cq_head[irq_q]) \in Slots
    BY NextInSlots
  <2> QED
    BY <1>9, <2>1 DEF UpdateCqHead, sqVars, devVars
<1>10. CASE RingCqDoorbell
  <2>1. CASE Posted
    <3>1. Append(cq_db[irq_q], cq_head[irq_q]) \in Seq(Slots)
      OBVIOUS
    <3> QED
      BY <1>10, <2>1, <3>1, ZenonT(40) DEF RingCqDoorbell, sqVars
  <2>2. CASE ~Posted
    <3>1. /\ dev_cq_head' = [dev_cq_head EXCEPT ![irq_q] = cq_head[irq_q]]
          /\ cq_db' = cq_db
      BY <1>10, <2>2, Zenon DEF RingCqDoorbell
    <3>2. dev_cq_head' \in [Queues -> Slots]
      BY <3>1
    <3> QED
      BY <1>10, <2>2, <3>1, <3>2 DEF RingCqDoorbell, sqVars
  <2> QED
    BY <2>1, <2>2
<1>11. CASE UNCHANGED vars
  BY <1>11 DEF vars, sqVars, cqVars, devVars, irqVars
<1> QED
  BY <1>1, <1>2, <1>3, <1>4, <1>5, <1>6, <1>7, <1>8, <1>9, <1>10, <1>11
  DEF Next, Device, RecvThread

LEMMA InitTypes == Init => TypeOK
<1> SUFFICES ASSUME Init PROVE TypeOK
  OBVIOUS
<1>1. 0 \in Slots
  BY NvmeQueueAssumption DEF Slots
<1>2. << >> \in Seq(Slots)
  OBVIOUS
<1>3. /\ cq \in [Queues -> [Slots -> Entry]]
      /\ sq \in [Queues -> [Slots -> Cmds \cup {NoCmd}]]
  BY DEF Init, Entry
<1>4. sq_db \in [Queues -> Seq(Slots)] /\ cq_db \in [Queues -> Seq(Slots)]
  BY <1>2 DEF Init
<1> QED
  BY <1>1, <1>3, <1>4 DEF Init, TypeOK

\* Every variable keeps its type: in particular every ring index stays below
\* the depth, which cqe_pending and handle_cqe assert.
THEOREM TypeCorrect == Spec => []TypeOK
  BY InitTypes, TypeStep, PTL DEF Spec

-----------------------------------------------------------------------------
(* The phase tag.  The device writes the tag of its current lap into the    *)
(* entries below its tail, so the tags split the ring in two at the tail;   *)
(* the driver's expected tag says which side of the tail its head is on.    *)
(* Both facts rest on the order of the indices round the ring: the head the *)
(* device knows, the heads on their way to it, the driver's head, and the   *)
(* device's tail, which never gets a full lap ahead.                        *)

\* How far x is ahead of h round the ring.
Dist(h, x) == IF x >= h THEN x - h ELSE x - h + Depth

CqOrder(q) ==
  /\ Dist(dev_cq_head[q], cq_head[q]) <= Dist(dev_cq_head[q], dev_cq_tail[q])
  /\ \A j \in 1 .. Len(cq_db[q]) :
       Dist(dev_cq_head[q], cq_db[q][j]) <= Dist(dev_cq_head[q], cq_head[q])
  /\ \A j, k \in 1 .. Len(cq_db[q]) :
       j <= k => Dist(dev_cq_head[q], cq_db[q][j])
                   <= Dist(dev_cq_head[q], cq_db[q][k])
  /\ ~Posted => cq_db[q] = << >>

PhaseTags(q) ==
  \A i \in Slots :
    cq[q][i].phase = IF i < dev_cq_tail[q] THEN dev_phase[q]
                                           ELSE 1 - dev_phase[q]

PhaseAgrees(q) == cq_phase[q] = dev_phase[q] <=> cq_head[q] <= dev_cq_tail[q]

EntryAtHead(q) ==
  irq_q = q /\ irq_pc \in {"handle", "advance"} => cq_head[q] # dev_cq_tail[q]

CqInv(q) == CqOrder(q) /\ PhaseTags(q) /\ PhaseAgrees(q) /\ EntryAtHead(q)

\* The inductive invariant behind PhaseExact.
PhaseInv == \A q \in Queues : CqInv(q)

\* Distances measured from a later point of the ring.
LEMMA DistShift ==
  ASSUME NEW h \in Slots, NEW k \in Slots, NEW x \in Slots,
         Dist(h, k) <= Dist(h, x)
  PROVE  Dist(k, x) = Dist(h, x) - Dist(h, k)
  BY NvmeQueueAssumption DEF Dist, Slots

\* One step on, short of a full lap.
LEMMA DistNext ==
  ASSUME NEW h \in Slots, NEW x \in Slots, DevNext(x) # h
  PROVE  Dist(h, DevNext(x)) = Dist(h, x) + 1
  BY NvmeQueueAssumption DEF Dist, Slots, DevNext

\* A distance is less than the depth, and determines the entry.
LEMMA DistRange ==
  ASSUME NEW h \in Slots, NEW x \in Slots
  PROVE  /\ Dist(h, x) \in 0 .. Depth - 1
         /\ Dist(h, h) = 0
         /\ \A y \in Slots : Dist(h, x) = Dist(h, y) => x = y
  BY NvmeQueueAssumption DEF Dist, Slots

\* Distances are natural numbers.
LEMMA DistNat == \A h, x \in Slots : Dist(h, x) \in Nat
  BY NvmeQueueAssumption DEF Dist, Slots

\* The driver's index arithmetic is the device's when the depth fits uint16_t.
LEMMA NextAgree ==
  ASSUME Depth < U16, NEW i \in Slots
  PROVE  /\ SqNext(i) = DevNext(i)
         /\ CqNext(i) = DevNext(i)
         /\ CqWraps(i) <=> i + 1 = Depth
  BY NvmeQueueAssumption DEF Slots, SqNext, CqNext, CqWraps, DevNext, Inc16

\* cqe_pending says whether the head is short of the device's tail.
LEMMA PendingMeansBehind ==
  ASSUME TypeOK, NEW q \in Queues, CqInv(q)
  PROVE  CqePending(q) <=> cq_head[q] # dev_cq_tail[q]
<1> DEFINE c == cq_head[q]
           t == dev_cq_tail[q]
<1>1. c \in Slots /\ t \in Slots /\ cq_phase[q] \in {0, 1}
      /\ dev_phase[q] \in {0, 1}
  BY DEF TypeOK
<1>2. cq[q][c].phase = IF c < t THEN dev_phase[q] ELSE 1 - dev_phase[q]
  BY <1>1 DEF CqInv, PhaseTags
<1>3. cq_phase[q] = dev_phase[q] <=> c <= t
  BY DEF CqInv, PhaseAgrees
<1>4. c \in Int /\ t \in Int
  BY <1>1, NvmeQueueAssumption DEF Slots
<1> QED
  BY <1>1, <1>2, <1>3, <1>4 DEF CqePending

\* A step that leaves the completion queue and the handler's place alone.
LEMMA CqUnchanged ==
  ASSUME NEW q \in Queues, CqInv(q),
         UNCHANGED <<cq, cq_head, cq_phase, cq_db, dev_cq_head, dev_cq_tail,
                     dev_phase>>,
         EntryAtHead(q)'
  PROVE  CqInv(q)'
  BY DEF CqInv, CqOrder, PhaseTags, PhaseAgrees, Dist

\* Every step of the driver and the device keeps the completion rings in order.
LEMMA PhaseStep ==
  ASSUME Depth < U16, TypeOK, PhaseInv, [Next]_vars
  PROVE  PhaseInv'
<1> SUFFICES ASSUME NEW p \in Queues PROVE CqInv(p)'
  BY DEF PhaseInv
<1>1. CqInv(p) /\ TypeOK'
  BY TypeStep DEF PhaseInv
<1> DEFINE h == dev_cq_head[p]
           c == cq_head[p]
           t == dev_cq_tail[p]
           s == cq_db[p]
<1>s. h \in Slots /\ c \in Slots /\ t \in Slots /\ s \in Seq(Slots)
  BY DEF TypeOK
<1>i. \A i \in Slots : i \in Int /\ 0 <= i /\ i < Depth
  BY NvmeQueueAssumption DEF Slots
<1>2. ASSUME NEW q \in Queues, NEW x \in Cmds, Submit(q, x) PROVE CqInv(p)'
  BY <1>1, <1>2, CqUnchanged
  DEF Submit, SubmitSqCommand, cqVars, irqVars, EntryAtHead, CqInv
<1>3. ASSUME NEW q \in Queues, DevSqDoorbell(q) PROVE CqInv(p)'
  BY <1>1, <1>3, CqUnchanged
  DEF DevSqDoorbell, cqVars, irqVars, EntryAtHead, CqInv
<1>4. ASSUME NEW q \in Queues, DevCqDoorbell(q) PROVE CqInv(p)'
  <2>1. CASE q # p
    <3>1. /\ cq_db'[p] = cq_db[p] /\ dev_cq_head'[p] = dev_cq_head[p]
          /\ UNCHANGED <<cq, cq_head, cq_phase, dev_cq_tail, dev_phase,
                         irq_pc, irq_q>>
      BY <1>4, <2>1 DEF DevCqDoorbell, irqVars, TypeOK
    <3> QED
      BY <1>1, <3>1 DEF CqInv, CqOrder, PhaseTags, PhaseAgrees, EntryAtHead,
                        Dist
  <2>2. CASE q = p
    <3>1. /\ s # << >>
          /\ dev_cq_head'[p] = Head(s)
          /\ cq_db'[p] = Tail(s)
          /\ UNCHANGED <<cq, cq_head, cq_phase, dev_cq_tail, dev_phase,
                         irq_pc, irq_q>>
      BY <1>4, <2>2 DEF DevCqDoorbell, irqVars, TypeOK
    <3>2. /\ Head(s) = s[1] /\ 1 \in 1 .. Len(s)
          /\ Len(Tail(s)) = Len(s) - 1
          /\ \A j \in 1 .. Len(s) - 1 : Tail(s)[j] = s[j + 1]
      BY <1>s, <3>1
    <3>3. \A j \in 1 .. Len(s) : s[j] \in Slots
      BY <1>s
    <3>4. /\ \A j \in 1 .. Len(s) : Dist(h, s[1]) <= Dist(h, s[j])
          /\ Dist(h, s[1]) <= Dist(h, c)
          /\ Dist(h, c) <= Dist(h, t)
      BY <1>1, <1>s, <3>2 DEF CqInv, CqOrder
    <3>5. \A x \in Slots : Dist(h, x) \in Int
      BY <1>s, DistRange
    <3>6. /\ Dist(s[1], c) = Dist(h, c) - Dist(h, s[1])
          /\ Dist(s[1], t) = Dist(h, t) - Dist(h, s[1])
      BY <1>s, <3>2, <3>3, <3>4, <3>5, DistShift
    <3>7. \A j \in 1 .. Len(s) :
             Dist(s[1], s[j]) = Dist(h, s[j]) - Dist(h, s[1])
      BY <1>s, <3>2, <3>3, <3>4, DistShift
    <3>8. /\ \A j \in 1 .. Len(s) : Dist(h, s[j]) <= Dist(h, c)
          /\ \A j, k \in 1 .. Len(s) : j <= k => Dist(h, s[j]) <= Dist(h, s[k])
      BY <1>1 DEF CqInv, CqOrder
    <3>9. /\ Dist(s[1], c) <= Dist(s[1], t)
          /\ \A j \in 1 .. Len(s) : Dist(s[1], s[j]) <= Dist(s[1], c)
          /\ \A j, k \in 1 .. Len(s) :
               j <= k => Dist(s[1], s[j]) <= Dist(s[1], s[k])
      <4>1. Dist(h, s[1]) \in Int /\ Dist(h, c) \in Int /\ Dist(h, t) \in Int
            /\ \A j \in 1 .. Len(s) : Dist(h, s[j]) \in Int
        BY <1>s, <3>2, <3>3, <3>5
      <4> HIDE DEF h, s, c, t
      <4> QED
        BY <3>4, <3>6, <3>7, <3>8, <4>1
    <3>10. Posted
      BY <1>1, <3>1 DEF CqInv, CqOrder
    <3>11. CqOrder(p)'
      <4>1. \A j \in 1 .. Len(s) - 1 : j + 1 \in 1 .. Len(s)
        BY <1>s
      <4>2. /\ dev_cq_head'[p] = s[1]
            /\ cq_head'[p] = c /\ dev_cq_tail'[p] = t
            /\ Len(cq_db'[p]) = Len(s) - 1
            /\ \A j \in 1 .. Len(s) - 1 : cq_db'[p][j] = s[j + 1]
        BY <3>1, <3>2
      <4>3. /\ \A j \in 1 .. Len(s) - 1 : Dist(s[1], s[j + 1]) <= Dist(s[1], c)
            /\ \A j, k \in 1 .. Len(s) - 1 :
                 j <= k => Dist(s[1], s[j + 1]) <= Dist(s[1], s[k + 1])
        BY <1>s, <3>9, <4>1
      <4> QED
        BY <3>9, <3>10, <4>2, <4>3 DEF CqOrder
    <3> QED
      BY <1>1, <3>1, <3>11 DEF CqInv, PhaseTags, PhaseAgrees, EntryAtHead
  <2> QED
    BY <2>1, <2>2
<1>5. ASSUME NEW q \in Queues, DevFetch(q) PROVE CqInv(p)'
  BY <1>1, <1>5, CqUnchanged
  DEF DevFetch, cqVars, irqVars, EntryAtHead, CqInv
<1>6. ASSUME NEW q \in Queues, NEW x \in Cmds, DevComplete(q, x)
      PROVE  CqInv(p)'
  <2>1. CASE q # p
    <3>1. /\ cq'[p] = cq[p] /\ dev_cq_tail'[p] = dev_cq_tail[p]
          /\ dev_phase'[p] = dev_phase[p]
          /\ UNCHANGED <<cq_head, cq_phase, cq_db, dev_cq_head, irq_pc, irq_q>>
      BY <1>6, <2>1 DEF DevComplete, irqVars, cqVars, TypeOK
    <3> QED
      BY <1>1, <3>1 DEF CqInv, CqOrder, PhaseTags, PhaseAgrees, EntryAtHead,
                        Dist
  <2>2. CASE q = p
    <3>1. /\ DevNext(t) # h
          /\ dev_cq_tail'[p] = DevNext(t)
          /\ dev_phase'[p] = IF t + 1 = Depth THEN 1 - dev_phase[p]
                                              ELSE dev_phase[p]
          /\ cq'[p] = [cq[p] EXCEPT ![t] = [cmd |-> x, phase |-> dev_phase[p]]]
          /\ UNCHANGED <<cq_head, cq_phase, cq_db, dev_cq_head, irq_pc, irq_q>>
      BY <1>6, <2>2 DEF DevComplete, irqVars, cqVars, TypeOK
    <3>2. Dist(h, DevNext(t)) = Dist(h, t) + 1
      BY <1>s, <3>1, DistNext
    <3>3. Dist(h, c) <= Dist(h, t) /\ Dist(h, t) \in Nat /\ Dist(h, c) \in Nat
      <4>1. Dist(h, c) <= Dist(h, t)
        BY <1>1 DEF CqInv, CqOrder
      <4>2. Dist(h, t) \in Nat /\ Dist(h, c) \in Nat
        BY <1>s, DistNat
      <4> QED
        BY <4>1, <4>2
    <3>4. DevNext(t) # c
      BY <3>2, <3>3
    <3>5. CqOrder(p)'
      BY <1>1, <3>1, <3>2, <3>3 DEF CqInv, CqOrder, Dist
    <3>6. PhaseTags(p)'
      <4>1. dev_phase[p] \in {0, 1} /\ cq[p] \in [Slots -> Entry]
        BY DEF TypeOK
      <4>2. \A i \in Slots :
              cq'[p][i].phase = IF i = t THEN dev_phase[p] ELSE cq[p][i].phase
        BY <1>s, <3>1, <4>1
      <4>3. \A i \in Slots :
              cq[p][i].phase = IF i < t THEN dev_phase[p] ELSE 1 - dev_phase[p]
        BY <1>1 DEF CqInv, PhaseTags
      <4>4. \A i \in Slots :
              cq'[p][i].phase = IF i < DevNext(t) THEN dev_phase'[p]
                                                  ELSE 1 - dev_phase'[p]
        BY <1>s, <1>i, <3>1, <4>1, <4>2, <4>3, NvmeQueueAssumption DEF DevNext
      <4> QED
        BY <3>1, <4>4 DEF PhaseTags
    <3>7. PhaseAgrees(p)'
      <4>1. dev_phase[p] \in {0, 1} /\ cq_phase[p] \in {0, 1}
        BY DEF TypeOK
      <4> QED
        BY <1>1, <1>s, <1>i, <3>1, <3>4, <4>1, NvmeQueueAssumption
        DEF CqInv, PhaseAgrees, DevNext
    <3>8. EntryAtHead(p)'
      BY <3>1, <3>4 DEF EntryAtHead
    <3> QED
      BY <3>5, <3>6, <3>7, <3>8 DEF CqInv
  <2> QED
    BY <2>1, <2>2
<1>7. ASSUME NEW q \in Queues, RecvIrq(q) PROVE CqInv(p)'
  BY <1>1, <1>7, CqUnchanged DEF RecvIrq, cqVars, devVars, EntryAtHead, CqInv
<1>8. CASE PollCq
  <2>1. UNCHANGED <<cq, cq_head, cq_phase, cq_db, dev_cq_head, dev_cq_tail,
                    dev_phase, irq_q>>
    BY <1>8 DEF PollCq, cqVars, devVars
  <2>2. irq_q = p /\ irq_pc' \in {"handle", "advance"} => CqePending(p)
    BY <1>8 DEF PollCq
  <2> QED
    BY <1>1, <2>1, <2>2, PendingMeansBehind, CqUnchanged DEF EntryAtHead
<1>9. CASE HandleCqe
  BY <1>1, <1>9, CqUnchanged DEF HandleCqe, cqVars, devVars, EntryAtHead, CqInv
<1>10. CASE UpdateCqHead
  <2>1. CASE irq_q # p
    <3>1. /\ cq_head'[p] = cq_head[p] /\ cq_phase'[p] = cq_phase[p]
          /\ UNCHANGED <<cq, cq_db, dev_cq_head, dev_cq_tail, dev_phase, irq_q>>
      BY <1>10, <2>1 DEF UpdateCqHead, devVars, TypeOK
    <3> QED
      BY <1>1, <2>1, <3>1 DEF CqInv, CqOrder, PhaseTags, PhaseAgrees,
                              EntryAtHead, Dist
  <2>2. CASE irq_q = p
    <3>1. /\ cq_head'[p] = CqNext(c)
          /\ cq_phase'[p] = IF CqWraps(c) THEN 1 - cq_phase[p] ELSE cq_phase[p]
          /\ irq_pc = "advance" /\ irq_pc' = "poll"
          /\ UNCHANGED <<cq, cq_db, dev_cq_head, dev_cq_tail, dev_phase, irq_q>>
      BY <1>10, <2>2 DEF UpdateCqHead, devVars, TypeOK
    <3>2. CqNext(c) = DevNext(c) /\ (CqWraps(c) <=> c + 1 = Depth)
      BY <1>s, NextAgree
    <3>3. c # t
      BY <1>1, <2>2, <3>1 DEF CqInv, EntryAtHead
    <3>4. /\ Dist(h, c) <= Dist(h, t)
          /\ Dist(h, c) # Dist(h, t)
          /\ Dist(h, c) \in 0 .. Depth - 1 /\ Dist(h, t) \in 0 .. Depth - 1
      BY <1>1, <1>s, <3>3, DistRange DEF CqInv, CqOrder
    <3>5. DevNext(c) # h
      BY <1>s, <1>i, <3>4, NvmeQueueAssumption DEF Dist, DevNext
    <3>6. Dist(h, DevNext(c)) = Dist(h, c) + 1
      BY <1>s, <3>5, DistNext
    <3>7. CqOrder(p)'
      <4>1. \A x : Dist(dev_cq_head'[p], x) = Dist(h, x)
        BY <3>1 DEF Dist
      <4>2. \A j \in 1 .. Len(s) : Dist(h, s[j]) \in Nat
        <5>1. \A j \in 1 .. Len(s) : s[j] \in Slots
          BY <1>s
        <5> QED
          BY <1>s, <5>1, DistNat
      <4>3. \A j \in 1 .. Len(s) : Dist(h, s[j]) <= Dist(h, DevNext(c))
        BY <1>1, <1>s, <3>4, <3>6, <4>2 DEF CqInv, CqOrder
      <4>4. Dist(h, DevNext(c)) <= Dist(h, t)
        BY <3>4, <3>6
      <4> QED
        BY <1>1, <3>1, <3>2, <4>3, <4>4 DEF CqInv, CqOrder, Dist
    <3>8. PhaseTags(p)'
      BY <1>1, <3>1 DEF CqInv, PhaseTags
    <3>9. PhaseAgrees(p)'
      <4>1. dev_phase[p] \in {0, 1} /\ cq_phase[p] \in {0, 1}
        BY DEF TypeOK
      <4> QED
        BY <1>1, <1>s, <1>i, <3>1, <3>2, <3>3, <4>1, NvmeQueueAssumption
        DEF CqInv, PhaseAgrees, DevNext
    <3>10. EntryAtHead(p)'
      BY <3>1 DEF EntryAtHead
    <3> QED
      BY <3>7, <3>8, <3>9, <3>10 DEF CqInv
  <2> QED
    BY <2>1, <2>2
<1>11. CASE RingCqDoorbell
  <2>1. /\ UNCHANGED <<cq, cq_head, cq_phase, dev_cq_tail, dev_phase, irq_q>>
        /\ irq_pc' = "idle"
    BY <1>11 DEF RingCqDoorbell
  <2>2. CASE irq_q # p
    <3>1. dev_cq_head'[p] = h /\ cq_db'[p] = s
      <4>1. CASE Posted
        BY <1>11, <2>2, <4>1 DEF RingCqDoorbell, TypeOK
      <4>2. CASE ~Posted
        BY <1>11, <2>2, <4>2 DEF RingCqDoorbell, TypeOK
      <4> QED
        BY <4>1, <4>2
    <3> QED
      BY <1>1, <2>1, <3>1 DEF CqInv, CqOrder, PhaseTags, PhaseAgrees,
                              EntryAtHead, Dist
  <2>3. CASE irq_q = p /\ Posted
    <3>1. dev_cq_head'[p] = h /\ cq_db'[p] = Append(s, c)
      BY <1>11, <2>3 DEF RingCqDoorbell, TypeOK
    <3>2. /\ Len(Append(s, c)) = Len(s) + 1
          /\ \A j \in 1 .. Len(s) + 1 :
               Append(s, c)[j] = IF j <= Len(s) THEN s[j] ELSE c
          /\ Len(s) \in Nat
      BY <1>s
    <3>3. \A x : Dist(dev_cq_head'[p], x) = Dist(h, x)
      BY <3>1 DEF Dist
    <3>4. Dist(h, c) \in Int
      BY <1>s, DistRange
    <3>5. /\ \A j \in 1 .. Len(s) + 1 : Dist(h, Append(s, c)[j]) <= Dist(h, c)
          /\ \A j, k \in 1 .. Len(s) + 1 :
               j <= k => Dist(h, Append(s, c)[j]) <= Dist(h, Append(s, c)[k])
      <4>1. \A j \in 1 .. Len(s) : Dist(h, s[j]) <= Dist(h, c)
        BY <1>1 DEF CqInv, CqOrder
      <4>2. \A j, k \in 1 .. Len(s) :
              j <= k => Dist(h, s[j]) <= Dist(h, s[k])
        BY <1>1 DEF CqInv, CqOrder
      <4> HIDE DEF h, s, c
      <4> QED
        BY <3>2, <3>4, <4>1, <4>2
    <3>6. CqOrder(p)'
      BY <1>1, <2>1, <2>3, <3>1, <3>2, <3>3, <3>5 DEF CqInv, CqOrder, Dist
    <3> QED
      BY <1>1, <2>1, <3>6 DEF CqInv, PhaseTags, PhaseAgrees, EntryAtHead
  <2>4. CASE irq_q = p /\ ~Posted
    <3>1. dev_cq_head'[p] = c /\ cq_db'[p] = s
      BY <1>11, <2>4 DEF RingCqDoorbell, TypeOK
    <3>2. s = << >>
      BY <1>1, <2>4 DEF CqInv, CqOrder
    <3>3. Dist(c, c) = 0 /\ Dist(c, t) >= 0
      BY <1>s, DistRange
    <3>4. CqOrder(p)'
      BY <2>1, <3>1, <3>2, <3>3 DEF CqOrder, Dist
    <3> QED
      BY <1>1, <2>1, <3>4 DEF CqInv, PhaseTags, PhaseAgrees, EntryAtHead
  <2> QED
    BY <2>2, <2>3, <2>4
<1>12. CASE UNCHANGED vars
  BY <1>1, <1>12, CqUnchanged
  DEF vars, cqVars, devVars, irqVars, EntryAtHead, CqInv
<1> QED
  BY <1>2, <1>3, <1>4, <1>5, <1>6, <1>7, <1>8, <1>9, <1>10, <1>11, <1>12
  DEF Next, Device, RecvThread

\* cqe_pending is exact for every depth that a uint16_t can hold, whatever the
\* clients submit: no completion is missed and no stale entry is taken.
THEOREM PhaseIsExact ==
  ASSUME Depth < U16
  PROVE  Spec => []PhaseExact
<1>1. Init => PhaseInv
  BY NvmeQueueAssumption DEF Init, PhaseInv, CqInv, CqOrder, PhaseTags,
     PhaseAgrees, EntryAtHead, Dist, Slots
<1>2. TypeOK /\ PhaseInv /\ [Next]_vars => PhaseInv'
  BY PhaseStep
<1>3. TypeOK /\ PhaseInv => PhaseExact
  <2> SUFFICES ASSUME TypeOK, PhaseInv, NEW q \in Queues, Handled(q) = {}
               PROVE  CqePending(q) <=> CqWindow(q) # {}
    BY DEF PhaseExact
  <2>1. cq_head[q] \in Slots /\ dev_cq_tail[q] \in Slots
    BY DEF TypeOK
  <2>2. CqWindow(q) # {} <=> cq_head[q] # dev_cq_tail[q]
    BY <2>1, NvmeQueueAssumption DEF CqWindow, InRing, Slots
  <2> QED
    BY <2>2, PendingMeansBehind DEF PhaseInv
<1> QED
  BY <1>1, <1>2, <1>3, TypeCorrect, PTL DEF Spec

-----------------------------------------------------------------------------
(* No command is lost.  submit_sq_command does not look at the device's     *)
(* head, so that it never overwrites an entry rests on the client: fewer    *)
(* than Depth commands are outstanding.  The invariant counts: the entries  *)
(* of the submission ring, the commands executing and the entries of the    *)
(* completion ring make up the live commands, so the submission ring holds  *)
(* at most as many as are live.                                             *)

SqOrder(q) ==
  /\ Dist(dev_sq_head[q], dev_sq_tail[q]) <= Dist(dev_sq_head[q], sq_tail[q])
  /\ \A j \in 1 .. Len(sq_db[q]) :
       /\ Dist(dev_sq_head[q], dev_sq_tail[q])
            <= Dist(dev_sq_head[q], sq_db[q][j])
       /\ Dist(dev_sq_head[q], sq_db[q][j]) <= Dist(dev_sq_head[q], sq_tail[q])
  /\ \A j, k \in 1 .. Len(sq_db[q]) :
       j <= k => Dist(dev_sq_head[q], sq_db[q][j])
                   <= Dist(dev_sq_head[q], sq_db[q][k])
  /\ ~Posted => sq_db[q] = << >>

\* The entries of the completion ring that are not handled yet.
CqCount(q) ==
  Dist(cq_head[q], dev_cq_tail[q]) - (IF Handled(q) = {} THEN 0 ELSE 1)

Counted(q) ==
  /\ IsFiniteSet(live[q]) /\ IsFiniteSet(executing[q])
  /\ Cardinality(live[q]) <= Limit
  /\ Dist(dev_sq_head[q], sq_tail[q]) + Cardinality(executing[q]) + CqCount(q)
       = Cardinality(live[q])

Placed(q) ==
  /\ live[q] = SqCmds(q) \cup executing[q] \cup CqCmds(q)
  /\ \A i, j \in SqWindow(q) : i # j => sq[q][i] # sq[q][j]
  /\ \A i, j \in CqWindow(q) : i # j => cq[q][i].cmd # cq[q][j].cmd
  /\ SqCmds(q) \cap executing[q] = {}
  /\ SqCmds(q) \cap CqCmds(q) = {}
  /\ executing[q] \cap CqCmds(q) = {}

SafeQ(q) == SqOrder(q) /\ Counted(q) /\ Placed(q)

\* The inductive invariant behind NoCommandLost, OnePlace, CompletionIsLive.
SafeInv == \A q \in Queues : SafeQ(q)

\* The ring from h to t.
Win(h, t) == {i \in Slots : InRing(h, t, i)}

\* The ring grows at its end ...
LEMMA WinGrows ==
  ASSUME NEW h \in Slots, NEW t \in Slots, DevNext(t) # h
  PROVE  Win(h, DevNext(t)) = Win(h, t) \cup {t} /\ t \notin Win(h, t)
  BY NvmeQueueAssumption DEF Win, InRing, Slots, DevNext

\* ... and shrinks at its start.
LEMMA WinShrinks ==
  ASSUME NEW h \in Slots, NEW t \in Slots, h # t
  PROVE  /\ Win(DevNext(h), t) = Win(h, t) \ {h} /\ h \in Win(h, t)
         /\ Dist(DevNext(h), t) = Dist(h, t) - 1
  BY NvmeQueueAssumption DEF Win, InRing, Slots, DevNext, Dist

\* The variables of Placed(p) and Counted(p) keep their values at p.
Same(p) ==
  /\ sq'[p] = sq[p] /\ sq_tail'[p] = sq_tail[p]
  /\ dev_sq_head'[p] = dev_sq_head[p]
  /\ executing'[p] = executing[p] /\ live'[p] = live[p]
  /\ cq'[p] = cq[p] /\ cq_head'[p] = cq_head[p]
  /\ dev_cq_tail'[p] = dev_cq_tail[p]
  /\ Handled(p)' = Handled(p)

\* The windows after a step, from the indices after it.
LEMMA WindowsPrime ==
  ASSUME NEW p \in Queues
  PROVE  /\ SqWindow(p) = Win(dev_sq_head[p], sq_tail[p])
         /\ CqWindow(p) = Win(cq_head[p], dev_cq_tail[p]) \ Handled(p)
         /\ SqWindow(p)' = Win(dev_sq_head'[p], sq_tail'[p])
         /\ CqWindow(p)' = Win(cq_head'[p], dev_cq_tail'[p]) \ Handled(p)'
  BY DEF SqWindow, CqWindow, Win

\* A step that touches neither a queue's rings nor its commands leaves every
\* command of the queue where it is.
LEMMA PlacedSame ==
  ASSUME NEW p \in Queues, SafeQ(p), Same(p)
  PROVE  Placed(p)' /\ Counted(p)'
<1>1. SqWindow(p)' = SqWindow(p) /\ CqWindow(p)' = CqWindow(p)
  BY WindowsPrime DEF Same
<1>2. SqCmds(p)' = SqCmds(p) /\ CqCmds(p)' = CqCmds(p)
  BY <1>1 DEF SqCmds, CqCmds, Same
<1>3. Placed(p)'
  BY <1>1, <1>2 DEF SafeQ, Placed, Same
<1>4. CqCount(p)' = CqCount(p)
  BY DEF CqCount, Same
<1>5. Counted(p)'
  BY <1>4 DEF SafeQ, Counted, Same
<1> QED
  BY <1>3, <1>5

\* Nor does such a step disturb the rest of the queue's invariant.
LEMMA SafeSame ==
  ASSUME NEW p \in Queues, SafeQ(p), Same(p),
         sq_db'[p] = sq_db[p], dev_sq_tail'[p] = dev_sq_tail[p]
  PROVE  SafeQ(p)'
<1>1. SqOrder(p)'
  BY DEF SafeQ, SqOrder, Same
<1> QED
  BY <1>1, PlacedSame DEF SafeQ

\* submit_sq_command finds a free entry: fewer than Depth - 1 are in use.
LEMMA SubmitStep ==
  ASSUME Depth < U16, Limit < Depth, TypeOK, NEW p \in Queues, SafeQ(p),
         CqInv(p), NEW x \in Cmds, Submit(p, x)
  PROVE  SafeQ(p)'
<1> DEFINE h == dev_sq_head[p]
           t == sq_tail[p]
           w == sq_db[p]
           r == dev_sq_tail[p]
<1>1. /\ h \in Slots /\ t \in Slots /\ r \in Slots /\ w \in Seq(Slots)
      /\ sq[p] \in [Slots -> Cmds \cup {NoCmd}]
      /\ \A j \in 1 .. Len(w) : w[j] \in Slots
  BY DEF TypeOK
<1>2. /\ sq'[p] = [sq[p] EXCEPT ![t] = x]
      /\ sq_tail'[p] = SqNext(t)
      /\ live'[p] = live[p] \cup {x}
      /\ x \notin live[p] /\ Cardinality(live[p]) < Limit
      /\ WriteSqDoorbell(p, SqNext(t))
      /\ UNCHANGED <<cq, cq_head, dev_cq_tail, dev_sq_head, executing,
                     irq_pc, irq_q>>
  BY DEF Submit, SubmitSqCommand, TypeOK, cqVars, irqVars
<1>3. SqNext(t) = DevNext(t)
  BY <1>1, NextAgree
<1>4. /\ IsFiniteSet(live[p]) /\ IsFiniteSet(executing[p])
      /\ Cardinality(live[p]) \in Nat /\ Cardinality(executing[p]) \in Nat
      /\ Dist(h, t) + Cardinality(executing[p]) + CqCount(p)
           = Cardinality(live[p])
  BY FS_CardinalityType DEF SafeQ, Counted
<1>5. CqCount(p) \in Nat
  <2>1. /\ cq_head[p] \in Slots /\ dev_cq_tail[p] \in Slots
    BY DEF TypeOK
  <2>2. Handled(p) # {} => cq_head[p] # dev_cq_tail[p]
    BY DEF Handled, CqInv, EntryAtHead
  <2>3. Dist(cq_head[p], dev_cq_tail[p]) \in Nat
    BY <2>1, DistNat
  <2>4. cq_head[p] # dev_cq_tail[p] => Dist(cq_head[p], dev_cq_tail[p]) # 0
    BY <2>1, DistRange
  <2> QED
    BY <2>2, <2>3, <2>4 DEF CqCount
<1>6. Dist(h, t) \in Nat
  BY <1>1, DistNat
<1>7. Dist(h, t) + 1 < Depth
  BY <1>2, <1>4, <1>5, <1>6, NvmeQueueAssumption
<1>8. DevNext(t) # h
  BY <1>1, <1>7, NvmeQueueAssumption DEF Dist, DevNext, Slots
<1>9. /\ Dist(h, DevNext(t)) = Dist(h, t) + 1
      /\ Win(h, DevNext(t)) = Win(h, t) \cup {t} /\ t \notin Win(h, t)
  BY <1>1, <1>8, DistNext, WinGrows
<1>10. /\ Handled(p)' = Handled(p) /\ CqWindow(p)' = CqWindow(p)
      /\ SqWindow(p)' = SqWindow(p) \cup {t} /\ t \notin SqWindow(p)
      /\ SqWindow(p) \subseteq Slots
  <2>1. Handled(p)' = Handled(p)
    BY <1>2 DEF Handled
  <2>2. SqWindow(p) \subseteq Slots
    BY DEF SqWindow
  <2> QED
    BY <1>2, <1>3, <1>9, <2>1, <2>2, WindowsPrime
<1>11. /\ CqCmds(p)' = CqCmds(p) /\ SqCmds(p)' = SqCmds(p) \cup {x}
  <2>1. CqCmds(p)' = CqCmds(p)
    BY <1>2, <1>10 DEF CqCmds
  <2>2. \A i \in SqWindow(p) : sq'[p][i] = sq[p][i]
    BY <1>1, <1>2, <1>10
  <2>3. sq'[p][t] = x
    BY <1>1, <1>2
  <2>4. SqCmds(p)' = {sq'[p][i] : i \in SqWindow(p)'}
    BY DEF SqCmds
  <2> QED
    BY <1>10, <2>1, <2>2, <2>3, <2>4 DEF SqCmds
<1>12. Placed(p)'
  <2>1. Placed(p)
    BY DEF SafeQ
  <2>2. x \notin SqCmds(p) /\ x \notin executing[p] /\ x \notin CqCmds(p)
    BY <1>2, <2>1 DEF Placed
  <2>3. /\ live'[p] = SqCmds(p)' \cup executing'[p] \cup CqCmds(p)'
        /\ SqCmds(p)' \cap executing'[p] = {}
        /\ SqCmds(p)' \cap CqCmds(p)' = {}
        /\ executing'[p] \cap CqCmds(p)' = {}
    BY <1>2, <1>11, <2>1, <2>2 DEF Placed
  <2>4. \A i, j \in SqWindow(p)' : i # j => sq'[p][i] # sq'[p][j]
    <3>1. \A i \in SqWindow(p) : sq'[p][i] = sq[p][i] /\ sq[p][i] # x
      BY <1>1, <1>2, <1>10, <2>2 DEF SqCmds
    <3>2. sq'[p][t] = x
      BY <1>1, <1>2
    <3> QED
      BY <1>10, <2>1, <3>1, <3>2 DEF Placed
  <2>5. \A i, j \in CqWindow(p)' : i # j => cq'[p][i].cmd # cq'[p][j].cmd
    BY <1>2, <1>10, <2>1 DEF Placed
  <2> QED
    BY <2>3, <2>4, <2>5 DEF Placed
<1>13. Counted(p)'
  <2>1. /\ IsFiniteSet(live'[p])
        /\ Cardinality(live'[p]) = Cardinality(live[p]) + 1
    BY <1>2, <1>4, FS_AddElement
  <2>2. CqCount(p)' = CqCount(p)
    BY <1>2, <1>10 DEF CqCount
  <2>3. Dist(dev_sq_head'[p], sq_tail'[p]) = Dist(h, t) + 1
    BY <1>2, <1>3, <1>9
  <2> QED
    BY <1>2, <1>4, <1>5, <1>6, <2>1, <2>2, <2>3, NvmeQueueAssumption
    DEF Counted
<1>14. SqOrder(p)'
  <2>1. /\ Dist(h, r) \in Nat /\ Dist(h, r) <= Dist(h, t)
        /\ \A j \in 1 .. Len(w) :
             /\ Dist(h, w[j]) \in Nat
             /\ Dist(h, r) <= Dist(h, w[j]) /\ Dist(h, w[j]) <= Dist(h, t)
        /\ \A j, k \in 1 .. Len(w) : j <= k => Dist(h, w[j]) <= Dist(h, w[k])
    <3>1. Dist(h, r) \in Nat /\ \A j \in 1 .. Len(w) : Dist(h, w[j]) \in Nat
      BY <1>1, DistNat
    <3> QED
      BY <3>1 DEF SafeQ, SqOrder
  <2>2. CASE Posted
    <3>1. dev_sq_tail'[p] = r /\ sq_db'[p] = Append(w, DevNext(t))
      BY <1>2, <1>3, <2>2 DEF WriteSqDoorbell, TypeOK
    <3>2. /\ Len(Append(w, DevNext(t))) = Len(w) + 1
          /\ \A j \in 1 .. Len(w) + 1 :
               Append(w, DevNext(t))[j] = IF j <= Len(w) THEN w[j]
                                                         ELSE DevNext(t)
          /\ Len(w) \in Nat
      BY <1>1
    <3>3. /\ Dist(h, r) <= Dist(h, DevNext(t))
          /\ \A j \in 1 .. Len(w) + 1 :
               /\ Dist(h, r) <= Dist(h, Append(w, DevNext(t))[j])
               /\ Dist(h, Append(w, DevNext(t))[j]) <= Dist(h, DevNext(t))
          /\ \A j, k \in 1 .. Len(w) + 1 :
               j <= k => Dist(h, Append(w, DevNext(t))[j])
                           <= Dist(h, Append(w, DevNext(t))[k])
      <4> DEFINE v == Append(w, DevNext(t))
                 n == DevNext(t)
      <4>1. \A j \in 1 .. Len(w) + 1 :
              IF j <= Len(w) THEN j \in 1 .. Len(w) /\ v[j] = w[j] ELSE v[j] = n
        BY <3>2
      <4>2. Dist(h, n) = Dist(h, t) + 1
        BY <1>9
      <4> HIDE DEF h, r, w, t, v, n
      <4>3. \A j \in 1 .. Len(w) + 1 :
              Dist(h, r) <= Dist(h, v[j]) /\ Dist(h, v[j]) <= Dist(h, n)
        BY <1>6, <2>1, <4>1, <4>2
      <4>4. \A j, k \in 1 .. Len(w) + 1 :
              j <= k => Dist(h, v[j]) <= Dist(h, v[k])
        BY <1>6, <2>1, <3>2, <4>1, <4>2
      <4> QED
        BY <1>6, <2>1, <4>2, <4>3, <4>4 DEF v, n
    <3> QED
      BY <1>2, <1>3, <2>2, <3>1, <3>2, <3>3 DEF SqOrder
  <2>3. CASE ~Posted
    <3>1. w = << >>
      BY <2>3 DEF SafeQ, SqOrder
    <3>2. dev_sq_tail'[p] = DevNext(t) /\ sq_db'[p] = w
      BY <1>2, <1>3, <2>3 DEF WriteSqDoorbell, TypeOK
    <3> QED
      BY <1>2, <1>3, <1>6, <1>9, <3>1, <3>2 DEF SqOrder
  <2> QED
    BY <2>2, <2>3
<1> QED
  BY <1>12, <1>13, <1>14 DEF SafeQ

\* A doorbell arrives: the device sees a tail it was promised.
LEMMA SqDoorbellStep ==
  ASSUME TypeOK, NEW p \in Queues, SafeQ(p), DevSqDoorbell(p)
  PROVE  SafeQ(p)'
<1> DEFINE h == dev_sq_head[p]
           w == sq_db[p]
<1>1. /\ w # << >> /\ w \in Seq(Slots)
      /\ dev_sq_tail'[p] = Head(w) /\ sq_db'[p] = Tail(w)
      /\ UNCHANGED <<sq, sq_tail, cq, cq_head, dev_cq_tail, dev_sq_head,
                     executing, irq_pc, irq_q, live>>
  BY DEF DevSqDoorbell, TypeOK, cqVars, irqVars
<1>2. /\ Head(w) = w[1] /\ 1 \in 1 .. Len(w)
      /\ Len(Tail(w)) = Len(w) - 1 /\ Len(w) \in Nat
      /\ \A j \in 1 .. Len(w) - 1 :
           Tail(w)[j] = w[j + 1] /\ j + 1 \in 1 .. Len(w)
  BY <1>1
<1>3. Placed(p)' /\ Counted(p)'
  BY <1>1, PlacedSame DEF Same, Handled
<1>4. SqOrder(p)'
  <2>1. /\ Dist(h, w[1]) <= Dist(h, sq_tail[p])
        /\ \A j \in 1 .. Len(w) :
             /\ Dist(h, w[1]) <= Dist(h, w[j])
             /\ Dist(h, w[j]) <= Dist(h, sq_tail[p])
        /\ \A j, k \in 1 .. Len(w) : j <= k => Dist(h, w[j]) <= Dist(h, w[k])
    BY <1>2 DEF SafeQ, SqOrder
  <2>2. /\ \A j \in 1 .. Len(w) - 1 :
             /\ Dist(h, w[1]) <= Dist(h, w[j + 1])
             /\ Dist(h, w[j + 1]) <= Dist(h, sq_tail[p])
        /\ \A j, k \in 1 .. Len(w) - 1 :
             j <= k => Dist(h, w[j + 1]) <= Dist(h, w[k + 1])
    BY <1>2, <2>1
  <2>3. Posted
    BY <1>1 DEF SafeQ, SqOrder
  <2>4. /\ dev_sq_head'[p] = h /\ sq_tail'[p] = sq_tail[p]
        /\ dev_sq_tail'[p] = w[1]
        /\ Len(sq_db'[p]) = Len(w) - 1
        /\ \A j \in 1 .. Len(w) - 1 : sq_db'[p][j] = w[j + 1]
    BY <1>1, <1>2
  <2> QED
    BY <2>1, <2>2, <2>3, <2>4 DEF SqOrder
<1> QED
  BY <1>3, <1>4 DEF SafeQ

\* The device fetches an entry between its head and a tail it was given.
LEMMA FetchStep ==
  ASSUME TypeOK, NEW p \in Queues, SafeQ(p), DevFetch(p)
  PROVE  SafeQ(p)'
<1> DEFINE h == dev_sq_head[p]
           r == dev_sq_tail[p]
           t == sq_tail[p]
           w == sq_db[p]
           x == sq[p][h]
<1>1. /\ h \in Slots /\ t \in Slots /\ r \in Slots /\ w \in Seq(Slots)
      /\ \A j \in 1 .. Len(w) : w[j] \in Slots
  BY DEF TypeOK
<1>2. /\ h # r
      /\ executing'[p] = executing[p] \cup {x}
      /\ dev_sq_head'[p] = DevNext(h)
      /\ UNCHANGED <<sq, sq_tail, sq_db, dev_sq_tail, cq, cq_head, dev_cq_tail,
                     irq_pc, irq_q, live>>
  BY DEF DevFetch, TypeOK, sqVars, cqVars, irqVars
<1>3. Dist(h, r) # 0 /\ Dist(h, r) \in Nat /\ Dist(h, t) \in Nat
  BY <1>1, <1>2, DistRange, DistNat
<1>4. Dist(h, r) <= Dist(h, t)
  BY DEF SafeQ, SqOrder
<1>5. h # t
  BY <1>1, <1>3, <1>4, DistRange
<1>6. /\ Win(DevNext(h), t) = Win(h, t) \ {h} /\ h \in Win(h, t)
      /\ Dist(DevNext(h), t) = Dist(h, t) - 1
  BY <1>1, <1>5, WinShrinks
<1>7. /\ Handled(p)' = Handled(p) /\ CqWindow(p)' = CqWindow(p)
      /\ SqWindow(p)' = SqWindow(p) \ {h} /\ h \in SqWindow(p)
  <2>1. Handled(p)' = Handled(p)
    BY <1>2 DEF Handled
  <2> QED
    BY <1>2, <1>6, <2>1, WindowsPrime
<1>8. Placed(p)
  BY DEF SafeQ
<1>9. /\ CqCmds(p)' = CqCmds(p) /\ SqCmds(p)' = SqCmds(p) \ {x}
      /\ x \in SqCmds(p)
  <2>1. CqCmds(p)' = CqCmds(p)
    BY <1>2, <1>7 DEF CqCmds
  <2>2. SqCmds(p)' = {sq[p][i] : i \in SqWindow(p) \ {h}}
    BY <1>2, <1>7 DEF SqCmds
  <2>3. \A i \in SqWindow(p) : i # h => sq[p][i] # x
    BY <1>7, <1>8 DEF Placed
  <2> QED
    BY <1>7, <2>1, <2>2, <2>3 DEF SqCmds
<1>10. x \notin executing[p]
  BY <1>8, <1>9 DEF Placed
<1>11. Placed(p)'
  <2>1. /\ live'[p] = SqCmds(p)' \cup executing'[p] \cup CqCmds(p)'
        /\ SqCmds(p)' \cap executing'[p] = {}
        /\ SqCmds(p)' \cap CqCmds(p)' = {}
        /\ executing'[p] \cap CqCmds(p)' = {}
    BY <1>2, <1>8, <1>9 DEF Placed
  <2>2. \A i, j \in SqWindow(p)' : i # j => sq'[p][i] # sq'[p][j]
    BY <1>2, <1>7, <1>8 DEF Placed
  <2>3. \A i, j \in CqWindow(p)' : i # j => cq'[p][i].cmd # cq'[p][j].cmd
    BY <1>2, <1>7, <1>8 DEF Placed
  <2> QED
    BY <2>1, <2>2, <2>3 DEF Placed
<1>12. Counted(p)'
  <2>1. /\ IsFiniteSet(live[p]) /\ IsFiniteSet(executing[p])
        /\ Cardinality(live[p]) \in Nat /\ Cardinality(executing[p]) \in Nat
        /\ Cardinality(live[p]) <= Limit
        /\ Dist(h, t) + Cardinality(executing[p]) + CqCount(p)
             = Cardinality(live[p])
    BY FS_CardinalityType DEF SafeQ, Counted
  <2>2. /\ IsFiniteSet(executing'[p])
        /\ Cardinality(executing'[p]) = Cardinality(executing[p]) + 1
    <3>1. executing'[p] = executing[p] \cup {x}
      BY <1>2
    <3>2. IsFiniteSet(executing[p]) /\ x \notin executing[p]
      BY <1>10, <2>1
    <3> HIDE DEF x, h, t, r, w
    <3> QED
      BY <3>1, <3>2, FS_AddElement
  <2>3. CqCount(p)' = CqCount(p)
    BY <1>2, <1>7 DEF CqCount
  <2>4. CqCount(p) \in Int
    <3>1. cq_head[p] \in Slots /\ dev_cq_tail[p] \in Slots
      BY DEF TypeOK
    <3> QED
      BY <3>1, DistNat DEF CqCount
  <2>5. Dist(dev_sq_head'[p], sq_tail'[p]) = Dist(h, t) - 1
    BY <1>2, <1>6
  <2> QED
    BY <1>2, <1>3, <2>1, <2>2, <2>3, <2>4, <2>5 DEF Counted
<1>13. SqOrder(p)'
  <2>1. /\ Dist(DevNext(h), r) = Dist(h, r) - 1
        /\ Dist(DevNext(h), t) = Dist(h, t) - 1
    BY <1>1, <1>2, <1>5, WinShrinks
  <2>2. \A j \in 1 .. Len(w) :
          /\ Dist(h, w[j]) \in Nat
          /\ Dist(h, r) <= Dist(h, w[j]) /\ Dist(h, w[j]) <= Dist(h, t)
    <3>1. \A j \in 1 .. Len(w) : Dist(h, w[j]) \in Nat
      BY <1>1, DistNat
    <3> QED
      BY <3>1 DEF SafeQ, SqOrder
  <2>3. \A j \in 1 .. Len(w) : Dist(DevNext(h), w[j]) = Dist(h, w[j]) - 1
    <3> SUFFICES ASSUME NEW j \in 1 .. Len(w)
                 PROVE  Dist(DevNext(h), w[j]) = Dist(h, w[j]) - 1
      OBVIOUS
    <3>1. w[j] \in Slots
      BY <1>1
    <3>2. h # w[j]
      BY <1>1, <1>3, <2>2, <3>1, DistRange
    <3> QED
      BY <1>1, <3>1, <3>2, WinShrinks
  <2>4. \A j, k \in 1 .. Len(w) : j <= k => Dist(h, w[j]) <= Dist(h, w[k])
    BY DEF SafeQ, SqOrder
  <2>5. ~Posted => w = << >>
    BY DEF SafeQ, SqOrder
  <2>6. /\ Dist(DevNext(h), r) <= Dist(DevNext(h), t)
        /\ \A j \in 1 .. Len(w) :
             /\ Dist(DevNext(h), r) <= Dist(DevNext(h), w[j])
             /\ Dist(DevNext(h), w[j]) <= Dist(DevNext(h), t)
        /\ \A j, k \in 1 .. Len(w) :
             j <= k => Dist(DevNext(h), w[j]) <= Dist(DevNext(h), w[k])
    <3> HIDE DEF h, r, t, w
    <3> QED
      BY <1>3, <1>4, <2>1, <2>2, <2>3, <2>4
  <2> QED
    BY <1>2, <2>5, <2>6 DEF SqOrder
<1> QED
  BY <1>11, <1>12, <1>13 DEF SafeQ

\* The device completes a command into a free entry of the completion ring.
LEMMA CompleteStep ==
  ASSUME TypeOK, NEW p \in Queues, SafeQ(p), CqInv(p), NEW x \in Cmds,
         DevComplete(p, x)
  PROVE  SafeQ(p)'
<1> DEFINE c == cq_head[p]
           t == dev_cq_tail[p]
           h == dev_cq_head[p]
<1>1. /\ c \in Slots /\ t \in Slots /\ h \in Slots
      /\ cq[p] \in [Slots -> Entry]
  BY DEF TypeOK
<1>2. /\ x \in executing[p] /\ DevNext(t) # h
      /\ executing'[p] = executing[p] \ {x}
      /\ cq'[p] = [cq[p] EXCEPT ![t] = [cmd |-> x, phase |-> dev_phase[p]]]
      /\ dev_cq_tail'[p] = DevNext(t)
      /\ UNCHANGED <<sq, sq_tail, sq_db, dev_sq_tail, dev_sq_head, cq_head,
                     irq_pc, irq_q, live>>
  BY DEF DevComplete, TypeOK, sqVars, cqVars, irqVars
<1>3. DevNext(t) # c
  <2>1. Dist(h, DevNext(t)) = Dist(h, t) + 1
    BY <1>1, <1>2, DistNext
  <2>2. Dist(h, c) <= Dist(h, t)
    BY DEF CqInv, CqOrder
  <2>3. Dist(h, t) \in Nat /\ Dist(h, c) \in Nat
    BY <1>1, DistNat
  <2> QED
    BY <2>1, <2>2, <2>3
<1>4. /\ Win(c, DevNext(t)) = Win(c, t) \cup {t} /\ t \notin Win(c, t)
      /\ Dist(c, DevNext(t)) = Dist(c, t) + 1
  BY <1>1, <1>3, WinGrows, DistNext
<1>5. Handled(p)' = Handled(p) /\ t \notin Handled(p)
  BY <1>2 DEF Handled, CqInv, EntryAtHead
<1>6. /\ SqWindow(p)' = SqWindow(p)
      /\ CqWindow(p)' = CqWindow(p) \cup {t} /\ t \notin CqWindow(p)
      /\ CqWindow(p) \subseteq Slots
  <2>1. CqWindow(p) \subseteq Slots
    BY DEF CqWindow
  <2> QED
    BY <1>2, <1>4, <1>5, <2>1, WindowsPrime
<1>7. Placed(p)
  BY DEF SafeQ
<1>8. \A i \in CqWindow(p) : cq'[p][i].cmd = cq[p][i].cmd
  BY <1>1, <1>2, <1>6
<1>9. cq'[p][t].cmd = x
  BY <1>1, <1>2
<1>10. SqCmds(p)' = SqCmds(p) /\ CqCmds(p)' = CqCmds(p) \cup {x}
  <2>1. SqCmds(p)' = SqCmds(p)
    BY <1>2, <1>6 DEF SqCmds
  <2>2. CqCmds(p)' = {cq'[p][i].cmd : i \in CqWindow(p)'}
    BY DEF CqCmds
  <2> QED
    BY <1>6, <1>8, <1>9, <2>1, <2>2 DEF CqCmds
<1>11. Placed(p)'
  <2>1. /\ live'[p] = SqCmds(p)' \cup executing'[p] \cup CqCmds(p)'
        /\ SqCmds(p)' \cap executing'[p] = {}
        /\ SqCmds(p)' \cap CqCmds(p)' = {}
        /\ executing'[p] \cap CqCmds(p)' = {}
    BY <1>2, <1>7, <1>10 DEF Placed
  <2>2. \A i, j \in SqWindow(p)' : i # j => sq'[p][i] # sq'[p][j]
    BY <1>2, <1>6, <1>7 DEF Placed
  <2>3. \A i \in CqWindow(p) : cq[p][i].cmd # x
    BY <1>2, <1>7 DEF Placed, CqCmds
  <2>4. \A i, j \in CqWindow(p)' : i # j => cq'[p][i].cmd # cq'[p][j].cmd
    BY <1>6, <1>7, <1>8, <1>9, <2>3 DEF Placed
  <2> QED
    BY <2>1, <2>2, <2>4 DEF Placed
<1>12. Counted(p)'
  <2>1. /\ IsFiniteSet(live[p]) /\ IsFiniteSet(executing[p])
        /\ Cardinality(live[p]) \in Nat /\ Cardinality(executing[p]) \in Nat
        /\ Cardinality(live[p]) <= Limit
        /\ Dist(dev_sq_head[p], sq_tail[p]) + Cardinality(executing[p])
             + CqCount(p) = Cardinality(live[p])
    BY FS_CardinalityType DEF SafeQ, Counted
  <2>2. /\ IsFiniteSet(executing'[p])
        /\ Cardinality(executing'[p]) = Cardinality(executing[p]) - 1
    <3>1. PICK S : S = executing[p]
      OBVIOUS
    <3>2. IsFiniteSet(S) /\ x \in S /\ executing'[p] = S \ {x}
      BY <1>2, <2>1, <3>1
    <3>3. IsFiniteSet(S \ {x}) /\ Cardinality(S \ {x}) = Cardinality(S) - 1
      BY <3>2, FS_RemoveElement
    <3> QED
      BY <3>1, <3>2, <3>3
  <2>3. Dist(c, t) \in Nat /\ Dist(dev_sq_head[p], sq_tail[p]) \in Nat
    <3>1. dev_sq_head[p] \in Slots /\ sq_tail[p] \in Slots
      BY DEF TypeOK
    <3> QED
      BY <1>1, <3>1, DistNat
  <2>4. CqCount(p)' = CqCount(p) + 1 /\ CqCount(p) \in Int
    BY <1>2, <1>4, <1>5, <2>3 DEF CqCount
  <2>5. Dist(dev_sq_head'[p], sq_tail'[p]) = Dist(dev_sq_head[p], sq_tail[p])
    BY <1>2
  <2> QED
    BY <1>2, <2>1, <2>2, <2>3, <2>4, <2>5 DEF Counted
<1>13. SqOrder(p)'
  BY <1>2 DEF SafeQ, SqOrder
<1> QED
  BY <1>11, <1>12, <1>13 DEF SafeQ

\* handle_cqe finishes the command of the entry at the head, and no other.
LEMMA HandleStep ==
  ASSUME TypeOK, NEW p \in Queues, SafeQ(p), CqInv(p), irq_q = p, HandleCqe
  PROVE  SafeQ(p)'
<1> DEFINE c == cq_head[p]
           t == dev_cq_tail[p]
           x == cq[p][c].cmd
<1>1. c \in Slots /\ t \in Slots
  BY DEF TypeOK
<1>2. /\ irq_pc = "handle" /\ irq_pc' = "advance"
      /\ live'[p] = live[p] \ {x}
      /\ UNCHANGED <<sq, sq_tail, sq_db, dev_sq_tail, dev_sq_head, executing,
                     cq, cq_head, dev_cq_tail, irq_q>>
  BY DEF HandleCqe, TypeOK, sqVars, cqVars, devVars, Cqe
<1>3. c # t
  BY <1>2 DEF CqInv, EntryAtHead
<1>4. c \in Win(c, t)
  BY <1>1, <1>3, WinShrinks
<1>5. Handled(p) = {} /\ Handled(p)' = {c}
  BY <1>2 DEF Handled
<1>6. /\ SqWindow(p)' = SqWindow(p)
      /\ CqWindow(p)' = CqWindow(p) \ {c} /\ c \in CqWindow(p)
  BY <1>2, <1>4, <1>5, WindowsPrime
<1>7. Placed(p)
  BY DEF SafeQ
<1>8. /\ SqCmds(p)' = SqCmds(p) /\ CqCmds(p)' = CqCmds(p) \ {x}
      /\ x \in CqCmds(p)
  <2>1. SqCmds(p)' = SqCmds(p)
    BY <1>2, <1>6 DEF SqCmds
  <2>2. CqCmds(p)' = {cq[p][i].cmd : i \in CqWindow(p) \ {c}}
    BY <1>2, <1>6 DEF CqCmds
  <2>3. \A i \in CqWindow(p) : i # c => cq[p][i].cmd # x
    BY <1>6, <1>7 DEF Placed
  <2> QED
    BY <1>6, <2>1, <2>2, <2>3 DEF CqCmds
<1>9. Placed(p)'
  <2>1. /\ live'[p] = SqCmds(p)' \cup executing'[p] \cup CqCmds(p)'
        /\ SqCmds(p)' \cap executing'[p] = {}
        /\ SqCmds(p)' \cap CqCmds(p)' = {}
        /\ executing'[p] \cap CqCmds(p)' = {}
    BY <1>2, <1>7, <1>8 DEF Placed
  <2>2. \A i, j \in SqWindow(p)' : i # j => sq'[p][i] # sq'[p][j]
    BY <1>2, <1>6, <1>7 DEF Placed
  <2>3. \A i, j \in CqWindow(p)' : i # j => cq'[p][i].cmd # cq'[p][j].cmd
    BY <1>2, <1>6, <1>7 DEF Placed
  <2> QED
    BY <2>1, <2>2, <2>3 DEF Placed
<1>10. Counted(p)'
  <2>1. /\ IsFiniteSet(live[p]) /\ IsFiniteSet(executing[p])
        /\ Cardinality(live[p]) \in Nat /\ Cardinality(executing[p]) \in Nat
        /\ Cardinality(live[p]) <= Limit
        /\ Dist(dev_sq_head[p], sq_tail[p]) + Cardinality(executing[p])
             + CqCount(p) = Cardinality(live[p])
    BY FS_CardinalityType DEF SafeQ, Counted
  <2>2. x \in live[p]
    BY <1>7, <1>8 DEF Placed
  <2>3. /\ IsFiniteSet(live'[p])
        /\ Cardinality(live'[p]) = Cardinality(live[p]) - 1
    <3>1. live'[p] = live[p] \ {x}
      BY <1>2
    <3> HIDE DEF x
    <3> QED
      BY <2>1, <2>2, <3>1, FS_RemoveElement
  <2>4. Dist(c, t) \in Nat /\ Dist(dev_sq_head[p], sq_tail[p]) \in Nat
    <3>1. dev_sq_head[p] \in Slots /\ sq_tail[p] \in Slots
      BY DEF TypeOK
    <3> QED
      BY <1>1, <3>1, DistNat
  <2>5. CqCount(p)' = CqCount(p) - 1 /\ CqCount(p) \in Int
    BY <1>2, <1>5, <2>4 DEF CqCount
  <2>6. Dist(dev_sq_head'[p], sq_tail'[p]) = Dist(dev_sq_head[p], sq_tail[p])
    BY <1>2
  <2> QED
    BY <1>2, <2>1, <2>3, <2>4, <2>5, <2>6, NvmeQueueAssumption DEF Counted
<1>11. SqOrder(p)'
  BY <1>2 DEF SafeQ, SqOrder
<1> QED
  BY <1>9, <1>10, <1>11 DEF SafeQ

\* update_cq_head moves past the entry that was handled.
LEMMA AdvanceStep ==
  ASSUME Depth < U16, TypeOK, NEW p \in Queues, SafeQ(p), CqInv(p),
         irq_q = p, UpdateCqHead
  PROVE  SafeQ(p)'
<1> DEFINE c == cq_head[p]
           t == dev_cq_tail[p]
<1>1. c \in Slots /\ t \in Slots
  BY DEF TypeOK
<1>2. /\ irq_pc = "advance" /\ irq_pc' = "poll"
      /\ cq_head'[p] = CqNext(c)
      /\ UNCHANGED <<sq, sq_tail, sq_db, dev_sq_tail, dev_sq_head, executing,
                     cq, dev_cq_tail, irq_q, live>>
  BY DEF UpdateCqHead, TypeOK, sqVars, devVars
<1>3. CqNext(c) = DevNext(c)
  BY <1>1, NextAgree
<1>4. c # t
  BY <1>2 DEF CqInv, EntryAtHead
<1>5. /\ Win(DevNext(c), t) = Win(c, t) \ {c}
      /\ Dist(DevNext(c), t) = Dist(c, t) - 1
  BY <1>1, <1>4, WinShrinks
<1>6. Handled(p) = {c} /\ Handled(p)' = {}
  BY <1>2 DEF Handled
<1>7. SqWindow(p)' = SqWindow(p) /\ CqWindow(p)' = CqWindow(p)
  BY <1>2, <1>3, <1>5, <1>6, WindowsPrime
<1>8. SqCmds(p)' = SqCmds(p) /\ CqCmds(p)' = CqCmds(p)
  BY <1>2, <1>7 DEF SqCmds, CqCmds
<1>9. Placed(p)'
  BY <1>2, <1>7, <1>8 DEF SafeQ, Placed
<1>10. CqCount(p)' = CqCount(p)
  <2>1. Dist(c, t) \in Nat
    BY <1>1, DistNat
  <2> QED
    BY <1>2, <1>3, <1>5, <1>6, <2>1 DEF CqCount
<1>11. Counted(p)'
  BY <1>2, <1>10 DEF SafeQ, Counted
<1>12. SqOrder(p)'
  BY <1>2 DEF SafeQ, SqOrder
<1> QED
  BY <1>9, <1>11, <1>12 DEF SafeQ

\* Every step keeps the invariant: one case per action, on the queue it is
\* about and on the others.
LEMMA SafeStep ==
  ASSUME Depth < U16, Limit < Depth, TypeOK, PhaseInv, SafeInv, [Next]_vars
  PROVE  SafeInv'
<1> SUFFICES ASSUME NEW p \in Queues PROVE SafeQ(p)'
  BY DEF SafeInv
<1>1. SafeQ(p) /\ CqInv(p)
  BY DEF SafeInv, PhaseInv
<1>2. ASSUME NEW q \in Queues, NEW x \in Cmds, Submit(q, x) PROVE SafeQ(p)'
  <2>1. CASE q = p
    BY <1>1, <1>2, <2>1, SubmitStep
  <2>2. CASE q # p
    <3>1. sq_db'[p] = sq_db[p] /\ dev_sq_tail'[p] = dev_sq_tail[p]
      <4>1. WriteSqDoorbell(q, SqNext(sq_tail[q]))
        BY <1>2 DEF Submit, SubmitSqCommand
      <4>2. CASE Posted
        BY <2>2, <4>1, <4>2 DEF WriteSqDoorbell, TypeOK
      <4>3. CASE ~Posted
        BY <2>2, <4>1, <4>3 DEF WriteSqDoorbell, TypeOK
      <4> QED
        BY <4>2, <4>3
    <3>2. Same(p)
      BY <1>2, <2>2
      DEF Submit, SubmitSqCommand, Same, TypeOK, Handled, cqVars, irqVars
    <3> QED
      BY <1>1, <3>1, <3>2, SafeSame
  <2> QED
    BY <2>1, <2>2
<1>3. ASSUME NEW q \in Queues, DevSqDoorbell(q) PROVE SafeQ(p)'
  <2>1. CASE q = p
    BY <1>1, <1>3, <2>1, SqDoorbellStep
  <2>2. CASE q # p
    <3>1. Same(p) /\ sq_db'[p] = sq_db[p] /\ dev_sq_tail'[p] = dev_sq_tail[p]
      BY <1>3, <2>2 DEF DevSqDoorbell, Same, TypeOK, Handled, cqVars, irqVars
    <3> QED
      BY <1>1, <3>1, SafeSame
  <2> QED
    BY <2>1, <2>2
<1>4. ASSUME NEW q \in Queues, DevCqDoorbell(q) PROVE SafeQ(p)'
  <2>1. Same(p) /\ sq_db' = sq_db /\ dev_sq_tail' = dev_sq_tail
    BY <1>4 DEF DevCqDoorbell, Same, Handled, sqVars, irqVars
  <2> QED
    BY <1>1, <2>1, SafeSame
<1>5. ASSUME NEW q \in Queues, DevFetch(q) PROVE SafeQ(p)'
  <2>1. CASE q = p
    BY <1>1, <1>5, <2>1, FetchStep
  <2>2. CASE q # p
    <3>1. Same(p) /\ sq_db' = sq_db /\ dev_sq_tail' = dev_sq_tail
      BY <1>5, <2>2 DEF DevFetch, Same, TypeOK, Handled, sqVars, cqVars, irqVars
    <3> QED
      BY <1>1, <3>1, SafeSame
  <2> QED
    BY <2>1, <2>2
<1>6. ASSUME NEW q \in Queues, NEW x \in Cmds, DevComplete(q, x)
      PROVE  SafeQ(p)'
  <2>1. CASE q = p
    BY <1>1, <1>6, <2>1, CompleteStep
  <2>2. CASE q # p
    <3>1. Same(p) /\ sq_db' = sq_db /\ dev_sq_tail' = dev_sq_tail
      BY <1>6, <2>2
      DEF DevComplete, Same, TypeOK, Handled, sqVars, cqVars, irqVars
    <3> QED
      BY <1>1, <3>1, SafeSame
  <2> QED
    BY <2>1, <2>2
<1>7. ASSUME NEW q \in Queues, RecvIrq(q) PROVE SafeQ(p)'
  <2>1. Same(p) /\ sq_db' = sq_db /\ dev_sq_tail' = dev_sq_tail
    BY <1>7 DEF RecvIrq, Same, Handled, sqVars, cqVars, devVars
  <2> QED
    BY <1>1, <2>1, SafeSame
<1>8. CASE PollCq
  <2>1. Same(p) /\ sq_db' = sq_db /\ dev_sq_tail' = dev_sq_tail
    BY <1>8 DEF PollCq, Same, Handled, sqVars, cqVars, devVars
  <2> QED
    BY <1>1, <2>1, SafeSame
<1>9. CASE HandleCqe
  <2>1. CASE irq_q = p
    BY <1>1, <1>9, <2>1, HandleStep
  <2>2. CASE irq_q # p
    <3>1. Same(p) /\ sq_db' = sq_db /\ dev_sq_tail' = dev_sq_tail
      BY <1>9, <2>2
      DEF HandleCqe, Same, TypeOK, Handled, sqVars, cqVars, devVars
    <3> QED
      BY <1>1, <3>1, SafeSame
  <2> QED
    BY <2>1, <2>2
<1>10. CASE UpdateCqHead
  <2>1. CASE irq_q = p
    BY <1>1, <1>10, <2>1, AdvanceStep
  <2>2. CASE irq_q # p
    <3>1. Same(p) /\ sq_db' = sq_db /\ dev_sq_tail' = dev_sq_tail
      BY <1>10, <2>2 DEF UpdateCqHead, Same, TypeOK, Handled, sqVars, devVars
    <3> QED
      BY <1>1, <3>1, SafeSame
  <2> QED
    BY <2>1, <2>2
<1>11. CASE RingCqDoorbell
  <2>1. Same(p) /\ sq_db' = sq_db /\ dev_sq_tail' = dev_sq_tail
    BY <1>11 DEF RingCqDoorbell, Same, Handled, sqVars
  <2> QED
    BY <1>1, <2>1, SafeSame
<1>12. CASE UNCHANGED vars
  <2>1. Same(p) /\ sq_db' = sq_db /\ dev_sq_tail' = dev_sq_tail
    BY <1>12 DEF vars, Same, Handled, sqVars, cqVars, devVars, irqVars
  <2> QED
    BY <1>1, <2>1, SafeSame
<1> QED
  BY <1>2, <1>3, <1>4, <1>5, <1>6, <1>7, <1>8, <1>9, <1>10, <1>11, <1>12
  DEF Next, Device, RecvThread

\* The inductive invariant of the queues, and the three facts about it that a
\* module composed of this one needs.
RingInv == TypeOK /\ PhaseInv /\ SafeInv

LEMMA RingInit == Init => RingInv
<1>1. Init => TypeOK
  BY InitTypes
<1>2. Init => PhaseInv
  BY NvmeQueueAssumption DEF Init, PhaseInv, CqInv, CqOrder, PhaseTags,
     PhaseAgrees, EntryAtHead, Dist, Slots
<1>3. Init => SafeInv
  <2> SUFFICES ASSUME Init, NEW q \in Queues PROVE SafeQ(q)
    BY DEF SafeInv
  <2>1. Handled(q) = {} /\ SqWindow(q) = {} /\ CqWindow(q) = {}
    BY NvmeQueueAssumption
    DEF Init, Handled, SqWindow, CqWindow, InRing, Slots
  <2>2. Dist(0, 0) = 0
    BY DEF Dist
  <2>3. Placed(q)
    BY <2>1 DEF Init, Placed, SqCmds, CqCmds
  <2>4. Counted(q)
    BY <2>1, <2>2, FS_EmptySet, NvmeQueueAssumption DEF Init, Counted, CqCount
  <2>5. SqOrder(q)
    BY <2>2 DEF Init, SqOrder
  <2> QED
    BY <2>3, <2>4, <2>5 DEF SafeQ
<1> QED
  BY <1>1, <1>2, <1>3 DEF RingInv

LEMMA RingStep ==
  Depth < U16 /\ Limit < Depth /\ RingInv /\ [Next]_vars => RingInv'
<1> SUFFICES ASSUME Depth < U16, Limit < Depth, RingInv, [Next]_vars
             PROVE  RingInv'
  OBVIOUS
<1>1. TypeOK'
  BY TypeStep DEF RingInv
<1>2. PhaseInv'
  BY PhaseStep DEF RingInv
<1>3. SafeInv'
  BY SafeStep DEF RingInv
<1> QED
  BY <1>1, <1>2, <1>3 DEF RingInv

LEMMA RingUses == RingInv => NoCommandLost /\ OnePlace /\ CompletionIsLive
<1>1. RingInv => NoCommandLost /\ OnePlace
  BY DEF RingInv, SafeInv, SafeQ, Placed, NoCommandLost, OnePlace
<1>2. RingInv => CompletionIsLive
  <2> SUFFICES ASSUME TypeOK, PhaseInv, SafeInv, irq_pc = "handle"
               PROVE  Cqe(irq_q).cmd \in live[irq_q]
    BY DEF CompletionIsLive, RingInv
  <2>1. /\ irq_q \in Queues
        /\ cq_head[irq_q] \in Slots /\ dev_cq_tail[irq_q] \in Slots
    BY DEF TypeOK
  <2>2. cq_head[irq_q] # dev_cq_tail[irq_q]
    BY <2>1 DEF PhaseInv, CqInv, EntryAtHead
  <2>3. cq_head[irq_q] \in CqWindow(irq_q)
    BY <2>1, <2>2, WinShrinks, WindowsPrime DEF Handled
  <2> QED
    BY <2>1, <2>3 DEF SafeInv, SafeQ, Placed, CqCmds, Cqe
<1> QED
  BY <1>1, <1>2

\* It holds when the client keeps fewer commands outstanding than the ring has
\* entries.
LEMMA RingInvariant ==
  ASSUME Depth < U16, Limit < Depth
  PROVE  Spec => []RingInv
<1>1. RingInv /\ [Next]_vars => RingInv'
  BY RingStep
<1> QED
  BY <1>1, RingInit, PTL DEF Spec

\* No command is lost or invented, however the device, the doorbells and the
\* receive thread interleave, if the client keeps fewer commands outstanding
\* than the ring has entries: submit_sq_command itself checks nothing.
THEOREM NothingLost ==
  ASSUME Depth < U16, Limit < Depth
  PROVE  Spec => []NoCommandLost
<1> QED
  BY RingUses, RingInvariant, PTL

\* Under the same condition a command is in one place at a time, so it is
\* completed once.
THEOREM CompletedOnce ==
  ASSUME Depth < U16, Limit < Depth
  PROVE  Spec => []OnePlace
<1> QED
  BY RingUses, RingInvariant, PTL

\* Under the same condition handle_cqe never sees an entry without a command.
THEOREM EveryCompletionKnown ==
  ASSUME Depth < U16, Limit < Depth
  PROVE  Spec => []CompletionIsLive
<1> QED
  BY RingUses, RingInvariant, PTL

=============================================================================

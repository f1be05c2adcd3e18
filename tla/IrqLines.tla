------------------------------ MODULE IrqLines ------------------------------
(***************************************************************************)
(* What a link promises about interrupts, and what NvmeQueue assumes of    *)
(* them: one handler at a time, for a vector that was raised since its     *)
(* last handler was started, and for every such vector in the end.         *)
(***************************************************************************)
CONSTANTS Vectors, None

VARIABLES
  pending,  \* vectors raised since their handler was last started
  busy,     \* vector whose handler runs, or None
  open      \* the link has not been told to stop

vars == <<pending, busy, open>>

Init == pending = {} /\ busy = None /\ open = TRUE

Raise(v) == pending' = pending \cup {v} /\ UNCHANGED <<busy, open>>

\* As NvmeQueue's RecvIrq: the interrupt is over before the handler looks.
Take(v) ==
  /\ busy = None /\ v \in pending
  /\ busy' = v
  /\ pending' = pending \ {v}
  /\ UNCHANGED open

Return == busy' = None /\ UNCHANGED <<pending, open>>

Close == open' = FALSE /\ UNCHANGED <<pending, busy>>

Next == (\E v \in Vectors : Raise(v) \/ Take(v)) \/ Return \/ Close

Spec == Init /\ [][Next]_vars

\* Strong, because other vectors keep the handler busy again and again.
FairSpec ==
  /\ Spec
  /\ \A v \in Vectors : SF_vars(open /\ Take(v))
=============================================================================

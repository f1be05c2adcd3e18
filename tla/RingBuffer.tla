----------------------------- MODULE RingBuffer -----------------------------
(***************************************************************************)
(* jnk0le::Ringbuffer (ringbuffer.h) as its one user, recv_thread, has it: *)
(* written and read by the same thread.  head and tail run freely through  *)
(* the range of their type and are masked when they index the buffer.      *)
(***************************************************************************)
EXTENDS Integers, Sequences

CONSTANTS
  BufferSize,
  IndexRange  \* range of index_t

\* The class's static_asserts.
ASSUME RingBufferAssumption ==
  /\ BufferSize \in Nat \ {0}
  /\ IndexRange \in Nat /\ IndexRange % BufferSize = 0
  /\ IndexRange >= 2 * BufferSize

EmptyRing ==
  [head |-> 0, tail |-> 0, data_buff |-> [i \in 0 .. BufferSize - 1 |-> 0]]

ReadAvailable(r)  == (r.head - r.tail) % IndexRange
WriteAvailable(r) == BufferSize - ReadAvailable(r)

Fewer(a, b) == IF a < b THEN a ELSE b

\* Variant: what goes beyond the buffer's end is not divided off.
WriteBuffOnce(r, buff) ==
  LET n == Fewer(Len(buff), WriteAvailable(r))
      h == r.head % BufferSize
  IN [r EXCEPT !.head = (@ + n) % IndexRange,
               !.data_buff = [i \in DOMAIN @ |->
                                IF i - h \in 0 .. n - 1 THEN buff[i - h + 1] ELSE @[i]]]

\* The ring after writeBuff, which writes as much as there is room for.
WriteBuff(r, buff) ==
  LET n     == Fewer(Len(buff), WriteAvailable(r))
      at(i) == (i - r.head) % BufferSize
  IN [r EXCEPT !.head = (@ + n) % IndexRange,
               !.data_buff = [i \in DOMAIN @ |->
                                IF at(i) < n THEN buff[at(i) + 1] ELSE @[i]]]

\* What readBuff stores at its argument, and the ring after it.
Bytes(r, count) ==
  [k \in 1 .. Fewer(count, ReadAvailable(r)) |->
     r.data_buff[(r.tail + k - 1) % BufferSize]]
ReadBuff(r, count) ==
  [r EXCEPT !.tail = (@ + Fewer(count, ReadAvailable(r))) % IndexRange]
=============================================================================

----------------------------- MODULE LinkFraming -----------------------------
(***************************************************************************)
(* How PCIeLinkMcmq::recv_thread (pcie_link_mcmq.cpp) cuts messages out of *)
(* the socket's byte stream: recv into rbuf, from there into the ring      *)
(* buffer, and a loop that takes a length, then that many bytes, from it.  *)
(* A message is its payload, a sequence of bytes that starts with its      *)
(* type; on the wire its length comes first.                               *)
(*                                                                         *)
(* The socket is a stream: recv may return at any byte.  MaxTail says how  *)
(* far into a message it may, so that a run can tell the cuts the loop     *)
(* copes with from the others.                                             *)
(*                                                                         *)
(* The thread's work on messages is LinkMcmq's: the names here are other   *)
(* than there, for the proofs extend both.                                 *)
(***************************************************************************)
EXTENDS RingBuffer, SequencesExt

CONSTANTS
  Streams,   \* what the device may send: sequences of messages
  Rbuf,      \* size of rbuf
  MaxTail,   \* most bytes of an unfinished message recv returns
  nullopt    \* the empty std::optional

Byte == 0 .. 255

\* A message is at least its type, and its length goes into two bytes.
Lengths == {n \in Nat : n >= 2 /\ n \div 256 \in Byte}

ASSUME LinkFramingAssumption ==
  /\ Rbuf \in Nat \ {0} /\ MaxTail \in Nat
  /\ Streams \subseteq Seq(Seq(Byte))
  /\ \A s \in Streams : \A i \in DOMAIN s : Len(s[i]) \in Lengths

VARIABLES
  stream,    \* the messages the device sends
  pos,       \* bytes of them recv has returned
  pc,        \* "epoll" or "parse"
  ringbuf,
  last_len,  \* length taken from the ring buffer ahead of its message
  got,       \* the messages dispatched
  failed     \* an assertion of the loop has failed

framingVars == <<stream, pos, pc, ringbuf, last_len, got, failed>>

READ_COMP == 3
IRQ       == 4
DEV_READY == 5
RESULT    == 7

\* htons and ntohs.
BigEndian16(n) == << n \div 256, n % 256 >>
ToHost16(hi, lo) == 256 * hi + lo

Encode(m) == BigEndian16(Len(m)) \o m
Wire(s)   == FlattenSeq([i \in DOMAIN s |-> Encode(s[i])])
Type(m)   == ToHost16(m[1], m[2])

\* The number of whole messages in the first n bytes of a stream.
Arrived(s, n) ==
  CHOOSE k \in 0 .. Len(s) :
    /\ Len(Wire(SubSeq(s, 1, k))) <= n
    /\ k < Len(s) => Len(Wire(SubSeq(s, 1, k + 1))) > n

FramingInit ==
  /\ stream \in Streams
  /\ pos = 0
  /\ pc = "epoll"
  /\ ringbuf = EmptyRing
  /\ last_len = nullopt
  /\ got = << >>
  /\ failed = FALSE

-----------------------------------------------------------------------------
\* recv returns n bytes, none when the device has closed the socket, at the end
\* of the stream; writeBuff drops what the ring buffer has no room for.
\* last_len is a variable of the loop's body, so it starts without a value.
Recv(n) ==
  LET bytes == SubSeq(Wire(stream), pos + 1, pos + n)
      whole == Arrived(stream, pos + n)
  IN /\ pc = "epoll"
     /\ pos + n <= Len(Wire(stream))
     /\ n = 0 => pos = Len(Wire(stream))
     /\ pos + n - Len(Wire(SubSeq(stream, 1, whole))) <= MaxTail
     /\ pos' = pos + n
     /\ ringbuf' = WriteBuff(ringbuf, bytes)
     /\ last_len' = nullopt
     /\ pc' = "parse"
     /\ UNCHANGED <<stream, got, failed>>

\* recv or epoll_wait fails, or another descriptor woke the thread: the next
\* round begins.
RecvFails ==
  /\ pc = "epoll"
  /\ last_len' = nullopt
  /\ UNCHANGED <<stream, pos, pc, ringbuf, got, failed>>

\* Variant: two bytes are enough to look at the length.
MoreToParseEarly ==
  ReadAvailable(ringbuf) >= IF last_len = nullopt THEN 2 ELSE last_len

\* The condition of the parsing loop.
MoreToParse ==
  IF last_len = nullopt THEN ReadAvailable(ringbuf) > 2
                     ELSE ReadAvailable(ringbuf) >= last_len

\* result_buf holds what the parts of the report carried; the first one's
\* length field is not in it.
ResultBufEmpty == \A i \in DOMAIN got : Type(got[i]) = RESULT => Len(got[i]) = 4

\* The assertions on a payload's length.
AssertionsHold(m) ==
  /\ Len(m) >= 2
  /\ Type(m) = READ_COMP => Len(m) >= 6
  /\ Type(m) = IRQ => Len(m) = 4
  /\ Type(m) = RESULT /\ ResultBufEmpty => Len(m) >= 4

\* The payload is read from ring and dispatched on its type.
Dispatch(ring, len) ==
  LET m == Bytes(ring, len) IN
  /\ ringbuf' = ReadBuff(ring, len)
  /\ IF AssertionsHold(m)
     THEN got' = Append(got, m) /\ UNCHANGED failed
     ELSE failed' = TRUE /\ UNCHANGED got

\* One round of the parsing loop.
Parse ==
  /\ pc = "parse" /\ MoreToParse
  /\ IF last_len = nullopt
     THEN LET len  == ToHost16(Bytes(ringbuf, 2)[1], Bytes(ringbuf, 2)[2])
              rest == ReadBuff(ringbuf, 2)
          IN IF ReadAvailable(rest) < len
             THEN /\ last_len' = len
                  /\ ringbuf' = rest
                  /\ UNCHANGED <<got, failed>>
             ELSE Dispatch(rest, len) /\ UNCHANGED last_len
     ELSE Dispatch(ringbuf, last_len) /\ last_len' = nullopt
  /\ UNCHANGED <<stream, pos, pc>>

ParseEnds ==
  /\ pc = "parse" /\ ~MoreToParse
  /\ pc' = "epoll"
  /\ UNCHANGED <<stream, pos, ringbuf, last_len, got, failed>>

Done == pc = "epoll" /\ pos = Len(Wire(stream))

\* A failed assertion ends the program.
FramingNext ==
  \/ ~failed /\ \/ \E n \in 0 .. Rbuf : Recv(n)
                \/ RecvFails
                \/ Parse
                \/ ParseEnds
  \/ (failed \/ Done) /\ UNCHANGED framingVars

FramingSpec == FramingInit /\ [][FramingNext]_framingVars

-----------------------------------------------------------------------------
(* Properties. *)

\* What is dispatched is what the device sent, message by message, in order.
FramesExact == IsPrefix(got, stream)

\* Whenever the thread goes back to epoll_wait, every message that has arrived
\* in full has been dispatched: none waits for the bytes of the next one.
Prompt == pc = "epoll" => got = SubSeq(stream, 1, Arrived(stream, pos))

\* The assertions of the loop hold: assert(len >= sizeof(type)) and the ones of
\* the message types.
AssertsHold == ~failed
=============================================================================

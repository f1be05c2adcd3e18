------------------------------ MODULE LinkMcmq ------------------------------
(***************************************************************************)
(* PCIeLink and its socket backend PCIeLinkMcmq (pcie_link.h,              *)
(* pcie_link.cpp, pcie_link_mcmq.cpp), at the level of whole messages: the *)
(* main thread of the program starts the link, sends the configuration,    *)
(* waits for the device, reads and writes registers, asks for the report   *)
(* and stops the link; the receive thread dispatches what the device       *)
(* sends.  How messages are cut out of the byte stream is LinkFraming's.   *)
(*                                                                         *)
(* What one thread does in one critical section of PCIeLinkMcmq::mutex or  *)
(* of a ReadRequest's mutex is one step, with a message it then sends.     *)
(* wait_for_device_ready and set_ready share no mutex, so theirs are not.  *)
(*                                                                         *)
(* Only main reads registers.  It, the I/O threads and the receive thread  *)
(* (in the interrupt handler) write doorbells, each with one send.  While  *)
(* the I/O threads run main waits for them, so that the last writes of     *)
(* Program stand for theirs; the receive thread's are RecvIrq's.           *)
(***************************************************************************)
EXTENDS Integers, Sequences

CONSTANTS
  Program,     \* the register accesses of main, then of the I/O threads it
               \* waits for: "read" or "write"
  ResultSize,  \* length of the serialised SimResult
  U32,         \* number of read ids
  None

ASSUME LinkMcmqAssumption ==
  /\ Program \in Seq({"read", "write"})
  /\ ResultSize \in Nat
  /\ U32 \in Nat \ {0}

VARIABLES
  tx, rx,           \* the socket: messages to and from the device
  device_ready,
  stopped,
  irq_handler,      \* irq_handler has been set
  main,             \* where the main thread is
  op,               \* index in Program of its register access
  read_requests,    \* id -> ReadRequest or None
  read_id_counter,  \* a std::atomic<uint32_t> that nothing initialises
  req,              \* id of the request read_from_device waits for, or None
  value,            \* what the reads returned: index of the register -> value
  result_buf, result_len, result_ready,
  recv,             \* where the receive thread is
  dropped,          \* an interrupt found no handler
  unsent            \* rest of the report the device still has to send, or None

linkVars   == <<device_ready, stopped, irq_handler>>
readVars   == <<read_requests, read_id_counter, req, value>>
resultVars == <<result_buf, result_len, result_ready>>
vars == <<tx, rx, linkVars, main, op, readVars, resultVars, recv, dropped,
          unsent>>

Ids == 0 .. U32 - 1
Ops == 1 .. Len(Program)

\* Addresses tell a register access of Program apart from the others, and these
\* from the head doorbells that the receive thread writes.
CqDoorbell == 0

\* struct ReadRequest: the buffer holds the value of a register, told apart by
\* its address, once there is an answer.
Requests == [completed : BOOLEAN, buf : Ops \cup {None}]

ASSUME NoneAssumption == /\ None \notin Ids /\ None \notin Ops
                         /\ None \notin Requests /\ None \notin Seq(Nat)

\* The result, a sequence of distinguishable bytes.
Result == [i \in 1 .. ResultSize |-> i]

Init ==
  /\ tx = << >> /\ rx = << >>
  /\ device_ready = FALSE /\ stopped = FALSE /\ irq_handler = FALSE
  /\ main = "config"
  /\ op = 1
  /\ read_requests = [i \in Ids |-> None]
  /\ read_id_counter \in Ids
  /\ req = None
  /\ value = [i \in Ops |-> None]
  /\ result_buf = << >> /\ result_len = 0
  /\ result_ready \in BOOLEAN
  /\ recv = "epoll"
  /\ dropped = FALSE
  /\ unsent = None

Send(m) == tx' = Append(tx, m)

-----------------------------------------------------------------------------
(* The main thread: NVMeDriver::start, main. *)

SendConfig ==
  /\ main = "config"
  /\ Send([type |-> "CONFIG"])
  /\ main' = "ready"
  /\ UNCHANGED <<rx, linkVars, op, readVars, resultVars, recv, dropped, unsent>>

\* wait_for_device_ready: the loop's test ...
ReadyTest ==
  /\ main = "ready"
  /\ main' = IF device_ready THEN "handler" ELSE "ready_wait"
  /\ UNCHANGED <<tx, rx, linkVars, op, readVars, resultVars, recv, dropped,
                 unsent>>

\* ... and device_ready_cv.wait.  The mutex it gives up is a local variable.
ReadySleep ==
  /\ main = "ready_wait"
  /\ main' = "ready_asleep"
  /\ UNCHANGED <<tx, rx, linkVars, op, readVars, resultVars, recv, dropped,
                 unsent>>

\* Variant: registers are used before the handler is there.
SetIrqHandlerNever ==
  /\ main = "handler"
  /\ main' = "op"
  /\ UNCHANGED <<tx, rx, linkVars, op, readVars, resultVars,
                 recv, dropped, unsent>>

SetIrqHandler ==
  /\ main = "handler"
  /\ irq_handler' = TRUE
  /\ main' = "op"
  /\ UNCHANGED <<tx, rx, device_ready, stopped, op, readVars, resultVars,
                 recv, dropped, unsent>>

\* write_to_device.
WriteToDevice ==
  /\ main = "op" /\ op \in Ops /\ Program[op] = "write"
  /\ Send([type |-> "WRITE_REQ", addr |-> op])
  /\ op' = op + 1
  /\ UNCHANGED <<rx, linkVars, main, readVars, resultVars, recv, dropped,
                 unsent>>

\* read_from_device: setup_read_request and the READ_REQ message.
SetupReadRequest ==
  /\ main = "op" /\ op \in Ops /\ Program[op] = "read"
  /\ read_id_counter' = (read_id_counter + 1) % U32
  /\ read_requests' = [read_requests EXCEPT ![read_id_counter] =
                         [completed |-> FALSE, buf |-> None]]
  /\ req' = read_id_counter
  /\ Send([type |-> "READ_REQ", addr |-> op, id |-> read_id_counter])
  /\ main' = "read"
  /\ UNCHANGED <<rx, linkVars, op, value, resultVars, recv, dropped, unsent>>

ReadSleep ==
  /\ main = "read" /\ ~read_requests[req].completed
  /\ main' = "read_asleep"
  /\ UNCHANGED <<tx, rx, linkVars, op, readVars, resultVars, recv, dropped,
                 unsent>>

\* Variant: a wakeup is taken for the completion.
ReadReturnsUntested ==
  /\ main = "read"
  /\ value' = [value EXCEPT ![op] = read_requests[req].buf]
  /\ main' = "erase"
  /\ UNCHANGED <<tx, rx, linkVars, op, read_requests, read_id_counter, req,
                 resultVars, recv, dropped, unsent>>

\* The read has its answer ...
ReadReturns ==
  /\ main = "read" /\ read_requests[req].completed
  /\ value' = [value EXCEPT ![op] = read_requests[req].buf]
  /\ main' = "erase"
  /\ UNCHANGED <<tx, rx, linkVars, op, read_requests, read_id_counter, req,
                 resultVars, recv, dropped, unsent>>

\* ... and its request is erased, under the table's mutex.
EraseRequest ==
  /\ main = "erase"
  /\ read_requests' = [read_requests EXCEPT ![req] = None]
  /\ req' = None
  /\ op' = op + 1
  /\ main' = "op"
  /\ UNCHANGED <<tx, rx, linkVars, read_id_counter, value, resultVars, recv,
                 dropped, unsent>>

\* report, to its first cv.wait: mutex is held throughout.
Report ==
  /\ main = "op" /\ op \notin Ops
  /\ result_buf' = << >> /\ result_len' = 0 /\ result_ready' = FALSE
  /\ Send([type |-> "REPORT"])
  /\ main' = "report_asleep"
  /\ UNCHANGED <<rx, linkVars, op, readVars, recv, dropped, unsent>>

\* The rest of report, awake again: parse what has been collected.
ReportTest ==
  /\ main = "report"
  /\ main' = IF result_ready THEN "stop" ELSE "report_asleep"
  /\ UNCHANGED <<tx, rx, linkVars, op, readVars, resultVars, recv, dropped,
                 unsent>>

\* stop: the flag and the event that makes epoll_wait return.
Stop ==
  /\ main = "stop"
  /\ stopped' = TRUE
  /\ main' = "join"
  /\ UNCHANGED <<tx, rx, device_ready, irq_handler, op, readVars, resultVars,
                 recv, dropped, unsent>>

Join ==
  /\ main = "join" /\ recv = "exited"
  /\ main' = "done"
  /\ UNCHANGED <<tx, rx, linkVars, op, readVars, resultVars, recv, dropped,
                 unsent>>

\* The condition variables: who is woken by a notification, or by nothing.
Woken(m) == CASE m = "ready_asleep"  -> "ready"
              [] m = "read_asleep"   -> "read"
              [] m = "report_asleep" -> "report"
              [] OTHER               -> m

SpuriousWakeup ==
  /\ main \in {"ready_asleep", "read_asleep", "report_asleep"}
  /\ main' = Woken(main)
  /\ UNCHANGED <<tx, rx, linkVars, op, readVars, resultVars, recv, dropped,
                 unsent>>

-----------------------------------------------------------------------------
(* The receive thread: one message of the socket at a time. *)

Receives(type) == recv = "epoll" /\ rx # << >> /\ Head(rx).type = type

\* set_ready, its store ...
SetReady ==
  /\ Receives("DEV_READY")
  /\ device_ready' = TRUE
  /\ rx' = Tail(rx)
  /\ recv' = "notify_ready"
  /\ UNCHANGED <<tx, stopped, irq_handler, main, op, readVars, resultVars,
                 dropped, unsent>>

\* ... and its notify_all, which reaches only a thread already waiting.
NotifyReady ==
  /\ recv = "notify_ready"
  /\ main' = IF main = "ready_asleep" THEN Woken(main) ELSE main
  /\ recv' = "epoll"
  /\ UNCHANGED <<tx, rx, linkVars, op, readVars, resultVars, dropped, unsent>>

\* complete_read_request: a request nobody waits for is only logged.
CompleteReadRequest ==
  /\ Receives("READ_COMP")
  /\ LET id == Head(rx).id IN
     IF read_requests[id] = None
     THEN UNCHANGED <<read_requests, main>>
     ELSE /\ read_requests' = [read_requests EXCEPT ![id] =
                                 [completed |-> TRUE, buf |-> Head(rx).value]]
          /\ main' = IF main = "read_asleep" /\ req = id THEN Woken(main)
                     ELSE main
  /\ rx' = Tail(rx)
  /\ UNCHANGED <<tx, linkVars, op, read_id_counter, req, value, resultVars,
                 recv, dropped, unsent>>

\* irq_handler(vector), if there is one: nvme_irq, which rings the completion
\* queue's doorbell if it has found an entry.
RecvIrq ==
  /\ Receives("IRQ")
  /\ dropped' = (dropped \/ ~irq_handler)
  /\ rx' = Tail(rx)
  /\ \/ irq_handler /\ Send([type |-> "WRITE_REQ", addr |-> CqDoorbell])
     \/ UNCHANGED tx
  /\ UNCHANGED <<linkVars, main, op, readVars, resultVars, recv, unsent>>

\* Variant: any part of the result completes it.
RecvResultAny ==
  /\ Receives("RESULT")
  /\ LET m == Head(rx)
         first == result_buf = << >>
         buf == result_buf \o (IF first THEN Tail(m.bytes) ELSE m.bytes)
     IN /\ result_len' = IF first THEN Head(m.bytes) ELSE result_len
        /\ result_buf' = buf
        /\ result_ready' = TRUE
        /\ main' = IF main = "report_asleep" THEN Woken(main) ELSE main
  /\ rx' = Tail(rx)
  /\ UNCHANGED <<tx, linkVars, op, readVars, recv, dropped, unsent>>

\* Variant: report is not notified.
RecvResultSilent ==
  /\ Receives("RESULT")
  /\ LET m == Head(rx)
         first == result_buf = << >>
         buf == result_buf \o (IF first THEN Tail(m.bytes) ELSE m.bytes)
     IN /\ result_len' = IF first THEN Head(m.bytes) ELSE result_len
        /\ result_buf' = buf
        /\ result_ready' = (result_ready \/ Len(buf) = result_len')
  /\ rx' = Tail(rx)
  /\ UNCHANGED <<tx, linkVars, main, op, readVars, recv, dropped, unsent>>

\* One part of the result.  The first, told by the empty buffer, starts with
\* the length of the whole.
RecvResult ==
  /\ Receives("RESULT")
  /\ LET m == Head(rx)
         first == result_buf = << >>
         buf == result_buf \o (IF first THEN Tail(m.bytes) ELSE m.bytes)
     IN /\ result_len' = IF first THEN Head(m.bytes) ELSE result_len
        /\ result_buf' = buf
        /\ result_ready' = (result_ready \/ Len(buf) = result_len')
        /\ main' = IF Len(buf) = result_len' /\ main = "report_asleep"
                   THEN Woken(main) ELSE main
  /\ rx' = Tail(rx)
  /\ UNCHANGED <<tx, linkVars, op, readVars, recv, dropped, unsent>>

\* The end of recv_thread.  Messages it has not dispatched are lost.
RecvExit ==
  /\ recv = "epoll" /\ stopped
  /\ recv' = "exited"
  /\ UNCHANGED <<tx, rx, linkVars, main, op, readVars, resultVars, dropped,
                 unsent>>

-----------------------------------------------------------------------------
(* The device, as the link uses it. *)

DevTakes(type) == tx # << >> /\ Head(tx).type = type /\ tx' = Tail(tx)

DevConfig ==
  /\ DevTakes("CONFIG")
  /\ rx' = Append(rx, [type |-> "DEV_READY"])
  /\ UNCHANGED <<linkVars, main, op, readVars, resultVars, recv, dropped,
                 unsent>>

\* The value of a register is told apart by its address.
DevRead ==
  /\ DevTakes("READ_REQ")
  /\ rx' = Append(rx, [type |-> "READ_COMP", id |-> Head(tx).id,
                       value |-> Head(tx).addr])
  /\ UNCHANGED <<linkVars, main, op, readVars, resultVars, recv, dropped,
                 unsent>>

\* A write may be a tail doorbell, which ends in an interrupt.
DevWrite ==
  /\ DevTakes("WRITE_REQ")
  /\ \/ Head(tx).addr # CqDoorbell /\ rx' = Append(rx, [type |-> "IRQ"])
     \/ UNCHANGED rx
  /\ UNCHANGED <<linkVars, main, op, readVars, resultVars, recv, dropped,
                 unsent>>

DevReport ==
  /\ DevTakes("REPORT")
  /\ unsent' = << ResultSize >> \o Result
  /\ UNCHANGED <<rx, linkVars, main, op, readVars, resultVars, recv, dropped>>

\* A part of the result; the first holds the length and a byte at least.
DevResult(n) ==
  /\ unsent # None
  /\ n <= Len(unsent)
  /\ Len(unsent) = ResultSize + 1 => n >= 2
  /\ rx' = Append(rx, [type |-> "RESULT", bytes |-> SubSeq(unsent, 1, n)])
  /\ unsent' = IF n = Len(unsent) THEN None
               ELSE SubSeq(unsent, n + 1, Len(unsent))
  /\ UNCHANGED <<tx, linkVars, main, op, readVars, resultVars, recv, dropped>>

Device ==
  \/ DevConfig \/ DevRead \/ DevWrite \/ DevReport
  \/ \E n \in 1 .. ResultSize + 1 : DevResult(n)

Main ==
  \/ SendConfig \/ ReadyTest \/ ReadySleep \/ SetIrqHandler
  \/ WriteToDevice \/ SetupReadRequest \/ ReadSleep \/ ReadReturns
  \/ EraseRequest \/ Report \/ ReportTest \/ Stop \/ Join

RecvThread ==
  \/ SetReady \/ NotifyReady \/ CompleteReadRequest \/ RecvIrq \/ RecvResult
  \/ RecvExit

Next ==
  \/ Main \/ SpuriousWakeup \/ RecvThread \/ Device
  \/ main = "done" /\ UNCHANGED vars

Spec == Init /\ [][Next]_vars

\* Both threads run and the device answers.  Nobody promises a spurious wakeup.
FairSpec == Spec /\ WF_vars(Main) /\ WF_vars(RecvThread) /\ WF_vars(Device)

-----------------------------------------------------------------------------
(* Properties. *)

\* A register read returns the value of the register it asked for, and its
\* request is gone from the table when it returns.
ReadsRight ==
  /\ \A i \in Ops : i < op /\ Program[i] = "read" => value[i] = i
  /\ \A i \in Ids : read_requests[i] # None => req = i

\* report parses the whole result, in the order it was sent, however the device
\* cut it into messages.
ReportWhole == main \in {"stop", "join", "done"} => result_buf = Result

\* No interrupt arrives before the handler is set.
NoIrqDropped == ~dropped

\* Once the device is known to be ready, every read returns, the report
\* arrives and the link stops.
RunCompletes == main = "handler" ~> main = "done"

\* The program gets past wait_for_device_ready.
StartCompletes == <>(main = "handler")
=============================================================================

--------------------------- MODULE LinkMcmqProofs ---------------------------
(***************************************************************************)
(* Theorems about the socket link.  About LinkMcmq: a register read        *)
(* returns the value it asked for, the report is parsed whole however it   *)
(* was cut, and no interrupt comes before its handler is set.  About       *)
(* LinkFraming and its RingBuffer, in the second half: the ring buffer is  *)
(* first in, first out, and the receive thread dispatches exactly and      *)
(* promptly the messages the device sent.                                  *)
(***************************************************************************)
EXTENDS LinkMcmq, LinkFraming, SequenceTheorems, WellFoundedInduction, TLAPS

-----------------------------------------------------------------------------
(* The bytes of the report: its length, then the result. *)

Sent(j) == IF j = 1 THEN ResultSize ELSE j - 1

\* Those from the a-th, exclusive, to the b-th, inclusive.
Part(a, b) == [k \in 1 .. b - a |-> Sent(a + k)]

\* The RESULT messages of s are the bytes from a to b: up to the i-th message
\* of s they are those up to c[i].  The first byte is never sent alone.
Cut(s, c, a, b) ==
  /\ c \in [0 .. Len(s) -> 0 .. ResultSize + 1]
  /\ c[0] = a /\ c[Len(s)] = b
  /\ \A i \in 1 .. Len(s) :
       IF s[i].type = "RESULT"
       THEN c[i - 1] < c[i] /\ c[i] > 1 /\ s[i].bytes = Part(c[i - 1], c[i])
       ELSE c[i] = c[i - 1]

Cuts(s, a, b) ==
  \E c \in [0 .. Len(s) -> 0 .. ResultSize + 1] : Cut(s, c, a, b)

\* The message m takes the bytes from a to b.
Carries(m, a, b) == IF m.type = "RESULT"
                    THEN a < b /\ b > 1 /\ m.bytes = Part(a, b)
                    ELSE b = a

LEMMA CutLonger ==
  ASSUME NEW S, NEW s \in Seq(S), NEW m \in S, NEW a, NEW b,
         NEW d \in 0 .. ResultSize + 1, Cuts(s, a, b), Carries(m, b, d)
  PROVE  Cuts(Append(s, m), a, d)
<1>1. PICK t : t = Append(s, m)
  OBVIOUS
<1>2. PICK n \in Nat : n = Len(s)
  OBVIOUS
<1>3. /\ Len(t) = n + 1 /\ t[n + 1] = m
      /\ \A i \in 1 .. n : t[i] = s[i]
  BY <1>1, <1>2, AppendProperties
<1>4. PICK c \in [0 .. n -> 0 .. ResultSize + 1] : Cut(s, c, a, b)
  BY <1>2 DEF Cuts
<1>5. PICK e : e = [i \in 0 .. n + 1 |-> IF i = n + 1 THEN d ELSE c[i]]
  OBVIOUS
<1>6. \A i \in 0 .. n + 1 : i = n + 1 \/ i \in 0 .. n
  OBVIOUS
<1>7. e \in [0 .. n + 1 -> 0 .. ResultSize + 1]
  BY <1>4, <1>5, <1>6
<1>8. /\ n + 1 \in 0 .. n + 1 /\ \A i \in 0 .. n : i \in 0 .. n + 1 /\ i # n + 1
      /\ \A i \in 1 .. n : i \in 0 .. n /\ i - 1 \in 0 .. n
      /\ 0 \in 0 .. n /\ n \in 0 .. n /\ n + 1 - 1 = n
  OBVIOUS
<1>9. e[n + 1] = d /\ \A i \in 0 .. n : e[i] = c[i]
  BY <1>5, <1>8
<1>10. e[0] = a /\ e[n] = b
  BY <1>2, <1>4, <1>8, <1>9 DEF Cut
<1>11. ASSUME NEW i \in 1 .. n + 1 PROVE Carries(t[i], e[i - 1], e[i])
  <2>1. CASE i = n + 1
    BY <1>3, <1>8, <1>9, <1>10, <2>1
  <2>2. CASE i \in 1 .. n
    <3>1. t[i] = s[i] /\ e[i] = c[i] /\ e[i - 1] = c[i - 1]
      BY <1>3, <1>8, <1>9, <2>2
    <3> QED
      BY <1>2, <1>4, <2>2, <3>1 DEF Cut, Carries
  <2> QED
    BY <2>1, <2>2
<1>12. Cut(t, e, a, d)
  BY <1>3, <1>7, <1>9, <1>10, <1>11 DEF Cut, Carries
<1> QED
  BY <1>1, <1>3, <1>7, <1>12 DEF Cuts

LEMMA CutShorter ==
  ASSUME NEW S, NEW s \in Seq(S), s # << >>, NEW a, NEW b, Cuts(s, a, b)
  PROVE  \E d \in 0 .. ResultSize + 1 : Carries(Head(s), a, d) /\ Cuts(Tail(s), d, b)
<1>1. PICK t : t = Tail(s)
  OBVIOUS
<1>2. PICK n \in Nat : n = Len(t)
  BY <1>1, HeadTailProperties
<1>3. /\ Head(s) = s[1] /\ Len(s) = n + 1
      /\ \A i \in 1 .. n : t[i] = s[i + 1]
  BY <1>1, <1>2, HeadTailProperties
<1>4. PICK c \in [0 .. n + 1 -> 0 .. ResultSize + 1] : Cut(s, c, a, b)
  BY <1>3 DEF Cuts
<1>5. PICK e : e = [i \in 0 .. n |-> c[i + 1]]
  OBVIOUS
<1>6. /\ \A i \in 0 .. n : i + 1 \in 0 .. n + 1 /\ i + 1 \in 1 .. n + 1
      /\ \A i \in 1 .. n : /\ i \in 0 .. n /\ i - 1 \in 0 .. n
                           /\ (i - 1) + 1 = i /\ (i + 1) - 1 = i
      /\ 0 \in 0 .. n /\ n \in 0 .. n /\ 0 + 1 = 1 /\ 1 - 1 = 0
  OBVIOUS
<1>7. e \in [0 .. n -> 0 .. ResultSize + 1] /\ \A i \in 0 .. n : e[i] = c[i + 1]
  BY <1>4, <1>5, <1>6
<1>8. \A i \in 1 .. n + 1 : Carries(s[i], c[i - 1], c[i])
  BY <1>3, <1>4 DEF Cut, Carries
<1>9. c[0] = a /\ e[0] = c[1] /\ e[n] = b /\ c[1] \in 0 .. ResultSize + 1
  BY <1>3, <1>4, <1>6, <1>7 DEF Cut
<1>10. Carries(Head(s), a, c[1])
  BY <1>3, <1>6, <1>8, <1>9
<1>11. ASSUME NEW i \in 1 .. n PROVE Carries(t[i], e[i - 1], e[i])
  <2>1. t[i] = s[i + 1] /\ e[i - 1] = c[i] /\ e[i] = c[i + 1]
    BY <1>3, <1>6, <1>7
  <2>2. Carries(s[i + 1], c[i], c[i + 1])
    BY <1>6, <1>8
  <2> QED
    BY <2>1, <2>2
<1>12. Cut(t, e, c[1], b)
  BY <1>2, <1>7, <1>9, <1>11 DEF Cut, Carries
<1>13. Cuts(t, c[1], b)
  BY <1>2, <1>7, <1>12 DEF Cuts
<1> QED
  BY <1>1, <1>9, <1>10, <1>13

-----------------------------------------------------------------------------
(* Messages of a type in a channel. *)

NoneOf(s, type) == \A i \in 1 .. Len(s) : s[i].type # type

\* The one message of its type in s is m.
OnlyOne(s, m) ==
  \E i \in 1 .. Len(s) :
    s[i] = m /\ \A j \in 1 .. Len(s) : s[j].type = m.type => j = i

\* t has the messages of the type that s has: none, the one, or the parts of
\* the report.
Keeps(s, t, type) ==
  /\ NoneOf(s, type) => NoneOf(t, type)
  /\ \A m : m.type = type /\ OnlyOne(s, m) => OnlyOne(t, m)
  /\ type = "RESULT" => \A a, b : Cuts(s, a, b) => Cuts(t, a, b)

LEMMA Appended ==
  ASSUME NEW S, NEW s \in Seq(S), NEW m \in S
  PROVE  /\ Append(s, m) \in Seq(S)
         /\ NoneOf(s, m.type) => OnlyOne(Append(s, m), m)
         /\ \A type : m.type # type => Keeps(s, Append(s, m), type)
<1> DEFINE t == Append(s, m)
<1>1. /\ t \in Seq(S) /\ Len(t) = Len(s) + 1 /\ t[Len(s) + 1] = m
      /\ \A i \in 1 .. Len(s) : t[i] = s[i]
  BY AppendProperties
<1>2. Len(s) \in Nat
  OBVIOUS
<1> HIDE DEF t
<1>3. ASSUME NoneOf(s, m.type) PROVE OnlyOne(t, m)
  <2>1. ASSUME NEW j \in 1 .. Len(t), t[j].type = m.type PROVE j = Len(s) + 1
    BY <1>1, <1>2, <1>3, <2>1 DEF NoneOf
  <2>2. Len(s) + 1 \in 1 .. Len(t)
    BY <1>1, <1>2
  <2> QED
    BY <1>1, <2>1, <2>2 DEF OnlyOne
<1>4. ASSUME NEW type, m.type # type PROVE Keeps(s, t, type)
  <2>1. ASSUME NEW j \in 1 .. Len(t), t[j].type = type
        PROVE  j \in 1 .. Len(s) /\ s[j].type = type
    BY <1>1, <1>2, <1>4, <2>1
  <2>2. \A i \in 1 .. Len(s) : i \in 1 .. Len(t)
    BY <1>1, <1>2
  <2>3. NoneOf(s, type) => NoneOf(t, type)
    BY <2>1 DEF NoneOf
  <2>4. ASSUME NEW n, n.type = type, OnlyOne(s, n) PROVE OnlyOne(t, n)
    <3>1. PICK i \in 1 .. Len(s) :
            s[i] = n /\ \A j \in 1 .. Len(s) : s[j].type = type => j = i
      BY <2>4 DEF OnlyOne
    <3>2. i \in 1 .. Len(t) /\ t[i] = n
      BY <1>1, <2>2, <3>1
    <3>3. \A j \in 1 .. Len(t) : t[j].type = n.type => j = i
      BY <2>1, <2>4, <3>1
    <3> QED
      BY <3>2, <3>3 DEF OnlyOne
  <2>5. ASSUME type = "RESULT", NEW a, NEW b, Cuts(s, a, b) PROVE Cuts(t, a, b)
    <3>1. PICK c \in [0 .. Len(s) -> 0 .. ResultSize + 1] : Cut(s, c, a, b)
      BY <2>5 DEF Cuts
    <3>2. b \in 0 .. ResultSize + 1
      BY <1>2, <3>1 DEF Cut
    <3>3. Carries(m, b, b)
      BY <1>4, <2>5 DEF Carries
    <3> QED
      BY <2>5, <3>2, <3>3, CutLonger DEF t
  <2> QED
    BY <2>3, <2>4, <2>5 DEF Keeps
<1> QED
  BY <1>1, <1>3, <1>4 DEF t

LEMMA Taken ==
  ASSUME NEW S, NEW s \in Seq(S), s # << >>
  PROVE  /\ Head(s) \in S /\ Tail(s) \in Seq(S)
         /\ \A type : NoneOf(s, type) => Head(s).type # type
         /\ \A m : OnlyOne(s, m) /\ Head(s).type = m.type
                   => Head(s) = m /\ NoneOf(Tail(s), m.type)
         /\ \A type : Head(s).type # type => Keeps(s, Tail(s), type)
<1> DEFINE t == Tail(s)
<1>1. /\ Head(s) = s[1] /\ s[1] \in S /\ t \in Seq(S)
      /\ Len(s) \in Nat /\ Len(s) > 0 /\ Len(t) = Len(s) - 1
      /\ \A i \in 1 .. Len(t) : t[i] = s[i + 1]
  BY HeadTailProperties, EmptySeq
<1> HIDE DEF t
<1>2. 1 \in 1 .. Len(s)
  BY <1>1
<1>3. \A type : NoneOf(s, type) => Head(s).type # type
  BY <1>1, <1>2 DEF NoneOf
<1>4. \A i \in 1 .. Len(t) : i + 1 \in 1 .. Len(s) /\ i + 1 # 1
  BY <1>1
<1>5. \A i \in 1 .. Len(s) : i = 1 \/ (i - 1 \in 1 .. Len(t) /\ t[i - 1] = s[i])
  BY <1>1
<1>6. ASSUME NEW m, OnlyOne(s, m), Head(s).type = m.type
      PROVE  Head(s) = m /\ NoneOf(t, m.type)
  <2>1. PICK i \in 1 .. Len(s) :
          s[i] = m /\ \A j \in 1 .. Len(s) : s[j].type = m.type => j = i
    BY <1>6 DEF OnlyOne
  <2>2. i = 1
    BY <1>1, <1>2, <1>6, <2>1
  <2>3. \A k \in 1 .. Len(t) : t[k].type # m.type
    BY <1>1, <1>4, <2>1, <2>2
  <2> QED
    BY <1>1, <2>1, <2>2, <2>3 DEF NoneOf
<1>7. ASSUME NEW type, Head(s).type # type PROVE Keeps(s, t, type)
  <2>1. NoneOf(s, type) => NoneOf(t, type)
    BY <1>1, <1>4 DEF NoneOf
  <2>2. ASSUME NEW m, m.type = type, OnlyOne(s, m) PROVE OnlyOne(t, m)
    <3>1. PICK i \in 1 .. Len(s) :
            s[i] = m /\ \A j \in 1 .. Len(s) : s[j].type = type => j = i
      BY <2>2 DEF OnlyOne
    <3>2. i - 1 \in 1 .. Len(t) /\ t[i - 1] = m
      BY <1>1, <1>5, <1>7, <2>2, <3>1
    <3>3. ASSUME NEW j \in 1 .. Len(t), t[j].type = m.type PROVE j = i - 1
      <4>1. j + 1 = i
        BY <1>1, <1>4, <2>2, <3>1, <3>3
      <4> QED
        BY <4>1
    <3> QED
      BY <3>2, <3>3 DEF OnlyOne
  <2>3. ASSUME type = "RESULT", NEW a, NEW b, Cuts(s, a, b) PROVE Cuts(t, a, b)
    <3>1. PICK d \in 0 .. ResultSize + 1 : Carries(Head(s), a, d) /\ Cuts(t, d, b)
      BY <2>3, CutShorter DEF t
    <3>2. d = a
      BY <1>7, <2>3, <3>1 DEF Carries
    <3> QED
      BY <3>1, <3>2
  <2> QED
    BY <2>1, <2>2, <2>3 DEF Keeps
<1> QED
  BY <1>1, <1>3, <1>6, <1>7 DEF t

LEMMA KeptAsIs == ASSUME NEW s, NEW type PROVE Keeps(s, s, type)
  BY DEF Keeps

-----------------------------------------------------------------------------
(* The types. *)

Starting == {"config", "ready", "ready_wait", "ready_asleep", "handler"}
Reading == main \in {"read", "read_asleep", "erase"}
Reporting == main \in {"report_asleep", "report", "stop", "join", "done"}
MainStates == Starting \cup {"op", "read", "read_asleep", "erase",
                             "report_asleep", "report", "stop", "join", "done"}

\* What the host sends and what the device sends.
Up == [type : {"CONFIG", "REPORT"}] \cup [type : {"WRITE_REQ"}, addr : Ops \cup {CqDoorbell}]
        \cup [type : {"READ_REQ"}, addr : Ops, id : Ids]
Down == [type : {"DEV_READY", "IRQ"}]
          \cup [type : {"READ_COMP"}, id : Ids, value : Ops]
          \cup [type : {"RESULT"}, bytes : Seq(Nat)]

Types ==
  /\ tx \in Seq(Up)
  /\ rx \in Seq(Down)
  /\ main \in MainStates
  /\ op \in 1 .. Len(Program) + 1
  /\ read_requests \in [Ids -> Requests \cup {None}]
  /\ read_id_counter \in Ids
  /\ req \in Ids \cup {None}
  /\ value \in [Ops -> Ops \cup {None}]
  /\ unsent \in Seq(Nat) \cup {None}

LEMMA Typed == Init => Types
<1> SUFFICES ASSUME Init PROVE Types
  OBVIOUS
<1>1. Len(Program) \in Nat
  BY LinkMcmqAssumption
<1>2. 1 \in 1 .. Len(Program) + 1
  BY <1>1
<1> QED
  BY <1>2 DEF Init, Types, MainStates, Starting

\* What one step does to the channels.
LEMMA UpMoves ==
  ASSUME Types, [Next]_vars
  PROVE  /\ tx' \in Seq(Up)
         /\ \A type : \/ Keeps(tx, tx', type)
                      \/ type = "CONFIG" /\ (SendConfig \/ DevConfig)
                      \/ /\ type = "WRITE_REQ"
                         /\ WriteToDevice \/ RecvIrq \/ DevWrite
                      \/ type = "READ_REQ" /\ (SetupReadRequest \/ DevRead)
                      \/ type = "REPORT" /\ (Report \/ DevReport)
<1>1. tx \in Seq(Up) /\ op \in 1 .. Len(Program) + 1 /\ read_id_counter \in Ids
  BY DEF Types
<1>2. ASSUME NEW m \in Up, Send(m)
      PROVE  tx' \in Seq(Up) /\ \A type : m.type # type => Keeps(tx, tx', type)
  BY <1>1, <1>2, Appended DEF Send
<1>3. ASSUME NEW t, DevTakes(t)
      PROVE  tx' \in Seq(Up) /\ \A type : t # type => Keeps(tx, tx', type)
  BY <1>1, <1>3, Taken DEF DevTakes
<1>4. ASSUME tx' = tx PROVE tx' \in Seq(Up) /\ \A type : Keeps(tx, tx', type)
  BY <1>1, <1>4, KeptAsIs
<1>5. CASE SendConfig
  <2>1. [type |-> "CONFIG"] \in Up
    BY DEF Up
  <2>2. Send([type |-> "CONFIG"])
    BY <1>5 DEF SendConfig
  <2>3. [type |-> "CONFIG"].type = "CONFIG"
    OBVIOUS
  <2> QED
    BY <1>2, <1>5, <2>1, <2>2, <2>3, Zenon
<1>6. CASE WriteToDevice
  <2> DEFINE m == [type |-> "WRITE_REQ", addr |-> op]
  <2>1. m \in Up /\ m.type = "WRITE_REQ"
    BY <1>6 DEF Up, WriteToDevice
  <2>2. Send(m)
    BY <1>6 DEF WriteToDevice
  <2> HIDE DEF m
  <2> QED
    BY <1>2, <1>6, <2>1, <2>2, Zenon
<1>7. CASE SetupReadRequest
  <2> DEFINE m == [type |-> "READ_REQ", addr |-> op, id |-> read_id_counter]
  <2>1. m \in Up /\ m.type = "READ_REQ"
    BY <1>1, <1>7 DEF Up, SetupReadRequest
  <2>2. Send(m)
    BY <1>7 DEF SetupReadRequest
  <2> HIDE DEF m
  <2> QED
    BY <1>2, <1>7, <2>1, <2>2, Zenon
<1>8. CASE Report
  <2>1. [type |-> "REPORT"] \in Up
    BY DEF Up
  <2>2. Send([type |-> "REPORT"])
    BY <1>8 DEF Report
  <2>3. [type |-> "REPORT"].type = "REPORT"
    OBVIOUS
  <2> QED
    BY <1>2, <1>8, <2>1, <2>2, <2>3, Zenon
<1>9. CASE DevConfig
  BY <1>3, <1>9, Zenon DEF DevConfig
<1>10. CASE DevRead
  BY <1>3, <1>10, Zenon DEF DevRead
<1>11. CASE DevWrite
  BY <1>3, <1>11, Zenon DEF DevWrite
<1>12. CASE DevReport
  BY <1>3, <1>12, Zenon DEF DevReport
<1>13. CASE tx' = tx
  BY <1>4, <1>13
<1>14. CASE RecvIrq
  <2> DEFINE m == [type |-> "WRITE_REQ", addr |-> CqDoorbell]
  <2>1. m \in Up /\ m.type = "WRITE_REQ"
    BY DEF Up
  <2>2. Send(m) \/ tx' = tx
    BY <1>14 DEF RecvIrq
  <2> HIDE DEF m
  <2> QED
    BY <1>2, <1>4, <1>14, <2>1, <2>2, Zenon
<1>15. ASSUME ~SendConfig, ~WriteToDevice, ~SetupReadRequest, ~Report, ~RecvIrq,
              ~DevConfig, ~DevRead, ~DevWrite, ~DevReport
       PROVE  tx' = tx
  <2>1. CASE Main
    BY <1>15, <2>1 DEF Main, ReadyTest, ReadySleep, SetIrqHandler, ReadSleep,
          ReadReturns, EraseRequest, ReportTest, Stop, Join
  <2>2. CASE SpuriousWakeup
    BY <2>2 DEF SpuriousWakeup
  <2>3. CASE RecvThread
    BY <1>15, <2>3 DEF RecvThread, SetReady, NotifyReady, CompleteReadRequest,
          RecvResult, RecvExit
  <2>4. CASE Device
    BY <1>15, <2>4 DEF Device, DevResult
  <2>5. CASE UNCHANGED vars
    BY <2>5 DEF vars
  <2> QED
    BY <2>1, <2>2, <2>3, <2>4, <2>5 DEF Next
<1> QED
  BY <1>5, <1>6, <1>7, <1>8, <1>9, <1>10, <1>11, <1>12, <1>13, <1>14, <1>15,
     Zenon

LEMMA DownMoves ==
  ASSUME Types, [Next]_vars
  PROVE  /\ rx' \in Seq(Down)
         /\ \A type : \/ Keeps(rx, rx', type)
                      \/ type = "DEV_READY" /\ (SetReady \/ DevConfig)
                      \/ type = "READ_COMP" /\ (CompleteReadRequest \/ DevRead)
                      \/ type = "IRQ" /\ (RecvIrq \/ DevWrite)
                      \/ /\ type = "RESULT"
                         /\ RecvResult \/ \E n \in 1 .. ResultSize + 1 : DevResult(n)
<1>1. tx \in Seq(Up) /\ rx \in Seq(Down) /\ unsent \in Seq(Nat) \cup {None}
  BY DEF Types
<1>2. ASSUME NEW m \in Down, rx' = Append(rx, m)
      PROVE  rx' \in Seq(Down)
             /\ \A type : m.type # type => Keeps(rx, rx', type)
  BY <1>1, <1>2, Appended
<1>3. ASSUME NEW t, Receives(t), rx' = Tail(rx)
      PROVE  rx' \in Seq(Down) /\ \A type : t # type => Keeps(rx, rx', type)
  BY <1>1, <1>3, Taken DEF Receives
<1>4. ASSUME rx' = rx PROVE rx' \in Seq(Down) /\ \A type : Keeps(rx, rx', type)
  BY <1>1, <1>4, KeptAsIs
<1>5. CASE SetReady
  BY <1>3, <1>5, Zenon DEF SetReady
<1>6. CASE CompleteReadRequest
  BY <1>3, <1>6, Zenon DEF CompleteReadRequest
<1>7. CASE RecvIrq
  BY <1>3, <1>7, Zenon DEF RecvIrq
<1>8. CASE RecvResult
  BY <1>3, <1>8, Zenon DEF RecvResult
<1>9. CASE DevConfig
  <2>1. [type |-> "DEV_READY"] \in Down
    BY DEF Down
  <2>2. rx' = Append(rx, [type |-> "DEV_READY"])
    BY <1>9 DEF DevConfig
  <2>3. [type |-> "DEV_READY"].type = "DEV_READY"
    OBVIOUS
  <2> QED
    BY <1>2, <1>9, <2>1, <2>2, <2>3, Zenon
<1>10. CASE DevRead
  <2> DEFINE m == [type |-> "READ_COMP", id |-> Head(tx).id,
                   value |-> Head(tx).addr]
  <2>1. Head(tx) \in Up /\ Head(tx).type = "READ_REQ"
    BY <1>1, <1>10, Taken DEF DevRead, DevTakes
  <2>2. Head(tx).id \in Ids /\ Head(tx).addr \in Ops
    BY <2>1 DEF Up
  <2>3. m \in Down /\ m.type = "READ_COMP"
    BY <2>2 DEF Down
  <2>4. rx' = Append(rx, m)
    BY <1>10 DEF DevRead
  <2> HIDE DEF m
  <2> QED
    BY <1>2, <1>10, <2>3, <2>4, Zenon
<1>11. CASE DevWrite
  <2>1. [type |-> "IRQ"] \in Down
    BY DEF Down
  <2>2. rx' = Append(rx, [type |-> "IRQ"]) \/ rx' = rx
    BY <1>11 DEF DevWrite
  <2>3. [type |-> "IRQ"].type = "IRQ"
    OBVIOUS
  <2> QED
    BY <1>2, <1>4, <1>11, <2>1, <2>2, <2>3, Zenon
<1>12. ASSUME NEW n \in 1 .. ResultSize + 1, DevResult(n)
       PROVE  /\ rx' \in Seq(Down)
              /\ \A type : type # "RESULT" => Keeps(rx, rx', type)
  <2> DEFINE m == [type |-> "RESULT", bytes |-> SubSeq(unsent, 1, n)]
  <2>1. unsent \in Seq(Nat) /\ n \in Nat /\ n >= 1 /\ n <= Len(unsent)
    BY <1>1, <1>12, LinkMcmqAssumption DEF DevResult
  <2>2. SubSeq(unsent, 1, n) \in Seq(Nat)
    BY <2>1, SubSeqProperties
  <2>3. m \in Down /\ m.type = "RESULT"
    BY <2>2 DEF Down
  <2>4. rx' = Append(rx, m)
    BY <1>12 DEF DevResult
  <2> HIDE DEF m
  <2> QED
    BY <1>2, <2>3, <2>4, Zenon
<1>13. CASE \E n \in 1 .. ResultSize + 1 : DevResult(n)
  BY <1>12, <1>13
<1>14. CASE rx' = rx
  BY <1>4, <1>14
<1>15. ASSUME ~SetReady, ~CompleteReadRequest, ~RecvIrq, ~RecvResult, ~DevConfig,
              ~DevRead, ~DevWrite, ~\E n \in 1 .. ResultSize + 1 : DevResult(n)
       PROVE  rx' = rx
  <2>1. CASE Main
    BY <2>1 DEF Main, SendConfig, ReadyTest, ReadySleep, SetIrqHandler,
          WriteToDevice, SetupReadRequest, ReadSleep, ReadReturns, EraseRequest, Report,
          ReportTest, Stop, Join
  <2>2. CASE SpuriousWakeup
    BY <2>2 DEF SpuriousWakeup
  <2>3. CASE RecvThread
    BY <1>15, <2>3 DEF RecvThread, NotifyReady, RecvExit
  <2>4. CASE Device
    BY <1>15, <2>4 DEF Device, DevReport
  <2>5. CASE UNCHANGED vars
    BY <2>5 DEF vars
  <2> QED
    BY <2>1, <2>2, <2>3, <2>4, <2>5 DEF Next
<1> QED
  BY <1>5, <1>6, <1>7, <1>8, <1>9, <1>10, <1>11, <1>13, <1>14, <1>15, Zenon

-----------------------------------------------------------------------------
(* The invariant. *)

ReadReq == [type |-> "READ_REQ", addr |-> op, id |-> req]
ReadComp == [type |-> "READ_COMP", id |-> req, value |-> op]

\* The main thread's read is in one place only: on its way to the device, on
\* its way back, or answered.
Requested == /\ ~read_requests[req].completed
             /\ OnlyOne(tx, ReadReq) /\ NoneOf(rx, "READ_COMP")
Answered  == /\ ~read_requests[req].completed
             /\ NoneOf(tx, "READ_REQ") /\ OnlyOne(rx, ReadComp)
Completed == /\ read_requests[req] = [completed |-> TRUE, buf |-> op]
             /\ NoneOf(tx, "READ_REQ") /\ NoneOf(rx, "READ_COMP")

Reads ==
  /\ ReadsRight
  /\ ~Reading => /\ req = None
                 /\ NoneOf(tx, "READ_REQ") /\ NoneOf(rx, "READ_COMP")
  /\ Reading => /\ op \in Ops
                /\ req \in Ids /\ read_requests[req] \in Requests
                /\ Requested \/ Answered \/ Completed
  /\ main = "erase" => Completed /\ value[op] = op

\* Without a handler the main thread has written no register, so that the
\* device has no reason for an interrupt.
Irqs ==
  /\ ~irq_handler => /\ main \in Starting
                     /\ NoneOf(tx, "WRITE_REQ") /\ NoneOf(rx, "IRQ")
  /\ NoIrqDropped

\* The bytes of the report that have been collected ...
Got == IF result_buf = << >> THEN 0 ELSE Len(result_buf) + 1

Collected ==
  /\ result_buf \in Seq(Nat)
  /\ result_buf = [k \in 1 .. Len(result_buf) |-> k]
  /\ result_buf # << >> => result_len = ResultSize
  /\ result_ready => result_buf # << >> /\ Len(result_buf) = ResultSize

\* ... are followed by those in the socket, and these by what is unsent.
Awaited ==
  /\ OnlyOne(tx, [type |-> "REPORT"]) /\ NoneOf(rx, "RESULT") /\ unsent = None
  /\ result_buf = << >> /\ ~result_ready
Coming ==
  /\ NoneOf(tx, "REPORT") /\ Collected
  /\ \E sent \in 0 .. ResultSize + 1 :
       /\ unsent = IF sent = ResultSize + 1 THEN None
                   ELSE Part(sent, ResultSize + 1)
       /\ Cuts(rx, Got, sent)

Reports ==
  /\ ~Reporting => /\ NoneOf(tx, "REPORT") /\ NoneOf(rx, "RESULT")
                   /\ unsent = None
  /\ Reporting => Awaited \/ Coming
  /\ main \in {"stop", "join", "done"} => result_ready

Link == Types /\ Reads /\ Irqs /\ Reports

LEMMA TypesKept == Types /\ Reads /\ [Next]_vars => Types'
<1> SUFFICES ASSUME Types, Reads, [Next]_vars PROVE Types'
  OBVIOUS
<1>1. tx' \in Seq(Up) /\ rx' \in Seq(Down)
  BY UpMoves, DownMoves
<1>2. Len(Program) \in Nat /\ U32 \in Nat /\ U32 > 0 /\ ResultSize \in Nat
  BY LinkMcmqAssumption
<1>3. main' \in MainStates
  <2> USE DEF Types, MainStates, Starting, Woken
  <2>1. CASE Main
    BY <2>1 DEF Main, SendConfig, ReadyTest, ReadySleep, SetIrqHandler,
          WriteToDevice, SetupReadRequest, ReadSleep, ReadReturns, EraseRequest, Report,
          ReportTest, Stop, Join
  <2>2. CASE SpuriousWakeup
    BY <2>2 DEF SpuriousWakeup
  <2>3. CASE RecvThread
    BY <2>3 DEF RecvThread, SetReady, NotifyReady, CompleteReadRequest, RecvIrq,
          RecvResult, RecvExit
  <2>4. CASE Device
    BY <2>4 DEF Device, DevConfig, DevRead, DevWrite, DevReport, DevResult
  <2>5. CASE UNCHANGED vars
    BY <2>5 DEF vars
  <2> QED
    BY <2>1, <2>2, <2>3, <2>4, <2>5 DEF Next
<1>4. CASE WriteToDevice
  <2>1. op' \in 1 .. Len(Program) + 1
    BY <1>2, <1>4 DEF WriteToDevice, Ops
  <2> QED
    BY <1>1, <1>3, <1>4, <2>1 DEF WriteToDevice, Types, readVars
<1>5. CASE SetupReadRequest
  <2>1. read_id_counter' \in Ids
    BY <1>2, <1>5 DEF SetupReadRequest, Types, Ids
  <2>2. [completed |-> FALSE, buf |-> None] \in Requests
    BY DEF Requests
  <2>3. read_requests' \in [Ids -> Requests \cup {None}]
    BY <1>5, <2>2 DEF SetupReadRequest, Types
  <2> QED
    BY <1>1, <1>3, <1>5, <2>1, <2>3 DEF SetupReadRequest, Types
<1>6. CASE ReadReturns
  <2>1. op \in Ops /\ read_requests[req] \in Requests
    BY <1>6 DEF ReadReturns, Reads, Reading
  <2>2. read_requests[req].buf \in Ops \cup {None}
    BY <2>1 DEF Requests
  <2>3. value' \in [Ops -> Ops \cup {None}]
    BY <1>6, <2>2 DEF ReadReturns, Types
  <2> QED
    BY <1>1, <1>3, <1>6, <2>3 DEF ReadReturns, Types
<1>16. CASE EraseRequest
  <2>1. op \in Ops
    BY <1>16 DEF EraseRequest, Reads, Reading
  <2>2. read_requests' \in [Ids -> Requests \cup {None}]
    BY <1>16 DEF EraseRequest, Types
  <2>3. op' \in 1 .. Len(Program) + 1
    BY <1>2, <1>16, <2>1 DEF EraseRequest, Ops
  <2> QED
    BY <1>1, <1>3, <1>16, <2>2, <2>3 DEF EraseRequest, Types
<1>7. CASE CompleteReadRequest
  <2>1. rx # << >> /\ Head(rx).type = "READ_COMP" /\ Head(rx) \in Down
    BY <1>7, Taken DEF CompleteReadRequest, Receives, Types
  <2>2. Head(rx).value \in Ops
    BY <2>1 DEF Down
  <2>3. [completed |-> TRUE, buf |-> Head(rx).value] \in Requests
    BY <2>2 DEF Requests
  <2>4. read_requests' \in [Ids -> Requests \cup {None}]
    BY <1>7, <2>3 DEF CompleteReadRequest, Types
  <2> QED
    BY <1>1, <1>3, <1>7, <2>4 DEF CompleteReadRequest, Types
<1>8. CASE DevReport
  <2>1. unsent' \in Seq(Nat)
    BY <1>2, <1>8 DEF DevReport, Result
  <2> QED
    BY <1>1, <1>3, <1>8, <2>1 DEF DevReport, Types, readVars
<1>9. ASSUME NEW n \in 1 .. ResultSize + 1, DevResult(n) PROVE Types'
  <2>1. /\ n \in Nat /\ n >= 1 /\ unsent \in Seq(Nat)
        /\ Len(unsent) \in Nat
    BY <1>2, <1>9 DEF DevResult, Types
  <2>2. \A i \in n + 1 .. Len(unsent) : unsent[i] \in Nat
    BY <2>1
  <2>3. SubSeq(unsent, n + 1, Len(unsent)) \in Seq(Nat)
    BY <2>1, <2>2, SubSeqProperties
  <2>4. unsent' \in Seq(Nat) \cup {None}
    BY <1>9, <2>3 DEF DevResult
  <2> QED
    BY <1>1, <1>3, <1>9, <2>4 DEF DevResult, Types, readVars
<1>10. ASSUME UNCHANGED <<op, readVars, unsent>> PROVE Types'
  BY <1>1, <1>3, <1>10 DEF Types, readVars
<1>11. CASE Main
  BY <1>4, <1>5, <1>6, <1>10, <1>11, <1>16 DEF Main, SendConfig, ReadyTest, ReadySleep,
        SetIrqHandler, ReadSleep, Report, ReportTest, Stop, Join
<1>12. CASE SpuriousWakeup
  BY <1>10, <1>12 DEF SpuriousWakeup
<1>13. CASE RecvThread
  BY <1>7, <1>10, <1>13 DEF RecvThread, SetReady, NotifyReady, RecvIrq, RecvResult,
        RecvExit
<1>14. CASE Device
  BY <1>8, <1>9, <1>10, <1>14 DEF Device, DevConfig, DevRead, DevWrite
<1>15. CASE UNCHANGED vars
  BY <1>10, <1>15 DEF vars
<1> QED
  BY <1>11, <1>12, <1>13, <1>14, <1>15 DEF Next

-----------------------------------------------------------------------------
(* The reads. *)

\* A step that leaves the read and its messages alone.
LEMMA ReadUnmoved ==
  ASSUME Reads, UNCHANGED <<op, read_requests, req, value>>, Reading' <=> Reading,
         main' = "erase" => main = "erase",
         Keeps(tx, tx', "READ_REQ"), Keeps(rx, rx', "READ_COMP")
  PROVE  Reads'
<1>1. ReadsRight' /\ ReadReq' = ReadReq /\ ReadComp' = ReadComp
  BY DEF Reads, ReadsRight, ReadReq, ReadComp
<1>2. ReadReq.type = "READ_REQ" /\ ReadComp.type = "READ_COMP"
  BY DEF ReadReq, ReadComp
<1>3. /\ NoneOf(tx, "READ_REQ") => NoneOf(tx, "READ_REQ")'
      /\ OnlyOne(tx, ReadReq) => OnlyOne(tx, ReadReq)'
      /\ NoneOf(rx, "READ_COMP") => NoneOf(rx, "READ_COMP")'
      /\ OnlyOne(rx, ReadComp) => OnlyOne(rx, ReadComp)'
  BY <1>1, <1>2, Zenon DEF Keeps
<1>4. (Requested => Requested') /\ (Answered => Answered')
  BY <1>3 DEF Requested, Answered
<1>5. Completed => Completed'
  BY <1>3 DEF Completed
<1> QED
  BY <1>1, <1>3, <1>4, <1>5 DEF Reads

LEMMA ReadsKept == Types /\ Reads /\ [Next]_vars => Reads'
<1> SUFFICES ASSUME Types, Reads, [Next]_vars PROVE Reads'
  OBVIOUS
<1>1. Types'
  BY TypesKept
<1>2. tx \in Seq(Up) /\ rx \in Seq(Down) /\ read_id_counter \in Ids
      /\ op \in 1 .. Len(Program) + 1 /\ Len(Program) \in Nat
  BY LinkMcmqAssumption DEF Types
<1>3. ~(main = "op" /\ Reading) /\ None \notin Requests /\ None \notin Ids
  BY NoneAssumption DEF Reading
<1>4. CASE WriteToDevice
  <2>1. ~Reading /\ ~Reading' /\ req' = None
    BY <1>4 DEF WriteToDevice, Reading, Reads, readVars
  <2>2. Keeps(tx, tx', "READ_REQ") /\ Keeps(rx, rx', "READ_COMP")
    BY <1>4, UpMoves, DownMoves
       DEF WriteToDevice, SetupReadRequest, DevRead, CompleteReadRequest,
           Receives, DevTakes, readVars
  <2>3. ReadsRight'
    BY <1>2, <1>4 DEF WriteToDevice, Reads, ReadsRight, Ops, readVars
  <2>4. NoneOf(tx, "READ_REQ")' /\ NoneOf(rx, "READ_COMP")'
    BY <2>1, <2>2 DEF Reads, Keeps
  <2> QED
    BY <2>1, <2>3, <2>4 DEF Reads, Reading
<1>5. CASE SetupReadRequest
  <2>1. /\ ~Reading /\ Reading' /\ req' = read_id_counter /\ op' = op /\ op \in Ops
        /\ rx' = rx /\ value' = value
        /\ read_requests' = [read_requests EXCEPT ![read_id_counter] =
                               [completed |-> FALSE, buf |-> None]]
    BY <1>5 DEF SetupReadRequest, Reading
  <2>2. \A i \in Ids : read_requests[i] = None
    BY <1>3, <2>1 DEF Reads, ReadsRight
  <2>3. /\ read_requests'[req'] = [completed |-> FALSE, buf |-> None]
        /\ \A i \in Ids : i # req' => read_requests'[i] = None
    BY <1>2, <2>1, <2>2 DEF Types
  <2>4. ReadsRight'
    BY <2>1, <2>3 DEF Reads, ReadsRight
  <2>5. ReadReq' \in Up /\ tx' = Append(tx, ReadReq') /\ ReadReq'.type = "READ_REQ"
    BY <1>2, <1>5, <2>1 DEF ReadReq, Up, SetupReadRequest, Send
  <2>6. OnlyOne(tx', ReadReq')
    BY <1>2, <2>1, <2>5, Appended DEF Reads
  <2>7. Requested'
    BY <2>1, <2>3, <2>6 DEF Requested, Reads
  <2>8. read_requests'[req'] \in Requests
    BY <2>3 DEF Requests
  <2>9. main' # "erase"
    BY <1>5 DEF SetupReadRequest
  <2> QED
    BY <1>2, <2>1, <2>4, <2>7, <2>8, <2>9 DEF Reads, Ops
<1>6. CASE ReadReturns
  <2>1. /\ Reading /\ Reading' /\ op \in Ops /\ main' = "erase"
        /\ tx' = tx /\ rx' = rx /\ read_requests[req].completed
        /\ UNCHANGED <<op, read_requests, req>>
        /\ value' = [value EXCEPT ![op] = read_requests[req].buf]
    BY <1>6 DEF ReadReturns, Reading, Reads
  <2>2. Completed
    BY <2>1 DEF Reads, Requested, Answered
  <2>3. read_requests[req].buf = op
    BY <2>2 DEF Completed
  <2>4. \A i \in Ops : value'[i] = IF i = op THEN op ELSE value[i]
    BY <2>1, <2>3 DEF Types
  <2>5. ReadsRight'
    BY <2>1, <2>4 DEF Reads, ReadsRight
  <2>6. Completed' /\ value'[op] = op
    BY <2>1, <2>2, <2>4 DEF Completed
  <2> QED
    BY <2>1, <2>5, <2>6 DEF Reads
<1>10. CASE EraseRequest
  <2>1. /\ Reading /\ ~Reading' /\ req' = None /\ op' = op + 1 /\ op \in Ops
        /\ tx' = tx /\ rx' = rx /\ value' = value /\ req \in Ids
        /\ Completed /\ value[op] = op
        /\ read_requests' = [read_requests EXCEPT ![req] = None]
        /\ main' = "op"
    BY <1>10 DEF EraseRequest, Reading, Reads
  <2>2. \A i \in Ids : read_requests'[i] = None
    BY <2>1 DEF Reads, ReadsRight, Types
  <2>3. \A i \in Ops : i < op' => i < op \/ i = op
    BY <1>2, <2>1 DEF Ops
  <2>4. ReadsRight'
    BY <2>1, <2>2, <2>3 DEF Reads, ReadsRight
  <2> QED
    BY <2>1, <2>4 DEF Reads, Completed
<1>7. CASE CompleteReadRequest
  <2>1. /\ rx # << >> /\ Head(rx).type = "READ_COMP" /\ rx' = Tail(rx)
        /\ tx' = tx /\ op' = op /\ req' = req /\ value' = value
    BY <1>7 DEF CompleteReadRequest, Receives
  <2>2. Reading /\ Answered
    BY <1>2, <2>1, Taken, Zenon DEF Reads, Requested, Completed
  <2>3. ReadComp.type = "READ_COMP"
    BY DEF ReadComp
  <2>4. Head(rx) = ReadComp /\ NoneOf(Tail(rx), "READ_COMP")
    BY <1>2, <2>1, <2>2, <2>3, Taken, Zenon DEF Answered
  <2>5. Head(rx).id = req /\ Head(rx).value = op
    BY <2>4 DEF ReadComp
  <2>6. req \in Ids /\ op \in Ops /\ read_requests[req] \in Requests
    BY <2>2 DEF Reads
  <2>7. read_requests' = [read_requests EXCEPT ![req] =
                            [completed |-> TRUE, buf |-> op]]
    BY <1>3, <1>7, <2>5, <2>6 DEF CompleteReadRequest
  <2>8. read_requests'[req] = [completed |-> TRUE, buf |-> op]
        /\ \A i \in Ids : i # req => read_requests'[i] = read_requests[i]
    BY <2>6, <2>7 DEF Types
  <2>9. Completed'
    BY <2>1, <2>2, <2>4, <2>8 DEF Completed, Answered
  <2>10. Reading' /\ main' # "erase"
    <3>1. main # "erase"
      BY <2>2 DEF Reads, Answered, Completed
    <3> QED
      BY <1>7, <2>2, <3>1 DEF CompleteReadRequest, Reading, Woken
  <2>11. ReadsRight'
    BY <2>1, <2>8 DEF Reads, ReadsRight
  <2>12. read_requests'[req] \in Requests
    BY <2>6, <2>8 DEF Requests
  <2> QED
    BY <2>1, <2>6, <2>9, <2>10, <2>11, <2>12 DEF Reads
<1>8. CASE DevRead
  <2>1. /\ tx # << >> /\ Head(tx).type = "READ_REQ" /\ tx' = Tail(tx)
        /\ rx' = Append(rx, [type |-> "READ_COMP", id |-> Head(tx).id,
                             value |-> Head(tx).addr])
        /\ UNCHANGED <<main, op, read_requests, req, value>>
    BY <1>8 DEF DevRead, DevTakes, readVars
  <2>2. Reading /\ Requested
    BY <1>2, <2>1, Taken, Zenon DEF Reads, Answered, Completed
  <2>3. ReadReq.type = "READ_REQ"
    BY DEF ReadReq
  <2>4. Head(tx) = ReadReq /\ NoneOf(Tail(tx), "READ_REQ")
    BY <1>2, <2>1, <2>2, <2>3, Taken, Zenon DEF Requested
  <2>5. rx' = Append(rx, ReadComp)
    BY <2>1, <2>4 DEF ReadReq, ReadComp
  <2>6. req \in Ids /\ op \in Ops
    BY <2>2 DEF Reads
  <2>7. ReadComp \in Down /\ ReadComp.type = "READ_COMP"
    BY <2>6 DEF ReadComp, Down
  <2>8. OnlyOne(rx', ReadComp)
    BY <1>2, <2>2, <2>5, <2>7, Appended DEF Requested
  <2>9. Answered'
    BY <2>1, <2>2, <2>4, <2>8 DEF Answered, Requested, ReadComp
  <2>10. main' # "erase"
    BY <2>1, <2>2 DEF Reads, Requested, Completed
  <2> QED
    BY <2>1, <2>2, <2>9, <2>10 DEF Reads, ReadsRight, Reading
<1>9. ASSUME ~WriteToDevice, ~SetupReadRequest, ~ReadReturns, ~EraseRequest,
             ~CompleteReadRequest, ~DevRead
      PROVE  Reads'
  <2>1. Keeps(tx, tx', "READ_REQ") /\ Keeps(rx, rx', "READ_COMP")
    BY <1>9, UpMoves, DownMoves
  <2>2. /\ UNCHANGED <<op, read_requests, req, value>> /\ (Reading' <=> Reading)
        /\ main' = "erase" => main = "erase"
    <3> USE DEF Reading, readVars, Woken
    <3>1. CASE Main
      BY <1>9, <3>1 DEF Main, SendConfig, ReadyTest, ReadySleep, SetIrqHandler,
            ReadSleep, Report, ReportTest, Stop, Join
    <3>2. CASE SpuriousWakeup
      BY <3>2 DEF SpuriousWakeup
    <3>3. CASE RecvThread
      BY <1>9, <3>3 DEF RecvThread, SetReady, NotifyReady, RecvIrq, RecvResult,
            RecvExit
    <3>4. CASE Device
      BY <1>9, <3>4 DEF Device, DevConfig, DevWrite, DevReport, DevResult
    <3>5. CASE UNCHANGED vars
      BY <3>5 DEF vars
    <3> QED
      BY <3>1, <3>2, <3>3, <3>4, <3>5 DEF Next
  <2> QED
    BY <2>1, <2>2, ReadUnmoved
<1> QED
  BY <1>4, <1>5, <1>6, <1>7, <1>8, <1>9, <1>10

-----------------------------------------------------------------------------
(* The interrupts. *)

\* The device changes nothing of the host but the channels.
hostVars == <<linkVars, main, op, readVars, resultVars, recv, dropped>>

LEMMA DeviceLeaves == Device => UNCHANGED hostVars
<1>1. DevConfig => UNCHANGED hostVars
  BY DEF hostVars, DevConfig
<1>2. DevRead => UNCHANGED hostVars
  BY DEF hostVars, DevRead
<1>3. DevWrite => UNCHANGED hostVars
  BY DEF hostVars, DevWrite
<1>4. DevReport => UNCHANGED hostVars
  BY DEF hostVars, DevReport
<1>5. ASSUME NEW n \in 1 .. ResultSize + 1, DevResult(n)
      PROVE  UNCHANGED hostVars
  BY <1>5 DEF hostVars, DevResult
<1> QED
  BY <1>1, <1>2, <1>3, <1>4, <1>5, Zenon DEF Device

LEMMA HandlerMoves ==
  ASSUME [Next]_vars
  PROVE  /\ irq_handler' = irq_handler \/ SetIrqHandler
         /\ dropped' = dropped \/ RecvIrq
<1> USE DEF linkVars
<1>1. CASE Main
  BY <1>1 DEF Main, SendConfig, ReadyTest, ReadySleep, WriteToDevice,
        SetupReadRequest, ReadSleep, ReadReturns, EraseRequest, Report, ReportTest, Stop, Join,
        SetIrqHandler
<1>2. CASE SpuriousWakeup
  BY <1>2 DEF SpuriousWakeup
<1>3. CASE RecvThread
  BY <1>3 DEF RecvThread, SetReady, NotifyReady, CompleteReadRequest, RecvResult,
        RecvExit, RecvIrq
<1>4. CASE Device
  BY <1>4, DeviceLeaves DEF hostVars
<1>5. CASE UNCHANGED vars
  BY <1>5 DEF vars
<1> QED
  BY <1>1, <1>2, <1>3, <1>4, <1>5 DEF Next

LEMMA IrqsKept == Types /\ Irqs /\ [Next]_vars => Irqs'
<1> SUFFICES ASSUME Types, Irqs, [Next]_vars PROVE Irqs'
  OBVIOUS
<1>1. tx \in Seq(Up) /\ rx \in Seq(Down)
  BY DEF Types
<1>2. CASE irq_handler
  <2>1. irq_handler' /\ ~dropped'
    <3>1. irq_handler' = irq_handler \/ SetIrqHandler
      BY HandlerMoves
    <3>2. dropped' = dropped \/ RecvIrq
      BY HandlerMoves
    <3>3. irq_handler'
      BY <1>2, <3>1 DEF SetIrqHandler
    <3>4. ~dropped
      BY DEF Irqs, NoIrqDropped
    <3>5. ~dropped'
      BY <1>2, <3>2, <3>4 DEF RecvIrq
    <3> QED
      BY <3>3, <3>5
  <2> QED
    BY <2>1 DEF Irqs, NoIrqDropped
<1>3. CASE ~irq_handler
  <2>1. main \in Starting /\ NoneOf(tx, "WRITE_REQ") /\ NoneOf(rx, "IRQ") /\ ~dropped
    BY <1>3 DEF Irqs, NoIrqDropped
  <2>2. ~WriteToDevice
    BY <2>1 DEF WriteToDevice, Starting
  <2>3. ~DevWrite
    BY <1>1, <2>1, Taken DEF DevWrite, DevTakes
  <2>4. ~RecvIrq
    BY <1>1, <2>1, Taken DEF RecvIrq, Receives
  <2>5. Keeps(tx, tx', "WRITE_REQ") /\ Keeps(rx, rx', "IRQ")
    BY <2>2, <2>3, <2>4, UpMoves, DownMoves
  <2>6. NoneOf(tx', "WRITE_REQ") /\ NoneOf(rx', "IRQ")
    BY <2>1, <2>5 DEF Keeps
  <2>7. ~dropped' /\ (irq_handler' \/ main' \in Starting)
    <3> USE DEF Starting, linkVars, Woken
    <3>1. CASE Main
      BY <2>1, <3>1 DEF Main, SendConfig, ReadyTest, ReadySleep, SetIrqHandler,
            WriteToDevice, SetupReadRequest, ReadSleep, ReadReturns, EraseRequest, Report,
            ReportTest, Stop, Join
    <3>2. CASE SpuriousWakeup
      BY <2>1, <3>2 DEF SpuriousWakeup
    <3>3. CASE RecvThread
      BY <2>1, <2>4, <3>3 DEF RecvThread, SetReady, NotifyReady,
            CompleteReadRequest, RecvResult, RecvExit
    <3>4. CASE Device
      BY <2>1, <3>4, DeviceLeaves DEF hostVars
    <3>5. CASE UNCHANGED vars
      BY <2>1, <3>5 DEF vars
    <3> QED
      BY <3>1, <3>2, <3>3, <3>4, <3>5 DEF Next
  <2> QED
    BY <2>6, <2>7 DEF Irqs, NoIrqDropped
<1> QED
  BY <1>2, <1>3

-----------------------------------------------------------------------------
(* The report. *)

LEMMA PartIs ==
  ASSUME NEW s \in Seq(Nat), NEW a \in Nat, NEW b \in Nat, a <= b,
         Len(s) = b - a, \A i \in 1 .. b - a : s[i] = Sent(a + i)
  PROVE  s = Part(a, b)
<1>1. s = [i \in 1 .. Len(s) |-> s[i]]
  OBVIOUS
<1>2. [i \in 1 .. b - a |-> s[i]] = [i \in 1 .. b - a |-> Sent(a + i)]
  OBVIOUS
<1> QED
  BY <1>1, <1>2, Zenon DEF Part

LEMMA PartIsSeq ==
  ASSUME NEW a \in Nat, NEW b \in Nat, a <= b
  PROVE  /\ Part(a, b) \in Seq(Nat) /\ Len(Part(a, b)) = b - a
         /\ \A i \in 1 .. b - a : Part(a, b)[i] = Sent(a + i)
<1>1. PICK n \in Nat : n = b - a
  OBVIOUS
<1>2. \A i \in 1 .. n : Sent(a + i) \in Nat
  BY LinkMcmqAssumption DEF Sent
<1>3. Part(a, b) = [i \in 1 .. n |-> Sent(a + i)]
  BY <1>1 DEF Part
<1>4. Part(a, b) \in Seq(Nat) /\ Len(Part(a, b)) = n
  BY <1>2, <1>3
<1> QED
  BY <1>1, <1>3, <1>4

\* The report the device prepares is all of the bytes.
LEMMA WholePart == << ResultSize >> \o Result = Part(0, ResultSize + 1)
<1>1. ResultSize \in Nat
  BY LinkMcmqAssumption
<1>2. << ResultSize >> \in Seq(Nat) /\ Len(<< ResultSize >>) = 1
      /\ << ResultSize >>[1] = ResultSize
  BY <1>1
<1>3. Result \in Seq(Nat) /\ Len(Result) = ResultSize
      /\ \A i \in 1 .. ResultSize : Result[i] = i
  BY <1>1 DEF Result
<1>4. PICK s : s = << ResultSize >> \o Result
  OBVIOUS
<1>5. /\ s \in Seq(Nat) /\ Len(s) = 1 + ResultSize
      /\ \A i \in 1 .. 1 + ResultSize :
           s[i] = IF i <= 1 THEN << ResultSize >>[i] ELSE Result[i - 1]
  BY <1>2, <1>3, <1>4, ConcatProperties
<1>6. \A i \in 1 .. ResultSize + 1 : s[i] = Sent(0 + i)
  BY <1>1, <1>2, <1>3, <1>5 DEF Sent
<1>7. s = Part(0, ResultSize + 1)
  BY <1>1, <1>5, <1>6, PartIs
<1> QED
  BY <1>4, <1>7

\* The p-th to the q-th of the bytes from a to b are those from c to d.
Spans(a, b, p, q, c, d) ==
  1 <= p /\ p <= q /\ d <= b /\ c + 1 = a + p /\ d = a + q

LEMMA SubPart ==
  ASSUME NEW a \in Nat, NEW b \in Nat, NEW p \in Nat, NEW q \in Nat,
         NEW c \in Nat, NEW d \in Nat, Spans(a, b, p, q, c, d)
  PROVE  SubSeq(Part(a, b), p, q) = Part(c, d)
<1> USE DEF Spans
<1>1. a <= b /\ b - a \in Nat /\ q <= b - a
  OBVIOUS
<1>2. PICK s \in Seq(Nat) : s = Part(a, b) /\ Len(s) = b - a
                            /\ \A i \in 1 .. b - a : s[i] = Sent(a + i)
  BY <1>1, PartIsSeq
<1>3. \A i \in p .. q : i \in 1 .. b - a /\ i \in Nat
  BY <1>1
<1>4. \A i \in p .. q : i \in 1 .. b - a /\ i \in Nat /\ s[i] \in Nat
  BY <1>2, <1>3
<1>5. PICK t : t = SubSeq(s, p, q)
  OBVIOUS
<1>6. /\ t \in Seq(Nat) /\ Len(t) = q - p + 1
      /\ \A i \in 1 .. q - p + 1 : t[i] = s[p + i - 1]
  BY <1>4, <1>5, SubSeqProperties
<1>7. c <= d /\ d - c = q - p + 1
  OBVIOUS
<1>8. ASSUME NEW i \in 1 .. d - c PROVE t[i] = Sent(c + i)
  <2>1. i \in 1 .. q - p + 1 /\ p + i - 1 \in p .. q /\ p + i - 1 \in 1 .. b - a
    BY <1>7
  <2>2. t[i] = Sent(a + (p + i - 1))
    BY <1>2, <1>6, <2>1
  <2>3. a + (p + i - 1) = c + i
    BY <2>1
  <2> QED
    BY <2>2, <2>3
<1>9. t = Part(c, d)
  <2>1. Len(t) = d - c /\ t \in Seq(Nat)
    BY <1>6, <1>7
  <2> QED
    BY <1>7, <1>8, <2>1, PartIs
<1> QED
  BY <1>2, <1>5, <1>9

\* The first n bytes of the result.
FirstBytes(n) == [k \in 1 .. n |-> k]

\* The first part of the report is the length and the first bytes ...
LEMMA FirstPart ==
  ASSUME NEW d \in Nat, 1 < d
  PROVE  /\ Head(Part(0, d)) = ResultSize
         /\ << >> \o Tail(Part(0, d)) = FirstBytes(d - 1)
<1>1. PICK s \in Seq(Nat) :
        s = Part(0, d) /\ Len(s) = d /\ \A i \in 1 .. d : s[i] = Sent(0 + i)
  BY PartIsSeq
<1>2. s # << >>
  BY <1>1
<1>3. PICK t \in Seq(Nat) : t = Tail(s)
  BY <1>2, HeadTailProperties
<1>4. Head(s) = s[1] /\ Len(t) = d - 1 /\ \A i \in 1 .. Len(t) : t[i] = s[i + 1]
  BY <1>1, <1>2, <1>3, HeadTailProperties
<1>5. s[1] = ResultSize
  BY <1>1 DEF Sent
<1>6. \A i \in 1 .. d - 1 : t[i] = i
  BY <1>1, <1>4 DEF Sent
<1>7. t = [i \in 1 .. d - 1 |-> i]
  BY <1>4, <1>6
<1>8. << >> \o t = t
  BY ConcatEmptySeq
<1> QED
  BY <1>1, <1>3, <1>4, <1>5, <1>7, <1>8 DEF FirstBytes

\* ... and any later one goes on where the bytes collected end.
LEMMA NextPart ==
  ASSUME NEW n \in Nat, n > 0, NEW d \in Nat, n + 1 < d
  PROVE  FirstBytes(n) \o Part(n + 1, d) = FirstBytes(d - 1)
<1>1. PICK s : s = [k \in 1 .. n |-> k]
  OBVIOUS
<1>2. s \in Seq(Nat) /\ s = FirstBytes(n) /\ Len(s) = n
      /\ \A i \in 1 .. n : s[i] = i
  BY <1>1 DEF FirstBytes
<1>3. PICK e \in Nat : e = n + 1 /\ e <= d
  OBVIOUS
<1>4. PICK t \in Seq(Nat) : t = Part(e, d) /\ Len(t) = d - e
                            /\ \A i \in 1 .. d - e : t[i] = Sent(e + i)
  BY <1>3, PartIsSeq
<1>5. Len(s) + Len(t) = n + (d - e) /\ Len(s) = n
  BY <1>2, <1>4
<1>6. PICK u : u = s \o t
  OBVIOUS
<1>7. /\ u \in Seq(Nat) /\ Len(u) = n + (d - e)
      /\ \A i \in 1 .. n + (d - e) : u[i] = IF i <= n THEN s[i] ELSE t[i - n]
  <2>1. /\ u \in Seq(Nat) /\ Len(u) = Len(s) + Len(t)
        /\ \A i \in 1 .. Len(s) + Len(t) :
             u[i] = IF i <= Len(s) THEN s[i] ELSE t[i - Len(s)]
    <3>1. s \in Seq(Nat) /\ t \in Seq(Nat)
      BY <1>2, <1>4
    <3> QED
      BY <1>6, <3>1, ConcatProperties
  <2> QED
    BY <1>5, <2>1
<1>8. ASSUME NEW i \in 1 .. d - 1 PROVE u[i] = i
  <2>1. CASE i <= n
    BY <1>2, <1>3, <1>7, <2>1
  <2>2. CASE ~(i <= n)
    <3>1. PICK j : j = i - n
      OBVIOUS
    <3>2. j \in 1 .. d - e /\ i \in 1 .. n + (d - e)
      BY <1>3, <2>2, <3>1
    <3>3. u[i] = t[j] /\ t[j] = Sent(e + j)
      BY <1>4, <1>7, <2>2, <3>1, <3>2
    <3>4. e + j = i + 1 /\ i + 1 # 1
      BY <1>3, <2>2, <3>1
    <3>5. Sent(i + 1) = i
      BY <3>4 DEF Sent
    <3> QED
      BY <3>3, <3>4, <3>5
  <2> QED
    BY <2>1, <2>2
<1>9. Len(u) = d - 1
  BY <1>3, <1>7
<1>10. u = [i \in 1 .. d - 1 |-> i]
  BY <1>7, <1>8, <1>9
<1> QED
  BY <1>2, <1>3, <1>4, <1>6, <1>10 DEF FirstBytes

\* A channel without a part of the report.
LEMMA NoCut ==
  ASSUME NEW S, NEW s \in Seq(S), NoneOf(s, "RESULT"), NEW a \in 0 .. ResultSize + 1
  PROVE  Cuts(s, a, a)
<1>1. PICK n \in Nat : n = Len(s)
  OBVIOUS
<1>2. PICK c : c = [i \in 0 .. n |-> a]
  OBVIOUS
<1>3. c \in [0 .. n -> 0 .. ResultSize + 1] /\ \A i \in 0 .. n : c[i] = a
  BY <1>2
<1>4. 0 \in 0 .. n /\ n \in 0 .. n
      /\ \A i \in 1 .. n : i \in 0 .. n /\ i - 1 \in 0 .. n
  OBVIOUS
<1> QED
  BY <1>1, <1>3, <1>4 DEF Cuts, Cut, NoneOf

\* A step that leaves the report and its messages alone.
LEMMA ReportUnmoved ==
  ASSUME Reports, UNCHANGED <<resultVars, unsent>>, Reporting' <=> Reporting,
         main' \in {"stop", "join", "done"}
           => main \in {"stop", "join", "done"} \/ result_ready,
         Keeps(tx, tx', "REPORT"), Keeps(rx, rx', "RESULT")
  PROVE  Reports'
<1>1. Got' = Got /\ (Collected => Collected') /\ UNCHANGED unsent
  BY DEF Got, Collected, resultVars
<1>2. [type |-> "REPORT"].type = "REPORT"
  OBVIOUS
<1>3. /\ NoneOf(tx, "REPORT") => NoneOf(tx, "REPORT")'
      /\ OnlyOne(tx, [type |-> "REPORT"]) => OnlyOne(tx, [type |-> "REPORT"])'
      /\ NoneOf(rx, "RESULT") => NoneOf(rx, "RESULT")'
      /\ \A a, b : Cuts(rx, a, b) => Cuts(rx', a, b)
  BY <1>2, Zenon DEF Keeps
<1>4. Awaited => Awaited'
  BY <1>1, <1>3 DEF Awaited, resultVars
<1>5. ASSUME Coming PROVE Coming'
  <2>1. PICK sent \in 0 .. ResultSize + 1 :
          /\ unsent = IF sent = ResultSize + 1 THEN None
                      ELSE Part(sent, ResultSize + 1)
          /\ Cuts(rx, Got, sent)
    BY <1>5 DEF Coming
  <2>2. Cuts(rx', Got', sent)
    BY <1>1, <1>3, <2>1
  <2>3. unsent' = IF sent = ResultSize + 1 THEN None ELSE Part(sent, ResultSize + 1)
    BY <1>1, <2>1
  <2>4. NoneOf(tx, "REPORT")' /\ Collected'
    BY <1>1, <1>3, <1>5 DEF Coming
  <2> QED
    BY <2>2, <2>3, <2>4 DEF Coming
<1>6. main' \in {"stop", "join", "done"} => result_ready'
  BY DEF Reports, resultVars
<1> QED
  BY <1>1, <1>3, <1>4, <1>5, <1>6 DEF Reports

LEMMA ReportsKept == Types /\ Reports /\ [Next]_vars => Reports'
<1> SUFFICES ASSUME Types, Reports, [Next]_vars PROVE Reports'
  OBVIOUS
<1>1. /\ tx \in Seq(Up) /\ rx \in Seq(Down) /\ ResultSize \in Nat
      /\ None \notin Seq(Nat)
  BY LinkMcmqAssumption, NoneAssumption DEF Types
<1>2. CASE Report
  <2>1. /\ ~Reporting /\ main' = "report_asleep" /\ rx' = rx /\ unsent' = unsent
        /\ tx' = Append(tx, [type |-> "REPORT"])
        /\ result_buf' = << >> /\ result_ready' = FALSE
    BY <1>2 DEF Report, Reporting, Send
  <2>2. [type |-> "REPORT"] \in Up /\ [type |-> "REPORT"].type = "REPORT"
    BY DEF Up
  <2>3. OnlyOne(tx', [type |-> "REPORT"])
    BY <1>1, <2>1, <2>2, Appended DEF Reports
  <2>4. Awaited'
    BY <2>1, <2>3 DEF Awaited, Reports
  <2> QED
    BY <2>1, <2>4 DEF Reports, Reporting
<1>3. CASE DevReport
  <2>1. /\ tx # << >> /\ Head(tx).type = "REPORT" /\ tx' = Tail(tx)
        /\ unsent' = << ResultSize >> \o Result
        /\ UNCHANGED <<rx, main, resultVars>>
    BY <1>3 DEF DevReport, DevTakes
  <2>2. Reporting /\ Awaited
    BY <1>1, <2>1, Taken, Zenon DEF Reports, Coming
  <2>3. [type |-> "REPORT"].type = "REPORT"
    OBVIOUS
  <2>4. NoneOf(tx', "REPORT")
    BY <1>1, <2>1, <2>2, <2>3, Taken, Zenon DEF Awaited
  <2>5. Collected' /\ Got' = 0
    BY <2>1, <2>2 DEF Awaited, Collected, Got, resultVars
  <2>6. 0 \in 0 .. ResultSize + 1 /\ 0 # ResultSize + 1
    BY <1>1
  <2>7. Cuts(rx', Got', 0)
    BY <1>1, <2>1, <2>2, <2>5, <2>6, NoCut DEF Awaited
  <2>8. unsent' = Part(0, ResultSize + 1)
    BY <2>1, WholePart
  <2>9. Coming'
    BY <2>4, <2>5, <2>6, <2>7, <2>8 DEF Coming
  <2> QED
    BY <2>1, <2>2, <2>9 DEF Reports, Reporting, resultVars
<1>4. ASSUME NEW n \in 1 .. ResultSize + 1, DevResult(n) PROVE Reports'
  <2>1. /\ unsent # None /\ n <= Len(unsent)
        /\ Len(unsent) = ResultSize + 1 => n >= 2
        /\ rx' = Append(rx, [type |-> "RESULT", bytes |-> SubSeq(unsent, 1, n)])
        /\ unsent' = IF n = Len(unsent) THEN None
                     ELSE SubSeq(unsent, n + 1, Len(unsent))
        /\ UNCHANGED <<tx, main, resultVars>>
    BY <1>4 DEF DevResult
  <2>2. Reporting /\ Coming
    BY <2>1 DEF Reports, Awaited
  <2>3. PICK sent \in 0 .. ResultSize + 1 :
          /\ unsent = IF sent = ResultSize + 1 THEN None
                      ELSE Part(sent, ResultSize + 1)
          /\ Cuts(rx, Got, sent)
    BY <2>2 DEF Coming
  <2>4. /\ sent \in Nat /\ sent < ResultSize + 1 /\ n \in Nat /\ 1 <= n
        /\ unsent = Part(sent, ResultSize + 1)
    BY <1>1, <2>1, <2>3
  <2>5. PICK d \in Nat, e \in Nat : /\ d = sent + n /\ e = ResultSize + 1
                                   /\ sent <= e
    BY <1>1, <2>4
  <2>6. Len(unsent) = e - sent /\ unsent = Part(sent, e)
    BY <2>4, <2>5, PartIsSeq
  <2>7. /\ d <= ResultSize + 1 /\ sent < d /\ d > 1
        /\ d \in 0 .. ResultSize + 1
        /\ n = Len(unsent) <=> d = ResultSize + 1
        /\ sent + n <= e
    BY <1>1, <2>1, <2>4, <2>5, <2>6
  <2>8. SubSeq(unsent, 1, n) = Part(sent, d)
    <3>1. /\ sent \in Nat /\ e \in Nat /\ 1 \in Nat /\ n \in Nat /\ d \in Nat
          /\ Spans(sent, e, 1, n, sent, d)
      BY <2>4, <2>5, <2>7 DEF Spans
    <3>2. SubSeq(Part(sent, e), 1, n) = Part(sent, d)
      BY <3>1, SubPart
    <3> QED
      BY <2>6, <3>2
  <2>9. ASSUME d # ResultSize + 1
        PROVE  SubSeq(unsent, n + 1, Len(unsent)) = Part(d, ResultSize + 1)
    <3>1. PICK k \in Nat, l \in Nat : k = n + 1 /\ l = e - sent
      <4>1. n + 1 \in Nat /\ e - sent \in Nat
        BY <2>4, <2>5
      <4> QED
        BY <4>1
    <3>2. d < e
      BY <1>1, <2>5, <2>7, <2>9
    <3>3. /\ sent \in Nat /\ e \in Nat /\ k \in Nat /\ l \in Nat /\ d \in Nat
          /\ Spans(sent, e, k, l, d, e)
      BY <2>4, <2>5, <3>1, <3>2 DEF Spans
    <3>4. SubSeq(Part(sent, e), k, l) = Part(d, e)
      BY <3>3, SubPart, SMTT(90)
    <3> QED
      BY <2>5, <2>6, <3>1, <3>4
  <2>10. unsent' = IF d = ResultSize + 1 THEN None ELSE Part(d, ResultSize + 1)
    BY <2>1, <2>7, <2>9
  <2>11. PICK m : m = [type |-> "RESULT", bytes |-> SubSeq(unsent, 1, n)]
    OBVIOUS
  <2>12. Carries(m, sent, d)
    BY <2>7, <2>8, <2>11 DEF Carries
  <2>13. m \in Down
    <3>1. Part(sent, d) \in Seq(Nat)
      BY <2>4, <2>5, <2>7, PartIsSeq
    <3> QED
      BY <2>8, <2>11, <3>1 DEF Down
  <2>14. Cuts(Append(rx, m), Got, d)
    BY <1>1, <2>3, <2>7, <2>12, <2>13, CutLonger
  <2>15. Got' = Got /\ (Collected => Collected')
    BY <2>1 DEF Got, Collected, resultVars
  <2>16. Cuts(rx', Got', d)
    BY <2>1, <2>11, <2>14, <2>15
  <2>17. Coming'
    BY <2>1, <2>2, <2>7, <2>10, <2>15, <2>16 DEF Coming
  <2> QED
    BY <2>1, <2>2, <2>17 DEF Reports, Reporting, resultVars
<1>5. CASE RecvResult
  <2>1. PICK m \in Down : m = Head(rx) /\ rx # << >> /\ m.type = "RESULT"
    BY <1>1, <1>5, Taken DEF RecvResult, Receives
  <2>2. PICK buf : buf = result_buf \o (IF result_buf = << >> THEN Tail(m.bytes)
                                        ELSE m.bytes)
    OBVIOUS
  <2>3. /\ rx' = Tail(rx) /\ UNCHANGED <<tx, unsent>>
        /\ result_buf' = buf
        /\ result_len' = IF result_buf = << >> THEN Head(m.bytes) ELSE result_len
        /\ result_ready' = (result_ready \/ Len(buf) = result_len')
        /\ main' = IF Len(buf) = result_len' /\ main = "report_asleep"
                   THEN Woken(main) ELSE main
    BY <1>5, <2>1, <2>2 DEF RecvResult
  <2>4. Reporting /\ Coming
    BY <1>1, <2>1, Taken, Zenon DEF Reports, Awaited
  <2>5. PICK sent \in 0 .. ResultSize + 1 :
          /\ unsent = IF sent = ResultSize + 1 THEN None
                      ELSE Part(sent, ResultSize + 1)
          /\ Cuts(rx, Got, sent)
    BY <2>4 DEF Coming
  <2>6. PICK d \in 0 .. ResultSize + 1 :
          Carries(m, Got, d) /\ Cuts(Tail(rx), d, sent)
    BY <1>1, <2>1, <2>5, CutShorter
  <2>7. d \in Nat /\ Got < d /\ d > 1 /\ m.bytes = Part(Got, d)
    BY <1>1, <2>1, <2>6 DEF Carries
  <2>8. PICK n \in Nat : /\ n = Len(result_buf) /\ result_buf = FirstBytes(n)
                         /\ result_buf = << >> <=> n = 0
    <3>1. /\ result_buf \in Seq(Nat)
          /\ result_buf = [k \in 1 .. Len(result_buf) |-> k]
      BY <2>4 DEF Coming, Collected
    <3>2. Len(result_buf) \in Nat /\ (result_buf = << >> <=> Len(result_buf) = 0)
      BY <3>1, EmptySeq
    <3> QED
      BY <3>1, <3>2 DEF FirstBytes
  <2>9. Got = IF n = 0 THEN 0 ELSE n + 1
    BY <2>8 DEF Got
  <2>10. ~result_ready
    <3>1. SUFFICES ASSUME result_ready PROVE FALSE
      OBVIOUS
    <3>2. n = ResultSize /\ n # 0
      BY <2>4, <2>8, <3>1 DEF Coming, Collected
    <3> QED
      BY <1>1, <2>6, <2>7, <2>9, <3>2
  <2>11. buf = FirstBytes(d - 1) /\ result_len' = ResultSize
    <3>1. CASE n = 0
      <4>1. m.bytes = Part(0, d) /\ result_buf = << >>
        BY <2>7, <2>8, <2>9, <3>1
      <4> QED
        BY <2>2, <2>3, <2>7, <4>1, FirstPart
    <3>2. CASE n # 0
      <4>1. m.bytes = Part(n + 1, d) /\ result_buf # << >> /\ n + 1 < d /\ n > 0
        <5>1. Got = n + 1 /\ n > 0
          BY <2>9, <3>2
        <5>2. m.bytes = Part(n + 1, d) /\ n + 1 < d
          BY <2>7, <5>1
        <5>3. result_buf # << >>
          BY <2>8, <5>1
        <5> QED
          BY <5>1, <5>2, <5>3
      <4>2. FirstBytes(n) \o Part(n + 1, d) = FirstBytes(d - 1)
        BY <2>7, <4>1, NextPart
      <4>3. result_len' = ResultSize
        BY <2>3, <2>4, <4>1 DEF Coming, Collected
      <4> QED
        BY <2>2, <2>8, <4>1, <4>2, <4>3
    <3> QED
      BY <3>1, <3>2
  <2>12. buf \in Seq(Nat) /\ Len(buf) = d - 1 /\ buf # << >>
         /\ buf = [k \in 1 .. Len(buf) |-> k]
    <3>1. PICK l \in Nat : l = d - 1 /\ l > 0
      BY <2>7
    <3>2. buf = [k \in 1 .. l |-> k]
      BY <2>11, <3>1 DEF FirstBytes
    <3>3. buf \in Seq(Nat) /\ Len(buf) = l
      BY <3>2
    <3> QED
      BY <3>1, <3>2, <3>3
  <2>13. Collected'
    BY <2>3, <2>10, <2>11, <2>12 DEF Collected
  <2>14. Got' = d
    BY <2>3, <2>7, <2>12 DEF Got
  <2>15. Coming'
    BY <2>3, <2>4, <2>5, <2>6, <2>13, <2>14 DEF Coming
  <2>16. main \notin {"stop", "join", "done"}
    BY <2>10 DEF Reports
  <2> QED
    BY <2>3, <2>4, <2>15, <2>16 DEF Reports, Reporting, Woken
<1>6. ASSUME ~Report, ~DevReport, ~\E n \in 1 .. ResultSize + 1 : DevResult(n),
             ~RecvResult
      PROVE  Reports'
  <2>1. Keeps(tx, tx', "REPORT") /\ Keeps(rx, rx', "RESULT")
    BY <1>6, UpMoves, DownMoves
  <2>2. /\ UNCHANGED <<resultVars, unsent>> /\ (Reporting' <=> Reporting)
        /\ main' \in {"stop", "join", "done"}
             => main \in {"stop", "join", "done"} \/ result_ready
    <3> USE DEF Reporting, resultVars, Woken
    <3>1. CASE Main
      BY <1>6, <3>1 DEF Main, SendConfig, ReadyTest, ReadySleep, SetIrqHandler,
            WriteToDevice, SetupReadRequest, ReadSleep, ReadReturns, EraseRequest, ReportTest,
            Stop, Join
    <3>2. CASE SpuriousWakeup
      BY <3>2 DEF SpuriousWakeup
    <3>3. CASE RecvThread
      BY <1>6, <3>3 DEF RecvThread, SetReady, NotifyReady, CompleteReadRequest,
            RecvIrq, RecvExit
    <3>4. CASE Device
      <4>1. UNCHANGED unsent
        BY <1>6, <3>4 DEF Device, DevConfig, DevRead, DevWrite
      <4> QED
        BY <3>4, <4>1, DeviceLeaves DEF hostVars
    <3>5. CASE UNCHANGED vars
      BY <3>5 DEF vars
    <3> QED
      BY <3>1, <3>2, <3>3, <3>4, <3>5 DEF Next
  <2> QED
    BY <2>1, <2>2, ReportUnmoved
<1> QED
  BY <1>2, <1>3, <1>4, <1>5, <1>6

-----------------------------------------------------------------------------
(* The theorems. *)

LEMMA Linked == Init => Link
<1> SUFFICES ASSUME Init PROVE Link
  OBVIOUS
<1>1. /\ tx = << >> /\ rx = << >> /\ main = "config" /\ op = 1 /\ req = None
      /\ read_requests = [i \in Ids |-> None] /\ unsent = None /\ dropped = FALSE
  BY DEF Init
<1>2. \A type : NoneOf(tx, type) /\ NoneOf(rx, type)
  BY <1>1 DEF NoneOf
<1>3. Reads
  BY <1>1, <1>2 DEF Reads, ReadsRight, Reading, Ops
<1>4. Irqs
  BY <1>1, <1>2 DEF Irqs, NoIrqDropped, Starting
<1>5. Reports
  BY <1>1, <1>2 DEF Reports, Reporting
<1> QED
  BY <1>3, <1>4, <1>5, Typed DEF Link

LEMMA LinkKept == Link /\ [Next]_vars => Link'
  BY TypesKept, ReadsKept, IrqsKept, ReportsKept DEF Link

LEMMA SpecLink == Spec => []Link
  BY Linked, LinkKept, PTL DEF Spec

\* read_from_device returns the value of the register it was called for, and its
\* request has left read_requests: no two reads ever share an id, however the
\* ids come round and whatever the read is woken by.
THEOREM ReadsAreRight == Spec => []ReadsRight
<1>1. Link => ReadsRight
  BY DEF Link, Reads
<1> QED
  BY <1>1, SpecLink, PTL

\* report parses exactly the bytes of the SimResult, in their order, for every
\* length and every way to cut it into RESULT messages.
THEOREM ReportsAreWhole == Spec => []ReportWhole
<1>1. ASSUME Link PROVE ReportWhole
  <2>1. SUFFICES ASSUME main \in {"stop", "join", "done"}
                 PROVE  result_buf = Result
    BY DEF ReportWhole
  <2>2. Coming /\ result_ready
    BY <1>1, <2>1 DEF Link, Reports, Reporting, Awaited
  <2> QED
    BY <2>2 DEF Coming, Collected, Result
<1> QED
  BY <1>1, SpecLink, PTL

\* Every interrupt of the device finds irq_handler set, whatever registers the
\* program writes: NVMeDriver::start sets the handler before it writes any.
THEOREM NoIrqIsDropped == Spec => []NoIrqDropped
<1>1. Link => NoIrqDropped
  BY DEF Link, Irqs
<1> QED
  BY <1>1, SpecLink, PTL

-----------------------------------------------------------------------------
(* The byte stream under the messages.  First numbers, and how they go round *)
(* a ring.                                                                   *)

\* The order that LeastNat goes by.
LEMMA Below ==
  ASSUME NEW m \in Nat, NEW n \in Nat
  PROVE  <<m, n>> \in OpToRel(<, Nat) <=> m < n
  BY DEF OpToRel

\* Every set of numbers has a least one.
LEMMA LeastNat ==
  ASSUME NEW S, S \subseteq Nat, S # {}
  PROVE  \E m \in S : \A k \in S : m <= k
<1>1. PICK R : R = OpToRel(<, Nat)
  OBVIOUS
<1>2. IsWellFoundedOn(R, Nat)
  BY <1>1, NatLessThanWellFounded
<1>3. PICK m \in S : \A k \in S : ~(<<k, m>> \in R)
  BY <1>2, WFMin
<1>4. ASSUME NEW k \in S PROVE m <= k
  <2>1. k \in Nat /\ m \in Nat
    OBVIOUS
  <2>2. ~(k < m)
    BY <1>1, <1>3, <2>1, Below
  <2> QED
    BY <2>1, <2>2
<1> QED
  BY <1>4

\* Quotient and remainder.
LEMMA Divided ==
  ASSUME NEW p \in Nat, p > 0, NEW a \in Int
  PROVE  \E q \in Int, r \in 0 .. p - 1 : a = q * p + r /\ a % p = r
<1>1. a \div p \in Int /\ a % p \in 0 .. p - 1
  OBVIOUS
<1>2. ASSUME NEW q \in Int, q = a \div p PROVE a % p = a - p * q
  BY <1>2
<1>3. PICK q \in Int, r \in 0 .. p - 1 : q = a \div p /\ r = a % p
  BY <1>1
<1>4. a = q * p + r
  BY <1>2, <1>3
<1> QED
  BY <1>3, <1>4

\* What is of this form has this remainder.
LEMMA Divides ==
  ASSUME NEW p \in Nat, p > 0, NEW q \in Int, NEW r \in 0 .. p - 1
  PROVE  (q * p + r) % p = r
<1>1. \A a \in Int : a = p * q + r => a % p = r
  OBVIOUS
<1>2. q * p + r = p * q + r /\ q * p + r \in Int
  OBVIOUS
<1> QED
  BY <1>1, <1>2

\* Whole turns make no difference.
LEMMA Turns ==
  ASSUME NEW p \in Nat, p > 0, NEW a \in Int, NEW k \in Int
  PROVE  (a + k * p) % p = a % p
<1>1. PICK q \in Int, r \in 0 .. p - 1 : a = q * p + r /\ a % p = r
  BY Divided
<1>2. a + k * p = (q + k) * p + r /\ q + k \in Int
  BY <1>1
<1> QED
  BY <1>1, <1>2, Divides
-----------------------------------------------------------------------------
(* The ring buffer: the bytes of w written so far are the first b, the bytes *)
(* read the first a, and those between are in it.                            *)

InRing(r, w, a, b) ==
  /\ r \in [head : Nat, tail : Nat, data_buff : [0 .. BufferSize - 1 -> Byte]]
  /\ r.head = b % IndexRange /\ r.tail = a % IndexRange
  /\ a \in Nat /\ b \in a .. a + BufferSize
  /\ \A j \in a .. b - 1 : r.data_buff[j % BufferSize] = w[j + 1]

\* What the static_asserts give.
LEMMA RingSizes ==
  /\ BufferSize \in Nat /\ BufferSize > 0
  /\ IndexRange \in Nat /\ IndexRange >= 2 * BufferSize
  /\ \A a \in Int : (a % IndexRange) % BufferSize = a % BufferSize
<1>1. /\ BufferSize \in Nat /\ BufferSize > 0
      /\ IndexRange \in Nat /\ IndexRange >= 2 * BufferSize /\ IndexRange > 0
      /\ IndexRange % BufferSize = 0
  BY RingBufferAssumption
<1>2. PICK m \in Int, z \in 0 .. BufferSize - 1 :
        IndexRange = m * BufferSize + z /\ IndexRange % BufferSize = z
  BY <1>1, Divided
<1>3. IndexRange = m * BufferSize
  BY <1>1, <1>2
<1>4. ASSUME NEW a \in Int PROVE (a % IndexRange) % BufferSize = a % BufferSize
  <2>1. PICK q \in Int, r \in 0 .. IndexRange - 1 :
          a = q * IndexRange + r /\ a % IndexRange = r
    BY <1>1, Divided
  <2>2. a = r + (q * m) * BufferSize /\ q * m \in Int /\ r \in Int
    BY <1>1, <1>3, <2>1
  <2>3. a % BufferSize = r % BufferSize
    BY <1>1, <2>2, Turns
  <2> QED
    BY <2>1, <2>3
<1> QED
  BY <1>1, <1>4

\* readAvailable is right across the wrap of the indices.
LEMMA RingAvailable ==
  ASSUME NEW r, NEW w, NEW a, NEW b, InRing(r, w, a, b)
  PROVE  ReadAvailable(r) = b - a /\ WriteAvailable(r) = BufferSize - (b - a)
<1>1. /\ IndexRange \in Nat /\ IndexRange > 0 /\ a \in Nat /\ b \in Nat
      /\ a \in Int /\ b \in Int /\ b - a \in 0 .. IndexRange - 1
  BY RingSizes DEF InRing
<1>2. PICK q \in Int, x \in 0 .. IndexRange - 1 :
        a = q * IndexRange + x /\ a % IndexRange = x
  BY <1>1, Divided
<1>3. PICK p \in Int, y \in 0 .. IndexRange - 1 :
        b = p * IndexRange + y /\ b % IndexRange = y
  BY <1>1, Divided
<1>4. y - x = (b - a) + (q - p) * IndexRange /\ b - a \in Int /\ q - p \in Int
  BY <1>1, <1>2, <1>3
<1>5. (y - x) % IndexRange = (b - a) % IndexRange
  BY <1>1, <1>4, Turns
<1>6. 0 * IndexRange + (b - a) = b - a
  BY <1>1
<1>7. (b - a) % IndexRange = b - a
  BY <1>1, <1>6, Divides
<1>8. ReadAvailable(r) = b - a
  BY <1>2, <1>3, <1>5, <1>7 DEF ReadAvailable, InRing
<1> QED
  BY <1>8 DEF WriteAvailable

\* Positions less than a buffer apart have different slots.
LEMMA Slots ==
  ASSUME NEW b \in Nat, NEW j \in Nat,
         NEW h, h = b % IndexRange
  PROVE  /\ j % BufferSize \in 0 .. BufferSize - 1
         /\ j \in b .. b + BufferSize - 1
              => ((j % BufferSize) - h) % BufferSize = j - b
         /\ j \in b - BufferSize .. b - 1
              => ((j % BufferSize) - h) % BufferSize = BufferSize + j - b
<1>1. /\ BufferSize \in Nat /\ BufferSize > 0 /\ IndexRange \in Nat
      /\ IndexRange > 0
      /\ h % BufferSize = b % BufferSize
  BY RingSizes
<1>0. j \in Int /\ b \in Int
  OBVIOUS
<1>2. PICK q \in Int, x \in 0 .. BufferSize - 1 :
        j = q * BufferSize + x /\ j % BufferSize = x
  BY <1>0, <1>1, Divided
<1>3. h \in Int
  BY <1>1, Divided
<1>4. PICK p \in Int, y \in 0 .. BufferSize - 1 :
        h = p * BufferSize + y /\ h % BufferSize = y
  BY <1>1, <1>3, Divided
<1>5. PICK k \in Int, z \in 0 .. BufferSize - 1 :
        b = k * BufferSize + z /\ b % BufferSize = z
  BY <1>0, <1>1, Divided
<1>6. z = y
  BY <1>1, <1>4, <1>5
<1>7. x - h = (j - b) + (k - q - p) * BufferSize
      /\ j - b \in Int /\ k - q - p \in Int /\ x - h \in Int
  BY <1>1, <1>2, <1>3, <1>4, <1>5, <1>6
<1>8. (x - h) % BufferSize = (j - b) % BufferSize
  <2>1. PICK e \in Int, n \in Int : e = j - b /\ n = k - q - p
    BY <1>7
  <2>2. (e + n * BufferSize) % BufferSize = e % BufferSize
    BY <1>1, <2>1, Turns
  <2>3. x - h = e + n * BufferSize
    BY <1>7, <2>1
  <2> QED
    BY <2>1, <2>2, <2>3
<1>9. ASSUME j \in b .. b + BufferSize - 1 PROVE (j - b) % BufferSize = j - b
  <2>1. 0 * BufferSize + (j - b) = j - b /\ j - b \in 0 .. BufferSize - 1
    BY <1>1, <1>9
  <2> QED
    BY <1>1, <2>1, Divides
<1>10. ASSUME j \in b - BufferSize .. b - 1
       PROVE  (j - b) % BufferSize = BufferSize + j - b
  <2>1. (-1) * BufferSize + (BufferSize + j - b) = j - b
        /\ BufferSize + j - b \in 0 .. BufferSize - 1
    BY <1>1, <1>10
  <2> QED
    BY <1>1, <2>1, Divides
<1> QED
  BY <1>2, <1>8, <1>9, <1>10

\* writeBuff appends to what the ring buffer holds, if there is room: at every
\* position of the indices, across their wrap and that of the buffer.
THEOREM RingWrites ==
  ASSUME NEW r, NEW w \in Seq(Byte), NEW a, NEW b,
         InRing(r, w, a, b), NEW n \in Nat,
         b + n <= Len(w), b + n <= a + BufferSize
  PROVE  InRing(WriteBuff(r, SubSeq(w, b + 1, b + n)), w, a, b + n)
<1>1. PICK buff : buff = SubSeq(w, b + 1, b + n)
  OBVIOUS
<1>2. /\ a \in Nat /\ b \in Nat /\ a <= b /\ b <= a + BufferSize
      /\ a \in Int /\ b \in Int
      /\ BufferSize \in Nat /\ BufferSize > 0
      /\ IndexRange \in Nat /\ IndexRange > 0
  BY RingSizes DEF InRing
<1>3. ASSUME NEW i \in b + 1 .. b + n PROVE w[i] \in Byte
  <2>1. i \in 1 .. Len(w)
    BY <1>2, LenProperties
  <2> QED
    BY <2>1, ElementOfSeq
<1>4. /\ Len(buff) = n
      /\ \A i \in 1 .. n : buff[i] = w[b + i] /\ buff[i] \in Byte
  <2>1. /\ buff \in Seq(Byte)
        /\ Len(buff) = IF b + 1 <= b + n THEN b + n - (b + 1) + 1 ELSE 0
        /\ \A i \in 1 .. b + n - (b + 1) + 1 : buff[i] = w[b + 1 + i - 1]
    BY <1>1, <1>2, <1>3, SubSeqProperties
  <2>2. Len(buff) = n
    BY <1>2, <2>1
  <2>3. ASSUME NEW i \in 1 .. n PROVE buff[i] = w[b + i] /\ buff[i] \in Byte
    <3>1. i \in 1 .. b + n - (b + 1) + 1 /\ b + 1 + i - 1 = b + i
          /\ b + i \in b + 1 .. b + n
      BY <1>2
    <3>2. w[b + i] \in Byte
      BY <1>3, <3>1
    <3>3. buff[i] = w[b + i]
      BY <2>1, <3>1
    <3> QED
      BY <3>2, <3>3
  <2> QED
    BY <2>2, <2>3
<1>5. Fewer(Len(buff), WriteAvailable(r)) = n
  <2>1. WriteAvailable(r) = BufferSize - (b - a)
    BY RingAvailable
  <2> QED
    BY <1>2, <1>4, <2>1 DEF Fewer
<1>6. PICK s : s = WriteBuff(r, buff)
  OBVIOUS
<1> DEFINE at(i) == (i - r.head) % BufferSize
<1>7. s = [r EXCEPT !.head = (@ + n) % IndexRange,
                    !.data_buff = [i \in DOMAIN @ |->
                                     IF at(i) < n THEN buff[at(i) + 1] ELSE @[i]]]
  BY <1>5, <1>6 DEF WriteBuff
<1>8. /\ r \in [head : Nat, tail : Nat, data_buff : [0 .. BufferSize - 1 -> Byte]]
      /\ r.head = b % IndexRange /\ r.tail = a % IndexRange
      /\ \A j \in a .. b - 1 : r.data_buff[j % BufferSize] = w[j + 1]
  BY DEF InRing
<1>9. \A i \in 0 .. BufferSize - 1 : at(i) \in 0 .. BufferSize - 1
  BY <1>2, <1>8
<1>10. /\ s.head = (r.head + n) % IndexRange /\ s.tail = r.tail
       /\ s.data_buff = [i \in 0 .. BufferSize - 1 |->
                           IF at(i) < n THEN buff[at(i) + 1] ELSE r.data_buff[i]]
       /\ s = [head |-> s.head, tail |-> s.tail, data_buff |-> s.data_buff]
  BY <1>7, <1>8
<1>11. s.data_buff \in [0 .. BufferSize - 1 -> Byte]
  <2>1. ASSUME NEW i \in 0 .. BufferSize - 1
        PROVE  (IF at(i) < n THEN buff[at(i) + 1] ELSE r.data_buff[i]) \in Byte
    <3> HIDE DEF at
    <3>1. at(i) < n => at(i) + 1 \in 1 .. n
      <4>1. at(i) \in 0 .. BufferSize - 1
        BY <1>9
      <4>2. PICK x \in Nat : x = at(i)
        BY <1>2, <4>1
      <4>3. x < n => x + 1 \in 1 .. n
        OBVIOUS
      <4> QED
        BY <4>2, <4>3
    <3>2. CASE at(i) < n
      BY <1>4, <3>1, <3>2
    <3>3. CASE ~(at(i) < n)
      BY <1>8, <3>3
    <3> QED
      BY <3>2, <3>3
  <2> QED
    BY <1>10, <2>1
<1>12. s.head = (b + n) % IndexRange /\ s.head \in Nat
  <2>1. PICK q \in Int, x \in 0 .. IndexRange - 1 :
          b = q * IndexRange + x /\ b % IndexRange = x
    BY <1>2, Divided
  <2>2. b + n = (x + n) + q * IndexRange /\ x + n \in Int
    BY <1>2, <2>1
  <2>3. (b + n) % IndexRange = (x + n) % IndexRange
    <3>1. PICK d \in Int : d = x + n
      BY <2>2
    <3>2. (d + q * IndexRange) % IndexRange = d % IndexRange
      BY <1>2, Turns
    <3> QED
      BY <2>2, <3>1, <3>2
  <2>4. s.head = (x + n) % IndexRange
    <3>1. r.head = x
      BY <1>8, <2>1
    <3> QED
      BY <1>10, <3>1
  <2>5. s.head \in Nat
    BY <1>2, <2>2, <2>4
  <2> QED
    BY <2>3, <2>4, <2>5
<1>13. ASSUME NEW j \in a .. b + n - 1 PROVE s.data_buff[j % BufferSize] = w[j + 1]
  <2>1. /\ j \in Nat /\ j % BufferSize \in 0 .. BufferSize - 1
        /\ j \in b .. b + BufferSize - 1 => at(j % BufferSize) = j - b
        /\ j \in b - BufferSize .. b - 1 => at(j % BufferSize) = BufferSize + j - b
    <3>1. j \in Nat
      BY <1>2
    <3> QED
      BY <1>2, <1>8, <3>1, Slots
  <2>2. s.data_buff[j % BufferSize] =
          IF at(j % BufferSize) < n THEN buff[at(j % BufferSize) + 1]
                                    ELSE r.data_buff[j % BufferSize]
    BY <1>10, <2>1
  <2>3. CASE j >= b
    <3>1. j \in b .. b + BufferSize - 1 /\ j - b < n /\ j - b + 1 \in 1 .. n
          /\ b + (j - b + 1) = j + 1
      BY <1>2, <2>3
    <3>2. s.data_buff[j % BufferSize] = buff[j - b + 1]
      BY <2>1, <2>2, <3>1
    <3> QED
      BY <1>4, <3>1, <3>2
  <2>4. CASE j < b
    <3>1. j \in b - BufferSize .. b - 1 /\ j \in a .. b - 1
          /\ ~(BufferSize + j - b < n)
      BY <1>2, <2>4
    <3>2. s.data_buff[j % BufferSize] = r.data_buff[j % BufferSize]
      BY <2>1, <2>2, <3>1
    <3> QED
      BY <1>8, <3>1, <3>2
  <2> QED
    BY <1>2, <2>3, <2>4
<1>14. b + n \in a .. a + BufferSize
  BY <1>2
<1>15. s \in [head : Nat, tail : Nat, data_buff : [0 .. BufferSize - 1 -> Byte]]
  BY <1>8, <1>10, <1>11, <1>12
<1>16. InRing(s, w, a, b + n)
  <2>1. s.tail = a % IndexRange
    BY <1>8, <1>10
  <2>2. \A j \in a .. b + n - 1 : s.data_buff[j % BufferSize] = w[j + 1]
    BY <1>13
  <2> HIDE DEF at
  <2> QED
    BY <1>2, <1>12, <1>14, <1>15, <2>1, <2>2 DEF InRing
<1> QED
  BY <1>1, <1>6, <1>16

\* readBuff stores the oldest bytes, in order, and takes just those out.
THEOREM RingReads ==
  ASSUME NEW r, NEW w \in Seq(Byte), NEW a, NEW b,
         InRing(r, w, a, b), b <= Len(w), NEW n \in Nat, n <= b - a
  PROVE  /\ Bytes(r, n) = SubSeq(w, a + 1, a + n)
         /\ InRing(ReadBuff(r, n), w, a + n, b)
<1>1. /\ a \in Nat /\ b \in Nat /\ a <= b /\ b <= a + BufferSize
      /\ a \in Int /\ b \in Int
      /\ BufferSize \in Nat /\ BufferSize > 0
      /\ IndexRange \in Nat /\ IndexRange > 0
  BY RingSizes DEF InRing
<1>2. Fewer(n, ReadAvailable(r)) = n
  <2>1. ReadAvailable(r) = b - a
    BY RingAvailable
  <2> QED
    BY <1>1, <2>1 DEF Fewer
<1>3. /\ r \in [head : Nat, tail : Nat, data_buff : [0 .. BufferSize - 1 -> Byte]]
      /\ r.head = b % IndexRange /\ r.tail = a % IndexRange
      /\ \A j \in a .. b - 1 : r.data_buff[j % BufferSize] = w[j + 1]
  BY DEF InRing
<1>4. PICK q \in Int, x \in 0 .. IndexRange - 1 :
        a = q * IndexRange + x /\ a % IndexRange = x
  BY <1>1, Divided
<1>5. ASSUME NEW k \in 0 .. n PROVE (x + k) % IndexRange = (a + k) % IndexRange
  <2>1. PICK d \in Int : d = x + k
    OBVIOUS
  <2>2. a + k = d + q * IndexRange
    <3>1. PICK z \in Int : z = q * IndexRange
      BY <1>1
    <3>2. a = z + x /\ k \in Int
      BY <1>4, <3>1
    <3> QED
      BY <1>1, <2>1, <3>1, <3>2
  <2>3. (d + q * IndexRange) % IndexRange = d % IndexRange
    BY <1>1, Turns
  <2> QED
    BY <2>1, <2>2, <2>3
<1>6. PICK out : out = Bytes(r, n)
  OBVIOUS
<1>7. out = [k \in 1 .. n |-> r.data_buff[(x + k - 1) % BufferSize]]
  BY <1>2, <1>3, <1>4, <1>6 DEF Bytes
<1>8. ASSUME NEW k \in 1 .. n PROVE out[k] = w[a + k]
  <2>1. k - 1 \in 0 .. n /\ x + (k - 1) = x + k - 1 /\ x + k - 1 \in Int
        /\ a + (k - 1) \in Int /\ a + (k - 1) \in a .. b - 1
        /\ a + (k - 1) + 1 = a + k
    BY <1>1, <1>4
  <2>2. (x + k - 1) % IndexRange = (a + (k - 1)) % IndexRange
    BY <1>5, <2>1
  <2>3. ((x + k - 1) % IndexRange) % BufferSize = (x + k - 1) % BufferSize
    BY <2>1, RingSizes
  <2>4. ((a + (k - 1)) % IndexRange) % BufferSize = (a + (k - 1)) % BufferSize
    BY <2>1, RingSizes
  <2>5. (x + k - 1) % BufferSize = (a + (k - 1)) % BufferSize
    BY <2>2, <2>3, <2>4
  <2>6. out[k] = r.data_buff[(a + (k - 1)) % BufferSize]
    BY <1>7, <2>5
  <2> QED
    BY <1>3, <2>1, <2>6
<1>9. out = SubSeq(w, a + 1, a + n)
  <2>1. ASSUME NEW i \in a + 1 .. a + n PROVE w[i] \in Byte
    <3>1. i \in 1 .. Len(w)
      BY <1>1
    <3> QED
      BY <3>1, ElementOfSeq
  <2>2. PICK t : t = SubSeq(w, a + 1, a + n)
    OBVIOUS
  <2>3. /\ t \in Seq(Byte)
        /\ Len(t) = IF a + 1 <= a + n THEN a + n - (a + 1) + 1 ELSE 0
        /\ \A i \in 1 .. a + n - (a + 1) + 1 : t[i] = w[a + 1 + i - 1]
    BY <1>1, <2>1, <2>2, SubSeqProperties
  <2>4. Len(t) = n
    BY <1>1, <2>3
  <2>5. ASSUME NEW i \in 1 .. n PROVE t[i] = w[a + i]
    <3>1. i \in 1 .. a + n - (a + 1) + 1 /\ a + 1 + i - 1 = a + i
      BY <1>1
    <3> QED
      BY <2>3, <3>1
  <2>6. t = [i \in 1 .. n |-> t[i]]
    BY <2>3, <2>4, LenProperties
  <2>7. out = [i \in 1 .. n |-> out[i]]
    BY <1>7
  <2>8. \A i \in 1 .. n : out[i] = t[i]
    BY <1>8, <2>5
  <2> QED
    BY <2>2, <2>6, <2>7, <2>8
<1>10. PICK s : s = ReadBuff(r, n)
  OBVIOUS
<1>11. s = [r EXCEPT !.tail = (@ + n) % IndexRange]
  BY <1>2, <1>10 DEF ReadBuff
<1>12. s.tail = (a + n) % IndexRange
  BY <1>3, <1>4, <1>5, <1>11
<1>13. /\ s \in [head : Nat, tail : Nat,
                 data_buff : [0 .. BufferSize - 1 -> Byte]]
       /\ s.head = r.head /\ s.data_buff = r.data_buff
  <2>1. (r.tail + n) % IndexRange \in Nat
    BY <1>1, <1>3, <1>4
  <2> QED
    BY <1>3, <1>11, <2>1
<1>14. a + n \in Nat /\ b \in a + n .. a + n + BufferSize
       /\ \A j \in a + n .. b - 1 : j \in a .. b - 1
  BY <1>1
<1>15. InRing(s, w, a + n, b)
  BY <1>3, <1>12, <1>13, <1>14 DEF InRing
<1> QED
  BY <1>6, <1>9, <1>10, <1>15

-----------------------------------------------------------------------------
(* The stream: messages end to end. *)

Messages == Seq(Byte)

\* g[k] are the bytes of the first k messages of s.
PrefixWires(s, n, g) ==
  /\ g \in [0 .. n -> Messages]
  /\ g[0] = << >>
  /\ \A i \in 1 .. n : g[i] = g[i - 1] \o Encode(s[i])

\* Streams are made of messages of a length that fits its field.
LEMMA StreamTyped ==
  ASSUME NEW s \in Streams
  PROVE  /\ s \in Seq(Messages) /\ Len(s) \in Nat
         /\ \A i \in 1 .. Len(s) : s[i] \in Messages /\ Len(s[i]) \in Lengths
<1>1. s \in Seq(Messages)
  BY LinkFramingAssumption DEF Messages
<1>2. DOMAIN s = 1 .. Len(s) /\ Len(s) \in Nat
  BY <1>1, LenProperties
<1>3. ASSUME NEW i \in 1 .. Len(s) PROVE s[i] \in Messages
  BY <1>1, ElementOfSeq
<1>4. ASSUME NEW i \in 1 .. Len(s) PROVE Len(s[i]) \in Lengths
  BY <1>2, LinkFramingAssumption
<1> QED
  BY <1>1, <1>2, <1>3, <1>4

\* A length in two bytes.
LEMMA TwoBytes ==
  ASSUME NEW n \in Lengths
  PROVE  /\ n \in Nat /\ n >= 2
         /\ \E x, y \in Byte :
              x = n \div 256 /\ y = n % 256 /\ 256 * x + y = n
<1>1. n \in Nat /\ n >= 2 /\ n \div 256 \in Byte
  BY DEF Lengths
<1>2. \A i \in 0 .. 256 - 1 : i \in Byte
  BY SMT DEF Byte
<1>3. n % 256 \in 0 .. 256 - 1 /\ n \div 256 \in Int
  BY SMT, <1>1
<1>4. PICK x \in Int, y \in Int : x = n \div 256 /\ y = n % 256
  BY <1>3
<1>5. ASSUME NEW q \in Int, q = n \div 256 PROVE n % 256 = n - 256 * q
  BY SMT, <1>1, <1>5
<1>6. 256 * x + y = n
  BY SMT, <1>1, <1>4, <1>5
<1>7. x \in Byte /\ y \in Byte
  BY <1>1, <1>2, <1>3, <1>4
<1> QED
  BY <1>1, <1>4, <1>6, <1>7

\* A message on the wire: its length, then itself.
LEMMA Encoded ==
  ASSUME NEW m \in Messages, Len(m) \in Lengths
  PROVE  /\ Encode(m) \in Messages /\ Len(Encode(m)) = 2 + Len(m)
         /\ ToHost16(Encode(m)[1], Encode(m)[2]) = Len(m)
         /\ \A j \in 1 .. Len(m) : Encode(m)[2 + j] = m[j]
<1>1. PICK x, y \in Byte : /\ x = Len(m) \div 256 /\ y = Len(m) % 256
                            /\ 256 * x + y = Len(m)
  BY TwoBytes
<1>2. x \in Byte /\ y \in Byte /\ 256 * x + y = Len(m)
  BY <1>1
<1>3. <<x, y>> \in Messages /\ Len(<<x, y>>) = 2
  BY <1>2 DEF Messages
<1>4. PICK e : e = <<x, y>> \o m
  OBVIOUS
<1>5. /\ e \in Messages /\ Len(e) = 2 + Len(m)
      /\ \A i \in 1 .. 2 + Len(m) : e[i] = IF i <= 2 THEN <<x, y>>[i] ELSE m[i - 2]
  BY <1>3, <1>4, ConcatProperties DEF Messages
<1>6. e = Encode(m)
  BY <1>1, <1>4 DEF Encode, BigEndian16
<1>7. Len(m) \in Nat
  BY TwoBytes
<1>8. e[1] = x /\ e[2] = y
  BY <1>5, <1>7
<1>9. ASSUME NEW j \in 1 .. Len(m) PROVE e[2 + j] = m[j]
  <2>1. 2 + j \in 1 .. 2 + Len(m) /\ ~(2 + j <= 2) /\ (2 + j) - 2 = j
    BY <1>7
  <2> QED
    BY <1>5, <2>1
<1>10. ToHost16(e[1], e[2]) = Len(m)
  BY <1>2, <1>8 DEF ToHost16
<1> QED
  BY <1>5, <1>6, <1>9, <1>10

\* Message by message there are such bytes.
LEMMA PrefixesExist ==
  ASSUME NEW s \in Streams, NEW n \in 0 .. Len(s)
  PROVE  \E g : PrefixWires(s, n, g)
<1> DEFINE S == {k \in 0 .. Len(s) : ~\E g : PrefixWires(s, k, g)}
<1>1. SUFFICES S = {}
  BY <1>1
<1>2. SUFFICES ASSUME S # {} PROVE FALSE
  OBVIOUS
<1>3. Len(s) \in Nat /\ \A i \in 1 .. Len(s) : Encode(s[i]) \in Messages
  BY StreamTyped, Encoded
<1>4. S \subseteq Nat
  BY <1>3
<1>5. PICK m \in S : \A k \in S : m <= k
  BY <1>2, <1>4, LeastNat
<1>6. CASE m = 0
  <2>1. PICK g : g = [i \in 0 .. 0 |-> << >>]
    OBVIOUS
  <2>2. << >> \in Messages
    BY EmptySeq DEF Messages
  <2>3. PrefixWires(s, 0, g)
    BY <2>1, <2>2 DEF PrefixWires
  <2> QED
    BY <1>6, <2>3
<1>7. CASE m > 0
  <2>1. m - 1 \in 0 .. Len(s) /\ m \in 1 .. Len(s) /\ m - 1 \notin S
    <3>1. m \in 0 .. Len(s)
      OBVIOUS
    <3>2. m - 1 \in 0 .. Len(s) /\ m \in 1 .. Len(s) /\ ~(m <= m - 1)
      BY <1>3, <1>7, <3>1
    <3>3. m - 1 \notin S
      BY <1>5, <3>2
    <3> QED
      BY <3>2, <3>3
  <2>2. PICK f : PrefixWires(s, m - 1, f)
    BY <2>1
  <2>3. PICK g : g = [i \in 0 .. m |-> IF i = m THEN f[m - 1] \o Encode(s[m])
                                             ELSE f[i]]
    OBVIOUS
  <2>4. /\ m \in Nat /\ m - 1 \in 0 .. m - 1 /\ 0 \in 0 .. m - 1
        /\ \A i \in 0 .. m : i = m \/ i \in 0 .. m - 1
        /\ \A i \in 0 .. m - 1 : i \in 0 .. m /\ i # m
        /\ \A i \in 1 .. m : i - 1 \in 0 .. m - 1 /\ (i # m => i \in 1 .. m - 1)
    BY <1>4, <1>7
  <2>5. /\ f \in [0 .. m - 1 -> Messages] /\ f[0] = << >>
        /\ \A i \in 1 .. m - 1 : f[i] = f[i - 1] \o Encode(s[i])
    BY <2>2 DEF PrefixWires
  <2>6. f[m - 1] \o Encode(s[m]) \in Messages
    BY <1>3, <2>1, <2>4, <2>5, ConcatProperties DEF Messages
  <2>7. g \in [0 .. m -> Messages]
    BY <2>3, <2>4, <2>5, <2>6
  <2>8. g[m] = f[m - 1] \o Encode(s[m]) /\ \A i \in 0 .. m - 1 : g[i] = f[i]
    <3>1. m \in 0 .. m
      BY <2>4
    <3>2. ASSUME NEW i \in 0 .. m - 1 PROVE g[i] = f[i]
      <4>1. i \in 0 .. m /\ i # m
        BY <2>4
      <4> QED
        BY <2>3, <4>1
    <3> QED
      BY <2>3, <3>1, <3>2
  <2>9. ASSUME NEW i \in 1 .. m PROVE g[i] = g[i - 1] \o Encode(s[i])
    <3>1. i - 1 \in 0 .. m - 1 /\ g[i - 1] = f[i - 1]
      BY <2>4, <2>8
    <3>2. CASE i = m
      BY <2>8, <3>1, <3>2
    <3>3. CASE i # m
      <4>1. i \in 1 .. m - 1
        BY <2>4, <3>3
      <4>2. i \in 0 .. m - 1
        BY <2>4, <4>1
      <4>3. g[i] = f[i] /\ f[i] = f[i - 1] \o Encode(s[i])
        BY <2>5, <2>8, <4>1, <4>2
      <4> QED
        BY <3>1, <4>3
    <3> QED
      BY <3>2, <3>3
  <2>10. PrefixWires(s, m, g)
    BY <2>4, <2>5, <2>7, <2>8, <2>9 DEF PrefixWires
  <2> QED
    BY <2>10
<1> QED
  BY <1>4, <1>6, <1>7

\* The recursion of FlattenSeq is the one of PrefixWires.
LEMMA Flattened ==
  ASSUME NEW s \in Streams, NEW k \in 0 .. Len(s),
         NEW g, PrefixWires(s, Len(s), g)
  PROVE  Wire(SubSeq(s, 1, k)) = g[k]
<1>1. Len(s) \in Nat /\ k \in Nat /\ k <= Len(s)
      /\ \A i \in 1 .. Len(s) : s[i] \in Messages
  BY StreamTyped
<1>2. PICK t : t = SubSeq(s, 1, k)
  OBVIOUS
<1>3. t \in Seq(Messages) /\ Len(t) = k /\ \A i \in 1 .. k : t[i] = s[i]
  <2>1. \A i \in 1 .. k : s[i] \in Messages
    BY <1>1
  <2>2. /\ t \in Seq(Messages)
        /\ Len(t) = IF 1 <= k THEN k - 1 + 1 ELSE 0
        /\ \A i \in 1 .. k - 1 + 1 : t[i] = s[1 + i - 1]
    BY <1>1, <1>2, <2>1, SubSeqProperties
  <2>3. Len(t) = k /\ k - 1 + 1 = k
    BY <1>1, <2>2
  <2>4. ASSUME NEW i \in 1 .. k PROVE t[i] = s[i]
    <3>1. i \in 1 .. k - 1 + 1 /\ 1 + i - 1 = i
      BY <1>1
    <3> QED
      BY <2>2, <3>1
  <2> QED
    BY <2>2, <2>3, <2>4
<1>4. DOMAIN t = 1 .. k
  BY <1>3, LenProperties
<1>5. PICK u : u = [i \in DOMAIN t |-> Encode(t[i])]
  OBVIOUS
<1>6. Len(u) = k /\ \A i \in 1 .. k : u[i] = Encode(s[i])
  <2>1. \A i \in 1 .. k : u[i] = Encode(s[i])
    BY <1>3, <1>4, <1>5
  <2>2. u = [i \in 1 .. k |-> Encode(t[i])]
    BY <1>4, <1>5
  <2>3. Len(u) = k
    BY <1>1, <2>2
  <2> QED
    BY <2>1, <2>3
<1>7. Wire(t) = FlattenSeq(u)
  BY <1>5 DEF Wire
<1>8. /\ g \in [0 .. Len(s) -> Messages] /\ g[0] = << >>
      /\ \A i \in 1 .. Len(s) : g[i] = g[i - 1] \o Encode(s[i])
  BY DEF PrefixWires
<1>9. CASE k = 0
  <2>1. FlattenSeq(u) = u
    BY <1>6, <1>9 DEF FlattenSeq
  <2>2. u = << >>
    BY <1>4, <1>5, <1>9
  <2> QED
    BY <1>2, <1>7, <1>8, <1>9, <2>1, <2>2
<1>10. CASE k > 0
  <2> DEFINE P(f) == f = [i \in 1 .. k |-> IF i = 1 THEN u[i] ELSE f[i - 1] \o u[i]]
  <2>1. FlattenSeq(u) = (CHOOSE f : P(f))[k]
    BY <1>1, <1>6, <1>10 DEF FlattenSeq
  <2>2. PICK h : h = [i \in 1 .. k |-> g[i]]
    OBVIOUS
  <2>3. ASSUME NEW i \in 1 .. k
        PROVE  h[i] = IF i = 1 THEN u[i] ELSE h[i - 1] \o u[i]
    <3>1. i \in 1 .. Len(s) /\ h[i] = g[i] /\ u[i] = Encode(s[i])
          /\ g[i] = g[i - 1] \o Encode(s[i])
      <4>1. i \in 1 .. Len(s)
        BY <1>1
      <4> QED
        BY <1>6, <1>8, <2>2, <4>1
    <3>2. CASE i = 1
      <4>1. s[i] \in Messages /\ Len(s[i]) \in Lengths
        BY <3>1, StreamTyped
      <4>2. Encode(s[i]) \in Seq(Byte)
        BY <4>1, Encoded DEF Messages
      <4>3. << >> \o Encode(s[i]) = Encode(s[i])
        BY <4>2, ConcatEmptySeq
      <4>4. g[i - 1] = << >>
        BY <1>8, <3>2
      <4> QED
        BY <3>1, <3>2, <4>3, <4>4
    <3>3. CASE i # 1
      <4>1. i - 1 \in 1 .. k
        BY <1>1, <3>3
      <4> QED
        BY <2>2, <3>1, <3>3, <4>1
    <3> QED
      BY <3>2, <3>3
  <2>4. P(h)
    BY <2>2, <2>3
  <2>5. ASSUME NEW f, P(f) PROVE f[k] = h[k]
    <3> DEFINE D == {i \in 1 .. k : f[i] # h[i]}
    <3>1. D \subseteq Nat /\ k \in 1 .. k
      BY <1>1, <1>10
    <3>2. SUFFICES D = {}
      BY <3>1, <3>2
    <3>3. SUFFICES ASSUME D # {} PROVE FALSE
      OBVIOUS
    <3>4. PICK m \in D : \A i \in D : m <= i
      BY <3>1, <3>3, LeastNat
    <3>5. m \in 1 .. k /\ f[m] # h[m]
      OBVIOUS
    <3>6. /\ f[m] = IF m = 1 THEN u[m] ELSE f[m - 1] \o u[m]
          /\ h[m] = IF m = 1 THEN u[m] ELSE h[m - 1] \o u[m]
      BY <2>3, <2>5, <3>5
    <3>7. m # 1
      BY <3>5, <3>6
    <3>8. m - 1 \in 1 .. k /\ ~(m <= m - 1)
      BY <1>1, <3>5, <3>7
    <3>9. f[m - 1] = h[m - 1]
      BY <3>4, <3>8
    <3> QED
      BY <3>5, <3>6, <3>7, <3>9
  <2>6. P(CHOOSE f : P(f))
    BY <2>4
  <2>7. k \in 1 .. k
    BY <1>1, <1>10
  <2> HIDE DEF P
  <2>8. (CHOOSE f : P(f))[k] = h[k]
    BY <2>5, <2>6
  <2> QED
    BY <1>2, <1>7, <2>1, <2>2, <2>7, <2>8
<1> QED
  BY <1>1, <1>9, <1>10

\* The first k messages of s end at byte e[k].
Layout(s, e) ==
  /\ e \in [0 .. Len(s) -> Nat]
  /\ e[0] = 0 /\ e[Len(s)] = Len(Wire(s))
  /\ \A k \in 0 .. Len(s) : Len(Wire(SubSeq(s, 1, k))) = e[k]
  /\ \A i \in 1 .. Len(s) : e[i] = e[i - 1] + 2 + Len(s[i])
  /\ \A n \in 0 .. Len(s) : \A i \in 0 .. n : e[i] <= e[n]
  /\ Wire(s) \in Messages
  /\ \A i \in 1 .. Len(s) : \A j \in 1 .. 2 + Len(s[i]) :
       Wire(s)[e[i - 1] + j] = Encode(s[i])[j]

\* Every stream has a layout.
LEMMA Laid ==
  ASSUME NEW s \in Streams
  PROVE  \E e : Layout(s, e)
<1>1. Len(s) \in Nat /\ Len(s) \in 0 .. Len(s) /\ 0 \in 0 .. Len(s)
      /\ \A i \in 1 .. Len(s) : i - 1 \in 0 .. Len(s) /\ i \in 0 .. Len(s)
  BY StreamTyped
<1>2. PICK g : PrefixWires(s, Len(s), g)
  BY <1>1, PrefixesExist
<1>3. /\ g \in [0 .. Len(s) -> Messages] /\ g[0] = << >>
      /\ \A i \in 1 .. Len(s) : g[i] = g[i - 1] \o Encode(s[i])
  BY <1>2 DEF PrefixWires
<1>4. PICK e : e = [k \in 0 .. Len(s) |-> Len(g[k])]
  OBVIOUS
<1>5. \A k \in 0 .. Len(s) : e[k] = Len(g[k]) /\ g[k] \in Messages /\ e[k] \in Nat
  <2>1. ASSUME NEW k \in 0 .. Len(s) PROVE e[k] = Len(g[k]) /\ g[k] \in Messages
    BY <1>3, <1>4
  <2>2. ASSUME NEW k \in 0 .. Len(s) PROVE e[k] \in Nat
    BY <2>1, LenProperties DEF Messages
  <2> QED
    BY <2>1, <2>2
<1>6. e \in [0 .. Len(s) -> Nat]
  BY <1>4, <1>5
<1>7. ASSUME NEW k \in 0 .. Len(s) PROVE Wire(SubSeq(s, 1, k)) = g[k]
  BY <1>2, Flattened
<1>8. Wire(s) = g[Len(s)]
  <2>1. s \in Seq(Messages)
    BY StreamTyped
  <2>2. SubSeq(s, 1, Len(s)) = s
    BY <2>1, SubSeqFull
  <2> QED
    BY <1>1, <1>7, <2>2
<1>9. ASSUME NEW i \in 1 .. Len(s)
      PROVE  /\ Len(s[i]) \in Nat
             /\ e[i] = e[i - 1] + 2 + Len(s[i])
             /\ \A j \in 1 .. e[i - 1] : g[i][j] = g[i - 1][j]
             /\ \A j \in 1 .. 2 + Len(s[i]) :
                  g[i][e[i - 1] + j] = Encode(s[i])[j]
  <2>1. s[i] \in Messages /\ Len(s[i]) \in Lengths
    BY StreamTyped
  <2>2. Len(s[i]) \in Nat
    BY <2>1, TwoBytes
  <2>3. PICK c : c = Encode(s[i])
    OBVIOUS
  <2>4. c \in Messages /\ Len(c) = 2 + Len(s[i])
    BY <2>1, <2>3, Encoded
  <2>5. PICK p : p = g[i - 1]
    OBVIOUS
  <2>6. p \in Messages /\ Len(p) = e[i - 1] /\ e[i - 1] \in Nat /\ e[i] = Len(g[i])
    BY <1>1, <1>5, <2>5
  <2>7. g[i] = p \o c
    BY <1>3, <2>3, <2>5
  <2>8. /\ Len(p \o c) = Len(p) + Len(c)
        /\ \A j \in 1 .. Len(p) + Len(c) :
             (p \o c)[j] = IF j <= Len(p) THEN p[j] ELSE c[j - Len(p)]
    <3>1. p \in Seq(Byte) /\ c \in Seq(Byte)
      BY <2>4, <2>6 DEF Messages
    <3> QED
      BY <3>1, ConcatProperties
  <2>9. PICK l \in Nat, d \in Nat : l = Len(p) /\ d = Len(c)
    BY <2>2, <2>4, <2>6
  <2>10. ASSUME NEW j \in 1 .. l PROVE g[i][j] = p[j]
    <3>1. j \in 1 .. l + d /\ j <= l
      BY <2>9
    <3> QED
      BY <2>7, <2>8, <2>9, <3>1
  <2>11. ASSUME NEW j \in 1 .. d PROVE g[i][l + j] = c[j]
    <3>1. l + j \in 1 .. l + d /\ ~(l + j <= l) /\ (l + j) - l = j
      BY <2>9
    <3> QED
      BY <2>7, <2>8, <2>9, <3>1
  <2>12. e[i] = e[i - 1] + 2 + Len(s[i])
    <3>1. e[i] = Len(p) + Len(c) /\ Len(p) = e[i - 1] /\ Len(c) = 2 + Len(s[i])
      BY <2>4, <2>6, <2>7, <2>8
    <3>2. PICK x, y, z : /\ x \in Nat /\ y \in Nat
                         /\ x = e[i - 1] /\ y = Len(s[i]) /\ z = e[i]
      BY <2>2, <2>6
    <3>3. Len(p) = x /\ Len(c) = 2 + y /\ z = Len(p) + Len(c)
      BY <3>1, <3>2
    <3>4. z = x + (2 + y)
      BY <3>3
    <3>5. x \in Nat /\ y \in Nat
      BY <3>2
    <3>6. x + (2 + y) = x + 2 + y
      BY <3>5
    <3> QED
      BY <3>2, <3>4, <3>6
  <2> QED
    BY <2>2, <2>3, <2>4, <2>5, <2>6, <2>9, <2>10, <2>11, <2>12
<1> DEFINE Agree(n) == \A i \in 0 .. n :
                         e[i] <= e[n] /\ \A j \in 1 .. e[i] : g[n][j] = g[i][j]
           S == {n \in 0 .. Len(s) : ~Agree(n)}
<1>10. S = {}
  <2>1. SUFFICES ASSUME S # {} PROVE FALSE
    OBVIOUS
  <2>2. S \subseteq Nat
    OBVIOUS
  <2>3. PICK m \in S : \A n \in S : m <= n
    BY <2>1, <2>2, LeastNat
  <2>4. m \in 0 .. Len(s) /\ ~Agree(m) /\ m \in Nat
    <3>1. m \in S /\ m \in Nat
      BY <2>2
    <3> HIDE DEF Agree
    <3> QED
      BY <3>1
  <2>5. PICK i \in 0 .. m : ~(e[i] <= e[m] /\ \A j \in 1 .. e[i] : g[m][j] = g[i][j])
    BY <2>4
  <2>6. i # m
    BY <1>5, <2>4, <2>5
  <2>7. /\ m \in 1 .. Len(s) /\ m - 1 \in 0 .. Len(s) /\ ~(m <= m - 1)
        /\ i \in 0 .. m - 1 /\ i \in 0 .. Len(s)
    BY <1>1, <2>4, <2>6
  <2>8. Agree(m - 1)
    BY <2>3, <2>7
  <2>9. e[i] <= e[m - 1] /\ \A j \in 1 .. e[i] : g[m - 1][j] = g[i][j]
    BY <2>7, <2>8
  <2>10. e[i] \in Nat /\ e[m - 1] \in Nat /\ e[m] \in Nat
    BY <1>5, <2>4, <2>7
  <2>11. /\ Len(s[m]) \in Nat /\ e[m] = e[m - 1] + 2 + Len(s[m])
         /\ \A j \in 1 .. e[m - 1] : g[m][j] = g[m - 1][j]
    BY <1>9, <2>7
  <2>12. e[i] <= e[m]
    <3>1. PICK x \in Nat, y \in Nat, z \in Nat, l \in Nat :
            x = e[i] /\ y = e[m - 1] /\ z = e[m] /\ l = Len(s[m])
      BY <2>10, <2>11
    <3>2. x <= y /\ z = y + 2 + l
      BY <2>9, <2>11, <3>1
    <3>3. x <= z
      BY <3>2
    <3> QED
      BY <3>1, <3>3
  <2>13. ASSUME NEW j \in 1 .. e[i] PROVE g[m][j] = g[i][j]
    <3>1. j \in 1 .. e[m - 1]
      BY <2>9, <2>10
    <3> QED
      BY <2>9, <2>11, <3>1
  <2> QED
    BY <2>5, <2>12, <2>13
<1>11. \A n \in 0 .. Len(s) : Agree(n)
  BY <1>10
<1> HIDE DEF S
<1>12. \A n \in 0 .. Len(s) : \A i \in 0 .. n : e[i] <= e[n]
  BY <1>11
<1>13. ASSUME NEW i \in 1 .. Len(s), NEW j \in 1 .. 2 + Len(s[i])
       PROVE  Wire(s)[e[i - 1] + j] = Encode(s[i])[j]
  <2>1. /\ Len(s[i]) \in Nat /\ e[i] = e[i - 1] + 2 + Len(s[i])
        /\ g[i][e[i - 1] + j] = Encode(s[i])[j]
    BY <1>9
  <2>2. e[i - 1] \in Nat /\ e[i] \in Nat
    BY <1>1, <1>5
  <2>3. e[i - 1] + j \in 1 .. e[i]
    <3>1. PICK x \in Nat, y \in Nat, z \in Nat :
            x = e[i - 1] /\ y = Len(s[i]) /\ z = e[i]
      BY <2>1, <2>2
    <3>2. z = x + 2 + y /\ j \in 1 .. 2 + y
      BY <2>1, <3>1
    <3>3. x + j \in 1 .. z
      BY <3>2
    <3> QED
      BY <3>1, <3>3
  <2>4. Agree(Len(s)) /\ i \in 0 .. Len(s)
    BY <1>1, <1>11
  <2>5. g[Len(s)][e[i - 1] + j] = g[i][e[i - 1] + j]
    BY <2>3, <2>4
  <2> QED
    BY <1>8, <2>1, <2>5
<1> HIDE DEF Agree
<1>14. e[0] = 0 /\ e[Len(s)] = Len(Wire(s)) /\ Wire(s) \in Messages
  <2>1. Len(g[0]) = 0
    BY <1>3, EmptySeq
  <2> QED
    BY <1>1, <1>5, <1>8, <2>1
<1>15. \A k \in 0 .. Len(s) : Len(Wire(SubSeq(s, 1, k))) = e[k]
  BY <1>5, <1>7
<1>16. \A i \in 1 .. Len(s) : e[i] = e[i - 1] + 2 + Len(s[i])
  BY <1>9
<1>17. \A i \in 1 .. Len(s) : \A j \in 1 .. 2 + Len(s[i]) :
         Wire(s)[e[i - 1] + j] = Encode(s[i])[j]
  BY <1>13
<1> QED
  BY ZenonT(40), <1>6, <1>12, <1>14, <1>15, <1>16, <1>17 DEF Layout

\* k whole messages are in the first n bytes.
Whole(s, e, n, k) ==
  k \in 0 .. Len(s) /\ e[k] <= n /\ (k < Len(s) => n < e[k + 1])

\* Arrived is the one number of whole messages.
LEMMA Arrival ==
  ASSUME NEW s \in Streams, NEW e, Layout(s, e),
         NEW n \in Nat
  PROVE  /\ Whole(s, e, n, Arrived(s, n))
         /\ \A k : Whole(s, e, n, k) => k = Arrived(s, n)
<1>1. /\ Len(s) \in Nat /\ e \in [0 .. Len(s) -> Nat] /\ e[0] = 0
      /\ \A k \in 0 .. Len(s) : Len(Wire(SubSeq(s, 1, k))) = e[k]
      /\ \A m \in 0 .. Len(s) : \A i \in 0 .. m : e[i] <= e[m]
  BY StreamTyped DEF Layout
<1>2. Arrived(s, n) = CHOOSE k \in 0 .. Len(s) : Whole(s, e, n, k)
  <2> DEFINE In(k) == /\ Len(Wire(SubSeq(s, 1, k))) <= n
                      /\ k < Len(s) => Len(Wire(SubSeq(s, 1, k + 1))) > n
  <2>1. ASSUME NEW k \in 0 .. Len(s) PROVE In(k) <=> Whole(s, e, n, k)
    <3>1. Len(Wire(SubSeq(s, 1, k))) = e[k] /\ e[k] \in Nat
      BY <1>1
    <3>2. ASSUME k < Len(s)
          PROVE  Len(Wire(SubSeq(s, 1, k + 1))) = e[k + 1] /\ e[k + 1] \in Nat
      <4>1. k + 1 \in 0 .. Len(s)
        BY <1>1, <3>2
      <4> QED
        BY <1>1, <4>1
    <3> QED
      BY <3>1, <3>2 DEF Whole
  <2>2. Arrived(s, n) = CHOOSE k \in 0 .. Len(s) : In(k)
    BY DEF Arrived
  <2> HIDE DEF In
  <2> QED
    BY <2>1, <2>2
<1>3. \E k \in 0 .. Len(s) : Whole(s, e, n, k)
  <2> DEFINE S == {k \in 0 .. Len(s) : k = Len(s) \/ n < e[k + 1]}
  <2>1. S \subseteq Nat /\ Len(s) \in S
    BY <1>1
  <2>2. PICK m \in S : \A k \in S : m <= k
    BY <2>1, LeastNat
  <2>3. m \in 0 .. Len(s) /\ (m = Len(s) \/ n < e[m + 1])
    OBVIOUS
  <2>4. CASE m = 0
    BY <1>1, <2>3, <2>4 DEF Whole
  <2>5. CASE m # 0
    <3>1. m - 1 \in 0 .. Len(s) /\ m - 1 # Len(s) /\ m - 1 + 1 = m /\ ~(m <= m - 1)
      BY <1>1, <2>3, <2>5
    <3>2. m - 1 \notin S
      BY <2>2, <3>1
    <3>3. ~(n < e[m])
      BY <3>1, <3>2
    <3>4. e[m] \in Nat
      BY <1>1, <2>3
    <3>5. e[m] <= n
      BY <3>3, <3>4
    <3>6. m < Len(s) => n < e[m + 1]
      BY <1>1, <2>3
    <3> QED
      BY <2>3, <3>5, <3>6 DEF Whole
  <2> QED
    BY <2>4, <2>5
<1>4. Whole(s, e, n, Arrived(s, n))
  BY <1>2, <1>3
<1>5. ASSUME NEW k, NEW l, Whole(s, e, n, k), Whole(s, e, n, l), k < l PROVE FALSE
  <2>1. /\ k \in 0 .. Len(s) /\ l \in 0 .. Len(s) /\ k < Len(s)
        /\ k + 1 \in 0 .. l /\ k + 1 \in 0 .. Len(s)
    BY <1>1, <1>5 DEF Whole
  <2>2. PICK x \in Nat, y \in Nat : x = e[k + 1] /\ y = e[l]
    BY <1>1, <2>1
  <2>3. n < x /\ y <= n
    BY <1>5, <2>1, <2>2 DEF Whole
  <2>4. x <= y
    BY <1>1, <2>1, <2>2
  <2> QED
    BY <2>3, <2>4
<1>6. ASSUME NEW k, Whole(s, e, n, k) PROVE k = Arrived(s, n)
  <2>1. PICK l : l = Arrived(s, n)
    OBVIOUS
  <2>2. k \in Int /\ l \in Int
    BY <1>4, <1>6, <2>1 DEF Whole
  <2>3. Whole(s, e, n, l)
    BY <1>4, <2>1
  <2>4. ~(k < l) /\ ~(l < k)
    BY <1>5, <1>6, <2>3
  <2> QED
    BY <2>1, <2>2, <2>4
<1> QED
  BY <1>4, <1>6

-----------------------------------------------------------------------------
(* The loop. *)

\* The first k messages are dispatched and the ring buffer holds the bytes
\* that recv has returned since; an assertion fails only on a message that
\* does not have the length of its type.
At(e, k) ==
  /\ k \in 0 .. Len(stream) /\ got = SubSeq(stream, 1, k)
  /\ ~failed => InRing(ringbuf, Wire(stream), e[k], pos)
  /\ pc = "epoll" => ~failed /\ k = Arrived(stream, pos)

FramingInv ==
  /\ stream \in Streams /\ last_len = nullopt /\ pc \in {"epoll", "parse"}
  /\ failed \in BOOLEAN
  /\ \E e : /\ Layout(stream, e)
            /\ pos \in 0 .. e[Len(stream)]
            /\ pos - e[Arrived(stream, pos)] <= MaxTail
            /\ \E k : At(e, k)

\* recv returns at most two bytes of an unfinished message, and the ring
\* buffer has room for them and one more rbuf.
CutsShort == MaxTail <= 2 /\ Rbuf + MaxTail <= BufferSize

\* The sizes, as the lemmas below use them.
LEMMA FramingSizes ==
  ASSUME CutsShort
  PROVE  /\ Rbuf \in Nat /\ MaxTail \in Nat /\ BufferSize \in Nat
         /\ MaxTail <= 2 /\ Rbuf + MaxTail <= BufferSize
  BY LinkFramingAssumption, RingBufferAssumption DEF CutsShort

\* The invariant holds before the first byte.
LEMMA FramingStarts ==
  ASSUME CutsShort, FramingInit
  PROVE  FramingInv
<1>1. /\ stream \in Streams /\ pos = 0 /\ pc = "epoll" /\ ringbuf = EmptyRing
      /\ last_len = nullopt /\ got = << >> /\ failed = FALSE
  BY DEF FramingInit
<1>2. PICK e : Layout(stream, e)
  BY <1>1, Laid
<1>3. /\ Len(stream) \in Nat /\ e \in [0 .. Len(stream) -> Nat] /\ e[0] = 0
      /\ \A i \in 1 .. Len(stream) : e[i] = e[i - 1] + 2 + Len(stream[i])
  BY <1>1, <1>2, StreamTyped DEF Layout
<1>4. Whole(stream, e, 0, 0)
  <2>1. CASE Len(stream) = 0
    BY <1>3, <2>1 DEF Whole
  <2>2. CASE Len(stream) # 0
    <3>1. 1 \in 1 .. Len(stream) /\ 1 - 1 = 0 /\ 0 + 1 = 1
      BY <1>3, <2>2
    <3>2. Len(stream[1]) \in Nat
      BY <1>1, <3>1, StreamTyped, TwoBytes
    <3>3. e[0 + 1] > 0
      BY <1>3, <3>1, <3>2
    <3> QED
      BY <1>3, <3>3 DEF Whole
  <2> QED
    BY <2>1, <2>2
<1>5. Arrived(stream, 0) = 0
  BY <1>1, <1>2, <1>4, Arrival
<1>6. InRing(ringbuf, Wire(stream), 0, 0)
  <2>1. /\ BufferSize \in Nat /\ BufferSize > 0 /\ IndexRange \in Nat
        /\ IndexRange > 0
    BY RingSizes
  <2>2. 0 % IndexRange = 0
    BY <2>1
  <2>3. 0 \in Byte
    BY SMT DEF Byte
  <2>4. ringbuf \in [head : Nat, tail : Nat,
                     data_buff : [0 .. BufferSize - 1 -> Byte]]
        /\ ringbuf.head = 0 /\ ringbuf.tail = 0
    BY <1>1, <2>3 DEF EmptyRing
  <2> QED
    BY <2>1, <2>2, <2>4 DEF InRing
<1>7. At(e, 0)
  <2>1. SubSeq(stream, 1, 0) = << >>
    BY <1>1, StreamTyped, SubSeqEmpty
  <2> QED
    BY <1>1, <1>3, <1>5, <1>6, <2>1 DEF At
<1>8. pos \in 0 .. e[Len(stream)] /\ pos - e[Arrived(stream, pos)] <= MaxTail
  <2>1. e[Len(stream)] \in Nat
    BY <1>3
  <2> QED
    BY <1>1, <1>3, <1>5, <2>1, FramingSizes
<1> QED
  BY <1>1, <1>2, <1>7, <1>8 DEF FramingInv

\* What At says of the ring buffer, in numbers.
LEMMA Unread ==
  ASSUME stream \in Streams, NEW e, Layout(stream, e),
         pos \in 0 .. e[Len(stream)], NEW k, At(e, k), ~failed
  PROVE  /\ Len(stream) \in Nat /\ k \in 0 .. Len(stream)
         /\ e \in [0 .. Len(stream) -> Nat]
         /\ e[k] \in Nat /\ pos \in Nat /\ e[k] <= pos
         /\ e[Len(stream)] = Len(Wire(stream))
         /\ Wire(stream) \in Seq(Byte)
         /\ pos <= Len(Wire(stream))
         /\ InRing(ringbuf, Wire(stream), e[k], pos)
<1>1. /\ Len(stream) \in Nat /\ e \in [0 .. Len(stream) -> Nat]
      /\ e[Len(stream)] = Len(Wire(stream))
  BY StreamTyped DEF Layout
<1>2. Wire(stream) \in Seq(Byte)
  BY DEF Layout, Messages
<1>3. /\ k \in 0 .. Len(stream)
      /\ InRing(ringbuf, Wire(stream), e[k], pos)
  BY DEF At
<1>4. Len(stream) \in 0 .. Len(stream) /\ e[k] \in Nat /\ e[Len(stream)] \in Nat
  BY <1>1, <1>3
<1>5. pos \in Nat /\ e[k] <= pos
  <2>1. pos \in e[k] .. e[k] + BufferSize
    BY <1>3 DEF InRing
  <2> QED
    BY <1>4, <2>1
<1>6. pos <= Len(Wire(stream))
  BY <1>1, <1>4
<1> QED
  BY <1>1, <1>2, <1>3, <1>4, <1>5, <1>6

\* What recv returns fits into the ring buffer.
LEMMA RecvKeepsFraming ==
  ASSUME CutsShort,
         FramingInv, ~failed, NEW n \in 0 .. Rbuf, Recv(n)
  PROVE  FramingInv'
<1>1. /\ stream \in Streams /\ pc = "epoll" /\ pc' = "parse" /\ last_len' = nullopt
      /\ stream' = stream /\ got' = got /\ failed' = failed
      /\ pos' = pos + n /\ pos + n <= Len(Wire(stream))
      /\ ringbuf' = WriteBuff(ringbuf,
                                SubSeq(Wire(stream), pos + 1, pos + n))
  BY DEF FramingInv, Recv
<1>2. PICK e, k : /\ Layout(stream, e) /\ pos \in 0 .. e[Len(stream)]
                  /\ pos - e[Arrived(stream, pos)] <= MaxTail
                  /\ At(e, k)
  BY DEF FramingInv
<1>3. /\ Len(stream) \in Nat /\ k \in 0 .. Len(stream)
      /\ e \in [0 .. Len(stream) -> Nat]
      /\ e[k] \in Nat /\ pos \in Nat /\ e[k] <= pos
      /\ e[Len(stream)] = Len(Wire(stream))
      /\ Wire(stream) \in Seq(Byte)
      /\ InRing(ringbuf, Wire(stream), e[k], pos)
  BY <1>1, <1>2, Unread
<1>4. n \in Nat /\ n <= Rbuf /\ pos + n \in Nat
  BY <1>3, FramingSizes
<1>5. pos + n <= e[k] + BufferSize
  <2>1. k = Arrived(stream, pos)
    BY <1>1, <1>2 DEF At
  <2>2. PICK x \in Nat : x = e[k]
    BY <1>3
  <2>3. pos - x <= MaxTail
    BY <1>2, <2>1, <2>2
  <2>4. pos + n <= x + BufferSize
    BY <1>3, <1>4, <2>3, FramingSizes
  <2> QED
    BY <2>2, <2>4
<1>6. InRing(ringbuf', Wire(stream), e[k], pos + n)
  <2>1. PICK w : w = Wire(stream)
    OBVIOUS
  <2>2. PICK a : a = e[k]
    OBVIOUS
  <2>3. InRing(WriteBuff(ringbuf, SubSeq(w, pos + 1, pos + n)), w, a, pos + n)
    BY <1>1, <1>3, <1>4, <1>5, <2>1, <2>2, RingWrites
  <2> QED
    BY <1>1, <2>1, <2>2, <2>3
<1>7. At(e, k)'
  <2>1. got' = SubSeq(stream', 1, k) /\ k \in 0 .. Len(stream')
    BY <1>1, <1>2 DEF At
  <2>2. InRing(ringbuf', Wire(stream'), e[k], pos')
    BY <1>1, <1>6
  <2>3. pc' # "epoll"
    BY <1>1
  <2> QED
    BY <2>1, <2>2, <2>3 DEF At
<1>8. pos + n - e[Arrived(stream, pos + n)] <= MaxTail
  <2>1. PICK l : l = Arrived(stream, pos + n)
    OBVIOUS
  <2>2. l \in 0 .. Len(stream)
    BY <1>1, <1>2, <1>4, <2>1, Arrival DEF Whole
  <2>3. Len(Wire(SubSeq(stream, 1, l))) = e[l]
    BY <1>2, <2>2 DEF Layout
  <2>4. pos + n - Len(Wire(SubSeq(stream, 1, l))) <= MaxTail
    BY <2>1 DEF Recv
  <2> QED
    BY <2>1, <2>3, <2>4
<1>9. pos' \in 0 .. e[Len(stream')]
  BY <1>1, <1>3, <1>4
<1>10. /\ stream' \in Streams /\ last_len' = nullopt /\ pc' \in {"epoll", "parse"}
       /\ failed' \in BOOLEAN
  BY <1>1 DEF FramingInv
<1>11. Layout(stream', e) /\ pos' - e[Arrived(stream', pos')] <= MaxTail
  <2>1. PICK l : l = Arrived(stream, pos + n)
    OBVIOUS
  <2>2. Arrived(stream', pos') = l
    BY Zenon, <1>1, <2>1
  <2>3. Layout(stream', e)
    BY Zenon, <1>1, <1>2
  <2>4. pos' - e[l] <= MaxTail
    <3>1. pos + n - e[l] <= MaxTail
      BY Zenon, <1>8, <2>1
    <3>2. e[l] \in Nat
      BY <1>1, <1>2, <1>3, <1>4, <2>1, Arrival DEF Whole
    <3>3. PICK x \in Nat : x = e[l]
      BY <3>2
    <3>4. pos + n - x <= MaxTail
      BY Zenon, <3>1, <3>3
    <3>5. pos' - x <= MaxTail
      BY <1>1, <1>3, <1>4, <3>4
    <3> QED
      BY <3>3, <3>5
  <2> QED
    BY Zenon, <2>2, <2>3, <2>4
<1> QED
  BY <1>7, <1>9, <1>10, <1>11 DEF FramingInv

\* The loop goes on exactly when a whole message is in the ring buffer.
LEMMA MoreIsWhole ==
  ASSUME CutsShort,
         stream \in Streams, last_len = nullopt, NEW e, Layout(stream, e),
         pos \in 0 .. e[Len(stream)],
         pos - e[Arrived(stream, pos)] <= MaxTail, NEW k, At(e, k), ~failed
  PROVE  /\ MoreToParse => /\ k + 1 \in 1 .. Len(stream)
                             /\ e[k + 1] \in Nat /\ e[k + 1] <= pos
         /\ ~MoreToParse => k = Arrived(stream, pos)
<1>1. /\ Len(stream) \in Nat /\ k \in 0 .. Len(stream)
      /\ e \in [0 .. Len(stream) -> Nat]
      /\ e[k] \in Nat /\ pos \in Nat /\ e[k] <= pos
      /\ InRing(ringbuf, Wire(stream), e[k], pos)
  BY Unread
<1>2. /\ \A m \in 0 .. Len(stream) : \A i \in 0 .. m : e[i] <= e[m]
      /\ \A i \in 1 .. Len(stream) : e[i] = e[i - 1] + 2 + Len(stream[i])
  BY DEF Layout
<1>3. MoreToParse <=> pos - e[k] > 2
  <2>1. ReadAvailable(ringbuf) = pos - e[k]
    BY <1>1, RingAvailable
  <2> QED
    BY <2>1 DEF MoreToParse
<1>4. PICK l : l = Arrived(stream, pos)
  OBVIOUS
<1>5. l \in 0 .. Len(stream) /\ e[l] \in Nat
      /\ (k < Len(stream) /\ pos < e[k + 1] => k = l)
      /\ (k = Len(stream) => k = l)
  <2>1. Whole(stream, e, pos, l) /\ \A i : Whole(stream, e, pos, i) => i = l
    BY <1>1, <1>4, Arrival
  <2>2. l \in 0 .. Len(stream)
    BY <2>1 DEF Whole
  <2>3. (k < Len(stream) => pos < e[k + 1]) => k = l
    BY <1>1, <2>1 DEF Whole
  <2>4. e[l] \in Nat
    BY <1>1, <2>2
  <2>5. k = Len(stream) => k = l
    <3>1. k = Len(stream) => ~(k < Len(stream))
      BY <1>1
    <3> QED
      BY Zenon, <2>3, <3>1
  <2> QED
    BY Zenon, <2>2, <2>3, <2>4, <2>5
<1>6. CASE k = l
  <2>1. pos - e[k] <= MaxTail
    BY <1>4, <1>6
  <2>2. ~(pos - e[k] > 2)
    BY <1>1, <2>1, FramingSizes
  <2> QED
    BY <1>3, <1>4, <1>6, <2>2
<1>7. CASE k # l
  <2>1. k + 1 \in 1 .. Len(stream) /\ k + 1 - 1 = k /\ k + 1 \in 0 .. Len(stream)
        /\ k < Len(stream)
    BY <1>1, <1>5, <1>7
  <2>2. e[k + 1] \in Nat /\ e[k + 1] <= pos
    <3>1. PICK x \in Nat : x = e[k + 1]
      BY <1>1, <2>1
    <3>2. ~(pos < x)
      BY <1>5, <1>7, <2>1, <3>1
    <3> QED
      BY <1>1, <3>1, <3>2
  <2>3. e[k + 1] = e[k] + 2 + Len(stream[k + 1])
    <3>1. PICK i : i = k + 1
      OBVIOUS
    <3>2. i \in 1 .. Len(stream) /\ i - 1 = k
      BY <1>1, <2>1, <3>1
    <3>3. e[i] = e[i - 1] + 2 + Len(stream[i])
      BY <1>2, <3>2
    <3> QED
      BY <3>1, <3>2, <3>3
  <2>4. Len(stream[k + 1]) \in Nat /\ Len(stream[k + 1]) >= 2
    BY <2>1, StreamTyped, TwoBytes
  <2>5. pos - e[k] > 2
    <3>1. PICK x \in Nat, y \in Nat, z \in Nat :
            x = e[k] /\ y = Len(stream[k + 1]) /\ z = e[k + 1]
      BY <1>1, <2>2, <2>4
    <3>2. z = x + 2 + y /\ y >= 2 /\ z <= pos
      BY <2>2, <2>3, <2>4, <3>1
    <3>3. pos - x > 2
      BY <1>1, <3>2
    <3> QED
      BY <3>1, <3>3
  <2> QED
    BY <1>3, <2>1, <2>2, <2>5
<1> QED
  BY <1>6, <1>7

\* The loop ends with nothing left but the start of a message.
LEMMA ParseEndsKeepsFraming ==
  ASSUME CutsShort,
         FramingInv, ~failed, ParseEnds
  PROVE  FramingInv'
<1>1. /\ stream \in Streams /\ last_len = nullopt /\ ~MoreToParse
      /\ pc' = "epoll" /\ last_len' = last_len /\ stream' = stream
      /\ got' = got /\ failed' = failed /\ pos' = pos /\ ringbuf' = ringbuf
  BY DEF FramingInv, ParseEnds
<1>2. PICK e, k : /\ Layout(stream, e) /\ pos \in 0 .. e[Len(stream)]
                  /\ pos - e[Arrived(stream, pos)] <= MaxTail
                  /\ At(e, k)
  BY DEF FramingInv
<1>3. k = Arrived(stream, pos)
  BY <1>1, <1>2, MoreIsWhole
<1>4. At(e, k)'
  BY Zenon, <1>1, <1>2, <1>3 DEF At
<1>5. /\ stream' \in Streams /\ last_len' = nullopt /\ pc' \in {"epoll", "parse"}
      /\ failed' \in BOOLEAN
  BY <1>1 DEF FramingInv
<1>6. /\ Layout(stream', e) /\ pos' \in 0 .. e[Len(stream')]
      /\ pos' - e[Arrived(stream', pos')] <= MaxTail
  BY Zenon, <1>1, <1>2
<1> QED
  BY <1>4, <1>5, <1>6 DEF FramingInv

\* A round takes the next message off the ring buffer, and only it.
LEMMA RoundReads ==
  ASSUME stream \in Streams, NEW e, Layout(stream, e),
         pos \in 0 .. e[Len(stream)], NEW k, At(e, k), ~failed,
         NEW i, i = k + 1, i \in 1 .. Len(stream), e[i] \in Nat, e[i] <= pos
  PROVE  LET len  == ToHost16(Bytes(ringbuf, 2)[1], Bytes(ringbuf, 2)[2])
             rest == ReadBuff(ringbuf, 2)
         IN /\ len = Len(stream[i])
            /\ ~(ReadAvailable(rest) < len)
            /\ Bytes(rest, len) = stream[i]
            /\ InRing(ReadBuff(rest, len), Wire(stream), e[i], pos)
<1>1. /\ Len(stream) \in Nat /\ k \in 0 .. Len(stream)
      /\ e \in [0 .. Len(stream) -> Nat]
      /\ e[k] \in Nat /\ pos \in Nat /\ e[k] <= pos
      /\ Wire(stream) \in Seq(Byte)
      /\ pos <= Len(Wire(stream))
      /\ InRing(ringbuf, Wire(stream), e[k], pos)
  BY Unread
<1>2. PICK w : w = Wire(stream)
  OBVIOUS
<1>3. PICK m : m = stream[i]
  OBVIOUS
<1>4. PICK c : c = Encode(m)
  OBVIOUS
<1>5. m \in Messages /\ Len(m) \in Lengths
  BY <1>3, StreamTyped
<1>6. /\ Len(m) \in Nat /\ Len(m) >= 2
      /\ ToHost16(c[1], c[2]) = Len(m)
      /\ \A j \in 1 .. Len(m) : c[2 + j] = m[j]
  <2>1. Len(m) \in Nat /\ Len(m) >= 2
    BY <1>5, TwoBytes
  <2>2. /\ ToHost16(Encode(m)[1], Encode(m)[2]) = Len(m)
        /\ \A j \in 1 .. Len(m) : Encode(m)[2 + j] = m[j]
    BY <1>5, Encoded
  <2> QED
    BY <1>4, <2>1, <2>2
<1>7. i - 1 = k
  BY <1>1
<1>8. PICK x \in Nat, y \in Nat, z \in Nat : x = e[k] /\ y = Len(m) /\ z = e[i]
  BY <1>1, <1>6
<1>9. /\ z = x + 2 + y
      /\ \A j \in 1 .. 2 + y : w[x + j] = c[j]
  <2>1. /\ e[i] = e[i - 1] + 2 + Len(stream[i])
        /\ \A j \in 1 .. 2 + Len(stream[i]) :
             Wire(stream)[e[i - 1] + j] = Encode(stream[i])[j]
    BY DEF Layout
  <2> QED
    BY <1>2, <1>3, <1>4, <1>7, <1>8, <2>1
<1>10. /\ x + 2 + y <= pos /\ pos <= Len(w) /\ w \in Seq(Byte)
       /\ InRing(ringbuf, w, x, pos) /\ 2 <= pos - x
  BY <1>1, <1>2, <1>8, <1>9
<1>11. PICK rest : rest = ReadBuff(ringbuf, 2)
  OBVIOUS
<1>12. Bytes(ringbuf, 2) = SubSeq(w, x + 1, x + 2) /\ InRing(rest, w, x + 2, pos)
  <2>1. PICK d \in Nat : d = 2
    OBVIOUS
  <2>2. d <= pos - x
    BY <1>10, <2>1
  <2>3. /\ Bytes(ringbuf, d) = SubSeq(w, x + 1, x + d)
        /\ InRing(ReadBuff(ringbuf, d), w, x + d, pos)
    BY <1>10, <2>2, RingReads
  <2> QED
    BY <1>11, <2>1, <2>3
<1>13. Bytes(ringbuf, 2)[1] = c[1] /\ Bytes(ringbuf, 2)[2] = c[2]
  <2>1. \A j \in x + 1 .. x + 2 : w[j] \in Byte
    <3>1. ASSUME NEW j \in x + 1 .. x + 2 PROVE w[j] \in Byte
      <4>1. j \in 1 .. Len(w)
        BY <1>10
      <4> QED
        BY <1>10, <4>1, ElementOfSeq
    <3> QED
      BY <3>1
  <2>2. \A j \in 1 .. x + 2 - (x + 1) + 1 :
          SubSeq(w, x + 1, x + 2)[j] = w[x + 1 + j - 1]
    BY <2>1, SubSeqProperties
  <2>3. /\ 1 \in 1 .. x + 2 - (x + 1) + 1 /\ x + 1 + 1 - 1 = x + 1
        /\ 2 \in 1 .. x + 2 - (x + 1) + 1 /\ x + 1 + 2 - 1 = x + 2
        /\ 1 \in 1 .. 2 + y /\ 2 \in 1 .. 2 + y
    OBVIOUS
  <2>4. PICK t : t = SubSeq(w, x + 1, x + 2)
    OBVIOUS
  <2>5. t[1] = w[x + 1] /\ t[2] = w[x + 2]
    BY <2>2, <2>3, <2>4
  <2>6. w[x + 1] = c[1] /\ w[x + 2] = c[2]
    BY <1>9, <2>3
  <2> QED
    BY <1>12, <2>4, <2>5, <2>6
<1>14. ToHost16(Bytes(ringbuf, 2)[1], Bytes(ringbuf, 2)[2]) = y
  BY <1>6, <1>8, <1>13
<1>15. ReadAvailable(rest) = pos - (x + 2)
  BY <1>12, RingAvailable
<1>16. ~(ReadAvailable(rest) < y) /\ y <= pos - (x + 2) /\ x + 2 + y = z
  <2>1. pos \in Nat /\ z = x + 2 + y /\ x + 2 + y <= pos
    BY <1>1, <1>9, <1>10
  <2>2. y <= pos - (x + 2) /\ ~(pos - (x + 2) < y)
    BY <2>1
  <2> QED
    BY <1>15, <2>1, <2>2
<1>17. /\ Bytes(rest, y) = SubSeq(w, x + 2 + 1, x + 2 + y)
       /\ InRing(ReadBuff(rest, y), w, x + 2 + y, pos)
  BY <1>10, <1>12, <1>16, RingReads
<1>18. Bytes(rest, y) = m
  <2>1. \A j \in x + 2 + 1 .. x + 2 + y : w[j] \in Byte
    <3>1. ASSUME NEW j \in x + 2 + 1 .. x + 2 + y PROVE w[j] \in Byte
      <4>1. j \in 1 .. Len(w)
        BY <1>1, <1>10
      <4> QED
        BY <1>10, <4>1, ElementOfSeq
    <3> QED
      BY <3>1
  <2>2. PICK t : t = SubSeq(w, x + 2 + 1, x + 2 + y)
    OBVIOUS
  <2>3. /\ t \in Seq(Byte)
        /\ Len(t) = IF x + 2 + 1 <= x + 2 + y THEN x + 2 + y - (x + 2 + 1) + 1 ELSE 0
        /\ \A j \in 1 .. x + 2 + y - (x + 2 + 1) + 1 : t[j] = w[x + 2 + 1 + j - 1]
    BY <2>1, <2>2, SubSeqProperties
  <2>4. Len(t) = y
    <3>1. y >= 2
      BY <1>6, <1>8
    <3>2. /\ x + 2 + 1 <= x + 2 + y /\ x + 2 + y - (x + 2 + 1) + 1 = y
      BY <3>1
    <3> QED
      BY <2>3, <3>2
  <2>5. ASSUME NEW j \in 1 .. y PROVE t[j] = m[j]
    <3>1. j \in 1 .. x + 2 + y - (x + 2 + 1) + 1 /\ x + 2 + 1 + j - 1 = x + (2 + j)
          /\ 2 + j \in 1 .. 2 + y
      OBVIOUS
    <3>2. t[j] = w[x + (2 + j)]
      BY <2>3, <3>1
    <3>3. w[x + (2 + j)] = c[2 + j]
      BY <1>9, <3>1
    <3>4. c[2 + j] = m[j]
      BY <1>6, <1>8
    <3> QED
      BY <3>2, <3>3, <3>4
  <2>6. t = [j \in 1 .. y |-> t[j]]
    BY <2>3, <2>4, LenProperties
  <2>7. m = [j \in 1 .. y |-> m[j]]
    BY <1>5, <1>8, LenProperties DEF Messages
  <2>8. t = m
    BY <2>5, <2>6, <2>7
  <2> QED
    BY <1>17, <2>2, <2>8
<1>19. InRing(ReadBuff(rest, y), w, z, pos)
  BY <1>16, <1>17
<1> QED
  BY <1>2, <1>3, <1>8, <1>11, <1>14, <1>16, <1>18, <1>19

\* One more message.
LEMMA NextOne ==
  ASSUME NEW s \in Streams, NEW k \in Nat,
         k + 1 \in 1 .. Len(s)
  PROVE  Append(SubSeq(s, 1, k), s[k + 1]) = SubSeq(s, 1, k + 1)
<1>1. PICK i \in Nat : i = k + 1
  OBVIOUS
<1>2. s \in Seq(Messages) /\ Len(s) \in Nat /\ \A j \in 1 .. Len(s) : s[j] \in Messages
  BY StreamTyped
<1>3. PICK t, u : t = SubSeq(s, 1, k) /\ u = SubSeq(s, 1, i)
  OBVIOUS
<1>4. /\ t \in Seq(Messages) /\ Len(t) = k /\ \A j \in 1 .. k : t[j] = s[j]
  <2>1. \A j \in 1 .. k : s[j] \in Messages
    BY <1>2
  <2>2. /\ t \in Seq(Messages) /\ Len(t) = IF 1 <= k THEN k - 1 + 1 ELSE 0
        /\ \A j \in 1 .. k - 1 + 1 : t[j] = s[1 + j - 1]
    BY <1>3, <2>1, SubSeqProperties
  <2>3. \A j \in 1 .. k : j \in 1 .. k - 1 + 1 /\ 1 + j - 1 = j
    OBVIOUS
  <2>4. Len(t) = k
    BY <2>2
  <2> QED
    BY <2>2, <2>3, <2>4
<1>5. /\ u \in Seq(Messages) /\ Len(u) = i /\ \A j \in 1 .. i : u[j] = s[j]
  <2>1. \A j \in 1 .. i : s[j] \in Messages
    BY <1>1, <1>2
  <2>2. /\ u \in Seq(Messages) /\ Len(u) = IF 1 <= i THEN i - 1 + 1 ELSE 0
        /\ \A j \in 1 .. i - 1 + 1 : u[j] = s[1 + j - 1]
    BY <1>3, <2>1, SubSeqProperties
  <2>3. \A j \in 1 .. i : j \in 1 .. i - 1 + 1 /\ 1 + j - 1 = j
    OBVIOUS
  <2>4. Len(u) = i
    BY <2>2
  <2> QED
    BY <2>2, <2>3, <2>4
<1>6. s[i] \in Messages
  BY <1>1, <1>2
<1>7. PICK a : a = Append(t, s[i])
  OBVIOUS
<1>8. /\ a \in Seq(Messages) /\ Len(a) = k + 1
      /\ \A j \in 1 .. k : a[j] = t[j]
      /\ a[k + 1] = s[i]
  BY <1>4, <1>6, <1>7, AppendProperties
<1>9. ASSUME NEW j \in 1 .. i PROVE a[j] = u[j]
  <2>1. j = i \/ j \in 1 .. k
    BY <1>1
  <2> QED
    BY <1>1, <1>4, <1>5, <1>8, <2>1
<1>10. a = [j \in 1 .. i |-> a[j]] /\ u = [j \in 1 .. i |-> u[j]]
  BY <1>1, <1>5, <1>8, LenProperties
<1>11. a = u
  BY <1>9, <1>10
<1> QED
  BY <1>1, <1>3, <1>7, <1>11

\* A round of the loop dispatches the next message.
LEMMA ParseKeepsFraming ==
  ASSUME CutsShort,
         FramingInv, ~failed, Parse
  PROVE  /\ FramingInv'
         /\ failed' => \E i \in DOMAIN stream : ~AssertionsHold(stream[i])
<1>1. /\ stream \in Streams /\ last_len = nullopt /\ MoreToParse
      /\ pc = "parse" /\ pc' = pc /\ stream' = stream /\ pos' = pos
  BY DEF FramingInv, Parse
<1>2. PICK e, k : /\ Layout(stream, e) /\ pos \in 0 .. e[Len(stream)]
                  /\ pos - e[Arrived(stream, pos)] <= MaxTail
                  /\ At(e, k)
  BY DEF FramingInv
<1>3. k + 1 \in 1 .. Len(stream) /\ e[k + 1] \in Nat /\ e[k + 1] <= pos
  BY <1>1, <1>2, MoreIsWhole
<1>4. k \in Nat /\ got = SubSeq(stream, 1, k)
  <2>1. Len(stream) \in Nat /\ k \in 0 .. Len(stream)
    BY <1>1, <1>2, Unread
  <2> QED
    BY <1>2, <2>1 DEF At
<1>5. PICK i : i = k + 1
  OBVIOUS
<1>6. PICK len, rest :
        /\ len = ToHost16(Bytes(ringbuf, 2)[1], Bytes(ringbuf, 2)[2])
        /\ rest = ReadBuff(ringbuf, 2)
  OBVIOUS
<1>7. /\ ~(ReadAvailable(rest) < len)
      /\ Bytes(rest, len) = stream[i]
      /\ InRing(ReadBuff(rest, len), Wire(stream), e[i], pos)
  BY <1>1, <1>2, <1>3, <1>5, <1>6, RoundReads
<1>8. Dispatch(rest, len) /\ last_len' = last_len
  BY <1>1, <1>6, <1>7 DEF Parse
<1>9. /\ ringbuf' = ReadBuff(rest, len)
      /\ IF AssertionsHold(stream[i])
         THEN got' = Append(got, stream[i]) /\ failed' = failed
         ELSE failed' = TRUE /\ got' = got
  BY <1>7, <1>8 DEF Dispatch
<1>10. i \in DOMAIN stream
  <2>1. DOMAIN stream = 1 .. Len(stream)
    BY <1>1, StreamTyped, LenProperties
  <2> QED
    BY <1>3, <1>5, <2>1
<1>11. /\ stream' \in Streams /\ last_len' = nullopt /\ pc' \in {"epoll", "parse"}
       /\ failed' \in BOOLEAN
  BY <1>1, <1>8, <1>9 DEF FramingInv
<1>12. /\ Layout(stream', e) /\ pos' \in 0 .. e[Len(stream')]
       /\ pos' - e[Arrived(stream', pos')] <= MaxTail
  BY Zenon, <1>1, <1>2
<1>13. pc' # "epoll"
  BY <1>1
<1>14. \E l : At(e, l)'
  <2>1. CASE AssertionsHold(stream[i])
    <3>1. got' = SubSeq(stream, 1, i)
      <4>1. Append(SubSeq(stream, 1, k), stream[k + 1]) = SubSeq(stream, 1, k + 1)
        BY <1>1, <1>3, <1>4, NextOne
      <4> QED
        BY Zenon, <1>4, <1>5, <1>9, <2>1, <4>1
    <3>2. i \in 0 .. Len(stream)
      BY <1>3, <1>4, <1>5
    <3>3. InRing(ringbuf', Wire(stream'), e[i], pos')
      BY Zenon, <1>1, <1>7, <1>9
    <3>4. got' = SubSeq(stream', 1, i) /\ i \in 0 .. Len(stream')
      BY Zenon, <1>1, <3>1, <3>2
    <3>5. At(e, i)'
      BY Zenon, <1>13, <3>3, <3>4 DEF At
    <3> QED
      BY <3>5
  <2>2. CASE ~AssertionsHold(stream[i])
    <3>1. failed' /\ got' = got
      BY <1>9, <2>2
    <3>2. got' = SubSeq(stream', 1, k) /\ k \in 0 .. Len(stream')
      BY Zenon, <1>1, <1>2, <3>1 DEF At
    <3>3. At(e, k)'
      BY Zenon, <1>13, <3>1, <3>2 DEF At
    <3> QED
      BY <3>3
  <2> QED
    BY <2>1, <2>2
<1>15. FramingInv'
  BY <1>11, <1>12, <1>14 DEF FramingInv
<1>16. failed' => ~AssertionsHold(stream[i])
  BY <1>9
<1> QED
  BY <1>10, <1>15, <1>16

\* Everything the socket loop does keeps the invariant, and only the dispatch
\* of a message with the wrong length fails.
LEMMA FramingStep ==
  ASSUME CutsShort,
         FramingInv, [FramingNext]_framingVars
  PROVE  /\ FramingInv'
         /\ failed' => \/ failed
                       \/ \E i \in DOMAIN stream : ~AssertionsHold(stream[i])
<1>1. ASSUME ~failed, NEW n \in 0 .. Rbuf, Recv(n) PROVE FramingInv' /\ ~failed'
  BY <1>1, RecvKeepsFraming DEF Recv
<1>2. ASSUME ~failed, Parse
      PROVE  /\ FramingInv'
             /\ failed' => \E i \in DOMAIN stream : ~AssertionsHold(stream[i])
  BY <1>2, ParseKeepsFraming
<1>3. ASSUME ~failed, ParseEnds PROVE FramingInv' /\ ~failed'
  BY <1>3, ParseEndsKeepsFraming DEF ParseEnds
<1>4. ASSUME UNCHANGED framingVars PROVE FramingInv' /\ (failed' <=> failed)
  <2>1. /\ stream' = stream /\ pos' = pos /\ pc' = pc /\ ringbuf' = ringbuf
        /\ last_len' = last_len /\ got' = got /\ failed' = failed
    BY <1>4 DEF framingVars
  <2> QED
    BY Zenon, <2>1 DEF FramingInv, At
<1>5. ASSUME ~failed, RecvFails PROVE FramingInv' /\ ~failed'
  <2>1. /\ stream' = stream /\ pos' = pos /\ pc' = pc /\ ringbuf' = ringbuf
        /\ last_len' = nullopt /\ got' = got /\ failed' = failed
    BY <1>5 DEF RecvFails
  <2> QED
    BY Zenon, <1>5, <2>1 DEF FramingInv, At
<1> QED
  BY <1>1, <1>2, <1>3, <1>4, <1>5 DEF FramingNext

\* The length of a message is the one its type has, for as many as get the
\* loop's assertions to look.
WellFormed(m) ==
  /\ Type(m) = READ_COMP => Len(m) >= 6
  /\ Type(m) = IRQ => Len(m) = 4
  /\ Type(m) = RESULT => Len(m) >= 4

\* What the invariant is for.
LEMMA FramingHolds ==
  ASSUME FramingInv
  PROVE  FramesExact /\ Prompt
<1>1. stream \in Streams
  BY DEF FramingInv
<1>2. PICK e, k : At(e, k)
  BY DEF FramingInv
<1>3. Len(stream) \in Nat /\ k \in 0 .. Len(stream) /\ got = SubSeq(stream, 1, k)
      /\ \A i \in 1 .. Len(stream) : stream[i] \in Messages
  BY <1>1, <1>2, StreamTyped DEF At
<1>4. Len(got) = k
  <2>1. \A i \in 1 .. k : stream[i] \in Messages
    BY <1>3
  <2>2. Len(got) = IF 1 <= k THEN k - 1 + 1 ELSE 0
    BY <1>3, <2>1, SubSeqProperties
  <2> QED
    BY <1>3, <2>2
<1>5. SubSeq(got, 1, Len(got)) = got
  <2>1. \A i \in 1 .. k : stream[i] \in Messages
    BY <1>3
  <2>2. got \in Seq(Messages)
    BY <1>3, <2>1, SubSeqProperties
  <2> QED
    BY <2>2, SubSeqFull
<1>6. FramesExact
  BY <1>3, <1>4, <1>5 DEF FramesExact, IsPrefix
<1>7. Prompt
  BY Zenon, <1>2 DEF Prompt, At
<1> QED
  BY <1>6, <1>7

\* The receive thread dispatches what the device sent, message by message and
\* in order, for every stream, every size of rbuf and of the ring buffer it
\* fits, and all the ways recv may cut the stream short of a length field's end.
THEOREM SocketFramesExact ==
  ASSUME CutsShort
  PROVE  FramingSpec => []FramesExact
<1>1. FramingInit => FramingInv
  BY FramingStarts
<1>2. FramingInv /\ [FramingNext]_framingVars => FramingInv'
  BY FramingStep
<1>3. FramingInv => FramesExact
  BY FramingHolds
<1> QED
  BY <1>1, <1>2, <1>3, PTL DEF FramingSpec

\* When the thread goes back to epoll_wait it has dispatched every message that
\* arrived in full: the loop's `> 2` leaves none behind.
THEOREM SocketPrompt ==
  ASSUME CutsShort
  PROVE  FramingSpec => []Prompt
<1>1. FramingInit => FramingInv
  BY FramingStarts
<1>2. FramingInv /\ [FramingNext]_framingVars => FramingInv'
  BY FramingStep
<1>3. FramingInv => Prompt
  BY FramingHolds
<1> QED
  BY <1>1, <1>2, <1>3, PTL DEF FramingSpec

\* The loop's assertions hold, if the device sends every message with the
\* length of its type: no cut short of a length field's end makes them fail.
THEOREM SocketAssertsHold ==
  ASSUME CutsShort,
         \A s \in Streams : \A i \in DOMAIN s : WellFormed(s[i])
  PROVE  FramingSpec => []AssertsHold
<1>1. FramingInit => FramingInv /\ ~failed
  BY FramingStarts DEF FramingInit
<1>2. ASSUME FramingInv, ~failed, [FramingNext]_framingVars PROVE FramingInv' /\ ~failed'
  <2>1. stream \in Streams
    BY <1>2 DEF FramingInv
  <2>2. ASSUME NEW i \in DOMAIN stream PROVE AssertionsHold(stream[i])
    <3>1. PICK m : m = stream[i]
      OBVIOUS
    <3>2. WellFormed(m)
      BY <2>1, <3>1
    <3>3. Len(m) >= 2
      <4>1. DOMAIN stream = 1 .. Len(stream)
        BY <2>1, StreamTyped, LenProperties
      <4> QED
        BY <2>1, <3>1, <4>1, StreamTyped, TwoBytes
    <3> QED
      BY Zenon, <3>1, <3>2, <3>3 DEF WellFormed, AssertionsHold
  <2> QED
    BY <1>2, <2>2, FramingStep
<1>3. FramingInv /\ ~failed => AssertsHold
  BY DEF AssertsHold
<1> QED
  BY <1>1, <1>2, <1>3, PTL DEF FramingSpec
=============================================================================

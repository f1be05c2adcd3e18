-------------------------- MODULE SyncCommandProofs -------------------------
(***************************************************************************)
(* Theorems about SyncCommand, for any number of threads and calls.  They  *)
(* hold as long as the counter of setup_async_command does not name an id  *)
(* that is in use; the last section shows that it cannot before as many    *)
(* calls are made as there are ids.                                        *)
(***************************************************************************)
EXTENDS SyncCommand, FiniteSetTheorems, SequenceTheorems, TLAPS

-----------------------------------------------------------------------------
(* The inductive invariant. *)

\* Where setup_async_command may run, the id it takes is not in use.
FreshId ==
  \A c \in Clients :
    pc[c] = "ready" /\ call[c] <= Calls /\ command_mutex = None
      => command_map[command_id_counter] = None

Answer == [id : Ids, call : AllCalls]

Types ==
  /\ command_mutex \in {Recv, None}
  /\ command_id_counter \in Ids
  /\ command_map \in [Ids -> Object \cup {None}]
  /\ pc \in [Clients -> {"ready", "submit", "lock", "test", "asleep", "remove"}]
  /\ acmd \in [Clients -> Ids \cup {None}]
  /\ call \in [Clients -> Nat \ {0}]
  /\ recv_pc \in {"idle", "find", "lock", "complete", "unlock", "leave",
                  "release"}
  /\ recv_pc # "idle" => cqe \in Cqe
  /\ release_cmd \in BOOLEAN
  /\ pending \subseteq Answer
  /\ cqes \in Seq(Cqe)
  /\ out \in [AllCalls -> Seq(AllCalls \cup {None})]

\* The object of a client that has a pointer to one.
Held(c) ==
  pc[c] # "ready" =>
    /\ acmd[c] \in Ids /\ call[c] \in 1 .. Calls
    /\ command_map[acmd[c]] # None
    /\ command_map[acmd[c]].call = This(c)
    /\ pc[c] = "submit" => ~command_map[acmd[c]].completed
    /\ pc[c] # "submit" => ~command_map[acmd[c]].callback
    /\ pc[c] = "remove" => command_map[acmd[c]].completed
    /\ pc[c] # "remove" => out[This(c)] = << >>

\* An answer with this id is on its way to the object it is meant for.
Expected(i, k) ==
  /\ command_map[i] # None
  /\ command_map[i].call = k
  /\ ~command_map[i].completed
  /\ out[k] = << >>
  /\ \A c \in Clients : pc[c] = "submit" => acmd[c] # i

Answers ==
  /\ \A p \in pending : Expected(p.id, p.call)
  /\ \A n \in 1 .. Len(cqes) : Expected(cqes[n].id, cqes[n].result)
  /\ recv_pc \in {"find", "lock", "complete"} => Expected(cqe.id, cqe.result)

\* There is one answer with an id, in one place.
OneAnswer ==
  /\ \A p \in pending : \A n \in 1 .. Len(cqes) : p.id # cqes[n].id
  /\ \A m, n \in 1 .. Len(cqes) : cqes[m].id = cqes[n].id => m = n
  /\ recv_pc # "idle" => /\ \A p \in pending : p.id # cqe.id
                         /\ \A n \in 1 .. Len(cqes) : cqes[n].id # cqe.id

\* handle_cqe's object exists until it is left alone, and the table is locked
\* while its mutex may be in use.
Handled ==
  /\ recv_pc # "idle" => /\ command_map[cqe.id] # None
                         /\ \A c \in Clients : pc[c] = "submit" => acmd[c] # cqe.id
  /\ recv_pc \in {"lock", "complete", "unlock", "leave"}
       <=> command_mutex = Recv
  /\ recv_pc \in {"idle", "find", "lock", "complete"} => ~release_cmd
  /\ recv_pc \in {"unlock", "leave", "release"}
       => (release_cmd <=> command_map[cqe.id].callback)
  /\ recv_pc = "release" => release_cmd

\* Something will still be done with the object of a callback.
Coming(i) ==
  \/ \E p \in pending : p.id = i
  \/ \E n \in 1 .. Len(cqes) : cqes[n].id = i
  \/ recv_pc # "idle" /\ cqe.id = i

\* An object belongs to its client's present call, or to an earlier one that
\* left a callback.
Owned(i) ==
  command_map[i] # None =>
    LET o == command_map[i]
        c == o.call[1]
    IN /\ o.call[2] <= call[c]
       /\ o.call[2] = call[c] => pc[c] # "ready" /\ acmd[c] = i
       /\ o.call[2] < call[c] => o.callback /\ Coming(i)
       /\ o.completed => o.result = o.call

OwnObject ==
  \A i, j \in Ids :
    command_map[i] # None /\ command_map[j] # None
      /\ command_map[i].call = command_map[j].call => i = j

\* Nobody was told anything of a call that has not begun.
Untold ==
  \A c \in Clients, n \in 1 .. Calls :
    n > call[c] \/ (n = call[c] /\ pc[c] = "ready") => out[<<c, n>>] = << >>

SInv ==
  /\ Types
  /\ \A c \in Clients : Held(c)
  /\ Answers /\ OneAnswer /\ Handled
  /\ \A i \in Ids : Owned(i)
  /\ OwnObject /\ Untold /\ OwnResult

-----------------------------------------------------------------------------
(* Types. *)

LEMMA TypesStep == SInv /\ [Next]_vars => Types'
<1> SUFFICES ASSUME SInv, [Next]_vars PROVE Types'
  OBVIOUS
<1>1. Types
  BY DEF SInv
<1> USE SyncCommandAssumption, NoneAssumption
    DEF Types, Goto, Return, This, HandleCqeReturns,
        clientVars, recvVars, devVars
<1>2. ASSUME NEW c \in Clients, NEW callback \in BOOLEAN,
             SetupAsyncCommand(c, callback)
      PROVE  Types'
  <2> DEFINE old == Emplaced(command_id_counter)
             o == [call |-> This(c), callback |-> callback, completed |-> FALSE,
                   result |-> old.result, mutex |-> old.mutex]
  <2>1. This(c) \in AllCalls
    BY <1>1, <1>2 DEF SetupAsyncCommand, AllCalls
  <2>2. o \in Object
    <3>1. command_map[command_id_counter] \in Object \cup {None}
      BY <1>1
    <3>2. /\ old.result \in AllCalls \cup {None}
          /\ old.mutex \in Clients \cup {Recv, None}
      <4>1. CASE command_map[command_id_counter] = None
        BY <4>1 DEF Emplaced
      <4>2. CASE command_map[command_id_counter] # None
        BY <3>1, <4>2 DEF Emplaced, Object
      <4> QED
        BY <4>1, <4>2
    <3> QED
      BY <2>1, <3>2 DEF Object
  <2>3. command_map' \in [Ids -> Object \cup {None}]
    BY <1>1, <1>2, <2>2 DEF SetupAsyncCommand
  <2>4. (command_id_counter + 1) % U16 \in Ids
    BY <1>1 DEF Ids
  <2> QED
    BY <1>1, <1>2, <2>3, <2>4 DEF SetupAsyncCommand
<1>3. ASSUME NEW c \in Clients, SubmitSqCommand(c) PROVE Types'
  <2>1. acmd[c] \in Ids /\ call[c] \in 1 .. Calls
    BY <1>3 DEF SInv, Held, SubmitSqCommand
  <2>2. [id |-> acmd[c], call |-> This(c)] \in Answer
    BY <2>1 DEF Answer, AllCalls
  <2> QED
    <3>1. pending' \subseteq Answer
      BY <1>1, <1>3, <2>2 DEF SubmitSqCommand
    <3>2. Return(c) \/ (Goto(c, "lock") /\ UNCHANGED <<call, acmd>>)
      BY <1>3 DEF SubmitSqCommand
    <3>3. call' \in [Clients -> Nat \ {0}] /\ acmd' \in [Clients -> Ids \cup {None}]
      <4>1. CASE Return(c)
        BY <1>1, <4>1
      <4>2. CASE UNCHANGED <<call, acmd>>
        BY <1>1, <4>2
      <4> QED
        BY <3>2, <4>1, <4>2
    <3>4. pc' \in [Clients -> {"ready", "submit", "lock", "test", "asleep",
                               "remove"}]
      BY <1>1, <3>2
    <3> QED
      BY <1>1, <1>3, <3>1, <3>3, <3>4 DEF SubmitSqCommand
<1>4. ASSUME NEW c \in Clients, WaitLock(c) PROVE Types'
  <2>1. acmd[c] \in Ids /\ command_map[acmd[c]] \in Object
    BY <1>1, <1>4 DEF SInv, Held, WaitLock
  <2>2. [command_map[acmd[c]] EXCEPT !.mutex = c] \in Object
    BY <2>1 DEF Object
  <2> QED
    BY <1>1, <1>4, <2>1, <2>2 DEF WaitLock
<1>5. ASSUME NEW c \in Clients, WaitTest(c) PROVE Types'
  <2>1. acmd[c] \in Ids /\ command_map[acmd[c]] \in Object
        /\ call[c] \in 1 .. Calls
    BY <1>1, <1>5 DEF SInv, Held, WaitTest
  <2>2. [command_map[acmd[c]] EXCEPT !.mutex = None] \in Object
    BY <2>1 DEF Object
  <2>3. command_map' \in [Ids -> Object \cup {None}]
    BY <1>1, <1>5, <2>1, <2>2 DEF WaitTest
  <2>4. This(c) \in AllCalls /\ command_map[acmd[c]].result \in AllCalls \cup {None}
    BY <2>1 DEF AllCalls, Object
  <2>5. Append(out[This(c)], command_map[acmd[c]].result)
          \in Seq(AllCalls \cup {None})
    BY <1>1, <2>4, AppendProperties
  <2>6. out' \in [AllCalls -> Seq(AllCalls \cup {None})]
    BY <1>1, <1>5, <2>5 DEF WaitTest
  <2>7. pc' \in [Clients -> {"ready", "submit", "lock", "test", "asleep",
                             "remove"}]
    BY <1>1, <1>5 DEF WaitTest
  <2> QED
    BY <1>1, <1>5, <2>3, <2>6, <2>7 DEF WaitTest
<1>6. ASSUME NEW c \in Clients, RemoveWaited(c) PROVE Types'
  <2>1. command_map' \in [Ids -> Object \cup {None}]
    BY <1>1, <1>6 DEF RemoveWaited
  <2>2. call' \in [Clients -> Nat \ {0}] /\ acmd' \in [Clients -> Ids \cup {None}]
    BY <1>1, <1>6 DEF RemoveWaited
  <2> QED
    BY <1>1, <1>6, <2>1, <2>2 DEF RemoveWaited
<1>7. ASSUME NEW c \in Clients, SpuriousWakeup(c) PROVE Types'
  BY <1>1, <1>7 DEF SpuriousWakeup
<1>8. ASSUME NEW p \in pending, DevComplete(p) PROVE Types'
  <2>1. [id |-> p.id, result |-> p.call] \in Cqe
    BY <1>1 DEF Answer, Cqe
  <2>2. cqes' \in Seq(Cqe)
    BY <1>8, <1>1, <2>1, AppendProperties DEF DevComplete
  <2> QED
    BY <1>1, <1>8, <2>2 DEF DevComplete
<1>9. CASE ReadCqe
  <2>1. Head(cqes) \in Cqe /\ Tail(cqes) \in Seq(Cqe)
    BY <1>1, <1>9, HeadTailProperties DEF ReadCqe
  <2> QED
    BY <1>1, <1>9, <2>1 DEF ReadCqe
<1>10. CASE FindCommand
  BY <1>1, <1>10 DEF FindCommand
<1>11. CASE LockCommand
  <2>1. cqe.id \in Ids /\ command_map[cqe.id] \in Object
    BY <1>1, <1>11 DEF SInv, Handled, LockCommand, Cqe
  <2>2. [command_map[cqe.id] EXCEPT !.mutex = Recv] \in Object
    BY <2>1 DEF Object
  <2> QED
    BY <1>1, <1>11, <2>1, <2>2 DEF LockCommand
<1>12. CASE CallCallback
  <2>1. command_map[cqe.id].call \in AllCalls /\ cqe.result \in AllCalls
    BY <1>1, <1>12 DEF SInv, Handled, CallCallback, Cqe, Object
  <2>2. Append(out[command_map[cqe.id].call], cqe.result)
          \in Seq(AllCalls \cup {None})
    BY <1>1, <2>1, AppendProperties
  <2> QED
    BY <1>1, <1>12, <2>1, <2>2 DEF CallCallback
<1>13. CASE WakeWaiter
  <2>1. cqe.id \in Ids /\ cqe.result \in AllCalls
        /\ command_map[cqe.id] \in Object
    BY <1>1, <1>13 DEF SInv, Handled, WakeWaiter, Cqe
  <2>2. [command_map[cqe.id] EXCEPT !.result = cqe.result, !.completed = TRUE]
          \in Object
    BY <2>1 DEF Object
  <2>3. command_map' =
          [command_map EXCEPT ![cqe.id] =
             [command_map[cqe.id] EXCEPT !.result = cqe.result,
                                         !.completed = TRUE]]
    BY <1>1, <1>13, <2>1 DEF WakeWaiter
  <2> QED
    BY <1>1, <1>13, <2>1, <2>2, <2>3 DEF WakeWaiter
<1>14. CASE UnlockCommand
  <2>1. cqe.id \in Ids /\ command_map[cqe.id] \in Object
    BY <1>1, <1>14 DEF SInv, Handled, UnlockCommand, Cqe
  <2>2. [command_map[cqe.id] EXCEPT !.mutex = None] \in Object
    BY <2>1 DEF Object
  <2> QED
    BY <1>1, <1>14, <2>1, <2>2 DEF UnlockCommand
<1>15. CASE LeaveTable
  BY <1>1, <1>15 DEF LeaveTable
<1>16. CASE ReleaseCommand
  BY <1>1, <1>16 DEF ReleaseCommand
<1>17. CASE UNCHANGED vars
  BY <1>1, <1>17 DEF vars
<1> QED
  BY <1>2, <1>3, <1>4, <1>5, <1>6, <1>7, <1>8, <1>9, <1>10, <1>11, <1>12, <1>13,
     <1>14, <1>15, <1>16, <1>17
  DEF Next, Client, HandleCqe

-----------------------------------------------------------------------------
(* The submitting threads. *)

\* The ids and the calls of the answers.
LEMMA AnswerTypes ==
  ASSUME Types
  PROVE  /\ \A p \in pending : p.id \in Ids /\ p.call \in AllCalls
         /\ \A n \in 1 .. Len(cqes) : /\ cqes[n] \in Cqe /\ cqes[n].id \in Ids
                                     /\ cqes[n].result \in AllCalls
         /\ recv_pc # "idle" => cqe.id \in Ids /\ cqe.result \in AllCalls
         /\ Len(cqes) \in Nat
<1>1. \A n \in 1 .. Len(cqes) : cqes[n] \in Cqe
  BY ElementOfSeq DEF Types
<1>2. Len(cqes) \in Nat
  BY LenProperties DEF Types
<1> QED
  BY <1>1, <1>2 DEF Types, Answer, Cqe

\* Answers wait for objects that a step leaves as they are.
LEMMA AnswersKept ==
  ASSUME Types, Answers, cqe' = cqe, pending' = pending, cqes' = cqes,
         recv_pc' \in {"find", "lock", "complete"}
           => recv_pc \in {"find", "lock", "complete"},
         \A i \in Ids, k \in AllCalls : Expected(i, k) => Expected(i, k)'
  PROVE  Answers'
<1>1. ASSUME NEW p \in pending PROVE Expected(p.id, p.call)'
  <2>1. p.id \in Ids /\ p.call \in AllCalls /\ Expected(p.id, p.call)
    BY AnswerTypes DEF Answers
  <2> QED
    BY <2>1
<1>2. ASSUME NEW n \in 1 .. Len(cqes)
      PROVE  Expected(cqes[n].id, cqes[n].result)'
  <2>1. /\ cqes[n].id \in Ids /\ cqes[n].result \in AllCalls
        /\ Expected(cqes[n].id, cqes[n].result)
    BY AnswerTypes DEF Answers
  <2> QED
    BY <2>1
<1>3. ASSUME recv_pc' \in {"find", "lock", "complete"}
      PROVE  Expected(cqe.id, cqe.result)'
  <2>1. /\ cqe.id \in Ids /\ cqe.result \in AllCalls
        /\ Expected(cqe.id, cqe.result)
    BY <1>3, AnswerTypes DEF Answers
  <2> QED
    BY <2>1
<1> QED
  BY <1>1, <1>2, <1>3 DEF Answers

\* The step of an object's owner that leaves the object to it, or that leaves it
\* behind.
LEMMA OwnedKept ==
  ASSUME Types, NEW i \in Ids, Owned(i), command_map'[i] = command_map[i],
         \A d \in Clients :
           \/ /\ call'[d] = call[d]
              /\ pc[d] # "ready" /\ acmd[d] = i => pc'[d] # "ready" /\ acmd'[d] = i
           \/ call'[d] = call[d] + 1 /\ acmd[d] # i,
         Coming(i) => Coming(i)'
  PROVE  Owned(i)'
<1> SUFFICES ASSUME command_map[i] # None PROVE Owned(i)'
  BY DEF Owned
<1> DEFINE o == command_map[i]
           d == o.call[1]
<1>1. d \in Clients /\ o.call[2] \in Nat /\ call[d] \in Nat
  BY DEF Types, Object, AllCalls
<1>2. CASE /\ call'[d] = call[d]
           /\ pc[d] # "ready" /\ acmd[d] = i => pc'[d] # "ready" /\ acmd'[d] = i
  BY <1>1, <1>2 DEF Owned
<1>3. CASE call'[d] = call[d] + 1 /\ acmd[d] # i
  <2>1. o.call[2] < call[d]
    BY <1>1, <1>3 DEF Owned
  <2> QED
    BY <1>1, <1>3, <2>1 DEF Owned
<1> QED
  BY <1>1, <1>2, <1>3

\* Two clients hold different objects.
LEMMA HoldersDiffer ==
  ASSUME SInv, NEW c \in Clients, NEW d \in Clients, c # d,
         pc[c] # "ready", pc[d] # "ready"
  PROVE  acmd[c] # acmd[d]
<1>1. Held(c) /\ Held(d)
  BY DEF SInv
<1> QED
  BY <1>1 DEF Held, This

\* A new object is nobody else's, for its id was not in use.
LEMMA SetupInv ==
  ASSUME SInv, FreshId, NEW c \in Clients, NEW callback \in BOOLEAN,
         SetupAsyncCommand(c, callback), Types'
  PROVE  SInv'
<1> DEFINE id == command_id_counter
<1>1. Types /\ id \in Ids
  BY DEF SInv, Types
<1>2. /\ pc[c] = "ready" /\ call[c] \in 1 .. Calls
      /\ command_mutex = None /\ command_map[id] = None
  BY <1>1 DEF SetupAsyncCommand, FreshId, Types
<1>3. /\ command_map'[id] # None
      /\ command_map'[id].call = This(c) /\ ~command_map'[id].completed
      /\ \A i \in Ids : i # id => command_map'[i] = command_map[i]
  <2> DEFINE o == [call |-> This(c), callback |-> callback,
                   completed |-> FALSE, result |-> None, mutex |-> None]
  <2>1. o \in Object
    BY <1>1, <1>2 DEF Object, Types, AllCalls, This
  <2>2. command_map' = [command_map EXCEPT ![id] = o]
    <3>1. Emplaced(id).result = None /\ Emplaced(id).mutex = None
      BY <1>2 DEF Emplaced
    <3> QED
      BY <3>1 DEF SetupAsyncCommand
  <2> QED
    BY <1>1, <2>1, <2>2, NoneAssumption DEF Types
<1>4. /\ pc'[c] = "submit" /\ acmd'[c] = id
      /\ \A d \in Clients : d # c => pc'[d] = pc[d] /\ acmd'[d] = acmd[d]
      /\ UNCHANGED <<command_mutex, call, recv_pc, cqe, release_cmd, pending,
                     cqes, out>>
  BY <1>1 DEF SetupAsyncCommand, Goto, recvVars, devVars, Types
<1>5. This(c)' = This(c) /\ out[This(c)] = << >>
  BY <1>2, <1>4 DEF This, SInv, Untold
<1>6. ASSUME NEW d \in Clients PROVE Held(d)'
  <2>1. CASE d = c
    BY <1>1, <1>2, <1>3, <1>4, <1>5, <2>1 DEF Held, This
  <2>2. CASE d # c
    <3>1. Held(d)
      BY DEF SInv
    <3>2. pc[d] # "ready" => acmd[d] \in Ids /\ acmd[d] # id
      BY <1>2, <3>1 DEF Held
    <3> QED
      BY <1>3, <1>4, <2>2, <3>1, <3>2 DEF Held, This
  <2> QED
    BY <2>1, <2>2
<1>7. ASSUME NEW i \in Ids, NEW k \in AllCalls, Expected(i, k) PROVE Expected(i, k)'
  BY <1>2, <1>3, <1>4, <1>7 DEF Expected
<1>8. Answers'
  <2>1. /\ recv_pc' = recv_pc /\ cqe' = cqe /\ pending' = pending
        /\ cqes' = cqes
    BY <1>4
  <2> QED
    BY <1>1, <1>7, <2>1, AnswersKept DEF SInv
<1>9. OneAnswer'
  BY <1>4 DEF SInv, OneAnswer
<1>10. Handled'
  <2>1. recv_pc # "idle" => cqe.id \in Ids /\ cqe.id # id
    BY <1>1, <1>2, AnswerTypes DEF SInv, Handled
  <2> QED
    BY <1>3, <1>4, <2>1 DEF SInv, Handled
<1>11. ASSUME NEW i \in Ids PROVE Owned(i)'
  <2>1. CASE i = id
    BY <1>1, <1>2, <1>3, <1>4, <2>1 DEF Owned, This, Types
  <2>2. CASE i # id
    <3>1. Owned(i) /\ Coming(i)' = Coming(i)
      BY <1>4 DEF SInv, Coming
    <3>2. CASE command_map[i] # None
      <4> DEFINE o == command_map[i]
                 d == o.call[1]
      <4>1. d \in Clients
        BY <1>1, <3>2 DEF Types, Object, AllCalls
      <4>2. command_map'[i] = o /\ call'[d] = call[d]
        BY <1>3, <1>4, <2>2
      <4>3. o.call[2] = call[d] => d # c
        BY <1>2, <3>1, <3>2 DEF Owned
      <4>4. o.call[2] = call[d] => pc'[d] # "ready" /\ acmd'[d] = i
        BY <1>4, <3>1, <3>2, <4>1, <4>3 DEF Owned
      <4> QED
        BY <3>1, <3>2, <4>2, <4>4 DEF Owned
    <3>3. CASE command_map[i] = None
      BY <1>3, <2>2, <3>3 DEF Owned
    <3> QED
      BY <3>2, <3>3
  <2> QED
    BY <2>1, <2>2
<1>12. OwnObject'
  <2>1. ASSUME NEW i \in Ids, command_map[i] # None
        PROVE  command_map[i].call # This(c)
    BY <1>2, <2>1 DEF SInv, Owned, This
  <2> QED
    BY <1>3, <2>1 DEF SInv, OwnObject
<1>13. Untold' /\ OwnResult'
  BY <1>4 DEF SInv, Untold, OwnResult
<1> QED
  BY <1>6, <1>8, <1>9, <1>10, <1>11, <1>12, <1>13 DEF SInv

\* A step that changes nothing but mutexes, where clients are between "lock",
\* "test" and "asleep", and where the receive thread is with the entry it has.
LEMMA MutexInv ==
  ASSUME SInv, Types', Handled',
         \A i \in Ids :
           /\ command_map[i] = None <=> command_map'[i] = None
           /\ command_map[i] # None =>
                /\ command_map'[i].call = command_map[i].call
                /\ command_map'[i].callback = command_map[i].callback
                /\ command_map'[i].completed = command_map[i].completed
                /\ command_map'[i].result = command_map[i].result,
         \A d \in Clients :
           pc'[d] = pc[d] \/ (/\ pc[d] \in {"lock", "test", "asleep"}
                              /\ pc'[d] \in {"lock", "test", "asleep"}),
         recv_pc' \in {"find", "lock", "complete"}
           => recv_pc \in {"find", "lock", "complete"},
         recv_pc' = "idle" <=> recv_pc = "idle",
         UNCHANGED <<acmd, call, cqe, pending, cqes, out>>
  PROVE  SInv'
<1>1. Types
  BY DEF SInv
<1>2. ASSUME NEW d \in Clients PROVE Held(d)'
  BY DEF SInv, Held, This
<1>3. ASSUME NEW i \in Ids, NEW k \in AllCalls, Expected(i, k) PROVE Expected(i, k)'
  BY <1>3 DEF Expected
<1>4. Answers'
  <2>1. cqe' = cqe /\ pending' = pending /\ cqes' = cqes
    OBVIOUS
  <2> QED
    BY <1>1, <1>3, <2>1, AnswersKept DEF SInv
<1>5. OneAnswer'
  BY DEF SInv, OneAnswer
<1>6. ASSUME NEW i \in Ids PROVE Owned(i)'
  <2>1. Owned(i) /\ Coming(i)' = Coming(i)
    BY DEF SInv, Coming
  <2>2. ASSUME command_map[i] # None PROVE command_map[i].call[1] \in Clients
    BY <1>1, <2>2 DEF Types, Object, AllCalls
  <2> QED
    BY <2>1, <2>2 DEF Owned
<1>7. OwnObject'
  BY DEF SInv, OwnObject
<1>8. Untold' /\ OwnResult'
  BY DEF SInv, Untold, OwnResult
<1> QED
  BY <1>2, <1>4, <1>5, <1>6, <1>7, <1>8 DEF SInv

\* submit_sq_command makes the device owe an answer; the client of a callback
\* goes its way.
LEMMA SubmitInv ==
  ASSUME SInv, NEW c \in Clients, SubmitSqCommand(c), Types'
  PROVE  SInv'
<1>1. PICK id, k0 : id = acmd[c] /\ k0 = This(c)
  OBVIOUS
<1> DEFINE p == [id |-> id, call |-> k0]
<1>2. Types /\ Held(c) /\ pc[c] = "submit"
  BY DEF SInv, SubmitSqCommand
<1>3. /\ id \in Ids /\ call[c] \in 1 .. Calls /\ command_map[id] # None
      /\ command_map[id].call = k0 /\ ~command_map[id].completed
      /\ out[k0] = << >> /\ k0 = <<c, call[c]>>
  BY <1>1, <1>2 DEF Held, This
<1>4. /\ pending' = pending \cup {p}
      /\ UNCHANGED <<command_mutex, command_map, recv_pc, cqe, release_cmd,
                     cqes, out>>
      /\ \A d \in Clients : d # c => /\ pc'[d] = pc[d] /\ acmd'[d] = acmd[d]
                                     /\ call'[d] = call[d]
  BY <1>1, <1>2 DEF SubmitSqCommand, Return, Goto, recvVars, Types
<1>5. \/ /\ command_map[id].callback
         /\ pc'[c] = "ready" /\ call'[c] = call[c] + 1
      \/ /\ ~command_map[id].callback
         /\ pc'[c] = "lock" /\ acmd'[c] = id /\ call'[c] = call[c]
  BY <1>1, <1>2 DEF SubmitSqCommand, Return, Goto, Types
<1>6. ASSUME NEW d \in Clients PROVE Held(d)'
  <2>1. CASE d = c
    BY <1>1, <1>2, <1>3, <1>4, <1>5, <2>1 DEF Held, This
  <2>2. CASE d # c
    BY <1>4, <2>2 DEF SInv, Held, This
  <2> QED
    BY <2>1, <2>2
<1>7. ASSUME NEW d \in Clients, pc'[d] = "submit"
      PROVE  d # c /\ pc[d] = "submit" /\ acmd'[d] = acmd[d] /\ acmd[d] # id
  <2>1. d # c /\ pc[d] = "submit" /\ acmd'[d] = acmd[d]
    BY <1>4, <1>5, <1>7
  <2> QED
    BY <1>1, <1>2, <2>1, HoldersDiffer
<1>8. ASSUME NEW i \in Ids, NEW k \in AllCalls, Expected(i, k)
      PROVE  Expected(i, k)' /\ i # id
  BY <1>1, <1>2, <1>4, <1>7, <1>8 DEF Expected
<1>9. Expected(id, k0)'
  BY <1>3, <1>4, <1>7 DEF Expected
<1>10. Answers'
  <2>1. ASSUME NEW q \in pending' PROVE Expected(q.id, q.call)'
    <3>1. CASE q = p
      <4>1. q.id = id /\ q.call = k0
        BY <3>1
      <4> QED
        BY <4>1, <1>9
    <3>2. CASE q \in pending
      BY <1>2, <1>8, <3>2, AnswerTypes DEF SInv, Answers
    <3> QED
      BY <1>4, <3>1, <3>2
  <2>2. ASSUME NEW n \in 1 .. Len(cqes)
        PROVE  Expected(cqes[n].id, cqes[n].result)'
    BY <1>2, <1>4, <1>8, AnswerTypes DEF SInv, Answers
  <2>3. recv_pc \in {"find", "lock", "complete"}
          => Expected(cqe.id, cqe.result)'
    BY <1>2, <1>4, <1>8, AnswerTypes DEF SInv, Answers
  <2> QED
    BY <1>4, <2>1, <2>2, <2>3 DEF Answers
<1>11. OneAnswer'
  <2>1. \A n \in 1 .. Len(cqes) : cqes[n].id # id
    BY <1>2, <1>8, AnswerTypes DEF SInv, Answers
  <2>2. recv_pc # "idle" => cqe.id # id
    BY <1>1, <1>2 DEF SInv, Handled
  <2> QED
    BY <1>4, <2>1, <2>2 DEF SInv, OneAnswer
<1>12. Handled'
  BY <1>4, <1>7 DEF SInv, Handled
<1>13. ASSUME NEW i \in Ids PROVE Owned(i)'
  <2>1. Coming(i) => Coming(i)'
    BY <1>4 DEF Coming
  <2>2. CASE i # id
    BY <1>1, <1>2, <1>4, <1>5, <2>1, <2>2, OwnedKept DEF SInv
  <2>3. CASE i = id
    <3>1. Coming(id)'
      <4>1. p \in pending' /\ p.id = id
        BY <1>4
      <4> QED
        BY <4>1 DEF Coming
    <3>2. /\ k0[1] = c /\ k0[2] = call[c] /\ call[c] \in Nat
          /\ command_map'[id] = command_map[id]
      BY <1>3, <1>4
    <3>3. pc[c] # "ready" /\ Owned(id)
      BY <1>2, <1>3 DEF SInv
    <3> QED
      BY <1>3, <1>5, <2>3, <3>1, <3>2, <3>3 DEF Owned
  <2> QED
    BY <2>2, <2>3
<1>14. OwnObject' /\ OwnResult'
  BY <1>4 DEF SInv, OwnObject, OwnResult
<1>15. Untold'
  <2> SUFFICES ASSUME NEW d \in Clients, NEW n \in 1 .. Calls,
                      n > call'[d] \/ (n = call'[d] /\ pc'[d] = "ready")
               PROVE  out[<<d, n>>] = << >>
    BY <1>4 DEF Untold
  <2>1. CASE d = c
    BY <1>2, <1>3, <1>5, <2>1 DEF SInv, Untold
  <2>2. CASE d # c
    BY <1>4, <2>2 DEF SInv, Untold
  <2> QED
    BY <2>1, <2>2
<1> QED
  BY <1>6, <1>10, <1>11, <1>12, <1>13, <1>14, <1>15 DEF SInv

\* wait reads the result of the object's own call.
LEMMA WaitTestInv ==
  ASSUME SInv, NEW c \in Clients, WaitTest(c), Types'
  PROVE  SInv'
<1>1. PICK id, k : id = acmd[c] /\ k = This(c)
  OBVIOUS
<1>2. Types /\ Held(c) /\ pc[c] = "test"
  BY DEF SInv, WaitTest
<1>3. /\ id \in Ids /\ call[c] \in 1 .. Calls /\ command_map[id] # None
      /\ command_map[id].call = k /\ ~command_map[id].callback
      /\ out[k] = << >> /\ k = <<c, call[c]>>
  BY <1>1, <1>2 DEF Held, This
<1>4. \A i \in Ids :
        /\ command_map[i] = None <=> command_map'[i] = None
        /\ command_map[i] # None =>
             /\ command_map'[i].call = command_map[i].call
             /\ command_map'[i].callback = command_map[i].callback
             /\ command_map'[i].completed = command_map[i].completed
             /\ command_map'[i].result = command_map[i].result
  <2>1. command_map' = [command_map EXCEPT ![id].mutex = None]
    BY <1>1 DEF WaitTest
  <2>2. command_map[id] \in Object /\ command_map'[id] # None
    <3>1. command_map[id] \in Object
      BY <1>2, <1>3 DEF Types
    <3>2. [command_map[id] EXCEPT !.mutex = None] \in Object
      BY <3>1, NoneAssumption DEF Object
    <3> QED
      BY <1>2, <1>3, <2>1, <3>1, <3>2, NoneAssumption DEF Types
  <2>3. ASSUME NEW i \in Ids, i # id PROVE command_map'[i] = command_map[i]
    BY <1>2, <2>1, <2>3 DEF Types
  <2>4. command_map'[id] = [command_map[id] EXCEPT !.mutex = None]
    BY <1>2, <1>3, <2>1 DEF Types
  <2> QED
    BY <1>3, <2>2, <2>3, <2>4 DEF Object
<1>5. /\ UNCHANGED <<command_mutex, acmd, call, recv_pc, cqe, release_cmd,
                     pending, cqes>>
      /\ \A d \in Clients : d # c => pc'[d] = pc[d]
  BY <1>2 DEF WaitTest, Goto, recvVars, devVars, Types
<1>6. \/ ~command_map[id].completed /\ pc'[c] = "asleep" /\ UNCHANGED out
      \/ /\ command_map[id].completed /\ pc'[c] = "remove"
         /\ out' = [out EXCEPT ![k] = Append(@, command_map[id].result)]
  BY <1>1, <1>2 DEF WaitTest, Goto, Types
<1>7. Handled'
  <2>1. recv_pc # "idle" => cqe.id \in Ids
    BY <1>2, AnswerTypes
  <2> QED
    BY <1>2, <1>4, <1>5, <1>6, <2>1 DEF SInv, Handled
<1>8. CASE UNCHANGED out
  <2>1. pc'[c] = "asleep"
    <3>1. CASE out' = [out EXCEPT ![k] = Append(@, command_map[id].result)]
      <4>1. k \in AllCalls /\ out'[k] = << >>
        BY <1>3, <1>8 DEF AllCalls
      <4>2. out'[k] = <<command_map[id].result>>
        BY <1>2, <1>3, <3>1, <4>1 DEF Types
      <4>3. << >> # <<command_map[id].result>>
        OBVIOUS
      <4> QED
        BY <4>1, <4>2, <4>3
    <3> QED
      BY <1>6, <3>1
  <2>2. recv_pc' = recv_pc /\ UNCHANGED <<acmd, call, cqe, pending, cqes, out>>
    BY <1>5, <1>8
  <2>3. \A d \in Clients :
          pc'[d] = pc[d] \/ (/\ pc[d] \in {"lock", "test", "asleep"}
                             /\ pc'[d] \in {"lock", "test", "asleep"})
    BY <1>2, <1>5, <2>1
  <2> QED
    BY <1>4, <1>7, <2>2, <2>3, MutexInv
<1>9. CASE /\ command_map[id].completed /\ pc'[c] = "remove"
           /\ out' = [out EXCEPT ![k] = Append(@, command_map[id].result)]
  <2>1. command_map[id].result = k
    BY <1>3, <1>9 DEF SInv, Owned
  <2>2. /\ k \in AllCalls /\ out'[k] = <<k>>
        /\ \A l \in AllCalls : l # k => out'[l] = out[l]
    <3>1. k \in AllCalls
      BY <1>3 DEF AllCalls
    <3>2. out' = [out EXCEPT ![k] = Append(<< >>, k)]
      BY <1>3, <1>9, <2>1
    <3> QED
      BY <1>2, <3>1, <3>2 DEF Types
  <2>3. ASSUME NEW d \in Clients PROVE Held(d)'
    <3>1. CASE d = c
      BY <1>1, <1>3, <1>4, <1>5, <1>9, <3>1 DEF Held, This
    <3>2. CASE d # c
      <4>1. pc[d] # "ready" => This(d) \in AllCalls /\ This(d) # k
        BY <1>3, <3>2 DEF SInv, Held, This, AllCalls
      <4>2. Held(d)
        BY DEF SInv
      <4> QED
        BY <1>4, <1>5, <2>2, <3>2, <4>1, <4>2 DEF Held, This
    <3> QED
      BY <3>1, <3>2
  <2>4. ASSUME NEW i \in Ids, NEW l \in AllCalls, Expected(i, l) PROVE Expected(i, l)'
    <3>1. i # id
      BY <1>9, <2>4 DEF Expected
    <3>2. l # k
      BY <1>3, <2>4, <3>1 DEF Expected, SInv, OwnObject
    <3>3. l \in AllCalls
      BY <1>2, <2>4 DEF Expected, Types, Object
    <3>4. \A d \in Clients : pc'[d] = "submit" => pc[d] = "submit"
      BY <1>5, <1>9
    <3> QED
      BY <1>4, <1>5, <2>2, <2>4, <3>2, <3>3, <3>4 DEF Expected
  <2>5. Answers'
    <3>1. /\ recv_pc' = recv_pc /\ cqe' = cqe /\ pending' = pending
          /\ cqes' = cqes
      BY <1>5
    <3> QED
      BY <1>2, <2>4, <3>1, AnswersKept DEF SInv
  <2>6. OneAnswer'
    BY <1>5 DEF SInv, OneAnswer
  <2>7. ASSUME NEW i \in Ids PROVE Owned(i)'
    <3>1. Owned(i) /\ Coming(i)' = Coming(i)
      BY <1>5 DEF SInv, Coming
    <3>2. ASSUME command_map[i] # None PROVE command_map[i].call[1] \in Clients
      BY <1>2, <3>2 DEF Types, Object, AllCalls
    <3>3. \A d \in Clients : pc[d] # "ready" => pc'[d] # "ready"
      BY <1>5, <1>9
    <3> QED
      BY <1>4, <1>5, <3>1, <3>2, <3>3 DEF Owned
  <2>8. OwnObject'
    BY <1>4 DEF SInv, OwnObject
  <2>9. Untold'
    <3> SUFFICES ASSUME NEW d \in Clients, NEW n \in 1 .. Calls,
                        n > call[d] \/ (n = call[d] /\ pc'[d] = "ready")
                 PROVE  out'[<<d, n>>] = << >>
      BY <1>5 DEF Untold
    <3>1. out[<<d, n>>] = << >> /\ <<d, n>> # k
      BY <1>3, <1>5, <1>9 DEF SInv, Untold
    <3> QED
      BY <2>2, <3>1 DEF AllCalls
  <2>10. OwnResult'
    BY <2>2 DEF SInv, OwnResult
  <2> QED
    BY <1>7, <2>3, <2>5, <2>6, <2>7, <2>8, <2>9, <2>10 DEF SInv
<1> QED
  BY <1>6, <1>8, <1>9

\* The end of wait: the object goes, and nothing was still meant for it.
LEMMA RemoveInv ==
  ASSUME SInv, NEW c \in Clients, RemoveWaited(c), Types'
  PROVE  SInv'
<1>1. PICK id : id = acmd[c]
  OBVIOUS
<1>2. Types /\ Held(c) /\ pc[c] = "remove" /\ command_mutex = None
  BY DEF SInv, RemoveWaited
<1>3. /\ id \in Ids /\ call[c] \in 1 .. Calls /\ command_map[id] # None
      /\ command_map[id].completed /\ ~command_map[id].callback
  BY <1>1, <1>2 DEF Held
<1>4. /\ command_map'[id] = None
      /\ \A i \in Ids : i # id => command_map'[i] = command_map[i]
      /\ pc'[c] = "ready" /\ call'[c] = call[c] + 1
      /\ \A d \in Clients : d # c => /\ pc'[d] = pc[d] /\ acmd'[d] = acmd[d]
                                     /\ call'[d] = call[d]
      /\ UNCHANGED <<command_mutex, recv_pc, cqe, release_cmd, pending, cqes,
                     out>>
  BY <1>1, <1>2, <1>3
  DEF RemoveWaited, Return, Goto, recvVars, devVars, Types
<1>5. ASSUME NEW d \in Clients, d # c, pc[d] # "ready" PROVE acmd[d] # id
  BY <1>1, <1>2, <1>5, HoldersDiffer
<1>6. ASSUME NEW d \in Clients PROVE Held(d)'
  <2>1. CASE d = c
    BY <1>4, <2>1 DEF Held
  <2>2. CASE d # c
    <3>1. Held(d) /\ (pc[d] # "ready" => acmd[d] \in Ids /\ acmd[d] # id)
      BY <1>5, <2>2 DEF SInv, Held
    <3> QED
      BY <1>4, <2>2, <3>1 DEF Held, This
  <2> QED
    BY <2>1, <2>2
<1>7. ASSUME NEW i \in Ids, NEW k \in AllCalls, Expected(i, k) PROVE Expected(i, k)'
  <2>1. i # id
    BY <1>3, <1>7 DEF Expected
  <2>2. \A d \in Clients : pc'[d] = "submit" => d # c
    BY <1>4
  <2> QED
    BY <1>4, <1>7, <2>1, <2>2 DEF Expected
<1>8. Answers'
  <2>1. /\ recv_pc' = recv_pc /\ cqe' = cqe /\ pending' = pending
        /\ cqes' = cqes
    BY <1>4
  <2> QED
    BY <1>2, <1>7, <2>1, AnswersKept DEF SInv
<1>9. OneAnswer'
  BY <1>4 DEF SInv, OneAnswer
<1>10. Handled'
  <2>1. recv_pc # "idle" => cqe.id \in Ids /\ cqe.id # id
    <3>1. recv_pc # "idle" => cqe.id \in Ids
      BY <1>2, AnswerTypes
    <3>2. recv_pc = "find" => cqe.id # id
      BY <1>3 DEF SInv, Answers, Expected
    <3>3. recv_pc \notin {"lock", "complete", "unlock", "leave"}
      BY <1>2, NoneAssumption DEF SInv, Handled
    <3>4. recv_pc = "release" => cqe.id # id
      BY <1>3 DEF SInv, Handled
    <3> QED
      BY <1>2, <3>1, <3>2, <3>3, <3>4 DEF Types
  <2>2. \A d \in Clients : pc'[d] = "submit" => pc[d] = "submit" /\ acmd'[d] = acmd[d]
    BY <1>4
  <2> QED
    BY <1>4, <2>1, <2>2 DEF SInv, Handled
<1>11. ASSUME NEW i \in Ids PROVE Owned(i)'
  <2>1. CASE i = id
    BY <1>4, <2>1 DEF Owned
  <2>2. CASE i # id
    <3>1. Coming(i) => Coming(i)'
      BY <1>4 DEF Coming
    <3>2. acmd[c] # i
      BY <1>1, <2>2
    <3> QED
      BY <1>2, <1>4, <2>2, <3>1, <3>2, OwnedKept DEF SInv
  <2> QED
    BY <2>1, <2>2
<1>12. OwnObject' /\ OwnResult'
  BY <1>4 DEF SInv, OwnObject, OwnResult
<1>13. Untold'
  <2> SUFFICES ASSUME NEW d \in Clients, NEW n \in 1 .. Calls,
                      n > call'[d] \/ (n = call'[d] /\ pc'[d] = "ready")
               PROVE  out[<<d, n>>] = << >>
    BY <1>4 DEF Untold
  <2>1. CASE d = c
    BY <1>2, <1>3, <1>4, <2>1 DEF SInv, Untold
  <2>2. CASE d # c
    BY <1>4, <2>2 DEF SInv, Untold
  <2> QED
    BY <2>1, <2>2
<1> QED
  BY <1>6, <1>8, <1>9, <1>10, <1>11, <1>12, <1>13 DEF SInv

-----------------------------------------------------------------------------
(* The device, and the receive thread's way to the object. *)

\* An answer moves from the device to the receive thread's queue.
LEMMA DevCompleteInv ==
  ASSUME SInv, NEW p \in pending, DevComplete(p), Types'
  PROVE  SInv'
<1>1. PICK a : a = [id |-> p.id, result |-> p.call]
  OBVIOUS
<1>2. /\ Types /\ a.id = p.id /\ a.result = p.call
      /\ a.id \in Ids /\ a.result \in AllCalls /\ a \in Cqe
  BY <1>1, AnswerTypes DEF SInv, Cqe
<1>3. /\ pending' = pending \ {p} /\ cqes' = Append(cqes, a)
      /\ UNCHANGED <<command_mutex, command_map, pc, acmd, call, recv_pc, cqe,
                     release_cmd, out>>
  BY <1>1 DEF DevComplete, clientVars, recvVars
<1>4. /\ Len(cqes) \in Nat /\ Len(cqes') = Len(cqes) + 1 /\ cqes'[Len(cqes) + 1] = a
      /\ \A n \in 1 .. Len(cqes) : cqes'[n] = cqes[n]
  BY <1>2, <1>3, AppendProperties, LenProperties DEF Types
<1>5. ASSUME NEW n \in 1 .. Len(cqes')
      PROVE  (n \in 1 .. Len(cqes) /\ cqes'[n] = cqes[n])
             \/ (n = Len(cqes) + 1 /\ cqes'[n] = a)
  BY <1>4
<1>6. ASSUME NEW i \in Ids, NEW k \in AllCalls, Expected(i, k)
      PROVE  Expected(i, k)'
  BY <1>3, <1>6 DEF Expected
<1>7. Answers'
  <2>1. ASSUME NEW q \in pending' PROVE Expected(q.id, q.call)'
    BY <1>2, <1>3, <1>6, AnswerTypes DEF SInv, Answers
  <2>2. ASSUME NEW n \in 1 .. Len(cqes')
        PROVE  Expected(cqes[n].id, cqes[n].result)'
    <3>1. CASE n \in 1 .. Len(cqes) /\ cqes'[n] = cqes[n]
      <4>1. /\ Expected(cqes[n].id, cqes[n].result)
            /\ cqes[n].id \in Ids /\ cqes[n].result \in AllCalls
        BY <1>2, <3>1, AnswerTypes DEF SInv, Answers
      <4> QED
        BY <1>6, <3>1, <4>1
    <3>2. CASE cqes'[n] = a
      <4>1. Expected(a.id, a.result)
        BY <1>2 DEF SInv, Answers
      <4> QED
        BY <1>2, <1>6, <3>2, <4>1
    <3> QED
      BY <1>5, <3>1, <3>2
  <2>3. recv_pc \in {"find", "lock", "complete"}
          => Expected(cqe.id, cqe.result)'
    BY <1>2, <1>3, <1>6, AnswerTypes DEF SInv, Answers
  <2> QED
    BY <1>3, <2>1, <2>2, <2>3 DEF Answers
<1>8. ASSUME NEW q \in pending', q.id = p.id PROVE FALSE
  <2>1. q \in Answer /\ p \in Answer /\ q # p
    BY <1>2, <1>3 DEF Types
  <2>2. Expected(q.id, q.call) /\ Expected(p.id, p.call)
    BY <1>3 DEF SInv, Answers
  <2>3. q.call = p.call
    BY <1>8, <2>2 DEF Expected
  <2> QED
    BY <1>8, <2>1, <2>3 DEF Answer
<1>9. OneAnswer'
  <2>1. \A q \in pending' : \A n \in 1 .. Len(cqes') : q.id # cqes'[n].id
    BY <1>2, <1>3, <1>5, <1>8 DEF SInv, OneAnswer
  <2>2. \A n \in 1 .. Len(cqes) : cqes[n].id # a.id
    BY <1>2 DEF SInv, OneAnswer
  <2>3. \A m, n \in 1 .. Len(cqes') : cqes'[m].id = cqes'[n].id => m = n
    BY <1>5, <2>2 DEF SInv, OneAnswer
  <2>4. recv_pc # "idle" => /\ \A q \in pending' : q.id # cqe.id
                            /\ \A n \in 1 .. Len(cqes') : cqes'[n].id # cqe.id
    BY <1>2, <1>3, <1>5 DEF SInv, OneAnswer
  <2> QED
    BY <1>3, <2>1, <2>3, <2>4 DEF OneAnswer
<1>10. ASSUME NEW i \in Ids PROVE Owned(i)'
  <2>1. Coming(i) => Coming(i)'
    <3>1. CASE \E q \in pending : q.id = i
      <4>1. CASE p.id = i
        <5>1. Len(cqes) + 1 \in 1 .. Len(cqes')
          BY <1>4
        <5> QED
          BY <1>2, <1>4, <4>1, <5>1 DEF Coming
      <4>2. CASE p.id # i
        BY <1>3, <3>1, <4>2 DEF Coming
      <4> QED
        BY <4>1, <4>2
    <3>2. CASE \E n \in 1 .. Len(cqes) : cqes[n].id = i
      <4>1. PICK n \in 1 .. Len(cqes) : cqes[n].id = i
        BY <3>2
      <4>2. n \in 1 .. Len(cqes') /\ cqes'[n].id = i
        BY <1>4, <4>1
      <4> QED
        BY <4>2 DEF Coming
    <3> QED
      BY <1>3, <3>1, <3>2 DEF Coming
  <2>2. Owned(i)
    BY DEF SInv
  <2> QED
    BY <1>3, <2>1, <2>2 DEF Owned
<1>11. (\A d \in Clients : Held(d)') /\ Handled' /\ OwnObject' /\ Untold' /\ OwnResult'
  BY <1>3 DEF SInv, Held, This, Handled, OwnObject, Untold, OwnResult
<1> QED
  BY <1>7, <1>9, <1>10, <1>11 DEF SInv

\* The answer that is read is the first of the queue.
LEMMA ReadInv ==
  ASSUME SInv, ReadCqe, Types'
  PROVE  SInv'
<1>1. PICK a : a = cqes[1]
  OBVIOUS
<1>2. /\ Types /\ recv_pc = "idle" /\ Len(cqes) \in Nat /\ 1 \in 1 .. Len(cqes)
      /\ a \in Cqe /\ a.id \in Ids /\ a.result \in AllCalls
  <2>1. Types /\ recv_pc = "idle" /\ cqes \in Seq(Cqe) /\ cqes # << >>
    BY DEF SInv, Types, ReadCqe
  <2>2. Len(cqes) \in Nat /\ 1 \in 1 .. Len(cqes)
    BY <2>1, EmptySeq, LenProperties
  <2> QED
    BY <1>1, <2>1, <2>2, AnswerTypes
<1>3. /\ recv_pc' = "find" /\ cqe' = a /\ cqes' = Tail(cqes)
      /\ UNCHANGED <<command_mutex, command_map, pc, acmd, call, pending,
                     release_cmd, out>>
  BY <1>1, <1>2, HeadTailProperties DEF ReadCqe, clientVars, Types
<1>4. /\ Len(cqes') = Len(cqes) - 1
      /\ \A n \in 1 .. Len(cqes') : n + 1 \in 1 .. Len(cqes) /\ cqes'[n] = cqes[n + 1]
  <2>1. cqes \in Seq(Cqe) /\ cqes # << >>
    BY <1>2 DEF Types, ReadCqe
  <2> QED
    BY <1>2, <1>3, <2>1, HeadTailProperties
<1>5. ASSUME NEW i \in Ids, NEW k \in AllCalls, Expected(i, k)
      PROVE  Expected(i, k)'
  BY <1>3, <1>5 DEF Expected
<1>6. Expected(a.id, a.result)
  BY <1>1, <1>2 DEF SInv, Answers
<1>7. Answers'
  <2>1. ASSUME NEW q \in pending PROVE Expected(q.id, q.call)'
    BY <1>2, <1>3, <1>5, AnswerTypes DEF SInv, Answers
  <2>2. ASSUME NEW n \in 1 .. Len(cqes')
        PROVE  Expected(cqes[n].id, cqes[n].result)'
    <3>1. PICK b : b = cqes'[n]
      OBVIOUS
    <3>2. b = cqes[n + 1] /\ n + 1 \in 1 .. Len(cqes)
      BY <1>4, <3>1
    <3>3. Expected(b.id, b.result) /\ b.id \in Ids /\ b.result \in AllCalls
      BY <1>2, <3>2, AnswerTypes DEF SInv, Answers
    <3> QED
      BY <1>5, <3>1, <3>3
  <2>3. Expected(cqe.id, cqe.result)'
    BY <1>2, <1>3, <1>5, <1>6
  <2> QED
    BY <1>3, <2>1, <2>2, <2>3 DEF Answers
<1>8. OneAnswer'
  <2>1. \A q \in pending : \A n \in 1 .. Len(cqes') : q.id # cqes'[n].id
    BY <1>4 DEF SInv, OneAnswer
  <2>2. \A m, n \in 1 .. Len(cqes') : cqes'[m].id = cqes'[n].id => m = n
    <3> SUFFICES ASSUME NEW m \in 1 .. Len(cqes'), NEW n \in 1 .. Len(cqes'),
                        cqes'[m].id = cqes'[n].id
                 PROVE  m = n
      OBVIOUS
    <3>1. m + 1 = n + 1
      BY <1>4 DEF SInv, OneAnswer
    <3> QED
      BY <3>1
  <2>3. \A q \in pending : q.id # a.id
    BY <1>1, <1>2 DEF SInv, OneAnswer
  <2>4. ASSUME NEW n \in 1 .. Len(cqes') PROVE cqes'[n].id # a.id
    <3>1. n + 1 # 1 /\ n + 1 \in 1 .. Len(cqes) /\ cqes'[n] = cqes[n + 1]
      BY <1>4
    <3> QED
      BY <1>1, <1>2, <3>1 DEF SInv, OneAnswer
  <2> QED
    BY <1>3, <2>1, <2>2, <2>3, <2>4 DEF OneAnswer
<1>9. Handled'
  BY <1>2, <1>3, <1>6 DEF SInv, Handled, Expected
<1>10. ASSUME NEW i \in Ids PROVE Owned(i)'
  <2>1. Coming(i) => Coming(i)'
    <3>1. ASSUME NEW n \in 1 .. Len(cqes), cqes[n].id = i PROVE Coming(i)'
      <4>1. CASE n = 1
        BY <1>1, <1>3, <3>1, <4>1 DEF Coming
      <4>2. CASE n # 1
        <5>1. n - 1 \in 1 .. Len(cqes') /\ (n - 1) + 1 = n
          BY <1>2, <1>4, <4>2
        <5>2. cqes'[n - 1].id = i
          BY <1>4, <3>1, <5>1
        <5> QED
          BY <5>1, <5>2 DEF Coming
      <4> QED
        BY <4>1, <4>2
    <3> QED
      BY <1>2, <1>3, <3>1 DEF Coming
  <2>2. Owned(i)
    BY DEF SInv
  <2> QED
    BY <1>3, <2>1, <2>2 DEF Owned
<1>11. (\A d \in Clients : Held(d)') /\ OwnObject' /\ Untold' /\ OwnResult'
  BY <1>3 DEF SInv, Held, This, OwnObject, Untold, OwnResult
<1> QED
  BY <1>7, <1>8, <1>9, <1>10, <1>11 DEF SInv

\* The receive thread finds the object, takes the mutexes and gives them up.
LEMMA LockingInv ==
  ASSUME SInv, FindCommand \/ LockCommand \/ UnlockCommand
               \/ (LeaveTable /\ release_cmd), Types'
  PROVE  SInv'
<1>1. PICK id : id = cqe.id
  OBVIOUS
<1>2. Types /\ recv_pc # "idle" /\ id \in Ids /\ command_map[id] # None
  BY <1>1, AnswerTypes
  DEF SInv, Handled, FindCommand, LockCommand, UnlockCommand, LeaveTable
<1>3. /\ UNCHANGED <<pc, acmd, call, cqe, release_cmd, pending, cqes, out>>
      /\ \/ recv_pc = "find" /\ recv_pc' = "lock" /\ command_mutex' = Recv
         \/ /\ recv_pc = "lock" /\ recv_pc' = "complete"
            /\ UNCHANGED command_mutex
         \/ /\ recv_pc = "unlock" /\ recv_pc' = "leave"
            /\ UNCHANGED command_mutex
         \/ /\ recv_pc = "leave" /\ recv_pc' = "release"
            /\ command_mutex' = None /\ release_cmd
  BY <1>1, <1>2
  DEF FindCommand, LockCommand, UnlockCommand, LeaveTable, clientVars, devVars
<1>4. UNCHANGED command_map
      \/ \E h \in {Recv, None} : command_map' = [command_map EXCEPT ![id].mutex = h]
  BY <1>1 DEF FindCommand, LockCommand, UnlockCommand, LeaveTable
<1>5. \A i \in Ids :
        /\ command_map[i] = None <=> command_map'[i] = None
        /\ command_map[i] # None =>
             /\ command_map'[i].call = command_map[i].call
             /\ command_map'[i].callback = command_map[i].callback
             /\ command_map'[i].completed = command_map[i].completed
             /\ command_map'[i].result = command_map[i].result
  <2>1. CASE UNCHANGED command_map
    BY <2>1
  <2>2. CASE \E h \in {Recv, None} :
               command_map' = [command_map EXCEPT ![id].mutex = h]
    <3>1. PICK h \in {Recv, None} :
            command_map' = [command_map EXCEPT ![id].mutex = h]
      BY <2>2
    <3>2. command_map[id] \in Object
      BY <1>2 DEF Types
    <3>3. [command_map[id] EXCEPT !.mutex = h] \in Object
      BY <3>2 DEF Object
    <3>4. command_map'[id] = [command_map[id] EXCEPT !.mutex = h]
      BY <1>2, <3>1 DEF Types
    <3>5. \A i \in Ids : i # id => command_map'[i] = command_map[i]
      BY <1>2, <3>1 DEF Types
    <3>6. command_map'[id] # None
      BY <3>3, <3>4, NoneAssumption
    <3> QED
      BY <1>2, <3>2, <3>4, <3>5, <3>6 DEF Object
  <2> QED
    BY <1>4, <2>1, <2>2
<1>6. Handled'
  BY <1>1, <1>2, <1>3, <1>5, NoneAssumption DEF SInv, Handled
<1>7. /\ recv_pc' \in {"find", "lock", "complete"}
           => recv_pc \in {"find", "lock", "complete"}
      /\ recv_pc' = "idle" <=> recv_pc = "idle"
      /\ UNCHANGED <<acmd, call, cqe, pending, cqes, out>>
      /\ \A d \in Clients : pc'[d] = pc[d]
  BY <1>3
<1> QED
  BY <1>5, <1>6, <1>7, MutexInv

\* The entry of a command that is waited for is done with: nothing is left to
\* come for its object, which its client has yet to remove.
LEMMA LeaveInv ==
  ASSUME SInv, LeaveTable, ~release_cmd, Types'
  PROVE  SInv'
<1>1. PICK id : id = cqe.id
  OBVIOUS
<1>2. Types /\ recv_pc = "leave" /\ id \in Ids /\ command_map[id] # None
      /\ ~command_map[id].callback
  BY <1>1, AnswerTypes DEF SInv, Handled, LeaveTable
<1>3. /\ recv_pc' = "idle" /\ ~release_cmd' /\ command_mutex' = None
      /\ UNCHANGED <<command_map, pc, acmd, call, pending, cqes, out>>
  BY DEF LeaveTable, HandleCqeReturns, clientVars, devVars
<1>4. ASSUME NEW i \in Ids, NEW k \in AllCalls, Expected(i, k)
      PROVE  Expected(i, k)'
  BY <1>3, <1>4 DEF Expected
<1>5. Answers'
  <2>1. \A p \in pending : Expected(p.id, p.call)'
    BY <1>2, <1>3, <1>4, AnswerTypes DEF SInv, Answers
  <2>2. \A n \in 1 .. Len(cqes) : Expected(cqes[n].id, cqes[n].result)'
    BY <1>2, <1>3, <1>4, AnswerTypes DEF SInv, Answers
  <2> QED
    BY <1>3, <2>1, <2>2 DEF Answers
<1>6. ASSUME NEW i \in Ids PROVE Owned(i)'
  <2>1. i # id => (Coming(i) => Coming(i)')
    BY <1>1, <1>3 DEF Coming
  <2>2. Owned(i)
    BY DEF SInv
  <2> QED
    BY <1>2, <1>3, <2>1, <2>2 DEF Owned
<1>7. OneAnswer' /\ Handled'
  BY <1>3, NoneAssumption DEF SInv, OneAnswer, Handled
<1>8. (\A d \in Clients : Held(d)') /\ OwnObject' /\ Untold' /\ OwnResult'
  BY <1>3 DEF SInv, Held, This, OwnObject, Untold, OwnResult
<1> QED
  BY <1>5, <1>6, <1>7, <1>8 DEF SInv

\* The callback is given the answer to its own command, for the first time.
LEMMA CallbackInv ==
  ASSUME SInv, CallCallback, Types'
  PROVE  SInv'
<1>1. PICK id, k : id = cqe.id /\ k = cqe.result
  OBVIOUS
<1>2. Types /\ recv_pc = "complete" /\ id \in Ids /\ k \in AllCalls
      /\ command_map[id].callback /\ Expected(id, k)
  BY <1>1, AnswerTypes DEF SInv, Answers, CallCallback
<1>3. /\ command_map[id] # None /\ command_map[id].call = k /\ out[k] = << >>
      /\ \A d \in Clients : pc[d] = "submit" => acmd[d] # id
  BY <1>2 DEF Expected
<1>4. /\ recv_pc' = "unlock" /\ release_cmd'
      /\ UNCHANGED <<command_mutex, command_map, pc, acmd, call, cqe, pending,
                     cqes>>
      /\ out'[k] = <<k>> /\ \A l \in AllCalls : l # k => out'[l] = out[l]
  <2>1. out' = [out EXCEPT ![k] = Append(<< >>, k)]
    BY <1>1, <1>3 DEF CallCallback
  <2>2. out'[k] = <<k>> /\ \A l \in AllCalls : l # k => out'[l] = out[l]
    BY <1>2, <2>1 DEF Types
  <2> QED
    BY <2>2 DEF CallCallback, clientVars, devVars
<1>5. ASSUME NEW d \in Clients PROVE Held(d)'
  <2>1. ASSUME pc[d] # "ready" PROVE This(d) \in AllCalls /\ This(d) # k
    <3>1. /\ acmd[d] \in Ids /\ command_map[acmd[d]] # None
          /\ command_map[acmd[d]].call = This(d) /\ This(d) \in AllCalls
          /\ pc[d] # "submit" => ~command_map[acmd[d]].callback
      BY <2>1 DEF SInv, Held, This, AllCalls
    <3>2. acmd[d] # id
      BY <1>2, <1>3, <3>1
    <3> QED
      BY <1>2, <1>3, <3>1, <3>2 DEF SInv, OwnObject
  <2>2. Held(d)
    BY DEF SInv
  <2> QED
    BY <1>4, <2>1, <2>2 DEF Held, This
<1>6. ASSUME NEW i \in Ids, NEW l \in AllCalls, Expected(i, l), i # id
      PROVE  Expected(i, l)'
  <2>1. l # k
    BY <1>2, <1>3, <1>6 DEF Expected, SInv, OwnObject
  <2> QED
    BY <1>4, <1>6, <2>1 DEF Expected
<1>7. Answers'
  <2>1. ASSUME NEW p \in pending PROVE Expected(p.id, p.call)'
    <3>1. p.id # id /\ p.id \in Ids /\ p.call \in AllCalls /\ Expected(p.id, p.call)
      BY <1>1, <1>2, AnswerTypes DEF SInv, OneAnswer, Answers
    <3> QED
      BY <1>6, <3>1
  <2>2. ASSUME NEW n \in 1 .. Len(cqes)
        PROVE  Expected(cqes[n].id, cqes[n].result)'
    <3>1. /\ cqes[n].id # id /\ cqes[n].id \in Ids /\ cqes[n].result \in AllCalls
          /\ Expected(cqes[n].id, cqes[n].result)
      BY <1>1, <1>2, AnswerTypes DEF SInv, OneAnswer, Answers
    <3> QED
      BY <1>4, <1>6, <3>1
  <2> QED
    BY <1>4, <2>1, <2>2 DEF Answers
<1>8. OneAnswer' /\ Handled' /\ OwnObject'
  BY <1>1, <1>2, <1>4 DEF SInv, OneAnswer, Handled, OwnObject
<1>9. ASSUME NEW i \in Ids PROVE Owned(i)'
  <2>1. Owned(i) /\ Coming(i)' = Coming(i)
    BY <1>2, <1>4 DEF SInv, Coming
  <2> QED
    BY <1>4, <2>1 DEF Owned
<1>10. Untold'
  <2> SUFFICES ASSUME NEW d \in Clients, NEW n \in 1 .. Calls,
                      n > call[d] \/ (n = call[d] /\ pc[d] = "ready")
               PROVE  out'[<<d, n>>] = << >>
    BY <1>4 DEF Untold
  <2>1. out[<<d, n>>] = << >> /\ <<d, n>> \in AllCalls /\ call[d] \in Nat
    BY <1>2 DEF SInv, Untold, AllCalls, Types
  <2>2. <<d, n>> # k
    BY <1>2, <1>3, <2>1 DEF SInv, Owned
  <2> QED
    BY <1>4, <2>1, <2>2
<1>11. OwnResult'
  BY <1>4 DEF SInv, OwnResult
<1> QED
  BY <1>5, <1>7, <1>8, <1>9, <1>10, <1>11 DEF SInv

\* The answer is left in the object of a client that waits.
LEMMA WakeInv ==
  ASSUME SInv, WakeWaiter, Types'
  PROVE  SInv'
<1>1. PICK id, k : id = cqe.id /\ k = cqe.result
  OBVIOUS
<1>2. Types /\ recv_pc = "complete" /\ id \in Ids /\ k \in AllCalls
      /\ ~command_map[id].callback /\ Expected(id, k)
  BY <1>1, AnswerTypes DEF SInv, Answers, WakeWaiter
<1>3. /\ command_map[id] # None /\ command_map[id].call = k /\ out[k] = << >>
      /\ \A d \in Clients : pc[d] = "submit" => acmd[d] # id
      /\ command_map[id] \in Object
  BY <1>2 DEF Expected, Types
<1>4. /\ command_map'[id] # None
      /\ command_map'[id].call = k /\ ~command_map'[id].callback
      /\ command_map'[id].completed /\ command_map'[id].result = k
      /\ \A i \in Ids : i # id => command_map'[i] = command_map[i]
  <2> DEFINE o == [command_map[id] EXCEPT !.result = k, !.completed = TRUE]
  <2>1. o \in Object /\ o.call = k /\ ~o.callback /\ o.completed /\ o.result = k
    BY <1>2, <1>3 DEF Object
  <2>2. command_map' = [command_map EXCEPT ![id] = o]
    BY <1>1, <1>2, <1>3 DEF WakeWaiter, Types
  <2> QED
    BY <1>2, <2>1, <2>2, NoneAssumption DEF Types
<1>5. /\ recv_pc' = "unlock"
      /\ \A d \in Clients : pc'[d] = pc[d] \/ (pc[d] = "asleep" /\ pc'[d] = "lock")
      /\ UNCHANGED <<command_mutex, acmd, call, cqe, release_cmd, pending, cqes,
                     out>>
  BY DEF WakeWaiter, Sleepers, devVars
<1>6. ASSUME NEW d \in Clients PROVE Held(d)'
  <2>1. Held(d) /\ (pc[d] = "submit" => acmd[d] # id)
    BY <1>3 DEF SInv
  <2>2. CASE acmd[d] = id
    BY <1>2, <1>3, <1>4, <1>5, <2>1, <2>2 DEF Held, This
  <2>3. CASE acmd[d] # id
    BY <1>4, <1>5, <2>1, <2>3 DEF Held, This
  <2> QED
    BY <2>2, <2>3
<1>7. ASSUME NEW i \in Ids, NEW l \in AllCalls, Expected(i, l), i # id
      PROVE  Expected(i, l)'
  BY <1>4, <1>5, <1>7 DEF Expected
<1>8. Answers'
  <2>1. ASSUME NEW p \in pending PROVE Expected(p.id, p.call)'
    <3>1. p.id # id /\ p.id \in Ids /\ p.call \in AllCalls /\ Expected(p.id, p.call)
      BY <1>1, <1>2, AnswerTypes DEF SInv, OneAnswer, Answers
    <3> QED
      BY <1>7, <3>1
  <2>2. ASSUME NEW n \in 1 .. Len(cqes)
        PROVE  Expected(cqes[n].id, cqes[n].result)'
    <3>1. /\ cqes[n].id # id /\ cqes[n].id \in Ids /\ cqes[n].result \in AllCalls
          /\ Expected(cqes[n].id, cqes[n].result)
      BY <1>1, <1>2, AnswerTypes DEF SInv, OneAnswer, Answers
    <3> QED
      BY <1>5, <1>7, <3>1
  <2> QED
    BY <1>5, <2>1, <2>2 DEF Answers
<1>9. OneAnswer' /\ Handled'
  BY <1>1, <1>2, <1>4, <1>5 DEF SInv, OneAnswer, Handled
<1>10. ASSUME NEW i \in Ids PROVE Owned(i)'
  <2>1. Owned(i) /\ (Coming(i) => Coming(i)')
    BY <1>2, <1>5 DEF SInv, Coming
  <2>2. \A d \in Clients : pc[d] # "ready" => pc'[d] # "ready"
    BY <1>5
  <2>3. command_map[i] # None => command_map[i].call[1] \in Clients
    BY <1>2 DEF Types, Object, AllCalls
  <2>4. CASE i = id
    <3>1. PICK d, n : d = k[1] /\ n = k[2]
      OBVIOUS
    <3>2. d \in Clients /\ acmd'[d] = acmd[d] /\ call'[d] = call[d]
          /\ (pc[d] # "ready" => pc'[d] # "ready")
      BY <1>2, <1>5, <2>2, <3>1 DEF AllCalls
    <3>3. /\ n <= call[d]
          /\ n = call[d] => pc[d] # "ready" /\ acmd[d] = i
          /\ ~(n < call[d])
      BY <1>2, <1>3, <2>1, <2>4, <3>1 DEF Owned
    <3> QED
      BY <1>4, <2>4, <3>1, <3>2, <3>3 DEF Owned
  <2>5. CASE i # id
    BY <1>4, <1>5, <2>1, <2>2, <2>3, <2>5 DEF Owned
  <2> QED
    BY <2>4, <2>5
<1>11. OwnObject'
  <2>1. \A i \in Ids : /\ command_map'[i] # None <=> command_map[i] # None
                       /\ command_map'[i].call = command_map[i].call
    BY <1>3, <1>4
  <2> QED
    BY <2>1 DEF SInv, OwnObject
<1>12. Untold' /\ OwnResult'
  BY <1>5 DEF SInv, Untold, OwnResult
<1> QED
  BY <1>6, <1>8, <1>9, <1>10, <1>11, <1>12 DEF SInv

\* The object of a callback goes when it has been called; no client has a
\* pointer to it.
LEMMA ReleaseInv ==
  ASSUME SInv, ReleaseCommand, Types'
  PROVE  SInv'
<1>1. PICK id : id = cqe.id
  OBVIOUS
<1>2. Types /\ recv_pc = "release" /\ id \in Ids /\ command_map[id] # None
      /\ command_map[id].callback /\ command_mutex = None
      /\ \A d \in Clients : pc[d] = "submit" => acmd[d] # id
  BY <1>1, AnswerTypes DEF SInv, Handled, ReleaseCommand
<1>3. /\ recv_pc' = "idle" /\ ~release_cmd' /\ command_map'[id] = None
      /\ \A i \in Ids : i # id => command_map'[i] = command_map[i]
      /\ UNCHANGED <<command_mutex, pc, acmd, call, pending, cqes, out>>
  BY <1>1, <1>2 DEF ReleaseCommand, HandleCqeReturns, clientVars, devVars, Types
<1>4. ASSUME NEW i \in Ids, NEW k \in AllCalls, Expected(i, k), i # id
      PROVE  Expected(i, k)'
  BY <1>3, <1>4 DEF Expected
<1>5. Answers'
  <2>1. ASSUME NEW p \in pending PROVE Expected(p.id, p.call)'
    <3>1. p.id # id /\ p.id \in Ids /\ p.call \in AllCalls /\ Expected(p.id, p.call)
      BY <1>1, <1>2, AnswerTypes DEF SInv, OneAnswer, Answers
    <3> QED
      BY <1>4, <3>1
  <2>2. ASSUME NEW n \in 1 .. Len(cqes)
        PROVE  Expected(cqes[n].id, cqes[n].result)'
    <3>1. /\ cqes[n].id # id /\ cqes[n].id \in Ids /\ cqes[n].result \in AllCalls
          /\ Expected(cqes[n].id, cqes[n].result)
      BY <1>1, <1>2, AnswerTypes DEF SInv, OneAnswer, Answers
    <3> QED
      BY <1>3, <1>4, <3>1
  <2> QED
    BY <1>3, <2>1, <2>2 DEF Answers
<1>6. ASSUME NEW d \in Clients PROVE Held(d)'
  <2>1. Held(d) /\ (pc[d] # "ready" => acmd[d] # id)
    BY <1>2 DEF SInv, Held
  <2> QED
    BY <1>3, <2>1 DEF Held, This
<1>7. ASSUME NEW i \in Ids PROVE Owned(i)'
  <2>1. i # id => (Coming(i) => Coming(i)')
    BY <1>1, <1>3 DEF Coming
  <2>2. Owned(i)
    BY DEF SInv
  <2> QED
    BY <1>3, <2>1, <2>2 DEF Owned
<1>8. OneAnswer' /\ Handled'
  BY <1>2, <1>3, NoneAssumption DEF SInv, OneAnswer, Handled
<1>9. OwnObject' /\ Untold' /\ OwnResult'
  BY <1>3 DEF SInv, OwnObject, Untold, OwnResult
<1> QED
  BY <1>5, <1>6, <1>7, <1>8, <1>9 DEF SInv

-----------------------------------------------------------------------------
(* The invariant, and what it gives. *)

LEMMA InitSInv == Init => SInv
<1> SUFFICES ASSUME Init PROVE SInv
  OBVIOUS
<1> USE SyncCommandAssumption, NoneAssumption DEF Init
<1>1. Types
  <2>1. cqes \in Seq(Cqe) /\ out \in [AllCalls -> Seq(AllCalls \cup {None})]
    OBVIOUS
  <2>2. command_map \in [Ids -> Object \cup {None}]
        /\ acmd \in [Clients -> Ids \cup {None}] /\ call \in [Clients -> Nat \ {0}]
    OBVIOUS
  <2>3. pc \in [Clients -> {"ready", "submit", "lock", "test", "asleep", "remove"}]
    OBVIOUS
  <2> QED
    BY <2>1, <2>2, <2>3 DEF Types
<1>2. (\A c \in Clients : Held(c)) /\ (\A i \in Ids : Owned(i)) /\ OwnObject
  BY DEF Held, Owned, OwnObject
<1>3. Answers /\ OneAnswer
  <2>1. 1 .. Len(cqes) = {}
    OBVIOUS
  <2> QED
    BY <2>1 DEF Answers, OneAnswer
<1>4. Handled
  BY DEF Handled
<1>5. Untold /\ OwnResult
  BY DEF Untold, OwnResult, AllCalls
<1> QED
  BY <1>1, <1>2, <1>3, <1>4, <1>5 DEF SInv

LEMMA SInvStep == SInv /\ FreshId /\ [Next]_vars => SInv'
<1> SUFFICES ASSUME SInv, FreshId, [Next]_vars PROVE SInv'
  OBVIOUS
<1>1. Types /\ Types'
  BY TypesStep DEF SInv
<1>2. ASSUME NEW c \in Clients, NEW callback \in BOOLEAN,
             SetupAsyncCommand(c, callback)
      PROVE  SInv'
  BY <1>1, <1>2, SetupInv
<1>3. ASSUME NEW c \in Clients, SubmitSqCommand(c) PROVE SInv'
  BY <1>1, <1>3, SubmitInv
<1>4. ASSUME NEW c \in Clients, WaitLock(c) PROVE SInv'
  <2>1. PICK id : id = acmd[c]
    OBVIOUS
  <2>2. id \in Ids /\ command_map[id] \in Object /\ pc[c] = "lock"
    BY <1>1, <1>4, <2>1 DEF SInv, Held, WaitLock, Types
  <2>3. \A i \in Ids :
          /\ command_map[i] = None <=> command_map'[i] = None
          /\ command_map[i] # None =>
               /\ command_map'[i].call = command_map[i].call
               /\ command_map'[i].callback = command_map[i].callback
               /\ command_map'[i].completed = command_map[i].completed
               /\ command_map'[i].result = command_map[i].result
    <3>1. command_map' = [command_map EXCEPT ![id].mutex = c]
      BY <1>4, <2>1 DEF WaitLock
    <3>2. [command_map[id] EXCEPT !.mutex = c] \in Object
      BY <2>2 DEF Object
    <3>3. \A i \in Ids : i # id => command_map'[i] = command_map[i]
      BY <1>1, <3>1 DEF Types
    <3>4. command_map'[id] = [command_map[id] EXCEPT !.mutex = c]
      BY <1>1, <2>2, <3>1 DEF Types
    <3> QED
      BY <2>2, <3>2, <3>3, <3>4, NoneAssumption DEF Object
  <2>4. /\ pc'[c] = "test" /\ \A d \in Clients : d # c => pc'[d] = pc[d]
        /\ UNCHANGED <<command_mutex, acmd, call, recv_pc, cqe, release_cmd,
                       pending, cqes, out>>
    BY <1>1, <1>4 DEF WaitLock, Goto, recvVars, devVars, Types
  <2>5. Handled'
    <3>1. recv_pc # "idle" => cqe.id \in Ids
      BY <1>1, AnswerTypes
    <3> QED
      BY <2>3, <2>4, <3>1 DEF SInv, Handled
  <2>6. \A d \in Clients :
          pc'[d] = pc[d] \/ (/\ pc[d] \in {"lock", "test", "asleep"}
                             /\ pc'[d] \in {"lock", "test", "asleep"})
    BY <2>2, <2>4
  <2>7. recv_pc' = recv_pc /\ UNCHANGED <<acmd, call, cqe, pending, cqes, out>>
    BY <2>4
  <2> QED
    BY <1>1, <2>3, <2>5, <2>6, <2>7, MutexInv
<1>5. ASSUME NEW c \in Clients, WaitTest(c) PROVE SInv'
  BY <1>1, <1>5, WaitTestInv
<1>6. ASSUME NEW c \in Clients, RemoveWaited(c) PROVE SInv'
  BY <1>1, <1>6, RemoveInv
<1>7. ASSUME NEW c \in Clients, SpuriousWakeup(c) PROVE SInv'
  <2>1. /\ pc[c] = "asleep" /\ pc'[c] = "lock"
        /\ \A d \in Clients : d # c => pc'[d] = pc[d]
        /\ UNCHANGED <<command_mutex, command_map, acmd, call, recv_pc, cqe,
                       release_cmd, pending, cqes, out>>
    BY <1>1, <1>7 DEF SpuriousWakeup, Goto, recvVars, devVars, Types
  <2>2. Handled'
    BY <2>1 DEF SInv, Handled
  <2>3. \A d \in Clients :
          pc'[d] = pc[d] \/ (/\ pc[d] \in {"lock", "test", "asleep"}
                             /\ pc'[d] \in {"lock", "test", "asleep"})
    BY <2>1
  <2>4. /\ recv_pc' = recv_pc /\ command_map' = command_map
        /\ UNCHANGED <<acmd, call, cqe, pending, cqes, out>>
    BY <2>1
  <2> QED
    BY <1>1, <2>2, <2>3, <2>4, MutexInv
<1>8. ASSUME NEW p \in pending, DevComplete(p) PROVE SInv'
  BY <1>1, <1>8, DevCompleteInv
<1>9. CASE ReadCqe
  BY <1>1, <1>9, ReadInv
<1>10. CASE FindCommand \/ LockCommand \/ UnlockCommand
            \/ (LeaveTable /\ release_cmd)
  BY <1>1, <1>10, LockingInv
<1>11. CASE LeaveTable /\ ~release_cmd
  BY <1>1, <1>11, LeaveInv
<1>12. CASE CallCallback
  BY <1>1, <1>12, CallbackInv
<1>13. CASE WakeWaiter
  BY <1>1, <1>13, WakeInv
<1>14. CASE ReleaseCommand
  BY <1>1, <1>14, ReleaseInv
<1>15. CASE UNCHANGED vars
  <2>1. UNCHANGED <<command_mutex, command_map, pc, acmd, call, recv_pc, cqe,
                    release_cmd, pending, cqes, out>>
    BY <1>15 DEF vars, clientVars, recvVars, devVars
  <2>2. (\A c \in Clients : Held(c)') /\ (\A i \in Ids : Owned(i)')
    BY <2>1 DEF SInv, Held, This, Owned, Coming
  <2>3. Answers' /\ OneAnswer' /\ Handled'
    BY <2>1 DEF SInv, Answers, Expected, OneAnswer, Handled
  <2>4. OwnObject' /\ Untold' /\ OwnResult'
    BY <2>1 DEF SInv, OwnObject, Untold, OwnResult
  <2> QED
    BY <1>1, <2>2, <2>3, <2>4 DEF SInv
<1> QED
  BY <1>2, <1>3, <1>4, <1>5, <1>6, <1>7, <1>8, <1>9, <1>10, <1>11, <1>12, <1>13,
     <1>14, <1>15
  DEF Next, Client, HandleCqe

LEMMA SInvUses == SInv => NoUseAfterFree /\ OwnResult /\ TableEmptied
<1> SUFFICES ASSUME SInv PROVE NoUseAfterFree /\ OwnResult /\ TableEmptied
  OBVIOUS
<1>1. NoUseAfterFree
  BY DEF SInv, Held, Handled, NoUseAfterFree
<1>2. TableEmptied
  <2> SUFFICES ASSUME Finished, NEW i \in Ids, command_map[i] # None PROVE FALSE
    BY DEF TableEmptied
  <2>1. ~Coming(i)
    BY DEF Coming, Finished
  <2>2. command_map[i].call \in AllCalls
    BY DEF SInv, Types, Object
  <2>3. PICK d \in Clients, n \in 1 .. Calls : command_map[i].call = <<d, n>>
    BY <2>2 DEF AllCalls
  <2>4. n < call[d] /\ Owned(i)
    BY SyncCommandAssumption DEF Finished, SInv, Types
  <2> QED
    BY <2>1, <2>3, <2>4 DEF Owned
<1> QED
  BY <1>1, <1>2 DEF SInv

LEMMA SInvHolds == Spec /\ []FreshId => []SInv
<1> QED
  BY InitSInv, SInvStep, PTL DEF Spec

(***************************************************************************)
(* The raw pointer a client waits on, and the receive thread's, are to an  *)
(* object that exists and is the call's own: remove_async_command is never *)
(* early, for any interleaving of the two locks.                           *)
(***************************************************************************)
THEOREM NoneIsFreedInUse == Spec /\ []FreshId => []NoUseAfterFree
<1> QED
  BY SInvHolds, SInvUses, PTL

(***************************************************************************)
(* wait and the callbacks hand each call the answer to its own command,    *)
(* and never twice.                                                        *)
(***************************************************************************)
THEOREM AnswersAreOwn == Spec /\ []FreshId => []OwnResult
<1> QED
  BY SInvHolds, SInvUses, PTL

(***************************************************************************)
(* No AsyncCommand is left in command_map when all calls are over.         *)
(***************************************************************************)
THEOREM TableIsEmptied == Spec /\ []FreshId => []TableEmptied
<1> QED
  BY SInvHolds, SInvUses, PTL

-----------------------------------------------------------------------------
(* When no id comes round in use: not in the first U16 calls. *)

\* The calls setup_async_command has run for.
Started == {k \in AllCalls : \/ k[2] < call[k[1]]
                             \/ k[2] = call[k[1]] /\ pc[k[1]] # "ready"}

\* How many ids were given after this one.
Age(i) == IF i < command_id_counter THEN command_id_counter - 1 - i
                                    ELSE command_id_counter - 1 - i + U16

\* An id in use is as young as there are calls begun.
Young == \A i \in Ids : command_map[i] # None => Age(i) < Cardinality(Started)

FewCalls == IsFiniteSet(Clients) /\ Cardinality(Clients) * Calls <= U16

LEMMA StartedIsFinite ==
  ASSUME FewCalls
  PROVE  /\ IsFiniteSet(AllCalls) /\ Cardinality(AllCalls) <= U16
         /\ Cardinality(AllCalls) \in Nat
         /\ IsFiniteSet(Started) /\ Cardinality(Started) \in Nat
<1>1. IsFiniteSet(1 .. Calls) /\ Cardinality(1 .. Calls) = Calls
  BY FS_Interval, SyncCommandAssumption
<1>2. IsFiniteSet(AllCalls) /\ Cardinality(AllCalls) = Cardinality(Clients) * Calls
  BY <1>1, FS_Product DEF FewCalls, AllCalls
<1>3. IsFiniteSet(Started)
  BY <1>2, FS_Subset DEF Started
<1> QED
  BY <1>2, <1>3, FS_CardinalityType DEF FewCalls

\* Before a call begins, one is missing from those begun, and the oldest id
\* is not in use.
LEMMA YoungIsFresh == FewCalls /\ Types /\ Young => FreshId
<1> SUFFICES ASSUME FewCalls, Types, Young, NEW c \in Clients,
                    pc[c] = "ready", call[c] <= Calls,
                    command_map[command_id_counter] # None
             PROVE  FALSE
  BY DEF FreshId
<1>1. This(c) \in AllCalls \ Started
  BY SyncCommandAssumption DEF Types, AllCalls, Started, This
<1>2. Cardinality(Started) < Cardinality(AllCalls)
  <2>1. Started \subseteq AllCalls /\ Started # AllCalls
    BY <1>1 DEF Started
  <2> QED
    BY <2>1, StartedIsFinite, FS_Subset
<1>3. Age(command_id_counter) = U16 - 1
  BY SyncCommandAssumption DEF Age, Types, Ids
<1>4. Age(command_id_counter) < Cardinality(Started)
  BY DEF Young, Types
<1> QED
  BY <1>2, <1>3, <1>4, StartedIsFinite, SyncCommandAssumption

LEMMA YoungStep ==
  ASSUME FewCalls, SInv, Young, Types', [Next]_vars
  PROVE  Young'
<1>1. Types /\ FreshId
  BY YoungIsFresh DEF SInv
<1>2. ASSUME Started' = Started, UNCHANGED command_id_counter,
             \A i \in Ids : command_map'[i] # None => command_map[i] # None
      PROVE  Young'
  BY <1>2 DEF Young, Age
<1>3. ASSUME NEW c \in Clients, NEW callback \in BOOLEAN,
             SetupAsyncCommand(c, callback)
      PROVE  Young'
  <2>1. PICK id, k : id = command_id_counter /\ k = This(c)
    OBVIOUS
  <2>2. /\ id \in Ids /\ command_map[id] = None
        /\ command_id_counter' = IF id + 1 < U16 THEN id + 1 ELSE 0
        /\ \A i \in Ids : i # id => command_map'[i] = command_map[i]
    <3>1. id \in Ids /\ command_map[id] = None
      BY <1>1, <1>3, <2>1 DEF SetupAsyncCommand, FreshId, Types
    <3>2. (id + 1) % U16 = IF id + 1 < U16 THEN id + 1 ELSE 0
      BY <3>1, SyncCommandAssumption DEF Ids
    <3>3. \A i \in Ids : i # id => command_map'[i] = command_map[i]
      BY <1>1, <1>3, <2>1 DEF SetupAsyncCommand, Types
    <3> QED
      BY <1>3, <2>1, <3>1, <3>2, <3>3 DEF SetupAsyncCommand
  <2>3. k \in AllCalls /\ k \notin Started /\ Started' = Started \cup {k}
    <3>1. k = <<c, call[c]>> /\ call[c] \in 1 .. Calls /\ pc[c] = "ready"
      BY <1>1, <1>3, <2>1 DEF SetupAsyncCommand, This, Types
    <3>2. /\ call' = call /\ pc'[c] = "submit"
          /\ \A d \in Clients : d # c => pc'[d] = pc[d]
      BY <1>1, <1>3 DEF SetupAsyncCommand, Goto, Types
    <3>3. k \in AllCalls /\ k \notin Started /\ k \in Started'
      BY <3>1, <3>2 DEF AllCalls, Started
    <3>4. ASSUME NEW l \in AllCalls, l # k PROVE l \in Started' <=> l \in Started
      <4>1. PICK d \in Clients, n \in 1 .. Calls : l = <<d, n>>
        BY DEF AllCalls
      <4>2. l[1] = d /\ l[2] = n /\ (d = c => n # call[c])
        BY <3>1, <3>4, <4>1
      <4> QED
        BY <3>2, <4>2 DEF Started
    <3> QED
      BY <3>3, <3>4 DEF Started
  <2>4. Cardinality(Started') = Cardinality(Started) + 1
        /\ Cardinality(Started) \in Nat
    BY <2>3, StartedIsFinite, FS_AddElement
  <2>5. ASSUME NEW i \in Ids, command_map'[i] # None
        PROVE  Age(i)' < Cardinality(Started')
    <3>1. CASE i = id
      <4>1. Age(i)' = 0
        BY <2>2, <3>1, SyncCommandAssumption DEF Age, Ids
      <4> QED
        BY <2>4, <4>1
    <3>2. CASE i # id
      <4>1. Age(i) < Cardinality(Started)
        BY <2>2, <2>5, <3>2 DEF Young
      <4>2. Age(i)' = Age(i) + 1 /\ Age(i) \in Int
        BY <2>1, <2>2, <3>2, SyncCommandAssumption DEF Age, Ids
      <4> QED
        BY <2>4, <4>1, <4>2
    <3> QED
      BY <3>1, <3>2
  <2> QED
    BY <2>5 DEF Young
<1>4. ASSUME NEW c \in Clients, SubmitSqCommand(c) \/ RemoveWaited(c)
      PROVE  Young'
  <2>1. /\ UNCHANGED command_id_counter
        /\ \A i \in Ids : command_map'[i] # None => command_map[i] # None
    BY <1>1, <1>4 DEF SubmitSqCommand, RemoveWaited, Types
  <2>2. /\ pc[c] # "ready" /\ call[c] \in Nat
        /\ \A d \in Clients : d # c => pc'[d] = pc[d] /\ call'[d] = call[d]
        /\ \/ pc'[c] = "ready" /\ call'[c] = call[c] + 1
           \/ pc'[c] = "lock" /\ call'[c] = call[c]
    BY <1>1, <1>4 DEF SubmitSqCommand, RemoveWaited, Return, Goto, Types
  <2>3. ASSUME NEW l \in AllCalls PROVE l \in Started' <=> l \in Started
    <3>1. PICK d \in Clients, n \in 1 .. Calls : l = <<d, n>>
      BY DEF AllCalls
    <3>2. l[1] = d /\ l[2] = n
      BY <3>1
    <3> QED
      BY <2>2, <3>2 DEF Started
  <2>4. Started' = Started
    BY <2>3 DEF Started
  <2> QED
    BY <1>2, <2>1, <2>4
<1>5. CASE \/ \E c \in Clients : \/ WaitLock(c) \/ WaitTest(c)
                                 \/ SpuriousWakeup(c)
           \/ \E p \in pending : DevComplete(p)
           \/ HandleCqe \/ UNCHANGED vars
  <2>1. /\ call' = call
        /\ \A d \in Clients : pc'[d] = pc[d] \/ (pc[d] # "ready" /\ pc'[d] # "ready")
    BY <1>1, <1>5
    DEF WaitLock, WaitTest, SpuriousWakeup, DevComplete, HandleCqe, ReadCqe,
        FindCommand, LockCommand, CallCallback, WakeWaiter, UnlockCommand,
        LeaveTable, ReleaseCommand, Sleepers, Goto, vars, clientVars, Types
  <2>2. Started' = Started
    <3>1. ASSUME NEW l \in AllCalls PROVE l \in Started' <=> l \in Started
      BY <2>1 DEF Started, AllCalls
    <3> QED
      BY <3>1 DEF Started
  <2>3. UNCHANGED command_id_counter
    BY <1>5
    DEF WaitLock, WaitTest, SpuriousWakeup, DevComplete, HandleCqe, ReadCqe,
        FindCommand, LockCommand, CallCallback, WakeWaiter, UnlockCommand,
        LeaveTable, ReleaseCommand, vars
  <2>4. ASSUME NEW i \in Ids, command_map'[i] # None PROVE command_map[i] # None
    <3>1. CASE \E c \in Clients : WaitLock(c) \/ WaitTest(c)
      <4>1. PICK c \in Clients : WaitLock(c) \/ WaitTest(c)
        BY <3>1
      <4>2. acmd[c] \in Ids /\ command_map[acmd[c]] # None
        BY <4>1 DEF SInv, Held, WaitLock, WaitTest
      <4> QED
        BY <1>1, <2>4, <4>1, <4>2 DEF WaitLock, WaitTest, Types
    <3>2. CASE LockCommand \/ WakeWaiter \/ UnlockCommand
      <4>1. cqe.id \in Ids /\ command_map[cqe.id] # None
        BY <1>1, <3>2, AnswerTypes
        DEF SInv, Handled, LockCommand, WakeWaiter, UnlockCommand
      <4> QED
        BY <1>1, <2>4, <3>2, <4>1
        DEF LockCommand, WakeWaiter, UnlockCommand, Types
    <3>3. CASE \/ \E c \in Clients : SpuriousWakeup(c)
               \/ \E p \in pending : DevComplete(p)
               \/ ReadCqe \/ FindCommand \/ CallCallback \/ LeaveTable
               \/ ReleaseCommand \/ UNCHANGED vars
      BY <1>1, <2>4, <3>3
      DEF SpuriousWakeup, DevComplete, ReadCqe, FindCommand, CallCallback,
          LeaveTable, ReleaseCommand, vars, Types
    <3> QED
      BY <1>5, <3>1, <3>2, <3>3 DEF HandleCqe
  <2> QED
    BY <1>2, <2>2, <2>3, <2>4
<1> QED
  BY <1>3, <1>4, <1>5 DEF Next, Client

LEMMA InitYoung == Init => Young
<1> QED
  BY DEF Init, Young

\* The invariant of few calls needs nothing of the ids.
LEMMA FewCallsInv == ASSUME FewCalls PROVE Spec => [](SInv /\ Young)
<1>1. Init => SInv /\ Young
  BY InitSInv, InitYoung
<1>2. SInv /\ Young /\ [Next]_vars => (SInv /\ Young)'
  <2> SUFFICES ASSUME SInv, Young, [Next]_vars PROVE SInv' /\ Young'
    OBVIOUS
  <2>1. FreshId
    BY YoungIsFresh DEF SInv
  <2>2. SInv'
    BY <2>1, SInvStep
  <2> QED
    BY <2>2, YoungStep DEF SInv
<1> QED
  BY <1>1, <1>2, PTL DEF Spec

(***************************************************************************)
(* setup_async_command never takes an id in use while no more calls are    *)
(* made than there are ids, wherever the counter starts.                   *)
(***************************************************************************)
THEOREM IdsAreFresh == ASSUME FewCalls PROVE Spec => []FreshId
<1>1. SInv /\ Young => FreshId
  BY YoungIsFresh DEF SInv
<1> QED
  BY <1>1, FewCallsInv, PTL

(***************************************************************************)
(* So the command table is safe outright for that many calls.              *)
(***************************************************************************)
THEOREM FewCallsAreSafe ==
  ASSUME FewCalls
  PROVE  Spec => [](NoUseAfterFree /\ OwnResult /\ TableEmptied)
<1> QED
  BY FewCallsInv, SInvUses, PTL

-----------------------------------------------------------------------------
(* Nobody waits for nothing. *)

\* The answer with this id has yet to be told to its object.
Awaited(i) ==
  \/ \E p \in pending : p.id = i
  \/ \E n \in 1 .. Len(cqes) : cqes[n].id = i
  \/ recv_pc \in {"find", "lock", "complete"} /\ cqe.id = i

Waiting == {"lock", "test", "asleep"}

\* A client whose command has no result yet is owed an answer, and one that
\* sleeps has none: cv.wait's test and its sleep are one step, under the mutex
\* that the receive thread stores the result and notifies under.
Waits(c) ==
  /\ pc[c] \in Waiting /\ ~command_map[acmd[c]].completed => Awaited(acmd[c])
  /\ pc[c] = "asleep" => ~command_map[acmd[c]].completed

NoLostWakeup == \A c \in Clients : Waits(c)

\* Whoever holds an object's mutex is about to give it up.
MutexHeld(i) ==
  command_map[i] # None =>
    /\ command_map[i].mutex = Recv =>
         recv_pc \in {"complete", "unlock"} /\ cqe.id = i
    /\ \A c \in Clients :
         command_map[i].mutex = c => pc[c] = "test" /\ acmd[c] = i

WInv == NoLostWakeup /\ \A i \in Ids : MutexHeld(i)

\* The guards of the threads and the device, spurious wake-ups aside.
CanMove ==
  \/ \E c \in Clients :
       \/ pc[c] = "ready" /\ call[c] <= Calls /\ command_mutex = None
       \/ pc[c] \in {"submit", "test"}
       \/ pc[c] = "lock" /\ command_map[acmd[c]].mutex = None
       \/ pc[c] = "remove" /\ command_mutex = None
  \/ pending # {}
  \/ recv_pc = "idle" /\ cqes # << >>
  \/ recv_pc \in {"find", "release"} /\ command_mutex = None
  \/ recv_pc = "lock" /\ command_map[cqe.id].mutex = None
  \/ recv_pc \in {"complete", "unlock", "leave"}

NobodyStuck == Finished \/ CanMove

LEMMA WInvUses == SInv /\ WInv => NobodyStuck
<1> SUFFICES ASSUME SInv, WInv, ~CanMove PROVE Finished
  BY DEF NobodyStuck
<1>1. Types /\ Handled
  BY DEF SInv
<1>2. ASSUME NEW i \in Ids, command_map[i] # None PROVE command_map[i].mutex = None
  <2>1. command_map[i].mutex \in Clients \cup {Recv, None}
    BY <1>1, <1>2 DEF Types, Object
  <2>2. command_map[i].mutex # Recv
    BY <1>2 DEF WInv, MutexHeld, CanMove
  <2>3. \A c \in Clients : command_map[i].mutex # c
    BY <1>2 DEF WInv, MutexHeld, CanMove
  <2> QED
    BY <2>1, <2>2, <2>3
<1>3. recv_pc = "idle" /\ command_mutex = None
  <2>1. recv_pc # "idle" => command_map[cqe.id] # None /\ cqe.id \in Ids
    BY <1>1, AnswerTypes DEF Handled
  <2>2. recv_pc # "lock"
    BY <1>2, <2>1 DEF CanMove
  <2>3. command_mutex = None
    BY <1>1, <2>2 DEF Types, Handled, CanMove
  <2> QED
    BY <1>1, <2>2, <2>3 DEF Types, CanMove
<1>4. pending = {} /\ cqes = << >> /\ Len(cqes) = 0
  <2>1. pending = {} /\ cqes = << >>
    BY <1>3 DEF CanMove
  <2> QED
    BY <2>1, EmptySeq
<1>5. ASSUME NEW c \in Clients PROVE call[c] > Calls
  <2>1. pc[c] # "ready" => acmd[c] \in Ids /\ command_map[acmd[c]] # None
    BY DEF SInv, Held
  <2>2. pc[c] # "lock"
    BY <1>2, <2>1 DEF CanMove
  <2>3. pc[c] # "asleep"
    <3>1. ~Awaited(acmd[c])
      BY <1>3, <1>4 DEF Awaited
    <3> QED
      BY <3>1 DEF WInv, NoLostWakeup, Waits, Waiting
  <2>4. pc[c] = "ready"
    BY <1>1, <1>3, <2>2, <2>3 DEF Types, CanMove
  <2>5. ~(call[c] <= Calls)
    BY <1>3, <2>4 DEF CanMove
  <2> QED
    BY <1>1, <2>5, SyncCommandAssumption DEF Types
<1> QED
  BY <1>3, <1>4, <1>5 DEF Finished

\* A step that another client's waiting does not feel.
LEMMA WaitsKept ==
  ASSUME NEW d \in Clients, Waits(d),
         pc'[d] \in Waiting => /\ pc[d] \in Waiting /\ acmd'[d] = acmd[d]
                               /\ command_map'[acmd[d]].completed
                                    = command_map[acmd[d]].completed,
         pc'[d] = "asleep" => pc[d] = "asleep",
         pc[d] \in Waiting /\ Awaited(acmd[d]) => Awaited(acmd[d])'
  PROVE  Waits(d)'
<1>1. pc'[d] = "asleep" => pc'[d] \in Waiting
  BY DEF Waiting
<1>2. ASSUME pc'[d] \in Waiting
      PROVE  /\ acmd'[d] = acmd[d] /\ pc[d] \in Waiting
             /\ command_map'[acmd'[d]].completed = command_map[acmd[d]].completed
  BY <1>2
<1> QED
  BY <1>1, <1>2 DEF Waits

LEMMA InitWInv == Init => WInv
<1> SUFFICES ASSUME Init PROVE WInv
  OBVIOUS
<1>1. /\ \A c \in Clients : pc[c] = "ready"
      /\ \A i \in Ids : command_map[i] = None
  BY DEF Init
<1> QED
  BY <1>1 DEF WInv, NoLostWakeup, Waits, Waiting, MutexHeld

\* The clients' steps.
LEMMA ClientWInv ==
  ASSUME SInv, WInv, FreshId, NEW c \in Clients, Client(c) \/ SpuriousWakeup(c)
  PROVE  WInv'
<1>1. /\ Types /\ \A d \in Clients : Held(d) /\ Waits(d)
      /\ \A i \in Ids : MutexHeld(i)
  BY DEF SInv, WInv, NoLostWakeup
<1>2. /\ None # Recv /\ None \notin Clients /\ Recv \notin Clients
  BY SyncCommandAssumption, NoneAssumption
<1>3. /\ \A d \in Clients : d # c => /\ pc'[d] = pc[d] /\ acmd'[d] = acmd[d]
      /\ recv_pc' = recv_pc /\ cqe' = cqe /\ cqes' = cqes
      /\ pending \subseteq pending'
  BY <1>1 DEF Client, SetupAsyncCommand, SubmitSqCommand, WaitLock, WaitTest,
     RemoveWaited, SpuriousWakeup, Goto, Return, clientVars, recvVars, devVars,
     Types
<1>4. ASSUME NEW i, Awaited(i)
      PROVE  \/ \E p \in pending' : p.id = i
             \/ \E n \in 1 .. Len(cqes') : cqes'[n].id = i
             \/ recv_pc' \in {"find", "lock", "complete"} /\ cqe'.id = i
  BY <1>3, <1>4 DEF Awaited
<1>5. ASSUME NEW d \in Clients, d # c, pc[d] \in Waiting,
             command_map'[acmd[d]].completed = command_map[acmd[d]].completed
      PROVE  Waits(d)'
  <2>1. pc'[d] = pc[d] /\ acmd'[d] = acmd[d] /\ Waits(d)
    BY <1>1, <1>3, <1>5
  <2>2. Awaited(acmd[d]) => Awaited(acmd[d])'
    BY <1>4, <2>1 DEF Awaited
  <2> QED
    BY <1>5, <2>1, <2>2, WaitsKept
<1>6. ASSUME NEW d \in Clients, d # c, pc[d] \notin Waiting PROVE Waits(d)'
  BY <1>3, <1>6 DEF Waits, Waiting
<1>7. ASSUME NEW d \in Clients, d # c, pc[d] \in Waiting
      PROVE  acmd[d] \in Ids /\ command_map[acmd[d]] # None
             /\ (pc[c] # "ready" => acmd[d] # acmd[c])
  <2>1. pc[d] # "ready" /\ Held(d)
    BY <1>1, <1>7 DEF Waiting
  <2> QED
    BY <1>7, <2>1, HoldersDiffer DEF Held
<1>8. ASSUME NEW i \in Ids, command_map'[i] = command_map[i] \/ command_map'[i] = None,
             pc[c] # "test" \/ command_map[i] = None \/ command_map[i].mutex # c
      PROVE  MutexHeld(i)'
  <2> SUFFICES ASSUME command_map'[i] # None
               PROVE  MutexHeld(i)'
    BY DEF MutexHeld
  <2>1. command_map'[i] = command_map[i] /\ command_map[i] # None /\ MutexHeld(i)
    BY <1>1, <1>8
  <2>2. \A d \in Clients : command_map[i].mutex = d => d # c
    BY <1>8, <2>1 DEF MutexHeld
  <2> QED
    BY <1>3, <2>1, <2>2 DEF MutexHeld
<1>9. ASSUME NEW callback \in BOOLEAN, SetupAsyncCommand(c, callback)
      PROVE  WInv'
  <2>1. PICK id \in Ids : id = command_id_counter
    BY <1>1 DEF Types
  <2>2. /\ pc[c] = "ready" /\ call[c] <= Calls /\ command_mutex = None
        /\ pc'[c] = "submit"
        /\ \A i \in Ids : i # id => command_map'[i] = command_map[i]
        /\ command_map[id] = None
        /\ command_map'[id] = [call |-> This(c), callback |-> callback,
                               completed |-> FALSE, result |-> None,
                               mutex |-> None]
    <3>1. /\ pc[c] = "ready" /\ call[c] <= Calls /\ command_mutex = None
          /\ pc'[c] = "submit"
          /\ \A i \in Ids : i # id => command_map'[i] = command_map[i]
          /\ command_map'[id] = [call |-> This(c), callback |-> callback,
                                 completed |-> FALSE,
                                 result |-> Emplaced(id).result,
                                 mutex |-> Emplaced(id).mutex]
      BY <1>1, <1>9, <2>1 DEF SetupAsyncCommand, Goto, Types
    <3>2. command_map[id] = None
      BY <2>1, <3>1 DEF FreshId
    <3>3. Emplaced(id).result = None /\ Emplaced(id).mutex = None
      BY <3>2 DEF Emplaced
    <3> QED
      BY <3>1, <3>2, <3>3
  <2>3. command_map[id] = None
    BY <2>2
  <2>4. ASSUME NEW d \in Clients PROVE Waits(d)'
    <3>1. CASE d = c
      BY <2>2, <3>1 DEF Waits, Waiting
    <3>2. CASE d # c /\ pc[d] \in Waiting
      <4>1. acmd[d] \in Ids /\ acmd[d] # id
        BY <1>7, <2>3, <3>2
      <4> QED
        BY <1>5, <2>2, <3>2, <4>1
    <3>3. CASE d # c /\ pc[d] \notin Waiting
      BY <1>6, <3>3
    <3> QED
      BY <3>1, <3>2, <3>3
  <2>5. ASSUME NEW i \in Ids PROVE MutexHeld(i)'
    <3>1. CASE i = id
      <4>1. command_map'[id].mutex = None
        BY <2>2
      <4> QED
        BY <1>2, <3>1, <4>1 DEF MutexHeld
    <3>2. CASE i # id
      BY <1>8, <2>2, <3>2
    <3> QED
      BY <3>1, <3>2
  <2> QED
    BY <2>4, <2>5 DEF WInv, NoLostWakeup
<1>10. ASSUME SubmitSqCommand(c) PROVE WInv'
  <2>1. /\ pc[c] = "submit" /\ command_map' = command_map
        /\ [id |-> acmd[c], call |-> This(c)] \in pending'
        /\ pc'[c] = "ready" \/ (pc'[c] = "lock" /\ acmd'[c] = acmd[c])
    BY <1>1, <1>10 DEF SubmitSqCommand, Return, Goto, Types
  <2>2. ASSUME NEW d \in Clients PROVE Waits(d)'
    <3>1. CASE d = c
      <4>1. CASE pc'[c] = "ready"
        BY <3>1, <4>1 DEF Waits, Waiting
      <4>2. CASE pc'[c] = "lock" /\ acmd'[c] = acmd[c]
        <5>1. [id |-> acmd[c], call |-> This(c)].id = acmd'[c]
          BY <4>2
        <5>2. \E p \in pending' : p.id = acmd'[c]
          BY <2>1, <5>1
        <5> QED
          BY <3>1, <4>2, <5>2 DEF Waits, Awaited
      <4> QED
        BY <2>1, <4>1, <4>2
    <3>2. CASE d # c /\ pc[d] \in Waiting
      BY <1>5, <2>1, <3>2
    <3>3. CASE d # c /\ pc[d] \notin Waiting
      BY <1>6, <3>3
    <3> QED
      BY <3>1, <3>2, <3>3
  <2>3. ASSUME NEW i \in Ids PROVE MutexHeld(i)'
    BY <1>8, <2>1
  <2> QED
    BY <2>2, <2>3 DEF WInv, NoLostWakeup
<1>11. ASSUME WaitLock(c) \/ WaitTest(c) PROVE WInv'
  <2>1. PICK id, m : /\ id = acmd[c]
                     /\ m = IF pc[c] = "lock" THEN c ELSE None
    OBVIOUS
  <2>2. /\ pc[c] \in {"lock", "test"} /\ acmd'[c] = id
        /\ command_map' = [command_map EXCEPT ![id].mutex = m]
        /\ pc[c] = "lock" => pc'[c] = "test"
        /\ pc[c] = "test" => \/ pc'[c] = "asleep" /\ ~command_map[id].completed
                             \/ pc'[c] = "remove"
    BY <1>1, <1>11, <2>1 DEF WaitLock, WaitTest, Goto, Types
  <2>3. id \in Ids /\ command_map[id] # None /\ command_map[id] \in Object
    BY <1>1, <2>1, <2>2 DEF Held, Types
  <2>4. /\ \A i \in Ids : i # id => command_map'[i] = command_map[i]
        /\ command_map'[id].mutex = m
        /\ command_map'[id].completed = command_map[id].completed
    <3>1. command_map'[id] = [command_map[id] EXCEPT !.mutex = m]
      BY <1>1, <2>2, <2>3 DEF Types
    <3> QED
      BY <1>1, <2>2, <2>3, <3>1 DEF Types, Object
  <2>5. ASSUME NEW d \in Clients PROVE Waits(d)'
    <3>1. CASE d = c
      <4>1. Waits(c) /\ pc[c] \in Waiting
        BY <1>1, <2>2 DEF Waiting
      <4>2. Awaited(id) => Awaited(acmd[c])'
        BY <1>4, <2>2 DEF Awaited
      <4>3. command_map'[acmd'[c]].completed = command_map[id].completed
        BY <2>2, <2>4
      <4>4. pc'[c] = "asleep" => ~command_map[id].completed
        BY <2>2
      <4> QED
        BY <2>1, <3>1, <4>1, <4>2, <4>3, <4>4 DEF Waits
    <3>2. CASE d # c /\ pc[d] \in Waiting
      <4>1. acmd[d] \in Ids
        BY <1>7, <3>2
      <4>2. command_map'[acmd[d]].completed = command_map[acmd[d]].completed
        BY <2>4, <4>1
      <4> QED
        BY <1>5, <3>2, <4>2
    <3>3. CASE d # c /\ pc[d] \notin Waiting
      BY <1>6, <3>3
    <3> QED
      BY <3>1, <3>2, <3>3
  <2>6. ASSUME NEW i \in Ids PROVE MutexHeld(i)'
    <3>1. CASE i = id
      <4>1. m # Recv /\ \A d \in Clients : m = d => d = c /\ pc[c] = "lock"
        BY <1>2, <2>1
      <4> QED
        BY <2>2, <2>4, <3>1, <4>1 DEF MutexHeld
    <3>2. CASE i # id
      <4>1. command_map[i] = None \/ command_map[i].mutex # c
        BY <1>1, <2>1, <3>2 DEF MutexHeld
      <4> QED
        BY <1>8, <2>4, <3>2, <4>1
    <3> QED
      BY <3>1, <3>2
  <2> QED
    BY <2>5, <2>6 DEF WInv, NoLostWakeup
<1>12. ASSUME RemoveWaited(c) PROVE WInv'
  <2>1. /\ pc[c] = "remove" /\ pc'[c] = "ready"
        /\ command_map' = [command_map EXCEPT ![acmd[c]] = None]
    BY <1>1, <1>12 DEF RemoveWaited, Return, Goto, Types
  <2>2. \A i \in Ids : /\ i # acmd[c] => command_map'[i] = command_map[i]
                       /\ i = acmd[c] => command_map'[i] = None
    BY <1>1, <2>1 DEF Types
  <2>3. ASSUME NEW d \in Clients PROVE Waits(d)'
    <3>1. CASE d = c
      BY <2>1, <3>1 DEF Waits, Waiting
    <3>2. CASE d # c /\ pc[d] \in Waiting
      <4>1. acmd[d] \in Ids /\ acmd[d] # acmd[c]
        BY <1>7, <2>1, <3>2
      <4> QED
        BY <1>5, <2>2, <3>2, <4>1
    <3>3. CASE d # c /\ pc[d] \notin Waiting
      BY <1>6, <3>3
    <3> QED
      BY <3>1, <3>2, <3>3
  <2>4. ASSUME NEW i \in Ids PROVE MutexHeld(i)'
    BY <1>8, <2>1, <2>2
  <2> QED
    BY <2>3, <2>4 DEF WInv, NoLostWakeup
<1>13. ASSUME SpuriousWakeup(c) PROVE WInv'
  <2>1. /\ pc[c] = "asleep" /\ pc'[c] = "lock" /\ acmd' = acmd
        /\ command_map' = command_map
    BY <1>1, <1>13 DEF SpuriousWakeup, Goto, Types
  <2>2. ASSUME NEW d \in Clients PROVE Waits(d)'
    <3>1. CASE d = c
      <4>1. Waits(c) /\ pc[c] \in Waiting /\ pc'[c] # "asleep"
        BY <1>1, <2>1 DEF Waiting
      <4>2. Awaited(acmd[c]) => Awaited(acmd[c])'
        BY <1>4, <2>1 DEF Awaited
      <4> QED
        BY <2>1, <3>1, <4>1, <4>2, WaitsKept
    <3>2. CASE d # c /\ pc[d] \in Waiting
      BY <1>5, <2>1, <3>2
    <3>3. CASE d # c /\ pc[d] \notin Waiting
      BY <1>6, <3>3
    <3> QED
      BY <3>1, <3>2, <3>3
  <2>3. ASSUME NEW i \in Ids PROVE MutexHeld(i)'
    BY <1>8, <2>1
  <2> QED
    BY <2>2, <2>3 DEF WInv, NoLostWakeup
<1> QED
  BY <1>9, <1>10, <1>11, <1>12, <1>13 DEF Client

\* The steps of the device and of the receive thread.
LEMMA AnswerWInv ==
  ASSUME SInv, WInv, HandleCqe \/ \E p \in pending : DevComplete(p)
  PROVE  WInv'
<1>1. /\ Types /\ Handled /\ \A d \in Clients : Held(d) /\ Waits(d)
      /\ \A i \in Ids : MutexHeld(i)
  BY DEF SInv, WInv, NoLostWakeup
<1>2. None # Recv /\ None \notin Clients /\ Recv \notin Clients
  BY SyncCommandAssumption, NoneAssumption
<1>3. recv_pc # "idle" => cqe.id \in Ids /\ command_map[cqe.id] # None
                          /\ command_map[cqe.id] \in Object
  BY <1>1, AnswerTypes DEF Handled, Types
<1>4. ASSUME NEW d \in Clients, pc[d] \in Waiting
      PROVE  /\ acmd[d] \in Ids /\ command_map[acmd[d]] # None
             /\ ~command_map[acmd[d]].callback
  <2>1. pc[d] \notin {"ready", "submit"} /\ Held(d)
    BY <1>1, <1>4 DEF Waiting
  <2> QED
    BY <2>1 DEF Held
<1>5. ASSUME pc' = pc, acmd' = acmd,
             \A d \in Clients : pc[d] \in Waiting =>
               /\ command_map'[acmd[d]].completed = command_map[acmd[d]].completed
               /\ Awaited(acmd[d]) => Awaited(acmd[d])'
      PROVE  NoLostWakeup'
  <2> SUFFICES ASSUME NEW d \in Clients PROVE Waits(d)'
    BY DEF NoLostWakeup
  <2>1. CASE pc[d] \in Waiting
    BY <1>1, <1>5, <2>1, WaitsKept
  <2>2. CASE pc[d] \notin Waiting
    BY <1>5, <2>2 DEF Waits, Waiting
  <2> QED
    BY <2>1, <2>2
<1>6. ASSUME UNCHANGED <<command_map, pc, acmd>>,
             recv_pc \notin {"complete", "unlock"}
      PROVE  \A i \in Ids : MutexHeld(i)'
  BY <1>1, <1>6 DEF MutexHeld
<1>7. ASSUME NEW m, command_map' = [command_map EXCEPT ![cqe.id].mutex = m],
             recv_pc # "idle"
      PROVE  /\ command_map'[cqe.id].mutex = m
             /\ \A i \in Ids :
                  /\ i # cqe.id => command_map'[i] = command_map[i]
                  /\ command_map[i] # None =>
                       command_map'[i].completed = command_map[i].completed
  <2>1. command_map'[cqe.id] = [command_map[cqe.id] EXCEPT !.mutex = m]
    BY <1>1, <1>3, <1>7 DEF Types
  <2> QED
    BY <1>1, <1>3, <1>7, <2>1 DEF Types, Object
<1>8. ASSUME NEW p \in pending, DevComplete(p) PROVE WInv'
  <2>1. /\ UNCHANGED <<command_map, pc, acmd, recv_pc, cqe>>
        /\ pending' = pending \ {p}
        /\ cqes' = Append(cqes, [id |-> p.id, result |-> p.call])
    BY <1>8 DEF DevComplete, clientVars, recvVars
  <2>2. /\ Len(cqes) \in Nat /\ Len(cqes') = Len(cqes) + 1
        /\ cqes'[Len(cqes) + 1].id = p.id
        /\ \A n \in 1 .. Len(cqes) : cqes'[n] = cqes[n]
    <3> DEFINE e == [id |-> p.id, result |-> p.call]
    <3>1. e \in Cqe /\ cqes \in Seq(Cqe)
      BY <1>1 DEF Types, Answer, Cqe
    <3> QED
      BY <2>1, <3>1, AppendProperties, LenProperties
  <2>3. ASSUME NEW i, Awaited(i) PROVE Awaited(i)'
    <3>1. CASE p.id = i
      <4>1. Len(cqes) + 1 \in 1 .. Len(cqes')
        BY <2>2
      <4> QED
        BY <2>2, <3>1, <4>1 DEF Awaited
    <3>2. ASSUME NEW n \in 1 .. Len(cqes), cqes[n].id = i PROVE Awaited(i)'
      <4>1. n \in 1 .. Len(cqes') /\ cqes'[n].id = i
        BY <2>2, <3>2
      <4> QED
        BY <4>1 DEF Awaited
    <3>3. CASE p.id # i /\ ~\E n \in 1 .. Len(cqes) : cqes[n].id = i
      BY <2>1, <2>3, <3>3 DEF Awaited
    <3> QED
      BY <3>1, <3>2, <3>3
  <2>4. NoLostWakeup'
    BY <1>5, <2>1, <2>3
  <2>5. \A i \in Ids : MutexHeld(i)'
    BY <1>1, <2>1 DEF MutexHeld
  <2> QED
    BY <2>4, <2>5 DEF WInv
<1>9. CASE ReadCqe
  <2>1. /\ UNCHANGED <<command_map, pc, acmd, pending>>
        /\ recv_pc = "idle" /\ recv_pc' = "find" /\ cqes # << >>
        /\ cqe' = Head(cqes) /\ cqes' = Tail(cqes)
    BY <1>9 DEF ReadCqe, clientVars
  <2>2. /\ Len(cqes) \in Nat /\ Len(cqes') = Len(cqes) - 1
        /\ cqe' = cqes[1]
        /\ \A n \in 1 .. Len(cqes') : cqes'[n] = cqes[n + 1]
    BY <1>1, <2>1, HeadTailProperties, LenProperties DEF Types
  <2>3. ASSUME NEW i, Awaited(i) PROVE Awaited(i)'
    <3>1. ASSUME NEW n \in 1 .. Len(cqes), cqes[n].id = i PROVE Awaited(i)'
      <4>1. CASE n = 1
        BY <2>1, <2>2, <3>1, <4>1 DEF Awaited
      <4>2. CASE n # 1
        <5>1. n - 1 \in 1 .. Len(cqes') /\ (n - 1) + 1 = n
          BY <2>2, <4>2
        <5>2. cqes'[n - 1].id = i
          BY <2>2, <3>1, <5>1
        <5> QED
          BY <5>1, <5>2 DEF Awaited
      <4> QED
        BY <4>1, <4>2
    <3>2. CASE ~\E n \in 1 .. Len(cqes) : cqes[n].id = i
      BY <2>1, <2>3, <3>2 DEF Awaited
    <3> QED
      BY <3>1, <3>2
  <2>4. NoLostWakeup'
    BY <1>5, <2>1, <2>3
  <2>5. \A i \in Ids : MutexHeld(i)'
    BY <1>6, <2>1
  <2> QED
    BY <2>4, <2>5 DEF WInv
<1>10. CASE FindCommand
  <2>1. /\ UNCHANGED <<command_map, pc, acmd, pending, cqes, cqe>>
        /\ recv_pc = "find" /\ recv_pc' = "lock"
    BY <1>3, <1>10 DEF FindCommand, clientVars, devVars
  <2>2. NoLostWakeup'
    BY <1>5, <2>1 DEF Awaited
  <2>3. \A i \in Ids : MutexHeld(i)'
    BY <1>6, <2>1
  <2> QED
    BY <2>2, <2>3 DEF WInv
<1>11. CASE LockCommand
  <2>1. /\ UNCHANGED <<pc, acmd, pending, cqes, cqe>>
        /\ recv_pc = "lock" /\ recv_pc' = "complete"
        /\ command_map' = [command_map EXCEPT ![cqe.id].mutex = Recv]
    BY <1>11 DEF LockCommand, clientVars, devVars
  <2>2. NoLostWakeup'
    <3>1. \A d \in Clients : pc[d] \in Waiting =>
            /\ command_map'[acmd[d]].completed = command_map[acmd[d]].completed
            /\ Awaited(acmd[d]) => Awaited(acmd[d])'
      BY <1>4, <1>7, <2>1 DEF Awaited
    <3> QED
      BY <1>5, <2>1, <3>1
  <2>3. ASSUME NEW i \in Ids PROVE MutexHeld(i)'
    <3>1. CASE i = cqe.id
      <4>1. command_map'[cqe.id].mutex = Recv
        BY <1>7, <2>1
      <4>2. recv_pc' = "complete" /\ cqe'.id = i
        BY <2>1, <3>1
      <4> QED
        BY <1>2, <3>1, <4>1, <4>2 DEF MutexHeld
    <3>2. CASE i # cqe.id
      <4>1. command_map'[i] = command_map[i] /\ MutexHeld(i)
        BY <1>1, <1>7, <2>1, <3>2
      <4> QED
        BY <2>1, <4>1 DEF MutexHeld
    <3> QED
      BY <3>1, <3>2
  <2> QED
    BY <2>2, <2>3 DEF WInv
<1>12. CASE CallCallback
  <2>1. /\ UNCHANGED <<command_map, pc, acmd, pending, cqes, cqe>>
        /\ recv_pc = "complete" /\ recv_pc' = "unlock"
        /\ command_map[cqe.id].callback
    BY <1>12 DEF CallCallback, clientVars, devVars
  <2>2. NoLostWakeup'
    <3>1. \A d \in Clients : pc[d] \in Waiting =>
            /\ command_map'[acmd[d]].completed = command_map[acmd[d]].completed
            /\ Awaited(acmd[d]) => Awaited(acmd[d])'
      BY <1>4, <2>1 DEF Awaited
    <3> QED
      BY <1>5, <2>1, <3>1
  <2>3. \A i \in Ids : MutexHeld(i)'
    BY <1>1, <2>1 DEF MutexHeld
  <2> QED
    BY <2>2, <2>3 DEF WInv
<1>13. CASE WakeWaiter
  <2>1. /\ UNCHANGED <<acmd, pending, cqes, cqe>>
        /\ recv_pc = "complete" /\ recv_pc' = "unlock"
        /\ \A d \in Clients :
             pc'[d] = IF pc[d] = "asleep" /\ acmd[d] = cqe.id THEN "lock" ELSE pc[d]
        /\ command_map' = [command_map EXCEPT ![cqe.id].result = cqe.result,
                                              ![cqe.id].completed = TRUE]
    BY <1>13 DEF WakeWaiter, Sleepers, devVars
  <2>2. /\ command_map'[cqe.id].completed
        /\ command_map'[cqe.id].mutex = command_map[cqe.id].mutex
        /\ \A i \in Ids : /\ i # cqe.id => command_map'[i] = command_map[i]
                          /\ command_map'[i] # None => command_map[i] # None
    <3>1. command_map'[cqe.id] = [command_map[cqe.id] EXCEPT !.result = cqe.result,
                                                             !.completed = TRUE]
      BY <1>1, <1>3, <2>1 DEF Types
    <3> QED
      BY <1>1, <1>3, <2>1, <3>1 DEF Types, Object
  <2>3. ASSUME NEW d \in Clients PROVE Waits(d)'
    <3>1. CASE pc[d] \in Waiting /\ acmd[d] = cqe.id
      BY <2>1, <2>2, <3>1 DEF Waits
    <3>2. CASE pc[d] \in Waiting /\ acmd[d] # cqe.id
      <4>1. /\ pc'[d] = pc[d] /\ acmd'[d] = acmd[d]
            /\ command_map'[acmd[d]] = command_map[acmd[d]]
        BY <1>4, <2>1, <2>2, <3>2
      <4>2. Awaited(acmd[d]) => Awaited(acmd[d])'
        BY <2>1, <3>2 DEF Awaited
      <4> QED
        BY <1>1, <3>2, <4>1, <4>2, WaitsKept
    <3>3. CASE pc[d] \notin Waiting
      BY <2>1, <3>3 DEF Waits, Waiting
    <3> QED
      BY <3>1, <3>2, <3>3
  <2>4. ASSUME NEW i \in Ids PROVE MutexHeld(i)'
    <3> SUFFICES ASSUME command_map'[i] # None PROVE MutexHeld(i)'
      BY DEF MutexHeld
    <3>1. MutexHeld(i) /\ command_map[i] # None
      BY <1>1, <2>2
    <3>2. command_map'[i].mutex = command_map[i].mutex
      BY <2>2
    <3>3. \A d \in Clients : pc[d] = "test" => pc'[d] = "test"
      BY <2>1
    <3> QED
      BY <2>1, <3>1, <3>2, <3>3 DEF MutexHeld
  <2> QED
    BY <2>3, <2>4 DEF WInv, NoLostWakeup
<1>14. CASE UnlockCommand
  <2>1. /\ UNCHANGED <<pc, acmd, pending, cqes, cqe>>
        /\ recv_pc = "unlock" /\ recv_pc' = "leave"
        /\ command_map' = [command_map EXCEPT ![cqe.id].mutex = None]
    BY <1>14 DEF UnlockCommand, clientVars, devVars
  <2>2. NoLostWakeup'
    <3>1. \A d \in Clients : pc[d] \in Waiting =>
            /\ command_map'[acmd[d]].completed = command_map[acmd[d]].completed
            /\ Awaited(acmd[d]) => Awaited(acmd[d])'
      BY <1>4, <1>7, <2>1 DEF Awaited
    <3> QED
      BY <1>5, <2>1, <3>1
  <2>3. ASSUME NEW i \in Ids PROVE MutexHeld(i)'
    <3>1. CASE i = cqe.id
      <4>1. command_map'[i].mutex = None
        BY <1>7, <2>1, <3>1
      <4> QED
        BY <1>2, <4>1 DEF MutexHeld
    <3>2. CASE i # cqe.id
      <4>1. command_map'[i] = command_map[i] /\ MutexHeld(i)
        BY <1>1, <1>7, <2>1, <3>2
      <4> QED
        BY <2>1, <3>2, <4>1 DEF MutexHeld
    <3> QED
      BY <3>1, <3>2
  <2> QED
    BY <2>2, <2>3 DEF WInv
<1>15. CASE LeaveTable
  <2>1. /\ UNCHANGED <<command_map, pc, acmd, pending, cqes>>
        /\ recv_pc = "leave"
    BY <1>15 DEF LeaveTable, clientVars, devVars
  <2>2. NoLostWakeup'
    BY <1>5, <2>1 DEF Awaited
  <2>3. \A i \in Ids : MutexHeld(i)'
    BY <1>6, <2>1
  <2> QED
    BY <2>2, <2>3 DEF WInv
<1>16. CASE ReleaseCommand
  <2>1. /\ UNCHANGED <<pc, acmd, pending, cqes>>
        /\ recv_pc = "release"
        /\ command_map' = [command_map EXCEPT ![cqe.id] = None]
    BY <1>16 DEF ReleaseCommand, clientVars, devVars
  <2>2. command_map[cqe.id].callback
    BY <1>1, <2>1 DEF Handled
  <2>3. \A i \in Ids : /\ i # cqe.id => command_map'[i] = command_map[i]
                       /\ i = cqe.id => command_map'[i] = None
    BY <1>1, <2>1 DEF Types
  <2>4. NoLostWakeup'
    <3>1. \A d \in Clients : pc[d] \in Waiting =>
            /\ command_map'[acmd[d]].completed = command_map[acmd[d]].completed
            /\ Awaited(acmd[d]) => Awaited(acmd[d])'
      BY <1>4, <2>1, <2>2, <2>3 DEF Awaited
    <3> QED
      BY <1>5, <2>1, <3>1
  <2>5. ASSUME NEW i \in Ids PROVE MutexHeld(i)'
    <3> SUFFICES ASSUME command_map'[i] # None PROVE MutexHeld(i)'
      BY DEF MutexHeld
    <3>1. command_map'[i] = command_map[i] /\ MutexHeld(i)
      BY <1>1, <2>3
    <3> QED
      BY <2>1, <3>1 DEF MutexHeld
  <2> QED
    BY <2>4, <2>5 DEF WInv
<1> QED
  BY <1>8, <1>9, <1>10, <1>11, <1>12, <1>13, <1>14, <1>15, <1>16 DEF HandleCqe

LEMMA WInvStep == SInv /\ WInv /\ FreshId /\ [Next]_vars => WInv'
<1> SUFFICES ASSUME SInv, WInv, FreshId, [Next]_vars PROVE WInv'
  OBVIOUS
<1>1. CASE UNCHANGED vars
  BY <1>1 DEF vars, clientVars, recvVars, devVars, WInv, NoLostWakeup, Waits,
     Waiting, Awaited, MutexHeld
<1>2. CASE \E c \in Clients : Client(c) \/ SpuriousWakeup(c)
  BY <1>2, ClientWInv
<1>3. CASE HandleCqe \/ \E p \in pending : DevComplete(p)
  BY <1>3, AnswerWInv
<1> QED
  BY <1>1, <1>2, <1>3 DEF Next

\* The invariant of the sleepers, with that of the command table.
LEMMA SleepersInv == Spec /\ []FreshId => [](SInv /\ WInv)
<1>1. Init => SInv /\ WInv
  BY InitSInv, InitWInv
<1>2. SInv /\ WInv /\ FreshId /\ [Next]_vars => (SInv /\ WInv)'
  BY SInvStep, WInvStep
<1> QED
  BY <1>1, <1>2, PTL DEF Spec

(***************************************************************************)
(* A client that waits for a result is owed one, by the device, by a       *)
(* completion entry or by the receive thread, and none sleeps in cv.wait   *)
(* with its result already stored: handle_cqe's notify_all is never lost,  *)
(* spurious wake-ups or not.                                               *)
(***************************************************************************)
THEOREM NoWakeupIsLost == Spec /\ []FreshId => []NoLostWakeup
<1>1. WInv => NoLostWakeup
  BY DEF WInv
<1> QED
  BY <1>1, SleepersInv, PTL

(***************************************************************************)
(* command_mutex, the objects' mutexes and the device never wait on each   *)
(* other in a circle: until every call has returned, some guard of a       *)
(* client, the device or the receive thread is open, and nobody has to     *)
(* count on a spurious wake-up.                                            *)
(***************************************************************************)
THEOREM NobodyIsStuck == Spec /\ []FreshId => []NobodyStuck
<1> QED
  BY WInvUses, SleepersInv, PTL

(***************************************************************************)
(* Both hold outright while no more calls are made than there are ids.     *)
(***************************************************************************)
THEOREM FewCallsEnd ==
  ASSUME FewCalls PROVE Spec => [](NoLostWakeup /\ NobodyStuck)
<1>1. Spec => []FreshId
  BY IdsAreFresh
<1> QED
  BY <1>1, NoWakeupIsLost, NobodyIsStuck, PTL

=============================================================================

----------------------------- MODULE SyncCommand -----------------------------
(***************************************************************************)
(* The life of an AsyncCommand object (nvme_driver.h, nvme_driver.cpp): a  *)
(* thread creates it in command_map, submits the command and, if it gave   *)
(* no callback, waits on the object; the link's receive thread finds the   *)
(* object by the id of a completion entry and either wakes the waiter or   *)
(* calls the callback.  Whoever is last erases, and so destroys, it.       *)
(*                                                                         *)
(* Two locks are involved, command_mutex over the table and one mutex per  *)
(* object, so this module steps from lock operation to lock operation.     *)
(* The rings between submit_sq_command and handle_cqe are NvmeQueue's; the *)
(* device here answers the commands it was given in any order.             *)
(***************************************************************************)
EXTENDS Integers, Sequences, FiniteSets

CONSTANTS
  Clients,   \* the threads that submit commands
  Calls,     \* how many commands each of them submits
  U16,       \* number of command ids: the run makes at most as many calls, so
             \* an id never comes round in use
  None       \* no object, no result, nobody

ASSUME SyncCommandAssumption ==
  /\ Calls \in Nat
  /\ U16 \in Nat \ {0}
  /\ None \notin Clients

VARIABLES
  command_mutex,       \* its holder, or None
  command_id_counter,
  command_map,         \* id -> AsyncCommand object or None
  pc,                  \* where a client is
  acmd,                \* id of the object the client holds a pointer to, or None
  call,                \* number of the client's present call
  recv_pc,             \* where the receive thread is in handle_cqe
  cqe,                 \* the entry it handles, or None
  release_cmd,
  pending,             \* commands the device has not answered
  cqes,                \* answers the receive thread has not taken
  out                  \* the answers each call was told, by return or callback

clientVars == <<pc, acmd, call>>
recvVars   == <<recv_pc, cqe, release_cmd>>
devVars    == <<pending, cqes>>
vars == <<command_mutex, command_id_counter, command_map, clientVars,
          recvVars, devVars, out>>

Ids     == 0 .. U16 - 1
AllCalls == Clients \X (1 .. Calls)
Recv    == "recv"        \* the receive thread, as the holder of a lock
Cqe     == [id : Ids, result : AllCalls]
Object  == [call : AllCalls, callback : BOOLEAN, completed : BOOLEAN,
            result : AllCalls \cup {None}, mutex : Clients \cup {Recv, None}]

ASSUME NoneAssumption ==
  None # Recv /\ Recv \notin Clients /\ None \notin Object

Init ==
  /\ command_mutex = None
  /\ command_id_counter \in Ids
  /\ command_map = [i \in Ids |-> None]
  /\ pc = [c \in Clients |-> "ready"]
  /\ acmd = [c \in Clients |-> None]
  /\ call = [c \in Clients |-> 1]
  /\ recv_pc = "idle"
  /\ cqe = None
  /\ release_cmd = FALSE
  /\ pending = {}
  /\ cqes = << >>
  /\ out = [k \in AllCalls |-> << >>]

-----------------------------------------------------------------------------
(* The submitting threads. *)

This(c) == <<c, call[c]>>

Goto(c, l) == pc' = [pc EXCEPT ![c] = l]

\* The client's call is over and the next one begins.
Return(c) ==
  /\ call' = [call EXCEPT ![c] = @ + 1]
  /\ acmd' = [acmd EXCEPT ![c] = None]
  /\ Goto(c, "ready")

\* The object emplace leaves at an id: if the id has come round in use, the
\* one that is there.
Emplaced(id) ==
  IF command_map[id] = None THEN [result |-> None, mutex |-> None]
                            ELSE command_map[id]

\* setup_async_command: one critical section of command_mutex.  The callback,
\* and with it whose call it is, and completed are assigned in either case.
SetupAsyncCommand(c, callback) ==
  LET cmd == Emplaced(command_id_counter) IN
  /\ pc[c] = "ready" /\ call[c] <= Calls
  /\ command_mutex = None
  /\ command_id_counter' = (command_id_counter + 1) % U16
  /\ command_map' = [command_map EXCEPT ![command_id_counter] =
                       [call |-> This(c), callback |-> callback,
                        completed |-> FALSE, result |-> cmd.result,
                        mutex |-> cmd.mutex]]
  /\ acmd' = [acmd EXCEPT ![c] = command_id_counter]
  /\ Goto(c, "submit")
  /\ UNCHANGED <<command_mutex, call, recvVars, devVars, out>>

\* submit_sq_command, and the return of submit_async_command or the call of
\* wait in submit_sync_command.
SubmitSqCommand(c) ==
  /\ pc[c] = "submit"
  /\ pending' = pending \cup {[id |-> acmd[c], call |-> This(c)]}
  /\ IF command_map[acmd[c]].callback
     THEN Return(c)
     ELSE Goto(c, "lock") /\ UNCHANGED <<call, acmd>>
  /\ UNCHANGED <<command_mutex, command_id_counter, command_map, recvVars,
                 cqes, out>>

\* wait: acquires the object's mutex, also on its way out of cv.wait.
WaitLock(c) ==
  /\ pc[c] = "lock" /\ command_map[acmd[c]].mutex = None
  /\ command_map' = [command_map EXCEPT ![acmd[c]].mutex = c]
  /\ Goto(c, "test")
  /\ UNCHANGED <<command_mutex, command_id_counter, acmd, call, recvVars,
                 devVars, out>>

\* Variant: completed is tested once, not again after cv.wait.
WaitTestOnce(c) ==
  LET cmd == command_map[acmd[c]] IN
  /\ pc[c] = "test"
  /\ command_map' = [command_map EXCEPT ![acmd[c]].mutex = None]
  /\ \/ /\ ~cmd.completed
        /\ Goto(c, "asleep")
        /\ UNCHANGED out
     \/ /\ out' = [out EXCEPT ![This(c)] = Append(@, cmd.result)]
        /\ Goto(c, "remove")
  /\ UNCHANGED <<command_mutex, command_id_counter, acmd, call, recvVars,
                 devVars>>

\* wait: the loop's test.  cv.wait gives the mutex up and sleeps in one step;
\* leaving the block gives it up with the result read.
WaitTest(c) ==
  LET cmd == command_map[acmd[c]] IN
  /\ pc[c] = "test"
  /\ command_map' = [command_map EXCEPT ![acmd[c]].mutex = None]
  /\ \/ /\ ~cmd.completed
        /\ Goto(c, "asleep")
        /\ UNCHANGED out
     \/ /\ cmd.completed
        /\ out' = [out EXCEPT ![This(c)] = Append(@, cmd.result)]
        /\ Goto(c, "remove")
  /\ UNCHANGED <<command_mutex, command_id_counter, acmd, call, recvVars,
                 devVars>>

SpuriousWakeup(c) ==
  /\ pc[c] = "asleep"
  /\ Goto(c, "lock")
  /\ UNCHANGED <<command_mutex, command_id_counter, command_map, acmd, call,
                 recvVars, devVars, out>>

\* The end of wait: remove_async_command.
RemoveWaited(c) ==
  /\ pc[c] = "remove" /\ command_mutex = None
  /\ command_map' = [command_map EXCEPT ![acmd[c]] = None]
  /\ Return(c)
  /\ UNCHANGED <<command_mutex, command_id_counter, recvVars, devVars, out>>

-----------------------------------------------------------------------------
\* The device answers one of the commands it holds.  What it answers, status
\* and result, is told apart by the call it belongs to.
DevComplete(p) ==
  /\ p \in pending
  /\ pending' = pending \ {p}
  /\ cqes' = Append(cqes, [id |-> p.id, result |-> p.call])
  /\ UNCHANGED <<command_mutex, command_id_counter, command_map, clientVars,
                 recvVars, out>>

-----------------------------------------------------------------------------
(* handle_cqe, on the receive thread. *)

HandleCqeReturns == recv_pc' = "idle" /\ cqe' = None /\ release_cmd' = FALSE

ReadCqe ==
  /\ recv_pc = "idle" /\ cqes # << >>
  /\ cqe' = Head(cqes)
  /\ cqes' = Tail(cqes)
  /\ recv_pc' = "find"
  /\ UNCHANGED <<command_mutex, command_id_counter, command_map, clientVars,
                 release_cmd, pending, out>>

\* command_map.find under command_mutex, kept unless there is no such command.
FindCommand ==
  /\ recv_pc = "find" /\ command_mutex = None
  /\ IF command_map[cqe.id] = None
     THEN HandleCqeReturns /\ UNCHANGED command_mutex
     ELSE /\ recv_pc' = "lock" /\ command_mutex' = Recv
          /\ UNCHANGED <<cqe, release_cmd>>
  /\ UNCHANGED <<command_id_counter, command_map, clientVars, devVars, out>>

LockCommand ==
  /\ recv_pc = "lock" /\ command_map[cqe.id].mutex = None
  /\ command_map' = [command_map EXCEPT ![cqe.id].mutex = Recv]
  /\ recv_pc' = "complete"
  /\ UNCHANGED <<command_mutex, command_id_counter, clientVars, cqe,
                 release_cmd, devVars, out>>

\* The threads cv.notify_all finds asleep on the object with this id.
Sleepers(id) == {c \in Clients : pc[c] = "asleep" /\ acmd[c] = id}

\* The callback branch.
CallCallback ==
  LET cmd == command_map[cqe.id] IN
  /\ recv_pc = "complete" /\ cmd.callback
  /\ out' = [out EXCEPT ![cmd.call] = Append(@, cqe.result)]
  /\ release_cmd' = TRUE
  /\ recv_pc' = "unlock"
  /\ UNCHANGED <<command_mutex, command_id_counter, command_map, clientVars,
                 cqe, devVars>>

\* Variant: the waiting thread is not notified.
WakeWaiterSilent ==
  /\ recv_pc = "complete" /\ ~command_map[cqe.id].callback
  /\ command_map' = [command_map EXCEPT ![cqe.id].result = cqe.result,
                                        ![cqe.id].completed = TRUE]
  /\ recv_pc' = "unlock"
  /\ UNCHANGED <<command_mutex, command_id_counter, clientVars, cqe,
                 release_cmd, devVars, out>>

\* Variant: the receive thread releases every command.
WakeWaiterReleases ==
  /\ recv_pc = "complete" /\ ~command_map[cqe.id].callback
  /\ command_map' = [command_map EXCEPT ![cqe.id].result = cqe.result,
                                        ![cqe.id].completed = TRUE]
  /\ pc' = [c \in Clients |-> IF c \in Sleepers(cqe.id) THEN "lock" ELSE pc[c]]
  /\ release_cmd' = TRUE
  /\ recv_pc' = "unlock"
  /\ UNCHANGED <<command_mutex, command_id_counter, acmd, call, cqe,
                 devVars, out>>

\* The branch without a callback: store, then notify.
WakeWaiter ==
  /\ recv_pc = "complete" /\ ~command_map[cqe.id].callback
  /\ command_map' = [command_map EXCEPT ![cqe.id].result = cqe.result,
                                        ![cqe.id].completed = TRUE]
  /\ pc' = [c \in Clients |-> IF c \in Sleepers(cqe.id) THEN "lock" ELSE pc[c]]
  /\ recv_pc' = "unlock"
  /\ UNCHANGED <<command_mutex, command_id_counter, acmd, call, cqe,
                 release_cmd, devVars, out>>

\* The object's mutex is given up while command_mutex is still held ...
UnlockCommand ==
  /\ recv_pc = "unlock"
  /\ command_map' = [command_map EXCEPT ![cqe.id].mutex = None]
  /\ recv_pc' = "leave"
  /\ UNCHANGED <<command_mutex, command_id_counter, clientVars, cqe,
                 release_cmd, devVars, out>>

\* ... and then command_mutex.
LeaveTable ==
  /\ recv_pc = "leave"
  /\ command_mutex' = None
  /\ IF release_cmd
     THEN recv_pc' = "release" /\ UNCHANGED <<cqe, release_cmd>>
     ELSE HandleCqeReturns
  /\ UNCHANGED <<command_id_counter, command_map, clientVars, devVars, out>>

\* Variant: the command of a callback stays in the table.
ReleaseCommandKeeps ==
  /\ recv_pc = "release" /\ command_mutex = None
  /\ HandleCqeReturns
  /\ UNCHANGED <<command_mutex, command_id_counter, command_map, clientVars,
                 devVars, out>>

\* if (release_cmd) remove_async_command(command_id)
ReleaseCommand ==
  /\ recv_pc = "release" /\ command_mutex = None
  /\ command_map' = [command_map EXCEPT ![cqe.id] = None]
  /\ HandleCqeReturns
  /\ UNCHANGED <<command_mutex, command_id_counter, clientVars, devVars, out>>

-----------------------------------------------------------------------------
Client(c) ==
  \/ \E callback \in BOOLEAN : SetupAsyncCommand(c, callback)
  \/ SubmitSqCommand(c)
  \/ WaitLock(c)
  \/ WaitTest(c)
  \/ RemoveWaited(c)

HandleCqe ==
  \/ ReadCqe \/ FindCommand \/ LockCommand \/ CallCallback \/ WakeWaiter
  \/ UnlockCommand \/ LeaveTable \/ ReleaseCommand

Finished ==
  /\ \A c \in Clients : call[c] > Calls
  /\ pending = {} /\ cqes = << >> /\ recv_pc = "idle"

Next ==
  \/ \E c \in Clients : Client(c) \/ SpuriousWakeup(c)
  \/ \E p \in pending : DevComplete(p)
  \/ HandleCqe
  \/ Finished /\ UNCHANGED vars

Spec == Init /\ [][Next]_vars

\* The threads run and the device answers; a thread that wants command_mutex
\* gets it when it is free again and again.
Fairness ==
  /\ SF_vars(HandleCqe)
  /\ WF_vars(\E p \in pending : DevComplete(p))
  /\ \A c \in Clients : SF_vars(Client(c))

FairSpec == Spec /\ Fairness

-----------------------------------------------------------------------------
(* Properties. *)

\* No thread uses an object that was destroyed, or another call's object in
\* its place: neither the client that holds a raw pointer to it nor the
\* receive thread, which still has its mutex to give up after the waiter was
\* woken.
NoUseAfterFree ==
  /\ \A c \in Clients :
       pc[c] # "ready" =>
         /\ command_map[acmd[c]] # None
         /\ command_map[acmd[c]].call = This(c)
  /\ recv_pc \in {"lock", "complete", "unlock"} => command_map[cqe.id] # None

\* Every call is told the device's answer to its own command, and once.
OwnResult ==
  \A k \in AllCalls : out[k] \in {<< >>, <<k>>}

\* No object outlives its call: when everything is done, the table is empty.
TableEmptied == Finished => \A i \in Ids : command_map[i] = None

\* Every call returns: no client waits for ever on the device, the receive
\* thread or a lock.
EveryCallReturns ==
  <>(\A c \in Clients : call[c] > Calls)
=============================================================================

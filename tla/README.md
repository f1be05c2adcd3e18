# A TLA+ model of mcmqhost

mcmqhost is the host side of an SSD simulation: it drives an NVMe controller,
which is either a simulator reached through a socket and a shared memory file
(the *mcmq* backend) or a real PCI device (the *vfio* backend), with synthetic
load from several threads, and writes the statistics to a file. This directory
holds a formal model of it: TLA+ modules, configurations for the model checker
TLC, and proofs checked by TLAPS. Line numbers below refer to the files in
`src/`.

To repeat a check: `tlc -config NvmeQueue.cfg NvmeQueue`, and likewise
for every run of the table in section 4. To repeat the proofs: `tlapm M.tla` for
each of the eight modules M whose name ends in `Proofs`.

## 1. Inventory

### Threads

* **main** (`main.cpp`): sets everything up, starts the load threads, joins
  them, asks for the report, shuts down.
* **one I/O thread per flow** of the workload (`io_thread*.cpp`), each on an
  NVMe queue of its own.
* **the link's receive thread** (`pcie_link_mcmq.cpp` or `pcie_link_vfio.cpp`):
  takes messages or eventfds, and calls the driver's interrupt handler, which
  calls the callbacks of the I/O threads.

The device is the fourth party: it reads and writes the shared memory whenever
it likes.

### Components

| component | source | state | operations |
|---|---|---|---|
| NVMe queue pairs | `nvme_driver.{h,cpp}` | submission and completion ring in shared memory, tail, head, phase | `submit_sq_command`, `nvme_irq`, `cqe_pending`, `update_cq_head`, `ring_cq_doorbell` |
| command table | `nvme_driver.{h,cpp}` | `command_map`, `command_id_counter`, `AsyncCommand` objects, two kinds of mutexes | `setup_async_command`, `wait`, `handle_cqe`, `remove_async_command` |
| PRP lists | `nvme_driver.cpp` | PRP1/PRP2 of a command, list pages, `prp_lists` | `setup_buffer`, `~AsyncCommand` |
| controller start and shutdown | `nvme_driver.cpp`, `main.cpp` | CC, CSTS, admin queue, `queue_count`, `online_queues` | `start`, `reset`, `setup_io_queues`, `set_queue_count`, `create_cq/sq`, `report`, `shutdown` |
| I/O threads | `io_thread.cpp`, `io_thread_synthetic.cpp` | counters, waiting queue, completed queue under `completion_mutex` | `run`, `submit_io_request`, `submit_to_device`, `notify_request_completion`, `wait_for_completed_requests`, `process_completed_request` |
| memory space | `memory_space.{h,cpp}` | list of holes in a table of `NR_HOLES` slots | `allocate`, `allocate_pages`, `free`, `merge_hole` |
| socket link | `pcie_link.{h,cpp}`, `pcie_link_mcmq.{h,cpp}` | socket, `read_requests`, result buffer, `device_ready`, ring buffer | `wait_for_device_ready`, `read_from_device`, `write_to_device`, `report`, `recv_thread`, `stop` |
| VFIO link | `pcie_link_vfio.{h,cpp}`, `pcie_link.cpp` | an eventfd per vector and one to stop, `irq_map`, `stopped` | `init`, `start`, `set_irq_handler`, `recv_thread`, `stop`; registers are loads and stores |
| configuration reader | `config_reader.{h,cpp}` | namespaces and their capacities, flows | `load_host_config`, `load_ssd_config` |
| ring buffer | `ringbuffer.h` | `head`, `tail`, `data_buff` | `writeBuff`, `readBuff`, `readAvailable` |
| main program | `main.cpp` | - | option parsing, order of the phases |
| export, distributions, messages | `result_exporter`, `*distribution*`, `histogram`, `proto/` | none that lives on | sequential computations |

### How they interact

An I/O thread allocates a buffer (memory space), calls the driver, which takes
an id and inserts an `AsyncCommand` (command table), builds the PRPs (PRP
lists, memory space), writes the entry and rings the doorbell (queue pair,
link). The device fetches, executes, writes a completion entry and interrupts.
The link's receive thread runs `nvme_irq`: for every pending entry it looks the
id up, calls the callback, and removes the command; the callback pushes the
request on the I/O thread's queue of completed requests and notifies it. The
I/O thread frees the buffer and submits again. Admin commands take the same way
but have no callback: the caller waits on the `AsyncCommand`. Register accesses
are stores to a BAR (vfio), or messages with an answer for a read (mcmq).

### What is hard, and what correct means

* **Queue pairs.** No lock is shared with the device. Correct: no entry is lost,
  overwritten, or taken twice; the phase tag tells new entries from old ones on
  every lap; every submitted command is handled.
* **Command table.** Two kinds of locks, objects destroyed by whichever thread
  is last, ids that wrap. Correct: nobody uses a destroyed object, every caller
  is told its own answer exactly once, nobody waits for ever.
* **PRP lists.** Written without a lock while other threads allocate and free.
  Correct: while the device has a command, its PRPs name exactly its buffer; the
  pages of the lists come back.
* **I/O threads.** Two threads per flow touch the completions. Correct: the queue
  depth is respected and no slot idles, buffers live as long as their requests,
  no notification is missed, the thread ends with nothing in flight.
* **Memory space.** Correct: blocks never overlap and lie in the mapping, free
  memory is never lost, neighbouring holes are always merged.
* **Socket link.** A stream that can be cut anywhere; answers that may come
  before the reader sleeps; a report in parts. Correct: messages come out as they
  went in, each read returns its own value, the report is whole, the program
  neither misses a notification nor waits for ever.
* **VFIO link.** Interrupts that come while their handler runs, seventeen
  descriptors of which epoll reports two, a stop at any moment. Correct: no
  interrupt is lost or passed over for ever, and no handler runs on a driver that
  is gone.
* **Workload.** Sectors, blocks, bytes, and counts of one less in 16 bits. Correct:
  commands lie in their namespace, and move the blocks of the request.
* **Start and shutdown.** A device left running by an earlier program, slow to
  become ready, failing commands, granting fewer queues. Correct: commands only
  reach a controller that was restarted, threads use queues that exist, the
  report and the shutdown come after the last I/O.

`PROJECT.json` lists each hazard at its line, with the properties that cover it.

## 2. Modules

| module | models | depends on |
|---|---|---|
| `NvmeQueue` | rings, doorbells, phase tags, `nvme_irq`, the device's side of the protocol | |
| `IOThread` | the load generators, down to the two critical sections of `completion_mutex` | |
| `IoPath` | both of them with the command table between: the whole I/O path | `IOThread`, `NvmeQueue` |
| `SyncCommand` | the life of an `AsyncCommand`, lock by lock | |
| `PrpList` | `setup_buffer`, one list entry per step, and the device's reading of the lists | |
| `PageAllocator` | what the allocator promises: an abstract specification | |
| `MemorySpace` | the hole list of the two memory spaces, shown to implement `PageAllocator` | `PageAllocator` |
| `LinkMcmq` | the socket link at the level of messages | |
| `RingBuffer` | the ring buffer's indices and operations | |
| `LinkFraming` | how `recv_thread` cuts messages out of the stream | `RingBuffer` |
| `IrqLines` | what a link promises about interrupts: an abstract specification | |
| `LinkVfio` | the VFIO link: eventfds, epoll, the receive thread, start and stop | |
| `Workload` | namespaces, flows, the requests made of them, the fields of a command | |
| `DriverStart` | the steps of reset, queue creation, threads, report, shutdown, and the device's | `Workload` |
| `HostVfio` | the whole program on the vfio backend: main, link, threads, device; shown to implement `IrqLines` | `DriverStart`, `LinkVfio`, `IrqLines` |
| `MC*` | instances for TLC: symmetry sets, sets of messages, a small device | |
| `NvmeQueueProofs` | the theorems about `NvmeQueue` | `NvmeQueue` |
| `IOThreadProofs` | the theorems about `IOThread` | `IOThread` |
| `IoPathProofs` | the theorems about `IoPath`, from those about its parts | `IoPath`, `IOThreadProofs`, `NvmeQueueProofs` |
| `SyncCommandProofs` | the theorems about `SyncCommand` | `SyncCommand` |
| `PrpListProofs` | the theorems about `PrpList` | `PrpList` |
| `MemorySpaceProofs` | the theorems about `MemorySpace`, that it implements `PageAllocator` among them | `MemorySpace` |
| `LinkMcmqProofs` | the theorems about the socket link: `LinkMcmq`, `RingBuffer` and `LinkFraming` | `LinkMcmq`, `LinkFraming` |
| `HostVfioProofs` | the theorems about `HostVfio` | `HostVfio` |

Names of variables and actions are the source's where TLA+ allows it, and
`PROJECT.json` ("map") gives the lines each definition stands for. What a module
leaves out, or makes a single step, is said at its top. Definitions that no
action uses, next to the one they differ from (`SqNextNoWrap` beside `SqNext`),
are the plausible mistakes that each property is shown to catch.

**NvmeQueue.** `sq`, `cq` are the rings in shared memory, `sq_tail`, `cq_head`,
`cq_phase` the fields of `NVMeQueue`, `sq_db`, `cq_db` the doorbell writes that
are still on the socket (always empty if `Posted` is FALSE, when a doorbell is a
store). `Submit` is `submit_sq_command` with the doorbell it ends in. The receive
thread goes through `RecvIrq`, `PollCq` (`cqe_pending`), `HandleCqe`,
`UpdateCqHead`, `RingCqDoorbell`; between any two of these the device may act.
The device fetches in order, completes in any order, never beyond the head it
was told, and its tag inverts on each lap. Its interrupt sets `irq`, which the
receive thread clears before it polls. `live` is the set of commands between
submission and completion: no action of the driver reads it, the client's limit
and the properties do. Indices are `uint16_t` and wrap at `U16`.

**IOThread.** A request is the number of its submission. The steps of a thread
are the stretches between its calls into the driver and its uses of
`completion_mutex`. `Complete` is the driver calling the request's callback, at
any moment after its submission, also before `submit_to_device` has returned.

**IoPath.** `IOThread` and `NvmeQueue` are instantiated over one state;
`SubmitToDevice` of the one becomes `SetupAsyncCommand` and
`SubmitAsyncCommand`, the latter containing `Submit` of the other; `HandleCqe`
contains the thread's `Complete`. `command_id_counter` starts anywhere, for
nothing initialises it. `Limit` is the smaller of the queue depth and the
average number of outstanding requests.

**SyncCommand.** Steps from lock operation to lock operation: a waiter holds
`command_mutex` only to erase its object, the receive thread holds it while it
looks up, locks the object, sets the result, notifies or calls back, and
unlocks; an object that was given a callback is removed after the lock was given
up and taken again. Condition variables may wake up spuriously. `emplace` on an id
that is in use keeps the object that is there, and `setup_async_command` then sets
its fields anew (`Emplaced`); the runs stay short of that (section 6).

**PrpList.** A cell is the eight bytes of a PRP entry, so that a page of `Page`
cells is a list of `Page` entries. Every entry `setup_buffer` writes is a step,
and the other commands run in between. The device's reading (`DeviceSees`) follows
the NVMe rules: a list's last entry is a link if more entries are needed than
the list has room for; how many pages it looks for is told by the command's
length (`Length`, in blocks less one), not by the buffer. `overrun` is a history variable: it records that an entry
was written outside its list, which happens when a second list is chained (see
section 6).

**MemorySpace.** The linked list over the table of slots is a sequence of holes;
what is left of the table are the free slots. `allocate_pages` is first fit with
the alignment of a page, `free` inserts and then `merge_hole` looks at the two
neighbouring pairs. All clients free with the length they asked for, not the
rounded one. Addresses and lengths of holes are 32 bits wide, and what the
constructors give away comes truncated to that (`Areas`, `U32`); the run's region
is larger than the range, so that it is. `AreasAssumption` asks that something is
left and that it ends within the range: a file of 4 GiB and a page would leave
nothing. `PageAllocator` keeps a set of free cells instead; the refinement
mapping takes the union of the holes. It also says that a request fails only if
no aligned run is free, and that the table overflows only when the free cells
lie in as many separate runs as it has slots.

**LinkMcmq.** The main thread runs `Program`, a sequence of reads and writes, with
the connection and the configuration before it and the report and the stop after
it. One step is one critical section, except in `wait_for_device_ready` and
`set_ready`, which share no lock. The doorbells of the I/O threads are the last
writes of `Program`, for main does nothing between starting and joining the
threads; those of the receive thread (`ring_cq_doorbell` at the end of `nvme_irq`)
are sent by `RecvIrq`, and are the ones the device does not answer with an
interrupt.

**LinkFraming.** Bytes are numbers, a message is a sequence of them, and `Recv`
may return any part of the stream that `MaxTail` allows, or nothing, again and again,
once the stream is over and the device has gone; `RecvFails` is a recv or an
`epoll_wait` that fails, or a wake-up for the other descriptor. `Parse` is the loop
over the ring buffer, with the two places where it breaks off. The ring buffer
is a `RingBuffer` record: free-running `head` and `tail`, masked on use. The
assertion on the first part of a report asks whether `result_buf` is empty
(`ResultBufEmpty`), which it still is after a part that had a length and no more.

**LinkVfio.** `signalled` are the eventfds with a count, `rdlist` is epoll's list:
what `epoll_wait` reports goes to its end (level-triggered), `events` is the
array it fills. Between reading an eventfd and the handler's return the device,
other vectors and `stop` may act. `use` is the link's user on its way through
`start`, `stop`'s flag, wake-up and join. The refinement mapping to `IrqLines`
counts a vector as pending while its eventfd has a count, and its handler as
running from the read of the eventfd on. An index with more vectors than eventfds
would make `init` write beyond `irq_set`, with an undefined outcome;
`IrqCountsAssumption` of `HostVfio` excludes it.

**DriverStart.** Main is a program counter; the device has CC.EN, CSTS and the
queues it created. An admin command is submitted by one step, answered by one of
the device's and taken notice of by a third. `Main` is main's side; the module
states no behaviour of its own.

**HostVfio.** `Host` is main from `link->start` to `link->stop`, with the steps of
`DriverStart` between. A completion is posted and its vector signalled by the
device (`Post`); only when the receive thread has come round to `NvmeIrq` does the
admin command or the thread's request complete. Threads make requests of their
flow (`Workload`) one at a time, as many as they like, and use the queue of their
number: one that was allocated but not created is never answered, one that was
not allocated aborts the program.

**Workload.** Positions are all that either distribution may return, aligned;
the size is the flow's mean.

## 3. Assumed of the device, and fairness

The device is external. In `NvmeQueue` it keeps to the protocol stated above: it
never completes into a slot it was not told is free, completes each command once,
and interrupts after the entry. In `LinkMcmq` it answers each read with the id of
the request. In `HostVfio` it obeys CC.EN, executes what it finds on queues it
created, interrupts after posting, and with `MayFail` it may fail any admin
command or break down.

Safety runs use no fairness. Liveness runs assume:

| module | assumed | why |
|---|---|---|
| `NvmeQueue` | WF of the receive thread; WF of the device's taking doorbells and fetching; SF of each `DevComplete` | an OS thread that can run is scheduled; a controller works through its queues. SF, because room in the completion ring comes and goes while others use it |
| | SF of `RecvIrq(q)` | the thread is busy with another queue again and again, but the socket is FIFO (mcmq) and epoll's ready list is served in turn (vfio): `ImplementsIrqLines` of HostVfio derives it for vfio from the weak fairness of the receive thread |
| `IOThread` | WF of each thread, WF of each `Complete` | scheduling; the driver answers, which `IoPath` shows |
| `IoPath` | WF of every thread, of `RecvIrq(t)`, and of the device as a whole | weaker than for `NvmeQueue`: there are finitely many requests, so none is passed over for ever |
| `SyncCommand` | SF of each thread | each needs a mutex that is free again and again; the mutexes of the platform do not starve anybody for ever |
| `LinkMcmq` | WF of main, the receive thread, the device | scheduling, and a device that answers |
| `HostVfio` | WF of main, of the receive thread, of the device's reaction to CC and to admin commands, and of its completing the I/O of each queue | the same. Nothing makes a thread submit or end: that is its workload's matter, and `EveryIoCompletes` holds whatever the others do |

A spurious wakeup may happen at any time but is never required to.

## 4. Runs

### Runs that pass

| run | shows | bounds, and why they are enough |
|---|---|---|
| NvmeQueue | nothing is lost, doubled or taken twice, the phase test is right, every command is handled, over any number of laps | one queue of 3 entries, 2 commands out, doorbells in flight: the rings go from empty to as full as allowed at each position, and no counter limits the laps. Queues share nothing but the receive thread (IoPath has two); larger rings and direct doorbells are the theorems' |
| IOThread | counters and queue depth, buffers' lifetime, no idle slot, order of dispatch, the closed loop, and that the thread ends with nothing outstanding | queue depth 3, 5 outstanding of 8: waiting and in-flight requests at once, and replacements that meet a waiting queue |
| IoPath | the right callback for each completion; the table holds just the commands in use; the path implements `IOThread` and `NvmeQueue`; all threads end | 2 threads with 2 requests each and direct doorbells; 4 ids, counted from any start value, so the counter wraps; an id is not needed twice |
| SyncCommand | no use after destruction, each caller its own answer, table emptied, every call returns: the two kinds of locks do not block each other | 2 threads, 2 commands each, waiting or with callback; 4 ids for 4 calls |
| PrpList | what the device finds through the PRPs for the command's length is the buffer, while it has the command; pages are private; every page of every list comes back | 2 commands at once, twice each; buffers of 1, 2, 2 1/2, 3 and 4 pages with lists of 2 entries: PRP1 only, PRP1 and PRP2, one list, two lists; 12 pages, few enough for the allocation of a buffer, of the first list and of the second to fail |
| MemorySpace | no overlap, merged and aligned holes; implements `PageAllocator` | 4 pages (shared memory) or 6 (VFIO), 3 slots, lengths of 0 to 2 pages, one of them not whole pages, and a memory whose size is cut down to the range of addresses: every order of operations, hole table full, memory exhausted |
| LinkMcmq | reads right, report whole, no interrupt dropped, the run completes | 2 reads, 2 writes, each of which may cause an interrupt, and the doorbells those cause, a report of 3 bytes in every split, 2 read ids that wrap |
| LinkFraming | what is dispatched is what was sent, as soon as it is there | all streams of up to 5 messages of 4 types, cut at message boundaries or inside a length; up to 45 bytes through a ring of 16 with indices of 0 to 31: both wrap; the start of a length and one recv fill the ring to its last byte; nothing received at the end, failures of recv at any time |
| HostVfio | commands reach only a restarted controller; the link implements `IrqLines`; I/O on an online queue with a vector completes; commands lie in their namespace; no handler without a driver; the program ends | 4 flows on 2 namespaces, of one, one and a half and two blocks, aligned or not, with a capacity that passes 32 bits and pages of more bytes than a block has pages; a device that may be running already, grant 1 to 5 queues, fail any admin command, break down or have too few vectors; 4 vectors and room for 2 events, so that three I/O vectors and the stop event compete for them and the last queue has none; no bound on requests |

Deadlock is checked except where the program may stop: `MemorySpace` and
`PrpList` end in an exception nobody catches, an abort or with the last call made,
and in `HostVfio` a thread whose queue could not be created or has no vector, or a
device without vectors, leaves the program waiting for ever (`HostEnds` names them).

### Runs that find a disagreement

| run | what it shows |
|---|---|
| IoPathRingOverrun | `submit_sq_command` (nvme_driver.cpp:308) has no test for a full ring, and `main.cpp` gives threads and rings the same depth: with `queue_depth` requests in flight the tail meets the head and the program hangs |
| LinkMcmqReady | `wait_for_device_ready` and `set_ready` share no mutex (pcie_link.cpp:19): a notification can be lost |
| LinkFramingSplit | `last_len` is forgotten between two calls of recv (pcie_link_mcmq.cpp:211): a message cut after its length is misread |

The passing runs of the same modules are on the other side of these lines: in
IoPath fewer requests are outstanding than the ring has entries; LinkFraming is not
cut inside a message; LinkMcmq's liveness starts where `wait_for_device_ready`
was passed.

## 5. What is proved

Every theorem holds for all values of the constants that satisfy the module's
assumptions and the hypotheses named here. The assumptions are of two kinds: that
numbers are numbers, and (`NoneAssumption`, `DriverStartAssumption`) that `None` is
no value of the types it stands beside. Two more exclude what the code does not
survive: `AreasAssumption` a memory of which 32 bits leave nothing, and
`IrqCountsAssumption` a device of more vectors than `init` has room for. `SyncCommand` also tells the receive thread from the clients,
and in `LinkFraming` a message is at least its type and its length fits in two
bytes.

### NvmeQueue (`NvmeQueueProofs`)

For every set of queues, every set of commands and both kinds of doorbells:

| theorem | states | hypotheses |
|---|---|---|
| `TypeCorrect` | `Spec => []TypeOK` | none |
| `PhaseIsExact` | `PhaseExact` always holds | `Depth < U16` |
| `NothingLost` | `NoCommandLost` always holds | `Depth < U16`, `Limit < Depth` |
| `CompletedOnce` | `OnePlace` always holds | the same |
| `EveryCompletionKnown` | `CompletionIsLive` always holds | the same |

`Depth < U16` says that the 16-bit head can reach the depth it is compared with:
a ring of 65536 entries would wrap by overflow, not by the test, and never
invert its phase. `Limit < Depth` is the condition IoPathRingOverrun violates.

*The phase.* `PhaseExact` says that the tag at the head agrees with `cq_phase` just
when there is an unhandled entry. It is not inductive: nothing in it says
what tags lie elsewhere in the ring. `PhaseInv` adds, for each queue,

* `CqOrder`: the device's idea of the head, the doorbells on the wire, the
  driver's head and the device's tail follow each other around the ring in this
  order, measured as distances from the first;
* `PhaseTags`: slots before the device's tail carry its present tag, those
  from the tail on carry the other;
* `PhaseAgrees`: the driver's and the device's phases agree exactly if the
  head is not behind the tail by a wrap (`cq_head <= dev_cq_tail`);
* `EntryAtHead`: while an entry is handled, the ring is not empty.

*The commands.* `NoCommandLost`, `OnePlace` and `CompletionIsLive` follow from
`SafeInv`, which relies on `PhaseInv` (the poll must find real entries only):

* `SqOrder`: the same order for the submission ring;
* `Counted`: entries in the submission ring, plus executing commands, plus
  unhandled completions make up the number of live commands, which `Limit`
  bounds: hence the tail never catches up with the head;
* `Placed`: the live commands are exactly those in the three places, the places
  are disjoint, and no ring holds one twice.

Lemmas on distances and windows (`DistShift`, `DistNext`, `WinGrows`,
`WinShrinks`) keep ring arithmetic out of the steps. `RingInv` is the whole
invariant.

### IOThread (`IOThreadProofs`)

For any threads, queue depth, number of requests and average, without hypotheses:

| theorem | states |
|---|---|
| `InflightIsExact` | `Spec => []InflightExact` |
| `BuffersAreHeld` | `Spec => []BufferHeldWhileOutstanding` |
| `NoneWaitsForNothing` | `Spec => []WorkConserving` |
| `NoneOvertakes` | `Spec => []InOrderDispatch` |
| `LoopIsClosed` | `Spec => []ClosedLoop` |

None of the five is inductive, for each speaks of sets where the code has queues,
or of some program points only. `IInv` says per thread: no queue holds a request
twice (`Places`; without it the callback could raise the set and not the count);
`Batch` and `Room`, which say where in the loop there is no batch, and where the
slot of a completion has been filled again; `Sorted` waiting requests (`Order`);
and how many are submitted at *every* point of the loop (`Replaced`), not only
where the thread waits. A thread's variables are its own: `Frame` and `Others`
reduce a step to one thread, and `SubmitStep` is the lemma for the three callers
of `submit_to_device`.

### The command table (`SyncCommandProofs`)

For any threads and number of calls:

| theorem | states |
|---|---|
| `NoneIsFreedInUse` | `Spec /\ []FreshId => []NoUseAfterFree` |
| `AnswersAreOwn` | `Spec /\ []FreshId => []OwnResult` |
| `TableIsEmptied` | `Spec /\ []FreshId => []TableEmptied` |
| `IdsAreFresh` | `FewCalls` implies `Spec => []FreshId` |
| `FewCallsAreSafe` | `FewCalls` implies that all three properties hold, with no condition on ids |
| `NoWakeupIsLost` | `Spec /\ []FreshId => []NoLostWakeup` |
| `NobodyIsStuck` | `Spec /\ []FreshId => []NobodyStuck` |
| `FewCallsEnd` | `FewCalls` implies the last two, with no condition on ids |

`FreshId` says that the id `setup_async_command` would take is not in use. It is a
condition the code does not check (section 6), so the theorems name it; `FewCalls`
(no more calls than ids, 65536) is a condition on the workload alone under which
it is a theorem, wherever the uninitialised counter starts: `Young` measures
how many ids were given after one that is in use, and that is less than the
calls begun.

`SInv` follows an object from `emplace` to `erase`. `Held` and `Owned` tie a client
to its object in both directions: a client with a pointer has a live object of
its present call, and an object of an earlier call has a callback and an answer
still coming (`Coming`), or nobody would remove it. `Answers` and `OneAnswer` say that
an id is on its way in one place only, and to the object it was given for.
`Handled` is what the locks are for: the receive thread holds `command_mutex` just
while it may touch the object, and its local `release_cmd` still says whether the
object has a callback. That the waiter may erase as soon as the receive thread
unlocks is safe because of these, not because of the object's own mutex.

The object's own mutex is for the last two. `NoLostWakeup` says that a client
without a result is owed one (`Awaited`: the device has its command, or an entry
carries the answer, or the receive thread is about to store it), and that one
asleep has no result yet, for `cv.wait` tests and sleeps under the mutex that the
result is stored under. `NobodyStuck` says that until every call has returned
the guard of some client, the device or the receive thread holds, `SpuriousWakeup`
not counted: neither the two kinds of locks nor a sleeper and the device wait on
each other in a circle. (TLC's check for deadlock cannot say this, for a spurious
wake-up always gets the model out of a sleep.) Besides `SInv` it takes that who
holds an object's mutex is at a place where it gives it up (`MutexHeld`).
`CanMove` lists the guards, since ENABLED is out of the provers' reach. They are
what `EveryCallReturns` comes down to for any number of threads; the fairness that
turns a guard into a step is left to TLC.

### The I/O path (`IoPathProofs`)

For any threads, workload and depths with `Limit < Depth` and `Depth < U16`:

| theorem | states |
|---|---|
| `CallbacksAreRight` | `Spec /\ []FreshId => []RightCallback` |
| `CommandMapIsExact` | `Spec /\ []FreshId => []CommandMapExact` |
| `PathImplementsIOThread` | `Spec /\ []FreshId => ImplementsIOThread` |
| `PathImplementsNvmeQueue` | `Spec /\ []FreshId => ImplementsNvmeQueue` |
| `IdsAreFresh` | `FewRequests` implies `Spec => []FreshId` |
| `SmallWorkloadsAreRight` | `FewRequests` implies all four, with no condition on ids |

The proof is by composition. `IOThreadProofs` and `NvmeQueueProofs` are
instantiated over the path's variables (`TP`, `QP`), and `StepsImplement` shows
that a step of the path is a step of each, or leaves it alone; hence their
invariants hold of the path without being proved again. What each side assumes
of the other is what the other's invariant gives: the rings need the threads to
keep below `Limit`, which is `inflight <= QueueDepth` and the closed loop of
`IInv`; the threads need each request to be completed once, which is `SafeInv`
through the command table. `TableInv` is the part of its own: a live command's id
names its thread and request (`Registered`), so does that of one being submitted
(`Prepared`), and no entry of the table is without a use (`NoLeak`). `FewRequests` is
to this module what `FewCalls` is to `SyncCommand`.

### PRP lists (`PrpListProofs`)

For any commands, page size, memory and lengths:

| theorem | states | hypotheses |
|---|---|---|
| `PagesArePrivate` | `Spec => []PagesPrivate` | none |
| `PagesComeBack` | `Spec => []PagesReturned` | none |
| `TransfersAreExact` | `Spec => []TransferExact` | `Page < U16` |

The first two follow from `Owned`, in which buffers and lists are *places*, each
with its cells: places are disjoint from each other and from what is free
(`Apart`), and every whole page is free or in a place (`Accounted`), so nothing is
lost on the way either. They hold also after entries were written outside a list:
ownership does not depend on what is in the memory. `TransfersAreExact` adds
`Right`: what `setup_buffer`'s locals, PRP1, PRP2 and the first `n` entries of the list
are, at each round of its loop; `Owned` is what keeps the other commands' writes
out of the list. `Page < U16` (a list of 512 entries) makes the command's length,
in blocks less one, what the buffer has. Up to the first entry outside its list
a command has one list at most, so the recursion of `Entries` over chained lists is
unfolded once (`EntriesOfOneList`); chained lists are TLC's.

### Memory space (`MemorySpaceProofs`)

For any page size, size of the memory, width of addresses, slots and lengths, if
`IovaBase % Page = 0`
(it is 0 for the shared memory, and `main.cpp:110` gives the VFIO space 4096):

| theorem | states |
|---|---|
| `HolesAreMerged` | `Spec => []HolesMerged` |
| `CellsAreExclusive` | `Spec => []NoOverlap` |
| `HolesAreAligned` | `Spec => []AlignedHoles` |
| `SpaceIsPageAllocator` | `Spec => ImplementsPageAllocator` |

`Space` is short: holes in order and apart, all at page boundaries, blocks disjoint
from holes and each other. The work is in its lemmas about sequences of holes:
`Loose(s, A)` says that holes are in order and apart but for those at the positions
of `A`, which may touch the next. `free` inserts a hole that may touch both its
neighbours (`InsertedLoose`), and each of `merge_hole`'s two looks takes one
position out of `A` (`Merged`), so two looks are enough after any history; that
nothing is lost or gained by either is `Absorbed`. For the refinement,
`FailsForAll` shows that first fit over the merged holes fails only if no aligned
run of free cells is long enough, and `HolesAreRuns` that the number of holes is
the number of runs of free cells, on which the abstract allocator's overflow
depends: it is false of a list with two touching holes.

### Socket link (`LinkMcmqProofs`)

*Messages* (`LinkMcmq`). For any program of reads and writes, any number of ids, any
result:

| theorem | states |
|---|---|
| `ReadsAreRight` | `Spec => []ReadsRight` |
| `ReportsAreWhole` | `Spec => []ReportWhole` |
| `NoIrqIsDropped` | `Spec => []NoIrqDropped` |

`Link` says of both directions of the socket what may be under way. `Reads`: a
read is at one place only, as a request to the device, as an answer, or done
(`Requested`, `Answered`, `Completed`), so an id that is used again finds no old
answer. `Irqs`: while there is no handler the main thread has written no register.
`Reports`: the bytes collected, then those in the socket, then those unsent are
together the report; since the device cuts where it likes, the bytes in the socket
are told by the positions of the cuts (`Cut`), every two of which bound one
message. Messages of other types pass between them: `UpMoves` and `DownMoves` say
once for all actions what a step does to messages of a type (`Keeps`), and the rest
of the proof looks only at the type it is about. That the modelled device sends
at least one byte with the length is needed (hazard at pcie_link_mcmq.cpp:297).

*Bytes* (`LinkFraming`). For any streams of messages, any sizes
of `rbuf`, of the ring buffer and of its indices:

| theorem | states | hypotheses |
|---|---|---|
| `RingWrites` | `WriteBuff` appends to what the ring buffer holds | there is room |
| `RingReads` | `Bytes` are the oldest bytes, and `ReadBuff` takes just those out | as many are there |
| `SocketFramesExact` | `FramingSpec => []FramesExact` | `CutsShort` |
| `SocketPrompt` | `FramingSpec => []Prompt` | `CutsShort` |
| `SocketAssertsHold` | `FramingSpec => []AssertsHold` | `CutsShort`, messages `WellFormed` |

`CutsShort` has two parts. `MaxTail <= 2`: recv returns at most the length of an
unfinished message, which are the cuts that the loop copes with; LinkFramingSplit
is a run with others, and all three are false there. `Rbuf + MaxTail <=
BufferSize`: what is left over and one more `rbuf` fit in the ring buffer (4096 and
16384 in the code, 14 and 16 in the run), for `writeBuff` drops without a word what
does not. `WellFormed` says that a message is as long as its type has it, which is
what the assertions of the loop are about.

`InRing(r, w, a, b)` says that the ring buffer `r` holds the bytes of the stream `w`
from position `a` to `b`: its indices are `a` and `b` modulo their range, and each
byte is in the cell its position has modulo the size. That indices that wrap lead
to the same cells needs the range to be a multiple of the size (`Turns`); that they
tell a full buffer from an empty one, that it is more than the size.
`Layout(s, e)` gives each message of a stream the byte `e[k]` at which it ends.
`FramingInv` says that after some `k` messages the ring buffer holds the bytes from
`e[k]` to what recv has returned, that `last_len` is empty whenever the loop tests,
and that the thread goes to `epoll_wait` only when `k` is the number of messages
that have arrived. One round of the loop then takes the next message's length,
which the cuts leave whole, and with it either all of the message or nothing
(`MoreIsWhole`, `RoundReads`); recv only moves `b` (`Arrival`).

The stream is a fold over its messages (`FlattenSeq`), so that messages lie where
`Layout` says, and that there is a number of arrived messages, are inductions over
data. The library's induction theorems are out of reach, and the proofs argue by
the least counterexample instead (`PrefixesExist`, `Flattened`, `Laid`): a
definition in place of the operator parameter, and its smallest member by
`LeastNat`.

### The program on vfio (`HostVfioProofs`)

For any flows, namespaces, grants, numbers of vectors and room for events:

| theorem | states | hypotheses |
|---|---|---|
| `AdminReachesController` | `AdminReaches` always holds | none |
| `HandlersEnd` | `HandlerHasDriver` always holds | none |
| `LinkKeepsIrqLines` | `HostSpec => Lines!Spec`: the program implements the safety part of `IrqLines` | none |
| `CommandsAreInside` | `CommandsInside` always holds | `FlashHypothesis`, `FlowsHypothesis` |
| `OnlineQueuesAreThere` | `OnlineQueuesExist`: a queue counted as online exists at the device | none |
| `LinkStopsIdle` | `StopsIdle`: `stop` is called with no command outstanding | none |
| `EventReadsReturn` | `ReadsNeverBlock`: an eventfd is read only while it has a count | none |
| `CompletionsAreHeard` | `NoCompletionForgotten`: what is posted is waited for, and on its way | none |
| `DeafDriverNeverRuns` | `DeafDriverWaits`: without eventfds the first command is never answered | none |

The invariant `HostInv` has four parts: `Restarted` says what CC, CSTS and the
device's admin queue are at each step of `reset` (alone, `AdminReaches` says
nothing of the waits that lead to it); `AdminFirst`, that there are no threads
while admin commands are made, so that nothing ends main in the middle of one;
`HandlerFirst`, that before the handler is set no eventfd has a count; and
`JoinedAfter`, that main is past `stop` only when the receive thread has ended.
The refinement needs no invariant: by the mapping of `Pending`, `Busy` and `Open`
each step is one of four kinds, which a lemma each shows to be a step of
`IrqLines` (`QuietStep`, `WriteStep`, `ReturnStep`, and the reading of an eventfd,
which is `Take`).

`CommandsAreInside` is arithmetic (`CapacityFits`, `RequestPlace`, `CommandInside`) on
an invariant that only says which commands there are (`Issued`). Its hypotheses are
the limits section 6 describes: `FlashHypothesis`, that a block has no more pages
than a page has bytes; `FlowsHypothesis`, that requests have at least one block
and at most 65536, are aligned to their size or more (or are unaligned and shorter
than two blocks), in namespaces of a whole number of alignments. Whether the
capacity wraps in 32 bits does not matter, for that only makes it smaller.
`workload.yaml` and the run's instance satisfy both.

The last five are the safety behind `EveryIoCompletes` and `HostEnds`, whose own
statements need fairness: a command on an online queue is executed, and its
completion, once posted, stays on its way (in the eventfd's count, then in the hands
of a handler that has not looked yet) to a command that still waits, with the link
running. They follow from `HeardInv`, which adds four parts to `HostInv`:

* `Created`: which queue main creates, and what an admin command that was answered
  has done at the device. While the controller is up nothing takes a queue away.
* `Draining`: commands belong to threads that run, threads run while main joins
  them, and `stop` comes after. (That the device cannot answer after main has gone on
  is `AdminFirst`.)
* `Watched`: every descriptor with a count is in epoll's list, which has none
  twice; events reported and not yet done have their counts. That the list
  has none twice is what keeps an event from being read away under a second
  report of it.
* `Owed`: what is posted is waited for; on a routed vector it is signalled, or its
  handler has read the count and not yet looked.

What `epoll_wait` reports is defined by recursion over the ready list (`Ready`).
`Induction` gives induction up to a number for a set in the place of a predicate;
with it `ScanExists` shows that the recursion has a solution, `ReadyFound` what it
contains, and `EpollReports` what one call of `epoll_wait` does to list and events.
TLC agreed with the parts of `HeardInv` and with the five properties on the run's
instance before they were proved.

### Only model-checked

* All liveness, with it the fairness half of `ImplementsIrqLines` (`Lines!FairSpec`):
  it needs fairness and ENABLED, which the provers do not handle.
* The streams that recv cuts behind a length: the code fails on them
  (LinkFramingSplit), so there is nothing to prove.
* Lists chained to lists in `PrpList`, as said above.
* That the constants of a run are an instance of the hypotheses is for TLC to
  show: each run satisfies those of its module, except where section 4 names a
  disagreement, or section 6 the limits.

The proof modules for `PrpList`, `MemorySpace` and `HostVfio` each state the facts on
division and multiples they need, and most leaves cite them instead of arithmetic.

## 6. Where the runs stop short

Places where the code does what it should not are outside the states the
runs check, and stated here instead:

* **Ids in use.** `setup_async_command` takes ids without a look at the table
  (nvme_driver.cpp:197); `emplace` keeps the old object and its callback is
  overwritten. After 65536 commands an outstanding command's callback can be
  replaced. IoPath with three ids for four commands shows it: `RightCallback` and
  `CommandMapExact` fail.
* **Chained PRP lists.** When a second list is chained, `i` is not set back
  (nvme_driver.cpp:246), so entries are written behind the list. `TransferExact`
  is stated up to the first such entry (`overrun`); the other two properties of
  `PrpList` hold even so.
* **Too few queues.** `start` accepts fewer granted queues than there are flows,
  and goes on after a queue that could not be created (nvme_driver.cpp:443, 449).
  In the first case the thread submits through an `NVMeQueue` that is all zeros:
  on vfio an assertion of `MemorySpace::write` ends the program (`SubmitAborts`),
  on mcmq the entry goes to page 0 and the thread waits. In the second it waits
  for ever; `HostEnds` excepts it by asking that every thread is done with its I/O
  in the end.
* **Too few or too many vectors.** A device with fewer than 16 is given no eventfd
  (pcie_link_vfio.cpp:109) and the program hangs in its first admin command; one
  with more overruns `irq_set` (117), which `IrqCountsAssumption` excludes. Queues
  beyond the vectors are not heard of: the run has one, and `EveryIoCompletes` says
  that the others do not suffer.
* **Sizes that are no whole blocks.** The command's length is cut down to blocks,
  and wraps to 65536 blocks below one (nvme_driver.cpp:610), while the PRPs are
  made for the whole buffer: for two blocks and a half the device takes PRP2,
  a list, for its second page. `TransferExact` speaks of whole blocks, as the flows
  of `workload.yaml` have and the defaults give; `CommandsInside` also of sizes that
  are cut down, but not of those below a block. (A position inside a block is cut
  down to its start.)
* **Capacities.** `load_host_config` multiplies in 32 bits, and by the pages of a
  block in the place of the bytes of a page (config_reader.cpp:256). In the run the
  product wraps and a page has more bytes than a block has pages, as in
  `ssdconfig.yaml`; then the threads see less than there is. With more pages than
  bytes they would go beyond it, and `CommandsInside` would fail.
* **Positions near the end.** Without alignment a request of two blocks or more may
  begin at the last sector and end outside the namespace
  (io_thread_synthetic.cpp:61); `CommandsInside` is about the other flows.
* **Unknown namespaces.** main returns with the receive thread running (main.cpp:136);
  `HandlerHasDriver` is about the way through `stop`.
* **VFIO region.** `VfioMemorySpace` gives the allocator `iova_base` more than it
  mapped (memory_space.cpp:227). `MemorySpace` starts from what is given.

## 7. Not modelled

* **Setting up** the socket, the VFIO group, the mappings and the shared memory
  file (`init`, `map_dma`), and option parsing: system and library calls in a row,
  before anything runs concurrently. Of the VFIO `init` the routing of vectors is
  modelled, with the ioctls succeeding.
* **Doorbell buffer** (`dbbuf_config`): main passes `use_dbbuf = false`. A store
  the device sees at once, `Posted = FALSE`, is how it would behave.
* **`NVMeDriver::read` and `write`**: have no caller in the program; the I/O threads
  use `read_async` and `write_async`. (While reading: `write` submits a read,
  nvme_driver.cpp:632.)
* **Requests' direction and random sizes** (`generate_request`): the direction
  changes an opcode only; a normally distributed size is a flow of another size.
* **Register addresses**: opaque in `LinkMcmq`. (While reading: `send_message`
  shifts the high half of an address out of the 32 bits it stores it in,
  pcie_link_mcmq.cpp:69; register offsets are small.)
* **Result exporter, distributions, histogram**: formatting and floating point,
  without state that lives on.
* **SSD configuration** (`load_ssd_config`) and **protobuf**: one assignment per
  field, and generated code. A configuration and a report are opaque in
  `LinkMcmq`.
* **The rest of the ring buffer** (`insert`, `remove`, `peek`, the versions with
  callbacks) has no caller.
* **A simulator that goes away** in the middle of something: `recv` then returns 0
  for ever (pcie_link_mcmq.cpp:224), which `LinkFraming` has at the end of its
  streams, but `LinkMcmq`, where readers and report would wait for ever, has not;
  the code has no reaction to it.
* **Statuses of I/O commands**: the callback ignores them (io_thread.cpp:112).
* **Time**: statistics only. No timeout exists in the program; `wait_ready` spins.

## 8. Plan

Written, in this order: NvmeQueue and its proofs, IOThread, IoPath, SyncCommand,
MemorySpace with PageAllocator, LinkMcmq, LinkFraming, DriverStart, PrpList,
LinkVfio with IrqLines, Workload, HostVfio with its proofs, RingBuffer; then the
proofs of IOThread, SyncCommand, IoPath, PrpList, MemorySpace and LinkMcmq; last the
proofs of LinkFraming with its RingBuffer, of the wake-ups of SyncCommand, and of the
way of a completion through HostVfio.

Every invariant and every action property that a run checks and that holds is now a
theorem, under the hypotheses section 5 names. The lemmas that more than one module
needs, on division and on induction up to a number, are stated in each; a module of
their own would be the next step.

To be modelled, if more is wanted: the composition of `LinkMcmq` with
`DriverStart`, as `HostVfio` is for the other backend, and a simulator that goes
away.

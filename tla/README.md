# A TLA+ model of the protoDUNE data acquisition

proto-dune reads the cold electronics of a protoDUNE detector module. The firmware frames the
front end's data (and may compress it) and hands frames and timing messages to a processor, the
RCE; `software/protoDUNE` runs there. Its core, `protoDUNE/DaqBuffer.cpp`, keeps the latest frames
of two destinations, gathers on every trigger the frames of a window around it into an event, and
sends the events over TCP or RSSI. Around it stand a control server with its device tree, the
register link to the hardware, and a DMA driver.

This directory models that core and these parts in TLA+, checks small instances with TLC and proves the main
invariants, for every value of the constants, with TLAPS. `PROJECT.json` maps each definition to
the lines it is read from, and lists the runs, the mutants, the hazards and the findings.

    tlc -workers 2 -config MCRxRunTriggers.cfg MCRxRun     # a run
    tlapm RxRunProofs.tla                                  # the proofs

Paths below are relative to `src/software/protoDUNE/protoDUNE/` unless they begin with `generic/`.

## 1. The system

| component | state | operations | hard behaviour |
|---|---|---|---|
| pointer queue `generic/CommQueue` | ring, read and write index, count | push, pop, each with at most one timed wait | one condition variable for both sides; a local computed before the wait |
| frame list `List-Single.hh` | forward links, a backward link in the head | insert_tail, insert_head, remove_head | sequences of legal calls that reach an odd state |
| event builder `DaqBuffer::rxRun` with `Event`, `LatencyList`, `EventPool`, `SoftTrigger` | fd_set, run mode, event in progress, latency lists, pool | one turn of the select loop | two asynchronous channels, late triggers, lost frames, configuration written without a lock |
| transmitter `DaqBuffer::txRun` with `TxMessage`, `RssiIovec`, `Event::free` | the event sent, its message | take, build, send, free | buffers and descriptors that come back in any order and are in use again |
| front-end DMA `DaqDmaDevice` | buffers, their owner | read, free, write, allocateWait | the driver answers whenever it likes |
| life cycle of `DaqBuffer` | three threads and their flags, devices, queues, the connection, run mode | open, close, enableRun (enableTx), disableRun, the resets, setConfig | eight steps of open that may fail; joins of threads that block; a descriptor number used after its close |
| register link `generic/CommLink`, `MultLink`, `MultDest*` | a slot and two counters for each kind of request | registers, commands, transfers, run command; transmit and receive thread | a late answer after a retry; a slot overwritten; counters read twice without a lock |
| control server `generic/ControlServer`, `System`, with `ControlCmdMem` | clients, configuration, pending announcements, the counters and fields of the shared memory | one pass: select, accept, read, command, poll, acknowledge, broadcast | a program in another process with no lock and a timeout; errors amid a change |
| DMA driver `AxiStreamDma/driverV3_4.00` | FIFOs of the firmware, two semaphores, the marks of the buffers | open, close, read (copy, user, post), write | register reads that take words off; sleeps with a semaphore held |
| frame contents (`FrameBuffer`, `WibFrame`, records) | bit layouts | time range, indices | edges of windows, truncated frames |
| data ring `DataSharedMem` | ring, counters | write, read | two processes, no lock |
| device tree, register maps | variables, registers | XML | |
| firmware (VHDL, HLS), receivers, scripts | | | |

How they interact. The DMA delivers frames of destinations 0 and 1 to the data channel and
timing messages to the timing channel; `rxRun` selects on both. A finished event goes through
`_txReqQueue` (a CommQueue) to `txRun`, which returns the frames to the DMA and the descriptor to
the event pool (another CommQueue). Configuration and run mode are written by the command thread
straight into `_config`, field by field; that thread also opens and closes the DAQ and connects it to the
receiver while `txRun` may be sending. It is the thread of the control server, which serves connected
clients and one program on a shared memory, and reaches registers and commands of the hardware through the register
link. `RxRun` and `TxRun` have the DAQ between opening and closing; `DaqLife` has what is around that,
with the two threads reduced to what they use.

What makes each correct:

* the queue is a bounded FIFO whatever its callers' timing, and its count is the number of pointers in it;
* the list keeps what was put on it, in the order its comments promise;
* the event builder gives an event all frames of its window and only once, loses no buffer, event or
  trigger, keeps its bookkeeping consistent, and completes what it started;
* the transmitter never uses what it has given back, never loses a buffer or a descriptor, and
  sends messages whose lengths are those of what was written;
* no thread runs without what it uses, nothing is left after a close or a failed open, and events go to the receiver;
* a register access that succeeds was answered for itself, and what the program believes of a register is true;
* a command that is acknowledged was done once and its failure told; everybody who listens has the configuration that holds;
* a DMA buffer is in one place, and what a program holds the firmware does not have.

## 2. The modules

| module | models |
|---|---|
| `BoundedFifo` | what a CommQueue promises: the abstract specification |
| `CommQueue` | the ring with sleeps and wake-ups; `ImplementsFifo` is the refinement |
| `CommQueueProofs` | proofs about it |
| `SingleList` | what the list operations do, as operators on a record |
| `ListSingle`, `ListSingleProofs` | the pointers; `BehavesAsSingleList` ties them to `SingleList`; proofs |
| `RxRun` | the event builder and what is around it; it uses `SingleList` |
| `RxRunProofs` | proofs about its bookkeeping, and about the frames: their order, where they are, what an event has, when events are complete |
| `TxRun` | the transmit thread down to the links of the nodes |
| `TxRunProofs` | proofs about it |
| `DaqLife`, `DaqLifeProofs` | open, close, run control and connection of DaqBuffer, with its threads; proofs |
| `CommLink`, `CommLinkProofs` | the register link between caller, transmit thread, receive thread and hardware; proofs |
| `ControlServer`, `ControlServerProofs` | a pass of the server, its clients, and the program on the command memory; proofs |
| `DmaDriver`, `DmaDriverProofs` | the DMA driver, its firmware and a program with several threads; proofs |
| `MC...` | the instances, one module and one or several configurations for each; `MCRxRunTriggers` adds the hypothesis `Steady` of the theorems, so that TLC evaluates it |

### CommQueue

A call holds the mutex except inside its one `pthread_cond_timedwait`, so a call that does not wait
is one action (`Push`, `Pop`) and one that does is two (`PushWait`/`PushWake`, `PopWait`/`PopWake`). A
sleeper may wake at any moment: every push and pop signals, the wait may time out, may wake for no
reason, and returns at once when `tv_nsec` passes a second. A woken call looks at the ring once more and never waits
again. `next` is the local that push computes *before* it sleeps. The single-producer assumption is
the program's: in operation each queue is filled by one thread.

### ListSingle and SingleList

`flnk` and `blnk` are the links. `insert_head` never sets the backward link, so on an empty list it
leaves `blnk` at the head. Here the next `insert_tail` drops the node just inserted. `SingleList`
keeps this as the flag `loose`; `BehavesAsSingleList` shows that this is *exactly* what the pointers
do, and RxRun builds on it, losses included. `used` remembers which operations have been called: the
promise of the comments (`HoldsWhatWasPut`) is checked for a list used as a FIFO or as a LIFO, and not
for one used as both, for which it does not hold.

### RxRun

A turn of the loop is up to three steps, as `pc` says: `Select` (which takes run mode and
`_blowOffDmaData` when no event is in progress, and leaves in `fds` what was ready), the timing
message (`DropTiming`, `TakeTrigger`) and the data frame (`ReturnStray` for loopback, `ReturnFrame` for
an unknown destination, dumped data or an error, `KeepFrame` without an event, `AddFrame` with one,
`SoftTrigger`). The interleaving with the other threads is between those steps. What rxRun does within one
step it does to its own state, with two exceptions: the push and the pop on the queues,
which are atomic by their mutex, and the reads of the configuration. The window is
read as two fields, so `Posts` and `Pres` let each read find what a `setConfig` in progress has written
in between.

`Evaluated`, `ToFree` and `ToLatency` are `Event::evaluate`; `Seeded` is one destination of
`seedAndDrain`, in closed form (the list is in time order, so the scan takes a prefix; `LatencyInOrder`
checks that order); `Replaced` is `LatencyList::replace`. `Post` ignores the result of the push as the
code does. `exited` stands for `exit (-1)`, of which the run then shows that it does or does not
happen.

A frame is a destination and a number; it spans `FrameTicks` ticks, the end of one being the beginning
of the next. The transmit thread is two actions, `TxTake` and `TxRelease`; TxRun has the rest.
The environment sends frames (`FrameArrives`; the destinations may run ahead of one another by
`Skew`), loses or spoils them, sends timing messages no closer than `TriggerGap` and no older than
`TriggerLag`, and writes configuration.

### TxRun

Here the lists are links again, because of what the transmit thread does with nodes that are no
longer its own: `FreeNode` gives the buffer back and only `NextNode` reads the link. rxRun is reduced
to what it does to links and descriptors. A message is the list of its pieces (buffer, length),
the buffers in which something was written, and the size that the code computes alongside;
`HeaderOrigin`, `AddTpcDataRecord`, `AddContributors`, `Message` follow the code of
those names. An address is identified with the buffer it is in, which is what the
misplaced trailer of section 3 turns on. All lengths are 1. `path` is the local copy of
`_enableRssi` that decides how the event is sent and freed. `lost` and `lostHeaders` are the buffers
of pieces that the driver did not take: nothing in the code gives them back.

### DaqLife

`pc` walks the command thread through `open` (`data`, `timing`, `queues`, `rx`, `work`, `tx`: what it
does next, each of which may fail and then goes to `close`), `close` (`stop_` and `join_` of each thread, `release`) and
`enableRun` (`socket`, `connect`, `setmode`). `close` is also what `open` begins with and what it does after a failure; `then`
is what follows. A thread's place is in `at`; `en` are the flags `_rxThreadEn` etc. The devices are
constructed with their buffers mapped, so `fd` and `map` are the two things that `close` takes back one after the other.
The kernel is `table`: what each descriptor number stands for. `OtherOpens` and `OtherCloses` are the
rest of the program (control clients, files) that gets and gives numbers. `moved` is a history
variable: whether `disableTx` has been called since txRun read `_txFd`. All queues are absent at first; the code leaves `_workQueue`
uninitialised there (section 3).

### CommLink

One call at a time (`reqMutex_`), so `call` is numbered and `WriteRegister`, `ReadRegister`, `QueueCommand`, `QueueDataTx`
and `QueueRunCommand` start one and fill the slot. `ReadCount` reads the count of answers, `Try` counts the request: two steps,
as the other threads take no lock. `Answered` and `TimedOut` end the wait.
The transmit thread is `Look` (the count differs from the last one seen), `Access` or `SendFrame` or `SendOther`, and
`Match`, which reads the count *again* and takes that for the one it served; the receive thread is `RxCheck`, `RxCopy`, `RxCount`,
and looks the register up in the slot again when it stores. A frame carries the request count as its context; loss, refusal and
delay are the hardware's, and nothing orders an answer and a timeout. `Access(ok)` may find that no map has the address;
`SendOther(ok)` may transmit nothing, which the thread does not look at and counts as answered all the same. Every answer also has the number of
the call it was for, which the code does not know and the properties use. `midway` notes whether an earlier answer may be mistaken for
the one to the current request (`Mistakable`): a thread was amid a request of the same kind when this one was counted, or counted
an answer between `ReadCount` and `Try`. `sent` and `refused` are the calls transmitted last, and last not.

### ControlServer

The server is one thread and its pass is a sequence of steps (`at`): `Select`, `Accept`, `Read` of each
ready client, `GetCommand`, `Execute`, `Poll`, `Ack`, `Broadcast`. Between any two of them the clients and the program may act. A message
is what it asks for: to set the configuration, to read it back, a hard reset, any other command. The configuration is one value.
`ParseFailed` is the exception in `parseXml`, before, amid or after the variables are set. The program of
`python/pythonDaq.cpp` writes arguments, error and type, counts, waits, and may give up; its command is `clean` when it began
with none pending or in work. `silent` says that the configuration changed and nothing was announced.

### DmaDriver

A register read takes a word off its FIFO, so each `ioread32` is a step. A frame is three words, handle, size and
status. A call is `DownRead` or `DownWrite` (its semaphore), its steps, and `UpRead` or `UpWrite`; `"ask"` and `"txask"` are the commands that answer a number or are refused; `Interrupted` is a
signal during the wait for the semaphore. The waits `WaitRead` and `WaitTx` evaluate their condition, which reads the register
again: the word that ends them is thrown away. A semaphore that is never released has the holder `Gone`; a buffer that
nobody gives back is in `dropped` or `txDropped`. `wasted` and `txWasted` are history: whether a wait has thrown a word away or the firmware spoiled
one. `OnePlace` says that without either no buffer is lost, nor the semaphore. One file is open: the marks are the device's
and not the file's, so a close by one program gives back the buffers of another (see below).

## 3. The runs

| run | question | answer |
|---|---|---|
| `comm_queue` | is the ring a FIFO under every interleaving of two consumers and a producer that sleep | yes |
| `list_single` | do the pointers behave as `SingleList` however the three operations mix, does the list keep the promise of its comments for the two disciplines they name | yes |
| `rx_triggers` | external triggers no closer than a window and not too late, or software triggers, no frame lost: is every event complete and in time order, nothing leaked, no event lost, no exit; is an event whose window passes posted | yes |
| `rx_faults` | lost and bad frames, overlapping windows, late triggers, few descriptors: do ownership, time order and bookkeeping hold | yes |
| `rx_modes` | configuration and run mode change at any moment: is a trigger ever discarded | no |
| `tx_rssi` | is each receive buffer in one place while RSSI returns them in any order; are pieces as long as their contents; does a posted event give its descriptor back | yes |
| `tx_faults` | with the way of sending switched at any moment and sends that fail: is each descriptor and each transmit buffer in one place, does the size agree | yes |
| `tx_free` | does `Event::free` visit only its own nodes | **no** |
| `daq_life` | open, close and open again, each step of open failing, runs enabled and disabled, numbers reused: is everything there that is used, nothing left, does close end | yes; close ends, or waits for ever in `select`, `allocateWait` or `sendmsg` |
| `comm_link` | requests lost, refused, late, retried, not waited for: is an answer one's own, was what is reported done sent, is the program's view of the registers true, is one retry enough, does a call return | yes, unless an earlier answer could be mistaken (`midway`) or the transmission itself failed (`refused`) |
| `control_server` | two connections and a program that gives up: is an acknowledged command done once and its failure told, has every listener the configuration that holds after each pass | yes, for clean commands and announced changes |
| `dma_driver` | two threads, blocking or not, with signals: is each buffer in one place and none lost, is what the program holds its own, are descriptors written whole, do the calls on a non-blocking file return | yes, until a wait throws a word away (`wasted`) |

### Finding

`Event::free` reads a node's link after the node's buffer went back (DaqBuffer.cpp:1344; `tx_free`). The
DMA may have received into it meanwhile, and rxRun put it on a latency list, which the walk then follows and frees.

### Seen while modelling

These are in the models, where they explain an exception or a bound, and have no run of their own.

Frames and events:

* A frame put back by `seedAndDrain` with `insert_head` may be lost with the next frame of its
  destination: `insert_head` leaves the backward link of an empty list at the head, and the next `insert_tail` drops the node
  (List-Single.hh:424, DaqBuffer.cpp:1178). It needs a late trigger with a short post-trigger. `SpotsExact` and
  `NothingLeaked` are therefore asked of `rx_triggers` only, and proved under its conditions (`Steady`, section 6).
* `scanForTriggerNode` does not look at the end of a node (DaqBuffer.cpp:658), so with lost frames the
  trigger need not be in the trigger node: `TriggerInNode` is asked of `rx_triggers` only.
* `EventPool::allocate` does not block, contrary to its comment, and the program exits (DaqBuffer.cpp:3657): `NeverExits` is asked where the
  descriptors suffice.
* The trailer of an empty event, and after an empty first contributor the stream record of the second,
  is written to the global `HeaderOrigin` (DaqBuffer.cpp:4591, 4932), which is why only the second destination may be
  empty in `tx_rssi`.
* `_txReqQueue` holds one entry less than there are receive buffers, contrary to its comment (DaqBuffer.cpp:2545); an RSSI message
  of one piece is flagged `Last` and has no start of frame (Rssi.h:340).

Life cycle:

* A failed TCP send inhibits the transmission until `setConfig` or `hardReset`, across a new connection
  too. A failed connection still sets the run mode. `disableRun` does not flush what is queued.
* An event is sent on a number that is another's when `disableTx` falls between the reading of
  `_txFd` and `sendmsg`: the exception `moved` of `SentToReceiver`.
* `!timingSuccess < 0` is never true (DaqBuffer.cpp:3550): rxRun goes on without its timing channel. The fault `enable_timing`
  has this; the run leaves it out and the theorems exclude it.
* `close` waits for ever when rxRun is in a `select` that no frame ends (there is no timeout, and the DMA is closed only after the join), or txRun
  in `allocateWait` or `sendmsg`: the three exceptions of `CloseEnds`.
* `_workQueue` is not initialised by the constructor, and the `close` that `open` begins with tests and deletes it (2683). `close`
  deletes the elements of `new FrameBuffer[...]` (2554) one by one (2676). Neither is modelled: `NothingLeft` is about threads, descriptors and mappings.

Register link (the exception `midway`, without which `OwnAnswer` and `ReallySent` are violated):

* A write that is not waited for, followed by one that is (AxiSy56040.cpp:112), can be completed by the answer to the
  first. Two in a row that are not waited for (Pgp2bAxi.cpp:223) may send the last only. A transfer
  that `queueDataTx` refuses is sent all the same. `toDisable_` is never TRUE.
* The same happens with a late answer that is counted between the reading of the count and the counting of the request (CommLink.cpp:541,
  542; also 612, 613 and 649, 650).
* What `transmit` returns is ignored (generic/MultLink.cpp:97, 111), so a command or transfer that found no buffer or no destination, or a transfer
  to mapped memory, is done for the caller: the exception `refused` of `ReallySent`. `MultDestMapped::open` ignores what opening the map
  gave, and accesses to a map that is not open are successes that do nothing (not modelled).
* A register is no longer stale after a write that was not waited for, sent or not: the exception `unsure` of `Coherent`.

Control server:

* Two programs on the shared memory are not served right; a command that timed out, followed by
  another, may acknowledge that one unexecuted: hence `clean`.
* A text that is no XML is acknowledged as a success: the throw in `parseXml` is commented out. `allConfigReq_` is not initialised.
* After a hard reset the variables show their defaults (a pre-trigger of 2500 µs) while `DaqBuffer` has its own (5000 ticks),
  and no configuration is announced: hence `silent`.

DMA driver:

* The waits throw away the word that ends them: a blocking reader loses the buffer, and the words of the
  next calls are out of step, upon which a call returns with the semaphore. A blocking reader sleeps with the semaphore that a post needs.
* A READ_COPY with too small a buffer keeps the frame's (494), though the comment at 492 says that the descriptor is returned. With the fault `"small"` TLC finds
  `OnePlace` violated; the run leaves it out, and `DriverOnePlace` has its absence as hypothesis. `DriverAccounted` holds with it.
* A close by any opener gives back the buffers of all. The check of an index when mapping is off by one (663).

## 4. Bounds

* CommQueue: 4 slots (3 pointers, so full, empty and wrapped are all met), 2 values, 1 producer, 2
  consumers.
* ListSingle: 4 nodes: empty, one, two and more are different cases of every operation, and the fourth
  is one in the hands of the user when the others are on the list.
* RxRun: 2 destinations as in the code (`MAX_DEST`); frames of 2 or 3 ticks so that a window can begin
  and end inside a frame, at its edge and in the next; latency depth 2 (the code has 9) so that lists
  fill within the 2 to 5 frames a destination sends. `Events` and `TxSlots` follow the code: with
  `Buffers` receive buffers the transmit queue holds one less, and the pool at least as many as there are buffers.
  `Skew` is 1 or 2 frames, `TimingSlots` one message waiting (rxRun keeps the channel disabled while an
  event is active, so one more is already enough to be discarded). Time stamps stop with the frames.
* `rx_triggers` has a gap between triggers longer than the window and a lag the latency depth covers:
  `WindowCovered` is a promise under those conditions. `rx_faults` has neither. The constants are at the edge of what `Steady`
  (section 6) allows: a gap of 4, a lag of 2 or a depth of 1, a skew of 5, a pool of 1 descriptor, or a transmit queue of 1 entry for 14
  buffers, and TLC finds an event that is not complete, an exit or a buffer that is lost. So it does for software triggers with windows that
  overlap (3 ticks before and 2 after at a period of 4), or with a skew of 3 and a depth of 1.
* TxRun: 2 buffers, 2 events, 1 or 2 transmit buffers, 1 or 2 destinations, latency depth 1. An event in
  transmission, one being built and a latency list that takes a buffer just freed are all there
  together.
* DaqLife: 2 calls of open (the second after a close or a failure of the first), 1 descriptor number (which
  the connection and somebody else have in turn), 1 place on the transmit queue (a second event waits
  with rxRun), every fault.
* CommLink: a register of each kind of destination, 2 values, 2 of the 6 tries (a first and a repeated one), 2
  calls. An answer to the first try of the first call can reach the second try of the second.
* ControlServer: 2 clients, 2 messages between them and 2 commands, 2 values, counters modulo 256 as in the code. The
  clients read back and reset, the program sets and gets, so each change has one that does not know of it.
* DmaDriver: 2 threads, 2 receive and 2 transmit buffers, both modes, signals. A spoiled word or handle (`"marker"`) is in the module and not in this instance, which it makes too large; words out of
  step, which the code treats alike, are in it through the waits.
* Symmetry: destinations (RxRun) and buffers (TxRun) are interchangeable and only in runs without
  liveness. Event descriptors are not declared symmetric since the pool hands them out in an initial order.

`CHECK_DEADLOCK FALSE` stands in the RxRun configurations because the front end sends a bounded
number of frames, after which rxRun waits in `select` for ever, and because the program may end; and in
`MCCommLink.cfg` because the calls are bounded.

## 5. Fairness

* `RxRun!FairSpec`: weak fairness of rxRun as a whole, of the transmit thread as a whole, and of the
  arrival of frames of each destination. The threads are scheduled by the operating system and the
  front end sends continuously; triggers, errors and commands are not forced. That frames arrive
  is only promised while a buffer is free: that the system does not run out of them is part of what `rx_triggers`
  shows, with as many buffers as two windows and the latency lists can take.
* `TxRun!FairSpec`: weak fairness of the transmit thread and of the firmware that returns the
  buffers it has sent. A link that is down for ever breaks the second, and `allocateWait`, a poll with
  no timeout, then blocks txRun for ever: that is the assumption and not a result.
* `DaqLife!FairSpec`: weak fairness of the command thread once it has begun a call, of the work thread, and of rxRun and txRun except where
  they wait for somebody else: the `select` without timeout (`RxTurn`), `allocateWait` (`TxBuild`) and `sendmsg` (`TxSend`). The pop of
  txRun has a timeout and is fair.
* `CommLink!FairSpec`: weak fairness of the caller (whose timeout comes because time passes), of
  both threads and of the hardware. Nothing says that an answer arrives: `LoseFrame` and `LoseAnswer` are steps of the hardware.
* `ControlServer` has safety properties only and no fairness.
* `DmaDriver!FairSpec`: the firmware tells all the words of a frame it has begun and threads run (weak); a thread that waits
  for a semaphore gets it (strong fairness, since the kernel's semaphores are first come, first served). Nothing is assumed of frames
  arriving or of the firmware sending.

## 6. Proofs

**CommQueueProofs.** From `SizeAssumption` (at least 2 slots), `NullAssumption`, `SingleProducer` and `DistinctThreads`:
`RingTypes`, `RingCount`, `RingSleeper`, `RingEntries`, and `RingIsFifo`, that `CommQueue` implements `BoundedFifo`. The
inductive invariant is `QInv`: the count is the cyclic distance of the indices, the slots between
them hold pointers, and a sleeping producer's `next` is the successor of `write`. The last part is what
needs the single producer: without it the slot computed before the wait may have been
filled meanwhile. Every step then maps to `Put`, `Take`, `Refuse`, `Miss` or a stutter.

**ListSingleProofs.** From `HeadAssumption` and `NodesAssumption`: `ListHoldsWhatWasPut`, and `ListRefinesSingleList`, that
each operation does to the pointers what `SingleList` says, so that RxRun may use `SingleList` for its lists. The
invariant `PInv` says that the pointers are the chain of some sequence of nodes (`Holds`), and that this sequence is
what was put there if the list is used at one end (`AsExpected`). That a scan returns this sequence (`ScanIsChain`) is an
induction along the list. It is got from the well-foundedness of the natural numbers (`Least`,
`Induction`), and with it the existence of the function that a scan is defined by (`Follow`, `ReachSteps`).

**RxRunProofs.** From `RxAssumption`, `ConfigAssumption` and `NoEventAssumption`: `RxTypes`, `RxNoDiscard` and `RxBookkeeping` with
its three parts `RxActive`, `RxCounts`, `RxDrained`. None of the properties is inductive alone. `NeverDiscards` needs `Disarmed` (in external mode the timing
channel is not in `fds` while an event is active), which needs that the run mode cannot change while
an event is in progress, hence `ActiveMatchesEvent`, since `Select` tests `event` and the rest tests
`trgActive`. `PendingDrained` rests on what seeding leaves (`SeededFacts`: a destination that stays
pending has an empty list). `TypeOK` needs `WithinSpots`, a list never longer than its spots taken
(equality does not hold after the loss described in section 3), and `WithinPool`. `Reading` says a channel is
read only when it was ready. Lemmas about the operators (`EvaluatedFacts`, `ReplacedFacts`,
`SeededFacts`, `SettleFacts`, ...) are stated once. There is one preservation lemma for each action or
group of actions. The number of destinations, the depth, window sizes and frame length are arbitrary.

From the same assumptions, in the second part: `RxLatencyInOrder`, `RxNoneLeftBehind`, `RxNoHoles`, `RxOwnedOnce` and
`RxSoftTriggerWaits`. They follow from one invariant, `IInv /\ StreamInv`. `StreamInv` sees the frames of a destination as one
stream, from the oldest event through the events that wait to be sent, the event in progress and the latency list to the channel
(`Stream`): each part is in order and older than the next (`Listed`, `Older`), no good frame has been
passed over (`CaughtUp`, `Whole`), and a window that is closed ends before all that comes later
(`Beyond`). The last is what makes the others inductive: the frame that closes a window stays on
the latency list for the next event if it overlaps the end, so "older" is about sequence numbers
and "beyond" about times. A frame at two places would be older than itself, which gives `OwnedOnce`.
`SoftTriggerWaits` is stated there and is not the property of a run: when a frame is about to fire a software trigger, the
event it starts cannot be complete for its destination after seeding, because the latency list
ends before that frame and the window does not end before the trigger.

`RxTimeOrdered` has two hypotheses: the run mode is not changed after the start (after a change a trigger from before it may still be
queued), and the stamps of timing messages rise. Its invariant `TimesInv` says that the
events are spaced in time, each with its trigger before its window's end, and in external mode before all messages still to be read.

The third part has the five properties of complete events: `RxWindowCovered`, `RxTriggerInNode`, `RxSpotsExact`, `RxNothingLeaked` and
`RxNeverExits`. Each is false in general (section 3), so each has the hypothesis `Steady`, a condition on the constants, stated in `RxRun`:

* The configuration is that of the start, data are not dumped, no frame is lost or in error, and there are no strays.
* `Buffers` is less than `Events` and than `TxSlots`, each times the number of destinations: an event that is posted holds a frame of every
  destination at least. In the code (`Events` = `_bCount` - 1, `TxSlots` = `_rxCount` - 1, two destinations) this is so from 3 buffers on.
* Triggers, or multiples of the period, are a window and a frame less a tick apart. A frame belongs to one event only, so with
  windows closer together the second finds its first frame taken.
* The latency list reaches back to the beginning of a window. An external trigger is at most `TriggerLag` late when it is
  sent. A software trigger comes with the frame of whichever destination is first after the last event, while another may be up to `Skew` frames ahead.
  `Depth` is 9 in the code (DaqBuffer.cpp:257), and nothing there checks that a pre-trigger fits in it.

`RxRun` has this as a hypothesis of theorems and not as an ASSUME, because the other runs are about what happens outside it. `MCRxRunTriggers`
asserts it of the run's constants, so it is satisfiable.

The invariant is `FlowInv`. Without lost frames a destination is a numbering, and `FlowInv` says that there are numbers `low` and `read` for
each destination, and a tick `last`, for which `Flow` holds: the channel has the frames from `read` up (`Fed`), the latency list those
from `low` up to `read` with its spots counted down by as many, and it is full or reaches back to the end of the last window (`Kept`, `Reach`);
every posted event has of every destination a run of frames that covers its window, and the one in progress has what it needs of
those read, the rest still to come (`Windowed`, `Covers`, `Side`); a buffer that is out is of a frame from `low` up or of an event,
and descriptors are in the pool or in an event (`Accounted`). The numbers are in no variable: the model needs no history, and every step
of the proof names the next ones. The destinations are no more than `Skew` apart in what was read as well (`Level`), because the channel is a FIFO.
That an external trigger is not read too late is `InTime`: while no event is in progress a timing message that waits is read before any frame
that would push its window off a list, since `select` gives the timing channel priority; the messages behind it are later by the gap (`Paced`). A pool
without descriptors would mean as many posted events as there are descriptors, with a frame of each destination in each, all different
(`OwnedOnce`): more frames than buffers. The proof uses the invariants of the first two parts throughout.

**TxRunProofs.** From `TxAssumption`: `TxDescriptors`, that every event descriptor is in one place. The invariant
`DInv` adds to the property what `event` is at each `pc`: txRun holds a descriptor from the pop to
the release, except that in `record` it has given it back already. `TimesAppend` and `TimesTail` say what a push
and a pop do to the count of an element; `PoolHoldsAll` that the pool starts with each descriptor once.
The lists, the buffers and the messages play no part in it. `TxHeaders` and `TxSizes` (`HeadersOwned`, `SizeAgrees`) hold for any links
whatever, since a scan meets only nodes (`FromMeets`): a message begins in its transmit buffer, goes on in receive buffers, and the size kept
alongside is the sum of its lengths (`Assembled`). That is shown for one contributor (`RecordIsAdded`) and, by the same induction as in
ListSingleProofs, for all (`ContributorsTurns`). `HInv` adds that txRun is at a piece of the message while it sends.

`TxBuffers` and `TxPieces` (`BuffersOwnedOnce`, `PiecesFilled`) also use `NodesAssumption`, that a list's own link is no node. Their
hypothesis is that every event is sent over RSSI (`Configs` is the one pair that says so), as in the run `tx_rssi`. With TCP or inhibited events it cannot be left
out: the walk that frees an event reads links of nodes that may be on another list by then (the finding of `FreesItsNodes`), and no list is
sound after that. `TxPieces` moreover asks for frames of the first contributor: without, the next record is written to the global
`HeaderOrigin` instead of the message. The argument has three layers:

* `Chain`: the links from a list's head lead through the nodes of a sequence and back. `ScanIsChain` says that a scan then returns this
  sequence; `TailChain` and `HeadChain` what insert_tail and remove_head do to it and that they leave disjoint lists alone.
* `Sound`: for a set of lists, there is such a sequence for each and no node is on two. `SoundInsert`, `SoundRemove`, `SoundEmptied`,
  and, by induction over the frames and the destinations, `SoundMoved` and `SoundSeeded` say that the operations keep it so and which nodes
  are on the lists afterwards. `ContributorsGather` and `MessageGathers` say that a message has exactly the frames of its event's lists, each
  once, and that each piece is as long as what was written.
* `BInv`: the lists in use are sound. These are the latency lists and those of the events that are being filled, posted or being built, and no
  others: the lists of an event that was handed over still link nodes that have other owners, and nothing is said of them until
  `prepare` empties them. Every buffer is in one of five places (`Apart`), and posted events have the frames they must have. `DInv` is needed for a
  trigger (the descriptor that it takes is of no event in use), `HInv` for a hand-over.

**DaqLifeProofs.** From `LifeAssumption` and with `"enable_timing"` not among the faults: `LifeUses`, `LifeNothingLeft`, `LifeSent`, for
any number of opens, numbers and queue slots. `LifeInv` says at every place of the command thread
which threads, flags, devices and queues there are (`ByPlace`), that txRun has an event only while rxRun
is there, and that `_txFd` is the only open connection (`Connected`). The hypothesis is needed: a timing channel that was closed by a
failed enable is just what the property denies.

**CommLinkProofs.** From `LinkAssumption`: `LinkTypes`, `LinkOwnAnswer`, `LinkReallySent`, for any registers, calls and tries. The
invariant `LInv` says that no frame under way has a context above the request count, and that those with
that very count belong to the call (`FramesOwned`); that the slot holds the call (`SlotIsCall`); and that whatever a
thread is about to count, or has counted since the caller looked, was done for the call (`AccessOwned`, `OtherOwned`), all
of it unless `midway`. A request is counted a step after the count of answers was read; that the two agree then, and no thread is amid an answer,
is what `~midway` gives. `LinkCoherent` adds `CInv`: the contexts rise along the answers and then the requests on the wire
(`InTurn`), at most one of them has the current count (`OneFrame`), a register neither unsure, stale nor amid an
access is true of the hardware (`Settled`), and the answer that the call waits for will make it so, from an access
already done (`ByAccess`) or a frame still to be executed (`ByFrame`). `LinkOneRetry` needs two tries at least (the
code makes six): `RInv` says that a try is missed only when the transmit thread read the count of the request before, and then has
caught up with it.

**ControlServerProofs.** From `ServerAssumption`: `ServerDoneOnce` and `ServerFailureTold` from `CommandInv` (what has become of a clean
command, by the places of program and server), `ServerViewsCurrent` and `ServerAnswers` from `PassInv` (who listens has the configuration, or
it is announced and this pass will still tell it). The modulus of the counters, and the numbers of clients, messages and commands are arbitrary:
only one command is pending, so any modulus above 1 tells it from none.

**DmaDriverProofs.** From `DriverAssumption`: `DriverWritesWhole`, `DriverHeldIsStable`, `DriverAccounted` and `DriverOnePlace`, for any number of threads and
buffers and any modes, the first three with any of the faults and the last without `"small"`. For the first, `OneWriter`: who is in a write holds the semaphore; and `Aligned`: the three FIFOs differ in
length by what the writer has yet to post, and agree as far as they all go. The transmit half of
`DriverAccounted` adds `TxOwned`, which says of the sets of buffers in each place that they are disjoint and
cover all; `OnceCount` turns that into the count that the property is about. The receive half is harder, because
the driver takes any word for a handle. `RxInv` therefore says how the words spell the frames: those in
the FIFO and the one the firmware tells next follow one another (`InTurn`), and the word that is read next belongs
to the frame the reader is in, or to one whose handle was thrown away (`FrontKnown`). From these a
buffer named by a handle is fresh or lost, never the program's (`Owned`), and the firmware is not amid a
frame in a buffer that is free or marked (`FillingBusy`). `OneReader` and `PostOwned` (a buffer that is
being posted is marked, not held, and posted by one thread) close the induction. `DriverOnePlace` adds `InOrder`: as long as nothing is `wasted`,
every word is good (`GoodWords`), the word that comes next is the one the reader wants (`Wanted`), and nothing is lost. So no call takes the ways out on which it
loses a buffer or keeps the semaphore.

**Only model-checked.** Liveness (`EventCompletes`, `PostedIsFreed`, `CloseEnds`, `CallEnds`, `CallsEnd`), which is out of the
prover's reach, and the counterexample to `FreesItsNodes`. Every other property of a passing run is a theorem, under the hypotheses named above; what
the runs say of constants outside those hypotheses, as with the run mode changing, is model-checked only.

## 7. Not modelled

* Rate monitors, dumps, statistics, logging, status texts.
* Record contents (`FrameBuffer`, WIB frames, table of contents, range records): a frame with a
  foreign trailer, the index 1024 in `getIndex`, more than 32 pieces in a message.
* `setRunMode` and `setConfig` are called by one thread; at most one `setConfig` falls between two
  reads of one step of rxRun. The period is not zero and the numbers do not overflow (hazards of
  `setConfig`).
* Of the control server: the trees of devices, variables and registers and their XML, starting and stopping, and the software run
  thread `swRunThread`, which the run states of this program do not use. Of the register link: opening and closing, the queue of
  records to the data thread. `DataSharedMem`: `enableSharedMemory` is never called, so nothing writes that ring.
* Of the driver: probe and removal, mapping, poll, interrupt (a sleeper wakes when there is something to read), asynchronous notification, and the five other
  versions, copies of one another with small differences.
* The firmware (VHDL, HLS), the register maps (`Data*`, `Timing*`, `deviceLib`), the receivers and scripts, the buffer checker.

The repository has some 70 000 lines of implementation, most of them register maps without state of their own, configuration,
copies of the driver, the HLS encoder with its test data, VHDL, and clients. The models have the parts with concurrency and
failure in them, a small share of the lines.

## 8. Plan

1. Frame records: the packet index and range records as operators against a reference definition; the
   arithmetic of `from_usecs` and of `duration - pretrigger` in 32 bits; the 32 pieces.
2. A composition of rxRun and txRun through two CommQueues (INSTANCE), with the abstract
   specification that every trigger becomes one event, sent once or counted as an error.
3. Candidates after that: the HLS encoder against its decoder, the VHDL framer.

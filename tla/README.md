# A specification of ModbusLibraries

The repository is a C library of Modbus protocol machines for microcontrollers
and hosts: a TCP client, a serial (RTU) master, a serial slave, and the parts
they share. The machines keep no threads and use no clock: the application calls
a `...Run` function over and over, and every timeout is a number of such calls.
The library is meant for devices that run unattended, so what matters is what
happens after days of lost, late and damaged answers: no slot leaked, no request
stuck, no answer given to the wrong request.

This directory holds TLA+ modules translated from the C source, TLC
configurations that check them on small instances, and TLAPS proofs of the
properties that matter most, for every value of the constants.

## 1. The system

| Component | State | Operations | Talks to |
|---|---|---|---|
| Request list, `ModbusClientCommon/request_structure.c` | ring of slots (status, header, body, callback), `head`, `tail`, `field_used` | `modbusRequestAdd`, `modbusRequestFetch`, `...CallbackAdd` of the clients | both clients; hands out *the address* of a slot's header |
| TCP client, `ModbusClientTCP/mctcp.c` | request list, pending list, `i_pending`, transaction counter, buffers, the confirmation `Run` returns | `RequestAdd`, `RequestCallbackAdd`, `ModbusClientTCPRun`, setters | socket driver (function pointers), application callbacks |
| Serial master, `ModbusClientSerial/mcserial.c` | request list, the awaited request, five states, `retry`, three timers | `RequestAdd`, `RequestCallbackAdd`, `modbusClientSerialRun`, setters | UART driver, error log, callbacks |
| Error log, `ModbusClientCommon/mc_log.c` | table of failed requests, `head`, total, on/off | `addMCL`, `clearMCL`, `setMCLActivation`, getters | serial master |
| Serial slave, `ModbusServerSerial/msserial.c` | seven states, `tick`, received sizes, buffers | `modbusServerSerialRun`, setters | UART driver, PDU codec |
| PDU codec, `ModbusPDU/modbus_pdu.c` | none (it fills the buffers of its owner) | request and response packets | register functions of the application |
| CRC, `modbus_crc.c` | none | `ModbusCRC` | serial master and slave |
| State machine helper, `Statemachine/state_machine.c` | state, wait counter | `stateMachineRun` | demo application |
| Demo application, `src/SocketClientThread.c` | three threads, a socket, register arrays | `ThreadModbus`, `ThreadCompRequest`, `ThreadReceive`, callbacks | TCP client |

What is hard about them:

- **Shared storage.** `modbusRequestFetch` frees a slot and hands out a pointer to
  its header. The list overwrites that header when it becomes full again, while the
  request may still be waiting to be copied (TCP) or to be answered (serial).
- **Answers.** They are lost, late, doubled by retransmission, damaged, or come from
  another slave. TCP matches them by transaction id, serial by slave address only.
- **Counting.** Timeouts, retries, slots in use and silence on the line are counters
  with their own off-by-one rules, cleared on some paths and not on others.
- **Bytes.** Bytes are `int8_t`, addresses and counts 16 bits: signs and wrapping
  decide what is read and reported.
- **Threads.** The demo adds requests from a thread that does not hold the lock
  under which `Run` is called.
- **Two clocks.** Master and slave each count time in calls of their own main loop.

What makes each component correct: the request list is a bounded fifo, also when two
threads use it without a lock; the TCP client leaks no slot, keeps requests in flight
distinct, gives an answer to its own request and lets none wait forever; the serial
master serves every request once, with its own retries, and believes only the
addressed slave; the log has one entry per request and blames nobody for failures that
did not happen; the slave executes only its own complete frames, once, and answers
truthfully; what a client reads is what the slave has; the demo keeps polling.

## 2. The modules

| Module | Models |
|---|---|
| `RequestFifo` | abstract: what the request list promises. A fifo of at most `QueueLen` requests, and the *loan*: the header of the fetched request changes when an accepted request fills the list (`Reclaim`). |
| `RequestQueue` | the ring of `request_structure.c`. One action per outcome of add and fetch. `head`, `tail` and `used` are the code's; a fetched header is a pointer, i.e. a slot number. |
| `RequestQueueProofs` | TLAPS: the ring's invariant, and that it implements `RequestFifo`. |
| `RequestThreads` | the same ring between two threads without a lock: a step is one access to what they share, `field_used++` a load and a store. Also shown to implement `RequestFifo`. |
| `ModbusClientTCP` | `mctcp.c` over `RequestFifo`. `pc` splits a call of `Run` in its phases *request*, *place*, *receive*, *timeout*. |
| `MCModbusClientTCP` | symmetry of the request areas, for the run `tcp`. |
| `ModbusClientTCPProofs` | TLAPS: type correctness and the invariants of the pending list. |
| `ModbusClientTCPMatchingProofs` | TLAPS: which request a packet, an answer and a callback belong to. |
| `ModbusClientSerial` | `mcserial.c` over `RequestFifo`: one action per state and outcome, with the error log. |
| `ModbusClientLog` | `mc_log.c`; instantiated by `ModbusClientSerial` on its variables. |
| `ModbusClientSerialProofs` | TLAPS: the master and its log. |
| `ModbusServerSerial` | `msserial.c` and the decisions of the response functions of `modbus_pdu.c`. |
| `ModbusServerSerialProofs` | TLAPS: the slave. |
| `SerialLink` | `ModbusClientSerial` and `ModbusServerSerial`, both whole, on one line. |
| `SerialLinkProofs` | TLAPS: the line, from what is proved of its two ends. |
| `ModbusPDU` | pure operators: the bytes of a PDU, what the slave reads in a request and each client in an answer. |
| `ModbusExchange` | abstract for the frames: client and slave exchange PDUs byte by byte, and a PDU arrives as it was sent or not at all. |
| `ModbusExchangeProofs` | TLAPS: what the two ends make of each other's PDUs. |
| `ModbusCRC` | `modbus_crc.c` in both builds, by table and bit by bit. |
| `ModbusFrames` | `ModbusExchange` in frames with address and CRC on a noisy line. |
| `MCModbusFrames` | the registers of the slave, for the run `frames`. |
| `SocketClientThread` | the demo's two threads over `RequestThreads`, with the state machine of `state_machine.c`. |
| `SocketClientThreadProofs` | TLAPS: the request list between the demo's threads. |

The clients are composed with the fifo (`Queue == INSTANCE RequestFifo`), not with
the ring: `RingImplementsFifo` says that this loses nothing.

### How state and actions correspond to the code

*Request list.* `slot[i]` is `requestList[i]`, `used` is `field_used`. `FirstEmpty`
is the probe of `enqueueMC` (at most `QueueLen` slots from `head`). The callback of a
request is set after the add, on the slot before `head`. `CharIsSigned` is the
platform's choice for `char`, in which `enqueueMC` returns its `-1`.

*Request list between threads.* `add_pc` and `run_pc` say which access of `enqueueMC`
and `dequeueMC` comes next. A request is listed from the store of `QUEUE_FULL` to the
copy of the slot. Memory is taken as sequentially consistent, accesses in the order
of the program. `lost` counts updates of `field_used` that were overwritten: the
threads may load it together at any time. What the list keeps is stated up to the
first loss (`NoneLost`), as the code promises nothing after it (5).

*TCP client.* `pendings_list`, `heap_head`, `heap_used`, `i_pending` are the pending
list and its counters. Between two phases of `Run` an application thread may add
requests if `Threads` holds; otherwise it acts between calls of `Run` and in the
callback of an answer. `wire` is the bag of packets on their way: a packet may be
answered now, later or never, and each transmission of a request is a packet of its
own, so late and double answers are among the behaviours. `Receive` has one disjunct
per check of the receive phase; a slot that was freed keeps its header and can be
matched. `GiveUp` frees the slot twice (`mctcp.c:174` and `190`), as the code does.
`rx_tid` is the static header parsed last. `id` in a header, `sends` and `calls` are
history. What a client takes out of an answer is in `ModbusPDU`.

*Serial master.* `fetched` is `req_waitreply`. Its header is the list's, so
`Reclaim` changes the address of the request being served. `rx` is the frame the
receive driver holds: sender, kind (response, exception, corrupt) and size. A frame
of size less than `FrameSize` that is judged fails its CRC. `wire` holds the requests
slaves may still answer; with `LateAnswers = FALSE` a new transmission empties it.
`rcv_size` and `rcv_size_prev` are the size of `rx` after and before a step.
`TransmitFails` lets the driver refuse. `dest` and `id` of a body, `sends`,
`outcome` and `failures` (per request the log tells apart) are history.

*Error log.* `elements` is the application's array, empty until
`setModbusClientSerialLogFile` provides it; `head` is the number of entries. The
lookup returns any of `StrayIndexes` when the log is empty, because the C function
then returns a variable it never set. A key stands for slave, function, start and
count. The count is stored as an `int16_t` and compared as a `uint16_t`
(`mc_log.h:25`, `mc_log.c:164`), so `Equals` finds no key with a count of 0x8000 or
more (`LargeKeys`; `ManyRegisters` names the functions of such requests). `CountLimit`
stands for 65535, and `LogLen` is at most 32767, the range of the lookup's `int16_t`
index. A log entry is written in the same step as the failure it logs.

*Serial slave.* The states `ADR` and `RESPONSE` are left in the call that enters
them, so they do not occur between calls. `rx` is the driver's frame in `IDLE` and
`buffer_rx` afterwards. `CheckAddres` compares a signed byte with the unsigned
`slave_address`. `IParamWrite` answers any of its documented results. `tick` wraps at
16 bits (`Wrapped`). The registers belong to the application, of which only the
functions the slave calls are modelled: `Next` is `Run`, and nobody writes a register
besides.

*The line.* `SerialLink` runs every action of both machines and ties their ends
together: the frame the slave hears is the one the master transmitted, and the other
way round; a frame on the line must be heard by the next poll that can hear it, and a
later frame replaces one nobody heard. `lead` is the number of calls one main loop is
ahead of the other, at most `Drift`. A request writes its own number, so the register
tells who wrote it; `carried` (history) tells which request a frame carries.

*PDUs and frames.* A byte is 0 .. 255; where the code's `int8_t` matters the operator
says so (`TCPWord`, `CountOfBytes`, `ModbusCRCBitwise`). `buffer_tx` keeps what earlier
answers left, since `ResponsePacketReadHolding` may send bytes it did not write.
`IParamWrite` may write a part before it refuses a value. In `ModbusFrames` `pdu` stays
what was sent and `frame` is what is on the line; `Noise` flips bits of one byte. That
`FrameSpec` implements `Spec` (`ImplementsExchange`) needs no substitution, the abstract
variables being there by their own names.

*Demo.* `todo` is what the action function has still to do, one call per entry.
`ActionStarts` compares the count that `getModbusClientTCPReqListItemCount` really
returns, the pending list's. `sleep(1)` is the guard on `ran`: between two calls of the
state machine, `Run` was called at least `RunsPerSecond` times. The pending list is
that of `mctcp.c` with the demo's retry limit of 1, without transaction ids and buffers;
an answer may arrive for whatever a slot holds or held last. `AddCommand` is what
`CallbackCompControl` may do.

## 3. The runs

All runs are exhaustive; the table gives the instance and what it shows.

| Run | Instance | Shows |
|---|---|---|
| `queue` | 3 slots, 2 headers, 2 bodies | The ring's window, `head`, `tail` and count agree (`RingConsistent`), and it implements the fifo with its loan (`ImplementsFifo`), through every order of adds, refusals, fetches and callback attachments. |
| `tcp` | lists of 2, timeout 2, 2 tries, 3 requests, one thread | `NoSlotLeak`, `DistinctInFlight`, `SendBudget`, `CallbackOfOwnRequest`, `AnswerReachesOwner` (the third request has the transaction id of the first again), and `RequestsAge`: each call of `Run` brings a request in flight nearer to the end of its last try. |
| `tcp_live` | request list of 1, threads that add between any two phases of `Run`, 1 try; servers silent or answering with exceptions, other functions, a wrong protocol; fair `Run` | Every accepted request is fetched (`EveryRequestFetched`), and every request in flight leaves the pending list (`EveryRequestResolved`). |
| `tcp_overwrite` | violation | `CounterCoversInUse`: see 5. |
| `serial` | list of 2, slaves 1 and 2 and broadcast, 2 retries, noise, late answers, refusing driver | `NothingLost`, `ServedOnce`, `RetriesInBudget`, `BroadcastNotAwaited`, `AnswerFromItsSlave`, and `ServiceBounded`: no slave and no noise keep the master busy longer than `MaxService` calls. |
| `serial_log` | log of 2 entries, counts up to 2, stray indexes 0 and 2, 2 uses of the log by the application, 2 slaves, writes and reads of 0x8000 registers or more | No request has two entries but a read of that size (`LogKeysDistinct`), and no entry counts more failures than there were (`LogNeverOvercounts`), however often the log is stopped, cleared and set up again. |
| `serial_header` | violation | `SentToItsSlave` when the list is filled while a request is served: see 5. |
| `server` | frames in pieces, damaged, for others, `t35` 3 | `ExecutedOnce`, `OnlyOwnFramesExecuted`, `FrameEndsInSilence`, `AnswerMatchesRegisters`, `EveryFrameAnswered`, and `ListensAgain`: whatever the line carries, the slave listens again `MaxCalls` calls after the first byte. |
| `link` | master and slave, drift 1, `param_wfr` 8, 2 requests, 2 retries, writes that fail | What the master takes as answered was written (`AnsweredWasWritten`), the answer is that request's own (`AnswerReachesOwner`), the slave executes nothing more often than it was sent (`ExecutedAsSent`), and every request ends (`EveryRequestServed`). |
| `frames` | registers 0..70 and 65530..65535; reads and writes of 0, 1, 66 and 126 registers from 0, 20 and 65535; two exchanges; one byte of a frame damaged | The serial master reads what the slave has (`SerialReadsRegisters`), a write is applied as answered and changes nothing else (`WriteApplied`), the TCP confirmation names its request (`ConfirmationNamesRequest`), the two CRC builds agree on bytes below 128 (`BuildsAgree`), and damaged frames change nothing (`ImplementsExchange`). |
| `tcp_read` | violation | `TCPReadsRegisters`: see 5. |
| `demo` | list of 5, pending list of 2, timeout 1, wait of 2 seconds with 2 calls of `Run` each, both threads | Until an update of `field_used` is lost, where exploration stops (`CONSTRAINT NoneLost`): the list is a fifo at every interleaving of single accesses (`FetchesInOrder`), `Run` never fetches the null request (`FetchFindsRequest`), the adds nobody checks have room (`AddsHaveRoom`), the command callback stays with its request (`CallbackOfControl`), and polling goes on (`PollingGoesOn`). |

Every module that keeps state has a type invariant, `TypeOK`. No run of the list checks
it, because it is proved, for every value of the constants, for the ring, both clients,
the slave, the exchange and the demo.

**Bounds.** `MaxAdds`, `MaxFrames` and `MaxExchanges` bound the requests and frames of
a behaviour; after them the system runs on without new ones, and may stop, which is why
deadlock is not checked in the runs of the serial machines and of the exchange. Two
slots in each list make it wrap, be full and be empty, and let one request be refused
while one waits and one is fetched; three requests are needed for a slot to be used
again while another is in use. `TransidLimit = 3` makes the third request start over
with the transaction id of the first. Timeouts of 1 or 2 calls and 1 or 2 tries let every order of answer, timeout,
retransmission and give-up occur. In the serial models a frame comes in up to two
pieces and `T35 = 1` asks for two unchanged polls (the slave uses the code's 3), so a
frame can be cut; `ParamWfr = 4` leaves room for one complete frame and a timeout in
the middle of one. `sends` of the serial master stops counting one above the number no
run may reach. In `serial_log` a count of 2 is reached and starts over at 1, the two
entries fill the log, also with one request twice, and stray index 2 is past the
array, index 0 inside it.

In `link` a frame comes in one piece and both sides see no noise (`serial` and `server`
have both); `ParamWfr = 8` is the least wait for which 4 proves that the slave and the
drift take less, and 5 says where the property ends. In `frames` the counts are chosen
at the boundaries of the code: 0 and 126 are refused, 66 makes the byte count negative
as an `int8_t`, and a start of 65535 ends or wraps the address space; `MaxRegisters`
lets one long read be part of two exchanges, and only frames of up to 8 bytes (requests
for reads and single writes, their answers and exceptions) are damaged, the length of a
frame not being looked at by the CRC. In `demo` the pending list has the demo's length
of 2 and the request list has 5, so that it wraps every other round. The wait is shorter
than `WaitDrainsList` (4) asks for: a round may find requests of the one before still in
flight and stay in the action state, which longer waits exclude with this timeout, and
the adds have room all the same. A timeout of 2 and a wait of 6 satisfy the condition and
let a round find a request in flight; TLC finds the same properties to hold there, in a
run that takes five times as long.

**Application.** In `serial`, `serial_log` and `link` the application leaves one place
of the list free while a request is served (`LeavesRoom`); `serial_header` shows why. In
the TCP runs callbacks are attached only after a successful add (`ChecksResult`); the
demo does not look, and `AddsHaveRoom` says that it need not while `Run` is called often
enough.

**Fairness.** Weak fairness of `Run` of every machine: `ThreadModbus`
(`SocketClientThread.c:351`) and the main loop of a device call it forever. A poll that
finds a transmission still going changes nothing, so fairness of the serial machines
also says that the transmit driver neither refuses nor takes forever. In `link` the
application also attaches, one day, the callback of the request it has added, since
`RequestAdd` and `CallbackAdd` are two calls of one main loop. In `demo` both threads
are scheduled forever. Nothing is assumed of servers, slaves or the sizes of what the
application adds: they need never act.

## 4. The proofs

TLAPS checks the following for every value of the constants that the named
assumptions of the modules allow (positive lengths, parameters below 65535, and the
like). A theorem with a condition says so; the conditions are explained below the
table.

| Theorem | States | Condition |
|---|---|---|
| **`RequestQueueProofs`** | | |
| `RingCorrect` | `TypeOK`, `RingConsistent` | |
| `RingImplementsFifo` | the ring implements `RequestFifo` | `CharIsSigned` |
| **`ModbusClientTCPProofs`** | | |
| `TypeCorrect` | `TypeOK` | |
| `NoSlotIsLeaked` | `NoSlotLeak` | |
| `RequestsInFlightDistinct` | `DistinctInFlight` | |
| `TimeoutsAreNoticed` | `TimerBounded` | |
| `RequestsInFlightAge` | `RequestsAge` | |
| `OnlyCountingTwiceMiscounts` | while `field_used` is the number of requests in flight, exactly the steps `CountsTwice` change that | |
| `OverwrittenOnlyIfCountedTwice` | `CounterCoversInUse`, and no request is placed over one that waits | until the first step `CountsTwice` |
| **`ModbusClientTCPMatchingProofs`** | | |
| `AnswersReachOwners` | `AnswerReachesOwner` | `RecentIds` in the step, part of the property |
| `RecentTransidsDistinct` | `LiveTransidsDistinct`: requests that wait have distinct ids | `~Threads`, `RecentIds` in that state |
| `TransmissionsAreBounded` | `SendBudget` | `~Threads` |
| `CallbacksStayWithRequests` | `CallbackOfOwnRequest` | `ChecksResult`, one client |
| **`ModbusClientSerialProofs`** | | |
| `TypeCorrect` | `TypeOK` | |
| `NoRequestLost` | `NothingLost` | |
| `LogEntriesDistinct` | `LogKeysDistinct` | not for 0x8000 registers or more, part of the property |
| `RetriesKeptApart` | `RetriesInBudget` | `LeavesRoom` |
| `NoBroadcastAwaited` | `BroadcastNotAwaited` | `LeavesRoom` |
| `NoSlaveOverblamed` | `LogNeverOvercounts` | `LeavesRoom` |
| `RequestsServedOnce` | `ServedOnce` | `LeavesRoom` |
| `AnswersFromTheirSlaves` | `AnswerFromItsSlave` | `LeavesRoom` |
| `TransmissionsToTheirSlaves` | `SentToItsSlave` | `LeavesRoom` |
| `ServiceIsBounded` | `ServiceBounded` | `LeavesRoom` |
| **`ModbusServerSerialProofs`** | | |
| `TypeCorrect` | `TypeOK` | |
| `FramesExecutedOnce` | `ExecutedOnce` | |
| `OwnFramesExecuted` | `OnlyOwnFramesExecuted` | |
| `FramesEndInSilence` | `FrameEndsInSilence` | |
| `AnswersMatchRegisters` | `AnswerMatchesRegisters` | no other writer of the registers |
| `SlaveListensAgain` | `ListensAgain` | `WidthAssumption` |
| **`SerialLinkProofs`** | | |
| `EndsBehaveAlone` | the line implements `ModbusClientSerial!Spec` and `ModbusServerSerial!Spec` | |
| `ExecutionsAreTransmissions` | `ExecutedAsSent` | `LeavesRoom` |
| `AnswersReachTheirOwners` | `AnswerReachesOwner` | `LeavesRoom`, `WaitsLongEnough` |
| `AnsweredWritesWereExecuted` | `AnsweredWasWritten` | `LeavesRoom`, `WaitsLongEnough`, no other writer of the registers |
| **`ModbusExchangeProofs`** | | |
| `TypeCorrect` | `TypeOK` | |
| `SerialReadsTheRegisters` | `SerialReadsRegisters` | |
| `TCPReadsSmallRegisters` | `TCPReadsRegisters` | all registers below 256 |
| `WritesApplied` | `WriteApplied` | |
| `ConfirmationsNameRequests` | `ConfirmationNamesRequest` | |
| **`SocketClientThreadProofs`** | | |
| `TypeCorrect` | `TypeOK` | |
| `FetchesFindRequests` | `FetchFindsRequest` | `NoneLost`, part of the property |
| `RequestsFetchedInOrder` | `FetchesInOrder` | `NoneLost`, part of the property |
| `CallbackStaysWithControl` | `CallbackOfControl` | `NoneLost`, part of the property; `[]AddsHaveRoom` |
| `AddsFindRoom` | `AddsHaveRoom` | `NoneLost`, part of the property; `WaitDrainsList` |
| `CallbackStaysWhileListDrains` | `CallbackOfControl` | `NoneLost`, part of the property; `WaitDrainsList` |

**The conditions** are what the code leaves to its user, or to luck.

- `CharIsSigned`: 5 says what an unsigned `char` does.
- `RecentIds`: the ids in the lists and on the wire were given out in the last round of
  the 16 bit counter. An answer that is late by 65534 requests meets a request with its
  own id.
- `~Threads`: a thread may replace the header of a request between the phases of `Run`
  (5): with the demo's threads `LiveTransidsDistinct` is false, while
  `AnswerReachesOwner` is not, as an answer never names a request but by its header.
- `WidthAssumption`: `t35` and `param_wait + control_intervals` fit the 16 bits of the
  slave's `tick`. Otherwise the slave may wait forever (5).
- No other writer: the slave's application writes no register between a request and the
  end of the wait before its answer (for `AnsweredWasWritten`: until the master has
  judged the answer). An application that does makes the answer out of date.
- `ChecksResult` and one client: `RequestCallbackAdd` names no request.
- `LeavesRoom`: the application keeps one place of the list free while a request is
  served. Without it the code breaks `SentToItsSlave` (run `serial_header`), and what
  else speaks of the slave a request was added for.
- `NoneLost`: no update of `field_used` was lost between the threads so far. Nothing in
  the code prevents the loss (5); the theorems say what holds until it happens.
- `CountsTwice`: a give-up while another request is in flight, or an answer to a slot
  already free while one is. The first theorem about it says that the condition of the
  second is no stronger than it must be.
- `WaitDrainsList`: the request list takes three requests more than the pending list,
  and in the wait of the state machine there are enough calls of `Run` to fetch what a
  round added: `WaitParam * RunsPerSecond >= 5 + GiveUpTime * MustWait`, where
  `GiveUpTime = TimeoutResponse + PenLen - 1` is how long a silent server can hold a
  full pending list up, and `MustWait` (2 in the demo) how often that can happen. In the
  demo the lists take 20 and 2; with a timeout of 80000 calls and a wait of 20 seconds
  the condition asks for 8001 calls of `Run` a second. `usleep(100)` allows at most 10000,
  so it holds only if a call and the scheduler add little to the 100 microseconds
  (5 says more).
- `WaitsLongEnough`: in calls of `Run`, `param_wfr` is at least
  `Hearing + 2 * Drift - 2`, where `Hearing` is one call to hear the first byte,
  `FrameSize * t35` at most for the frame, and the longer of its handling
  (`param_wait / control_interval + 5`) and `t35 + 1`; and if broadcasts are sent the
  slave has another address than 0 and `param_tad` is as long. The run `link` has
  exactly that wait.

**The arguments.** Each module of proofs states its inductive invariant before the
lemma that every action preserves it.

*The ring.* The inductive invariant is type correctness with `RingConsistent`: the full
slots are the `used` ones from `tail`. From it `HeadIsFree` follows, so the probe of
`enqueueMC` succeeds at once. The refinement adds that a header on loan is that of the
slot before `tail` (`RInv`), which is what makes `Reclaim` the right abstraction: the
slot is written again exactly by the add that fills the list. Each action is then a
step of the fifo, by the arithmetic of `Wrap`.

*The TCP client.* `TypeOK` alone is not inductive. `IInv` adds `PlaceInv` (between the
fetch and the place phase the fetched request is real and there is room for it) and
`SlotInv` (a slot in use, or with a timer that ran, holds a real request: the timeout
test reads slots without looking at their status). Given `IInv`, the three others are
invariants by themselves. `NoSlotLeak` compares two ways of counting: every action
that frees a slot counts down at least as often as it shrinks the set of slots in use,
and the only one that counts up either adds a slot or, when it overwrites one, started
from a count below the number of slots. `TimerBounded` (stated beside its theorem) is a bound on timer plus
distance from `i_pending`: each call adds one to the first and takes one from the
second; `RequestsAge` follows from it, because a timer that is noticed in time never uses
up the `TryTime` of a try, and a retransmission starts the timer over but costs a try.
`field_used` is exact (`CountIsExact`) until a step counts twice: only then can the
count and the set of slots in use change by different numbers.
The `Matching` module adds what relates a header to its request: `IdsInv` gives
the id of a header by its distance from the counter, so that two headers share an id
only a full round apart; `PlacesInv` says that without threads an accepted request is in
one place; and `SendsInv` relates `retries` of a slot that can still expire, in use or
freed, to `sends`.

*The serial master.* `IInv` holds for every application: the request served is real, the
requests in the list follow it in order (`OrderInv`), and an outcome is only given to
a request that was fetched; `NothingLost` follows. `LogKeysDistinct` is inductive with
the type of the log, whatever the lookup of an empty log returns. `RoomInv` holds with
`LeavesRoom`: then the header served is the one the request was added with, and
`SendsInv` fixes, in each state, how `sends` of the request served relates to
`retry`. The state `PROCESS` is reached with one transmission more than retries, or with
as many and the retries used up: that is the difference in `RetriesInBudget`.
`ServiceLeft` is the calls of the worst case from the present state on. That it never
grows needs `RoomInv` too: a header that turned into the broadcast address would end
the turnaround with retries left and start over.

*The slave.* `FrameInv` says what each state has checked of the frame, `ExecutionInv`
when its counts are 0 and 1, and `SilenceInv` that the tick never runs ahead of the quiet
polls by more than one. For `ListensAgain`, `GoesOn` adds that a frame still heard has not
been quiet for `t35` polls: each poll then brings a byte, of which no more than
`FrameSize` come, or spends one of the `t35` polls of silence.

*The line.* A step of the line is a step of the master alone, of the slave alone, or a
stutter for either, so both keep what is proved of them. `ExecutedAsSent` then compares
three counts: `LinkInv` bounds the frames heard that carry a request, and the one still
on the line, by `sends`; and the slave executes a frame once. The two theorems about
answers are about time. `SlaveTime` is the number of calls the slave still needs until it
listens again, `Left` adds `Hearing` while a request is on the line, and `TimeInv` says
that while the master waits, `Left` less the lead of its clock plus the calls it has
waited never exceeds `Hearing + Drift`: every call of the slave lowers `Left` by
one at least and the lead by one, every call of the master raises both the lead and
the count. When a wait ends the lead is below `Drift`, so `Left` is 0 and nothing is
under way. `RequestInv`, `AnswerInv` and `ReceivedInv` follow the request through the
slave and back: as nothing is under way when a request is transmitted, what the slave
works on is what the master waits for, and the register keeps its value until the
answer is judged.

*The exchange.* `AskedInv`, `AnswerInv` and `TakenInv` describe the PDU in each phase:
as the request packet, as one of an exception, a read's or a write's answer, and as what
the client took out of it. The work is in the lemmas: a word comes out as it was put in,
a read's answer holds the registers of its range unless the range wraps (5), and a
write that is acknowledged changed the registers of its range and no other.

*The demo.* `WindowInv` describes the ring for every pair of places the two threads may
be at: the full slots are `Length` many from `First`, where `Length` is what
`field_used` counts, plus the request that is written but not counted, less the one that
is emptied but still counted. It holds until an update is lost, and so do the invariants
built on it. `CallbackInv` adds who may be waiting for a callback.
That adds find room is again an argument about time, across the two threads. `LoadInv`
and `AddingInv` bound what both lists and the round that is being added hold together.
`TimerInv` says how soon the oldest request in flight is given up. `TimeInv` is the
invariant of the wait: as long as more requests are left than the pending list takes,
the calls of `Run` since the last round (`Elapsed`) have each moved one on or are part
of the wait for a give-up. When the wait is over, `Elapsed` has outgrown that bound,
so what is left fits beside three more.

**Only model-checked.** All liveness (`EveryRequestFetched`, `EveryRequestResolved`,
`EveryRequestServed`, `EveryFrameAnswered`, `PollingGoesOn`): the provers here know
neither fairness nor `ENABLED`. `BuildsAgree` and `ImplementsExchange`: `ModbusCRC` is
recursive and uses exclusive or on numbers, which the provers do not know, so nothing is
proved about it or about `ModbusFrames`. The
bounds on time that the theorems give (`RequestsAge`, `ServiceBounded`, `ListensAgain`)
count calls of `Run` and say nothing of whether it is called.

## 5. Where the code and its comments disagree

Shown by a run that finds the property violated:

- **Room that is not there** (`tcp_overwrite`, `mctcp.c:174`). A give-up counts
  `field_used` down twice. The next request passes `hasPendingListEnoughSpace` with
  every slot in use and overwrites a request that waits (`mctcp.c:469-471` says a free
  place must exist).
- **Sent to another slave** (`serial_header`, `mcserial.c:226`). `req_waitreply` is
  given a header of its own (`mcserial.h:53`), but the fetch copies the list's pointer
  over it: filling the list redirects the retransmission.
- **Other values than the server's** (`tcp_read`, `mctcp.c:678`). The high byte of a
  register is shifted right as an `int8_t`, which leaves its sign (`mctcp.c:674` says
  the data of the answer is written to the application's area).

Read in the source while modelling; no run is spent on them.

Request list and TCP client:

- A thread that fills the list between the fetch and the copy of the header replaces
  the header of the fetched request (`request_structure.c:78`): two requests then have
  one transaction id, and one has none (`mctcp.h:44-48`). `LiveTransidsDistinct` (in
  `ModbusClientTCPMatchingProofs`) is false of behaviours with `Threads = TRUE`.
- A request with a function the client does not know is placed in the pending list and
  sent with whatever PDU was built last, under its own header (`mctcp.c:426`);
  `packageSendFromPendingList` leaves the body of the packet as it was.
- Where `char` is unsigned a refused add is reported as `ERROR_OK`
  (`request_structure.c:46`); with `CharIsSigned = FALSE` the run `queue` fails.
- `getModbusClientTCPReqListItemCount` and `...PendListItemCount` return each
  other's count (`mctcp.c:368-376`, `mctcp.h:296`).
- The confirmation of a give-up carries the header received last (`mctcp.c:185`), and
  NEGATIVE is also reported for a slot whose answer came in the same `Run`
  (`mctcp.c:169`, `mctcp.h:92-94`).
- `retry_limit` counts the first transmission (`mctcp.c:173`, `mctcp.h:286`).
- The unit id is not compared when a request is dropped as a duplicate
  (`mctcp.c:719`).
- The length in the header of a WRITE_MULTIPLE leaves out its byte count
  (`mctcp.c:213`, comment at 221-222).
- The confirmation of a read of 64 registers or more names a count of about 65500
  (`mctcp.c:643`).
- `getModbusClientTCPHeaderLastExecutedReq` reads a slot the list reuses
  (`mctcp.c:278`).

Serial master and log:

- `ticker` is not cleared when a frame grows, so pauses between bytes add up to `t35`
  (`mcserial.c:320`, `mcserial.h:65`).
- The retry limit is tested before the frame is looked at: after `param_retry` bad
  answers a good one is logged as a timeout (`mcserial.c:345`).
- `TransmitOperation_LL` is documented as returning an unused value
  (`modbus_interfaces.h:18`); `mcserial.c:259` takes any value but 0 as a failure.
- An empty log is looked up with a variable that is never set (`mc_log.c:146`). A full
  log stops counting the failures of the requests it knows (`mc_log.c:21`).
- `findBiggestErrorIndex` returns a count, not an index (`mc_log.c:125-141`), and
  `getMCLStartAddressErrorCount` one failure less than there were, as the entry of the
  first starts at 0.
- Entries keep the register count as an `int16_t` (`mc_log.h:25`), the lookup compares
  it with a `uint16_t` (`mc_log.c:164`): a request for 0x8000 registers or more never
  matches its entry, and every failure of it takes another one, until the log is full.
- `retry` has 16 bits (`mcserial.c:305`): with a `param_retry` of 65535 a request that
  timed out 65536 times would be dropped without a word. `TimeAssumption` excludes that
  value, and 65535 for `t35`, `param_wfr` and `param_tad`, which their timers never
  exceed.
- Setting up the log again (`mcserial.c:176`) clears neither its entries nor its total.

Slave, PDUs, CRC:

- Broadcasts are not executed (`msserial.c:212-219`); a slave with an address of 128 or
  more never answers (`msserial.c:213`).
- `tick` has 16 bits and is compared with `<=` (`msserial.c:111`): a `param_wait` of
  65535, or one that `tick` steps over in strides of `control_intervals` and wraps, is a
  wait that never ends. `WidthAssumption` excludes these values; nothing in the code does.
- The slave builds the answer of a read in `PDU` and sends it after the wait
  (`msserial.c:111`): registers its application writes in between are answered as they
  were.
- `RequestPacketWriteMultiple` does not bound the register count: from 124 registers on
  the serial frame of `9 + 2n` bytes is longer than `buffer_tx[256]`, and the master writes
  past it. The PDU of the model is a sequence without such a limit: the run `frames` also
  builds writes of 126 registers, which the slave refuses, and no property depends on
  the overrun.
- `register_adr_end` wraps (`modbus_pdu.c:54`): a read that ends at register 65535
  answers with what the buffer held before. Only the first and the last address of a
  range are checked (`modbus_pdu.c:48`).
- `modbus_pdu.c` calls the register functions with more parameters than
  `modbus_pdu.h:44-47` declares.
- The CRC without a table widens a byte with its sign (`modbus_crc.c:127`).

Composition:

- On the line, a wait that is too short breaks `AnswerReachesOwner`: with a drift of 1
  at `param_wfr` 3 and below, with a drift of 2 still at 5. A late answer then ends the
  next request to the same slave. Waits for which it cannot happen are in 4
  (`WaitsLongEnough`: 8 and 10 for the instance); nothing in the code relates
  `param_wfr` to the time of a slave.
- A request whose answer is lost is transmitted and executed again; the properties
  bound the executions by the transmissions.

Demo:

- `field_used++` and `field_used--` of two threads are not atomic
  (`request_structure.c:92`, `134`). After one lost update `Run` may fetch from an empty
  list. The null request it gets has a header of size 0 (`request_structure.c:140`), so
  nothing is copied into the slot (`mctcp.c:492-494`): it keeps the header of an older
  request and the PDU built last is sent under it again. The order of requests may
  change, too. The properties of `demo` say nothing of these behaviours.
- `AddsHaveRoom` depends on the speed of `Run`. With one call a second in the lists
  of `demo`, a timeout of 2 and a wait of 4, requests of one round are left over when the
  next comes, and an add nobody looks at is refused. `WaitDrainsList` (4) is enough, not
  necessary: it asks for 11 calls there, where TLC finds 5 to do. The timeout of the demo
  is 80000 calls, which the comment takes for 2 seconds (`SocketClientThread.c:121`); at
  100 microseconds a call it is 8, and two of them must fit into the wait of 20.
- A request fetched before its callback is attached runs without it.
- `ThreadReceive` writes `buffer_rx` and `rcv_size` while `Run` reads and clears them
  (`SocketClientThread.c:329`, `166`): a packet may be torn, or announced and never seen.

## 6. Not modelled, and what comes next

Not modelled: printing, sockets and reconnects of the demo (I/O); its receiving thread,
of which only a lost answer is left (of a torn packet, which may hold any bytes, nothing
could be said); remote address and port; packet counters and `req_last_completed`;
getters that only read; setters at run time (parameters are constants);
`modbus_interfaces.h` (types only). Frames shorter than they claim are not given to the
CRC (`msserial.c:227` reads before its buffer for a frame of one byte). `AddCommand`
does not collide with an add of the other thread, which the code leaves to the time an
answer takes.

What is left:

1. What the serial master keeps without `LeavesRoom`: that the header is the only part
   of the request served that an add can change.
2. What the demo's threads keep after an update of `field_used` was lost, beyond the
   types of `TypeCorrect`.
3. `BuildsAgree` and `ImplementsExchange` for every byte and every length, which needs
   exclusive or on numbers in the prover.

# Verification of the BL808 kernel, its flashing tool and its emulated machine

TLA+ models of the bare-metal kernel in `src/src/bl808/`, of the tool that flashes
it, and of the QEMU machine it is tested on (`src/qemu-machine/hw/`), with their
model checks (TLC) and proofs (TLAPS). Plain line numbers refer to
`src/src/bl808/kernel/`.

## The system

The BL808 has three RISC-V cores (M0, D0, LP). Each runs one cooperative
scheduler. Tasks are Nim procedures in continuation-passing style: an `await`
stores the rest of the task as a callback of a future, and completing the future
runs that callback inline. Interrupt handlers run between any two instructions
of the scheduler. The cores share a block of memory (XRAM) and signal each other
by interrupts. The firmware is built without run-time checks and without
threads, so there is no locking beyond disabling interrupts. The emulated machine
is C code inside QEMU: devices with registers, timers and bottom halves that run
between the accesses of the guest.

| part | source | state | operations |
|---|---|---|---|
| scheduler | `sched.nim` | ready queue, ISR queue, timer heap and pool, timed hooks, compare register | `post`, `postFromIsr`, `addTimer`, `cancelTimer`, `runScheduler` and its steps, `timerIsrHandler` |
| ISR bridge | `isrbridge.nim` | slots (future, active), completion ring | `registerIsrFuture`, `releaseIsrSlot`, `completeIsrSlot`, `drainIsrCompletions` |
| futures, sleep | `runtime.nim`, `sleep.nim` | finished, error, callbacks, timers | `complete`, `fail`, `cancel`, `addCallback`, `withTimeout` |
| channels, synchronisation | `channels.nim`, `sync.nim` | ring buffer, permits, flags, waiters | `send`, `recv`, `close`; `acquire`, `release`, `lock`, `wait`, `set`, `arrive` |
| RPC bridge | `ipcbridge.nim` | slots in XRAM, pending calls, tokens, deferred completions | `ipcCall`, `processRequestAt`, `processResponseAt`, `ipcPoll`, `timeoutPendingCall`, `ipcBridgeInit` |
| drivers | `asyncuart.nim`, `emacdrv.nim` | a waiter for each operation, descriptor rings | start, interrupt, poll, time-out |
| heap | `tlsf.c` | blocks, lists and bitmaps of free ones | malloc, calloc, realloc, free |
| retained records | `fault.nim`, `boothealth.nim` | words that survive a reset | record, capture, clear |
| WASM store and control | `../wasm_store.nim`, `../wasm_peer_control.nim` | a slot in flash; a request record in XRAM | write, query; publish, serve, poll, give up |
| network and radio support | `lwip_wifi_smoke/timeouts.c`, `../wifi_vendor_support.c` | list of time-outs; element lists, station state | add, remove, check; push, pop, insert; start, scan, connect |
| flashing tool | `src/tools/uart_flash_anchor.c`, host `hw_validate.py` | request parser, flash | erase, program, verify, retry |
| emulated machine | `src/qemu-machine/hw/` | registers, FIFOs, timers, lines | register access, DMA, bottom half, timer, gating, reset, boot |

What is hard to test in it:

* Interrupts between the statements of the run loop: the sleep decision, the two
  writes of `addTimer`, the flags `fireExpiredTimers` reads one by one.
* Callbacks that run inline and re-enter the structure that runs them, and
  waits that time out just as they are served.
* Cores that share slots without locks, with time-outs and restarts of one side.
* Fixed tables (timers, ISR slots, completions, pending calls, FIFOs) at their
  limit.
* Resets and power loss between the words of a record or a program in flash.
* Emulated devices that must reschedule a timer or a bottom half at every
  register write that may have made work, and keep a line equal to what the
  registers say.

The main hazards are listed at the lines where they bite, with the properties
that would catch them, under `hazards` in `PROJECT.json`; those without a property
say why.

## Modules

| module | models | checked by |
|---|---|---|
| `Sched` | `sched.nim`, completion ring of `isrbridge.nim` | itself, with `Sched_*.cfg` |
| `Rpc` | what a remote call promises | as a property of `IpcBridge` |
| `IpcBridge` | `ipcbridge.nim` | `MCIpcBridge` |
| `PeerControl` | `../wasm_peer_control.nim` | itself |
| `BL808Timer`, `TheadClint`, `XtClic`, `BL808Ipc`, `BL808Dma` | emulated timers, interrupt controllers, mailbox, DMA, with the guest code that drives them | `MCParts` (`machine`) |
| `BL808Uart`, `BL808I2c`, `BL808Spi`, `BL808Pwm`, `BL808I2s`, `BL808Audio`, `BL808Dma2d`, `BL808SfCtrl`, `BL808Glb`, `BL808Usb`, `BL808Emac`, `BL808SecEng`, `BL808Cores`, `BL808Pds`, `BL808Hbn`, `BL808Boot` | emulated peripherals, power, clocks and boot | `MCParts` (`machine`) |
| `CpsFutures`, `AsyncSync`, `AsyncChannels` | futures, the slots of the ISR bridge, and what is built on futures | `MCParts` (`firmware`) |
| `AsyncUart`, `EmacDriver` | two drivers over the ISR bridge | `MCParts` (`firmware`) |
| `Tlsf`, `LwipTimeouts`, `UtilsList`, `WifiSta` | C code of the firmware | `MCParts` (`firmware`) |
| `FlashAnchor` | the flashing tool with its host and the flash chip | `MCParts` (`firmware`) |
| `WasmStore`, `RetainedRecords` | data that survives power loss or a reset | `MCParts` (`firmware`) |
| `Parts` | the four parts with proofs (`SfCtrl`, `Boot`, `WasmStore`, `RetainedRecords`), their properties in the runs, theorems | extended by `MCParts`; TLAPS |
| `SchedProofs`, `IpcBridgeProofs`, `BL808BootProofs`, `BL808SfCtrlProofs`, `RetainedRecordsProofs` | theorems | TLAPS |

`RingFifo` is the ring buffer that devices, channels and the ISR bridge have in
common. `map` in `PROJECT.json` gives the lines each definition stands for. An
operator marked `Mutant` is a plausible slip in the operator after it; each
property is violated by the mutant that `PROJECT.json` names for it.

### Sched

The variable `pc` walks through `runScheduler` (398-446); a label is a point
between two statements where an interrupt can be taken, and an action is the
code up to the next such point. Code under `withInterruptsDisabled` is one
action. An interrupt saves the label and returns to it. Callbacks and hooks are
run at labels of their own, where they may do what a task may do (post, add and
cancel timers, add hooks) a bounded number of times. Ticks are a small range of
integers; the counter, the compare register and the device interrupt lines are
external. The heap is the set of its entries, of which `heapPop` takes one with
the least deadline; the array behind it is not modelled.

* `sched_sleep` (pass): timers are added, cancelled and fired and a timed hook
  runs, with interrupts between any two statements. The pool is consistent, a
  cancelled timer stays silent, and the core goes to sleep only with empty
  queues and the compare register armed for the first deadline. There is no
  untimed hook, so the core may sleep for good: deadlock is not checked.
* `sched_live` (pass): with an untimed poll hook, as on every core that runs the
  bridge, and no timed one: posts, completions and timers are all served, and no
  timer fires early. Fairness: the core executes (weak fairness of the loop),
  the counter advances, and a due timer interrupt is taken; tasks stop posting
  after their bound.
* `sched_early`, `sched_losttimer` (violations): two places
  where the loop does not do what its comments say; see `findings`.

Bounds: two timers (one in the violations), one timed hook,
queues of one entry, ticks up to two or three. They are enough for a timer to be
added before, at and after another deadline, for both queues to overflow, and
for every order of two interrupts.

### IpcBridge

One caller core and one server for each route. An action is one access to shared
memory with the local work behind it. A result is the pair of the calls whose
tag and whose arguments the handler saw, so a handler that runs on a mixed
request is visible. `Rpc` is the abstract specification: a call is issued once
and then either answered with its own result or failed, once.

* `ipc_timeouts` (pass): the calls of one route may time out, and any task may
  give up the call it awaits, at any point of the server's work; results match,
  and the bridge implements `Rpc`.
* `ipc_reliable` (pass): one route, no timeouts; the caller core may restart,
  with or without the server, and use its tokens again. No request is lost, the
  handler sees exactly what was published, results match, and every call
  finishes or is lost with the caller core.
* `ipc_wiped`, `ipc_torn`, `ipc_crossroute` (violations): what a timeout while
  the handler runs, and a restart with two routes, can do; see `findings`.

Fairness (`FairSpec`): each core keeps running (weak fairness of each server and
of the caller's procedures), the poll hook polls all routes again and again, and
an armed timer expires. These follow from the scheduler with an untimed poll
hook, which is what `sched_live` checks.

Bounds: three calls on one or two routes, so that two calls follow each other on
one route while another route is active; a table of one or two entries and a
queue of one, so that both fill up; one restart. Tokens are bounded below their
32-bit wrap.

### PeerControl

M0 asks a peer core for work on its WASM tasks through one record in shared
memory: M0 writes a request word by word and then its state, polls for the
answer, and may give up; the peer polls the state, claims, works, and writes its
result into the same record. An action is one access to the record. Every word of
a request holds its number, so that a mixture of two requests shows.

* `peer` (pass): four requests and set-ups, two of them given up at any point of the
  peer's work. A request that began with the peer at rest gets its own result
  (`ResultOfRequest`), is worked on once with its own words (`RunOnce`), and is
  answered (`NotForgotten`, and as liveness `AnswerComes`). Fairness: M0 goes on with
  what it began and the peer's main loop keeps serving (weak fairness of each);
  giving up is not relied on, so the answer alone ends the polling. After its last
  request M0 may rest, so deadlock is not checked.

Two requests given up let late answers of both meet the two requests after them.

### Machine and firmware

`MCParts` checks the parts of these two runs (the constant `Chosen` says which).
They do not share state, so one behaviour is about one of them: `unit` names it,
`st` is its state, `ops` counts what its environment did, and the state spaces add
up. Every part is an `INSTANCE` of its module with small constants. A property of
the run is one promise, made by several parts: its conjuncts have the form `unit =
"x" => X!Property` and are stated and explained in the modules. Deadlock is not
checked, because a part whose environment has used up its operations may stop;
"this will happen" is stated as "it is scheduled", so that a lost wake-up shows as
a state with work and nothing scheduled. The bounds (`MaxOps` and the small FIFOs,
memories and sets of configurations in `MCParts`) let tables fill up and wrap,
faults and resets come between any two steps, and two requests follow each other.

`machine`. A register access, a timer callback and a bottom half are an action
each; the guest is the driver in `src/src/bl808/` where there is one.

| property | says | of |
|---|---|---|
| `DeadlinesKept` | the watchdog is armed in time, a deadline written in halves fires neither early (but see below) nor late, a tick read in halves is right up to one carry, the alarm is on time, delayed and sampled pads are served, the period timer follows its group | Timer, Clint, Hbn, Pds, Pwm |
| `EventsSeen` | no compare value is skipped, an enabled compare event or edge is seen and stays pending | Timer, Glb |
| `LinesExact` | the list of active interrupts, the line to a core and every interrupt line are what the registers say now | Clic, Ipc, Uart, I2s, Audio, Glb, Usb, SecEng, Hbn |
| `WorkScheduled` | a part that could work is scheduled; only an empty or full FIFO stalls it | Dma, I2c, Spi, I2s, Audio, Dma2d, Usb, Emac |
| `DataInOrder` | elements, bytes and USB frames pass once and in order; of Ethernet packets none is lost while there are descriptors (a new one may overtake those in the queue) | Dma, Uart, Spi, Usb, Emac |
| `JobsExact` | a step that ends a job has done all of it: terminal count, transfer, blit against a reference image, requests of the host, cipher and back | Dma, I2c, Dma2d, Usb, SecEng |
| `StatusTrue` | bus busy, end of transfer, stop and link mean what they say | I2c, Spi, Pwm, Emac |
| `FlashShown` | the execute-in-place window and the host's drive mirror the flash; the ROM jumps into the image the window shows | SfCtrl, Boot |
| `FlashGuarded` | one write enable is one change, permanent locks stay | SfCtrl |
| `EngineExact` | a CRC is the remainder of the whole message however it is cut, a digest that of its session, a tweak that of its position | SecEng |
| `PowerFollowed` | clients follow gates and resets, isolated pads hold, cores run exactly when released, no sleep goes on while an enabled source that holds its level asks to wake | Glb, Cores, Pds |
| `BootSurvives` | a cut-short update leaves something to boot, a fall-back is found again by the next reset | Boot |

`firmware`:

| property | says | of |
|---|---|---|
| `HeapConsistent` | blocks fill the pool, lists and bitmaps show exactly the free ones, a held block is intact, a request fails only when no free block has the size of its class | Tlsf |
| `FlashedExactly` | success at the host means the image is in the flash, only bytes a request names change, one fault is repaired | FlashAnchor |
| `TimeoutsKept` | a check leaves nothing due, a timer is pending once, the sleep ends in time, with a clock that wraps | LwipTimeouts |
| `RadioStateFaithful` | pointers stand for the sequence they should; tables and connection state follow the last beacon and indication | UtilsList, WifiSta |
| `WaitersServed` | a permit is free or has one owner, a waiter can be woken, nobody waits for what is there, no party passes a barrier early | AsyncSync |
| `ChannelsFaithful` | a value is in one place, blocked senders keep their order, no end waits for what is there | AsyncChannels |
| `DriversDeliver` | bytes and frames once and in order, a reader with a byte there is about to be woken, slots are taken exactly while a task waits | AsyncUart, EmacDriver |
| `StoreSound` | what a query shows as present is whole, what returned ok is present, a failed stream leaves nothing | WasmStore |
| `RecordsTrue` | a record that passes its checks counts the starts and tells of the last fault | RetainedRecords |

Assumptions, each stated with the property it limits:

* Re-entrance (`AsyncSync`, `AsyncChannels`): a task may use the primitive inside
  the call that resumes it. A waiter of an event or barrier that waits anew inside
  the loop of `set` or `arrive` is lost (`sync.nim:171`, `:205`), and a permit, lock
  or value can go to a future that is then cancelled (`sleep.nim:71`). The history
  variable `torn` marks behaviours in which that happened; `NoLostWaiter` (events
  and barriers), `InStep` and the equations of `PermitsConserved` and
  `ValueConserved` leave them out. That nothing has two owners, `NoIdleWaiter`,
  `SendOrder` and `NoIdleEnd` hold in all. In `IpcBridge` a task that an
  overflowing completion queue resumes inside the poll does not call from there.
* Sleep: `SleepsOnlyWhenIdle` leaves out an interrupt between the last check and
  WFI. The core then sleeps on posted work; nothing is promised there, and
  `sched_live` is about cores with a poll hook, which do not sleep.
* Deadlines (`TheadClint`): while the high half of the compare value is all ones
  (within `setDeadline`, after `clearDeadline` and reset), the distance QEMU
  computes wraps to the past and the timer fires at once, whatever "prevent
  spurious" (`clock.nim:99`) says. `DeadlineNotEarly` leaves these states out; when
  `setDeadline` has returned nothing of it is left. A tick that LP reads across a
  carry is 2^32 too large.
* Clocks: timer callbacks come at most `MaxLate` ticks late; `BL808Timer` is not
  accessed in reset (`AccessInReset = FALSE`). With a stopped watchdog clock the
  code divides by zero; the model takes the quotient 0, and a behaviour in which
  the emulator ends there is a prefix of one in the model.
* Wake-up: `NoSleepThroughWakeup` is about sources that hold a level (hibernate
  block, pins, watched pads) and leaves out a change of the sources during sleep.
  Infrared, radio and D0 events end a sleep they come in and are not remembered.
* Interrupt lines: `ReceiveSignalled` is about receiving; enabling the UART's
  transmitter may end a transmission without the line being looked at.
  `LineExact` speaks of a core that has taken the last update. In the security
  engine a direct write of the collected owner word moves owners without the
  lines; `OwnersInterrupted` is silent from there to the next change of an owner.
* Security engine: the digest sessions share an accumulator, and every run
  overwrites the result register. `DigestOfSession` leaves out another digest in
  between and `CrcOfWhole`, for the CRC of the registers, any other session.
* Heap: sizes wrap as a `size_t` does. The room of a held block is claimed for a
  request whose rounded size does not wrap, and `FitFound` counts free blocks
  below 2^`FlMax` (1 MiB in the code); larger ones are listed under the last class.
* Flash: a block at the end of the 32-bit address space passes the size test,
  since its end wraps; the write past the flash memory is undefined and here
  leaves the flash as it is. `WindowMirrorsFlash` leaves out a chip reset by
  command.
* Flashing: `ImageWritten` leaves out an image of a single chunk whose erase was
  sent more than once: erase and write have the same counter, so a late answer to
  the one passes for the answer to the other.
* Radio: beacons may be malformed or incomplete (no name, no channel). The
  diagnostic table keeps the place of a rejected one, and the cache ignores
  incomplete ones; `DiagShowsLatest` and `StrongestFound` say so.
* Network time-outs: when the pool has no element a time-out is dropped, after an
  assertion, and a cyclic timer dropped in this way never runs again. `OnePending`
  counts it as lost.
* Time-outs: `BytesInOrder` of `AsyncUart` is complete, and `SlotsMatch` holds,
  without a time-out only; `NoSlotLeak` allows one slot for each time-out. One
  task reads.
* Concurrency: `PeerControl` speaks of requests begun with the peer at rest, which
  `dispatchPeerRequest` does not check; `RetainedRecords` leaves out updates by
  two cores at once and crash records cut short.
* Faults: `StreamFailsClean` and `OneFaultTolerated` allow one fault.
* Data: checksums and CRCs of stored data tell all contents apart; the block
  cipher and the digests are uninterpreted.

## Proofs

`SchedProofs` proves, for every number of timers, posts, hooks and every range
of ticks:

* `TypeCorrect`, `PoolNeverLeaks`, `CancelledTimersStaySilent`: by `PoolInv`,
  which adds to the type and the pool property what the labels say about the
  entry that is being fired: it is in use, out of the heap, and not cancelled
  while its callback runs.
* `SleepIsSafe`: by `SleepInv`. Between `reprogramNextDeadline` and the sleep
  decision interrupts may post and the timer interrupt may disarm the register;
  the invariant follows the deadline that was computed through the write to the
  register and both checks.
* `NoHooksNoEarlyTimer`: by `EarlyInv`, under the assumption that there are no
  timed hooks: then the programmed deadline is never later than the first in the
  heap, except within `addTimer`, where the register still holds an earlier one.

`IpcBridgeProofs` proves, for every set of calls and routes, every assignment of
calls to routes and all table sizes:

* `IpcTypeCorrect` and `ResultsMatch`, for a caller core that does not restart
  (`MaxRestarts = 0`; `ipc_crossroute` shows that the second needs it), with any
  timeouts and cancelled calls. The inductive invariant `IInv` says where a
  token can be: tokens name calls, a token appears only in the slots of the
  route of its call (`TokensOnRoute`), at most one call is pending on a route
  (`OnePerRoute`), a published request is whole (`RequestWhole`), a server that
  works on the token of a pending call works on that call's request
  (`ServesPending`), and a response with the token of a pending call is whole
  and its server done (`ResponseWhole`). A server may still work on a call that
  timed out; its token no longer belongs to a pending call, which is why these
  conjuncts speak of pending calls only. `ServerStep` and `CallerStep` reduce a
  step to the conjuncts it can disturb.
* `NoCallLost` and `HandlerSeesRequest`, for calls without timeouts in addition
  (`Timed = {}`; `ipc_wiped` and `ipc_torn` show why). `HandOver` adds to `IInv`
  that a busy server's request is still in its slot (`RequestHeld`), that a
  response in its slot means the server is done (`ResponseLast`), that the
  response is there before the request is cleared (`ResponseFirst`), and that
  the caller writes only into free slots (`CallerHolds`).
* `BridgeImplementsRpc`, the refinement: for a caller core that does not restart,
  every step of the bridge is a step of `Rpc` under the mapping of the run
  `ipc_timeouts`, or a stutter. `IInv` gives that a completed call has its own
  result; `ValuesUnset` is added to it (a future without a result holds no value),
  without which a failing future could show one. Each action then either leaves
  the futures alone (`IdleFulfils`) or settles exactly one call.

`BL808BootProofs` proves, for every set of options, headers and number of steps,
and any damage, power loss and updates (`RomAlwaysAgrees`, `FallbackAlwaysSticks`,
`UpdateAlwaysSafe`), under `Assumptions`: images that are written are well formed,
and the age of a table does not wrap (`MaxOps + 3 < AgeWrap`). A reset searches
the flash twice, before and after it repairs the tables. The invariant therefore
says that both copies have the shape the tools write (`TablesAt`), bounds their
ages by the steps so far (`AgesAt`), says that a flash untouched since the reset
needs no repair and gives the running header again (`SettledAt`), and that an
update never touches what runs (`UpdatingAt`).

`PeerControl` proves `ResultAlwaysOfRequest`, `AlwaysRunOnce` and
`NeverForgotten` for any number of requests, set-ups and requests given up. The
record is written and read word by word, so the three properties are not
inductive: `Stages` says for a request begun with the peer at rest which words
are written and read at each place of the two cores (`Publishing`, `Waits`,
`Claimed`, `Answering`, `Answered`, `Taking`). That the answer comes at all is
liveness and stays with the run `peer`.

`BL808SfCtrlProofs` proves `FlashAlwaysShown` (the flash part of `FlashShown`) and
`FlashAlwaysGuarded` (`FlashGuarded`) for any number of commands, boot writes,
moves of the image offset, resets and failing write-backs, and for any sizes that
meet `Geometry`: the flash is made of whole pages, there are a smallest and a
largest erase size, and the address space goes at least one erase beyond the flash. The invariant `Good` adds the types to the two mirrors and
says that a lock bit that is permanent is also in force. The core of the argument
is `Copied`: the part of the window that `sync_xip` copies, clipped at both ends,
is all that a change of the flash can have made stale. `Executes` goes through the
commands, each of which is shown to be `Sound`.

`RetainedRecordsProofs` proves `RecordsAlwaysTrue` for any number of starts,
faults, captures, clears and resets between any two writes of the two cores. The
writes a core has left are the rest of one of five procedures; `Stage` says for
each rest what the writes already made have left in the record. `HealthInv` adds
that a record nobody writes is valid or counts for nothing, and what a checksum
vouches for (`SumTrue`); `CrashInv` does the same for the crash record.

`Parts` states the five properties as the runs check them and proves
`FlashStaysShown`, `FlashStaysGuarded`, `BootStaysSafe`, `StoreStaysSound` and
`RecordsStayTrue`. The first, second, third and last come from the invariants
above, part by part. `StoreStaysSound` holds for any set of programs, slot and
chunk size and any number of faults, under `Fit` (a program is not empty and fits
into the slot) and `CrcTells` (the idealised CRC tells contents apart). Its
invariant says where the contents of the slot can come from (`Sources`), which
cells the stream writer has compared (`Compared`), and what the header is before
the first fault (`HeaderKnown`).

`Geometry`, `Fit`, `CrcTells` and the assumptions of `BL808BootProofs` are
hypotheses of the theorems; the constants of the runs satisfy them. TLC confirms
the inductive invariants on instances of the size of the runs.

TLC alone checks:

* liveness (`sched_live`, `ipc_reliable`, `peer`), which is out of this prover's
  reach;
* `ipc_reliable`'s restarts: with the tokens used again, the invariant of the
  bridge would have to follow calls of earlier lives of the core;
* the other parts of `machine` and `firmware`. In some of them the property rests
  on what a recursive definition computes (the heap's search, copies, checksums,
  time-out lists), which would need induction over data.

## Not modelled

The parts left out, with reasons, are under `components` in `PROJECT.json`: the
CPS macro and the desktop runtime, vendored or ported stacks (file systems, lwIP,
Wi-Fi commands, BLE), the WASM interpreter and its sequential task table,
secure boot, enclave, PUF and NPU (parsing, cryptography and numeric code), USB
and SD register sequences, the interrupt handlers of the DMA, SPI and I2C
drivers, the raw mailboxes (which promise nothing by themselves), plain register
drivers and register files, and the shell and log. Also task groups (`tasks.nim`:
counting on top of futures), the JTAG flash stub (the anchor's loops behind a
debugger), and the emulated checksum unit, analog port and PSRAM controllers
(a sum, FIFOs like those modelled, and computed status words).

Within the modelled parts: the array of the timer heap, the stack guard and its
fault, statistics counters, the interrupt signal between cores in `IpcBridge` (a core polls anyway),
registration of RPC handlers, and the wrap of the token counter.

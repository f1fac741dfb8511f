# A TLA+ model of the RISC-V virtual prototype

RISC-V VP simulates 32 and 64 bit RISC-V systems on top of SystemC/TLM. This
directory holds TLA+ modules for the parts of it in which the order of events
decides whether the simulated machine is correct, TLC configurations that check
them on small instances, and TLAPS proofs of the most important results for all
values of the parameters. Paths below are relative to `vp/src/` unless they
start with another directory of the repository.

## 1. The system

### How it runs

SystemC schedules cooperatively: a process runs until it waits. The simulator
waits at few places only: a hart in `BusLock::wait_until_unlocked`
(platform/common/bus.h:134), in WFI (core/rv32/iss.cpp:1093) and when its time
quantum is used up (iss.cpp:1809); the DMA engine in the delay of its transfers;
the controllers for their events. Between two waits nothing else happens in
simulated time, so the interesting interleavings are those at the waits. Three
kinds of real threads run beside the kernel: the receive and transmit threads of
the UARTs, the timer threads of the real-time CLINT, and the debugger's thread
that reads packets. They reach the kernel only through `AsyncEvent`.

The 32 and the 64 bit core are separate copies of the same code: decoder, MMU and
floating point registers are shared, `exec_step`, the CSRs, traps and the memory
interface exist twice. Where a copy differs (executor, CSRs) each has its
module; where it does not, one module models both, and the map points at one of
them.

### Components

| component | state | operations | talks to |
|---|---|---|---|
| bus lock (platform/common/bus.h, core/common/bus_lock_if.h) | `locked`, `owner`, `lock_event` | lock, unlock, wait for access rights | every hart's memory interface, `PeripheralWriteConnector` |
| memory interface (core/rv32/mem.h, core/rv64/mem.h) | `lr_addr` | load, store, fetch, LR, SC, AMO halves, page table accesses | bus lock, MMU, bus |
| ISS (core/rv32, core/rv64) | pc, registers, `prv`, CSRs, `lr_sc_counter`, quantum keeper, `wfi_event` | run_step: execute, trap, interrupt, return, WFI, sync | memory interface, CLINT, PLIC, debugger |
| decoder (core/common/instr.cpp, instr.h) | none | decode a word, expand a parcel, immediates, names | ISS |
| CSRs (core/rv32/csr.h, core/rv64/csr.h) | registers, masks, views | the six CSR instructions, counters, interrupt lines | ISS, CLINT, PLIC |
| floating point (core/common/fp.h, iss.cpp) | registers, fcsr, mstatus.FS, softfloat's global flags | the F and D instructions | ISS |
| MMU (core/common/mmu.h) | TLB | translate, walk, flush | memory interface |
| CLINT (core/common/clint.h) | `mtime`, `mtimecmp`, `msip`, one `irq_event` | run, register accesses, the time CSR | all harts |
| real-time CLINT (core/common/real_clint.cpp, timer.cpp) | the same, host time, one POSIX timer per hart | the same, timer callbacks | all harts, `AsyncEvent` |
| FE310 PLIC (platform/common/fe310_plic.h) | priorities, pending, enabled, threshold, `hart_eip`, `e_run` | trigger, run, claim, complete, configuration | peripherals, one hart |
| FU540 PLIC (platform/common/fu540_plic.cpp) | the same per context (hart, mode) | the same | peripherals, five harts |
| UART (platform/common/abstract_uart.cpp; uart.cpp, slip.cpp) | two FIFOs, two semaphores, watermarks, `stop` | register accesses, interrupt, receive, transmit, destructor | PLIC, host |
| debugger (core/common/gdb-mc) | packet queue and its mutex, run and stop events, hart status, selected threads | serve, dispatch, run, vCont, run_threads, other packet handlers | all harts, debug memory, the client |
| DMA engine (platform/basic/dma.h) | src, dst, len, op, buffer | register write, copy | PLIC, bus through the connector |
| other peripherals (platform/basic, platform/hifive) | registers, queues | register accesses, threads | PLIC |
| register maps, ELF loader, system calls | none, or static | pure functions, host I/O | ISS |

What makes each of them correct, and what is hard about it:

* *Bus lock, memory interface, ISS.* LR/SC and AMO must be atomic for software
  although they are several bus accesses, each of which may wait. The lock must
  not be held by a hart that waits for something else, and a hart must not keep
  the kernel by executing LR for ever. Traps, interrupts, WFI, page faults, page
  table updates and the debugger can interrupt a sequence anywhere.
* *ISS, traps.* An interrupt must be taken as soon as it is enabled, returns must
  restore what a trap interrupted however traps of different modes nest, and WFI
  must not sleep through an interrupt.
* *Decoder and executors.* Hand-written nested switches, masks, immediates and
  lists of names must agree with each other; arithmetic must be what the manual
  says for every operand, and the 64 bit core's word instructions what the 32 bit
  core computes.
* *CSRs and floating point.* Three privilege levels see masked views of the same
  registers, devices write some of their bits, and a trap must come before any
  effect. Flags accrue over a global variable of the library.
* *MMU.* A cached translation must not differ from the walk it stands for.
* *CLINT.* All harts share one event which remembers only its earliest
  notification; harts are ahead of simulated time by different amounts; the delay
  and the time of the wake-up are computed modulo 2^64. The real-time variant
  cancels host threads that may already have fired.
* *PLICs.* Claim, completion, new triggers and configuration come in any order,
  and the interrupt line follows one clock cycle later.
* *UART.* Three threads share the FIFOs; notifications merge; the destructor has
  to stop threads that may be blocked.
* *Debugger.* Stops all harts, some of which may wait for each other, and hands
  packets from one thread to another under a mutex that the first locks and the
  second unlocks.

The hazards, each with the line where it bites and the property that covers it,
are listed in `PROJECT.json`.

## 2. The modules

| module | models | role |
|---|---|---|
| `BusLock` | the lock's state and operations | extended by `HartMemory` |
| `AtomicMemory` | nothing: what software is promised | abstract specification |
| `HartMemory` | harts, memory interfaces, bus lock, DMA engine, debugger stops on the cooperative kernel | implements `AtomicMemory` |
| `Traps` | one hart's traps, interrupts, returns, CSR writes, WFI | against arbitrary software and controllers |
| `CLINT` | the simulated-time CLINT with all harts | |
| `FE310_PLIC`, `FU540_PLIC` | the interrupt controllers with the software that uses them | |
| `AbstractUART` | kernel thread, receive and transmit thread, destructor | |
| `RealCLINT` | the real-time CLINT with its timers' host threads | |
| `GDBServer` | the debugger's two threads and the runners of the harts | |
| `Tables` | joins the parts of a long table | used by the decoder, executor and CSR modules |
| `Opcodes`, `Instr` | encodings, names and formats; decoder and expansion | used by `ExecStep` |
| `Arith`, `RV32Exec`, `RV64Exec`, `FpOps` | the executors of both cores on a narrow machine; the groups of floating point instructions | used by `ExecStep`, `FPU` |
| `ExecStep` | decode, expand or execute one instruction | |
| `RV32CSR`, `RV64CSR`, `CSRs` | the CSR tables, access rules and instructions; the lines that drive mip | used by `HartState` |
| `FPU` | floating point registers, flags, FS | used by `HartState` |
| `MMU` | walk and TLB | used by `HartState` |
| `HartState` | one hart's CSRs, FPU and MMU together: a CSR write changes what the others do | |
| `*_proofs` | theorems about the module of that name; `PLIC_proofs` about both controllers, `CLINT_proofs` about `RealCLINT` too, `HartMemory_proofs` also about the instance without MMU, `ExecStep_proofs` about decoder and executors | |
| `MC*` | values of constants for TLC | |

Definitions named `...Mutant` stand before the definition they are a faulty
version of. They are not part of any specification; they show that the
properties notice the fault.

### HartMemory, BusLock, AtomicMemory

`running` is the process that has the SystemC kernel; it changes only where the
code waits. A hart's `pc` runs through the phases of an instruction: fetch,
`lock` (LR and AMO), `load`, `store`, `sc`, `wfi`, `trap`, `retire` (executed,
an interrupt may be taken), `update` (a trap or an interrupt was taken); from the
last two `Retire` does the countdown and the sync. Actions and code:
`LockForAtomic`, `LoadData`, `StoreConditional`, `StoreData` are the functions of
`CombinedMemoryInterface`; the `...Blocks` actions are the same functions when
they have to wait; `AccessFaults` is a failed transaction or translation;
`TakeTrap`, `TakeInterrupt`, `Retire` are the tail of `run_step`; `Stop` and
`Resume` are a debugger that stops a hart between two instructions, single steps
included (at most `MaxStops` times). `Translate` is a page table walk: it may set
the A and D bits, and that write ends in `atomic_unlock`.

`AtomicMemory` has the same memory and one atomic step per completed access.
`res` and `done`, the reservations as software sees them and the access just
completed, are history variables of `HartMemory`; the refinement mapping is the
identity on `mem`, `res` and `done`.

Abstractions: time is counted in retired instructions; the page tables' words are
outside `Addr` and virtual addresses are physical ones; the DMA engine copies one
word per operation; an instruction's operands are forgotten at `retire`. Left
out: harts that end (`sys_exit`), the system call handler's and the debugger's
direct accesses to memory, which bypass the lock.

### Traps

A step is a function on the hart's state: an instruction's effect followed by
`Interrupted` (an interrupt is taken if one is deliverable), or `Switched` for a
trap. `waiting` and `wfi_event` split the step of a WFI. `frame` is history: what
the last trap into each mode interrupted, forgotten when software overwrites the
saved context. Causes, trap values and vectored offsets are left out. Software is
arbitrary: every CSR write its privilege allows, with values of mstatus from
`StatusWrites`.

### CLINT

`now` is simulated time, `irq_event` the time of the single pending notification.
An access by a hart comes with its lead `d` over simulated time. `Scaler` and
`TimeMod` stand for 10^6 and 2^64; products are reduced modulo `TimeMod` as in the
code, and so is the sum the kernel makes of a delay and the current time (`At`):
an event whose sum has overflowed lies in the past and fires at once. Simulated
time itself has not reached 2^64 picoseconds (`MaxTime`). `written[h]` is the time
at which a write of a compare register takes effect, `mtime_set` tells whether
software wrote `mtime`. Registers are written as aligned words or double words.

### FE310_PLIC and FU540_PLIC

The controllers' registers, the pending notification `e_run`, the hart's line and
the software: a handler that claims when the line is up and completes, or for
`FE310_PLIC` with `Polling`, software that claims at any time. The FU540's
handler claims until it reads zero, and each hart uses one context, as Linux and
the boot monitor do. `unchecked` is history: the interrupts pending when software
last changed the configuration, which the controllers do not look at again until
their next event. `Wired` leaves out interrupt 53, whose priority is read beyond
the end of the registers.

### AbstractUART

Each FIFO access is a step under its mutex; each semaphore operation, the
notification and each read of `stop` is a step of its own. Bytes are numbered, so
loss, duplication and reordering are visible. `Inputs` says how many bytes each
readable input makes `handle_input` push: one for the console, more for SLIP.
`noticed` is history: the passed watermarks the PLIC was told of. Raising the
transmit watermark does not notify (abstract_uart.cpp:152 tests for a smaller
value for both FIFOs), which `WriteTxctrl` states by marking it as noticed.

### RealCLINT

Host time `usec` passes whenever it likes. A timer's thread sleeps until it is
due, wakes, calls back and ends; `Timer::pause` cancels it, but a thread that has
left its last sleep still notifies (`PausedEvent`). Ticks and microseconds are
converted with rounding, as in the code. Worth knowing: the line of a hart whose
compare register is still zero goes up when another hart's timer fires, unlike in
`CLINT`; a store to `mtime` lasts until the next update; `ticks * 30` overflows
only for values that are years ahead.

### GDBServer

The host thread (`disp`), the SystemC thread `run` (`srv`) and the runners are
processes; `cpu` is the SystemC process that has not waited yet. `run_threads`
is `Launch`, the wait for the first stop event, `Check` for each hart in turn
with its own wait, and `Restore`. A notification reaches only a process that
waits for it. `software` chooses what the session contains: plain programs,
LR/SC sequences, a program that ends, a client that sends before the harts have
reached the end of their quantum. The handlers that only read or write
registers, memory and breakpoints are one command. Left out: `killServer`, and
exceptions that leave the simulator (an unknown thread id set by `H` makes
`exec_thread` throw `std::out_of_range`, which `readMemory` does not catch). In
the `exit` and `eager` sessions `run_threads` can wait for ever: a hart that ends
while it is being stopped is restored to Runnable (gdb_server.cpp:178), and a run
event is lost when its runner is still in the final sync (154). The code makes no
promise about either.

### Opcodes, Instr, ExecStep, Arith, RV32Exec, RV64Exec

A word is a record of its fields, so all words are enumerated up to the values of
the register fields no mask looks at; a parcel is a number, and all 49152 are
enumerated for both cores. The decoder's nested switches are operators named after
the field they look at (`Route...`), the encodings a table of masks. The executors
work on a machine whose byte has `BYTE` bits, a power of two (one in the run: a
word has 4 bits, a double word 8; eight in the code), with products, quotients,
shifts and extensions taken modulo the width as in the code, so that every operand
of the 32 bit core can be tried. Powers of two are a recursive function (`Pow2`),
and the operations on bits go through the set of the bits that are one. LR/SC is
in `HartMemory`, system instructions in `Traps`. C.ADDIW is expanded to an ADDI
word although the returned opcode is ADDIW; nobody looks at the word's opcode
again.

### RV32CSR, RV64CSR, CSRs, FPU, MMU, HartState

A register is the set of its bits that are one. `csr_table` is a function from
names to such sets; `get_csr_value` and `set_csr_value` have the read and write
masks, views (`sstatus`, `sie`, ...), halves and access rules of the code. `CSRs`
executes the six instructions at any privilege level and drives the interrupt
lines of all levels: msip, mtip, and meip, seip and ueip, of which MIP_WRITE_MASK
leaves the last two to machine level software as well. `lines` is what the devices
drive, and `overwritten` history: the bits that software wrote into mip since the
device last drove them. The four pmpcfg registers are kept apart, the sixteen
pmpaddr registers are one. `FPU` has two registers with values told apart by what
the code looks at (NaN or not, boxed or not); softfloat returns any value with any
flags. `MMU` has page numbers of one bit per level; what a walk reads is a table
of entries software may change.

What the code does and a reader of the manual might not expect, kept in the
model: reading CYCLE returns a copy that only a read of MCYCLE refreshes, and
writes of MCYCLE are overwritten by that; satp traps under TVM in machine mode
too; SD can be written; FLW, FLD and writes of fcsr neither check FS nor set it
dirty (`FsTracksChanges` is stated without them); FMIN and FMAX return the NaN
when only the second operand is one; rounding mode RMM is illegal; MRET checks no
privilege; changes of SUM and MXR reach cached pages only after SFENCE.VMA
(`TlbCoherent` is stated for software that flushes); MPRV with the reserved
value 2 in MPP meets an assertion in the MMU. A write of mip at machine level sets
or clears seip and ueip in place of the device's line, and the device's next
`trigger_external_interrupt` or `clear_external_interrupt` does the same to what
software wrote (`ValuesAreLegal` is stated up to that, in its part `MipFollowsDevices`). On the 64 bit core
`pmpcfg` has 2 elements but 4 addresses are mapped to it (rv64/csr.h:582, 639):
PMPCFG2 and PMPCFG3 are the registers behind the array, sedeleg and sideleg, and
writing them passes by the masks of SEDELEG and SIDELEG (`PastPmpcfg`). `Traps`
takes what can be delegated as a parameter, so its theorems hold for those values
too.

## 3. The runs

| run | instance | shows |
|---|---|---|
| `atomics` | 2 harts, 2 values, AMOADD, limit 3, quantum 1; 2 addresses and one debugger stop, or 1 address with MMU, fetch over the bus and DMA | no switch under the lock, no failed assertion without MMU, refinement of `AtomicMemory` on both |
| `atomics_live` | the same two platforms with 1 address, 1 value and limit 2, with fairness | every access completes, every hart returns the kernel |
| `amo_page_table_update` | with MMU | *violated*: an AMO keeps the lock between its halves |
| `timers` | 2 harts; scaler 2 and 32 time values, or 3 microseconds to a tick | timer never lost, late or early in either CLINT; the thread spins only when a hart waits for a tick beyond the end of 64 bit time |
| `plic` | FE310: 2 interrupts, 2 priorities; FU540: 2 harts, 2 interrupts; handler software | selection, nothing lost, service |
| `fu540_plic_priority` | 1 hart | *violated*: the highest priority is selected |
| `traps` | machine timer and supervisor external interrupt with WFI, or exceptions through three modes at two locations with the reserved mpp | prompt delivery, returns restore, privilege only falls by returns, when prepare_trap's assertion fails, no lost wake-up |
| `uart` | FIFO depth 2, 3 bytes out, inputs of 1 and 2 bytes, watermarks 0 and 1 | order, watermarks, progress, shutdown |
| `uart_shutdown` | the same | *violated*: the destructor returns |
| `hart` | all words and parcels, all operands of a 4 bit machine and edge values of an 8 bit one; ten workloads of 3 or 4 CSR, floating point and MMU steps | the decoder agrees with the encodings, expansion with the decoder, the executors with arithmetic and each other; CSR views, legal values, mip against the interrupt lines, precision of traps; flags, FS; the TLB |
| `debugger` | 2 harts, six kinds of vCont, four kinds of session | harts are stopped when the client looks, one packet at a time, vCont finds its reason, run_threads returns |
| `debugger_lrsc` | the same | *violated*: all running harts are stopped |

Several runs cover two variants of a platform (`MCAtomics`, `MCTimers`, `MCPLIC`,
`MCTraps`) or two parts of a hart (`MCHart`): one variable chooses in the initial
state, and the other part stays as it is.

**Bounds.** Two harts are enough for every conflict over the one lock: it has one
owner, and a waiting hart does not affect another waiting hart. Limit 3 leaves a
sequence in which LR, another instruction and SC fit and one in which they do
not; quantum 1 makes every instruction a possible sync. The CLINT's compare
values are zero, near, overflowing and the maximum: with a scaler of 2 and 32 time
values, the distance to 18 overflows from time 0 to 5, and from time 6 on only its
sum with the current time does; `MaxTime` 7 lets the near
ones expire twice around a write, and time simply stops there. Eight microseconds
are more than two ticks of the real-time CLINT: a compare value can be set,
reached, moved and reached again. The PLIC instances have two interrupts that can tie or
differ in priority, with a clamped value. The UART's FIFO of 2 can be empty,
partly filled and full, and the input is larger than it. The narrow machine keeps
the relations the executors depend on (word, double word, sign bit, shift
amount). The workloads of `hart` group the CSRs that share storage; a write, a
change and a restore fit into their steps. The vCont packets continue all harts,
one hart, step one and continue the rest, name a hart twice and name one that
does not exist. `MaxStops`, `MaxTx`, `MaxTime`, `MaxUsec`, `Inputs` and the steps
of a workload are bounds of the model, not of the code. Runs that reach such a
bound, a failed assertion of the code, or a session that waits for ever do not
check for deadlock.

**Fairness.** `HartMemory`: the kernel runs every runnable process and fires
every delta notification; strong fairness, because both are enabled only while no
process runs. A running thread goes on. The user continues a stopped hart.
Nothing is assumed of interrupts: a hart may stay in WFI. `FE310_PLIC`: the
kernel fires the timed notification, the hart takes the interrupt and its handler
claims and completes. `Traps`: the delta notification of `wfi_event` is
delivered. `AbstractUART`: the host schedules every thread; nothing is assumed of
the guest, and the simulation need not end. `GDBServer`: the kernel runs every
process that can run, strongly, because a process is ready only while no other
one runs; nothing is assumed of the client or of when a program reaches a
breakpoint.

**What the violated runs show.**

* `amo_page_table_update`: `atomic_load_word` locks the bus and translates; a
  walk that sets the A bit stores the entry through `_raw_store_data`, which ends
  in `atomic_unlock`; the assertion in `atomic_store_word` (core/rv32/mem.h:182)
  fails. LR has the same loss of the lock, but then SC just fails.
* `fu540_plic_priority`: the priority registers start with interrupt 1, and
  `next_pending_irq` indexes them with the interrupt's number.
* `uart_shutdown`: a receive thread waiting for room in `rx_fifo` is not woken by
  the stop pipe, so the destructor waits for ever. `ShutdownReturns` (run `uart`)
  is what does hold.

* `debugger_lrsc`: a hart stops at a breakpoint between LR and SC and keeps the
  bus lock; another hart waits for the bus inside an instruction and never
  notifies its stop event, so `run_threads` waits for ever at gdb_server.cpp:172.
  `RunThreadsReturns` (run `debugger`) is what does hold.

Differences between comments and code that no run states as a property of its
own: `mtime` can be set back by a reader with a smaller lead (clint.h:113 against
the comment at 78) and is writable (clint.h:46 against 20); a compare value whose
tick lies beyond 2^64 picoseconds, other than the maximum, can make `run` notify
itself for the same instant for ever and time stand still (clint.h:103;
`RunAdvances` says that nothing else does); software that polls
the FE310's claim register can meet the assertion at fe310_plic.h:170; a literal
Ctrl-a reaches the guest twice (platform/common/uart.cpp:38 against README.md:144).

## 4. The proofs

TLAPS checks the following for all values of the constants that satisfy the
modules' `ASSUME`s. These say that sets are non-empty, sentinels distinct, numbers
natural and values of the right kind; `ExecAssumption` says that register fields
have five bits and operands the width of a register. The three that say more are
named below (`FU540Assumption`, `DebugAssumption`, `ByteAssumption`).

* `HartMemory_proofs`: `TypeCorrect`, `OwnerNeverWaitsTheorem`,
  `NoSwitchUnderLockTheorem`, `RunAheadTheorem` and `AtomicRefinement`, from one
  invariant `Inv = TypeOK /\ LockInv /\ RunAheadInv`. That the owner does not wait
  is not inductive by itself: one has to know what holding the lock means at each
  point of the owner's thread (`OwnerOK`), in particular that from the end of an
  LR on its reservation is intact and its countdown runs, who can be asleep where
  (`SleepOK`), and that an atomic instruction in progress is not excluded from
  the bus (`AtomicOK`). `RunAheadInv` adds the countdown to the local time: it
  pays for the time the sync is postponed. The refinement maps each step to one
  of `AtomicMemory`; the SC needs `OwnerOK`, the AMO that the word still has the
  value it loaded. An AMO that lost the lock to a page table update runs without
  it, but ends in the failed assertion before it writes.
  `AmoKeepsLockWithoutMMUTheorem` is about the instance without page table walks:
  `HoldsLock` says that between its load and its store an AMO has both the bus lock
  and the kernel.
* `Traps_proofs`: `PromptDeliveryTheorem`, `ReturnRestoresTheorem`,
  `AssertOnlyInReservedModeTheorem` and `OnlyReturnsLowerTheorem`, for any program,
  delegation and status values. That a return restores what its trap saved needs
  the whole nesting: `FrameOK` ties the frame of each mode to the stack of
  interrupt enables and previous modes in mstatus, for the handlers below it too.
* `CLINT_proofs`: `TypeCorrect`, `TimerArmedTheorem`, `TimerNotLateTheorem`,
  `TimerNotEarlyTheorem`, `MtimeFollowsTimeTheorem` and `RunAdvancesTheorem`.
  `TimerNotLate` needs `WakeInTime`: the pending event comes in time for every hart
  that waits; a delay reduced modulo the word width is only ever too short, and a
  sum that overflows fires at once (`AtBounds`, `DueInTime`). `RunAdvances` needs
  the converse: where the event is due now, the delay or the sum has been reduced
  (`WrapShortens`), so the compare value's tick ends beyond the last
  representable time.
  `TimerNotEarly` needs `Justified`: a line is up because of its compare value or
  because `run` is about to look at it again. `RealTimerExactTheorem` is about the
  real-time CLINT, for any clock rate: a thread leaves its sleep no sooner than it
  is due, and the arithmetic (rounding loses less than a tick, products keep order)
  is in lemmas of its own.
* `PLIC_proofs`: `NoLostInterruptTheorem`, `CompletionFindsLineUpTheorem` (for
  software that does not poll), `ScanFindsBestTheorem` and
  `FU540NoLostInterruptTheorem`. What the loop over the pending bits returns is an
  induction over the interrupts, from the well-foundedness of the naturals
  (`Induction`). The FU540 loses no interrupt if software uses one context of each
  hart (`UsedContexts`, `FU540Assumption`), as the run does.
* `AbstractUART_proofs`: `RxRoomTheorem`, `PopsByteTheorem`, `TxInOrderTheorem`,
  `RxInOrderTheorem` and `WatermarkNoticedTheorem`, for any depth and any input.
  `PopsByte` counts the bytes in the FIFO against the semaphore, the post still to
  come and the credit the transmit thread has taken. The order theorems rest on
  `TxOrder` and `RxOrder`: what is through, what is in a thread's hand and what is
  in the FIFO, put together, is what went in.
* `GDBServer_proofs`: `OnePacketTheorem`, `RunInvariance`,
  `StopMeansStoppedTheorem` and `VContFindsReasonTheorem`, for any number of
  harts, any client and any software. The first says who may be where while a
  packet is queued. The others need `RunInv`: which harts `run_threads` has
  started, which of their stop events it has seen, and what it saved of their
  status. That a vCont has at least one action (`DebugAssumption`) is what the
  parser accepts; the loop that drops the threads already matched is an induction
  over their number.
* `HartState_proofs`: `ValuesAreLegalTheorem`, `RestoreIsIdentityTheorem`,
  `TrapsArePreciseTheorem`, `LevelsAreSeparateTheorem`, `FlagsAccrueTheorem`,
  `FsTracksChangesTheorem` and `TlbCoherentTheorem`, for any workload, page table
  and TLB size, on both cores. The lemmas say what an address may change: one
  register through one mask (`Target32`, `Target64`), which keeps its value legal
  (`Legal`) and stays within what the level shares (`Within`); so every CSR
  instruction has the effect `Effect`, and every floating point instruction is one
  of a few ways to end (`FpExecutes`). `RegsInv` collects what they keep. That mip
  keeps the devices' bits (`MipKept`) rests on who can reach them: only the address
  of mip itself (`Target32Mip`, `Target64Mip`), at machine level, where reading,
  combining and writing leave every bit the operand does not name as it was,
  because what is written is also read (`CombinedMip`). A write
  that follows a successful read cannot trap (`SetAfterGet32`, `SetAfterGet64`),
  which makes traps precise, and every mask that is written is contained in the one
  that is read, which makes saving and restoring the identity. The TLB theorem
  compares the walks of two states level by level: setting A and D flags anywhere
  diverts no walk (`WalkSame`), and a walk says which flags its entry lacks
  (`WalkFinds`). The page tables may hold any entries of the form `Entries`.
* `ExecStep_proofs`: `DecodeIsExact`, `ExpansionIsExact`, `EveryOpIsKnown`,
  `ProgramCounterEven`, `ArithmeticIsExact` and `ExecutorsAgree`, on both cores and
  for every word, parcel and operand, from `ExecInvariant`: the word, parcel and
  operands are in the ranges of the code, and the result is what the decoder or the
  executor gives for them.
  - *Decoder.* `Rows` lists the table of encodings; the cases of each switch exclude
    each other (`TablesUnambiguous`), so a word that matches a row is led to it
    (`RouteComplete`), and whatever the switches lead to is checked against its row
    (`DecodeNormal`). Every operation has a row (`OpsAreEncoded`), and the lists of
    operations and of names agree place by place (`NamesAgree`).
  - *Expansion.* Each format's immediate survives being put into a word and read
    back (`IFormat` .. `JFormat`); a lemma for each constructor of words turns that
    into `Faithful`, and one for each group of parcels composes them.
  - *Arithmetic.* `Pow2` is shown to satisfy its defining equation (`Pow2Def`) from
    the well-foundedness of the naturals. Casts are characterised by congruence
    modulo 2^w and a range (`UnsignedUnique`, `SignedUnique`); the upper half of a
    product and the quotient toward zero follow for signed, unsigned and mixed
    operands (`HighSigned` .. `HighUnsigned`, `Truncated`, `DividedSigned`,
    `DividedUnsigned`).
  - *Agreement of the cores.* Shift amounts are taken modulo the number of bits of a
    word. The low words of two operands agree in them because that number divides 2^w
    (`WordDivides`, `SameLowBits`), which is where `ByteAssumption` is needed: `BYTE`
    is a power of two, as 8 is.

  These results hold for the code's 32 and 64 bit words as well as for the narrow
  machine of the run.

Not all of these are invariants of a run as well: type correctness,
`OwnerNeverWaits`, `RunAheadBounded`, `TimerArmed`, `MtimeFollowsTime`,
`CompletionFindsLineUp`, `RxRoom` and `PopsByte` are proved only: the
runs check the properties they serve.

Only model-checked: the liveness properties (`AccessCompletes`, `KernelIsReleased`,
`InterruptServed`, `WfiWakes`, `EventuallyWritten`, `ShutdownReturns`,
`RunThreadsReturns`), which are outside the prover's reach. Every invariant and
every action property of a passing run is a theorem.

## 5. Not modelled, and what could follow

Not modelled: the graphical user interfaces (`env/`), guest programs and tests
(`sw/`), command line options, the ELF loader and system calls (host I/O without
state of interest), the patched SystemC kernel under `vp/dependencies`, vendored
softfloat, the text formats of the debugger protocol (libgdb), and the register
routing of the peripherals. Of the hart: the trace, the table of cycles per
instruction and the counting of retired instructions.

What could follow, most important first:

1. `SLIP` and the console's command mode on top of `AbstractUART`, with the
   lifetimes of their objects (slip.cpp:58); the codec against its inverse.
2. `SimpleDMA` with registers written during a copy (dma.h:64); the ethernet and
   sensor peripherals; SPI, GPIO and CAN of the HiFive platform.
3. A composition of `Traps` with the controllers: an interrupt from the trigger
   of a peripheral to the handler.

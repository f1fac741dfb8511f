----------------------------- MODULE HartMemory ------------------------------
(***************************************************************************)
(* Harts executing memory instructions over the shared bus.                *)
(*                                                                         *)
(* The module composes, for every hart, the part of the ISS that deals     *)
(* with LR/SC (lr_sc_counter, traps, interrupts, WFI, the quantum keeper), *)
(* its CombinedMemoryInterface (load, store, LR, SC, AMO) and MMU, with    *)
(* the shared BusLock and one DMA peripheral behind a                      *)
(* PeripheralWriteConnector.  SystemC schedules cooperatively: `running'   *)
(* is the process that has the kernel, and it keeps the kernel until it    *)
(* waits.  Every place where the code waits is a step that gives `running' *)
(* up; everything between two waits is a sequence of steps no other        *)
(* process can interleave with.                                            *)
(*                                                                         *)
(* Time is counted in retired instructions: local_time is the hart's local *)
(* time of the quantum keeper, reset by a sync.                            *)
(***************************************************************************)
EXTENDS BusLock, Integers

CONSTANTS
    Dma,          \* the bus-mastering peripheral (a process)
    NoProc,       \* `running' when the kernel picks the next process
    Addr, NoAddr, \* words of memory
    Val, NoVal,   \* their contents
    AmoFns,       \* the operations of the AMO instructions: [Val -> [Val -> Val]]
    LrScLimit,    \* 17 in the code: LR and 16 more instructions
    Quantum,      \* the TLM global quantum, in instructions
    HasDma,       \* the platform has the DMA engine (basic)
    HasMMU,       \* the platform has an MMU (linux, linux32)
    FetchOnBus,   \* instructions are fetched by the memory interface, not by DMI
    MaxStops      \* how often a debugger may stop harts

ASSUME HartMemoryAssumption ==
    /\ Dma \notin Hart /\ NoProc \notin Hart \cup {Dma}
    /\ Addr # {} /\ NoAddr \notin Addr
    /\ Val # {} /\ NoVal \notin Val
    /\ AmoFns \subseteq [Val -> [Val -> Val]]
    /\ LrScLimit \in Nat \ {0}
    /\ Quantum \in Nat \ {0}
    /\ HasDma \in BOOLEAN /\ HasMMU \in BOOLEAN /\ FetchOnBus \in BOOLEAN
    /\ MaxStops \in Nat

VARIABLES
    mem,            \* the memory behind the bus
    running,        \* the process that has the SystemC kernel, or NoProc
    blocked,        \* the processes waiting for lock_event
    pc,             \* where each hart's thread is
    op,             \* the instruction each hart executes
    reg,            \* the value an AMO has loaded
    lr_addr,        \* CombinedMemoryInterface::lr_addr
    lr_sc_counter,  \* ISS::lr_sc_counter
    local_time,     \* quantum_keeper local time
    stops,          \* debugger stops so far
    dma,            \* the DMA engine: [pc, src, dst, buf]
    aborted,        \* an assert() of the code has failed: the simulation is over
    res,            \* history: the reservations as software sees them
    done            \* history: the access completed by the last step

hartVars == <<pc, op, reg, lr_addr, lr_sc_counter, local_time>>
vars == <<lockVars, mem, running, blocked, hartVars, stops, dma, aborted, res, done>>

Proc == Hart \cup {Dma}

Abs == INSTANCE AtomicMemory WITH Peripheral <- Dma

(***************************************************************************)
(* Instructions.  "alu" stands for every instruction without data access,  *)
(* "illegal" for those that trap before they touch memory (misaligned      *)
(* addresses and missing extensions included).                             *)
(***************************************************************************)
Instr ==
    [kind : {"alu", "wfi", "illegal"}]
    \cup [kind : {"load", "lr"}, addr : Addr]
    \cup [kind : {"store", "sc"}, addr : Addr, val : Val]
    \cup [kind : {"amo"}, addr : Addr, val : Val, fn : AmoFns]

Boundary == "boundary"

PCs == {Boundary, "lock", "load", "sc", "store", "wfi", "wfiwait",
        "trap", "retire", "update", "stopped"}

Nop == [kind |-> "alu"]

DmaIdle == [pc |-> "idle", src |-> NoAddr, dst |-> NoAddr, buf |-> NoVal]

DmaState ==
    {DmaIdle}
    \cup [pc : {"read"}, src : Addr, dst : Addr, buf : {NoVal}]
    \cup [pc : {"delay", "write"}, src : Addr, dst : Addr, buf : Val]

TypeOK ==
    /\ LockTypeOK
    /\ mem \in [Addr -> Val]
    /\ running \in Proc \cup {NoProc}
    /\ blocked \subseteq Proc
    /\ pc \in [Hart -> PCs]
    /\ op \in [Hart -> Instr]
    /\ reg \in [Hart -> Val \cup {NoVal}]
    /\ lr_addr \in [Hart -> Addr \cup {NoAddr}]
    /\ lr_sc_counter \in [Hart -> 0 .. LrScLimit]
    /\ local_time \in [Hart -> Nat]
    /\ stops \in 0 .. MaxStops
    /\ dma \in DmaState
    /\ aborted \in BOOLEAN
    /\ res \in [Hart -> Addr \cup {NoAddr}]

Init ==
    /\ LockInit
    /\ mem \in [Addr -> Val]
    /\ running = NoProc
    /\ blocked = {}
    /\ pc = [h \in Hart |-> Boundary]
    /\ op = [h \in Hart |-> Nop]
    /\ reg = [h \in Hart |-> NoVal]
    /\ lr_addr = [h \in Hart |-> NoAddr]
    /\ lr_sc_counter = [h \in Hart |-> 0]
    /\ local_time = [h \in Hart |-> 0]
    /\ stops = 0
    /\ dma = DmaIdle
    /\ aborted = FALSE
    /\ res = [h \in Hart |-> NoAddr]
    /\ done = Abs!NoAccess

-----------------------------------------------------------------------------
(* The SystemC kernel. *)

Runnable(p) ==
    /\ p \notin blocked
    /\ IF p = Dma THEN dma.pc # "idle" ELSE pc[p] \notin {"wfiwait", "stopped"}

Dispatch(p) ==
    /\ running = NoProc
    /\ ~aborted
    /\ Runnable(p)
    /\ running' = p
    /\ done' = Abs!NoAccess
    /\ UNCHANGED <<lockVars, mem, blocked, hartVars, stops, dma, aborted, res>>

(* The delta notification of lock_event wakes every process that waits.    *)
LockEventFires ==
    /\ running = NoProc
    /\ ~aborted
    /\ lock_event
    /\ lock_event' = FALSE
    /\ blocked' = {}
    /\ done' = Abs!NoAccess
    /\ UNCHANGED <<locked, owner, mem, running, hartVars, stops, dma, aborted, res>>

(* wait_until_unlocked() finds the lock taken and waits. *)
Block(p) ==
    /\ blocked' = blocked \cup {p}
    /\ running' = NoProc
    /\ done' = Abs!NoAccess
    /\ UNCHANGED <<lockVars, mem, hartVars, stops, dma, aborted, res>>

Step(h, from) == running = h /\ pc[h] = from /\ ~aborted

Goto(h, to) == pc' = [pc EXCEPT ![h] = to]

(* Steps of hart h that complete no access and leave memory alone. *)
Quiet == /\ done' = Abs!NoAccess
         /\ UNCHANGED <<mem, blocked, stops, dma, res>>

-----------------------------------------------------------------------------
(* Address translation (mmu.h) as far as the bus is concerned: a hit or a  *)
(* walk that only reads; a walk that writes the A/D bits back with         *)
(* mmu_store_pte32, which ends in atomic_unlock(); or a fault.             *)

Translations == IF HasMMU THEN {"ok", "update"} ELSE {"ok"}

Translate(h, t) == IF t = "update" THEN Unlock(h) ELSE UNCHANGED lockVars

(* release_lr_sc_reservation() *)
Release(h) ==
    /\ lr_sc_counter' = [lr_sc_counter EXCEPT ![h] = 0]
    /\ Unlock(h)

-----------------------------------------------------------------------------
(* ISS::run_step, one instruction of hart h. *)

(* exec_step's dispatch: where the execution of an instruction begins.     *)
FirstPC(i) ==
    IF i.kind = "alu" THEN "retire"
    ELSE IF i.kind = "illegal" THEN "trap"
    ELSE IF i.kind \in {"lr", "amo"} THEN "lock"
    ELSE i.kind

(* load_instr(): over the bus it needs access rights and a translation,    *)
(* and a failing fetch traps like any other instruction.                   *)
Fetch(h, i) ==
    /\ Step(h, Boundary)
    /\ FetchOnBus => ~MustWait(h)
    /\ \E t \in IF FetchOnBus THEN Translations ELSE {"ok"} : Translate(h, t)
    /\ op' = [op EXCEPT ![h] = i]
    /\ Goto(h, FirstPC(i))
    /\ Quiet
    /\ UNCHANGED <<running, reg, lr_addr, lr_sc_counter, local_time, aborted>>

FetchBlocks(h) ==
    /\ Step(h, Boundary)
    /\ FetchOnBus /\ MustWait(h)
    /\ Block(h)

(* BusLock::lock, called by atomic_load_word and atomic_load_reserved_word *)
LockForAtomic(h) ==
    /\ Step(h, "lock")
    /\ Lock(h)
    /\ lr_addr' = IF op[h].kind = "lr" THEN [lr_addr EXCEPT ![h] = op[h].addr] ELSE lr_addr
    /\ Goto(h, "load")
    /\ Quiet
    /\ UNCHANGED <<running, op, reg, lr_sc_counter, local_time, aborted>>

LockBlocks(h) ==
    /\ Step(h, "lock")
    /\ MustWait(h)
    /\ Block(h)

(* Mutant: every LR starts the countdown anew. *)
ArmCounterMutant(c) == LrScLimit

(* LR_W arms the counter unless an earlier LR still runs on it. *)
ArmCounter(c) == IF c = 0 THEN LrScLimit ELSE c

(* _load_data for a load, LR, or the first half of an AMO. *)
LoadData(h) ==
    LET a == op[h].addr  k == op[h].kind IN
    /\ Step(h, "load")
    /\ ~MustWait(h)
    /\ \E t \in Translations : Translate(h, t)
    /\ IF k = "amo"
       THEN /\ reg' = [reg EXCEPT ![h] = mem[a]]
            /\ done' = Abs!NoAccess
            /\ UNCHANGED <<lr_sc_counter, res>>
            /\ Goto(h, "store")
       ELSE /\ UNCHANGED reg
            /\ done' = Abs!Access(h, k, a, mem[a], mem[a])
            /\ IF k = "lr"
               THEN /\ lr_sc_counter' = [lr_sc_counter EXCEPT ![h] = ArmCounter(@)]
                    /\ res' = [res EXCEPT ![h] = a]
               ELSE UNCHANGED <<lr_sc_counter, res>>
            /\ Goto(h, "retire")
    /\ UNCHANGED <<mem, running, blocked, op, lr_addr, local_time, stops, dma, aborted>>

(* A page fault, or an error response of the bus: SimulationTrap.          *)
AccessFaults(h) ==
    /\ running = h /\ ~aborted
    /\ pc[h] \in {"load", "store"}
    /\ ~MustWait(h)
    /\ pc[h] = "store" /\ op[h].kind = "amo" => IsLocked(h)
    /\ Goto(h, "trap")
    /\ Quiet
    /\ UNCHANGED <<lockVars, running, op, reg, lr_addr, lr_sc_counter, local_time, aborted>>

(* wait_for_access_rights() *)
AccessBlocks(h) ==
    /\ running = h /\ ~aborted
    /\ pc[h] \in {"load", "store"}
    /\ MustWait(h)
    /\ Block(h)

(* The test of atomic_store_conditional_word. *)
ScHolds(h) == IsLocked(h) /\ op[h].addr = lr_addr[h]

(* SC: the store goes ahead, or the instruction fails and gives the lock   *)
(* back.                                                                   *)
StoreConditional(h) ==
    /\ Step(h, "sc")
    /\ IF ScHolds(h)
       THEN /\ Goto(h, "store")
            /\ done' = Abs!NoAccess
            /\ UNCHANGED <<lockVars, lr_sc_counter, res>>
       ELSE /\ Release(h)
            /\ Goto(h, "retire")
            /\ done' = Abs!Access(h, "scfail", op[h].addr, mem[op[h].addr], mem[op[h].addr])
            /\ res' = [res EXCEPT ![h] = NoAddr]
    /\ UNCHANGED <<mem, running, blocked, op, reg, lr_addr, local_time, stops, dma, aborted>>

(* The value _store_data writes for hart h. *)
StoredValue(h) ==
    IF op[h].kind = "amo" THEN op[h].fn[reg[h]][op[h].val] ELSE op[h].val

(* _raw_store_data always gives the lock back. *)
StoreUnlocks(h) == Unlock(h)

(* _store_data for a store, a successful SC, or the second half of an AMO, *)
(* whose atomic_store_word first asserts that the lock is still held.      *)
StoreData(h) ==
    LET a == op[h].addr  k == op[h].kind  v == StoredValue(h) IN
    /\ Step(h, "store")
    /\ ~MustWait(h)
    /\ k = "amo" => IsLocked(h)
    /\ StoreUnlocks(h)
    /\ mem' = [mem EXCEPT ![a] = v]
    /\ lr_sc_counter' = IF k = "sc" THEN [lr_sc_counter EXCEPT ![h] = 0] ELSE lr_sc_counter
    /\ res' = IF k = "sc" THEN [Abs!Broken(h, a) EXCEPT ![h] = NoAddr] ELSE Abs!Broken(h, a)
    /\ done' = Abs!Access(h, k, a, IF k = "amo" THEN reg[h] ELSE mem[a], v)
    /\ Goto(h, "retire")
    /\ UNCHANGED <<running, blocked, op, reg, lr_addr, local_time, stops, dma, aborted>>

(* atomic_store_word: assert(bus_lock->is_locked(hart_id)) *)
AmoAssertFails(h) ==
    /\ Step(h, "store")
    /\ op[h].kind = "amo"
    /\ ~IsLocked(h)
    /\ aborted' = TRUE
    /\ Quiet
    /\ UNCHANGED <<lockVars, running, hartVars>>

(* WFI releases the reservation, then traps, goes on (an enabled interrupt *)
(* is pending, or ignore_wfi) or waits for wfi_event.                      *)
Wfi(h) ==
    /\ Step(h, "wfi")
    /\ Release(h)
    /\ \/ /\ \E to \in {"trap", "retire"} : Goto(h, to)
          /\ UNCHANGED running
       \/ /\ Goto(h, "wfiwait")
          /\ running' = NoProc
    /\ Quiet
    /\ UNCHANGED <<op, reg, lr_addr, local_time, aborted>>

(* CLINT or PLIC notify wfi_event. *)
WfiEvent(h) ==
    /\ running = NoProc /\ ~aborted
    /\ pc[h] = "wfiwait"
    /\ Goto(h, "retire")
    /\ Quiet
    /\ UNCHANGED <<lockVars, running, op, reg, lr_addr, lr_sc_counter, local_time, aborted>>

(* run_step catches the SimulationTrap: switch_to_trap_handler releases.   *)
TakeTrap(h) ==
    /\ Step(h, "trap")
    /\ Release(h)
    /\ Goto(h, "update")
    /\ Quiet
    /\ UNCHANGED <<running, op, reg, lr_addr, local_time, aborted>>

(* An enabled interrupt is pending after the instruction.                  *)
TakeInterrupt(h) ==
    /\ Step(h, "retire")
    /\ Release(h)
    /\ Goto(h, "update")
    /\ Quiet
    /\ UNCHANGED <<running, op, reg, lr_addr, local_time, aborted>>

(* The counter part of performance_and_sync_update. *)
CountDown(h) ==
    IF lr_sc_counter[h] = 1
    THEN Release(h)
    ELSE /\ lr_sc_counter' = [lr_sc_counter EXCEPT
                                  ![h] = IF @ = 0 THEN 0 ELSE @ - 1]
         /\ UNCHANGED lockVars

(* Mutant: sync whenever the quantum is used up. *)
MaySyncMutant(h, t, c) == t >= Quantum

(* quantum_keeper.need_sync(), and the guard of the sync: no sync while    *)
(* the counter runs.                                                       *)
MaySync(h, t, c) == t >= Quantum /\ c = 0

(* local_time saturates here; RunAheadBounded says that it never does.      *)
LocalTimeCap == Quantum + LrScLimit

(* performance_and_sync_update: count down, advance local time, sync.  The *)
(* instruction is over: op and reg are forgotten.                          *)
Retire(h) ==
    /\ running = h /\ ~aborted
    /\ pc[h] \in {"retire", "update"}
    /\ CountDown(h)
    /\ LET t == IF local_time[h] < LocalTimeCap THEN local_time[h] + 1 ELSE LocalTimeCap IN
       IF MaySync(h, t, lr_sc_counter'[h])
       THEN /\ local_time' = [local_time EXCEPT ![h] = 0]
            /\ running' = NoProc
       ELSE /\ local_time' = [local_time EXCEPT ![h] = t]
            /\ UNCHANGED running
    /\ Goto(h, Boundary)
    /\ op' = [op EXCEPT ![h] = Nop]
    /\ reg' = [reg EXCEPT ![h] = NoVal]
    /\ Quiet
    /\ UNCHANGED <<lr_addr, aborted>>

-----------------------------------------------------------------------------
(* The debugger: EBREAK, a breakpoint, a single step or GDBServer's        *)
(* set_status stop a hart at an instruction boundary.  run() then forces a *)
(* sync (a single run_step() does not), whatever lr_sc_counter is.         *)

Stop(h) ==
    /\ Step(h, Boundary)
    /\ stops < MaxStops
    /\ stops' = stops + 1
    /\ Goto(h, "stopped")
    /\ running' = NoProc
    /\ \E t \in {0, local_time[h]} : local_time' = [local_time EXCEPT ![h] = t]
    /\ done' = Abs!NoAccess
    /\ UNCHANGED <<lockVars, mem, blocked, op, reg, lr_addr, lr_sc_counter, dma, aborted, res>>

(* run_event: the debugger continues the hart. *)
Resume(h) ==
    /\ running = NoProc /\ ~aborted
    /\ pc[h] = "stopped"
    /\ Goto(h, Boundary)
    /\ Quiet
    /\ UNCHANGED <<lockVars, running, op, reg, lr_addr, lr_sc_counter, local_time, aborted>>

-----------------------------------------------------------------------------
(* SimpleDMA behind the PeripheralWriteConnector, one word per block: read *)
(* src, wait for the access delay, write dst, wait, trigger the interrupt. *)

DmaStart(s, d) ==
    /\ HasDma
    /\ running = NoProc /\ ~aborted
    /\ dma.pc = "idle"
    /\ dma' = [pc |-> "read", src |-> s, dst |-> d, buf |-> NoVal]
    /\ done' = Abs!NoAccess
    /\ UNCHANGED <<lockVars, mem, running, blocked, hartVars, stops, aborted, res>>

(* PeripheralWriteConnector::transport: wait_until_unlocked(). *)
ConnectorMustWait == locked

DmaBlocks ==
    /\ running = Dma /\ ~aborted
    /\ dma.pc \in {"read", "write"}
    /\ ConnectorMustWait
    /\ Block(Dma)

DmaRead ==
    /\ running = Dma /\ ~aborted
    /\ dma.pc = "read"
    /\ ~ConnectorMustWait
    /\ dma' = [dma EXCEPT !.pc = "delay", !.buf = mem[dma.src]]
    /\ done' = Abs!Access(Dma, "load", dma.src, mem[dma.src], mem[dma.src])
    /\ running' = NoProc
    /\ UNCHANGED <<lockVars, mem, blocked, hartVars, stops, aborted, res>>

(* wait(delay) is over. *)
DmaContinue ==
    /\ running = Dma /\ ~aborted
    /\ dma.pc = "delay"
    /\ dma' = [dma EXCEPT !.pc = "write"]
    /\ done' = Abs!NoAccess
    /\ UNCHANGED <<lockVars, mem, running, blocked, hartVars, stops, aborted, res>>

DmaWrite ==
    /\ running = Dma /\ ~aborted
    /\ dma.pc = "write"
    /\ ~ConnectorMustWait
    /\ mem' = [mem EXCEPT ![dma.dst] = dma.buf]
    /\ res' = Abs!Broken(Dma, dma.dst)
    /\ done' = Abs!Access(Dma, "store", dma.dst, mem[dma.dst], dma.buf)
    /\ dma' = DmaIdle
    /\ running' = NoProc
    /\ UNCHANGED <<lockVars, blocked, hartVars, stops, aborted>>

DmaStep == DmaBlocks \/ DmaRead \/ DmaContinue \/ DmaWrite

-----------------------------------------------------------------------------
HartStep(h) ==
    \/ \E i \in Instr : Fetch(h, i)
    \/ FetchBlocks(h)
    \/ LockForAtomic(h) \/ LockBlocks(h)
    \/ LoadData(h) \/ AccessFaults(h) \/ AccessBlocks(h)
    \/ StoreConditional(h) \/ StoreData(h) \/ AmoAssertFails(h)
    \/ Wfi(h) \/ TakeTrap(h) \/ TakeInterrupt(h) \/ Retire(h)
    \/ Stop(h)

Next ==
    \/ \E p \in Proc : Dispatch(p)
    \/ LockEventFires
    \/ \E h \in Hart : HartStep(h) \/ WfiEvent(h) \/ Resume(h)
    \/ \E s, d \in Addr : DmaStart(s, d)
    \/ DmaStep

Spec == Init /\ [][Next]_vars

(***************************************************************************)
(* Fairness.  The SystemC kernel runs every runnable process and fires     *)
(* every delta notification (it is enabled only while no process runs,     *)
(* hence strong fairness), a running thread goes on, and the user of the   *)
(* debugger continues a stopped hart.  Nothing is assumed of interrupts:   *)
(* a hart may stay in WFI for ever.                                        *)
(***************************************************************************)
KernelFairness ==
    /\ \A p \in Proc : SF_vars(Dispatch(p))
    /\ SF_vars(LockEventFires)
    /\ WF_vars(DmaStep)
    /\ \A h \in Hart : SF_vars(Resume(h))

Fairness == KernelFairness /\ \A h \in Hart : WF_vars(HartStep(h))

FairSpec == Spec /\ Fairness

-----------------------------------------------------------------------------
(* Properties. *)

(* AMO and SC are atomic for software: every step of the harts and of the  *)
(* DMA engine is a step of the atomic memory, or invisible to it.          *)
ImplementsAtomicMemory == Abs!Spec

(* The owner of the lock never sleeps on something else: it is not queued  *)
(* on the lock, not in WFI, and while another process runs it is between   *)
(* two instructions of an LR/SC sequence whose countdown still runs, so    *)
(* the lock will be given back.                                            *)
OwnerNeverWaits ==
    locked =>
        /\ owner \notin blocked
        /\ pc[owner] # "wfiwait"
        /\ running # owner =>
              pc[owner] \in {Boundary, "stopped"} /\ lr_sc_counter[owner] > 0

(* Without a debugger the lock is never held across a context switch: the  *)
(* guard of the quantum sync makes LR/SC sequences atomic for the kernel.  *)
NoSwitchUnderLock ==
    locked /\ running # owner => stops > 0

(* A hart that postpones the quantum sync because of LR/SC still runs      *)
(* ahead of the other harts by a bounded amount, however it nests LRs.     *)
RunAheadBounded ==
    \A h \in Hart : local_time[h] <= Quantum + LrScLimit - 2

(* The comment and assertion of atomic_store_word: the lock that the load  *)
(* half of an AMO took is still held when the store half begins.           *)
AmoKeepsLock == ~aborted

(* A process that wants the bus gets it, whoever holds the lock.           *)
AccessCompletes ==
    \A h \in Hart :
        (pc[h] \in {"lock", "load", "store"}) ~> (pc[h] = Boundary \/ aborted)

(* No hart keeps the kernel for ever, not even by executing LR in a loop.  *)
KernelIsReleased ==
    \A h \in Hart : (running = h) ~> (running # h \/ aborted)
=============================================================================

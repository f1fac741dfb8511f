-------------------------- MODULE HartMemory_proofs --------------------------
(***************************************************************************)
(* Proofs about HartMemory, for any number of harts, any memory, any       *)
(* LR/SC limit and any quantum, with and without MMU, DMA and debugger;    *)
(* and, last, about the platforms without an MMU.                          *)
(***************************************************************************)
EXTENDS MCAtomics, TLAPS

-----------------------------------------------------------------------------
(* The inductive invariant. *)

(* Between two instructions, or in a debugger stop. *)
AtBoundary(h) == pc[h] \in {Boundary, "stopped"}

(* Inside the two halves of an LR or AMO, or the store of a successful SC. *)
InAtomic(h) ==
    \/ pc[h] = "load" /\ op[h].kind \in {"lr", "amo"}
    \/ pc[h] = "store" /\ op[h].kind \in {"sc", "amo"}

(* Which instruction is where. *)
ControlOK ==
    \A h \in Hart :
        /\ pc[h] = "lock" => op[h].kind \in {"lr", "amo"}
        /\ pc[h] = "load" => op[h].kind \in {"load", "lr", "amo"}
        /\ pc[h] = "store" => op[h].kind \in {"store", "sc", "amo"}
        /\ pc[h] = "sc" => op[h].kind = "sc"
        /\ pc[h] = "store" /\ op[h].kind = "amo" => reg[h] \in Val

(* Who may be asleep, and where. *)
SleepOK ==
    /\ running \notin blocked
    /\ \A h \in Hart :
        /\ running = h => pc[h] \notin {"wfiwait", "stopped"}
        /\ running # h => pc[h] \in {Boundary, "stopped", "wfiwait", "retire",
                                     "lock", "load", "store"} /\ ~InAtomic(h)

(* What holding the lock means at each point of the owner's thread.  The   *)
(* last conjunct is the heart: from the end of an LR on the owner has an   *)
(* intact reservation and a countdown that will release the lock.          *)
OwnerOK ==
    locked =>
        /\ owner \notin blocked
        /\ pc[owner] \notin {"wfiwait", "update"}
        /\ running # owner => AtBoundary(owner) /\ stops > 0
        /\ pc[owner] = "load" /\ op[owner].kind = "lr" => op[owner].addr = lr_addr[owner]
        /\ pc[owner] = "store" /\ op[owner].kind = "amo" => reg[owner] = mem[op[owner].addr]
        /\ pc[owner] # "trap" /\ ~(InAtomic(owner) /\ op[owner].kind # "sc") =>
              lr_sc_counter[owner] > 0 /\ res[owner] = lr_addr[owner]

(* An atomic instruction in progress has the lock, except for the AMO that *)
(* lost it to a page table update; then nobody has it.                     *)
AtomicOK ==
    \A h \in Hart :
        /\ InAtomic(h) => ~MustWait(h)
        /\ pc[h] = "store" /\ op[h].kind = "sc" => IsLocked(h) /\ op[h].addr = lr_addr[h]

LockInv == ControlOK /\ SleepOK /\ OwnerOK /\ AtomicOK

(* The countdown pays for the time the sync is postponed. *)
RunAheadInv ==
    \A h \in Hart :
        /\ local_time[h] <= Quantum + LrScLimit - 2
        /\ local_time[h] + lr_sc_counter[h] <= Quantum + LrScLimit - 1
        /\ lr_sc_counter[h] = 0 /\ pc[h] \notin {"retire", "update", "trap", "wfiwait"}
              => local_time[h] < Quantum

-----------------------------------------------------------------------------
(* Facts about instructions. *)

(* The operands an instruction has, by its kind. *)
LEMMA InstrFields ==
    ASSUME NEW i \in Instr
    PROVE  /\ i.kind \in {"alu", "wfi", "illegal", "load", "lr", "store", "sc", "amo"}
           /\ i.kind \in {"load", "lr", "store", "sc", "amo"} => i.addr \in Addr
           /\ i.kind \in {"store", "sc", "amo"} => i.val \in Val
           /\ i.kind = "amo" => i.fn \in AmoFns
BY DEF Instr

(* An instruction starts at a point that fits its kind. *)
LEMMA FirstPCOK ==
    ASSUME NEW i \in Instr
    PROVE  /\ FirstPC(i) \in {"retire", "wfi", "trap", "load", "store", "sc", "lock"}
           /\ FirstPC(i) = "lock" => i.kind \in {"lr", "amo"}
           /\ FirstPC(i) = "load" => i.kind = "load"
           /\ FirstPC(i) = "store" => i.kind = "store"
           /\ FirstPC(i) = "sc" => i.kind = "sc"
BY InstrFields DEF FirstPC

-----------------------------------------------------------------------------
(* Type correctness. *)

(* What an AMO or store writes is a value. *)
LEMMA StoredValueType ==
    ASSUME HartMemoryAssumption, TypeOK, ControlOK, NEW h \in Hart, pc[h] = "store"
    PROVE  op[h].addr \in Addr /\ StoredValue(h) \in Val
<1>1. op[h] \in Instr /\ op[h].kind \in {"store", "sc", "amo"}
  BY DEF TypeOK, ControlOK
<1>2. op[h].addr \in Addr /\ op[h].val \in Val
  BY <1>1, InstrFields
<1>3. CASE op[h].kind = "amo"
  <2>1. op[h].fn \in [Val -> [Val -> Val]]
    BY <1>1, <1>3, InstrFields DEF HartMemoryAssumption
  <2>2. reg[h] \in Val
    BY <1>3 DEF ControlOK
  <2> QED  BY <1>2, <1>3, <2>1, <2>2 DEF StoredValue
<1> QED  BY <1>2, <1>3 DEF StoredValue

(* Locking, unlocking and translating keep the lock well typed. *)
LEMMA LockTypes ==
    ASSUME LockTypeOK, NEW h \in Hart
    PROVE  /\ Lock(h) => LockTypeOK'
           /\ Unlock(h) => LockTypeOK'
           /\ \A t : Translate(h, t) => LockTypeOK'
BY DEF LockTypeOK, Lock, Unlock, Translate, lockVars

(* Every step keeps the variables in their types. *)
LEMMA TypeStep ==
    ASSUME HartMemoryAssumption, TypeOK, ControlOK, [Next]_vars
    PROVE  TypeOK'
<1> USE DEF TypeOK, Proc, vars, hartVars, lockVars, LockTypeOK
<1>1. ASSUME NEW p \in Proc, Dispatch(p)  PROVE TypeOK'
  BY <1>1 DEF Dispatch
<1>2. CASE LockEventFires
  BY <1>2 DEF LockEventFires
<1>3. ASSUME NEW p \in Proc, Block(p)  PROVE TypeOK'
  BY <1>3 DEF Block
<1>4. ASSUME NEW h \in Hart, HartStep(h)  PROVE TypeOK'
  <2>1. ASSUME NEW i \in Instr, Fetch(h, i)  PROVE TypeOK'
    BY <2>1, FirstPCOK, LockTypes DEF Fetch, Goto, Quiet, PCs
  <2>2. CASE FetchBlocks(h) \/ LockBlocks(h) \/ AccessBlocks(h)
    BY <2>2, <1>3 DEF FetchBlocks, LockBlocks, AccessBlocks
  <2>3. CASE LockForAtomic(h)
    <3>1. op[h].addr \in Addr
      BY <2>3, InstrFields DEF LockForAtomic, Step, ControlOK
    <3> QED  BY <3>1, <2>3, LockTypes DEF LockForAtomic, Goto, Quiet, PCs
  <2>4. CASE LoadData(h)
    <3>1. op[h].addr \in Addr
      BY <2>4, InstrFields DEF LoadData, Step, ControlOK
    <3>2. \A c \in 0 .. LrScLimit : ArmCounter(c) \in 0 .. LrScLimit
      BY DEF ArmCounter, HartMemoryAssumption
    <3>3. LockTypeOK'
      BY <2>4, LockTypes DEF LoadData
    <3>4. lr_sc_counter' \in [Hart -> 0 .. LrScLimit] /\ res' \in [Hart -> Addr \cup {NoAddr}]
      <4>1. CASE op[h].kind = "lr"
        <5>1. lr_sc_counter' = [lr_sc_counter EXCEPT ![h] = ArmCounter(lr_sc_counter[h])]
              /\ res' = [res EXCEPT ![h] = op[h].addr]
          BY <4>1, <2>4 DEF LoadData
        <5>2. ArmCounter(lr_sc_counter[h]) \in 0 .. LrScLimit
          BY <3>2
        <5> QED  BY <5>1, <5>2, <3>1
      <4>2. CASE op[h].kind # "lr"
        <5>1. UNCHANGED <<lr_sc_counter, res>>
          BY <4>2, <2>4 DEF LoadData
        <5> QED  BY <5>1
      <4> QED  BY <4>1, <4>2
    <3>5. reg' \in [Hart -> Val \cup {NoVal}] /\ pc' \in [Hart -> PCs]
      BY <3>1, <2>4 DEF LoadData, Goto, PCs
    <3> QED  BY <3>3, <3>4, <3>5, <2>4 DEF LoadData
  <2>5. CASE AccessFaults(h)
    BY <2>5 DEF AccessFaults, Goto, Quiet, PCs
  <2>6. CASE StoreConditional(h)
    BY <2>6, LockTypes DEF StoreConditional, ScHolds, Release, Goto, PCs, HartMemoryAssumption
  <2>7. CASE StoreData(h)
    <3>1. op[h].addr \in Addr /\ StoredValue(h) \in Val
      BY <2>7, StoredValueType DEF StoreData, Step
    <3>2. [Abs!Broken(h, op[h].addr) EXCEPT ![h] = NoAddr] \in [Hart -> Addr \cup {NoAddr}]
          /\ Abs!Broken(h, op[h].addr) \in [Hart -> Addr \cup {NoAddr}]
      BY DEF Abs!Broken
    <3> QED
      BY <3>1, <3>2, <2>7, LockTypes
      DEF StoreData, StoreUnlocks, Goto, PCs, HartMemoryAssumption
  <2>8. CASE AmoAssertFails(h)
    BY <2>8 DEF AmoAssertFails, Quiet
  <2>9. CASE Wfi(h)
    BY <2>9, LockTypes DEF Wfi, Release, Goto, Quiet, PCs, HartMemoryAssumption
  <2>10. CASE TakeTrap(h) \/ TakeInterrupt(h)
    BY <2>10, LockTypes
    DEF TakeTrap, TakeInterrupt, Release, Goto, Quiet, PCs, HartMemoryAssumption
  <2>11. CASE Retire(h)
    <3>1. LockTypeOK' /\ lr_sc_counter' \in [Hart -> 0 .. LrScLimit]
      BY <2>11, LockTypes DEF Retire, CountDown, Release, HartMemoryAssumption
    <3>2. Nop \in Instr
      BY DEF Nop, Instr
    <3>3. LocalTimeCap \in Nat
      BY DEF LocalTimeCap, HartMemoryAssumption
    <3> QED  BY <3>1, <3>2, <3>3, <2>11 DEF Retire, Goto, Quiet, PCs
  <2>12. CASE Stop(h)
    BY <2>12 DEF Stop, Goto, PCs, HartMemoryAssumption
  <2> QED
    BY <1>4, <2>1, <2>2, <2>3, <2>4, <2>5, <2>6, <2>7, <2>8, <2>9, <2>10, <2>11, <2>12
    DEF HartStep
<1>5. ASSUME NEW h \in Hart, WfiEvent(h) \/ Resume(h)  PROVE TypeOK'
  BY <1>5 DEF WfiEvent, Resume, Goto, Quiet, PCs
<1>6. ASSUME NEW s \in Addr, NEW d \in Addr, DmaStart(s, d)  PROVE TypeOK'
  BY <1>6 DEF DmaStart, DmaState
<1>7. CASE DmaStep
  <2>1. CASE DmaBlocks
    BY <2>1, <1>3 DEF DmaBlocks
  <2>2. CASE DmaRead
    <3>1. dma \in [pc : {"read"}, src : Addr, dst : Addr, buf : {NoVal}]
      BY <2>2 DEF DmaRead, DmaState, DmaIdle
    <3>2. dma' \in DmaState
      BY <3>1, <2>2 DEF DmaRead, DmaState
    <3> QED  BY <3>2, <2>2 DEF DmaRead
  <2>3. CASE DmaContinue
    <3>1. dma \in [pc : {"delay", "write"}, src : Addr, dst : Addr, buf : Val]
      BY <2>3 DEF DmaContinue, DmaState, DmaIdle
    <3>2. dma' \in DmaState
      BY <3>1, <2>3 DEF DmaContinue, DmaState
    <3> QED  BY <3>2, <2>3 DEF DmaContinue
  <2>4. CASE DmaWrite
    <3>1. dma.dst \in Addr /\ dma.buf \in Val
      BY <2>4 DEF DmaWrite, DmaState, DmaIdle
    <3>2. Abs!Broken(Dma, dma.dst) \in [Hart -> Addr \cup {NoAddr}]
      BY DEF Abs!Broken
    <3> QED  BY <3>1, <3>2, <2>4 DEF DmaWrite, DmaState
  <2> QED  BY <1>7, <2>1, <2>2, <2>3, <2>4 DEF DmaStep
<1>8. CASE UNCHANGED vars
  BY <1>8
<1> QED  BY <1>1, <1>2, <1>4, <1>5, <1>6, <1>7, <1>8 DEF Next
-----------------------------------------------------------------------------
(* The lock invariant. *)

(* A step of hart h that leaves the lock with another owner leaves what    *)
(* that owner relies on: it is asleep between two instructions.            *)
LEMMA OtherOwner ==
    ASSUME TypeOK, OwnerOK, NEW h \in Hart, running = h, running' # NoProc => running' = h,
           HartMemoryAssumption, stops' \in Nat,
           locked' => /\ locked /\ owner' = owner /\ owner # h
                      /\ pc'[owner] = pc[owner] /\ op'[owner] = op[owner]
                      /\ lr_addr'[owner] = lr_addr[owner] /\ res'[owner] = res[owner]
                      /\ lr_sc_counter'[owner] = lr_sc_counter[owner]
                      /\ blocked' \subseteq blocked \cup {h}
                      /\ stops' >= stops
    PROVE  OwnerOK'
<1>1. SUFFICES ASSUME locked'
               PROVE  OwnerOK'
  BY DEF OwnerOK
<1>2. owner \in Hart /\ stops \in Nat /\ NoProc \notin Hart
  BY DEF TypeOK, LockTypeOK, HartMemoryAssumption
<1>3. /\ owner \notin blocked /\ AtBoundary(owner) /\ stops > 0
      /\ lr_sc_counter[owner] > 0 /\ res[owner] = lr_addr[owner]
  BY <1>1 DEF OwnerOK, AtBoundary, InAtomic, Boundary
<1>4. stops' > 0 /\ owner \notin blocked' /\ running' # owner
  <2>1. stops' > 0
    BY <1>1, <1>2, <1>3
  <2> QED  BY <2>1, <1>1, <1>2, <1>3
<1> QED  BY <1>1, <1>2, <1>3, <1>4 DEF OwnerOK, AtBoundary, InAtomic, Boundary

(* After unlock(h) hart h does not have the lock. *)
LEMMA UnlockGives ==
    ASSUME NEW h \in Hart, Unlock(h)
    PROVE  locked' => locked /\ owner' = owner /\ owner # h
BY DEF Unlock, IsLocked, lockVars

(* Every step keeps it. *)
LEMMA LockStep ==
    ASSUME HartMemoryAssumption, TypeOK, TypeOK', LockInv, [Next]_vars
    PROVE  LockInv'
<1> USE DEF LockInv, InAtomic, AtBoundary, MustWait, IsLocked, Boundary, lockVars, hartVars
<1>0. ControlOK /\ SleepOK /\ OwnerOK /\ AtomicOK
      /\ Dma \notin Hart /\ NoProc \notin Hart /\ NoProc # Dma /\ NoProc \notin blocked
  BY DEF HartMemoryAssumption, TypeOK, Proc
<1>a. blocked \subseteq Proc /\ running \in Proc \cup {NoProc} /\ owner \in Hart
      /\ pc \in [Hart -> PCs] /\ op \in [Hart -> Instr] /\ reg \in [Hart -> Val \cup {NoVal}]
      /\ lr_sc_counter \in [Hart -> 0 .. LrScLimit] /\ LrScLimit \in Nat \ {0}
      /\ lr_addr \in [Hart -> Addr \cup {NoAddr}] /\ res \in [Hart -> Addr \cup {NoAddr}]
      /\ mem \in [Addr -> Val] /\ stops \in Nat
  BY DEF TypeOK, LockTypeOK, HartMemoryAssumption
<1>1. ASSUME NEW p \in Proc, Dispatch(p)  PROVE LockInv'
  BY <1>0, <1>a, <1>1 DEF Dispatch, Runnable, ControlOK, SleepOK, OwnerOK, AtomicOK, Proc
<1>2. CASE LockEventFires
  BY <1>0, <1>a, <1>2 DEF LockEventFires, ControlOK, SleepOK, OwnerOK, AtomicOK
<1>3. ASSUME NEW h \in Hart, Block(h), running = h, MustWait(h), pc[h] \in {Boundary, "lock", "load", "store"}
      PROVE LockInv'
  BY <1>0, <1>a, <1>3 DEF Block, ControlOK, SleepOK, OwnerOK, AtomicOK
<1>4. ASSUME NEW h \in Hart, HartStep(h)  PROVE LockInv'
  <2>1. ASSUME NEW i \in Instr, Fetch(h, i)  PROVE LockInv'
    <3>1. ControlOK'
      BY <1>0, <1>a, <2>1, FirstPCOK
      DEF ControlOK, Fetch, Translate, Unlock, Step, Goto, Quiet
    <3>2. SleepOK'
      BY <1>0, <1>a, <2>1, FirstPCOK
      DEF SleepOK, Fetch, Translate, Unlock, Step, Goto, Quiet
    <3>3. OwnerOK'
      <4>1. \/ locked' => locked /\ owner' = owner /\ owner # h
            \/ locked' /\ owner' = h /\ locked /\ owner = h
        BY <2>1 DEF Fetch, Translate, Unlock
      <4>2. running = h /\ (running' # NoProc => running' = h) /\ stops' >= stops /\ stops' \in Nat
        BY <1>a, <2>1 DEF Fetch, Step, Goto, Quiet
      <4>3. CASE locked' => locked /\ owner' = owner /\ owner # h
        <5>1. locked' => /\ pc'[owner] = pc[owner] /\ op'[owner] = op[owner]
                         /\ lr_addr'[owner] = lr_addr[owner] /\ res'[owner] = res[owner]
                         /\ lr_sc_counter'[owner] = lr_sc_counter[owner]
                         /\ blocked' \subseteq blocked \cup {h}
          BY <1>a, <2>1, <4>3 DEF Fetch, Step, Goto, Quiet
        <5> QED  BY <1>0, <4>2, <4>3, <5>1, OtherOwner
      <4>4. CASE locked' /\ owner' = h
        <5>1. /\ locked /\ owner = h /\ pc[h] = Boundary /\ pc'[h] = FirstPC(i) /\ op'[h] = i
              /\ blocked' = blocked /\ UNCHANGED <<running, lr_addr, lr_sc_counter, res>>
          BY <1>a, <2>1, <4>1, <4>4 DEF Fetch, Step, Goto, Quiet
        <5>2. lr_sc_counter[h] > 0 /\ res[h] = lr_addr[h] /\ h \notin blocked
          BY <1>0, <5>1 DEF OwnerOK
        <5> QED  BY <5>1, <5>2, <4>2, <4>4, FirstPCOK DEF OwnerOK
      <4> QED  BY <4>1, <4>3, <4>4
    <3>4. AtomicOK'
      BY <1>0, <1>a, <2>1, FirstPCOK
      DEF AtomicOK, Fetch, Translate, Unlock, Step, Goto, Quiet
    <3> QED  BY <3>1, <3>2, <3>3, <3>4 DEF LockInv
  <2>2. CASE FetchBlocks(h) \/ LockBlocks(h) \/ AccessBlocks(h)
    BY <2>2, <1>3 DEF FetchBlocks, LockBlocks, AccessBlocks, Step
  <2>3. CASE LockForAtomic(h)
    <3>1. ControlOK'
      BY <1>0, <1>a, <2>3
      DEF ControlOK, LockForAtomic, Lock, Step, Goto, Quiet
    <3>2. SleepOK'
      BY <1>0, <1>a, <2>3
      DEF SleepOK, LockForAtomic, Lock, Step, Goto, Quiet
    <3>3. OwnerOK'
      <4>1. /\ locked' /\ owner' = h /\ running' = h /\ h \notin blocked'
            /\ pc'[h] = "load" /\ op'[h] = op[h] /\ op[h].kind \in {"lr", "amo"}
        BY <1>0, <1>a, <2>3 DEF LockForAtomic, Lock, Step, Goto, Quiet, SleepOK, ControlOK
      <4>2. op[h].kind = "lr" => op[h].addr = lr_addr'[h]
        BY <1>a, <2>3 DEF LockForAtomic
      <4> QED  BY <4>1, <4>2 DEF OwnerOK
    <3>4. AtomicOK'
      <4>1. locked' /\ owner' = h /\ pc'[h] = "load"
        BY <1>a, <2>3 DEF LockForAtomic, Lock, Goto
      <4>2. \A g \in Hart \ {h} : ~InAtomic(g) /\ pc'[g] = pc[g] /\ op'[g] = op[g]
        BY <1>0, <1>a, <2>3 DEF LockForAtomic, Step, Goto, SleepOK
      <4> QED  BY <4>1, <4>2 DEF AtomicOK
    <3> QED  BY <3>1, <3>2, <3>3, <3>4 DEF LockInv
  <2>4. CASE LoadData(h)
    <3>0. /\ running = h /\ pc[h] = "load" /\ op[h].kind \in {"load", "lr", "amo"}
          /\ op[h].addr \in Addr /\ op' = op /\ UNCHANGED <<running, blocked, lr_addr, stops, mem>>
      BY <1>0, <1>a, <2>4, InstrFields DEF LoadData, Step, ControlOK
    <3>a. \A g \in Hart \ {h} : pc'[g] = pc[g] /\ reg'[g] = reg[g] /\ res'[g] = res[g]
                                /\ lr_sc_counter'[g] = lr_sc_counter[g]
      BY <1>a, <2>4 DEF LoadData, Goto
    <3>1. ControlOK'
      <4>1. pc'[h] = "retire" \/ (pc'[h] = "store" /\ op[h].kind = "amo" /\ reg'[h] \in Val)
        BY <3>0, <1>a, <2>4 DEF LoadData, Goto
      <4> QED  BY <1>0, <3>0, <3>a, <4>1 DEF ControlOK
    <3>2. SleepOK'
      BY <1>0, <1>a, <2>4
      DEF SleepOK, LoadData, Translate, Unlock, Step, Goto, ArmCounter
    <3>3. OwnerOK'
      <4>1. \/ locked' => locked /\ owner' = owner /\ owner # h
            \/ locked' /\ owner' = h /\ locked /\ owner = h
        BY <2>4 DEF LoadData, Translate, Unlock
      <4>2. CASE locked' => locked /\ owner' = owner /\ owner # h
        BY <1>0, <1>a, <3>0, <3>a, <4>2, OtherOwner
      <4>3. CASE locked' /\ owner' = h /\ locked /\ owner = h
        <5>1. CASE op[h].kind = "amo"
          <6>1. pc'[h] = "store" /\ reg'[h] = mem[op[h].addr]
            BY <1>a, <2>4, <5>1 DEF LoadData, Goto
          <6> QED  BY <1>0, <3>0, <4>3, <5>1, <6>1 DEF OwnerOK
        <5>2. CASE op[h].kind = "lr"
          <6>1. pc'[h] = "retire" /\ res'[h] = op[h].addr
                /\ lr_sc_counter'[h] = ArmCounter(lr_sc_counter[h])
            BY <1>a, <2>4, <5>2 DEF LoadData, Goto
          <6>2. lr_sc_counter'[h] > 0
            BY <1>a, <6>1 DEF ArmCounter
          <6>3. lr_addr[h] = op[h].addr
            BY <1>0, <3>0, <4>3, <5>2 DEF OwnerOK
          <6> QED  BY <1>0, <3>0, <4>3, <5>2, <6>1, <6>2, <6>3 DEF OwnerOK
        <5>3. CASE op[h].kind = "load"
          <6>1. pc'[h] = "retire" /\ UNCHANGED <<res, lr_sc_counter>>
            BY <1>a, <2>4, <5>3 DEF LoadData, Goto
          <6> QED  BY <1>0, <3>0, <4>3, <5>3, <6>1 DEF OwnerOK
        <5> QED  BY <3>0, <5>1, <5>2, <5>3
      <4> QED  BY <4>1, <4>2, <4>3
    <3>4. AtomicOK'
      BY <1>0, <1>a, <2>4
      DEF AtomicOK, LoadData, Translate, Unlock, Step, Goto, ArmCounter
    <3> QED  BY <3>1, <3>2, <3>3, <3>4 DEF LockInv
  <2>5. CASE AccessFaults(h)
    <3>1. ControlOK'
      BY <1>0, <1>a, <2>5
      DEF ControlOK, AccessFaults, Goto, Quiet
    <3>2. SleepOK'
      BY <1>0, <1>a, <2>5
      DEF SleepOK, AccessFaults, Goto, Quiet
    <3>3. OwnerOK'
      BY <1>0, <1>a, <2>5
      DEF OwnerOK, AccessFaults, Goto, Quiet
    <3>4. AtomicOK'
      BY <1>0, <1>a, <2>5
      DEF AtomicOK, AccessFaults, Goto, Quiet
    <3> QED  BY <3>1, <3>2, <3>3, <3>4 DEF LockInv
  <2>6. CASE StoreConditional(h)
    <3>1. ControlOK'
      BY <1>0, <1>a, <2>6
      DEF ControlOK, StoreConditional, ScHolds, Release, Unlock, Step, Goto
    <3>2. SleepOK'
      BY <1>0, <1>a, <2>6
      DEF SleepOK, StoreConditional, ScHolds, Release, Unlock, Step, Goto
    <3>3. OwnerOK'
      <4>1. CASE IsLocked(h) /\ op[h].addr = lr_addr[h]
        <5>1. /\ running = h /\ pc[h] = "sc" /\ op[h].kind = "sc" /\ pc'[h] = "store"
              /\ UNCHANGED <<lockVars, running, blocked, op, lr_addr, lr_sc_counter, res>>
          BY <1>0, <1>a, <2>6, <4>1 DEF StoreConditional, ScHolds, Step, Goto, ControlOK
        <5> QED  BY <1>0, <4>1, <5>1 DEF OwnerOK
      <4>2. CASE ~(IsLocked(h) /\ op[h].addr = lr_addr[h])
        <5>1. locked' => locked /\ owner' = owner /\ owner # h
          BY <2>6, <4>2, UnlockGives DEF StoreConditional, ScHolds, Release
        <5>2. running = h /\ (running' # NoProc => running' = h) /\ stops' >= stops /\ stops' \in Nat
          BY <1>a, <2>6 DEF StoreConditional, ScHolds, Step
        <5>3. locked' => /\ pc'[owner] = pc[owner] /\ op'[owner] = op[owner]
                         /\ lr_addr'[owner] = lr_addr[owner] /\ res'[owner] = res[owner]
                         /\ lr_sc_counter'[owner] = lr_sc_counter[owner]
                         /\ blocked' \subseteq blocked \cup {h}
          BY <1>a, <2>6, <4>2, <5>1 DEF StoreConditional, ScHolds, Release, Goto
        <5> QED  BY <1>0, <5>1, <5>2, <5>3, OtherOwner
      <4> QED  BY <4>1, <4>2
    <3>4. AtomicOK'
      BY <1>0, <1>a, <2>6
      DEF AtomicOK, StoreConditional, ScHolds, Release, Unlock, Step, Goto
    <3> QED  BY <3>1, <3>2, <3>3, <3>4 DEF LockInv
  <2>7. CASE StoreData(h)
    <3>1. ControlOK'
      BY <1>0, <1>a, <2>7
      DEF ControlOK, StoreData, StoreUnlocks, Unlock, Step, Goto, Abs!Broken
    <3>2. SleepOK'
      BY <1>0, <1>a, <2>7
      DEF SleepOK, StoreData, StoreUnlocks, Unlock, Step, Goto, Abs!Broken
    <3>3. OwnerOK'
      BY <1>0, <1>a, <2>7
      DEF OwnerOK, StoreData, StoreUnlocks, Unlock, Step, Goto, Abs!Broken
    <3>4. AtomicOK'
      BY <1>0, <1>a, <2>7
      DEF AtomicOK, StoreData, StoreUnlocks, Unlock, Step, Goto, Abs!Broken
    <3> QED  BY <3>1, <3>2, <3>3, <3>4 DEF LockInv
  <2>8. CASE AmoAssertFails(h)
    <3>1. ControlOK'
      BY <1>0, <1>a, <2>8
      DEF ControlOK, AmoAssertFails, Step, Quiet
    <3>2. SleepOK'
      BY <1>0, <1>a, <2>8
      DEF SleepOK, AmoAssertFails, Step, Quiet
    <3>3. OwnerOK'
      BY <1>0, <1>a, <2>8
      DEF OwnerOK, AmoAssertFails, Step, Quiet
    <3>4. AtomicOK'
      BY <1>0, <1>a, <2>8
      DEF AtomicOK, AmoAssertFails, Step, Quiet
    <3> QED  BY <3>1, <3>2, <3>3, <3>4 DEF LockInv
  <2>9. CASE Wfi(h)
    <3>1. ControlOK'
      BY <1>0, <1>a, <2>9
      DEF ControlOK, Wfi, Release, Unlock, Step, Goto, Quiet
    <3>2. SleepOK'
      BY <1>0, <1>a, <2>9
      DEF SleepOK, Wfi, Release, Unlock, Step, Goto, Quiet
    <3>3. OwnerOK'
      <4>1. locked' => locked /\ owner' = owner /\ owner # h
        BY <2>9, UnlockGives DEF Wfi, Release
      <4>2. running = h /\ (running' # NoProc => running' = h) /\ stops' >= stops /\ stops' \in Nat
        BY <1>a, <2>9 DEF Wfi, Step, Quiet
      <4>3. locked' => /\ pc'[owner] = pc[owner] /\ op'[owner] = op[owner]
                       /\ lr_addr'[owner] = lr_addr[owner] /\ res'[owner] = res[owner]
                       /\ lr_sc_counter'[owner] = lr_sc_counter[owner]
                       /\ blocked' \subseteq blocked \cup {h}
        BY <1>a, <2>9, <4>1 DEF Wfi, Release, Goto, Quiet
      <4> QED  BY <1>0, <4>1, <4>2, <4>3, OtherOwner
    <3>4. AtomicOK'
      BY <1>0, <1>a, <2>9
      DEF AtomicOK, Wfi, Release, Unlock, Step, Goto, Quiet
    <3> QED  BY <3>1, <3>2, <3>3, <3>4 DEF LockInv
  <2>10. CASE TakeTrap(h)
    <3>1. ControlOK'
      BY <1>0, <1>a, <2>10
      DEF ControlOK, TakeTrap, Release, Unlock, Step, Goto, Quiet
    <3>2. SleepOK'
      BY <1>0, <1>a, <2>10
      DEF SleepOK, TakeTrap, Release, Unlock, Step, Goto, Quiet
    <3>3. OwnerOK'
      <4>1. locked' => locked /\ owner' = owner /\ owner # h
        BY <2>10, UnlockGives DEF TakeTrap, Release
      <4>2. running = h /\ (running' # NoProc => running' = h) /\ stops' >= stops /\ stops' \in Nat
        BY <1>a, <2>10 DEF TakeTrap, Step, Quiet
      <4>3. locked' => /\ pc'[owner] = pc[owner] /\ op'[owner] = op[owner]
                       /\ lr_addr'[owner] = lr_addr[owner] /\ res'[owner] = res[owner]
                       /\ lr_sc_counter'[owner] = lr_sc_counter[owner]
                       /\ blocked' \subseteq blocked \cup {h}
        BY <1>a, <2>10, <4>1 DEF TakeTrap, Release, Goto, Quiet
      <4> QED  BY <1>0, <4>1, <4>2, <4>3, OtherOwner
    <3>4. AtomicOK'
      BY <1>0, <1>a, <2>10
      DEF AtomicOK, TakeTrap, Release, Unlock, Step, Goto, Quiet
    <3> QED  BY <3>1, <3>2, <3>3, <3>4 DEF LockInv
  <2>11. CASE TakeInterrupt(h)
    <3>1. ControlOK'
      BY <1>0, <1>a, <2>11
      DEF ControlOK, TakeInterrupt, Release, Unlock, Step, Goto, Quiet
    <3>2. SleepOK'
      BY <1>0, <1>a, <2>11
      DEF SleepOK, TakeInterrupt, Release, Unlock, Step, Goto, Quiet
    <3>3. OwnerOK'
      <4>1. locked' => locked /\ owner' = owner /\ owner # h
        BY <2>11, UnlockGives DEF TakeInterrupt, Release
      <4>2. running = h /\ (running' # NoProc => running' = h) /\ stops' >= stops /\ stops' \in Nat
        BY <1>a, <2>11 DEF TakeInterrupt, Step, Quiet
      <4>3. locked' => /\ pc'[owner] = pc[owner] /\ op'[owner] = op[owner]
                       /\ lr_addr'[owner] = lr_addr[owner] /\ res'[owner] = res[owner]
                       /\ lr_sc_counter'[owner] = lr_sc_counter[owner]
                       /\ blocked' \subseteq blocked \cup {h}
        BY <1>a, <2>11, <4>1 DEF TakeInterrupt, Release, Goto, Quiet
      <4> QED  BY <1>0, <4>1, <4>2, <4>3, OtherOwner
    <3>4. AtomicOK'
      BY <1>0, <1>a, <2>11
      DEF AtomicOK, TakeInterrupt, Release, Unlock, Step, Goto, Quiet
    <3> QED  BY <3>1, <3>2, <3>3, <3>4 DEF LockInv
  <2>12. CASE Retire(h)
    <3>1. ControlOK'
      BY <1>0, <1>a, <2>12
      DEF ControlOK, Retire, CountDown, MaySync, Release, Unlock, Goto, Quiet, Nop
    <3>2. SleepOK'
      BY <1>0, <1>a, <2>12
      DEF SleepOK, Retire, CountDown, MaySync, Release, Unlock, Goto, Quiet, Nop
    <3>3. OwnerOK'
      <4>0. /\ running = h /\ pc[h] \in {"retire", "update"} /\ pc'[h] = Boundary
            /\ UNCHANGED <<blocked, stops, res, lr_addr>>
            /\ \A g \in Hart \ {h} : pc'[g] = pc[g] /\ op'[g] = op[g]
        BY <1>a, <2>12 DEF Retire, Goto, Quiet
      <4>1. \/ /\ locked' => locked /\ owner' = owner /\ owner # h
               /\ \A g \in Hart \ {h} : lr_sc_counter'[g] = lr_sc_counter[g]
            \/ /\ locked' /\ owner' = h /\ locked /\ owner = h
               /\ lr_sc_counter[h] # 1
               /\ lr_sc_counter'[h] = IF lr_sc_counter[h] = 0 THEN 0 ELSE lr_sc_counter[h] - 1
        BY <1>a, <2>12 DEF Retire, CountDown, Release, Unlock
      <4>2. running' # NoProc => running' = h
        BY <4>0, <2>12 DEF Retire
      <4>3. CASE /\ locked' => locked /\ owner' = owner /\ owner # h
                 /\ \A g \in Hart \ {h} : lr_sc_counter'[g] = lr_sc_counter[g]
        BY <1>0, <1>a, <4>0, <4>2, <4>3, OtherOwner
      <4>4. CASE /\ locked' /\ owner' = h /\ locked /\ owner = h
                 /\ lr_sc_counter[h] # 1
                 /\ lr_sc_counter'[h] = IF lr_sc_counter[h] = 0 THEN 0 ELSE lr_sc_counter[h] - 1
        <5>1. h \notin blocked /\ lr_sc_counter[h] > 0 /\ res[h] = lr_addr[h]
          BY <1>0, <4>0, <4>4 DEF OwnerOK
        <5>2. lr_sc_counter'[h] > 0
          BY <1>a, <4>4, <5>1
        <5>3. running' = h
          BY <5>2, <4>0, <2>12 DEF Retire, MaySync
        <5> QED  BY <4>0, <4>4, <5>1, <5>2, <5>3 DEF OwnerOK
      <4> QED  BY <4>1, <4>3, <4>4
    <3>4. AtomicOK'
      BY <1>0, <1>a, <2>12
      DEF AtomicOK, Retire, CountDown, MaySync, Release, Unlock, Goto, Quiet, Nop
    <3> QED  BY <3>1, <3>2, <3>3, <3>4 DEF LockInv
  <2>13. CASE Stop(h)
    <3>1. ControlOK'
      BY <1>0, <1>a, <2>13
      DEF ControlOK, Stop, Step, Goto
    <3>2. SleepOK'
      BY <1>0, <1>a, <2>13
      DEF SleepOK, Stop, Step, Goto
    <3>3. OwnerOK'
      BY <1>0, <1>a, <2>13
      DEF OwnerOK, Stop, Step, Goto
    <3>4. AtomicOK'
      BY <1>0, <1>a, <2>13
      DEF AtomicOK, Stop, Step, Goto
    <3> QED  BY <3>1, <3>2, <3>3, <3>4 DEF LockInv
  <2> QED
    BY <1>4, <2>1, <2>2, <2>3, <2>4, <2>5, <2>6, <2>7, <2>8, <2>9, <2>10, <2>11, <2>12, <2>13 DEF HartStep
<1>5. ASSUME NEW h \in Hart, WfiEvent(h) \/ Resume(h)  PROVE LockInv'
  BY <1>0, <1>a, <1>5 DEF WfiEvent, Resume, Goto, Quiet, ControlOK, SleepOK, OwnerOK, AtomicOK
<1>6. ASSUME NEW s \in Addr, NEW d \in Addr, DmaStart(s, d)  PROVE LockInv'
  BY <1>0, <1>a, <1>6 DEF DmaStart, ControlOK, SleepOK, OwnerOK, AtomicOK
<1>7. CASE DmaStep
  <2>1. CASE DmaBlocks
    BY <1>0, <1>a, <2>1 DEF DmaBlocks, ConnectorMustWait, Block, ControlOK, SleepOK, OwnerOK, AtomicOK, Proc
  <2>2. CASE DmaRead
    BY <1>0, <1>a, <2>2 DEF DmaRead, ConnectorMustWait, ControlOK, SleepOK, OwnerOK, AtomicOK, Proc
  <2>3. CASE DmaContinue
    BY <1>0, <1>a, <2>3 DEF DmaContinue, ControlOK, SleepOK, OwnerOK, AtomicOK
  <2>4. CASE DmaWrite
    BY <1>0, <1>a, <2>4 DEF DmaWrite, ConnectorMustWait, ControlOK, SleepOK, OwnerOK, AtomicOK, Proc
  <2> QED  BY <1>7, <2>1, <2>2, <2>3, <2>4 DEF DmaStep
<1>8. CASE UNCHANGED vars
  BY <1>0, <1>8 DEF vars, ControlOK, SleepOK, OwnerOK, AtomicOK
<1> QED  BY <1>1, <1>2, <1>4, <1>5, <1>6, <1>7, <1>8 DEF Next
-----------------------------------------------------------------------------
(* The run-ahead invariant. *)

(* Every step keeps it. *)
LEMMA RunAheadStep ==
    ASSUME HartMemoryAssumption, TypeOK, ControlOK, RunAheadInv, [Next]_vars
    PROVE  RunAheadInv'
<1>a. pc \in [Hart -> PCs] /\ op \in [Hart -> Instr]
      /\ lr_sc_counter \in [Hart -> 0 .. LrScLimit] /\ LrScLimit \in Nat \ {0}
      /\ local_time \in [Hart -> Nat] /\ Quantum \in Nat \ {0}
  BY DEF TypeOK, HartMemoryAssumption
<1>b. ASSUME UNCHANGED <<pc, lr_sc_counter, local_time>>  PROVE RunAheadInv'
  BY <1>b DEF RunAheadInv
<1>c. ASSUME NEW h \in Hart, NEW to, pc' = [pc EXCEPT ![h] = to],
             UNCHANGED <<lr_sc_counter, local_time>>,
             pc[h] \notin {"retire", "update", "trap", "wfiwait"}
                 \/ to \in {"retire", "update", "trap", "wfiwait"}
      PROVE  RunAheadInv'
  BY <1>a, <1>c DEF RunAheadInv
<1>d. ASSUME NEW h \in Hart, NEW to \in {"retire", "update", "trap", "wfiwait"},
             pc' = [pc EXCEPT ![h] = to], UNCHANGED local_time,
             lr_sc_counter' = [lr_sc_counter EXCEPT ![h] = 0]
      PROVE  RunAheadInv'
  BY <1>a, <1>d DEF RunAheadInv
<1>1. ASSUME NEW p \in Proc, Dispatch(p)  PROVE RunAheadInv'
  BY <1>1, <1>b DEF Dispatch, hartVars
<1>2. CASE LockEventFires
  BY <1>2, <1>b DEF LockEventFires, hartVars
<1>3. ASSUME NEW p \in Proc, Block(p)  PROVE RunAheadInv'
  BY <1>3, <1>b DEF Block, hartVars
<1>4. ASSUME NEW h \in Hart, HartStep(h)  PROVE RunAheadInv'
  <2>1. ASSUME NEW i \in Instr, Fetch(h, i)  PROVE RunAheadInv'
    BY <2>1, <1>c DEF Fetch, Step, Goto, Boundary
  <2>2. CASE FetchBlocks(h) \/ LockBlocks(h) \/ AccessBlocks(h)
    BY <2>2, <1>3 DEF FetchBlocks, LockBlocks, AccessBlocks, Proc
  <2>3. CASE LockForAtomic(h)
    BY <2>3, <1>c DEF LockForAtomic, Step, Goto
  <2>4. CASE LoadData(h)
    <3>1. CASE op[h].kind # "lr"
      BY <2>4, <3>1, <1>c DEF LoadData, Step, Goto
    <3>2. CASE op[h].kind = "lr"
      <4>1. /\ pc[h] = "load" /\ pc' = [pc EXCEPT ![h] = "retire"] /\ UNCHANGED local_time
            /\ lr_sc_counter' = [lr_sc_counter EXCEPT ![h] = ArmCounter(lr_sc_counter[h])]
        BY <2>4, <3>2 DEF LoadData, Step, Goto
      <4>2. lr_sc_counter[h] = 0 => local_time[h] < Quantum
        BY <4>1 DEF RunAheadInv
      <4>3. ArmCounter(lr_sc_counter[h]) \in 1 .. LrScLimit
            /\ local_time[h] + ArmCounter(lr_sc_counter[h]) <= Quantum + LrScLimit - 1
        BY <1>a, <4>2 DEF ArmCounter, RunAheadInv
      <4> QED  BY <1>a, <4>1, <4>3 DEF RunAheadInv
    <3> QED  BY <3>1, <3>2
  <2>5. CASE AccessFaults(h)
    BY <2>5, <1>c DEF AccessFaults, Goto
  <2>6. CASE StoreConditional(h)
    <3>1. CASE IsLocked(h) /\ op[h].addr = lr_addr[h]
      BY <2>6, <3>1, <1>c DEF StoreConditional, ScHolds, Step, Goto
    <3>2. CASE ~(IsLocked(h) /\ op[h].addr = lr_addr[h])
      BY <2>6, <3>2, <1>d DEF StoreConditional, ScHolds, Release, Goto
    <3> QED  BY <3>1, <3>2
  <2>7. CASE StoreData(h)
    <3>1. CASE op[h].kind = "sc"
      BY <2>7, <3>1, <1>d DEF StoreData, Goto
    <3>2. CASE op[h].kind # "sc"
      BY <2>7, <3>2, <1>c DEF StoreData, Step, Goto
    <3> QED  BY <3>1, <3>2
  <2>8. CASE AmoAssertFails(h)
    BY <2>8, <1>b DEF AmoAssertFails, hartVars
  <2>9. CASE Wfi(h)
    BY <2>9, <1>d DEF Wfi, Release, Goto
  <2>10. CASE TakeTrap(h) \/ TakeInterrupt(h)
    BY <2>10, <1>d DEF TakeTrap, TakeInterrupt, Release, Goto
  <2>11. CASE Retire(h)
    <3>1. /\ lr_sc_counter' = [lr_sc_counter EXCEPT ![h] = lr_sc_counter'[h]]
          /\ lr_sc_counter'[h] = IF lr_sc_counter[h] = 0 THEN 0 ELSE lr_sc_counter[h] - 1
      BY <1>a, <2>11 DEF Retire, CountDown, Release
    <3>2. pc' = [pc EXCEPT ![h] = Boundary]
      BY <2>11 DEF Retire, Goto
    <3>3. \/ /\ local_time' = [local_time EXCEPT ![h] = 0]
          \/ /\ local_time' = [local_time EXCEPT ![h] = local_time[h] + 1]
             /\ local_time[h] + 1 < Quantum \/ lr_sc_counter'[h] # 0
      <4>1. local_time[h] < LocalTimeCap
        BY <1>a DEF RunAheadInv, LocalTimeCap
      <4> QED  BY <1>a, <2>11, <4>1 DEF Retire, MaySync
    <3>4. lr_sc_counter'[h] \in 0 .. LrScLimit - 1
      BY <1>a, <3>1
    <3>5. local_time'[h] \in Nat /\ local_time'[h] + lr_sc_counter'[h] <= Quantum + LrScLimit - 1
          /\ (lr_sc_counter'[h] = 0 => local_time'[h] < Quantum)
          /\ local_time'[h] <= Quantum + LrScLimit - 2
      BY <1>a, <3>1, <3>3, <3>4 DEF RunAheadInv
    <3>6. \A g \in Hart \ {h} : local_time'[g] = local_time[g] /\ pc'[g] = pc[g]
                                /\ lr_sc_counter'[g] = lr_sc_counter[g]
      BY <1>a, <3>1, <3>2, <3>3
    <3> QED  BY <3>5, <3>6 DEF RunAheadInv
  <2>12. CASE Stop(h)
    <3>1. pc[h] = Boundary /\ pc' = [pc EXCEPT ![h] = "stopped"] /\ UNCHANGED lr_sc_counter
      BY <2>12 DEF Stop, Step, Goto
    <3>2. PICK t \in {0, local_time[h]} : local_time' = [local_time EXCEPT ![h] = t]
      BY <2>12 DEF Stop
    <3> QED  BY <1>a, <3>1, <3>2 DEF RunAheadInv, Boundary
  <2> QED
    BY <1>4, <2>1, <2>2, <2>3, <2>4, <2>5, <2>6, <2>7, <2>8, <2>9, <2>10, <2>11, <2>12
    DEF HartStep
<1>5. ASSUME NEW h \in Hart, WfiEvent(h) \/ Resume(h)  PROVE RunAheadInv'
  BY <1>5, <1>c DEF WfiEvent, Resume, Goto
<1>6. ASSUME NEW s \in Addr, NEW d \in Addr, DmaStart(s, d)  PROVE RunAheadInv'
  BY <1>6, <1>b DEF DmaStart, hartVars
<1>7. CASE DmaStep
  BY <1>7, <1>b, <1>3 DEF DmaStep, DmaBlocks, DmaRead, DmaContinue, DmaWrite, hartVars, Proc
<1>8. CASE UNCHANGED vars
  BY <1>8, <1>b DEF vars, hartVars
<1> QED  BY <1>1, <1>2, <1>4, <1>5, <1>6, <1>7, <1>8 DEF Next

-----------------------------------------------------------------------------
(* Theorems about the specification. *)

Inv == TypeOK /\ LockInv /\ RunAheadInv

(* The three invariants hold initially and together in every state.        *)
THEOREM Invariance == Spec => []Inv
<1>1. Init => Inv
  <2> SUFFICES ASSUME Init PROVE Inv
    OBVIOUS
  <2>0. /\ Quantum \in Nat \ {0} /\ LrScLimit \in Nat \ {0} /\ MaxStops \in Nat
        /\ NoProc \notin Hart
    BY HartMemoryAssumption DEF HartMemoryAssumption
  <2>1. TypeOK
    <3>1. op \in [Hart -> Instr] /\ pc \in [Hart -> PCs] /\ dma \in DmaState
      BY DEF Init, Nop, Instr, PCs, Boundary, DmaState
    <3>2. /\ lr_sc_counter \in [Hart -> 0 .. LrScLimit] /\ local_time \in [Hart -> Nat]
          /\ stops \in 0 .. MaxStops
      BY <2>0 DEF Init
    <3> QED
      BY <3>1, <3>2 DEF Init, TypeOK, LockInit, LockTypeOK, Proc
  <2>2. LockInv
    BY <2>0 DEF Init, LockInit, LockInv, ControlOK, SleepOK, OwnerOK, AtomicOK, InAtomic, MustWait,
                IsLocked, Boundary
  <2>3. RunAheadInv
    <3>1. \A h \in Hart : lr_sc_counter[h] = 0 /\ local_time[h] = 0
      BY DEF Init
    <3>2. 0 <= Quantum + LrScLimit - 2 /\ 0 + 0 <= Quantum + LrScLimit - 1 /\ 0 < Quantum
      BY <2>0
    <3> QED  BY <3>1, <3>2 DEF RunAheadInv
  <2> QED  BY <2>1, <2>2, <2>3 DEF Inv
<1>2. Inv /\ [Next]_vars => Inv'
  <2> SUFFICES ASSUME Inv, [Next]_vars PROVE Inv'
    OBVIOUS
  <2>1. TypeOK'
    BY TypeStep, HartMemoryAssumption DEF Inv, LockInv
  <2>2. LockInv'
    BY <2>1, LockStep, HartMemoryAssumption DEF Inv
  <2>3. RunAheadInv'
    BY RunAheadStep, HartMemoryAssumption DEF Inv, LockInv
  <2> QED  BY <2>1, <2>2, <2>3 DEF Inv
<1> QED  BY <1>1, <1>2, PTL DEF Spec
(* Type correctness of the harts, the lock, the memory and the DMA engine. *)
THEOREM TypeCorrect == Spec => []TypeOK
<1>1. Inv => TypeOK
  BY DEF Inv
<1> QED  BY <1>1, Invariance, PTL

(* The owner of the bus lock never waits: not on the lock, not in WFI; if  *)
(* another process runs, the owner is between two instructions with its    *)
(* countdown running (lr_sc_counter of ISS, run_step, WFI).                *)
THEOREM OwnerNeverWaitsTheorem == Spec => []OwnerNeverWaits
<1>1. Inv => OwnerNeverWaits
  BY DEF Inv, LockInv, OwnerOK, OwnerNeverWaits, AtBoundary, InAtomic, Boundary
<1> QED  BY <1>1, Invariance, PTL

(* Without debugger stops the lock is never held across a context switch.  *)
THEOREM NoSwitchUnderLockTheorem == Spec => []NoSwitchUnderLock
<1>1. Inv => NoSwitchUnderLock
  BY DEF Inv, LockInv, OwnerOK, NoSwitchUnderLock
<1> QED  BY <1>1, Invariance, PTL

(* Postponing the quantum sync lets a hart run ahead by less than          *)
(* LrScLimit instructions.                                                 *)
THEOREM RunAheadTheorem == Spec => []RunAheadBounded
<1>1. Inv => RunAheadBounded
  BY DEF Inv, RunAheadInv, RunAheadBounded
<1> QED  BY <1>1, Invariance, PTL

-----------------------------------------------------------------------------
(* Refinement: the atomic memory. *)

(* Every step of HartMemory is a step of AtomicMemory or changes nothing   *)
(* that software can see.                                                  *)
LEMMA RefinementStep ==
    ASSUME Inv, [Next]_vars
    PROVE  [Abs!Next]_Abs!absVars
<1> USE HartMemoryAssumption DEF Inv
<1>q. Abs!Quiet => [Abs!Next]_Abs!absVars
  BY DEF Abs!Next
<1>1. ASSUME NEW p \in Proc, Dispatch(p)  PROVE Abs!Quiet
  BY <1>1 DEF Dispatch, Abs!Quiet
<1>2. CASE LockEventFires
  BY <1>2, <1>q DEF LockEventFires, Abs!Quiet
<1>3. ASSUME NEW p \in Proc, Block(p)  PROVE Abs!Quiet
  BY <1>3 DEF Block, Abs!Quiet
<1>4. ASSUME NEW h \in Hart, HartStep(h)  PROVE [Abs!Next]_Abs!absVars
  <2>1. ASSUME NEW i \in Instr, Fetch(h, i)  PROVE Abs!Quiet
    BY <2>1 DEF Fetch, Quiet, Abs!Quiet
  <2>2. ASSUME FetchBlocks(h) \/ LockBlocks(h) \/ AccessBlocks(h)  PROVE Abs!Quiet
    BY <2>2, <1>3 DEF FetchBlocks, LockBlocks, AccessBlocks, Proc
  <2>3. ASSUME LockForAtomic(h) \/ AccessFaults(h) \/ AmoAssertFails(h)
                 \/ Wfi(h) \/ TakeTrap(h) \/ TakeInterrupt(h) \/ Retire(h)
        PROVE  Abs!Quiet
    BY <2>3
    DEF LockForAtomic, AccessFaults, AmoAssertFails, Wfi, TakeTrap, TakeInterrupt, Retire,
        Quiet, Abs!Quiet
  <2>4. CASE LoadData(h)
    <3>1. op[h].addr \in Addr /\ op[h].kind \in {"load", "lr", "amo"}
      BY <2>4, InstrFields DEF LoadData, Step, LockInv, ControlOK, TypeOK
    <3>2. CASE op[h].kind = "amo"
      BY <2>4, <3>2, <1>q DEF LoadData, Abs!Quiet
    <3>3. CASE op[h].kind = "lr"
      <4>1. Abs!LoadReserved(h, op[h].addr)
        BY <2>4, <3>3 DEF LoadData, Abs!LoadReserved
      <4> QED  BY <3>1, <4>1 DEF Abs!Next
    <3>4. CASE op[h].kind = "load"
      <4>1. Abs!Load(h, op[h].addr)
        BY <2>4, <3>4 DEF LoadData, Abs!Load
      <4> QED  BY <3>1, <4>1 DEF Abs!Next, Abs!Proc
    <3> QED  BY <3>1, <3>2, <3>3, <3>4
  <2>5. CASE StoreConditional(h)
    <3>1. op[h].addr \in Addr
      BY <2>5, InstrFields DEF StoreConditional, ScHolds, Step, LockInv, ControlOK, TypeOK
    <3>2. CASE IsLocked(h) /\ op[h].addr = lr_addr[h]
      BY <2>5, <3>2, <1>q DEF StoreConditional, ScHolds, Abs!Quiet
    <3>3. CASE ~(IsLocked(h) /\ op[h].addr = lr_addr[h])
      <4>1. Abs!StoreConditionalFails(h, op[h].addr)
        BY <2>5, <3>3 DEF StoreConditional, ScHolds, Abs!StoreConditionalFails
      <4> QED  BY <3>1, <4>1 DEF Abs!Next
    <3> QED  BY <3>2, <3>3
  <2>6. CASE StoreData(h)
    <3>1. /\ pc[h] = "store" /\ op[h].addr \in Addr /\ StoredValue(h) \in Val
          /\ op[h].kind \in {"store", "sc", "amo"} /\ op[h] \in Instr
      BY <2>6, StoredValueType DEF StoreData, Step, LockInv, ControlOK, TypeOK
    <3>2. CASE op[h].kind = "store"
      <4>1. Abs!Store(h, op[h].addr, StoredValue(h))
        BY <2>6, <3>2 DEF StoreData, Abs!Store
      <4> QED  BY <3>1, <4>1 DEF Abs!Next, Abs!Proc
    <3>3. CASE op[h].kind = "sc"
      <4>1. res[h] = op[h].addr
        BY <3>1, <3>3 DEF LockInv, AtomicOK, OwnerOK, IsLocked, InAtomic
      <4>2. Abs!StoreConditional(h, op[h].addr, StoredValue(h))
        BY <2>6, <3>3, <4>1 DEF StoreData, Abs!StoreConditional
      <4> QED  BY <3>1, <4>2 DEF Abs!Next
    <3>4. CASE op[h].kind = "amo"
      <4>1. reg[h] = mem[op[h].addr]
        BY <2>6, <3>1, <3>4 DEF StoreData, LockInv, OwnerOK, IsLocked
      <4>2. StoredValue(h) = op[h].fn[mem[op[h].addr]][op[h].val]
        BY <3>4, <4>1 DEF StoredValue
      <4>3. Abs!Amo(h, op[h].addr, op[h].fn, op[h].val)
        BY <2>6, <3>4, <4>1, <4>2 DEF StoreData, Abs!Amo
      <4>4. op[h].fn \in AmoFns /\ op[h].val \in Val
        BY <3>1, <3>4, InstrFields
      <4> QED  BY <3>1, <4>3, <4>4 DEF Abs!Next
    <3> QED  BY <3>1, <3>2, <3>3, <3>4
  <2>7. ASSUME Stop(h)  PROVE Abs!Quiet
    BY <2>7 DEF Stop, Abs!Quiet
  <2> QED  BY <1>4, <1>q, <2>1, <2>2, <2>3, <2>4, <2>5, <2>6, <2>7 DEF HartStep
<1>5. ASSUME NEW h \in Hart, WfiEvent(h) \/ Resume(h)  PROVE Abs!Quiet
  BY <1>5 DEF WfiEvent, Resume, Quiet, Abs!Quiet
<1>6. ASSUME NEW s \in Addr, NEW d \in Addr, DmaStart(s, d)  PROVE Abs!Quiet
  BY <1>6 DEF DmaStart, Abs!Quiet
<1>7. CASE DmaStep
  <2>1. CASE DmaBlocks
    BY <2>1, <1>3, <1>q DEF DmaBlocks, Proc
  <2>2. CASE DmaRead
    <3>1. dma.src \in Addr
      BY <2>2 DEF DmaRead, TypeOK, DmaState, DmaIdle
    <3>2. Abs!Load(Dma, dma.src)
      BY <2>2 DEF DmaRead, Abs!Load
    <3> QED  BY <3>1, <3>2 DEF Abs!Next, Abs!Proc
  <2>3. CASE DmaContinue
    BY <2>3, <1>q DEF DmaContinue, Abs!Quiet
  <2>4. CASE DmaWrite
    <3>1. dma.dst \in Addr /\ dma.buf \in Val
      BY <2>4 DEF DmaWrite, TypeOK, DmaState, DmaIdle
    <3>2. Abs!Store(Dma, dma.dst, dma.buf)
      BY <2>4 DEF DmaWrite, Abs!Store
    <3> QED  BY <3>1, <3>2 DEF Abs!Next, Abs!Proc
  <2> QED  BY <1>7, <2>1, <2>2, <2>3, <2>4 DEF DmaStep
<1>8. CASE UNCHANGED vars
  BY <1>8 DEF vars, Abs!absVars
<1> QED  BY <1>q, <1>1, <1>2, <1>4, <1>5, <1>6, <1>7, <1>8 DEF Next

(* LR/SC, AMO, loads, stores and DMA transfers over the bus lock implement *)
(* the atomic memory: AMOs and successful SCs are indivisible.             *)
THEOREM AtomicRefinement == Spec => ImplementsAtomicMemory
<1>1. Init => Abs!Init
  BY DEF Init, Abs!Init
<1>2. Inv /\ [Next]_vars => [Abs!Next]_Abs!absVars
  BY RefinementStep
<1> QED  BY <1>1, <1>2, Invariance, PTL DEF Spec, Abs!Spec, ImplementsAtomicMemory

-----------------------------------------------------------------------------
(* The platforms without an MMU: there an AMO keeps the bus lock from its   *)
(* load to its store.                                                       *)

(* Between the lock that LR or AMO takes and the end of its load, or of    *)
(* the store of an AMO.                                                    *)
Holding(h) ==
    \/ pc[h] = "load" /\ op[h].kind \in {"lr", "amo"}
    \/ pc[h] = "store" /\ op[h].kind = "amo"

(* There the hart has the kernel, so that nobody else can run, and the     *)
(* lock, so that it does not wait itself.                                  *)
HoldsLock == \A h \in Hart : Holding(h) => running = h /\ locked /\ owner = h

Places ==
    /\ DOMAIN pc = Hart /\ DOMAIN op = Hart
    /\ \A h \in Hart : pc[h] = "sc" => op[h].kind = "sc"

TinyInv == Places /\ HoldsLock /\ ~aborted

(* A hart that does not run keeps its place and its instruction. *)
LEMMA OthersKeep ==
    ASSUME TinyInv, NEW h \in Hart, DOMAIN pc' = Hart, DOMAIN op' = Hart, ~aborted',
           \A k \in Hart : k # h => pc'[k] = pc[k] /\ op'[k] = op[k],
           running = h, pc'[h] = "sc" => op'[h].kind = "sc", Holding(h)' => running' = h /\ locked' /\ owner' = h
    PROVE  TinyInv'
<1>1. \A k \in Hart : k # h => ~Holding(k)
  BY DEF TinyInv, HoldsLock
<1>2. \A k \in Hart : k # h => ~Holding(k)'
  BY <1>1 DEF Holding
<1> QED
  BY <1>2 DEF TinyInv, Places, HoldsLock

(* A step of nobody's, or of the peripheral, meets no hart there. *)
LEMMA OutsideKeeps ==
    ASSUME TinyInv, running \notin Hart, UNCHANGED <<op, aborted>>, DOMAIN pc' = Hart,
           \A k \in Hart : pc'[k] = pc[k] \/ pc'[k] \notin {"load", "store", "sc"}
    PROVE  TinyInv'
<1>1. \A k \in Hart : ~Holding(k)
  BY DEF TinyInv, HoldsLock
<1>2. \A k \in Hart : ~Holding(k)'
  BY <1>1 DEF Holding
<1> QED
  BY <1>2 DEF TinyInv, Places, HoldsLock

LEMMA TinyHartStep == ASSUME TinyInv, NEW h \in Hart, Tiny!HartStep(h) PROVE TinyInv'
<1> USE DEF TinyInv, Places, Tiny!Step, Tiny!Goto, Tiny!Quiet, Tiny!Boundary
<1>1. ASSUME NEW i \in Tiny!Instr, Tiny!Fetch(h, i) PROVE TinyInv'
  <2>1. /\ running = h /\ pc' = [pc EXCEPT ![h] = Tiny!FirstPC(i)] /\ op' = [op EXCEPT ![h] = i]
        /\ aborted' = aborted
    BY <1>1 DEF Tiny!Fetch
  <2>2. Tiny!FirstPC(i) \in {"load", "store", "sc"} => i.kind = Tiny!FirstPC(i)
    BY DEF Tiny!FirstPC
  <2>3. ~Holding(h)'
    BY <2>1, <2>2 DEF Holding
  <2> QED
    BY <2>1, <2>2, <2>3, OthersKeep
<1>2. CASE Tiny!FetchBlocks(h) \/ Tiny!LockBlocks(h) \/ Tiny!AccessBlocks(h)
  <2>1. /\ running = h /\ locked /\ owner # h /\ UNCHANGED <<pc, op, aborted>>
    BY <1>2 DEF Tiny!FetchBlocks, Tiny!LockBlocks, Tiny!AccessBlocks, Tiny!Block, Tiny!MustWait,
                Tiny!hartVars
  <2>2. ~Holding(h)'
    BY <2>1 DEF HoldsLock, Holding
  <2> QED
    BY <2>1, <2>2, OthersKeep
<1>3. CASE Tiny!LockForAtomic(h)
  <2>1. /\ running = h /\ running' = h /\ locked' /\ owner' = h
        /\ pc' = [pc EXCEPT ![h] = "load"] /\ UNCHANGED <<op, aborted>>
    BY <1>3 DEF Tiny!LockForAtomic, Tiny!Lock
  <2> QED
    BY <2>1, OthersKeep
<1>4. CASE Tiny!LoadData(h)
  <2>1. /\ running = h /\ running' = h /\ pc[h] = "load" /\ UNCHANGED <<op, aborted>>
        /\ pc' = [pc EXCEPT ![h] = IF op[h].kind = "amo" THEN "store" ELSE "retire"]
    BY <1>4 DEF Tiny!LoadData
  <2>2. UNCHANGED <<locked, owner>>
    BY <1>4 DEF Tiny!LoadData, Tiny!Translations, Tiny!Translate, Tiny!lockVars
  <2>3. Holding(h)' => Holding(h)
    BY <2>1 DEF Holding
  <2> QED
    BY <2>1, <2>2, <2>3, OthersKeep DEF HoldsLock
<1>5. CASE Tiny!StoreConditional(h)
  <2>1. PICK to \in {"store", "retire"} :
           running = h /\ pc[h] = "sc" /\ UNCHANGED <<op, aborted>> /\ pc' = [pc EXCEPT ![h] = to]
    BY <1>5 DEF Tiny!StoreConditional
  <2>2. ~Holding(h)'
    BY <2>1 DEF Holding
  <2> QED
    BY <2>1, <2>2, OthersKeep
<1>6. CASE Tiny!AmoAssertFails(h)
  <2>1. running = h /\ Holding(h) /\ ~(locked /\ owner = h)
    BY <1>6 DEF Tiny!AmoAssertFails, Tiny!IsLocked, Holding
  <2> QED
    BY <2>1 DEF HoldsLock
<1>7. ASSUME NEW to, to \notin {"load", "store", "sc"}, running = h, UNCHANGED aborted,
             pc' = [pc EXCEPT ![h] = to], op' = op \/ op' = [op EXCEPT ![h] = Tiny!Nop]
      PROVE  TinyInv'
  <2>1. ~Holding(h)'
    BY <1>7 DEF Holding
  <2> QED
    BY <1>7, <2>1, OthersKeep
<1>8. CASE Tiny!AccessFaults(h) \/ Tiny!StoreData(h) \/ Tiny!TakeTrap(h) \/ Tiny!TakeInterrupt(h)
  <2>1. \E to \in {"trap", "retire", "update"} :
           running = h /\ UNCHANGED <<aborted, op>> /\ pc' = [pc EXCEPT ![h] = to]
    BY <1>8 DEF Tiny!AccessFaults, Tiny!StoreData, Tiny!TakeTrap, Tiny!TakeInterrupt
  <2> QED
    BY <1>7, <2>1
<1>9. CASE Tiny!Wfi(h)
  <2>1. \E to \in {"trap", "retire", "wfiwait"} :
           running = h /\ UNCHANGED <<aborted, op>> /\ pc' = [pc EXCEPT ![h] = to]
    BY <1>9 DEF Tiny!Wfi
  <2> QED
    BY <1>7, <2>1
<1>10. CASE Tiny!Retire(h) \/ Tiny!Stop(h)
  <2>1. \E to \in {"boundary", "stopped"} :
           /\ running = h /\ UNCHANGED aborted /\ pc' = [pc EXCEPT ![h] = to]
           /\ op' = op \/ op' = [op EXCEPT ![h] = Tiny!Nop]
    BY <1>10 DEF Tiny!Retire, Tiny!Stop
  <2> QED
    BY <1>7, <2>1
<1> QED
  BY <1>1, <1>2, <1>3, <1>4, <1>5, <1>6, <1>8, <1>9, <1>10 DEF Tiny!HartStep

LEMMA TinyStep == ASSUME TinyInv, [Tiny!Next]_Tiny!vars PROVE TinyInv'
<1>0. NoProc \notin Hart /\ Dma \notin Hart
  BY HartMemoryAssumption DEF HartMemoryAssumption
<1> USE DEF TinyInv, Places, Tiny!hartVars
<1>1. ASSUME NEW p \in Tiny!Proc, Tiny!Dispatch(p) PROVE TinyInv'
  BY <1>0, <1>1, OutsideKeeps DEF Tiny!Dispatch
<1>2. CASE Tiny!LockEventFires
  BY <1>0, <1>2, OutsideKeeps DEF Tiny!LockEventFires
<1>3. ASSUME NEW h \in Hart, Tiny!WfiEvent(h) \/ Tiny!Resume(h) PROVE TinyInv'
  <2>1. \E to \in {"retire", "boundary"} :
           running = NoProc /\ UNCHANGED <<op, aborted>> /\ pc' = [pc EXCEPT ![h] = to]
    BY <1>3 DEF Tiny!WfiEvent, Tiny!Resume, Tiny!Goto, Tiny!Boundary
  <2> QED
    BY <1>0, <2>1, OutsideKeeps
<1>4. ASSUME NEW s \in Addr, NEW d \in Addr, Tiny!DmaStart(s, d) PROVE TinyInv'
  BY <1>0, <1>4, OutsideKeeps DEF Tiny!DmaStart
<1>5. CASE Tiny!DmaStep
  <2>1. running = Dma /\ UNCHANGED <<pc, op, aborted>>
    BY <1>5 DEF Tiny!DmaStep, Tiny!DmaBlocks, Tiny!DmaRead, Tiny!DmaContinue, Tiny!DmaWrite, Tiny!Block
  <2> QED
    BY <1>0, <2>1, OutsideKeeps
<1>6. CASE UNCHANGED Tiny!vars
  <2>1. UNCHANGED <<pc, op, running, locked, owner, aborted>>
    BY <1>6 DEF Tiny!vars, Tiny!lockVars
  <2> QED
    BY <2>1 DEF HoldsLock, Holding
<1> QED
  BY <1>1, <1>2, <1>3, <1>4, <1>5, <1>6, TinyHartStep DEF Tiny!Next

(* On a platform without an MMU the assertion of atomic_store_word (mem.h) *)
(* never fails: nothing between the load and the store of an AMO gives the *)
(* lock back or the kernel to another process.                             *)
THEOREM AmoKeepsLockWithoutMMUTheorem == MCSpec => []AmoKeepsLockWithoutMMU
<1> DEFINE I == platform = NoAddr => TinyInv
<1>1. MCInit => I
  BY DEF MCInit, Init, TinyInv, Places, HoldsLock, Holding, Boundary
<1>2. I /\ [MCNext]_<<vars, platform>> => I'
  <2> SUFFICES ASSUME I, [MCNext]_<<vars, platform>>, platform' = NoAddr PROVE TinyInv'
    OBVIOUS
  <2>1. CASE MCNext
    BY <2>1, TinyStep DEF MCNext
  <2>2. CASE UNCHANGED <<vars, platform>>
    <3>1. platform = NoAddr /\ UNCHANGED Tiny!vars
      BY <2>2 DEF vars, Tiny!vars, lockVars, Tiny!lockVars, hartVars, Tiny!hartVars
    <3> QED
      BY <3>1, TinyStep
  <2> QED
    BY <2>1, <2>2
<1>3. I => AmoKeepsLockWithoutMMU
  BY DEF TinyInv, AmoKeepsLockWithoutMMU, AmoKeepsLock
<1> QED
  BY <1>1, <1>2, <1>3, PTL DEF MCSpec
=============================================================================

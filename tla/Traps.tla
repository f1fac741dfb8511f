-------------------------------- MODULE Traps --------------------------------
(***************************************************************************)
(* Traps, interrupts and returns of one hart (ISS::run_step and what it    *)
(* calls in core/rv32/iss.cpp; core/rv64/iss.cpp is the same code), driven *)
(* by arbitrary software and by the interrupt controllers.                 *)
(*                                                                         *)
(* A step executes one instruction and then takes an interrupt, or takes   *)
(* the trap the instruction raised; WFI suspends the step in the middle.   *)
(* Code are program locations, Tvec[m] among them is where the handler of  *)
(* mode m is entered; the cause registers and the vector offset computed   *)
(* from them are left out.                                                 *)
(***************************************************************************)
EXTENDS Integers

CONSTANTS
    Code,           \* program locations
    Tvec,           \* mtvec, stvec and utvec: [Mode -> Code]
    Intr,           \* the interrupts in use
    Exceptions,     \* the exception causes in use
    IntrDelegable,  \* the interrupts that software of a mode delegates
    ExcDelegable,   \* the exceptions that software of a mode delegates
    TrapModes,      \* the modes that have a trap handler
    MppChoices,     \* the values software gives to mstatus.mpp
    StatusWrites,   \* the values software writes to mstatus, sstatus, ustatus
    IgnoreWfi       \* iss.ignore_wfi

U == 0
S == 1
H == 2      \* HypervisorMode: a value the two bit field mpp can hold
M == 3
Mode == {U, S, M}

(* The bits of mie and mip that software of each mode can write: MIE_MASK, *)
(* SIE_MASK and UIE_MASK; MIP_WRITE_MASK, SIP_MASK and UIP_MASK.           *)
MieMask(m) ==
    Intr \cap ((IF m = M THEN {"mei", "msi", "mti"} ELSE {})
              \cup (IF m >= S THEN {"sei", "ssi", "sti"} ELSE {})
              \cup {"uei", "usi", "uti"})
MipMask(m) ==
    Intr \cap (IF m = M THEN {"sei", "ssi", "sti", "uei", "usi", "uti"}
              ELSE IF m = S THEN {"ssi", "usi"}
              ELSE {"usi"})

ASSUME TrapsAssumption ==
    /\ Tvec \in [Mode -> Code]
    /\ IntrDelegable \in [{S, M} -> SUBSET Intr]
    /\ ExcDelegable \in [{S, M} -> SUBSET Exceptions]
    /\ TrapModes \subseteq Mode
    /\ MppChoices \subseteq Mode \cup {H}
    /\ StatusWrites \subseteq [ie : [Mode -> BOOLEAN],
                               pie : [Mode -> BOOLEAN],
                               pp : [{S, M} -> Mode \cup MppChoices]]
    /\ IgnoreWfi \in BOOLEAN

VARIABLES
    prv,
    pc,
    ie,         \* mstatus.mie, sie and uie, by mode
    pie,        \* mstatus.mpie, spie and upie
    pp,         \* mstatus.mpp and spp
    epc,        \* mepc, sepc and uepc
    mie,
    mip,
    ideleg,     \* mideleg and sideleg, by the mode that delegates
    edeleg,     \* medeleg and sedeleg
    waiting,    \* suspended in WFI
    wfi_event,  \* a notification of wfi_event is pending
    arrived,    \* history: an interrupt bit was set since the last check
    frame,      \* history: what the last trap into each mode interrupted
    failed      \* the assertion of prepare_trap has failed

status == <<prv, pc, ie, pie, pp, epc>>
deleg == <<ideleg, edeleg>>
vars == <<status, mie, mip, deleg, waiting, wfi_event, arrived, frame, failed>>

NoFrame == <<>>

(* The hart starts in machine mode with all CSRs zero. *)
Init ==
    /\ prv = M
    /\ pc \in Code
    /\ ie = [m \in Mode |-> FALSE]
    /\ pie = [m \in Mode |-> FALSE]
    /\ pp = [m \in {S, M} |-> U]
    /\ epc = [m \in Mode |-> pc]
    /\ mie = {}
    /\ mip = {}
    /\ ideleg = [m \in {S, M} |-> {}]
    /\ edeleg = [m \in {S, M} |-> {}]
    /\ waiting = FALSE
    /\ wfi_event = FALSE
    /\ arrived = FALSE
    /\ frame = [m \in Mode |-> NoFrame]
    /\ failed = FALSE

-----------------------------------------------------------------------------
(* The part of the state an instruction and a trap change, as a record, so *)
(* that a step is the composition of functions on it.                      *)
State == [prv |-> prv, pc |-> pc, ie |-> ie, pie |-> pie, pp |-> pp, epc |-> epc,
          mie |-> mie, mip |-> mip, ideleg |-> ideleg, edeleg |-> edeleg, frame |-> frame]

(* Mutant: the privilege that runs is not considered once interrupts of    *)
(* mode m are enabled.                                                     *)
MayInterruptMutant(st, m) == st.prv < m \/ st.ie[m]

(* An interrupt for mode m is taken in less privileged modes, and in m     *)
(* itself if its interrupts are enabled; user mode's only in user mode.    *)
MayInterrupt(st, m) ==
    IF m = U THEN st.prv = U /\ st.ie[U]
    ELSE st.prv < m \/ (st.prv = m /\ st.ie[m])

(* The pending interrupts by the mode they are delegated to. *)
PendingFor(st, m) ==
    LET pending == st.mie \cap st.mip
    IN  [x \in Mode |->
            IF x = M THEN pending \ st.ideleg[M]
            ELSE IF x = S THEN (pending \cap st.ideleg[M]) \ st.ideleg[S]
            ELSE pending \cap st.ideleg[M] \cap st.ideleg[S]][m]

(* compute_pending_interrupts: the modes an interrupt can be taken to, of  *)
(* which the most privileged wins.                                         *)
Deliverable(st) == {m \in Mode : PendingFor(st, m) # {} /\ MayInterrupt(st, m)}
MostPrivileged(ms) == CHOOSE m \in ms : \A x \in ms : x <= m

(* The width of mstatus.mpp is two bits, of mstatus.spp one bit. *)
Stored(m, mode) == IF m = S THEN mode % 2 ELSE mode

(* switch_to_trap_handler, with the interrupted context kept as history.   *)
Switched(st, m) ==
    [st EXCEPT !.prv = m,
               !.epc[m] = st.pc,
               !.pie[m] = st.ie[m],
               !.ie[m] = FALSE,
               !.pp = [x \in {S, M} |-> IF x = m THEN Stored(m, st.prv) ELSE st.pp[x]],
               !.pc = Tvec[m],
               !.frame[m] = <<st.prv, st.ie[m], st.pc>>]

(* Mutant: an interrupt is only taken by the mode that runs. *)
InterruptedMutant(st) ==
    LET ms == Deliverable(st)
    IN  IF ms = {} \/ MostPrivileged(ms) # st.prv THEN st
        ELSE Switched(st, MostPrivileged(ms))

(* Taking an interrupt, if there is one to take. *)
Interrupted(st) ==
    LET ms == Deliverable(st)
    IN  IF ms = {} THEN st
        ELSE Switched(st, MostPrivileged(ms))

(* Mutant: a trap goes to the lowest mode it is delegated to. *)
TrapModeMutant(st, e) ==
    IF e \notin st.edeleg[M] THEN M
    ELSE IF e \notin st.edeleg[S] THEN S
    ELSE U

(* prepare_trap: the mode that handles exception e. *)
TrapMode(st, e) ==
    IF st.prv = M \/ e \notin st.edeleg[M] THEN M
    ELSE IF st.prv = S \/ e \notin st.edeleg[S] THEN S
    ELSE U

(* prepare_trap asserts that only user mode traps to user mode. *)
TrapAsserts(st, e) == TrapMode(st, e) = U => st.prv = U

(* Mutant: interrupts are enabled after a return, whatever they were. *)
ReturnedMutant(st, m) ==
    [st EXCEPT !.prv = IF m = U THEN U ELSE st.pp[m],
               !.ie[m] = TRUE,
               !.pie[m] = TRUE,
               !.pp = [x \in {S, M} |-> IF x = m THEN U ELSE st.pp[x]],
               !.pc = st.epc[m],
               !.frame[m] = NoFrame]

(* return_from_trap_handler; the hart has user mode. *)
Returned(st, m) ==
    [st EXCEPT !.prv = IF m = U THEN U ELSE st.pp[m],
               !.ie[m] = st.pie[m],
               !.pie[m] = TRUE,
               !.pp = [x \in {S, M} |-> IF x = m THEN U ELSE st.pp[x]],
               !.pc = st.epc[m],
               !.frame[m] = NoFrame]

-----------------------------------------------------------------------------
(* The state after a step whose instruction (and interrupt check) led to st. *)
Becomes(st) ==
    /\ prv' = st.prv
    /\ pc' = st.pc
    /\ ie' = st.ie
    /\ pie' = st.pie
    /\ pp' = st.pp
    /\ epc' = st.epc
    /\ mie' = st.mie
    /\ mip' = st.mip
    /\ ideleg' = st.ideleg
    /\ edeleg' = st.edeleg
    /\ frame' = st.frame

(* The rest of run_step after exec_step returned normally with state st. *)
Finish(st) ==
    /\ Becomes(Interrupted(st))
    /\ arrived' = FALSE
    /\ failed' = FALSE

(* Any instruction without effect on this state: pc moves on. *)
Exec(next) == Finish([State EXCEPT !.pc = next])

(* The instruction raises e: no interrupt is considered in this step. *)
Trap(e) ==
    /\ IF TrapAsserts(State, e)
       THEN Becomes(Switched(State, TrapMode(State, e))) /\ failed' = FALSE
       ELSE Becomes(State) /\ failed' = TRUE
    /\ UNCHANGED arrived

(* MRET, SRET and URET; only SRET in supervisor mode can be disabled, by   *)
(* mstatus.tsr, which raises an illegal instruction exception.             *)
Ret(m) == Finish(Returned(State, m))

(* A write of mstatus, sstatus or ustatus: the bits of the modes up to m   *)
(* take the value written, unchecked.                                      *)
WriteStatus(m, new, next) ==
    /\ prv >= m
    /\ LET pie2 == [x \in Mode |-> IF x <= m THEN new.pie[x] ELSE pie[x]]
           pp2 == [x \in {S, M} |-> IF x <= m THEN Stored(x, new.pp[x]) ELSE pp[x]]
       IN  Finish([State EXCEPT
              !.ie = [x \in Mode |-> IF x <= m THEN new.ie[x] ELSE ie[x]],
              !.pie = pie2,
              !.pp = pp2,
              !.frame = [x \in Mode |->
                  IF pie2[x] = pie[x] /\ (x # U => pp2[x] = pp[x]) THEN frame[x] ELSE NoFrame],
              !.pc = next])

(* A write of mepc, sepc or uepc. *)
WriteEpc(m, loc, next) ==
    /\ prv >= m
    /\ Finish([State EXCEPT !.epc[m] = loc, !.frame[m] = NoFrame, !.pc = next])

(* A write of mie, sie or uie. *)
WriteMie(m, set, next) ==
    /\ prv >= m
    /\ Finish([State EXCEPT !.mie = (mie \ MieMask(m)) \cup set, !.pc = next])

(* A write of mip, sip or uip. *)
WriteMip(m, set, next) ==
    /\ prv >= m
    /\ Finish([State EXCEPT !.mip = (mip \ MipMask(m)) \cup set, !.pc = next])

(* Writes of mideleg or sideleg, and of medeleg or sedeleg. *)
WriteIdeleg(m, set, next) ==
    /\ prv >= m
    /\ Finish([State EXCEPT !.ideleg[m] = set, !.pc = next])

WriteEdeleg(m, set, next) ==
    /\ prv >= m
    /\ Finish([State EXCEPT !.edeleg[m] = set, !.pc = next])

Instruction ==
    \/ \E e \in Exceptions : Trap(e)
    \/ \E m \in TrapModes : Ret(m)
    \/ \E next \in Code :
        \/ Exec(next)
        \/ \E m \in Mode, new \in StatusWrites : WriteStatus(m, new, next)
        \/ \E m \in TrapModes, loc \in Code : WriteEpc(m, loc, next)
        \/ \E m \in Mode : \E set \in SUBSET MieMask(m) : WriteMie(m, set, next)
        \/ \E m \in Mode : \E set \in SUBSET MipMask(m) : WriteMip(m, set, next)
        \/ \E m \in {S, M} : \E set \in SUBSET IntrDelegable[m] : WriteIdeleg(m, set, next)
        \/ \E m \in {S, M} : \E set \in SUBSET ExcDelegable[m] : WriteEdeleg(m, set, next)

(* One step of the hart that does not wait. *)
RunStep ==
    /\ ~waiting
    /\ Instruction
    /\ UNCHANGED <<waiting, wfi_event>>

(* WFI waits unless an enabled interrupt is pending, whatever its mode. *)
Sleeps == ~IgnoreWfi /\ mie \cap mip = {}

(* WFI: a hint in supervisor and machine mode, illegal in user mode.  The  *)
(* thread waits for wfi_event; what was notified before is lost.           *)
Wfi(next) ==
    /\ ~waiting
    /\ prv # U
    /\ IF Sleeps
       THEN /\ waiting' = TRUE
            /\ pc' = next
            /\ UNCHANGED <<prv, ie, pie, pp, epc, mie, mip, deleg, frame, arrived, failed>>
       ELSE /\ UNCHANGED waiting
            /\ Finish([State EXCEPT !.pc = next])
    /\ UNCHANGED wfi_event

(* The delta notification fires: a waiting hart resumes and finishes the   *)
(* step, a hart that does not wait misses it.                              *)
WfiEvent ==
    /\ wfi_event
    /\ wfi_event' = FALSE
    /\ waiting' = FALSE
    /\ IF waiting THEN Finish(State)
       ELSE UNCHANGED <<status, mie, mip, deleg, frame, arrived, failed>>

(* Mutant: the hart is not woken. *)
WakesMutant == wfi_event

(* wfi_event.notify(SC_ZERO_TIME) *)
Wakes == TRUE

(* trigger_external_interrupt, trigger_timer_interrupt(true) and           *)
(* trigger_software_interrupt(true): the controllers raise a line.         *)
Raise(i) ==
    /\ mip' = mip \cup {i}
    /\ wfi_event' = Wakes
    /\ arrived' = TRUE
    /\ UNCHANGED <<status, mie, deleg, waiting, frame, failed>>

(* clear_external_interrupt, and the CLINT's calls with false, which are   *)
(* the only ones that wake the hart.                                       *)
Lower(i) ==
    /\ mip' = mip \ {i}
    /\ wfi_event' = (wfi_event \/ i \in {"mti", "msi"})
    /\ UNCHANGED <<status, mie, deleg, waiting, arrived, frame, failed>>

(* The lines that the CLINT and the PLICs drive. *)
Lines == Intr \cap {"mei", "sei", "uei", "mti", "msi"}

Next ==
    /\ ~failed
    /\ \/ RunStep
       \/ \E next \in Code : Wfi(next)
       \/ WfiEvent
       \/ \E i \in Lines : Raise(i) \/ Lower(i)

Spec == Init /\ [][Next]_vars

-----------------------------------------------------------------------------
(* Properties. *)

(* After a step no interrupt is left that should have been taken, unless   *)
(* its bit was set since: neither a CSR write, nor a return, nor a trap    *)
(* into another mode makes one deliverable without delivering it.          *)
PromptDelivery == Deliverable(State) # {} /\ ~waiting => arrived

(* As long as software leaves the saved context alone, a return from mode m  *)
(* restores exactly what the last trap into m interrupted: privilege,      *)
(* interrupt enable and pc, whatever traps into other modes came between.  *)
(* (The reserved mode 2, in which spp cannot be saved, is left out.)       *)
ReturnRestores ==
    \A m \in Mode : frame[m] # NoFrame /\ frame[m][1] \in Mode =>
        LET st == Returned(State, m)
        IN  <<st.prv, st.ie[m], st.pc>> = frame[m]

(* A trap or an interrupt never lowers the privilege of user, supervisor   *)
(* or machine mode: only a return does.                                    *)
OnlyReturnsLower ==
    [][prv' < prv /\ prv \in Mode => \E m \in Mode : Ret(m)]_vars

(* A waiting hart whose interrupt stays up resumes. *)
WfiWakes == (waiting /\ mie \cap mip # {}) ~> ~waiting

(* assert(prv == UserMode && ...) in prepare_trap, iss.cpp:1645, holds     *)
(* unless software entered the reserved mode 2 by an unchecked write of    *)
(* mstatus.mpp and an MRET.                                                *)
AssertOnlyInReservedMode == failed => prv = H
=============================================================================

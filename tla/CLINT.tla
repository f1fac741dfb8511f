-------------------------------- MODULE CLINT --------------------------------
(***************************************************************************)
(* The core local interruptor (core/common/clint.h): the shared timer      *)
(* mtime, one mtimecmp and one msip register per hart, and the SC_THREAD   *)
(* run() that drives the harts' timer interrupt lines.                     *)
(*                                                                         *)
(* Simulated time `now' is sc_time_stamp(), in units of which Scaler make  *)
(* one mtime tick (10^6 ps in the code).  A hart runs ahead of `now' by up *)
(* to its quantum; every access carries that lead as a delay.  An sc_event *)
(* has room for one pending notification: an earlier one replaces it, a    *)
(* later one is dropped.  Registers and sc_time values are 64 bit wide,    *)
(* differences and sums of sc_time values included: TimeMod is 2^64 in the *)
(* code.                                                                   *)
(***************************************************************************)
EXTENDS Integers

CONSTANTS
    Hart,
    Scaler,         \* time units per mtime tick
    TimeMod,        \* registers and sc_time values are taken modulo TimeMod
    MaxDelay,       \* the largest lead of a hart: quantum and access delay
    CmpValues,      \* the mtimecmp values software writes
    MtimeWrites,    \* the values software writes to mtime
    MaxTime         \* bound of simulated time

CmpMax == TimeMod - 1   \* UINT64_MAX: software's "never"

ASSUME CLINTAssumption ==
    /\ Scaler \in Nat \ {0}
    /\ TimeMod \in Nat \ {0}
    /\ MaxDelay \in Nat
    /\ MaxTime \in 0 .. CmpMax     \* sc_time_stamp() has not wrapped around
    /\ CmpValues \subseteq 0 .. CmpMax
    /\ MtimeWrites \subseteq 0 .. CmpMax

VARIABLES
    now,        \* sc_time_stamp()
    mtime,
    mtimecmp,
    msip,
    irq_event,  \* when the pending notification of irq_event is due, or None
    mtip,       \* the timer interrupt line of each hart (mip.mtip)
    swip,       \* the software interrupt line of each hart (mip.msip)
    written,    \* history: when the last write of mtimecmp takes effect
    mtime_set   \* history: software has written mtime

vars == <<now, mtime, mtimecmp, msip, irq_event, mtip, swip, written, mtime_set>>

None == -1

TypeOK ==
    /\ now \in 0 .. MaxTime
    /\ mtime \in Nat
    /\ mtimecmp \in [Hart -> 0 .. CmpMax]
    /\ msip \in [Hart -> {0, 1}]
    /\ irq_event \in Nat \cup {None}
    /\ mtip \in [Hart -> BOOLEAN]
    /\ swip \in [Hart -> BOOLEAN]
    /\ written \in [Hart -> Nat]
    /\ mtime_set \in BOOLEAN

(* The registers are zeroed memory, the harts' mip bits are clear. *)
Init ==
    /\ now = 0
    /\ mtime = 0
    /\ mtimecmp = [h \in Hart |-> 0]
    /\ msip = [h \in Hart |-> 0]
    /\ irq_event = None
    /\ mtip = [h \in Hart |-> FALSE]
    /\ swip = [h \in Hart |-> FALSE]
    /\ written = [h \in Hart |-> 0]
    /\ mtime_set = FALSE

-----------------------------------------------------------------------------
(* Of several notifications an sc_event keeps the earliest. *)
Earliest(S) == IF S = {} THEN None ELSE CHOOSE a \in S : \A b \in S : a <= b

(* When an event notified with this delay fires: the kernel adds the delay *)
(* to sc_time_stamp(), modulo 2^64, and an event it finds in the past fires *)
(* at the current time.                                                    *)
At(delay) ==
    LET sum == (now + delay) % TimeMod
    IN  IF sum < now THEN now ELSE sum

(* sc_event::notify for the time `at'. *)
Notified(at) == Earliest({irq_event, at} \ {None})

(* update_and_get_mtime(): never backward in time. *)
UpdatedMtime == IF now \div Scaler > mtime THEN now \div Scaler ELSE mtime

(* Mutant: the interrupt is due only after mtimecmp. *)
ExpiredMutant(cmp, t) == cmp > 0 /\ t > cmp

(* "mtime >= mtimecmp and mtimecmp != 0" *)
Expired(cmp, t) == cmp > 0 /\ t >= cmp

(* run() re-arms irq_event for a compare value that lies ahead. *)
Armed(cmp, t) == cmp > 0 /\ cmp < CmpMax /\ ~Expired(cmp, t)

(* Mutant: one tick too many. *)
DueMutant(cmp, t) == At(((cmp + 1 - t) * Scaler) % TimeMod)

(* irq_event.notify(goal - time), both products taken modulo 2^64. *)
Due(cmp, t) == At(((cmp - t) * Scaler) % TimeMod)

(* run(), woken by irq_event: bring mtime up to date, set or clear every   *)
(* hart's line, and notify for every compare value ahead.                  *)
Run ==
    LET t == UpdatedMtime
        ahead == {h \in Hart : Armed(mtimecmp[h], t)}
    IN
    /\ irq_event = now
    /\ mtime' = t
    /\ mtip' = [h \in Hart |-> Expired(mtimecmp[h], t)]
    /\ irq_event' = Earliest({Due(mtimecmp[h], t) : h \in ahead})
    /\ UNCHANGED <<now, mtimecmp, msip, swip, written, mtime_set>>

(* A hart reads mtime over the bus: pre_read_mtime. *)
ReadMtime(d) ==
    /\ mtime' = ((now + d) % TimeMod) \div Scaler
    /\ UNCHANGED <<now, mtimecmp, msip, irq_event, mtip, swip, written, mtime_set>>

(* A hart reads the time CSR, mapped to update_and_get_mtime. *)
ReadTimeCsr ==
    /\ mtime' = UpdatedMtime
    /\ UNCHANGED <<now, mtimecmp, msip, irq_event, mtip, swip, written, mtime_set>>

(* regs_mtime is an ordinary register without write callback. *)
WriteMtime(v) ==
    /\ mtime' = v
    /\ mtime_set' = TRUE
    /\ UNCHANGED <<now, mtimecmp, msip, irq_event, mtip, swip, written>>

(* Mutant: only a compare value to wait for wakes up run(). *)
WriteMtimecmpMutant(h, v, d) ==
    /\ mtimecmp' = [mtimecmp EXCEPT ![h] = v]
    /\ irq_event' = IF v \in {0, CmpMax} THEN irq_event ELSE Notified(At(d))
    /\ written' = [written EXCEPT ![h] = now + d]
    /\ UNCHANGED <<now, mtime, msip, mtip, swip, mtime_set>>

(* A write of mtimecmp (or of one half of it) and post_write_mtimecmp.     *)
WriteMtimecmp(h, v, d) ==
    /\ mtimecmp' = [mtimecmp EXCEPT ![h] = v]
    /\ irq_event' = Notified(At(d))
    /\ written' = [written EXCEPT ![h] = now + d]
    /\ UNCHANGED <<now, mtime, msip, mtip, swip, mtime_set>>

(* Only bit 0 of msip is implemented. *)
Masked(v) == v % 2

(* A word write of msip and post_write_msip. *)
WriteMsip(h, v) ==
    /\ msip' = [msip EXCEPT ![h] = Masked(v)]
    /\ swip' = [swip EXCEPT ![h] = Masked(v) # 0]
    /\ UNCHANGED <<now, mtime, mtimecmp, irq_event, mtip, written, mtime_set>>

(* Simulated time passes; the kernel fires due events first. *)
Tick ==
    /\ irq_event # now
    /\ now < MaxTime
    /\ now' = now + 1
    /\ UNCHANGED <<mtime, mtimecmp, msip, irq_event, mtip, swip, written, mtime_set>>

Next ==
    \/ Run
    \/ Tick
    \/ ReadTimeCsr
    \/ \E d \in 0 .. MaxDelay : ReadMtime(d)
    \/ \E v \in MtimeWrites : WriteMtime(v)
    \/ \E h \in Hart, v \in CmpValues, d \in 0 .. MaxDelay : WriteMtimecmp(h, v, d)
    \/ \E h \in Hart, v \in 0 .. 3 : WriteMsip(h, v)

Spec == Init /\ [][Next]_vars

-----------------------------------------------------------------------------
(* Properties. *)

(* A compare value the timer has to wait for never goes without a wake-up: *)
(* whatever the other harts write, the single pending notification of      *)
(* irq_event covers it, and run() re-arms it for every hart.               *)
TimerArmed ==
    \A h \in Hart :
        mtimecmp[h] > 0 /\ mtimecmp[h] < CmpMax /\ ~mtip[h] => irq_event # None

(* The timer interrupt is never late: by the end of the tick of the compare *)
(* value, or as soon as the write of it takes effect if that is later, the  *)
(* line is up, whatever the other harts wrote or read in between.           *)
TimerNotLate ==
    \A h \in Hart :
        /\ mtimecmp[h] > 0 /\ mtimecmp[h] < CmpMax
        /\ now > mtimecmp[h] * Scaler + Scaler - 1
        /\ now > written[h]
        => mtip[h]

(* The strengthening that makes TimerNotLate inductive: no event is overdue, *)
(* and the pending one comes in time for every hart that waits.             *)
WakeInTime ==
    /\ irq_event # None => now <= irq_event
    /\ \A h \in Hart :
        mtimecmp[h] > 0 /\ mtimecmp[h] < CmpMax /\ ~mtip[h] =>
            /\ irq_event # None
            /\ \/ irq_event <= mtimecmp[h] * Scaler + Scaler - 1
               \/ irq_event <= written[h]

(* An asserted line is justified by simulated time plus the lead of one    *)
(* hart, or run() is about to process the write that made it stale; this   *)
(* holds although the delay of a distant compare value wraps around.       *)
TimerNotEarly ==
    \A h \in Hart :
        mtip[h] /\ ~mtime_set =>
            \/ mtimecmp[h] > 0 /\ now + MaxDelay >= mtimecmp[h] * Scaler
            \/ irq_event # None /\ irq_event <= now + MaxDelay

(* Until software writes it, mtime is a clock that follows simulated time  *)
(* and is at most the lead of one hart ahead of it ("mtime is a read-only  *)
(* 64 bit timer register", clint.h:20, although a store changes it).       *)
MtimeFollowsTime == ~mtime_set => mtime * Scaler <= now + MaxDelay

(* run() re-arms itself for the same instant, which keeps simulated time   *)
(* from advancing, only on account of a hart that waits for a tick beyond  *)
(* the end of the 64 bit time: the distance may overflow, or only its sum  *)
(* with the current time ("the software is responsible to ensure that no   *)
(* overflow occurs", clint.h:27).                                          *)
RunAdvances ==
    [][Run /\ irq_event' = now =>
        \E h \in Hart : /\ mtimecmp[h] > mtime' /\ mtimecmp[h] < CmpMax
                        /\ (mtimecmp[h] + 1) * Scaler > TimeMod]_vars
=============================================================================

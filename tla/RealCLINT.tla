------------------------------ MODULE RealCLINT ------------------------------
(* The CLINT that follows the host's clock (core/common/real_clint.cpp) and  *)
(* its timers (timer.cpp): one host thread for each compare value that lies  *)
(* ahead, which sleeps, and then notifies the SC_METHOD interrupt() through  *)
(* an AsyncEvent. Host time passes whenever it likes: a thread that is due   *)
(* may be late, and a notification waits for the kernel's update phase.      *)
EXTENDS Integers

CONSTANTS Hart,
          DIVIDEND,     \* microseconds per tick of mtime
          CmpValues,    \* the mtimecmp values software writes
          MaxUsec       \* bound of host time

VARIABLES
    usec,      \* microseconds since first_mtime
    mtime, mtimecmp, msip,
    timer,     \* the thread of each hart's Timer: its state and when it is due
    event,     \* the AsyncEvent has been notified
    mtip,      \* the timer interrupt line of each hart
    swip,      \* the software interrupt line of each hart
    written    \* history: software has set mtimecmp

vars == <<usec, mtime, mtimecmp, msip, timer, event, mtip, swip, written>>

Off == [state |-> "off", due |-> 0]

(* Zeroed registers, and timers that do not run. *)
Init ==
    /\ usec = 0 /\ mtime = 0
    /\ mtimecmp = [h \in Hart |-> 0]
    /\ msip = [h \in Hart |-> 0]
    /\ timer = [h \in Hart |-> Off]
    /\ event = FALSE
    /\ mtip = [h \in Hart |-> FALSE]
    /\ swip = [h \in Hart |-> FALSE]
    /\ written = [h \in Hart |-> FALSE]

usec_to_ticks(us) == us \div DIVIDEND

(* Mutant: the compare value's tick is counted as over when it begins. *)
ticks_to_usecMutant(ticks) == (ticks - 1) * DIVIDEND

ticks_to_usec(ticks) == ticks * DIVIDEND

(* update_and_get_mtime. *)
UpdatedMtime == usec_to_ticks(usec)

-----------------------------------------------------------------------------
Tick ==
    /\ usec < MaxUsec
    /\ usec' = usec + 1
    /\ UNCHANGED <<mtime, mtimecmp, msip, timer, event, mtip, swip, written>>

(* The thread comes back from its last nanosleep. *)
Wake(h) ==
    /\ timer[h].state = "sleep" /\ timer[h].due <= usec
    /\ timer' = [timer EXCEPT ![h].state = "woken"]
    /\ UNCHANGED <<usec, mtime, mtimecmp, msip, event, mtip, swip, written>>

(* It calls timercb, and ends; running stays set. *)
Callback(h) ==
    /\ timer[h].state = "woken"
    /\ timer' = [timer EXCEPT ![h].state = "ended"]
    /\ event' = TRUE
    /\ UNCHANGED <<usec, mtime, mtimecmp, msip, mtip, swip, written>>

(* Timer::pause cancels and joins the thread: nanosleep is the only        *)
(* cancellation point, so a thread that has woken still notifies.          *)
PausedEvent(h) == event \/ timer[h].state = "woken"

(* A write of mtimecmp, and post_write_mtimecmp. *)
WriteMtimecmp(h, cmp) ==
    LET time == UpdatedMtime
        reached == time >= cmp
    IN /\ mtimecmp' = [mtimecmp EXCEPT ![h] = cmp]
       /\ mtime' = time
       /\ event' = PausedEvent(h)
       /\ mtip' = [mtip EXCEPT ![h] = reached]
       /\ timer' = [timer EXCEPT ![h] =
                      IF reached THEN Off
                      ELSE [state |-> "sleep", due |-> usec + ticks_to_usec(cmp - time)]]
       /\ written' = [written EXCEPT ![h] = TRUE]
       /\ UNCHANGED <<usec, msip, swip>>

(* interrupt(), on the event. *)
Interrupt ==
    /\ event
    /\ mtime' = UpdatedMtime
    /\ mtip' = [h \in Hart |-> mtip[h] \/ UpdatedMtime >= mtimecmp[h]]
    /\ event' = FALSE
    /\ UNCHANGED <<usec, mtimecmp, msip, timer, swip, written>>

(* pre_read_mtime, and the time CSR. *)
ReadMtime ==
    /\ mtime' = UpdatedMtime
    /\ UNCHANGED <<usec, mtimecmp, msip, timer, event, mtip, swip, written>>

(* A store to mtime changes the register until it is brought up to date.   *)
WriteMtime(v) ==
    /\ mtime' = v
    /\ UNCHANGED <<usec, mtimecmp, msip, timer, event, mtip, swip, written>>

WriteMsip(h, v) ==
    /\ msip' = [msip EXCEPT ![h] = v % 2]
    /\ swip' = [swip EXCEPT ![h] = v % 2 # 0]
    /\ UNCHANGED <<usec, mtime, mtimecmp, timer, event, mtip, written>>

Next ==
    \/ Tick
    \/ \E h \in Hart : Wake(h) \/ Callback(h)
    \/ \E h \in Hart, cmp \in CmpValues : WriteMtimecmp(h, cmp)
    \/ Interrupt
    \/ ReadMtime
    \/ \E v \in CmpValues : WriteMtime(v)
    \/ \E h \in Hart, v \in {1, 2} : WriteMsip(h, v)

Spec == Init /\ [][Next]_vars

-----------------------------------------------------------------------------
(* The timer interrupt of the real-time CLINT: a line that is up belongs   *)
(* to a compare value that has been reached, whichever late callback of an *)
(* older value raised it; and a compare value that is reached while the    *)
(* line is down has its thread or its notification on the way, and the     *)
(* thread is due within the tick, never before it.                         *)
RealTimerExact ==
    \A h \in Hart :
        LET start == mtimecmp[h] * DIVIDEND
        IN /\ mtip[h] => start <= usec
           /\ written[h] /\ ~mtip[h] =>
                \/ event /\ start <= usec
                \/ /\ timer[h].state \in {"sleep", "woken"}
                   /\ start <= timer[h].due /\ timer[h].due < start + DIVIDEND
=============================================================================

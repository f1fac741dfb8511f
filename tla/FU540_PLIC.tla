----------------------------- MODULE FU540_PLIC -----------------------------
(***************************************************************************)
(* The platform-level interrupt controller of the linux platforms          *)
(* (platform/common/fu540_plic.cpp) for several harts, with the interrupt  *)
(* handlers of the operating system as its environment.                    *)
(*                                                                         *)
(* A context is a hart and a privilege level; hart 0 has only machine      *)
(* mode.  Unlike the FE310 controller this one keeps no view of the lines: *)
(* run() raises them, a completion lowers the completing context's line,   *)
(* whatever else is pending.  The handlers therefore claim until the claim *)
(* returns 0, completing each interrupt in turn.                           *)
(***************************************************************************)
EXTENDS Integers

CONSTANTS
    Hart,           \* hart ids, a set of naturals
    NumIrq,         \* NUMIRQ, positive
    MaxPrio,        \* MAX_PRIO and MAX_THR, positive
    Wired,          \* the interrupts that peripherals trigger, below NumIrq
    UsedContexts    \* the contexts for which software enables interrupts

Irq == 1 .. NumIrq
Context == {c \in Hart \X {"M", "S"} : c[1] = 0 => c[2] = "M"}

VARIABLES
    interrupt_priorities,   \* the register array, from index 0 on
    pending_interrupts,
    enabled_irqs,
    threshold,
    line,           \* mip.meip and mip.seip of each hart, by context
    e_run,          \* a notification of e_run is pending
    handler,        \* what each context's interrupt handler does
    unchecked       \* history: pending when the configuration was written

config == <<interrupt_priorities, enabled_irqs, threshold>>
vars == <<config, pending_interrupts, line, e_run, handler, unchecked>>

Init ==
    /\ interrupt_priorities = [i \in 0 .. NumIrq - 1 |-> 0]
    /\ pending_interrupts = {}
    /\ enabled_irqs = [c \in Context |-> {}]
    /\ threshold = [c \in Context |-> 0]
    /\ line = [c \in Context |-> FALSE]
    /\ e_run = FALSE
    /\ handler = [c \in Context |-> "idle"]
    /\ unchecked = {}

-----------------------------------------------------------------------------
(* The priority next_pending_irq takes for interrupt i. *)
Prio(i) == interrupt_priorities[i]

(* The loop body's tests for interrupt i. *)
Eligible(c, i, ignth) ==
    /\ i \in enabled_irqs[c]
    /\ i \in pending_interrupts
    /\ Prio(i) > 0
    /\ ignth \/ Prio(i) >= threshold[c]

(* next_pending_irq: the loop over all interrupts, keeping the best so far. *)
NextPendingIrq(c, ignth) ==
    LET scan[i \in 0 .. NumIrq] ==
            IF i = 0 THEN 0
            ELSE LET best == scan[i - 1]
                 IN  IF Eligible(c, i, ignth) /\ (best = 0 \/ Prio(i) > Prio(best))
                     THEN i
                     ELSE best
    IN  scan[NumIrq]

HasPendingIrq(c) == NextPendingIrq(c, FALSE) > 0

(* Mutant: the machine mode context is not considered. *)
SignalledMutant(h) == {c \in {<<h, "S">>} : h # 0 /\ HasPendingIrq(c)}

(* has_pending_irq: the context of hart h to signal, supervisor mode first. *)
Signalled(h) ==
    IF h # 0 /\ HasPendingIrq(<<h, "S">>) THEN {<<h, "S">>}
    ELSE {c \in {<<h, "M">>} : HasPendingIrq(c)}

(* e_run.notify(clock_cycle). *)
Woken == TRUE

(* gateway_trigger_interrupt, called by a peripheral. *)
Trigger(i) ==
    /\ pending_interrupts' = pending_interrupts \cup {i}
    /\ e_run' = Woken
    /\ unchecked' = unchecked \ {i}
    /\ UNCHANGED <<config, line, handler>>

(* run(), woken by e_run. *)
Run ==
    /\ e_run
    /\ e_run' = FALSE
    /\ line' = [c \in Context |-> line[c] \/ c \in Signalled(c[1])]
    /\ unchecked' = {}
    /\ UNCHANGED <<config, pending_interrupts, handler>>

(* What a claim returns: the threshold is ignored. *)
Claimed(c) == NextPendingIrq(c, TRUE)

(* The handler reads the claim register: read_hartctx.  It runs when the   *)
(* context's interrupt is up, and leaves when there is nothing to claim.   *)
Claim(c) ==
    /\ \/ handler[c] = "idle" /\ line[c]
       \/ handler[c] = "draining"
    /\ pending_interrupts' = pending_interrupts \ {Claimed(c)}
    /\ handler' = [handler EXCEPT ![c] = IF Claimed(c) = 0 THEN "idle" ELSE "serving"]
    /\ UNCHANGED <<config, line, e_run, unchecked>>

(* The handler writes the claim register: write_hartctx. *)
Complete(c) ==
    /\ handler[c] = "serving"
    /\ line' = [line EXCEPT ![c] = FALSE]
    /\ handler' = [handler EXCEPT ![c] = "draining"]
    /\ UNCHANGED <<config, pending_interrupts, e_run, unchecked>>

(* std::min with MAX_PRIO, std::min with MAX_THR *)
Clamped(v) == IF v <= MaxPrio THEN v ELSE MaxPrio

(* Software writes the priority register of interrupt i, at address 4 * i  *)
(* of an array that starts at address 4: write_irq_prios.                  *)
WritePriority(i, v) ==
    /\ interrupt_priorities' = [interrupt_priorities EXCEPT ![i - 1] = Clamped(v)]
    /\ unchecked' = unchecked \cup pending_interrupts
    /\ UNCHANGED <<enabled_irqs, threshold, pending_interrupts, line, e_run, handler>>

(* Software writes the threshold of a context: write_hartctx. *)
WriteThreshold(c, v) ==
    /\ threshold' = [threshold EXCEPT ![c] = Clamped(v)]
    /\ unchecked' = unchecked \cup pending_interrupts
    /\ UNCHANGED <<interrupt_priorities, enabled_irqs, pending_interrupts, line, e_run, handler>>

(* Software writes the enable bits of a context: no callback. *)
WriteEnable(c, E) ==
    /\ enabled_irqs' = [enabled_irqs EXCEPT ![c] = E]
    /\ unchecked' = unchecked \cup pending_interrupts
    /\ UNCHANGED <<interrupt_priorities, threshold, pending_interrupts, line, e_run, handler>>

Next ==
    \/ \E i \in Wired : Trigger(i)
    \/ Run
    \/ \E c \in Context : Claim(c) \/ Complete(c)
    \/ \E i \in Irq, v \in 0 .. MaxPrio + 1 : WritePriority(i, v)
    \/ \E c \in UsedContexts, v \in 0 .. MaxPrio + 1 : WriteThreshold(c, v)
    \/ \E c \in UsedContexts, E \in SUBSET Wired : WriteEnable(c, E)

Spec == Init /\ [][Next]_vars

-----------------------------------------------------------------------------
(* Properties. *)

(* An interrupt a context should see is signalled, about to be signalled,  *)
(* or will be found by the handler that is running; it is not lost between *)
(* the trigger and the unconditional lowering of the line at completion.   *)
(* (Software uses one context per hart, and the interrupt did not become   *)
(* eligible by a write of the configuration.)                              *)
NoLostInterrupt ==
    \A c \in Context, i \in Irq \ unchecked :
        Eligible(c, i, FALSE) => line[c] \/ e_run \/ handler[c] # "idle"

(* "Returns next enabled pending interrupt with highest priority",         *)
(* fu540_plic.cpp:180: no enabled pending interrupt has a higher value in  *)
(* its priority register than the one returned.                            *)
HighestPriority ==
    \A c \in Context, i \in Wired :
        LET Register(irq) == interrupt_priorities[irq - 1]
            best == NextPendingIrq(c, TRUE)
        IN  i \in enabled_irqs[c] \cap pending_interrupts /\ Register(i) > 0
                => best # 0 /\ Register(best) >= Register(i)
=============================================================================

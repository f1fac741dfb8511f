----------------------------- MODULE FE310_PLIC -----------------------------
(***************************************************************************)
(* The platform-level interrupt controller of the basic and hifive         *)
(* platforms (platform/common/fe310_plic.h), which both instantiate for    *)
(* one hart, with the software of that hart as its environment.            *)
(*                                                                         *)
(* A peripheral sets a pending bit and notifies e_run; the thread run()    *)
(* wakes one clock cycle later and raises the hart's external interrupt.   *)
(* Software claims an interrupt by reading claim_response and completes it *)
(* by writing the register back.  It claims one interrupt at a time: from  *)
(* the interrupt handler, when the line is up, or with Polling at any time *)
(* (for instance in a loop that serves all pending interrupts); a handler  *)
(* completes also the claim that returned 0.                               *)
(***************************************************************************)
EXTENDS Integers, FiniteSets

CONSTANTS
    NumberInterrupts,
    MaxPriority,
    Polling         \* BOOLEAN: software claims while the line is down

ASSUME PLICAssumption ==
    /\ NumberInterrupts \in Nat \ {0}
    /\ MaxPriority \in Nat \ {0}
    /\ Polling \in BOOLEAN

Irq == 1 .. NumberInterrupts - 1    \* interrupt 0 is reserved

VARIABLES
    interrupt_priorities,
    pending_interrupts,         \* the set of pending bits
    hart_enabled_interrupts,    \* the set of enable bits
    priority_threshold,
    claim_response,
    hart_eip,
    e_run,          \* a notification of e_run is pending
    meip,           \* the external interrupt bit of the hart (mip.meip)
    serving,        \* software has claimed and not yet completed
    unchecked,      \* history: pending when the configuration was written
    failed          \* assert(hart_eip[idx]) has failed

config == <<interrupt_priorities, hart_enabled_interrupts, priority_threshold>>
vars == <<config, pending_interrupts, claim_response, hart_eip, e_run, meip,
          serving, unchecked, failed>>

Init ==
    /\ interrupt_priorities = [i \in Irq |-> 1]
    /\ pending_interrupts = {}
    /\ hart_enabled_interrupts = {}
    /\ priority_threshold = 0
    /\ claim_response = 0
    /\ hart_eip = FALSE
    /\ e_run = FALSE
    /\ meip = FALSE
    /\ serving = FALSE
    /\ unchecked = {}
    /\ failed = FALSE

-----------------------------------------------------------------------------
(* The test of the loop body for interrupt i. *)
Eligible(i, consider_threshold) ==
    /\ i \in hart_enabled_interrupts
    /\ i \in pending_interrupts
    /\ interrupt_priorities[i] > 0
    /\ consider_threshold => interrupt_priorities[i] > priority_threshold

(* Mutant: of equal priorities the last interrupt wins. *)
OutranksMutant(i, best) == best = 0 \/ interrupt_priorities[i] >= interrupt_priorities[best]

(* "prio > max_priority" *)
Outranks(i, best) == best = 0 \/ interrupt_priorities[i] > interrupt_priorities[best]

(* hart_get_next_pending_interrupt: the loop over all interrupts, keeping  *)
(* the best so far.                                                        *)
NextPending(consider_threshold) ==
    LET scan[i \in 0 .. NumberInterrupts - 1] ==
            IF i = 0 THEN 0
            ELSE IF Eligible(i, consider_threshold) /\ Outranks(i, scan[i - 1])
                 THEN i
                 ELSE scan[i - 1]
    IN  scan[NumberInterrupts - 1]

(* hart_has_pending_enabled_interrupts; ScanFindsBest relates it to the loop. *)
HasPending == \E i \in Irq : Eligible(i, TRUE)

(* Mutant: the thread is not woken. *)
WokenMutant == e_run

(* e_run.notify(clock_cycle). *)
Woken == TRUE

(* gateway_trigger_interrupt, called by a peripheral. *)
Trigger(i) ==
    /\ pending_interrupts' = pending_interrupts \cup {i}
    /\ e_run' = Woken
    /\ unchecked' = unchecked \ {i}
    /\ UNCHANGED <<config, claim_response, hart_eip, meip, serving, failed>>

(* run(), woken by e_run. *)
Run ==
    /\ e_run
    /\ e_run' = FALSE
    /\ hart_eip' = (hart_eip \/ HasPending)
    /\ meip' = (meip \/ (~hart_eip /\ HasPending))
    /\ unchecked' = {}
    /\ UNCHANGED <<config, pending_interrupts, claim_response, serving, failed>>

(* A claim leaves the interrupt line alone. *)
ClaimedEip == hart_eip

(* Software reads claim_response: pre_read_hart_config.  The threshold is  *)
(* not considered; clearing interrupt 0 has no effect.                     *)
Claim ==
    /\ ~serving
    /\ Polling \/ meip
    /\ claim_response' = NextPending(FALSE)
    /\ pending_interrupts' = pending_interrupts \ {NextPending(FALSE)}
    /\ hart_eip' = ClaimedEip
    /\ serving' = (meip \/ NextPending(FALSE) # 0)
    /\ UNCHANGED <<config, e_run, meip, unchecked, failed>>

(* Mutant: the line is lowered although another interrupt is pending. *)
CompletedEipMutant == FALSE

(* The interrupt line after a completion. *)
CompletedEip == HasPending

(* Software writes claim_response back: post_write_hart_config, which      *)
(* ignores the interrupt id.                                               *)
Complete ==
    /\ serving
    /\ IF HasPending /\ ~hart_eip
       THEN failed' = TRUE /\ UNCHANGED <<hart_eip, meip>>
       ELSE failed' = FALSE /\ hart_eip' = CompletedEip /\ meip' = CompletedEip
    /\ serving' = FALSE
    /\ unchecked' = {}
    /\ UNCHANGED <<config, pending_interrupts, claim_response, e_run>>

(* std::min(x, MaxPriority) *)
Clamped(prio) == IF prio <= MaxPriority THEN prio ELSE MaxPriority

(* Software writes a priority register: post_write_interrupt_priorities.   *)
WritePriority(i, prio) ==
    /\ interrupt_priorities' = [interrupt_priorities EXCEPT ![i] = Clamped(prio)]
    /\ unchecked' = unchecked \cup pending_interrupts
    /\ UNCHANGED <<hart_enabled_interrupts, priority_threshold, pending_interrupts,
                   claim_response, hart_eip, e_run, meip, serving, failed>>

(* Software writes the enable bits: no callback, no notification. *)
WriteEnable(E) ==
    /\ hart_enabled_interrupts' = E
    /\ unchecked' = unchecked \cup pending_interrupts
    /\ UNCHANGED <<interrupt_priorities, priority_threshold, pending_interrupts,
                   claim_response, hart_eip, e_run, meip, serving, failed>>

(* Software writes the threshold: post_write_hart_config returns at once. *)
WriteThreshold(t) ==
    /\ priority_threshold' = t
    /\ unchecked' = unchecked \cup pending_interrupts
    /\ UNCHANGED <<interrupt_priorities, hart_enabled_interrupts, pending_interrupts,
                   claim_response, hart_eip, e_run, meip, serving, failed>>

Configure ==
    \/ \E i \in Irq, prio \in 0 .. MaxPriority + 1 : WritePriority(i, prio)
    \/ \E E \in SUBSET Irq : WriteEnable(E)
    \/ \E t \in 0 .. MaxPriority : WriteThreshold(t)

Next ==
    /\ ~failed      \* an assertion failure ends the simulation
    /\ \/ \E i \in Irq : Trigger(i)
       \/ Run
       \/ Claim
       \/ Complete
       \/ Configure

Spec == Init /\ [][Next]_vars

-----------------------------------------------------------------------------
(* Properties. *)

(* The loop returns the enabled pending interrupt with the highest         *)
(* priority, of equal ones the first, and 0 exactly if there is none: what *)
(* run() and the completion decide is what the claim then returns.         *)
ScanFindsBest ==
    \A consider \in BOOLEAN :
        LET S == {i \in Irq : Eligible(i, consider)}
            best == NextPending(consider)
        IN  /\ best = 0 <=> S = {}
            /\ best # 0 =>
                /\ best \in S
                /\ \A i \in S : \/ interrupt_priorities[i] < interrupt_priorities[best]
                                \/ /\ interrupt_priorities[i] = interrupt_priorities[best]
                                   /\ best <= i

(* An interrupt that should interrupt the hart is signalled or about to be *)
(* signalled, unless it became eligible by a write of the configuration:   *)
(* enable, priority and threshold writes do not wake run().                *)
NoLostInterrupt ==
    (\E i \in Irq \ unchecked : Eligible(i, TRUE)) => hart_eip \/ e_run \/ failed

(* assert(hart_eip[idx]), fe310_plic.h:170: a completion that finds another *)
(* interrupt pending finds the line up.                                    *)
CompletionFindsLineUp == ~failed

(* The strengthening of CompletionFindsLineUp for handler software: the    *)
(* hart sees the line as the controller keeps it, and the line stays up    *)
(* from the claim to the completion.                                       *)
ServingLineUp == meip = hart_eip /\ (serving => hart_eip)

(* Such an interrupt is served: it leads to a claim, or the configuration  *)
(* changes first.                                                          *)
InterruptServed ==
    \A i \in Irq :
        (i \notin unchecked /\ Eligible(i, TRUE))
            ~> (serving \/ ~Eligible(i, TRUE) \/ i \in unchecked)
=============================================================================

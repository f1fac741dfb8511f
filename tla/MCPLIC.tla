------------------------------- MODULE MCPLIC -------------------------------
(* Model checking of the two interrupt controllers. A platform has one of    *)
(* them: `plic' says which; the other stays in its initial state.            *)
EXTENDS FE310_PLIC

CONSTANTS Hart, NumIrq, MaxPrio, Wired, UsedContexts

VARIABLES plic, priorities, pending, enabled, threshold, line, e_run2, handler, unchecked2

fu540Vars == <<priorities, pending, enabled, threshold, line, e_run2, handler, unchecked2>>

FU540 == INSTANCE FU540_PLIC WITH
            interrupt_priorities <- priorities, pending_interrupts <- pending,
            enabled_irqs <- enabled, e_run <- e_run2, unchecked <- unchecked2

(* The operating system uses one context of each hart. *)
ASSUME FU540Assumption ==
    /\ NumIrq \in Nat \ {0}
    /\ MaxPrio \in Nat \ {0}
    /\ Wired \subseteq 1 .. NumIrq - 1
    /\ UsedContexts \subseteq FU540!Context
    /\ \A c, d \in UsedContexts : c[1] = d[1] => c = d

(* Machine mode on the monitor hart, supervisor mode on the other. *)
TwoContexts == {<<0, "M">>, <<1, "S">>}

MCInit == plic \in {"FE310", "FU540"} /\ Init /\ FU540!Init

MCNext ==
    /\ \/ plic = "FE310" /\ Next /\ UNCHANGED fu540Vars
       \/ plic = "FU540" /\ FU540!Next /\ UNCHANGED vars
    /\ UNCHANGED plic

(* The kernel runs the woken thread; the handler claims and completes. *)
MCSpec ==
    /\ MCInit
    /\ [][MCNext]_<<plic, vars, fu540Vars>>
    /\ WF_vars(plic = "FE310" /\ ~failed /\ Run)
    /\ WF_vars(plic = "FE310" /\ ~failed /\ Claim)
    /\ WF_vars(plic = "FE310" /\ ~failed /\ Complete)

(* In the FU540 controller too, an interrupt a context should see is       *)
(* signalled, about to be, or will be found by the handler that runs.      *)
FU540NoLostInterrupt == FU540!NoLostInterrupt
=============================================================================

----------------------------- MODULE HartState ------------------------------
(* The registers of a hart with its floating point unit and its MMU, which   *)
(* share mstatus: FS, SUM, MXR, MPRV and TVM.                                *)
EXTENDS FPU, MMU

VARIABLE steps      \* the steps taken, at most use.steps

vars == <<csrVars, fpuVars, mmuVars, steps>>

Init == CsrInit /\ FpuInit /\ MmuInit /\ steps = 0

Next ==
    /\ steps < use.steps
    /\ steps' = steps + 1
    /\ \/ CsrNext /\ FpuFollowsCsr /\ MmuFollowsCsr
       \/ FpuNext /\ UNCHANGED mmuVars
       \/ MmuNext /\ UNCHANGED fpuVars

Spec == Init /\ [][Next]_vars
=============================================================================

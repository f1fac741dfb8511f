------------------------------ MODULE MCTimers -------------------------------
(* Model checking of the two CLINTs of the platforms. A platform has one of  *)
(* them: `clint' says which; the other stays in its initial state.           *)
EXTENDS CLINT

CONSTANTS Dividend, RealCmpValues, MaxUsec

ASSUME RealAssumption == Dividend \in Nat /\ Dividend > 0 /\ RealCmpValues \subseteq Nat

VARIABLES clint, rusec, rmtime, rmtimecmp, rmsip, rtimer, revent, rmtip, rswip, rwritten

realVars == <<rusec, rmtime, rmtimecmp, rmsip, rtimer, revent, rmtip, rswip, rwritten>>

Real == INSTANCE RealCLINT WITH
            DIVIDEND <- Dividend, CmpValues <- RealCmpValues, usec <- rusec, mtime <- rmtime,
            mtimecmp <- rmtimecmp, msip <- rmsip, timer <- rtimer, event <- revent, mtip <- rmtip,
            swip <- rswip, written <- rwritten

MCInit == clint \in {"simulated", "real"} /\ Init /\ Real!Init

MCNext ==
    /\ \/ clint = "simulated" /\ Next /\ UNCHANGED realVars
       \/ clint = "real" /\ Real!Next /\ UNCHANGED vars
    /\ UNCHANGED clint

MCSpec == MCInit /\ [][MCNext]_<<clint, vars, realVars>>

(* The timer interrupt of the real-time CLINT is raised for a compare value *)
(* that has been reached, and for no other, and never lost.                 *)
RealTimerExact == Real!RealTimerExact
=============================================================================

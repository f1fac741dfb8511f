------------------------------ MODULE MCTraps ------------------------------
(* Model checking of Traps with two kinds of software: an operating system   *)
(* under interrupts, and handlers of all three modes that nest.              *)
EXTENDS Traps, TLC

CONSTANTS c1, c2

VARIABLE kind       \* "interrupts" or "nesting"

OneLocation == {c1}
OneHandler == [m \in Mode |-> c1]

(* Machine mode delegates the supervisor's interrupts. *)
SupervisorIntr == [m \in {S, M} |-> IF m = M THEN Intr \cap {"sei", "ssi"} ELSE {}]

(* Software enables or disables the interrupts of all modes alike, and     *)
(* prepares a return to each mode.                                         *)
Uniform(choices) ==
    {[ie |-> [m \in Mode |-> b], pie |-> [m \in Mode |-> TRUE], pp |-> (S :> U) @@ (M :> mpp)] :
        b \in BOOLEAN, mpp \in choices}
UniformStatus == Uniform(MppChoices)

(* The exceptions stay with machine mode. *)
NoExc == [m \in {S, M} |-> {}]

(* Handlers at two locations, exceptions that both modes may delegate down *)
(* to user mode, no interrupts, and the reserved mode 2 in mpp.            *)
TwoLocations == {c1, c2}
TwoHandlers == (U :> c1) @@ (S :> c2) @@ (M :> c1)
UserExc == [m \in {S, M} |-> {"e"}]
WithReserved == {U, S, H}
ReservedStatus == {st \in Uniform(WithReserved) : st.ie[M]}

Nesting == INSTANCE Traps WITH
    Code <- TwoLocations, Tvec <- TwoHandlers, Intr <- {}, IntrDelegable <- NoExc,
    ExcDelegable <- UserExc, TrapModes <- Mode, MppChoices <- WithReserved,
    StatusWrites <- ReservedStatus, IgnoreWfi <- TRUE

MCInit ==
    \/ kind = "interrupts" /\ Init
    \/ kind = "nesting" /\ Nesting!Init

MCNext ==
    /\ \/ kind = "interrupts" /\ Next
       \/ kind = "nesting" /\ Nesting!Next
    /\ UNCHANGED kind

(* The kernel delivers the delta notification. *)
MCSpec == MCInit /\ [][MCNext]_<<kind, vars>> /\ WF_vars(~failed /\ WfiEvent)
=============================================================================

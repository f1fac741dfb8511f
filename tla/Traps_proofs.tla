---------------------------- MODULE Traps_proofs ----------------------------
(***************************************************************************)
(* Proofs about the traps, interrupts and returns of a hart, for every     *)
(* program, every set of interrupts and exceptions, every delegation and   *)
(* every value software writes to the status registers.                    *)
(*                                                                         *)
(* What an instruction and a trap change is a record, so the lemmas are    *)
(* about functions on records: what Switched, Interrupted and Returned do  *)
(* to a record, and which predicates on records they keep.                 *)
(***************************************************************************)
EXTENDS Traps, TLAPS

AnyMode == Mode \cup {H}
Frames == {NoFrame} \cup (AnyMode \X BOOLEAN \X Code)

States == [prv : AnyMode, pc : Code, ie : [Mode -> BOOLEAN], pie : [Mode -> BOOLEAN],
           pp : [{S, M} -> AnyMode], epc : [Mode -> Code],
           mie : SUBSET Intr, mip : SUBSET Intr,
           ideleg : [{S, M} -> SUBSET Intr], edeleg : [{S, M} -> SUBSET Exceptions],
           frame : [Mode -> Frames]]

TypeOK ==
    /\ State \in States
    /\ waiting \in BOOLEAN
    /\ wfi_event \in BOOLEAN
    /\ arrived \in BOOLEAN
    /\ failed \in BOOLEAN

-----------------------------------------------------------------------------
(* The modes and what they are compared with. *)
LEMMA Modes ==
    /\ Mode = {0, 1, 3} /\ U = 0 /\ S = 1 /\ H = 2 /\ M = 3
    /\ AnyMode = {0, 1, 2, 3}
    /\ AnyMode \subseteq Int
  BY DEF Mode, U, S, H, M, AnyMode

LEMMA StoredType == ASSUME NEW m \in {S, M}, NEW p \in AnyMode PROVE Stored(m, p) \in AnyMode
  BY Modes DEF Stored

(* A record of States with other values of the right types. *)
Updated(st, a, b, i, j, p, e, f) ==
    [st EXCEPT !.prv = a, !.pc = b, !.ie = i, !.pie = j, !.pp = p, !.epc = e, !.frame = f]

LEMMA UpdatedType ==
    ASSUME NEW st \in States, NEW a \in AnyMode, NEW b \in Code,
           NEW i \in [Mode -> BOOLEAN], NEW j \in [Mode -> BOOLEAN],
           NEW p \in [{S, M} -> AnyMode], NEW e \in [Mode -> Code], NEW f \in [Mode -> Frames]
    PROVE  Updated(st, a, b, i, j, p, e, f) \in States
  BY DEF States, Updated

(* The record that a trap into mode m produces. *)
LEMMA SwitchedFields ==
    ASSUME NEW st \in States, NEW m \in Mode
    PROVE  Switched(st, m) =
             Updated(st, m, Tvec[m], [st.ie EXCEPT ![m] = FALSE],
                     [st.pie EXCEPT ![m] = st.ie[m]],
                     [x \in {S, M} |-> IF x = m THEN Stored(m, st.prv) ELSE st.pp[x]],
                     [st.epc EXCEPT ![m] = st.pc],
                     [st.frame EXCEPT ![m] = <<st.prv, st.ie[m], st.pc>>])
  BY DEF Switched, States, Updated

LEMMA SwitchedParts ==
    ASSUME NEW st \in States, NEW m \in Mode
    PROVE  /\ Switched(st, m).prv = m
           /\ Switched(st, m).pc = Tvec[m]
           /\ Switched(st, m).ie = [st.ie EXCEPT ![m] = FALSE]
           /\ Switched(st, m).pie = [st.pie EXCEPT ![m] = st.ie[m]]
           /\ Switched(st, m).pp = [x \in {S, M} |-> IF x = m THEN Stored(m, st.prv) ELSE st.pp[x]]
           /\ Switched(st, m).epc = [st.epc EXCEPT ![m] = st.pc]
           /\ Switched(st, m).frame = [st.frame EXCEPT ![m] = <<st.prv, st.ie[m], st.pc>>]
           /\ Switched(st, m).mie = st.mie /\ Switched(st, m).mip = st.mip
           /\ Switched(st, m).ideleg = st.ideleg /\ Switched(st, m).edeleg = st.edeleg
  BY DEF Switched, States

LEMMA SwitchedType == ASSUME NEW st \in States, NEW m \in Mode PROVE Switched(st, m) \in States
<1> DEFINE i == [st.ie EXCEPT ![m] = FALSE]
           j == [st.pie EXCEPT ![m] = st.ie[m]]
           p == [x \in {S, M} |-> IF x = m THEN Stored(m, st.prv) ELSE st.pp[x]]
           e == [st.epc EXCEPT ![m] = st.pc]
           f == [st.frame EXCEPT ![m] = <<st.prv, st.ie[m], st.pc>>]
<1>1. m \in AnyMode /\ Tvec[m] \in Code
  BY TrapsAssumption DEF AnyMode
<1>2. i \in [Mode -> BOOLEAN] /\ j \in [Mode -> BOOLEAN] /\ e \in [Mode -> Code]
  BY DEF States
<1>3. p \in [{S, M} -> AnyMode]
  BY StoredType DEF States
<1>4. f \in [Mode -> Frames]
  <2>1. <<st.prv, st.ie[m], st.pc>> \in Frames
    BY DEF States, Frames
  <2> QED
    BY <2>1 DEF States
<1>5. Switched(st, m) = Updated(st, m, Tvec[m], i, j, p, e, f)
  BY SwitchedFields
<1> HIDE DEF i, j, p, e, f
<1> QED
  BY <1>1, <1>2, <1>3, <1>4, <1>5, UpdatedType

(* The mode that an interrupt is taken to. *)
LEMMA MostPrivilegedFact ==
    ASSUME NEW ms \in SUBSET Mode, ms # {}
    PROVE  MostPrivileged(ms) \in ms /\ \A x \in ms : x <= MostPrivileged(ms)
<1>1. \E m \in ms : \A x \in ms : x <= m
  <2>1. CASE 3 \in ms
    BY <2>1, Modes
  <2>2. CASE 3 \notin ms /\ 1 \in ms
    BY <2>2, Modes
  <2>3. CASE 3 \notin ms /\ 1 \notin ms
    <3>1. ms = {0}
      BY <2>3, Modes
    <3> QED
      BY <3>1
  <2> QED
    BY <2>1, <2>2, <2>3
<1> QED
  BY <1>1 DEF MostPrivileged

LEMMA InterruptedType == ASSUME NEW st \in States PROVE Interrupted(st) \in States
<1>1. Deliverable(st) \subseteq Mode
  BY DEF Deliverable
<1> QED
  BY <1>1, MostPrivilegedFact, SwitchedType DEF Interrupted

LEMMA ReturnedFields ==
    ASSUME NEW st \in States, NEW m \in Mode
    PROVE  Returned(st, m) =
             Updated(st, IF m = U THEN U ELSE st.pp[m], st.epc[m],
                     [st.ie EXCEPT ![m] = st.pie[m]],
                     [st.pie EXCEPT ![m] = TRUE],
                     [x \in {S, M} |-> IF x = m THEN U ELSE st.pp[x]],
                     st.epc, [st.frame EXCEPT ![m] = NoFrame])
  BY DEF Returned, States, Updated

LEMMA ReturnedType == ASSUME NEW st \in States, NEW m \in Mode PROVE Returned(st, m) \in States
<1> DEFINE a == IF m = U THEN U ELSE st.pp[m]
           i == [st.ie EXCEPT ![m] = st.pie[m]]
           j == [st.pie EXCEPT ![m] = TRUE]
           p == [x \in {S, M} |-> IF x = m THEN U ELSE st.pp[x]]
           b == st.epc[m]
           e == st.epc
           f == [st.frame EXCEPT ![m] = NoFrame]
<1>1. a \in AnyMode /\ p \in [{S, M} -> AnyMode]
  BY Modes DEF States
<1>2. i \in [Mode -> BOOLEAN] /\ j \in [Mode -> BOOLEAN]
  BY DEF States
<1>3. f \in [Mode -> Frames]
  BY DEF States, Frames
<1>4. b \in Code /\ e \in [Mode -> Code]
  BY DEF States
<1>5. Returned(st, m) = Updated(st, a, b, i, j, p, e, f)
  BY ReturnedFields
<1> HIDE DEF a, b, i, j, p, e, f
<1> QED
  BY <1>1, <1>2, <1>3, <1>4, <1>5, UpdatedType

(* A step that ends in the record st leaves the hart in st. *)
LEMMA BecomesState == ASSUME NEW st \in States, Becomes(st) PROVE State' = st
  BY DEF Becomes, State, States

(* What a return from mode m produces, and the saved context it leaves. *)
LEMMA ReturnedParts ==
    ASSUME NEW st \in States, NEW m \in Mode
    PROVE  /\ Returned(st, m).prv = IF m = U THEN U ELSE st.pp[m]
           /\ Returned(st, m).pc = st.epc[m]
           /\ Returned(st, m).ie = [st.ie EXCEPT ![m] = st.pie[m]]
           /\ Returned(st, m).pie = [st.pie EXCEPT ![m] = TRUE]
           /\ Returned(st, m).pp = [x \in {S, M} |-> IF x = m THEN U ELSE st.pp[x]]
           /\ Returned(st, m).epc = st.epc
           /\ Returned(st, m).frame = [st.frame EXCEPT ![m] = NoFrame]
  BY DEF Returned, States

-----------------------------------------------------------------------------
(* Nothing is left to deliver once the mode that runs has its interrupts   *)
(* off and no more privileged mode has one pending.                        *)
LEMMA NothingDeliverable ==
    ASSUME NEW st \in States, NEW m \in Mode,
           \A x \in Mode : x > m => PendingFor(st, x) = {}
    PROVE  Deliverable(Switched(st, m)) = {}
<1> DEFINE new == Switched(st, m)
<1> USE SwitchedParts
<1>0. new.prv = m /\ new.ie = [st.ie EXCEPT ![m] = FALSE]
  OBVIOUS
<1>1. new.ie[m] = FALSE
  BY <1>0 DEF States
<1>2. \A x \in Mode : PendingFor(new, x) = PendingFor(st, x)
  <2>1. new.mie = st.mie /\ new.mip = st.mip /\ new.ideleg = st.ideleg
    OBVIOUS
  <2> HIDE DEF new
  <2> QED
    BY <2>1 DEF PendingFor
<1>3. ASSUME NEW x \in Mode, PendingFor(new, x) # {}, MayInterrupt(new, x) PROVE FALSE
  <2>1. x <= m
    BY <1>2, <1>3, Modes
  <2> QED
    BY <1>0, <1>1, <1>3, <2>1, Modes DEF MayInterrupt
<1> QED
  BY <1>3 DEF Deliverable

(* The check that ends a step leaves nothing to deliver. *)
LEMMA InterruptedDelivers ==
    ASSUME NEW st \in States
    PROVE  Deliverable(Interrupted(st)) = {} /\ Interrupted(st).prv >= st.prv
<1>1. CASE Deliverable(st) = {}
  BY <1>1, Modes DEF Interrupted, States
<1>2. CASE Deliverable(st) # {}
  <2> DEFINE m == MostPrivileged(Deliverable(st))
  <2>1. m \in Deliverable(st) /\ \A x \in Deliverable(st) : x <= m
    BY <1>2, MostPrivilegedFact DEF Deliverable
  <2>2. m \in Mode /\ st.prv \in AnyMode /\ st.prv <= m
    BY <2>1, Modes DEF Deliverable, MayInterrupt, States
  <2>3. ASSUME NEW x \in Mode, x > m, PendingFor(st, x) # {} PROVE FALSE
    <3>1. x # U /\ st.prv < x
      BY <2>2, <2>3, Modes
    <3>2. x \in Deliverable(st)
      BY <2>3, <3>1 DEF Deliverable, MayInterrupt
    <3> QED
      BY <2>1, <2>2, <2>3, <3>2, Modes
  <2>4. Deliverable(Switched(st, m)) = {}
    BY <2>2, <2>3, NothingDeliverable
  <2>5. Switched(st, m).prv = m
    BY <2>2, SwitchedParts
  <2> QED
    BY <1>2, <2>2, <2>4, <2>5, Modes DEF Interrupted
<1> QED
  BY <1>1, <1>2

(* A trap out of a state with nothing to deliver leaves nothing to deliver. *)
LEMMA TrapDelivers ==
    ASSUME NEW st \in States, NEW e, TrapAsserts(st, e), Deliverable(st) = {}
    PROVE  Deliverable(Switched(st, TrapMode(st, e))) = {}
<1> DEFINE m == TrapMode(st, e)
<1>1. m \in Mode
  BY Modes DEF TrapMode
<1>2. ASSUME NEW x \in Mode, x > m, PendingFor(st, x) # {} PROVE FALSE
  <2>1. x # U /\ st.prv < x
    BY <1>1, <1>2, Modes DEF TrapMode, TrapAsserts, States
  <2> QED
    BY <1>2, <2>1 DEF Deliverable, MayInterrupt
<1> QED
  BY <1>1, <1>2, NothingDeliverable

-----------------------------------------------------------------------------
(* The registers of mode m hold the context that frame[m] remembers: spp   *)
(* one bit of it, and no trap into S interrupts M or into U another mode.  *)
Saved(st, m) ==
    st.frame[m] # NoFrame =>
        /\ st.frame[m][3] = st.epc[m]
        /\ st.frame[m][2] = st.pie[m]
        /\ m = M => st.frame[m][1] = st.pp[M]
        /\ m = S => st.frame[m][1] # M /\ st.pp[S] = st.frame[m][1] % 2
        /\ m = U => st.frame[m][1] = U

FrameOK(st) == \A m \in Mode : Saved(st, m)

(* A mode is entered from the modes its interrupts and exceptions come from. *)
LEMMA SwitchedFrame ==
    ASSUME NEW st \in States, NEW m \in Mode, FrameOK(st),
           m = U => st.prv = U, m = S => st.prv # M
    PROVE  FrameOK(Switched(st, m))
<1> DEFINE new == Switched(st, m)
<1>1. /\ new.pie = [st.pie EXCEPT ![m] = st.ie[m]]
      /\ new.pp = [x \in {S, M} |-> IF x = m THEN Stored(m, st.prv) ELSE st.pp[x]]
      /\ new.epc = [st.epc EXCEPT ![m] = st.pc]
      /\ new.frame = [st.frame EXCEPT ![m] = <<st.prv, st.ie[m], st.pc>>]
  BY SwitchedParts
<1> HIDE DEF new
<1>2. ASSUME NEW x \in Mode, x # m PROVE Saved(new, x)
  <2>1. /\ new.frame[x] = st.frame[x] /\ new.epc[x] = st.epc[x] /\ new.pie[x] = st.pie[x]
        /\ x \in {S, M} => new.pp[x] = st.pp[x]
    BY <1>1, <1>2 DEF States
  <2> QED
    BY <2>1 DEF FrameOK, Saved
<1>3. Saved(new, m)
  <2>1. new.frame[m] = <<st.prv, st.ie[m], st.pc>>
    BY <1>1 DEF States
  <2>2. new.epc[m] = st.pc /\ new.pie[m] = st.ie[m]
    BY <1>1 DEF States
  <2>3. m \in {S, M} => new.pp[m] = Stored(m, st.prv)
    BY <1>1
  <2> QED
    BY <2>1, <2>2, <2>3, Modes DEF Saved, Stored
<1> QED
  BY <1>2, <1>3 DEF FrameOK, new

LEMMA InterruptedFrame ==
    ASSUME NEW st \in States, FrameOK(st) PROVE FrameOK(Interrupted(st))
<1>1. CASE Deliverable(st) = {}
  BY <1>1 DEF Interrupted
<1>2. CASE Deliverable(st) # {}
  <2> DEFINE m == MostPrivileged(Deliverable(st))
  <2>1. m \in Deliverable(st)
    BY <1>2, MostPrivilegedFact DEF Deliverable
  <2>2. m \in Mode /\ (m = U => st.prv = U) /\ (m = S => st.prv # M)
    BY <2>1, Modes DEF Deliverable, MayInterrupt, States
  <2> QED
    BY <1>2, <2>2, SwitchedFrame DEF Interrupted
<1> QED
  BY <1>1, <1>2

LEMMA ReturnedFrame ==
    ASSUME NEW st \in States, NEW m \in Mode, FrameOK(st) PROVE FrameOK(Returned(st, m))
<1> DEFINE new == Returned(st, m)
<1>1. /\ new.pie = [st.pie EXCEPT ![m] = TRUE]
      /\ new.pp = [x \in {S, M} |-> IF x = m THEN U ELSE st.pp[x]]
      /\ new.epc = st.epc
      /\ new.frame = [st.frame EXCEPT ![m] = NoFrame]
  BY ReturnedParts
<1> HIDE DEF new
<1>2. ASSUME NEW x \in Mode, x # m PROVE Saved(new, x)
  <2>1. /\ new.frame[x] = st.frame[x] /\ new.epc[x] = st.epc[x] /\ new.pie[x] = st.pie[x]
        /\ x \in {S, M} => new.pp[x] = st.pp[x]
    BY <1>1, <1>2 DEF States
  <2> QED
    BY <2>1 DEF FrameOK, Saved
<1>3. Saved(new, m)
  BY <1>1 DEF Saved, States
<1> QED
  BY <1>2, <1>3 DEF FrameOK, new

(* What a step that ends with the interrupt check establishes. *)
LEMMA FinishStep ==
    ASSUME NEW st \in States, FrameOK(st), Finish(st)
    PROVE  /\ State' \in States /\ FrameOK(State')
           /\ Deliverable(State') = {} /\ prv' >= st.prv
           /\ arrived' = FALSE /\ failed' = FALSE
<1>1. State' = Interrupted(st)
  BY InterruptedType, BecomesState DEF Finish
<1>2. State'.prv = prv'
  BY DEF State
<1> QED
  BY <1>1, <1>2, InterruptedType, InterruptedFrame, InterruptedDelivers DEF Finish

-----------------------------------------------------------------------------
(* An instruction that leaves the record to finish the step from: of the   *)
(* right type, with the saved contexts in place and the privilege that ran. *)
Prepared(st) == st \in States /\ FrameOK(st) /\ st.prv = prv

(* A record that keeps the fields of the saved contexts keeps FrameOK. *)
LEMMA SameFrames ==
    ASSUME NEW st, FrameOK(State),
           st.frame = frame, st.epc = epc, st.pie = pie, st.pp = pp
    PROVE  FrameOK(st)
  BY DEF FrameOK, Saved, State

LEMMA StateFields ==
    ASSUME State \in States
    PROVE  /\ prv \in AnyMode /\ pc \in Code /\ ie \in [Mode -> BOOLEAN]
           /\ pie \in [Mode -> BOOLEAN] /\ pp \in [{S, M} -> AnyMode] /\ epc \in [Mode -> Code]
           /\ mie \in SUBSET Intr /\ mip \in SUBSET Intr
           /\ ideleg \in [{S, M} -> SUBSET Intr] /\ edeleg \in [{S, M} -> SUBSET Exceptions]
           /\ frame \in [Mode -> Frames]
  BY DEF State, States

LEMMA ExecPrepared ==
    ASSUME State \in States, FrameOK(State), NEW next \in Code
    PROVE  Prepared([State EXCEPT !.pc = next])
<1> DEFINE st == [State EXCEPT !.pc = next]
<1>1. st \in States
  BY DEF State, States
<1>2. st.frame = frame /\ st.epc = epc /\ st.pie = pie /\ st.pp = pp /\ st.prv = prv
  BY DEF State
<1> QED
  BY <1>1, <1>2, SameFrames DEF Prepared

LEMMA WriteEpcPrepared ==
    ASSUME State \in States, FrameOK(State), NEW m \in Mode, NEW loc \in Code, NEW next \in Code
    PROVE  Prepared([State EXCEPT !.epc[m] = loc, !.frame[m] = NoFrame, !.pc = next])
<1> DEFINE st == [State EXCEPT !.epc[m] = loc, !.frame[m] = NoFrame, !.pc = next]
           e == [epc EXCEPT ![m] = loc]
           f == [frame EXCEPT ![m] = NoFrame]
<1>1. e \in [Mode -> Code] /\ f \in [Mode -> Frames]
  BY StateFields DEF Frames
<1>2. st = [State EXCEPT !.epc = e, !.frame = f, !.pc = next]
  BY DEF State
<1>3. st \in States
  <2> HIDE DEF e, f
  <2>1. [State EXCEPT !.epc = e, !.frame = f, !.pc = next] \in States
    BY <1>1 DEF State, States
  <2> QED
    BY <1>2, <2>1
<1>4. st.frame = f /\ st.epc = e /\ st.pie = pie /\ st.pp = pp /\ st.prv = prv
  BY DEF State
<1>5. ASSUME NEW x \in Mode PROVE Saved(st, x)
  <2> HIDE DEF st
  <2>1. CASE x = m
    <3>1. st.frame[x] = NoFrame
      BY <1>4, <2>1, StateFields
    <3> QED
      BY <3>1 DEF Saved
  <2>2. CASE x # m
    <3>1. st.frame[x] = frame[x] /\ st.epc[x] = epc[x]
      BY <1>4, <2>2, StateFields
    <3>2. Saved(State, x)
      BY DEF FrameOK
    <3> QED
      BY <1>4, <3>1, <3>2 DEF Saved, State
  <2> QED
    BY <2>1, <2>2
<1> QED
  BY <1>3, <1>4, <1>5 DEF Prepared, FrameOK

LEMMA WriteMieType == ASSUME NEW m \in Mode PROVE MieMask(m) \subseteq Intr /\ MipMask(m) \subseteq Intr
  BY DEF MieMask, MipMask

LEMMA WriteMiePrepared ==
    ASSUME State \in States, FrameOK(State), NEW set \in SUBSET Intr, NEW next \in Code
    PROVE  /\ Prepared([State EXCEPT !.mie = set, !.pc = next])
           /\ Prepared([State EXCEPT !.mip = set, !.pc = next])
<1> DEFINE st == [State EXCEPT !.mie = set, !.pc = next]
           su == [State EXCEPT !.mip = set, !.pc = next]
<1>1. st \in States /\ su \in States
  BY DEF State, States
<1>2. st.frame = frame /\ st.epc = epc /\ st.pie = pie /\ st.pp = pp /\ st.prv = prv
  BY DEF State
<1>3. su.frame = frame /\ su.epc = epc /\ su.pie = pie /\ su.pp = pp /\ su.prv = prv
  BY DEF State
<1> QED
  BY <1>1, <1>2, <1>3, SameFrames DEF Prepared

LEMMA WriteIdelegPrepared ==
    ASSUME State \in States, FrameOK(State), NEW m \in {S, M}, NEW set \in SUBSET Intr,
           NEW next \in Code
    PROVE  Prepared([State EXCEPT !.ideleg[m] = set, !.pc = next])
<1> DEFINE st == [State EXCEPT !.ideleg[m] = set, !.pc = next]
           d == [ideleg EXCEPT ![m] = set]
<1>1. d \in [{S, M} -> SUBSET Intr]
  BY StateFields
<1>2. st = [State EXCEPT !.ideleg = d, !.pc = next]
  BY DEF State
<1>3. st \in States
  <2> HIDE DEF d
  <2>1. [State EXCEPT !.ideleg = d, !.pc = next] \in States
    BY <1>1 DEF State, States
  <2> QED
    BY <1>2, <2>1
<1>4. st.frame = frame /\ st.epc = epc /\ st.pie = pie /\ st.pp = pp /\ st.prv = prv
  BY DEF State
<1> QED
  BY <1>3, <1>4, SameFrames DEF Prepared

LEMMA WriteEdelegPrepared ==
    ASSUME State \in States, FrameOK(State), NEW m \in {S, M}, NEW set \in SUBSET Exceptions,
           NEW next \in Code
    PROVE  Prepared([State EXCEPT !.edeleg[m] = set, !.pc = next])
<1> DEFINE st == [State EXCEPT !.edeleg[m] = set, !.pc = next]
           d == [edeleg EXCEPT ![m] = set]
<1>1. d \in [{S, M} -> SUBSET Exceptions]
  BY StateFields
<1>2. st = [State EXCEPT !.edeleg = d, !.pc = next]
  BY DEF State
<1>3. st \in States
  <2> HIDE DEF d
  <2>1. [State EXCEPT !.edeleg = d, !.pc = next] \in States
    BY <1>1 DEF State, States
  <2> QED
    BY <1>2, <2>1
<1>4. st.frame = frame /\ st.epc = epc /\ st.pie = pie /\ st.pp = pp /\ st.prv = prv
  BY DEF State
<1> QED
  BY <1>3, <1>4, SameFrames DEF Prepared

(* A write of a status register, which forgets the contexts it changes. *)
LEMMA WriteStatusPrepared ==
    ASSUME State \in States, FrameOK(State), NEW m \in Mode, NEW new \in StatusWrites,
           NEW next \in Code, WriteStatus(m, new, next)
    PROVE  \E st : Prepared(st) /\ Finish(st)
<1> DEFINE i == [x \in Mode |-> IF x <= m THEN new.ie[x] ELSE ie[x]]
           j == [x \in Mode |-> IF x <= m THEN new.pie[x] ELSE pie[x]]
           p == [x \in {S, M} |-> IF x <= m THEN Stored(x, new.pp[x]) ELSE pp[x]]
           f == [x \in Mode |->
                    IF j[x] = pie[x] /\ (x # U => p[x] = pp[x]) THEN frame[x] ELSE NoFrame]
           st == [State EXCEPT !.ie = i, !.pie = j, !.pp = p, !.frame = f, !.pc = next]
<1>1. Finish(st)
  BY DEF WriteStatus
<1>2. /\ new.ie \in [Mode -> BOOLEAN] /\ new.pie \in [Mode -> BOOLEAN]
      /\ new.pp \in [{S, M} -> AnyMode]
  BY TrapsAssumption DEF AnyMode
<1>3. i \in [Mode -> BOOLEAN] /\ j \in [Mode -> BOOLEAN]
  BY <1>2, StateFields
<1>4. p \in [{S, M} -> AnyMode]
  BY <1>2, StateFields, StoredType
<1>5. f \in [Mode -> Frames]
  BY StateFields DEF Frames
<1>6. st \in States
  <2> HIDE DEF i, j, p, f
  <2> QED
    BY <1>3, <1>4, <1>5 DEF State, States
<1>7. st.frame = f /\ st.epc = epc /\ st.pie = j /\ st.pp = p /\ st.prv = prv
  BY DEF State
<1>8. ASSUME NEW x \in Mode PROVE Saved(st, x)
  <2> HIDE DEF st
  <2>1. CASE f[x] = NoFrame
    BY <1>7, <2>1 DEF Saved
  <2>2. CASE f[x] # NoFrame
    <3>1. f[x] = frame[x] /\ j[x] = pie[x] /\ (x # U => p[x] = pp[x])
      BY <2>2
    <3>2. Saved(State, x)
      BY DEF FrameOK
    <3> HIDE DEF i, j, p, f
    <3> QED
      BY <1>7, <3>1, <3>2, Modes DEF Saved, State
  <2> QED
    BY <2>1, <2>2
<1> QED
  BY <1>1, <1>6, <1>7, <1>8 DEF Prepared, FrameOK

-----------------------------------------------------------------------------
(* The inductive invariant. *)
IInv ==
    /\ TypeOK
    /\ FrameOK(State)
    /\ PromptDelivery
    /\ AssertOnlyInReservedMode

(* What every step of a hart that runs establishes. *)
Stepped ==
    /\ State' \in States /\ FrameOK(State')
    /\ Deliverable(State') # {} => arrived'
    /\ arrived' \in BOOLEAN
    /\ failed' \in BOOLEAN
    /\ failed' => prv' = H

LEMMA PreparedStep ==
    ASSUME NEW st, Prepared(st), Finish(st) PROVE Stepped /\ prv' >= prv
  BY FinishStep DEF Prepared, Stepped

LEMMA RetStep ==
    ASSUME State \in States, FrameOK(State), NEW m \in Mode, Ret(m) PROVE Stepped
  BY FinishStep, ReturnedType, ReturnedFrame DEF Ret, Stepped

(* A trap: into the same or a more privileged mode, but from the reserved  *)
(* mode, the only one in which the assertion can fail.                     *)
LEMMA TrapStep ==
    ASSUME IInv, ~waiting, NEW e, Trap(e) PROVE Stepped /\ (prv \in Mode => prv' >= prv)
<1> DEFINE m == TrapMode(State, e)
<1>1. State \in States /\ State.prv = prv /\ prv \in AnyMode
  BY StateFields DEF IInv, TypeOK, State
<1>2. m \in Mode
  BY Modes DEF TrapMode
<1>3. arrived' = arrived /\ arrived \in BOOLEAN /\ (Deliverable(State) # {} => arrived)
  BY DEF IInv, TypeOK, PromptDelivery, Trap
<1>4. CASE TrapAsserts(State, e)
  <2>1. Becomes(Switched(State, m)) /\ failed' = FALSE
    BY <1>4 DEF Trap
  <2>2. State' = Switched(State, m) /\ State' \in States
    BY <1>1, <1>2, <2>1, SwitchedType, BecomesState
  <2>3. (m = U => State.prv = U) /\ (m = S => State.prv # M)
    BY <1>4, Modes DEF TrapMode, TrapAsserts
  <2>4. FrameOK(State')
    BY <1>1, <1>2, <2>2, <2>3, SwitchedFrame DEF IInv
  <2>5. Deliverable(State') # {} => arrived'
    BY <1>1, <1>3, <1>4, <2>2, TrapDelivers
  <2>6. prv' = m
    <3>1. Switched(State, m).prv = m
      BY <1>1, <1>2, SwitchedParts
    <3> QED
      BY <2>1, <3>1 DEF Becomes
  <2>7. prv \in Mode => m >= prv
    BY <1>1, Modes DEF TrapMode
  <2> QED
    BY <1>3, <2>1, <2>2, <2>4, <2>5, <2>6, <2>7 DEF Stepped
<1>5. CASE ~TrapAsserts(State, e)
  <2>1. Becomes(State) /\ failed' = TRUE
    BY <1>5 DEF Trap
  <2>2. State' = State
    BY <1>1, <2>1, BecomesState
  <2>3. prv = H /\ prv' = prv
    BY <1>1, <1>5, <2>1, Modes DEF TrapAsserts, TrapMode, Becomes, State
  <2> QED
    BY <1>1, <1>3, <2>1, <2>2, <2>3, Modes DEF Stepped, IInv
<1> QED
  BY <1>4, <1>5

(* One instruction. *)
LEMMA InstructionStep ==
    ASSUME IInv, ~waiting, Instruction
    PROVE  Stepped /\ (prv \in Mode => prv' >= prv \/ \E m \in Mode : Ret(m))
<1>0. State \in States /\ FrameOK(State)
  BY DEF IInv, TypeOK
<1>1. CASE \E e \in Exceptions : Trap(e)
  BY <1>1, TrapStep
<1>2. CASE \E m \in TrapModes : Ret(m)
  BY <1>0, <1>2, RetStep, TrapsAssumption
<1>3. ASSUME NEW next \in Code, Exec(next) PROVE Stepped /\ prv' >= prv
  BY <1>0, <1>3, ExecPrepared, PreparedStep DEF Exec
<1>4. ASSUME NEW next \in Code, NEW m \in Mode, NEW new \in StatusWrites,
             WriteStatus(m, new, next)
      PROVE  Stepped /\ prv' >= prv
  BY <1>0, <1>4, WriteStatusPrepared, PreparedStep
<1>5. ASSUME NEW next \in Code, NEW m \in TrapModes, NEW loc \in Code, WriteEpc(m, loc, next)
      PROVE  Stepped /\ prv' >= prv
  <2>1. m \in Mode
    BY TrapsAssumption
  <2> QED
    BY <1>0, <1>5, <2>1, WriteEpcPrepared, PreparedStep DEF WriteEpc
<1>6. ASSUME NEW next \in Code, NEW m \in Mode, NEW set \in SUBSET MieMask(m),
             WriteMie(m, set, next)
      PROVE  Stepped /\ prv' >= prv
  <2>1. (mie \ MieMask(m)) \cup set \in SUBSET Intr
    BY <1>0, StateFields, WriteMieType
  <2> QED
    BY <1>0, <1>6, <2>1, WriteMiePrepared, PreparedStep DEF WriteMie
<1>7. ASSUME NEW next \in Code, NEW m \in Mode, NEW set \in SUBSET MipMask(m),
             WriteMip(m, set, next)
      PROVE  Stepped /\ prv' >= prv
  <2>1. (mip \ MipMask(m)) \cup set \in SUBSET Intr
    BY <1>0, StateFields, WriteMieType
  <2> QED
    BY <1>0, <1>7, <2>1, WriteMiePrepared, PreparedStep DEF WriteMip
<1>8. ASSUME NEW next \in Code, NEW m \in {S, M}, NEW set \in SUBSET IntrDelegable[m],
             WriteIdeleg(m, set, next)
      PROVE  Stepped /\ prv' >= prv
  <2>1. set \in SUBSET Intr
    BY TrapsAssumption
  <2> QED
    BY <1>0, <1>8, <2>1, WriteIdelegPrepared, PreparedStep DEF WriteIdeleg
<1>9. ASSUME NEW next \in Code, NEW m \in {S, M}, NEW set \in SUBSET ExcDelegable[m],
             WriteEdeleg(m, set, next)
      PROVE  Stepped /\ prv' >= prv
  <2>1. set \in SUBSET Exceptions
    BY TrapsAssumption
  <2> QED
    BY <1>0, <1>9, <2>1, WriteEdelegPrepared, PreparedStep DEF WriteEdeleg
<1> QED
  BY <1>1, <1>2, <1>3, <1>4, <1>5, <1>6, <1>7, <1>8, <1>9 DEF Instruction

(* Fewer pending interrupts, nothing more to deliver. *)
LEMMA FewerPending ==
    ASSUME NEW st, NEW su, su.prv = st.prv, su.ie = st.ie, su.ideleg = st.ideleg,
           su.mie = st.mie, su.mip \subseteq st.mip
    PROVE  Deliverable(su) \subseteq Deliverable(st)
<1>1. \A m \in Mode : PendingFor(su, m) \subseteq PendingFor(st, m)
  BY DEF PendingFor
<1>2. \A m \in Mode : MayInterrupt(su, m) <=> MayInterrupt(st, m)
  BY DEF MayInterrupt
<1> QED
  BY <1>1, <1>2 DEF Deliverable

LEMMA InitIInv == Init => IInv
<1> SUFFICES ASSUME Init PROVE IInv
  OBVIOUS
<1>1. TypeOK
  BY Modes DEF Init, TypeOK, State, States, Frames
<1>2. FrameOK(State)
  BY DEF Init, FrameOK, Saved, State
<1>3. Deliverable(State) = {}
  BY DEF Init, Deliverable, PendingFor, State
<1> QED
  BY <1>1, <1>2, <1>3 DEF Init, IInv, PromptDelivery, AssertOnlyInReservedMode

(* The inductive step, with what a step does to the privilege. *)
LEMMA NextIInv ==
    ASSUME IInv, [Next]_vars
    PROVE  IInv' /\ (prv \in Mode => prv' >= prv \/ \E m \in Mode : Ret(m))
<1>0. State \in States /\ FrameOK(State) /\ prv \in AnyMode
  BY StateFields DEF IInv, TypeOK
<1>S. ASSUME Stepped, waiting' \in BOOLEAN, wfi_event' \in BOOLEAN PROVE IInv'
  BY <1>S DEF Stepped, IInv, TypeOK, PromptDelivery, AssertOnlyInReservedMode
<1>P. prv' = prv => prv' >= prv
  BY <1>0, Modes
<1>1. CASE RunStep
  <2>1. Stepped /\ (prv \in Mode => prv' >= prv \/ \E m \in Mode : Ret(m))
    BY <1>1, InstructionStep DEF RunStep
  <2> QED
    BY <1>1, <1>S, <2>1 DEF RunStep, IInv, TypeOK
<1>2. ASSUME NEW next \in Code, Wfi(next) PROVE IInv' /\ prv' >= prv
  <2>1. CASE Sleeps
    <3>1. State' \in States
      BY <1>2, <2>1, StateFields, <1>0 DEF Wfi, State, States, deleg
    <3>2. FrameOK(State')
      <4>1. /\ State'.frame = frame /\ State'.epc = epc /\ State'.pie = pie /\ State'.pp = pp
        BY <1>2, <2>1 DEF Wfi, State
      <4> QED
        BY <1>0, <4>1, SameFrames
    <3> QED
      BY <1>2, <2>1, <3>1, <3>2, <1>P
      DEF Wfi, IInv, TypeOK, PromptDelivery, AssertOnlyInReservedMode
  <2>2. CASE ~Sleeps
    <3>1. Stepped /\ prv' >= prv
      BY <1>0, <1>2, <2>2, ExecPrepared, PreparedStep DEF Wfi
    <3> QED
      BY <1>2, <1>S, <2>2, <3>1 DEF Wfi, IInv, TypeOK
  <2> QED
    BY <2>1, <2>2
<1>3. CASE WfiEvent
  <2>1. CASE waiting
    <3>1. Prepared(State)
      BY <1>0 DEF Prepared, State
    <3>2. Stepped /\ prv' >= prv
      BY <1>3, <2>1, <3>1, PreparedStep DEF WfiEvent
    <3> QED
      BY <1>3, <1>S, <3>2 DEF WfiEvent
  <2>2. CASE ~waiting
    <3>1. State' = State /\ prv' = prv
      BY <1>3, <2>2 DEF WfiEvent, State, status, deleg
    <3>2. waiting' = waiting
      BY <1>3, <2>2 DEF WfiEvent, IInv, TypeOK
    <3> QED
      BY <1>3, <2>2, <3>1, <3>2, <1>P
      DEF WfiEvent, IInv, TypeOK, PromptDelivery, AssertOnlyInReservedMode
  <2> QED
    BY <2>1, <2>2
<1>4. ASSUME NEW i \in Lines, Raise(i) PROVE IInv' /\ prv' >= prv
  <2>1. State' \in States
    BY <1>0, <1>4, StateFields DEF Raise, State, States, Lines, status, deleg
  <2>2. FrameOK(State')
    <3>1. State'.frame = frame /\ State'.epc = epc /\ State'.pie = pie /\ State'.pp = pp
      BY <1>4 DEF Raise, State, status
    <3> QED
      BY <1>0, <3>1, SameFrames
  <2> QED
    BY <1>4, <2>1, <2>2, <1>P
    DEF Raise, Wakes, IInv, TypeOK, PromptDelivery, AssertOnlyInReservedMode, status
<1>5. ASSUME NEW i \in Lines, Lower(i) PROVE IInv' /\ prv' >= prv
  <2>1. State' \in States
    BY <1>0, <1>5, StateFields DEF Lower, State, States, status, deleg
  <2>2. FrameOK(State')
    <3>1. State'.frame = frame /\ State'.epc = epc /\ State'.pie = pie /\ State'.pp = pp
      BY <1>5 DEF Lower, State, status
    <3> QED
      BY <1>0, <3>1, SameFrames
  <2>3. Deliverable(State') \subseteq Deliverable(State)
    <3>1. /\ State'.prv = State.prv /\ State'.ie = State.ie /\ State'.ideleg = State.ideleg
          /\ State'.mie = State.mie /\ State'.mip \subseteq State.mip
      BY <1>5 DEF Lower, State, status, deleg
    <3> QED
      BY <3>1, FewerPending
  <2> QED
    BY <1>5, <2>1, <2>2, <2>3, <1>P
    DEF Lower, IInv, TypeOK, PromptDelivery, AssertOnlyInReservedMode, status
<1>6. CASE UNCHANGED vars
  BY <1>6, <1>P DEF vars, status, deleg, IInv, TypeOK, FrameOK, Saved, State, PromptDelivery,
                    AssertOnlyInReservedMode
<1> QED
  BY <1>1, <1>2, <1>3, <1>4, <1>5, <1>6 DEF Next

-----------------------------------------------------------------------------
(* The invariant the theorems rest on: types, what the trap frames of       *)
(* nested handlers hold of the mode stacks in mstatus (frames pushed by     *)
(* switch_to_trap_handler, popped by return_from_trap_handler), and that    *)
(* nothing deliverable is left over after an instruction.                   *)
THEOREM Invariance == Spec => []IInv
<1>1. IInv /\ [Next]_vars => IInv'
  BY NextIInv
<1> QED
  BY InitIInv, <1>1, PTL DEF Spec

(* After every step of run_step nothing is left to deliver that was there  *)
(* to be delivered, for every delegation and every nesting of handlers.    *)
THEOREM PromptDeliveryTheorem == Spec => []PromptDelivery
<1>1. IInv => PromptDelivery
  BY DEF IInv
<1> QED
  BY Invariance, <1>1, PTL

(* return_from_trap_handler restores what switch_to_trap_handler saved,    *)
(* whatever traps into other modes came between.                           *)
THEOREM ReturnRestoresTheorem == Spec => []ReturnRestores
<1>1. IInv => ReturnRestores
  <2> SUFFICES ASSUME IInv, NEW m \in Mode, frame[m] # NoFrame, frame[m][1] \in Mode
               PROVE  LET st == Returned(State, m)
                      IN  <<st.prv, st.ie[m], st.pc>> = frame[m]
    BY DEF ReturnRestores
  <2> DEFINE st == Returned(State, m)
  <2>1. State \in States
    BY DEF IInv, TypeOK
  <2>2. /\ st.prv = IF m = U THEN U ELSE pp[m]
        /\ st.ie = [ie EXCEPT ![m] = pie[m]]
        /\ st.pc = epc[m]
    BY <2>1, ReturnedParts DEF State
  <2>3. Saved(State, m)
    BY DEF IInv, FrameOK
  <2>4. frame[m] \in AnyMode \X BOOLEAN \X Code
    BY <2>1, StateFields DEF Frames
  <2>5. st.prv = frame[m][1]
    <3> HIDE DEF st
    <3> QED
      BY <2>2, <2>3, Modes DEF Saved, State
  <2>6. st.ie[m] = frame[m][2] /\ st.pc = frame[m][3]
    <3>1. m \in DOMAIN ie
      BY <2>1, StateFields
    <3> HIDE DEF st
    <3> QED
      BY <2>2, <2>3, <3>1 DEF Saved, State
  <2> HIDE DEF st
  <2>7. <<st.prv, st.ie[m], st.pc>> = frame[m]
    BY <2>4, <2>5, <2>6
  <2> QED
    BY <2>7 DEF st
<1> QED
  BY Invariance, <1>1, PTL

(* The assertion of prepare_trap fails at most in the reserved mode. *)
THEOREM AssertOnlyInReservedModeTheorem == Spec => []AssertOnlyInReservedMode
<1>1. IInv => AssertOnlyInReservedMode
  BY DEF IInv
<1> QED
  BY Invariance, <1>1, PTL

(* Neither a trap nor an interrupt lowers the privilege. *)
THEOREM OnlyReturnsLowerTheorem == Spec => OnlyReturnsLower
<1>1. IInv /\ [Next]_vars => [prv' < prv /\ prv \in Mode => \E m \in Mode : Ret(m)]_vars
  <2> SUFFICES ASSUME IInv, [Next]_vars, prv' < prv, prv \in Mode
               PROVE  \E m \in Mode : Ret(m)
    OBVIOUS
  <2>1. prv' >= prv \/ \E m \in Mode : Ret(m)
    BY NextIInv
  <2>2. State \in States /\ State' \in States
    BY NextIInv DEF IInv, TypeOK
  <2>3. prv \in Int /\ prv' \in Int
    BY <2>2, Modes DEF State, States
  <2> QED
    BY <2>1, <2>3
<1> QED
  BY Invariance, <1>1, PTL DEF Spec, OnlyReturnsLower
=============================================================================

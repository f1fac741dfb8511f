----------------------------- MODULE AtomicMemory ----------------------------
(***************************************************************************)
(* What the memory system promises to software: a memory whose AMO and     *)
(* SC instructions are single atomic steps.  Processes are harts and bus   *)
(* mastering peripherals.  Every completed access is visible in `done'.    *)
(*                                                                         *)
(* A reservation is set by LR, and lost when another process writes the    *)
(* reserved word.  A store-conditional may fail for any reason, but it     *)
(* succeeds only with an intact reservation of that very word.             *)
(***************************************************************************)
CONSTANTS Hart, Peripheral, Addr, Val, AmoFns, NoAddr

VARIABLES
    mem,    \* [Addr -> Val]
    res,    \* [Hart -> Addr \cup {NoAddr}]: reservations
    done    \* the access completed by the last step, or NoAccess

absVars == <<mem, res, done>>

Proc == Hart \cup {Peripheral}

(* An access: who, what, where, the value read and the value written.      *)
Access(p, k, a, old, new) ==
    [proc |-> p, kind |-> k, addr |-> a, old |-> old, new |-> new]

NoAccess == [kind |-> "none"]

Init ==
    /\ mem \in [Addr -> Val]
    /\ res = [h \in Hart |-> NoAddr]
    /\ done = NoAccess

(* A write by p destroys the reservations other harts have on that word.   *)
Broken(p, a) == [h \in Hart |-> IF h # p /\ res[h] = a THEN NoAddr ELSE res[h]]

Load(p, a) ==
    /\ done' = Access(p, "load", a, mem[a], mem[a])
    /\ UNCHANGED <<mem, res>>

Store(p, a, v) ==
    /\ mem' = [mem EXCEPT ![a] = v]
    /\ res' = Broken(p, a)
    /\ done' = Access(p, "store", a, mem[a], v)

LoadReserved(h, a) ==
    /\ res' = [res EXCEPT ![h] = a]
    /\ done' = Access(h, "lr", a, mem[a], mem[a])
    /\ UNCHANGED mem

StoreConditional(h, a, v) ==
    /\ res[h] = a
    /\ mem' = [mem EXCEPT ![a] = v]
    /\ res' = [Broken(h, a) EXCEPT ![h] = NoAddr]
    /\ done' = Access(h, "sc", a, mem[a], v)

StoreConditionalFails(h, a) ==
    /\ res' = [res EXCEPT ![h] = NoAddr]
    /\ done' = Access(h, "scfail", a, mem[a], mem[a])
    /\ UNCHANGED mem

(* The value written is computed from the value the word has NOW.          *)
Amo(h, a, f, v) ==
    /\ mem' = [mem EXCEPT ![a] = f[mem[a]][v]]
    /\ res' = Broken(h, a)
    /\ done' = Access(h, "amo", a, mem[a], f[mem[a]][v])

(* Nothing completes in this step.                                         *)
Quiet ==
    /\ done' = NoAccess
    /\ UNCHANGED <<mem, res>>

Next ==
    \/ \E p \in Proc, a \in Addr : Load(p, a)
    \/ \E p \in Proc, a \in Addr, v \in Val : Store(p, a, v)
    \/ \E h \in Hart, a \in Addr :
          \/ LoadReserved(h, a)
          \/ StoreConditionalFails(h, a)
          \/ \E v \in Val : StoreConditional(h, a, v)
          \/ \E v \in Val, f \in AmoFns : Amo(h, a, f, v)
    \/ Quiet

Spec == Init /\ [][Next]_absVars
=============================================================================

------------------------------- MODULE BusLock -------------------------------
(***************************************************************************)
(* The global bus lock of the platform (platform/common/bus.h).  One       *)
(* BusLock object is shared by the memory interfaces of all harts and by   *)
(* the PeripheralWriteConnector of every bus-mastering peripheral.  It is  *)
(* the only mechanism behind LR/SC and the AMO instructions.               *)
(*                                                                         *)
(* The waiting loop `while (locked) wait(lock_event)' is a process         *)
(* behaviour and belongs to the modules that use the lock; this module has *)
(* the lock's state, its operations and the event.                         *)
(***************************************************************************)
CONSTANT Hart

VARIABLES
    locked,      \* is the lock taken
    owner,       \* the hart that took it last (meaningful only while locked)
    lock_event   \* a delta notification of lock_event is outstanding

lockVars == <<locked, owner, lock_event>>

LockTypeOK ==
    /\ locked \in BOOLEAN
    /\ owner \in Hart
    /\ lock_event \in BOOLEAN

LockInit ==
    /\ locked = FALSE
    /\ owner \in Hart
    /\ lock_event = FALSE

(* bus_lock_if::is_locked(hart_id). *)
IsLocked(h) == locked /\ owner = h

(* Mutant: nobody waits for the lock. *)
MustWaitMutant(h) == FALSE

(* The condition under which lock() and wait_for_access_rights() wait.     *)
MustWait(h) == locked /\ owner # h

(* Mutant: lock() forgets to take the lock. *)
LockMutant(h) ==
    /\ ~MustWait(h)
    /\ owner' = h
    /\ UNCHANGED <<locked, lock_event>>

(* BusLock::lock, once the waiting loop is over.                           *)
Lock(h) ==
    /\ ~MustWait(h)
    /\ locked' = TRUE
    /\ owner' = h
    /\ UNCHANGED lock_event

(* Mutant: unlock() does not notify lock_event. *)
UnlockMutant(h) ==
    /\ locked' = (locked /\ owner # h)
    /\ UNCHANGED <<owner, lock_event>>

(* BusLock::unlock: a no-op for everybody but the owner.                   *)
Unlock(h) ==
    IF IsLocked(h)
    THEN /\ locked' = FALSE
         /\ lock_event' = TRUE
         /\ UNCHANGED owner
    ELSE UNCHANGED lockVars
=============================================================================

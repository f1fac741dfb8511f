---------------------------- MODULE MCGDBServer -----------------------------
(* Model checking of GDBServer: the vCont packets of the client.             *)
EXTENDS GDBServer

Action(single, tid) == [single |-> single, tid |-> tid]

(* Continue all, step one and continue the others, step all, continue one, an *)
(* action for a thread that does not exist after one that does.            *)
MCVConts ==
    {<<Action(FALSE, GDB_THREAD_ALL)>>,
     <<Action(TRUE, 1), Action(FALSE, GDB_THREAD_ALL)>>,
     <<Action(TRUE, GDB_THREAD_ALL)>>,
     <<Action(FALSE, 2)>>,
     <<Action(TRUE, 1), Action(FALSE, NumHarts + 1)>>,
     <<Action(TRUE, GDB_THREAD_ANY), Action(TRUE, 1), Action(FALSE, 1)>>}
=============================================================================

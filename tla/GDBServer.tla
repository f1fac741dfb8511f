----------------------------- MODULE GDBServer ------------------------------
(* The debugger (core/common/gdb-mc): the host thread that reads packets     *)
(* from the connection, the SystemC thread run() that handles them, and one  *)
(* GDBServerRunner for each hart, which runs its hart when its run event is  *)
(* notified and notifies its stop event when the hart has stopped.           *)
(*                                                                           *)
(* SystemC processes are coroutines: what one does between two waits is not  *)
(* interleaved with the others. `cpu' is the process that has not waited     *)
(* yet, when a wait-free stretch is more than one action. A notification     *)
(* reaches only a process that is waiting for it.                            *)
EXTENDS Integers, Sequences

CONSTANTS NumHarts,
          VConts       \* the vCont packets of the client: sequences of [single, tid]

(* An action is a step or not, for all threads, any, or one that need not    *)
(* exist. The parser accepts no vCont without an action.                     *)
Actions == [single : BOOLEAN, tid : -1 .. NumHarts + 1]

ASSUME DebugAssumption ==
    /\ NumHarts \in Nat \ {0}
    /\ \A v \in VConts : v \in Seq(Actions) /\ v # <<>>

Harts == 1 .. NumHarts
None == 0
Server == NumHarts + 1
GDB_THREAD_ANY == 0
GDB_THREAD_ALL == -1

VARIABLES
    software,    \* what the guest and the client do: a member of Kinds
    conn,        \* the connection: "none", "open", or "eof" when the client closed it
    net,         \* the packet on its way to the server, or NoPacket
    disp,        \* where the thread in serve() and dispatch() is
    mtx,         \* mtx is locked
    pktq,        \* packets handed to run()
    srv,         \* where run() is
    todo,        \* the actions of the vCont that are left
    matched,     \* the harts that an action named
    hartsrun,    \* run_threads: the harts, the next to look at, and their statuses
    looked,
    orig_status,
    stopped,     \* stopped_thread
    single_run,
    g,           \* thread_ops['g']
    status,      \* CoreExecStatus of each hart
    runner,      \* where GDBServerRunner::run of each hart is
    lock,        \* the hart that holds the bus lock between LR and SC
    cpu

serverVars == <<todo, matched, hartsrun, looked, orig_status, stopped, single_run, g>>
hartVars == <<status, runner, lock>>
vars == <<software, conn, net, disp, mtx, pktq, srv, serverVars, hartVars, cpu>>

(* Plain programs and clients, and what makes a session hard: stops between *)
(* LR and SC; the end of the program while the debugger stops the harts; a  *)
(* packet sooner than the harts reach the end of their quantum.             *)
Kinds == {"plain", "lrsc", "exit", "eager"}
Packet(kind, actions) == [kind |-> kind, actions |-> actions]
NoPacket == Packet("none", <<>>)
Commands == {"ack", "nack", "bad", "unknown", "read", "setThread"}

Init ==
    /\ software \in Kinds
    /\ conn = "none" /\ net = NoPacket /\ disp = "accept"
    /\ mtx = FALSE /\ pktq = <<>>
    /\ srv = "wait"
    /\ todo = <<>> /\ matched = {} /\ hartsrun = <<>> /\ looked = 1
    /\ orig_status = [h \in Harts |-> "Runnable"]
    /\ stopped = None /\ single_run = FALSE /\ g = GDB_THREAD_ANY
    /\ status = [h \in Harts |-> "Runnable"]
    /\ runner = [h \in Harts |-> "idle"]
    /\ lock = None /\ cpu = None

-----------------------------------------------------------------------------
(* The client connects, sends a packet, or closes the connection. *)
Client ==
    /\ \/ conn = "none" /\ conn' = "open" /\ UNCHANGED net
       \/ /\ conn = "open" /\ net = NoPacket
          /\ net' \in {Packet(c, <<>>) : c \in Commands} \cup {Packet("vCont", v) : v \in VConts}
          /\ UNCHANGED conn
       \/ conn = "open" /\ net = NoPacket /\ conn' = "eof" /\ UNCHANGED net
    /\ UNCHANGED <<software, disp, mtx, pktq, srv, serverVars, hartVars, cpu>>

(* serve() and dispatch(): accept, then take the mutex before each packet. *)
Accept ==
    /\ disp = "accept" /\ conn = "open"
    /\ disp' = "lock"
    /\ UNCHANGED <<software, conn, net, mtx, pktq, srv, serverVars, hartVars, cpu>>

Lock ==
    /\ disp = "lock" /\ ~mtx
    /\ disp' = "parse" /\ mtx' = TRUE
    /\ UNCHANGED <<software, conn, net, pktq, srv, serverVars, hartVars, cpu>>

(* gdb_parse_pkt returns a packet, which run() unlocks the mutex for, or   *)
(* fails at the end of the stream.                                         *)
Dispatch ==
    /\ disp = "parse"
    /\ \/ /\ net # NoPacket
          /\ pktq' = Append(pktq, net) /\ net' = NoPacket
          /\ disp' = "lock"
          /\ UNCHANGED <<conn, mtx>>
       \/ /\ net = NoPacket /\ conn = "eof"
          /\ mtx' = FALSE /\ conn' = "none" /\ disp' = "accept"
          /\ UNCHANGED <<net, pktq>>
    /\ UNCHANGED <<software, srv, serverVars, hartVars, cpu>>

-----------------------------------------------------------------------------
(* run(), woken by asyncEvent with a packet in the queue. *)
PacketDone ==
    /\ pktq' = Tail(pktq)
    /\ mtx' = FALSE

(* With no eager client, every runner has come back to its run event.      *)
Woken ==
    /\ srv = "wait" /\ cpu = None /\ pktq # <<>>
    /\ software = "eager" \/ \A h \in Harts : runner[h] \in {"idle", "gone"}

get_threads(id) ==
    CASE id = GDB_THREAD_ANY -> <<1>>
      [] id = GDB_THREAD_ALL -> [i \in Harts |-> i]
      [] OTHER -> <<id>>

(* ACK, NACK with retransmit, a packet that does not parse, an unknown     *)
(* command, and the handlers that only read the stopped harts or memory.   *)
HandleCommand ==
    /\ Woken
    /\ Head(pktq).kind \in Commands
    /\ g' \in IF Head(pktq).kind = "setThread" THEN -1 .. NumHarts ELSE {g}
    /\ PacketDone
    /\ UNCHANGED <<software, conn, net, disp, srv, todo, matched, hartsrun, looked, orig_status,
                   stopped, single_run, hartVars, cpu>>

(* Mutant: the mutex is released when the handler starts. *)
HandleVContMutant ==
    /\ Woken /\ Head(pktq).kind = "vCont"
    /\ todo' = Head(pktq).actions /\ matched' = {} /\ stopped' = None
    /\ srv' = "launch" /\ cpu' = Server /\ mtx' = FALSE
    /\ UNCHANGED <<software, conn, net, disp, pktq, hartsrun, looked, orig_status, single_run, g,
                   hartVars>>

HandleVCont ==
    /\ Woken /\ Head(pktq).kind = "vCont"
    /\ todo' = Head(pktq).actions /\ matched' = {} /\ stopped' = None
    /\ srv' = "launch" /\ cpu' = Server
    /\ UNCHANGED <<software, conn, net, disp, mtx, pktq, hartsrun, looked, orig_status, single_run,
                   g, hartVars>>

(* The local variables of vCont and run_threads end. *)
EndOfVCont ==
    /\ todo' = <<>> /\ matched' = {} /\ hartsrun' = <<>> /\ looked' = 1 /\ stopped' = None
    /\ orig_status' = [h \in Harts |-> "Runnable"]

(* vCont erases the harts that an earlier action named. *)
Unmatched(threads) ==
    LET run[i \in 0 .. Len(threads)] ==
            IF i = 0 THEN <<>>
            ELSE IF threads[i] \in matched THEN run[i - 1] ELSE Append(run[i - 1], threads[i])
    IN  run[Len(threads)]

(* One action of vCont: the harts that no earlier action named, and in     *)
(* run_threads their run events, then the wait for the first stop event.   *)
Launch ==
    LET action == Head(todo)
        run == Unmatched(get_threads(action.tid))
        Notified(h) == (\E i \in DOMAIN run : run[i] = h) /\ runner[h] = "idle"
    IN /\ srv = "launch" /\ todo # <<>> /\ action.tid <= NumHarts
       /\ todo' = Tail(todo)
       /\ matched' = IF action.tid > 0 THEN matched \cup {action.tid} ELSE matched
       /\ \/ run = <<>> /\ UNCHANGED <<srv, hartsrun, looked, single_run, runner, cpu>>
          \/ /\ run # <<>>
             /\ hartsrun' = run /\ looked' = 1 /\ single_run' = action.single
             /\ runner' = [h \in Harts |-> IF Notified(h) THEN "start" ELSE runner[h]]
             /\ srv' = "first" /\ cpu' = None
       /\ UNCHANGED <<software, conn, net, disp, mtx, pktq, orig_status, stopped, g, status, lock>>

(* get_threads throws for an unknown thread: E01, and vCont returns.       *)
Reject ==
    /\ srv = "launch" /\ todo # <<>> /\ Head(todo).tid > NumHarts
    /\ srv' = "wait" /\ cpu' = None
    /\ PacketDone
    /\ EndOfVCont
    /\ UNCHANGED <<software, conn, net, disp, single_run, g, hartVars>>

(* The stop event wakes the server: it looks at the harts from `looked' on. *)
Resume ==
    /\ srv = "woken" /\ cpu = None
    /\ srv' = "check" /\ cpu' = Server
    /\ UNCHANGED <<software, conn, net, disp, mtx, pktq, serverVars, hartVars>>

(* Mutant: a running hart is told to stop and not waited for. *)
CheckMutant ==
    /\ srv = "check" /\ looked <= Len(hartsrun)
    /\ LET h == hartsrun[looked]
       IN /\ orig_status' = [orig_status EXCEPT ![h] = status[h]]
          /\ looked' = looked + 1
          /\ status' = [status EXCEPT ![h] = IF @ = "Runnable" THEN "HitBreakpoint" ELSE @]
    /\ UNCHANGED <<software, conn, net, disp, mtx, pktq, srv, todo, matched, hartsrun, stopped,
                   single_run, g, runner, lock, cpu>>

Check ==
    /\ srv = "check" /\ looked <= Len(hartsrun)
    /\ LET h == hartsrun[looked]
       IN /\ orig_status' = [orig_status EXCEPT ![h] = status[h]]
          /\ looked' = looked + 1
          /\ \/ status[h] # "Runnable" /\ UNCHANGED <<status, srv, cpu>>
             \/ /\ status[h] = "Runnable"
                /\ status' = [status EXCEPT ![h] = "HitBreakpoint"]
                /\ srv' = "stopping" /\ cpu' = None
    /\ UNCHANGED <<software, conn, net, disp, mtx, pktq, todo, matched, hartsrun, stopped, single_run,
                   g, runner, lock>>

(* Mutant: the statuses are restored before vCont looks at them, and a     *)
(* hart at a breakpoint is forgotten.                                      *)
RestoreMutant ==
    /\ srv = "check" /\ looked > Len(hartsrun)
    /\ status' = [h \in Harts |-> IF status[h] = "HitBreakpoint" THEN "Runnable" ELSE status[h]]
    /\ stopped' = IF \E h \in Harts : status[h] = "Terminated" THEN 1 ELSE stopped
    /\ srv' = "launch"
    /\ UNCHANGED <<software, conn, net, disp, mtx, pktq, todo, matched, hartsrun, looked,
                   orig_status, single_run, g, runner, lock, cpu>>

(* vCont marks the harts at a breakpoint runnable again and remembers the  *)
(* last hart that stopped by itself.                                       *)
MarkedRunnable(h) == IF orig_status[h] = "Terminated" THEN "Terminated" ELSE "Runnable"
StoppedThread(found) == IF found = {} THEN stopped ELSE CHOOSE h \in found : \A k \in found : k <= h

(* run_threads restores the statuses, and vCont goes through them.         *)
Restore ==
    LET inRun == {hartsrun[i] : i \in DOMAIN hartsrun}
    IN /\ srv = "check" /\ looked > Len(hartsrun)
       /\ status' = [h \in Harts |-> IF h \in inRun THEN MarkedRunnable(h) ELSE status[h]]
       /\ stopped' = StoppedThread({h \in inRun : orig_status[h] # "Runnable"})
       /\ srv' = "launch"
       /\ UNCHANGED <<software, conn, net, disp, mtx, pktq, todo, matched, hartsrun, looked,
                      orig_status, single_run, g, runner, lock, cpu>>

(* The end of vCont, after the assert on stop_reason: the stop reply.      *)
Reply ==
    /\ srv = "launch" /\ todo = <<>> /\ stopped # None
    /\ g' = stopped
    /\ srv' = "wait" /\ cpu' = None
    /\ PacketDone
    /\ EndOfVCont
    /\ UNCHANGED <<software, conn, net, disp, single_run, hartVars>>

-----------------------------------------------------------------------------
(* GDBServerRunner::run and the part of ISS::run that it depends on.       *)

(* Mutant: nobody is woken by a hart that stops because it was told to. *)
NotifyStopMutant(h) ==
    srv' = IF srv = "first" /\ (\E i \in DOMAIN hartsrun : hartsrun[i] = h) THEN "woken" ELSE srv

(* stop_event->notify(). *)
NotifyStop(h) ==
    srv' = IF \/ srv = "first" /\ (\E i \in DOMAIN hartsrun : hartsrun[i] = h)
              \/ srv = "stopping" /\ hartsrun[looked - 1] = h
           THEN "woken" ELSE srv

Comes(h, back) ==
    /\ runner' = [runner EXCEPT ![h] = IF back = "Terminated" THEN "gone" ELSE "idle"]
    /\ NotifyStop(h)

hartKeeps == UNCHANGED <<software, conn, net, disp, mtx, pktq, serverVars>>

Turn(h) == cpu \in {None, h}

(* The hart is about to begin a run_step. *)
AtStep(h) == runner[h] = "start" \/ (runner[h] = "exec" /\ status[h] = "Runnable")

(* run_step finds a breakpoint at pc: the single step is over, or run()    *)
(* leaves its loop for the final sync.                                     *)
HitBreakpoint(h) ==
    /\ Turn(h)
    /\ AtStep(h)
    /\ status' = [status EXCEPT ![h] = "HitBreakpoint"]
    /\ \/ single_run /\ Comes(h, "HitBreakpoint")
       \/ ~single_run /\ runner' = [runner EXCEPT ![h] = "final"] /\ UNCHANGED srv
    /\ cpu' = None
    /\ UNCHANGED lock /\ hartKeeps

(* run_step executes an instruction that finds the bus locked. *)
Block(h) ==
    /\ cpu = None
    /\ AtStep(h)
    /\ lock \notin {None, h}
    /\ runner' = [runner EXCEPT ![h] = "bus"]
    /\ UNCHANGED <<srv, status, lock, cpu>> /\ hartKeeps

(* An instruction: LR takes the bus lock and is not followed by a sync, SC *)
(* or the limit of instructions after LR gives it back; the program may    *)
(* end. Afterwards a single step is over, or the loop goes on.             *)
Execute(h) ==
    /\ Turn(h)
    /\ AtStep(h) \/ (runner[h] = "bus" /\ lock = None)
    /\ \E i \in {"other", "LR", "SC", "exit"} :
        /\ i = "LR" => software = "lrsc" /\ lock = None
        /\ i = "SC" <=> lock = h
        /\ i = "exit" => software = "exit"
        /\ lock' = IF i = "LR" THEN h ELSE IF i = "SC" THEN None ELSE lock
        /\ status' = IF i = "exit" THEN [status EXCEPT ![h] = "Terminated"] ELSE status
        /\ runner' = [runner EXCEPT ![h] = IF single_run THEN "stepped" ELSE "exec"]
        /\ cpu' = IF i = "LR" THEN h ELSE None
    /\ UNCHANGED srv /\ hartKeeps

(* The end of a single step. *)
StepDone(h) ==
    /\ Turn(h)
    /\ runner[h] = "stepped"
    /\ status' = [status EXCEPT ![h] = IF @ = "Runnable" THEN "HitBreakpoint" ELSE @]
    /\ Comes(h, status[h])
    /\ cpu' = None
    /\ UNCHANGED lock /\ hartKeeps

(* run() sees that the status is not Runnable, and syncs. *)
LeaveLoop(h) ==
    /\ Turn(h)
    /\ runner[h] = "exec" /\ status[h] # "Runnable"
    /\ runner' = [runner EXCEPT ![h] = "final"]
    /\ cpu' = None
    /\ UNCHANGED <<srv, status, lock>> /\ hartKeeps

RunDone(h) ==
    /\ cpu = None
    /\ runner[h] = "final"
    /\ Comes(h, status[h])
    /\ UNCHANGED <<status, lock, cpu>> /\ hartKeeps

HartStep(h) ==
    HitBreakpoint(h) \/ Block(h) \/ Execute(h) \/ StepDone(h) \/ LeaveLoop(h) \/ RunDone(h)

ServerStep ==
    HandleCommand \/ HandleVCont \/ Launch \/ Reject \/ Resume \/ Check \/ Restore \/ Reply

Next ==
    \/ Client \/ Accept \/ Lock \/ Dispatch
    \/ ServerStep
    \/ \E h \in Harts : HartStep(h)

Spec == Init /\ [][Next]_vars

(* The kernel runs every process that is runnable at each of its waits,    *)
(* and a hart keeps the bus lock through no wait, so a process that is     *)
(* ready again and again between them is run: strong fairness.             *)
Fairness ==
    /\ SF_vars(ServerStep)
    /\ \A h \in Harts : SF_vars(HartStep(h))

FairSpec == Spec /\ Fairness

-----------------------------------------------------------------------------
(* Properties.                                                             *)

(* All-stop mode: while no vCont is being handled, when the client reads   *)
(* registers and memory, no hart is executing instructions or waits for    *)
(* the bus in one; a hart may at most be in the sync after its last one.   *)
StopMeansStopped == srv = "wait" => \A h \in Harts : ~AtStep(h) /\ runner[h] # "bus"

(* The mutex, which the host thread locks and run() unlocks, hands over    *)
(* one packet at a time: while one is queued or being handled, the host    *)
(* thread waits, so the connection that run() answers on is open.          *)
OnePacketAtATime ==
    pktq # <<>> => Len(pktq) = 1 /\ mtx /\ disp = "lock" /\ conn # "none"

(* assert(stop_reason && stopped_thread >= 1) at the end of vCont.         *)
VContFindsReason == srv = "launch" /\ todo = <<>> => stopped # None

(* run_threads returns once a hart has stopped, when no hart stops between *)
(* LR and SC, none ends its program, and the client waits for the sync.    *)
RunThreadsReturns ==
    (software = "plain" /\ srv = "woken") ~> (srv \in {"launch", "wait"})

(* "ensure that all running harts are stopped": with breakpoints between   *)
(* LR and SC too.                                                          *)
AllHartsAreStopped ==
    (software = "lrsc" /\ srv = "woken") ~> (srv \in {"launch", "wait"})
=============================================================================

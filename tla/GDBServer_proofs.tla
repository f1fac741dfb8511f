-------------------------- MODULE GDBServer_proofs ---------------------------
(* Proofs about the debugger, for any number of harts, any client and any    *)
(* software: the hand-over of packets between the host thread and the SystemC *)
(* thread, and the harts that run_threads starts and stops.                  *)
EXTENDS GDBServer, SequenceTheorems, NaturalsInduction, WellFoundedInduction, TLAPS

(* The queue holds at most one packet. *)
AtMostOne == pktq = <<>> \/ \E p : pktq = <<p>>

(* A queued packet keeps the mutex locked and the host thread before it. *)
QueueLocks == pktq # <<>> => mtx /\ disp = "lock"

(* The host thread parses with the mutex and an empty queue. *)
ParsesAlone == disp = "parse" => mtx /\ pktq = <<>>

(* The connection is there until the host thread has seen its end. *)
Connected == disp # "accept" => conn # "none"

(* run() keeps the packet in the queue while it handles it. *)
HandlesHead == srv # "wait" => pktq # <<>>

IInv == AtMostOne /\ QueueLocks /\ ParsesAlone /\ Connected /\ HandlesHead

handOver == <<conn, disp, mtx, pktq>>

(* Taking the only packet leaves the queue empty (std::queue::pop). *)
LEMMA PopEmpties == ASSUME AtMostOne, pktq # <<>> PROVE Tail(pktq) = <<>>
<1>1. PICK p : pktq = <<p>>
  BY DEF AtMostOne
<1>2. pktq \in Seq({p}) /\ Len(pktq) = 1
  BY <1>1
<1>3. Tail(pktq) \in Seq({p}) /\ Len(Tail(pktq)) = 0
  BY <1>2
<1> QED
  BY <1>3, EmptySeq

(* The end of a packet in run(), whatever handled it. *)
LEMMA DonePreserves ==
    ASSUME IInv, pktq # <<>>, PacketDone, srv' = "wait", UNCHANGED <<conn, disp>>
    PROVE  IInv'
<1>1. pktq' = <<>>
  BY PopEmpties DEF PacketDone, IInv
<1> QED
  BY <1>1 DEF IInv, AtMostOne, QueueLocks, ParsesAlone, Connected, HandlesHead, PacketDone

(* Steps that leave the hand-over alone. *)
LEMMA OthersPreserve ==
    ASSUME IInv, UNCHANGED handOver, srv' # "wait" => pktq # <<>>
    PROVE  IInv'
  BY DEF IInv, AtMostOne, QueueLocks, ParsesAlone, Connected, HandlesHead, handOver

LEMMA InitInv == Init => IInv
  BY DEF Init, IInv, AtMostOne, QueueLocks, ParsesAlone, Connected, HandlesHead

(* The steps of the client and of the host thread. *)
LEMMA HostPreserves == ASSUME IInv, Client \/ Accept \/ Lock \/ Dispatch PROVE IInv'
<1> USE DEF IInv, AtMostOne, QueueLocks, ParsesAlone, Connected, HandlesHead
<1>1. CASE Client
  BY <1>1 DEF Client
<1>2. CASE Accept
  BY <1>2 DEF Accept
<1>3. CASE Lock
  BY <1>3 DEF Lock
<1>4. CASE Dispatch
  <2>1. CASE net # NoPacket
    <3>1. /\ pktq = <<>> /\ pktq' = Append(pktq, net)
          /\ disp = "parse" /\ disp' = "lock" /\ UNCHANGED <<conn, mtx, srv>>
      BY <1>4, <2>1 DEF Dispatch
    <3>2. Append(<<>>, net) = <<net>>
      OBVIOUS
    <3> QED
      BY <3>1, <3>2
  <2>2. CASE net = NoPacket
    BY <1>4, <2>2 DEF Dispatch
  <2> QED
    BY <2>1, <2>2
<1> QED
  BY <1>1, <1>2, <1>3, <1>4

(* The steps of run(). *)
LEMMA ServerPreserves == ASSUME IInv, ServerStep PROVE IInv'
<1>1. CASE HandleCommand
  <2>1. pktq # <<>> /\ srv' = "wait"
    BY <1>1 DEF HandleCommand, Woken
  <2> QED
    BY <1>1, <2>1, DonePreserves DEF HandleCommand
<1>2. CASE HandleVCont
  BY <1>2, OthersPreserve DEF HandleVCont, Woken, handOver
<1>3. CASE Launch
  <2>1. UNCHANGED handOver /\ srv = "launch"
    BY <1>3 DEF Launch, handOver
  <2> QED
    BY <2>1, OthersPreserve DEF IInv, HandlesHead
<1>4. CASE Reject
  <2>1. pktq # <<>>
    BY <1>4 DEF Reject, IInv, HandlesHead
  <2> QED
    BY <1>4, <2>1, DonePreserves DEF Reject
<1>5. CASE Resume
  BY <1>5, OthersPreserve DEF Resume, handOver, IInv, HandlesHead
<1>6. CASE Check
  <2>1. UNCHANGED handOver /\ srv = "check"
    BY <1>6 DEF Check, handOver
  <2> QED
    BY <2>1, OthersPreserve DEF IInv, HandlesHead
<1>7. CASE Restore
  <2>1. UNCHANGED handOver /\ srv = "check"
    BY <1>7 DEF Restore, handOver
  <2> QED
    BY <2>1, OthersPreserve DEF IInv, HandlesHead
<1>8. CASE Reply
  <2>1. pktq # <<>>
    BY <1>8 DEF Reply, IInv, HandlesHead
  <2> QED
    BY <1>8, <2>1, DonePreserves DEF Reply
<1> QED
  BY <1>1, <1>2, <1>3, <1>4, <1>5, <1>6, <1>7, <1>8 DEF ServerStep

(* The stop event wakes run() only out of a wait in run_threads. *)
LEMMA NotifyWhileHandling == ASSUME NEW h, NotifyStop(h) PROVE srv' # "wait" => srv # "wait"
  BY DEF NotifyStop

(* The steps of the runners and their harts. *)
LEMMA HartPreserves == ASSUME IInv, NEW h \in Harts, HartStep(h) PROVE IInv'
<1>1. UNCHANGED handOver
  BY DEF HartStep, HitBreakpoint, Block, Execute, StepDone, LeaveLoop, RunDone, hartKeeps, handOver
<1>2. srv' # "wait" => srv # "wait"
  BY NotifyWhileHandling DEF HartStep, HitBreakpoint, Block, Execute, StepDone, LeaveLoop, RunDone, Comes
<1> QED
  BY <1>1, <1>2, OthersPreserve DEF IInv, HandlesHead

LEMMA NextInv == IInv /\ [Next]_vars => IInv'
<1> SUFFICES ASSUME IInv, [Next]_vars PROVE IInv'
  OBVIOUS
<1>1. CASE UNCHANGED vars
  BY <1>1, OthersPreserve DEF vars, handOver, IInv, HandlesHead
<1> QED
  BY <1>1, HostPreserves, ServerPreserves, HartPreserves DEF Next

(* The mutex that gdb_server.cpp:246 locks in one thread and :324 unlocks  *)
(* in another hands over one packet at a time, and the connection outlives *)
(* its handling: for any number of harts and every behaviour of client,    *)
(* software and scheduler.                                                 *)
THEOREM OnePacketTheorem == Spec => []OnePacketAtATime
<1>1. IInv => OnePacketAtATime
  BY DEF IInv, AtMostOne, QueueLocks, Connected, OnePacketAtATime
<1> QED
  BY <1>1, InitInv, NextInv, PTL DEF Spec

-----------------------------------------------------------------------------
(* Induction over the naturals, from the well-foundedness of their order. *)
LEMMA Induction ==
    ASSUME NEW T \in SUBSET Nat, 0 \in T, \A n \in T : n + 1 \in T
    PROVE  T = Nat
<1> SUFFICES ASSUME Nat \ T # {} PROVE FALSE
  OBVIOUS
<1>1. IsWellFoundedOn(OpToRel(<, Nat), Nat)
  BY NatLessThanWellFounded
<1>2. PICK m \in Nat \ T : \A k \in Nat \ T : ~ (<<k, m>> \in OpToRel(<, Nat))
  BY <1>1, WFMin
<1>3. m # 0 /\ m - 1 \in Nat /\ m - 1 < m /\ (m - 1) + 1 = m
  OBVIOUS
<1>4. m - 1 \in T
  BY <1>2, <1>3 DEF OpToRel
<1> QED
  BY <1>2, <1>3, <1>4

(* A set of harts that is not empty has a last member: its least bound. *)
LEMMA LastHart ==
    ASSUME NEW H \in SUBSET Harts, H # {}
    PROVE  \E h \in H : \A k \in H : k <= h
<1> DEFINE Bounds == {n \in Nat : \A h \in H : h <= n}
<1>1. NumHarts \in Bounds
  BY DebugAssumption DEF Harts
<1>2. PICK m \in Bounds : \A k \in Bounds : ~ (<<k, m>> \in OpToRel(<, Nat))
  <2>1. IsWellFoundedOn(OpToRel(<, Nat), Nat)
    BY NatLessThanWellFounded
  <2> QED
    BY <1>1, <2>1, WFMin
<1>3. SUFFICES m \in H
  OBVIOUS
<1>4. SUFFICES ASSUME m \notin H PROVE FALSE
  OBVIOUS
<1>5. \A h \in H : h \in Nat /\ h >= 1 /\ h <= m /\ h # m
  BY <1>4, DebugAssumption DEF Harts
<1>6. m - 1 \in Bounds /\ m - 1 < m
  BY <1>5
<1> QED
  BY <1>2, <1>6 DEF OpToRel

(* The loop of vCont over the first n threads of ts, without those in m. *)
Kept(ts, m, i, seq) == IF ts[i] \in m THEN seq ELSE Append(seq, ts[i])
Erasing(ts, m, n, f) == [i \in 0 .. n |-> IF i = 0 THEN <<>> ELSE Kept(ts, m, i, f[i - 1])]
Erased(ts, m, n) == CHOOSE f : f = Erasing(ts, m, n, f)

LEMMA ErasedExists ==
    ASSUME NEW ts, NEW m, NEW n \in Nat
    PROVE  Erased(ts, m, n) = Erasing(ts, m, n, Erased(ts, m, n))
<1> DEFINE T == {k \in Nat : \E f : f = Erasing(ts, m, k, f)}
<1>1. 0 \in T
  <2> DEFINE f == [i \in 0 .. 0 |-> <<>>]
  <2>1. f = Erasing(ts, m, 0, f)
    BY DEF Erasing
  <2> QED
    BY <2>1
<1>2. ASSUME NEW k \in T PROVE k + 1 \in T
  <2>1. PICK f : f = Erasing(ts, m, k, f)
    OBVIOUS
  <2> DEFINE e == [i \in 0 .. k + 1 |-> IF i = k + 1 THEN Kept(ts, m, i, f[k]) ELSE f[i]]
  <2>2. \A i \in 0 .. k : f[i] = IF i = 0 THEN <<>> ELSE Kept(ts, m, i, f[i - 1])
    BY <2>1 DEF Erasing
  <2>3. \A i \in 0 .. k : e[i] = f[i]
    OBVIOUS
  <2>4. \A i \in 0 .. k + 1 : e[i] = IF i = 0 THEN <<>> ELSE Kept(ts, m, i, e[i - 1])
    <3> TAKE i \in 0 .. k + 1
    <3>1. CASE i = 0
      BY <2>2, <3>1
    <3>2. CASE i \in 1 .. k
      <4>1. e[i] = f[i] /\ e[i - 1] = f[i - 1]
        BY <2>3, <3>2
      <4> HIDE DEF e
      <4> QED
        BY <2>2, <3>2, <4>1
    <3>3. CASE i = k + 1
      <4>1. e[i] = Kept(ts, m, i, f[k]) /\ e[i - 1] = f[k]
        BY <2>3, <3>3
      <4> HIDE DEF e
      <4> QED
        BY <3>3, <4>1
    <3> QED
      BY <3>1, <3>2, <3>3
  <2>5. e = Erasing(ts, m, k + 1, e)
    BY <2>4 DEF Erasing
  <2> QED
    BY <2>5
<1>3. T = Nat
  BY <1>1, <1>2, Induction
<1>4. \E f : f = Erasing(ts, m, n, f)
  BY <1>3
<1> QED
  BY <1>4 DEF Erased

(* What is kept are threads of the list, and all of them when no earlier   *)
(* action named one.                                                       *)
LEMMA UnmatchedThreads ==
    ASSUME NEW S, NEW ts \in Seq(S)
    PROVE  /\ Unmatched(ts) \in Seq(S)
           /\ matched = {} => Len(Unmatched(ts)) = Len(ts)
<1> DEFINE n == Len(ts)
           f == Erased(ts, matched, n)
           Good(k) == /\ f[k] \in Seq(S)
                      /\ matched = {} => Len(f[k]) = k
           T == {k \in Nat : k <= n => Good(k)}
           Body(r) == [i \in 0 .. Len(ts) |-> IF i = 0 THEN <<>>
                            ELSE IF ts[i] \in matched THEN r[i - 1] ELSE Append(r[i - 1], ts[i])]
<1>1. Unmatched(ts) = f[n]
  <2>1. Unmatched(ts) = (CHOOSE r : r = Body(r))[n]
    BY DEF Unmatched
  <2>2. ASSUME NEW r PROVE Body(r) = Erasing(ts, matched, n, r)
    BY DEF Erasing, Kept
  <2> HIDE DEF Body
  <2>3. (CHOOSE r : r = Body(r)) = CHOOSE r : r = Erasing(ts, matched, n, r)
    BY <2>2
  <2> QED
    BY <2>1, <2>3 DEF Erased
<1>2. n \in Nat
  OBVIOUS
<1>3. \A i \in 0 .. n : f[i] = IF i = 0 THEN <<>> ELSE Kept(ts, matched, i, f[i - 1])
  <2>1. f = [i \in 0 .. n |-> IF i = 0 THEN <<>> ELSE Kept(ts, matched, i, f[i - 1])]
    BY <1>2, ErasedExists DEF Erasing
  <2> HIDE DEF f
  <2> QED
    BY <2>1
<1> HIDE DEF f
<1>4. 0 \in T
  <2>1. f[0] = <<>>
    BY <1>2, <1>3
  <2>2. f[0] \in Seq(S) /\ Len(f[0]) = 0
    BY <2>1
  <2> QED
    BY <2>2
<1>5. ASSUME NEW k \in T PROVE k + 1 \in T
  <2> SUFFICES ASSUME k + 1 <= n PROVE Good(k + 1)
    OBVIOUS
  <2>1. Good(k) /\ f[k + 1] = Kept(ts, matched, k + 1, f[k])
    BY <1>2, <1>3
  <2>2. ts[k + 1] \in S
    BY <1>2
  <2> QED
    BY <2>1, <2>2 DEF Kept
<1>6. T = Nat
  BY <1>4, <1>5, Induction
<1>7. Good(n)
  BY <1>2, <1>6
<1> QED
  BY <1>1, <1>7

-----------------------------------------------------------------------------
(* Where vCont and run_threads are, and what the runners may do meanwhile.  *)

Statuses == {"Runnable", "HitBreakpoint", "Terminated"}
Places == {"idle", "start", "exec", "bus", "stepped", "final", "gone"}

(* run_threads has started its harts and not yet returned. *)
RunPhase == {"first", "woken", "check", "stopping"}

RunTypeOK ==
    /\ srv \in {"wait", "launch"} \cup RunPhase
    /\ todo \in Seq(Actions)
    /\ hartsrun \in Seq(Harts) /\ looked \in Nat \ {0}
    /\ orig_status \in [Harts -> Statuses]
    /\ stopped \in Harts \cup {None} /\ single_run \in BOOLEAN
    /\ status \in [Harts -> Statuses] /\ runner \in [Harts -> Places]

(* A packet with actions is one that the parser accepts. *)
Parsed(p) == p.kind = "vCont" => p.actions \in VConts
PacketsOK == Parsed(net) /\ \A p : pktq = <<p>> => Parsed(p)

InRun(h) == \E i \in DOMAIN hartsrun : hartsrun[i] = h

(* run_threads has not looked at the hart yet, or waits for it to stop. *)
Pending(h) == \E i \in DOMAIN hartsrun : i >= looked /\ hartsrun[i] = h
Target(h) == srv = "stopping" /\ hartsrun[looked - 1] = h

(* The hart executes instructions, or would if its status were Runnable. *)
Live(h) ==
    \/ runner[h] \in {"start", "bus"}
    \/ runner[h] \in {"exec", "stepped"} /\ status[h] # "Terminated"

(* run_threads still has to stop every hart that executes. *)
LiveOK ==
    \A h \in Harts : Live(h) =>
        /\ srv \in RunPhase
        /\ Target(h) \/ (status[h] = "Runnable" /\ Pending(h))

(* Only the harts of run_threads are at a breakpoint, and only meanwhile. *)
StatusOK == \A h \in Harts : status[h] = "HitBreakpoint" => srv \in RunPhase /\ InRun(h)

(* The runner of a program that ended does not wait for its run event. *)
IdleOK == \A h \in Harts : runner[h] = "idle" => status[h] # "Terminated"

LookedOK ==
    /\ srv = "first" => looked = 1
    /\ srv = "stopping" => /\ looked - 1 \in DOMAIN hartsrun
                           /\ orig_status[hartsrun[looked - 1]] = "Runnable"

(* What run_threads remembers of the harts it has looked at. *)
OrigOK ==
    srv \in RunPhase => \A h \in Harts : InRun(h) /\ ~Pending(h) =>
        /\ orig_status[h] # "Runnable" => status[h] = orig_status[h]
        /\ status[h] = "Terminated" /\ runner[h] \in {"exec", "stepped"} /\ ~Target(h)
             => orig_status[h] = "Terminated"

(* The hart that woke run_threads first: it has stopped by itself and will *)
(* be found so, unless run_threads waits for it in vain.                   *)
Woke(h) ==
    /\ InRun(h) /\ runner[h] \in {"idle", "gone"}
    /\ Pending(h) \/ orig_status[h] # "Runnable" \/ Target(h)
WakerOK == srv \in {"woken", "check", "stopping"} => \E h \in Harts : Woke(h)

(* Until a hart has stopped, no action has been applied. *)
ReasonOK == srv = "launch" /\ stopped = None => matched = {} /\ todo # <<>>

RunInv ==
    /\ RunTypeOK /\ LiveOK /\ StatusOK /\ IdleOK
    /\ LookedOK /\ OrigOK /\ WakerOK /\ ReasonOK

LEMMA InitRunInv == Init => RunInv
<1> SUFFICES ASSUME Init PROVE RunInv
  OBVIOUS
<1>1. RunTypeOK
  <2>1. todo \in Seq(Actions) /\ hartsrun \in Seq(Harts) /\ looked \in Nat \ {0}
    BY DEF Init
  <2>2. /\ orig_status \in [Harts -> Statuses]
        /\ status \in [Harts -> Statuses] /\ runner \in [Harts -> Places]
    BY DEF Init, Statuses, Places
  <2> QED
    BY <2>1, <2>2 DEF Init, RunTypeOK
<1>2. \A h \in Harts : runner[h] = "idle" /\ status[h] = "Runnable"
  BY DEF Init
<1>3. srv = "wait"
  BY DEF Init
<1> QED
  BY <1>1, <1>2, <1>3 DEF RunInv, LiveOK, StatusOK, IdleOK, LookedOK, OrigOK, WakerOK, ReasonOK,
     RunPhase, Live

(* Steps of others, and of the server where no hart runs. *)
LEMMA ElsewherePreserves ==
    ASSUME RunInv, UNCHANGED <<srv, todo, matched, hartsrun, looked, orig_status, stopped, single_run, status, runner>>
    PROVE  RunInv'
<1>1. RunTypeOK' /\ ReasonOK' /\ IdleOK' /\ LookedOK'
  BY DEF RunInv, RunTypeOK, ReasonOK, IdleOK, LookedOK
<1>2. \A h : (InRun(h)' <=> InRun(h)) /\ (Pending(h)' <=> Pending(h)) /\ (Target(h)' <=> Target(h))
             /\ (Live(h)' <=> Live(h)) /\ (Woke(h)' <=> Woke(h))
  BY DEF InRun, Pending, Target, Live, Woke
<1> QED
  BY <1>1, <1>2 DEF RunInv, LiveOK, StatusOK, OrigOK, WakerOK

LEMMA QuietPreserves ==
    ASSUME RunInv, srv \notin RunPhase, UNCHANGED <<status, runner>>, srv' \in {"wait", "launch"},
           RunTypeOK', ReasonOK'
    PROVE  RunInv'
<1>1. \A h \in Harts : ~Live(h) /\ status[h] # "HitBreakpoint"
  BY DEF RunInv, LiveOK, StatusOK
<1>2. \A h \in Harts : ~Live(h)' /\ status'[h] # "HitBreakpoint"
  BY <1>1 DEF Live
<1> QED
  BY <1>2 DEF RunInv, LiveOK, StatusOK, IdleOK, LookedOK, OrigOK, WakerOK, RunPhase

(* get_threads names harts, unless the thread does not exist. *)
LEMMA ThreadsAreHarts ==
    ASSUME NEW id \in -1 .. NumHarts
    PROVE  get_threads(id) \in Seq(Harts) /\ Len(get_threads(id)) # 0
<1>1. NumHarts \in Nat \ {0} /\ 1 \in Harts
  BY DebugAssumption DEF Harts
<1>2. CASE id = 0
  <2>1. get_threads(id) = <<1>>
    BY <1>2 DEF get_threads, GDB_THREAD_ANY, GDB_THREAD_ALL
  <2> QED
    BY <1>1, <2>1
<1>3. CASE id = -1
  <2>1. get_threads(id) = [i \in 1 .. NumHarts |-> i]
    BY <1>3 DEF get_threads, GDB_THREAD_ANY, GDB_THREAD_ALL, Harts
  <2>2. [i \in 1 .. NumHarts |-> i] \in Seq(Harts) /\ Len([i \in 1 .. NumHarts |-> i]) = NumHarts
    BY <1>1 DEF Harts
  <2> QED
    BY <1>1, <2>1, <2>2
<1>4. CASE id \in Harts
  <2>1. get_threads(id) = <<id>>
    BY <1>4, <1>1 DEF get_threads, GDB_THREAD_ANY, GDB_THREAD_ALL, Harts
  <2> QED
    BY <1>4, <2>1
<1> QED
  BY <1>1, <1>2, <1>3, <1>4 DEF Harts

LEMMA LaunchPreserves == ASSUME RunInv, Launch PROVE RunInv'
<1> DEFINE action == Head(todo)
           run == Unmatched(get_threads(action.tid))
<1>1. /\ srv = "launch" /\ todo # <<>> /\ action.tid <= NumHarts
      /\ todo' = Tail(todo)
      /\ matched' = IF action.tid > 0 THEN matched \cup {action.tid} ELSE matched
      /\ UNCHANGED <<orig_status, stopped, status>>
  BY DEF Launch
<1>2. todo \in Seq(Actions) /\ todo' \in Seq(Actions) /\ action \in Actions
  BY <1>1 DEF RunInv, RunTypeOK
<1>3. /\ get_threads(action.tid) \in Seq(Harts)
      /\ Len(get_threads(action.tid)) # 0
  <2>1. action.tid \in -1 .. NumHarts
    BY <1>1, <1>2, DebugAssumption DEF Actions
  <2> QED
    BY <2>1, ThreadsAreHarts
<1>4. /\ run \in Seq(Harts)
      /\ matched = {} => run # <<>>
  <2>1. run \in Seq(Harts) /\ (matched = {} => Len(run) = Len(get_threads(action.tid)))
    BY <1>3, UnmatchedThreads
  <2> QED
    BY <1>3, <2>1
<1>5. CASE run = <<>>
  <2>1. UNCHANGED <<srv, hartsrun, looked, single_run, runner>>
    BY <1>5 DEF Launch
  <2>2. stopped # None
    BY <1>1, <1>4, <1>5 DEF RunInv, ReasonOK
  <2>3. RunTypeOK' /\ ReasonOK'
    BY <1>1, <1>2, <2>1, <2>2 DEF RunInv, RunTypeOK, ReasonOK
  <2> QED
    BY <1>1, <2>1, <2>3, QuietPreserves DEF RunPhase
<1>6. CASE run # <<>>
  <2> DEFINE Notified(h) == (\E i \in DOMAIN run : run[i] = h) /\ runner[h] = "idle"
  <2>1. /\ hartsrun' = run /\ looked' = 1 /\ single_run' = action.single
        /\ runner' = [h \in Harts |-> IF Notified(h) THEN "start" ELSE runner[h]]
        /\ srv' = "first"
    BY <1>6 DEF Launch
  <2> HIDE DEF run
  <2>2. RunTypeOK'
    BY <1>1, <1>2, <1>4, <2>1 DEF RunInv, RunTypeOK, RunPhase, Places, Actions
  <2>3. \A h \in Harts : ~Live(h) /\ status[h] # "HitBreakpoint"
    BY <1>1 DEF RunInv, LiveOK, StatusOK, RunPhase
  <2>4. ASSUME NEW h \in Harts, Live(h)' PROVE status'[h] = "Runnable" /\ Pending(h)'
    <3>1. Notified(h)
      BY <1>1, <2>1, <2>3, <2>4 DEF Live
    <3>2. status[h] \in Statuses /\ status[h] # "HitBreakpoint" /\ status[h] # "Terminated"
      BY <2>3, <3>1 DEF RunInv, RunTypeOK, IdleOK
    <3>3. PICK i \in DOMAIN run : run[i] = h
      BY <3>1
    <3>4. i >= 1
      BY <1>4
    <3> QED
      BY <1>1, <2>1, <3>2, <3>3, <3>4 DEF Statuses, Pending
  <2>5. LiveOK' /\ StatusOK'
    BY <1>1, <2>1, <2>3, <2>4 DEF LiveOK, StatusOK, RunPhase
  <2>6. IdleOK'
    BY <1>1, <2>1 DEF RunInv, IdleOK
  <2>7. OrigOK'
    <3> SUFFICES ASSUME NEW h \in Harts, InRun(h)' PROVE Pending(h)'
      BY DEF OrigOK
    <3>1. PICK i \in DOMAIN hartsrun' : hartsrun'[i] = h
      BY DEF InRun
    <3>2. i >= 1
      BY <1>4, <2>1, <3>1
    <3> QED
      BY <2>1, <3>1, <3>2 DEF Pending
  <2> QED
    BY <2>1, <2>2, <2>5, <2>6, <2>7 DEF RunInv, LookedOK, WakerOK, ReasonOK
<1> QED
  BY <1>5, <1>6

LEMMA CheckPreserves == ASSUME RunInv, Check PROVE RunInv'
<1>0. PICK t : t = hartsrun[looked]
  OBVIOUS
<1>1. /\ srv = "check" /\ looked <= Len(hartsrun)
      /\ orig_status' = [orig_status EXCEPT ![t] = status[t]]
      /\ looked' = looked + 1
      /\ UNCHANGED <<todo, matched, hartsrun, stopped, single_run, runner>>
  BY <1>0 DEF Check
<1>2. \/ status[t] # "Runnable" /\ UNCHANGED <<status, srv>>
      \/ /\ status[t] = "Runnable" /\ status' = [status EXCEPT ![t] = "HitBreakpoint"]
         /\ srv' = "stopping"
  BY <1>0 DEF Check
<1>3. looked \in DOMAIN hartsrun /\ t \in Harts
  BY <1>0, <1>1 DEF RunInv, RunTypeOK
<1>4. RunTypeOK'
  BY <1>1, <1>2, <1>3 DEF RunInv, RunTypeOK, RunPhase, Statuses
<1>5. \A h : InRun(h)' <=> InRun(h)
  BY <1>1 DEF InRun
<1>6. InRun(t)
  BY <1>0, <1>3 DEF InRun
<1>7. \A h \in Harts : h # t => (Pending(h)' <=> Pending(h))
  <2> SUFFICES ASSUME NEW h \in Harts, h # t, NEW i \in DOMAIN hartsrun, hartsrun[i] = h
               PROVE  i >= looked + 1 <=> i >= looked
    BY <1>1 DEF Pending
  <2>1. i # looked /\ i \in Nat /\ looked \in Nat
    BY <1>0 DEF RunInv, RunTypeOK
  <2> QED
    BY <2>1
<1>8. \A h : ~Target(h)
  BY <1>1 DEF Target
<1>9. srv' = "stopping" => hartsrun'[looked' - 1] = t /\ looked' - 1 \in DOMAIN hartsrun'
  <2>1. (looked + 1) - 1 = looked
    BY DEF RunInv, RunTypeOK
  <2> QED
    BY <1>0, <1>1, <1>3, <2>1
<1>10. srv' = "stopping" => Target(t)' /\ \A h : h # t => ~Target(h)'
  BY <1>9 DEF Target
<1>11. srv' # "stopping" => ~Live(t)
  <2> SUFFICES ASSUME srv' # "stopping", Live(t) PROVE FALSE
    OBVIOUS
  <2>1. status[t] = "Runnable"
    BY <1>3, <1>8 DEF RunInv, LiveOK
  <2> QED
    BY <1>2, <2>1
<1>12. LiveOK'
  <2> SUFFICES ASSUME NEW h \in Harts, Live(h)'
               PROVE  srv' \in RunPhase /\ (Target(h)' \/ (status'[h] = "Runnable" /\ Pending(h)'))
    BY DEF LiveOK
  <2>1. srv' \in RunPhase
    BY <1>1, <1>2 DEF RunPhase
  <2>2. CASE h = t
    <3>1. CASE srv' = "stopping"
      BY <2>1, <2>2, <3>1, <1>10
    <3>2. CASE srv' # "stopping"
      <4>1. Live(t)
        BY <1>1, <1>2, <2>2, <3>2 DEF Live
      <4> QED
        BY <3>2, <4>1, <1>11
    <3> QED
      BY <3>1, <3>2
  <2>3. CASE h # t
    <3>1. status'[h] = status[h] /\ runner'[h] = runner[h]
      BY <1>1, <1>2, <2>3 DEF RunInv, RunTypeOK
    <3>2. status[h] = "Runnable" /\ Pending(h)
      BY <3>1, <1>8 DEF RunInv, LiveOK, Live
    <3> QED
      BY <2>1, <2>3, <3>1, <3>2, <1>7
  <2> QED
    BY <2>2, <2>3
<1>13. StatusOK'
  BY <1>1, <1>2, <1>3, <1>5, <1>6 DEF RunInv, RunTypeOK, StatusOK, RunPhase
<1>14. IdleOK'
  BY <1>1, <1>2, <1>3 DEF RunInv, RunTypeOK, IdleOK
<1>15. LookedOK'
  <2>1. srv' # "first"
    BY <1>1, <1>2
  <2>2. srv' = "stopping" => orig_status'[t] = "Runnable"
    BY <1>1, <1>2, <1>3 DEF RunInv, RunTypeOK
  <2> QED
    BY <2>1, <2>2, <1>9 DEF LookedOK
<1>16. OrigOK'
  <2> SUFFICES ASSUME NEW h \in Harts, InRun(h)', ~Pending(h)'
               PROVE  /\ orig_status'[h] # "Runnable" => status'[h] = orig_status'[h]
                      /\ status'[h] = "Terminated" /\ runner'[h] \in {"exec", "stepped"} /\ ~Target(h)'
                           => orig_status'[h] = "Terminated"
    BY DEF OrigOK
  <2>1. CASE h = t
    <3>1. orig_status'[h] = status[h]
      BY <1>1, <1>3, <2>1 DEF RunInv, RunTypeOK
    <3> QED
      BY <1>1, <1>2, <1>3, <1>10, <2>1, <3>1
  <2>2. CASE h # t
    <3>1. /\ status'[h] = status[h] /\ runner'[h] = runner[h]
          /\ orig_status'[h] = orig_status[h]
      BY <1>1, <1>2, <2>2 DEF RunInv, RunTypeOK
    <3>2. InRun(h) /\ ~Pending(h) /\ ~Target(h) /\ srv \in RunPhase
      BY <1>1, <1>5, <1>7, <1>8, <2>2 DEF RunPhase
    <3> QED
      BY <3>1, <3>2 DEF RunInv, OrigOK
  <2> QED
    BY <2>1, <2>2
<1>17. WakerOK'
  <2>1. PICK h \in Harts : Woke(h)
    BY <1>1 DEF RunInv, WakerOK
  <2>2. InRun(h)' /\ runner'[h] \in {"idle", "gone"}
    BY <1>1, <1>5, <2>1 DEF Woke
  <2>3. CASE h = t
    <3>1. orig_status'[h] = status[h]
      BY <1>1, <1>3, <2>3 DEF RunInv, RunTypeOK
    <3>2. orig_status'[h] # "Runnable" \/ Target(h)'
      BY <1>2, <1>10, <2>3, <3>1
    <3> QED
      BY <2>2, <3>2 DEF WakerOK, Woke
  <2>4. CASE h # t
    <3>1. orig_status'[h] = orig_status[h]
      BY <1>1, <2>4 DEF RunInv, RunTypeOK
    <3>2. Pending(h)' \/ orig_status'[h] # "Runnable"
      BY <1>7, <1>8, <2>1, <2>4, <3>1 DEF Woke
    <3> QED
      BY <2>2, <3>2 DEF WakerOK, Woke
  <2> QED
    BY <2>3, <2>4
<1>18. ReasonOK'
  BY <1>1, <1>2 DEF ReasonOK
<1> QED
  BY <1>4, <1>12, <1>13, <1>14, <1>15, <1>16, <1>17, <1>18 DEF RunInv

(* vCont finds a hart that stopped by itself, and remembers one. *)
LEMMA RestoreFinds ==
    ASSUME RunInv, srv = "check", looked > Len(hartsrun)
    PROVE  /\ \A h : ~Pending(h) /\ ~Target(h)
           /\ LET found == {h \in {hartsrun[i] : i \in DOMAIN hartsrun} : orig_status[h] # "Runnable"}
              IN  StoppedThread(found) \in Harts
<1>1. \A h : ~Pending(h) /\ ~Target(h)
  BY DEF Pending, Target, RunInv, RunTypeOK
<1> DEFINE found == {h \in {hartsrun[i] : i \in DOMAIN hartsrun} : orig_status[h] # "Runnable"}
<1>2. PICK h \in Harts : Woke(h)
  BY DEF RunInv, WakerOK
<1>3. h \in found
  BY <1>1, <1>2 DEF Woke, InRun
<1>4. found \in SUBSET Harts
  BY DEF RunInv, RunTypeOK
<1> HIDE DEF found
<1>5. \E j \in found : \A k \in found : k <= j
  BY <1>3, <1>4, LastHart
<1>6. StoppedThread(found) \in found
  BY <1>3, <1>5 DEF StoppedThread
<1> QED
  BY <1>1, <1>4, <1>6 DEF found

LEMMA RestorePreserves == ASSUME RunInv, Restore PROVE RunInv'
<1> DEFINE inRun == {hartsrun[i] : i \in DOMAIN hartsrun}
<1>1. /\ srv = "check" /\ looked > Len(hartsrun) /\ srv' = "launch"
      /\ status' = [h \in Harts |-> IF h \in inRun THEN MarkedRunnable(h) ELSE status[h]]
      /\ stopped' = StoppedThread({h \in inRun : orig_status[h] # "Runnable"})
      /\ UNCHANGED <<todo, matched, hartsrun, looked, orig_status, single_run, runner>>
  BY DEF Restore
<1>2. stopped' \in Harts /\ \A h : ~Pending(h) /\ ~Target(h)
  BY <1>1, RestoreFinds
<1>3. \A h : h \in inRun <=> InRun(h)
  BY DEF InRun
<1> HIDE DEF inRun
<1>4. \A h \in Harts : status'[h] = IF InRun(h) THEN MarkedRunnable(h) ELSE status[h]
  BY <1>1, <1>3
<1>5. RunTypeOK'
  BY <1>1, <1>2 DEF RunInv, RunTypeOK, Statuses, MarkedRunnable
<1>6. \A h \in Harts : ~Live(h)
  BY <1>2 DEF RunInv, LiveOK
<1>7. \A h \in Harts : ~Live(h)'
  <2> SUFFICES ASSUME NEW h \in Harts, Live(h)' PROVE FALSE
    OBVIOUS
  <2>1. runner'[h] = runner[h]
    BY <1>1
  <2>2. runner[h] \in {"exec", "stepped"} /\ status[h] = "Terminated" /\ status'[h] # "Terminated"
    BY <1>6, <2>1 DEF Live
  <2>3. InRun(h)
    BY <1>4, <2>2
  <2>4. orig_status[h] = "Terminated"
    BY <1>1, <1>2, <2>2, <2>3 DEF RunInv, OrigOK, RunPhase
  <2> QED
    BY <1>4, <2>2, <2>3, <2>4 DEF MarkedRunnable
<1>8. StatusOK'
  <2> SUFFICES ASSUME NEW h \in Harts PROVE status'[h] # "HitBreakpoint"
    BY DEF StatusOK
  <2> QED
    BY <1>4 DEF MarkedRunnable, RunInv, StatusOK
<1>9. IdleOK'
  <2> SUFFICES ASSUME NEW h \in Harts, runner'[h] = "idle", status'[h] = "Terminated" PROVE FALSE
    BY DEF IdleOK
  <2>1. runner[h] = "idle" /\ status[h] # "Terminated"
    BY <1>1 DEF RunInv, IdleOK
  <2>2. InRun(h) /\ orig_status[h] = "Terminated"
    BY <1>4, <2>1 DEF MarkedRunnable
  <2> QED
    BY <1>1, <1>2, <2>1, <2>2 DEF RunInv, OrigOK, RunPhase
<1>10. stopped' # None
  BY <1>2 DEF Harts, None
<1> QED
  BY <1>1, <1>5, <1>7, <1>8, <1>9, <1>10 DEF RunInv, LiveOK, LookedOK, OrigOK, WakerOK, ReasonOK, RunPhase

(* What a step of a hart and its runner does to the debugger. *)
HartEffect(h) ==
    /\ UNCHANGED <<todo, matched, hartsrun, looked, orig_status, stopped, single_run>>
    /\ status' \in [Harts -> Statuses] /\ runner' \in [Harts -> Places]
    /\ \A k \in Harts : k # h => status'[k] = status[k] /\ runner'[k] = runner[k]
    /\ runner[h] \notin {"idle", "gone"}
    /\ ~Live(h) => status'[h] = status[h]
    /\ Live(h)' => Live(h) /\ status'[h] = status[h] /\ srv' = srv
    /\ runner'[h] \in {"exec", "stepped"} => srv' = srv /\ (Live(h) \/ runner[h] \in {"exec", "stepped"})
    /\ runner'[h] = "idle" => status'[h] # "Terminated"
    /\ \/ srv' = srv
       \/ /\ srv' = "woken" /\ runner'[h] \in {"idle", "gone"}
          /\ (srv = "first" /\ InRun(h)) \/ Target(h)

LEMMA HartHasEffect == ASSUME RunInv, NEW h \in Harts, HartStep(h) PROVE HartEffect(h)
<1>1. UNCHANGED <<todo, matched, hartsrun, looked, orig_status, stopped, single_run>>
  BY DEF HartStep, HitBreakpoint, Block, Execute, StepDone, LeaveLoop, RunDone, hartKeeps, serverVars
<1>2. status \in [Harts -> Statuses] /\ runner \in [Harts -> Places]
  BY DEF RunInv, RunTypeOK
<1>3. ASSUME NEW back, Comes(h, back)
      PROVE  /\ runner' = [runner EXCEPT ![h] = IF back = "Terminated" THEN "gone" ELSE "idle"]
             /\ \/ srv' = srv
                \/ srv' = "woken" /\ ((srv = "first" /\ InRun(h)) \/ Target(h))
  BY <1>3 DEF Comes, NotifyStop, InRun, Target
<1>4. CASE HitBreakpoint(h)
  <2>1. AtStep(h) /\ status' = [status EXCEPT ![h] = "HitBreakpoint"]
    BY <1>4 DEF HitBreakpoint
  <2>2. Live(h) /\ runner[h] \notin {"idle", "gone"}
    BY <2>1 DEF AtStep, Live
  <2>3. \/ Comes(h, "HitBreakpoint")
        \/ runner' = [runner EXCEPT ![h] = "final"] /\ srv' = srv
    BY <1>4 DEF HitBreakpoint
  <2> QED
    BY <1>1, <1>2, <1>3, <2>1, <2>2, <2>3 DEF HartEffect, Live, Statuses, Places
<1>5. CASE Block(h)
  BY <1>1, <1>2, <1>5 DEF Block, AtStep, HartEffect, Live, Places
<1>6. CASE Execute(h)
  <2>1. Live(h) /\ runner[h] \notin {"idle", "gone"}
    BY <1>6 DEF Execute, AtStep, Live
  <2>2. /\ srv' = srv
        /\ status' = status \/ status' = [status EXCEPT ![h] = "Terminated"]
        /\ runner' = [runner EXCEPT ![h] = IF single_run THEN "stepped" ELSE "exec"]
    BY <1>6 DEF Execute
  <2>3. runner'[h] \in {"exec", "stepped"} /\ \A k \in Harts : k # h => runner'[k] = runner[k]
    BY <1>2, <2>2
  <2>4. status'[h] = status[h] \/ status'[h] = "Terminated"
    BY <1>2, <2>2
  <2> QED
    BY <1>1, <1>2, <2>1, <2>2, <2>3, <2>4 DEF HartEffect, Live, Statuses, Places
<1>7. CASE StepDone(h)
  <2>1. /\ runner[h] = "stepped"
        /\ status' = [status EXCEPT ![h] = IF status[h] = "Runnable" THEN "HitBreakpoint" ELSE status[h]]
        /\ Comes(h, status[h])
    BY <1>7 DEF StepDone
  <2> QED
    BY <1>1, <1>2, <1>3, <2>1 DEF HartEffect, Live, Statuses, Places
<1>8. CASE LeaveLoop(h)
  BY <1>1, <1>2, <1>8 DEF LeaveLoop, HartEffect, Live, Places
<1>9. CASE RunDone(h)
  <2>1. runner[h] = "final" /\ status' = status /\ Comes(h, status[h])
    BY <1>9 DEF RunDone
  <2> QED
    BY <1>1, <1>2, <1>3, <2>1 DEF HartEffect, Live, Statuses, Places
<1> QED
  BY <1>4, <1>5, <1>6, <1>7, <1>8, <1>9 DEF HartStep

LEMMA HartKeepsRunInv == ASSUME RunInv, NEW h \in Harts, HartEffect(h) PROVE RunInv'
<1>1. UNCHANGED <<todo, matched, hartsrun, looked, orig_status, stopped, single_run>>
  BY DEF HartEffect
<1>2. \A k : (InRun(k)' <=> InRun(k)) /\ (Pending(k)' <=> Pending(k))
  BY <1>1 DEF InRun, Pending
<1>3. \/ srv' = srv
      \/ /\ srv' = "woken" /\ runner'[h] \in {"idle", "gone"}
         /\ (srv = "first" /\ InRun(h)) \/ Target(h)
  BY DEF HartEffect
<1>4. \A k : Target(k) /\ k # h => Target(k)' /\ srv' = srv
  BY <1>1, <1>3 DEF Target
<1>5. \A k : Target(k)' => Target(k)
  BY <1>1, <1>3 DEF Target
<1>6. srv' = srv => \A k : Target(k) => Target(k)'
  BY <1>1 DEF Target
<1>7. srv \in RunPhase <=> srv' \in RunPhase
  BY <1>3 DEF RunPhase, Target
<1>8. \A k \in Harts : k # h => /\ status'[k] = status[k] /\ runner'[k] = runner[k]
                                /\ Live(k)' <=> Live(k)
  BY DEF HartEffect, Live
<1>9. RunTypeOK'
  BY <1>1, <1>3 DEF RunInv, RunTypeOK, RunPhase, HartEffect
<1>10. ASSUME NEW k \in Harts, Target(k) PROVE InRun(k)
  BY <1>10 DEF RunInv, LookedOK, Target, InRun
<1>11. ASSUME NEW k \in Harts, Pending(k) PROVE InRun(k)
  BY <1>11 DEF Pending, InRun
<1>12. LiveOK'
  <2> SUFFICES ASSUME NEW k \in Harts, Live(k)'
               PROVE  srv' \in RunPhase /\ (Target(k)' \/ (status'[k] = "Runnable" /\ Pending(k)'))
    BY DEF LiveOK
  <2>1. Live(k) /\ status'[k] = status[k] /\ (k = h => srv' = srv)
    BY <1>8 DEF HartEffect
  <2>2. srv \in RunPhase /\ (Target(k) \/ (status[k] = "Runnable" /\ Pending(k)))
    BY <2>1 DEF RunInv, LiveOK
  <2> QED
    BY <1>2, <1>4, <1>6, <1>7, <2>1, <2>2
<1>13. StatusOK'
  <2> SUFFICES ASSUME NEW k \in Harts, status'[k] = "HitBreakpoint" PROVE srv \in RunPhase /\ InRun(k)
    BY <1>2, <1>7 DEF StatusOK
  <2>1. Live(k) \/ status[k] = "HitBreakpoint"
    BY <1>8 DEF HartEffect
  <2> QED
    BY <2>1, <1>10, <1>11 DEF RunInv, LiveOK, StatusOK
<1>14. IdleOK'
  BY <1>8 DEF RunInv, IdleOK, HartEffect
<1>15. LookedOK'
  BY <1>1, <1>3 DEF RunInv, LookedOK
<1>16. OrigOK'
  <2> SUFFICES ASSUME srv' \in RunPhase, NEW k \in Harts, InRun(k)', ~Pending(k)'
               PROVE  /\ orig_status'[k] # "Runnable" => status'[k] = orig_status'[k]
                      /\ status'[k] = "Terminated" /\ runner'[k] \in {"exec", "stepped"} /\ ~Target(k)'
                           => orig_status'[k] = "Terminated"
    BY DEF OrigOK
  <2>1. srv \in RunPhase /\ InRun(k) /\ ~Pending(k) /\ orig_status'[k] = orig_status[k]
    BY <1>1, <1>2, <1>7
  <2>2. /\ orig_status[k] # "Runnable" => status[k] = orig_status[k]
        /\ status[k] = "Terminated" /\ runner[k] \in {"exec", "stepped"} /\ ~Target(k)
             => orig_status[k] = "Terminated"
    BY <2>1 DEF RunInv, OrigOK
  <2>3. Live(k) => Target(k) /\ orig_status[k] = "Runnable"
    <3>1. Live(k) => Target(k)
      BY <2>1 DEF RunInv, LiveOK
    <3> QED
      BY <3>1 DEF RunInv, LookedOK, Target
  <2>4. CASE k # h
    BY <1>4, <1>8, <2>1, <2>2, <2>4
  <2>5. CASE k = h
    <3>1. orig_status[k] # "Runnable" => status'[k] = status[k]
      BY <2>3, <2>5 DEF HartEffect
    <3>2. ASSUME status'[k] = "Terminated", runner'[k] \in {"exec", "stepped"}, ~Target(k)'
          PROVE  orig_status[k] = "Terminated"
      <4>1. srv' = srv /\ (Live(k) \/ runner[k] \in {"exec", "stepped"})
        BY <2>5, <3>2 DEF HartEffect
      <4>2. ~Target(k) /\ ~Live(k)
        BY <1>6, <2>3, <3>2, <4>1
      <4>3. status[k] = "Terminated"
        BY <2>5, <3>2, <4>2 DEF HartEffect
      <4> QED
        BY <2>2, <4>1, <4>2, <4>3
    <3> QED
      BY <2>1, <2>2, <3>1, <3>2
  <2> QED
    BY <2>4, <2>5
<1>17. WakerOK'
  <2> SUFFICES ASSUME srv' \in {"woken", "check", "stopping"} PROVE \E k \in Harts : Woke(k)'
    BY DEF WakerOK
  <2>1. CASE srv = "first"
    <3>1. InRun(h) /\ runner'[h] \in {"idle", "gone"}
      BY <1>3, <2>1 DEF Target
    <3>2. Pending(h)
      <4>1. PICK i \in DOMAIN hartsrun : hartsrun[i] = h
        BY <3>1 DEF InRun
      <4>2. i >= looked
        BY <2>1 DEF RunInv, RunTypeOK, LookedOK
      <4> QED
        BY <4>1, <4>2 DEF Pending
    <3> QED
      BY <1>2, <3>1, <3>2 DEF Woke
  <2>2. CASE srv # "first"
    <3>1. srv \in {"woken", "check", "stopping"}
      BY <1>3, <2>2 DEF Target
    <3>2. PICK k \in Harts : Woke(k)
      BY <3>1 DEF RunInv, WakerOK
    <3>3. k # h
      BY <3>2 DEF Woke, HartEffect
    <3>4. InRun(k)' /\ runner'[k] \in {"idle", "gone"}
      BY <1>2, <1>8, <3>2, <3>3 DEF Woke
    <3>5. Pending(k)' \/ orig_status'[k] # "Runnable" \/ Target(k)'
      BY <1>1, <1>2, <1>4, <3>2, <3>3 DEF Woke
    <3> QED
      BY <3>4, <3>5 DEF Woke
  <2> QED
    BY <2>1, <2>2
<1>18. ReasonOK'
  BY <1>1, <1>3 DEF RunInv, ReasonOK
<1> QED
  BY <1>9, <1>12, <1>13, <1>14, <1>15, <1>16, <1>17, <1>18 DEF RunInv

(* The end of vCont, and the handlers that start no hart. *)
LEMMA EndPreserves == ASSUME RunInv, Reject \/ Reply PROVE RunInv'
<1>1. srv = "launch" /\ srv' = "wait" /\ UNCHANGED <<status, runner, single_run>> /\ EndOfVCont
  BY DEF Reject, Reply, hartVars
<1>2. /\ todo' \in Seq(Actions) /\ hartsrun' \in Seq(Harts) /\ looked' \in Nat \ {0}
      /\ orig_status' \in [Harts -> Statuses]
  BY <1>1 DEF EndOfVCont, Statuses
<1>3. RunTypeOK'
  BY <1>1, <1>2 DEF RunInv, RunTypeOK, EndOfVCont
<1> QED
  BY <1>1, <1>3, QuietPreserves DEF ReasonOK, RunPhase

LEMMA HandleVContPreserves == ASSUME IInv, PacketsOK, RunInv, HandleVCont PROVE RunInv'
<1>1. PICK p : pktq = <<p>>
  BY DEF HandleVCont, Woken, IInv, AtMostOne
<1>2. Head(pktq) = p
  BY <1>1
<1>3. /\ srv = "wait" /\ srv' = "launch" /\ todo' = p.actions /\ p.kind = "vCont" /\ matched' = {}
      /\ stopped' = None
      /\ UNCHANGED <<hartsrun, looked, orig_status, single_run, status, runner>>
  BY <1>2 DEF HandleVCont, Woken, hartVars
<1>4. todo' \in Seq(Actions) /\ todo' # <<>>
  BY <1>1, <1>3, DebugAssumption DEF PacketsOK, Parsed
<1>5. RunTypeOK' /\ ReasonOK'
  BY <1>3, <1>4 DEF RunInv, RunTypeOK, ReasonOK
<1> QED
  BY <1>3, <1>5, QuietPreserves DEF RunPhase

LEMMA ServerKeepsRunInv == ASSUME IInv, PacketsOK, RunInv, ServerStep PROVE RunInv'
<1>1. CASE HandleCommand
  BY <1>1, ElsewherePreserves DEF HandleCommand, hartVars
<1>2. CASE Resume
  <2>1. /\ srv = "woken" /\ srv' = "check"
        /\ UNCHANGED <<todo, matched, hartsrun, looked, orig_status, stopped, single_run, status, runner>>
    BY <1>2 DEF Resume, serverVars, hartVars
  <2>2. \A h : (InRun(h)' <=> InRun(h)) /\ (Pending(h)' <=> Pending(h)) /\ (Live(h)' <=> Live(h))
               /\ ~Target(h) /\ ~Target(h)'
    BY <2>1 DEF InRun, Pending, Live, Target
  <2>3. \A h : Woke(h) => Woke(h)'
    BY <2>1, <2>2 DEF Woke
  <2>4. RunTypeOK' /\ IdleOK' /\ LookedOK' /\ ReasonOK'
    BY <2>1 DEF RunInv, RunTypeOK, IdleOK, LookedOK, ReasonOK, RunPhase
  <2>5. srv \in RunPhase /\ srv' \in RunPhase
    BY <2>1 DEF RunPhase
  <2> QED
    BY <2>1, <2>2, <2>3, <2>4, <2>5 DEF RunInv, LiveOK, StatusOK, OrigOK, WakerOK
<1> QED
  BY <1>1, <1>2, HandleVContPreserves, LaunchPreserves, CheckPreserves, RestorePreserves,
     EndPreserves DEF ServerStep

(* The packets on their way and in the queue are ones the parser accepted. *)
LEMMA PacketsKept == ASSUME IInv, PacketsOK, [Next]_vars PROVE PacketsOK'
<1>1. CASE Client
  <2>1. pktq' = pktq
    BY <1>1 DEF Client
  <2>2. CASE net' = net
    BY <2>1, <2>2 DEF PacketsOK, Parsed
  <2>3. CASE net' # net
    <3>1. \/ \E c \in Commands : net' = Packet(c, <<>>)
          \/ \E v \in VConts : net' = Packet("vCont", v)
      BY <1>1, <2>3 DEF Client
    <3>2. Parsed(net')
      BY <3>1 DEF Parsed, Packet, Commands
    <3> QED
      BY <2>1, <3>2 DEF PacketsOK, Parsed
  <2> QED
    BY <2>2, <2>3
<1>2. CASE Dispatch
  <2>1. CASE net # NoPacket
    <3>1. pktq = <<>> /\ pktq' = Append(pktq, net) /\ net' = NoPacket
      BY <1>2, <2>1 DEF Dispatch, IInv, ParsesAlone
    <3>2. pktq' = <<net>>
      BY <3>1
    <3>3. Parsed(net')
      BY <3>1 DEF NoPacket, Packet, Parsed
    <3>4. \A p : <<net>> = <<p>> => p = net
      OBVIOUS
    <3> QED
      BY <3>2, <3>3, <3>4 DEF PacketsOK, Parsed
  <2>2. CASE net = NoPacket
    BY <1>2, <2>2 DEF Dispatch, PacketsOK, Parsed
  <2> QED
    BY <2>1, <2>2
<1>3. CASE HandleCommand \/ Reject \/ Reply
  <2>1. net' = net /\ PacketDone /\ pktq # <<>>
    BY <1>3 DEF HandleCommand, Woken, Reject, Reply, IInv, HandlesHead
  <2>2. pktq' = <<>>
    BY <2>1, PopEmpties DEF PacketDone, IInv
  <2>3. \A p : <<>> # <<p>>
    OBVIOUS
  <2> QED
    BY <2>1, <2>2, <2>3 DEF PacketsOK, Parsed
<1>4. CASE UNCHANGED <<net, pktq>>
  BY <1>4 DEF PacketsOK, Parsed
<1>5. ASSUME NEW h \in Harts, HartStep(h) PROVE UNCHANGED <<net, pktq>>
  BY <1>5 DEF HartStep, HitBreakpoint, Block, Execute, StepDone, LeaveLoop, RunDone, hartKeeps
<1>6. Accept \/ Lock \/ HandleVCont \/ Launch \/ Resume \/ Check \/ Restore => UNCHANGED <<net, pktq>>
  BY DEF Accept, Lock, HandleVCont, Launch, Resume, Check, Restore
<1>7. UNCHANGED vars => UNCHANGED <<net, pktq>>
  BY DEF vars
<1> QED
  BY <1>1, <1>2, <1>3, <1>4, <1>5, <1>6, <1>7 DEF Next, ServerStep

LEMMA NextRunInv == ASSUME IInv, PacketsOK, RunInv, [Next]_vars PROVE RunInv'
<1>1. Client \/ Accept \/ Lock \/ Dispatch \/ UNCHANGED vars
        => UNCHANGED <<srv, todo, matched, hartsrun, looked, orig_status, stopped, single_run, status, runner>>
  BY DEF Client, Accept, Lock, Dispatch, vars, serverVars, hartVars
<1> QED
  BY <1>1, ElsewherePreserves, ServerKeepsRunInv, HartHasEffect, HartKeepsRunInv DEF Next

(* Type correctness, and the invariant that the theorems about run_threads *)
(* rest on, for any number of harts, any client and any software.          *)
THEOREM RunInvariance == Spec => [](IInv /\ PacketsOK /\ RunInv)
<1>1. Init => PacketsOK
  <2> SUFFICES ASSUME Init PROVE PacketsOK
    OBVIOUS
  <2>1. net = NoPacket /\ pktq = <<>>
    BY DEF Init
  <2>2. \A p : <<>> # <<p>>
    OBVIOUS
  <2> QED
    BY <2>1, <2>2 DEF PacketsOK, Parsed, NoPacket, Packet
<1> QED
  BY <1>1, InitInv, NextInv, InitRunInv, NextRunInv, PacketsKept, PTL DEF Spec

(* All-stop mode: when run() waits for a packet, in which the client may   *)
(* read registers and memory, no hart executes instructions; run_threads   *)
(* returns only when each hart it started has come back or ended, whatever *)
(* the order of the stop events (gdb_server.cpp:158 to 173).               *)
THEOREM StopMeansStoppedTheorem == Spec => []StopMeansStopped
<1>1. RunInv => StopMeansStopped
  BY DEF RunInv, LiveOK, StopMeansStopped, AtStep, Live, RunPhase
<1> QED
  BY <1>1, RunInvariance, PTL

(* The assertion at the end of vCont (handler.cpp:286) holds: a hart that  *)
(* stopped by itself is found, even where a late stop event of an earlier  *)
(* vCont woke run_threads.                                                 *)
THEOREM VContFindsReasonTheorem == Spec => []VContFindsReason
<1>1. RunInv => VContFindsReason
  BY DEF RunInv, ReasonOK, VContFindsReason
<1> QED
  BY <1>1, RunInvariance, PTL
=============================================================================

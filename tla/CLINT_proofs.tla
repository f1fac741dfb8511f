----------------------------- MODULE CLINT_proofs -----------------------------
(***************************************************************************)
(* Proofs about the core local interruptor, for every number of harts,     *)
(* every scaler, word width, lead and set of written values, and about the *)
(* one that follows the host's clock, for every clock rate, any compare    *)
(* values and any schedule of the host's threads.                          *)
(***************************************************************************)
EXTENDS MCTimers, NaturalsInduction, WellFoundedInduction, TLAPS

USE DEF None, CmpMax

(* Rounding a time down to a tick never exceeds it. *)
LEMMA TickRoundsDown ==
    ASSUME NEW a \in Nat
    PROVE  /\ a \div Scaler \in Nat
           /\ (a \div Scaler) * Scaler <= a
  BY CLINTAssumption, SMTT(30)

(* A non-empty set of notification times has an earliest one, which        *)
(* Earliest returns.                                                       *)
LEMMA EarliestExists ==
    ASSUME NEW S, S \subseteq Nat, S # {}
    PROVE  /\ Earliest(S) \in S
           /\ \A b \in S : Earliest(S) <= b
<1>1. IsWellFoundedOn(OpToRel(<, Nat), Nat)
  BY NatLessThanWellFounded
<1>2. PICK a \in S : \A b \in S : ~ (<<b, a>> \in OpToRel(<, Nat))
  BY <1>1, WFMin
<1>3. \A b \in S : a <= b
  <2> TAKE b \in S
  <2>1. ~(b < a)
    BY <1>2 DEF OpToRel
  <2> QED
    BY <2>1
<1> QED
  BY <1>3 DEF Earliest

(* What the kernel keeps of the notifications is a time or None. *)
LEMMA EarliestType ==
    ASSUME NEW S, S \subseteq Nat
    PROVE  /\ Earliest(S) \in Nat \cup {None}
           /\ S # {} => Earliest(S) # None
<1>1. CASE S = {}
  BY <1>1 DEF Earliest
<1>2. CASE S # {}
  <2>1. Earliest(S) \in S
    BY <1>2, EarliestExists
  <2>2. Earliest(S) \in Nat
    BY <2>1
  <2> QED
    BY <2>2
<1> QED
  BY <1>1, <1>2

(* Reducing a time modulo the word width never lengthens it, and leaves a  *)
(* time alone that the word can hold.                                      *)
LEMMA WrapShortens ==
    ASSUME NEW x \in Nat
    PROVE  /\ x % TimeMod \in Nat
           /\ x % TimeMod <= x
           /\ x < TimeMod => x % TimeMod = x
  BY CLINTAssumption, SMTT(30)

(* The kernel never fires an event in the past, and never later than asked *)
(* for; it fires it at once only for a zero delay, or for a sum that the   *)
(* word cannot hold.                                                       *)
LEMMA AtBounds ==
    ASSUME now \in Nat, NEW d \in Nat
    PROVE  /\ At(d) \in Nat
           /\ now <= At(d)
           /\ At(d) <= now + d
           /\ At(d) = now => d = 0 \/ now + d >= TimeMod
<1> DEFINE sum == (now + d) % TimeMod
<1>1. now + d \in Nat /\ TimeMod \in Nat
  BY CLINTAssumption
<1>2. sum \in Nat /\ sum <= now + d /\ (now + d < TimeMod => sum = now + d)
  BY <1>1, WrapShortens
<1>3. At(d) = IF sum < now THEN now ELSE sum
  BY DEF At
<1> HIDE DEF sum
<1> QED
  BY <1>1, <1>2, <1>3

(* A notification time is a natural number although the delay wraps. *)
LEMMA DueType ==
    ASSUME NEW cmp \in Nat, NEW t \in Nat, now \in Nat
    PROVE  Due(cmp, t) \in Nat
<1>1. (cmp - t) * Scaler \in Int
  BY CLINTAssumption
<1>2. \A x \in Int : x % TimeMod \in Nat
  BY CLINTAssumption, SMTT(30)
<1> DEFINE w == ((cmp - t) * Scaler) % TimeMod
<1>3. w \in Nat
  BY <1>1, <1>2
<1>4. Due(cmp, t) = At(w)
  BY DEF Due
<1> HIDE DEF w
<1> QED
  BY <1>3, <1>4, AtBounds

LEMMA UpdatedMtimeType ==
    ASSUME TypeOK
    PROVE  UpdatedMtime \in Nat
  BY TickRoundsDown, CLINTAssumption DEF TypeOK, UpdatedMtime

(* The times run() notifies for. *)
LEMMA RunNotifies ==
    ASSUME TypeOK, Run
    PROVE  /\ irq_event' \in Nat \cup {None}
           /\ \A h \in Hart : Armed(mtimecmp[h], UpdatedMtime) => irq_event' # None
<1> DEFINE t == UpdatedMtime
           ahead == {h \in Hart : Armed(mtimecmp[h], t)}
           dues == {Due(mtimecmp[h], t) : h \in ahead}
<1>1. t \in Nat /\ now \in Nat /\ \A h \in Hart : mtimecmp[h] \in Nat
  BY UpdatedMtimeType, CLINTAssumption DEF TypeOK
<1>2. dues \subseteq Nat
  BY <1>1, DueType
<1>3. irq_event' = Earliest(dues)
  BY DEF Run
<1>4. irq_event' \in Nat \cup {None} /\ (dues # {} => irq_event' # None)
  BY <1>2, <1>3, EarliestType
<1>5. \A h \in Hart : Armed(mtimecmp[h], t) => dues # {}
  OBVIOUS
<1> QED
  BY <1>4, <1>5

(* A write of mtimecmp leaves a notification pending. *)
LEMMA NotifiedType ==
    ASSUME irq_event \in Nat \cup {None}, NEW at \in Nat
    PROVE  Notified(at) \in Nat
<1>1. {irq_event, at} \ {None} \subseteq Nat /\ {irq_event, at} \ {None} # {}
  OBVIOUS
<1> QED
  BY <1>1, EarliestExists DEF Notified

-----------------------------------------------------------------------------
Inv == TypeOK /\ TimerArmed

LEMMA InitInv == Init => Inv
<1> SUFFICES ASSUME Init PROVE Inv
  OBVIOUS
<1>1. /\ now \in 0 .. MaxTime /\ mtime \in Nat /\ mtimecmp \in [Hart -> 0 .. CmpMax]
      /\ msip \in [Hart -> {0, 1}] /\ irq_event \in Nat \cup {None}
      /\ written \in [Hart -> Nat]
  BY CLINTAssumption DEF Init
<1>2. mtip \in [Hart -> BOOLEAN] /\ swip \in [Hart -> BOOLEAN] /\ mtime_set \in BOOLEAN
  BY DEF Init
<1>3. TimerArmed
  BY DEF Init, TimerArmed
<1> QED
  BY <1>1, <1>2, <1>3 DEF Inv, TypeOK

LEMMA NextInv == Inv /\ [Next]_vars => Inv'
<1> SUFFICES ASSUME Inv, [Next]_vars PROVE Inv'
  OBVIOUS
<1> USE DEF Inv
<1>1. CASE Run
  <2>1. /\ mtime' \in Nat
        /\ mtime' = UpdatedMtime
    BY <1>1, UpdatedMtimeType DEF Run
  <2>2. \A h \in Hart : Expired(mtimecmp[h], UpdatedMtime) \in BOOLEAN
    BY DEF Expired
  <2>3. TypeOK'
    BY <1>1, <2>1, <2>2, RunNotifies DEF Run, TypeOK
  <2>4. TimerArmed'
    BY <1>1, RunNotifies, UpdatedMtimeType DEF Run, TimerArmed, TypeOK, Armed
  <2> QED
    BY <2>3, <2>4
<1>2. CASE Tick
  BY <1>2, CLINTAssumption DEF Tick, TypeOK, TimerArmed
<1>3. CASE ReadTimeCsr
  BY <1>3, UpdatedMtimeType DEF ReadTimeCsr, TypeOK, TimerArmed
<1>4. ASSUME NEW d \in 0 .. MaxDelay, ReadMtime(d) PROVE Inv'
  <2>1. (now + d) % TimeMod \in Nat
    BY WrapShortens, CLINTAssumption DEF TypeOK
  <2> QED
    BY <1>4, <2>1, TickRoundsDown DEF ReadMtime, TypeOK, TimerArmed
<1>5. ASSUME NEW v \in MtimeWrites, WriteMtime(v) PROVE Inv'
  BY <1>5, CLINTAssumption DEF WriteMtime, TypeOK, TimerArmed
<1>6. ASSUME NEW h \in Hart, NEW v \in CmpValues, NEW d \in 0 .. MaxDelay,
             WriteMtimecmp(h, v, d)
      PROVE  Inv'
  <2>1. now + d \in Nat /\ At(d) \in Nat
    BY AtBounds, CLINTAssumption DEF TypeOK
  <2>2. irq_event' \in Nat
    BY <1>6, <2>1, NotifiedType DEF WriteMtimecmp, TypeOK
  <2> QED
    BY <1>6, <2>1, <2>2, CLINTAssumption DEF WriteMtimecmp, TypeOK, TimerArmed
<1>7. ASSUME NEW h \in Hart, NEW v \in 0 .. 3, WriteMsip(h, v) PROVE Inv'
  <2>1. Masked(v) \in {0, 1}
    BY DEF Masked
  <2> QED
    BY <1>7, <2>1 DEF WriteMsip, TypeOK, TimerArmed
<1>8. CASE UNCHANGED vars
  BY <1>8 DEF vars, TypeOK, TimerArmed
<1> QED
  BY <1>1, <1>2, <1>3, <1>4, <1>5, <1>6, <1>7, <1>8 DEF Next

(* The registers and lines of the CLINT keep their types. *)
THEOREM TypeCorrect == Spec => []TypeOK
<1>1. Inv => TypeOK
  BY DEF Inv
<1> QED
  BY <1>1, InitInv, NextInv, PTL DEF Spec

(* A hart that waits for a timer interrupt never lacks a wake-up of run(), *)
(* although all harts share the one notification of irq_event.             *)
THEOREM TimerArmedTheorem == Spec => []TimerArmed
<1>1. Inv => TimerArmed
  BY DEF Inv
<1> QED
  BY <1>1, InitInv, NextInv, PTL DEF Spec

-----------------------------------------------------------------------------
(* A time lies in the tick it is rounded down to. *)
LEMMA WithinTick ==
    ASSUME NEW a \in Nat
    PROVE  a <= (a \div Scaler) * Scaler + Scaler - 1
  BY CLINTAssumption, SMTT(30)

(* run() notifies for the end of the tick of the compare value at the      *)
(* latest, never in the past, and for this very instant only if that tick  *)
(* lies beyond the end of the word.                                        *)
LEMMA DueInTime ==
    ASSUME TypeOK, NEW cmp \in Nat, UpdatedMtime < cmp
    PROVE  /\ Due(cmp, UpdatedMtime) \in Nat
           /\ now <= Due(cmp, UpdatedMtime)
           /\ Due(cmp, UpdatedMtime) <= cmp * Scaler + Scaler - 1
           /\ Due(cmp, UpdatedMtime) = now => (cmp + 1) * Scaler > TimeMod
<1> DEFINE t == UpdatedMtime
           n == now \div Scaler
<1>1. now \in Nat /\ t \in Nat /\ n \in Nat /\ Scaler \in Nat /\ cmp - t \in Nat
  BY UpdatedMtimeType, TickRoundsDown, CLINTAssumption DEF TypeOK
<1>2. n <= t
  BY <1>1 DEF UpdatedMtime, TypeOK
<1> HIDE DEF t, n
<1>3. (cmp - t) * Scaler \in Nat
  BY <1>1
<1>4. (cmp - t) * Scaler = cmp * Scaler - t * Scaler
  BY <1>1
<1>5. n * Scaler <= t * Scaler
  BY <1>1, <1>2
<1>6. now <= n * Scaler + Scaler - 1
  BY <1>1, WithinTick DEF n
<1>7. n * Scaler \in Nat /\ t * Scaler \in Nat /\ cmp * Scaler \in Nat
  BY <1>1
<1>8. now + (cmp - t) * Scaler <= cmp * Scaler + Scaler - 1
  BY <1>1, <1>3, <1>4, <1>5, <1>6, <1>7
<1> DEFINE x == (cmp - t) * Scaler
           w == x % TimeMod
<1>9. w \in Nat /\ w <= x /\ (x < TimeMod => w = x)
  BY <1>3, WrapShortens
<1>10. Due(cmp, t) = At(w)
  BY DEF Due
<1>11. x > 0
  <2>1. cmp - t >= 1 /\ Scaler >= 1
    BY <1>1, CLINTAssumption DEF t
  <2> QED
    BY <1>1, <2>1
<1>12. (cmp + 1) * Scaler = cmp * Scaler + Scaler
  BY <1>1
<1>13. TimeMod \in Nat
  BY CLINTAssumption
<1> HIDE DEF w
<1>14. /\ At(w) \in Nat /\ now <= At(w) /\ At(w) <= now + w
       /\ At(w) = now => w = 0 \/ now + w >= TimeMod
  BY <1>1, <1>9, AtBounds
<1>15. now + x <= cmp * Scaler + Scaler - 1 /\ x \in Nat
  BY <1>3, <1>8
<1> HIDE DEF x
<1>16. At(w) <= cmp * Scaler + Scaler - 1
  BY <1>1, <1>7, <1>9, <1>14, <1>15
<1>17. ASSUME At(w) = now PROVE (cmp + 1) * Scaler > TimeMod
  <2>1. now + x >= TimeMod
    BY <1>1, <1>9, <1>11, <1>13, <1>14, <1>15, <1>17
  <2> QED
    BY <1>1, <1>7, <1>12, <1>13, <1>15, <2>1
<1> QED
  BY <1>10, <1>14, <1>16, <1>17 DEF t

(* After run() the pending notification is in time for every waiting hart. *)
LEMMA RunInTime ==
    ASSUME TypeOK, Run
    PROVE  WakeInTime'
<1> DEFINE t == UpdatedMtime
           ahead == {h \in Hart : Armed(mtimecmp[h], t)}
           dues == {Due(mtimecmp[h], t) : h \in ahead}
<1>1. t \in Nat /\ now \in Nat /\ \A h \in Hart : mtimecmp[h] \in Nat
  BY UpdatedMtimeType, CLINTAssumption DEF TypeOK
<1>2. \A h \in ahead :
        /\ Due(mtimecmp[h], t) \in Nat
        /\ now <= Due(mtimecmp[h], t)
        /\ Due(mtimecmp[h], t) <= mtimecmp[h] * Scaler + Scaler - 1
  <2> TAKE h \in ahead
  <2>1. mtimecmp[h] \in Nat /\ t < mtimecmp[h]
    BY <1>1 DEF Armed, Expired
  <2> QED
    BY <2>1, DueInTime
<1>3. irq_event' = Earliest(dues)
  BY DEF Run
<1>4. dues \subseteq Nat /\ \A b \in dues : now <= b
  BY <1>2
<1>5. irq_event' # None => now <= irq_event'
  <2>1. CASE dues = {}
    BY <1>3, <2>1 DEF Earliest
  <2>2. CASE dues # {}
    BY <1>3, <1>4, <2>2, EarliestExists
  <2> QED
    BY <2>1, <2>2
<1>6. ASSUME NEW h \in Hart, mtimecmp[h] > 0, mtimecmp[h] < CmpMax, ~mtip'[h]
      PROVE  irq_event' # None /\ irq_event' <= mtimecmp[h] * Scaler + Scaler - 1
  <2>1. h \in ahead
    BY <1>6 DEF Run, Armed
  <2>2. Due(mtimecmp[h], t) \in dues
    BY <2>1
  <2>3. Earliest(dues) \in Nat /\ Earliest(dues) <= Due(mtimecmp[h], t)
    BY <1>4, <2>2, EarliestExists
  <2>4. mtimecmp[h] * Scaler + Scaler - 1 \in Int
    BY <1>1, CLINTAssumption
  <2> HIDE DEF dues
  <2> QED
    BY <1>2, <1>3, <2>1, <2>3, <2>4
<1> QED
  BY <1>5, <1>6 DEF Run, WakeInTime

(* A write of mtimecmp can only bring the pending notification forward. *)
LEMMA NotifiedInTime ==
    ASSUME irq_event \in Nat \cup {None}, NEW at \in Nat
    PROVE  /\ Notified(at) \in Nat
           /\ Notified(at) <= at
           /\ irq_event # None => Notified(at) <= irq_event
           /\ Notified(at) = at \/ Notified(at) = irq_event
<1> DEFINE S == {irq_event, at} \ {None}
<1>1. S \subseteq Nat /\ S # {} /\ at \in S /\ (irq_event # None => irq_event \in S)
  OBVIOUS
<1>2. Notified(at) = Earliest(S)
  BY DEF Notified
<1>3. Earliest(S) \in S /\ \A b \in S : Earliest(S) <= b
  BY <1>1, EarliestExists
<1> QED
  BY <1>1, <1>2, <1>3

(* The timer interrupt of a hart is never late, for every number of harts  *)
(* sharing irq_event, every lead and although distant delays wrap around.  *)
THEOREM TimerNotLateTheorem == Spec => []TimerNotLate
<1> DEFINE I == Inv /\ WakeInTime
<1>1. Init => I
  BY InitInv DEF Init, WakeInTime
<1>2. I /\ [Next]_vars => I'
  <2> SUFFICES ASSUME I, [Next]_vars PROVE WakeInTime'
    BY NextInv
  <2>0. TypeOK /\ WakeInTime
    BY DEF Inv
  <2>1. CASE Run
    BY <2>0, <2>1, RunInTime
  <2>2. CASE Tick
    BY <2>0, <2>2 DEF Tick, WakeInTime, TypeOK
  <2>3. CASE ReadTimeCsr
    BY <2>0, <2>3 DEF ReadTimeCsr, WakeInTime
  <2>4. ASSUME NEW d \in 0 .. MaxDelay, ReadMtime(d) PROVE WakeInTime'
    BY <2>0, <2>4 DEF ReadMtime, WakeInTime
  <2>5. ASSUME NEW v \in MtimeWrites, WriteMtime(v) PROVE WakeInTime'
    BY <2>0, <2>5 DEF WriteMtime, WakeInTime
  <2>6. ASSUME NEW h \in Hart, NEW v \in CmpValues, NEW d \in 0 .. MaxDelay,
               WriteMtimecmp(h, v, d)
        PROVE  WakeInTime'
    <3>1. now + d \in Nat /\ At(d) \in Nat /\ now <= At(d) /\ At(d) <= now + d
      BY <2>0, AtBounds, CLINTAssumption DEF TypeOK
    <3>2. /\ irq_event' \in Nat
          /\ irq_event' <= At(d)
          /\ irq_event # None => irq_event' <= irq_event
          /\ irq_event' = At(d) \/ irq_event' = irq_event
      BY <2>0, <2>6, <3>1, NotifiedInTime DEF WriteMtimecmp, TypeOK
    <3>3. now' <= irq_event'
      BY <2>0, <2>6, <3>1, <3>2 DEF WriteMtimecmp, WakeInTime, TypeOK
    <3>4. ASSUME NEW g \in Hart, mtimecmp'[g] > 0, mtimecmp'[g] < CmpMax, ~mtip'[g]
          PROVE  \/ irq_event' <= mtimecmp'[g] * Scaler + Scaler - 1
                 \/ irq_event' <= written'[g]
      <4>1. CASE g = h
        BY <2>0, <2>6, <3>1, <3>2, <4>1 DEF WriteMtimecmp, TypeOK
      <4>2. CASE g # h
        <5>1. mtimecmp'[g] = mtimecmp[g] /\ written'[g] = written[g] /\ ~mtip[g]
          BY <2>0, <2>6, <3>4, <4>2 DEF WriteMtimecmp, TypeOK
        <5>2. /\ irq_event # None
              /\ \/ irq_event <= mtimecmp[g] * Scaler + Scaler - 1
                 \/ irq_event <= written[g]
          BY <2>0, <3>4, <5>1 DEF WakeInTime
        <5>3. irq_event \in Nat /\ irq_event' \in Nat /\ irq_event' <= irq_event
          BY <2>0, <3>2, <5>2 DEF TypeOK
        <5>4. written[g] \in Nat /\ mtimecmp[g] * Scaler + Scaler - 1 \in Int
          BY <2>0, CLINTAssumption DEF TypeOK
        <5> QED
          BY <5>1, <5>2, <5>3, <5>4
      <4> QED
        BY <4>1, <4>2
    <3>5. irq_event' # None
      BY <3>2
    <3> QED
      BY <3>3, <3>4, <3>5 DEF WakeInTime
  <2>7. ASSUME NEW h \in Hart, NEW v \in 0 .. 3, WriteMsip(h, v) PROVE WakeInTime'
    BY <2>0, <2>7 DEF WriteMsip, WakeInTime
  <2>8. CASE UNCHANGED vars
    BY <2>0, <2>8 DEF vars, WakeInTime
  <2> QED
    BY <2>1, <2>2, <2>3, <2>4, <2>5, <2>6, <2>7, <2>8 DEF Next
<1>3. I => TimerNotLate
  <2> SUFFICES ASSUME I, NEW h \in Hart,
                      mtimecmp[h] > 0, mtimecmp[h] < CmpMax,
                      now > mtimecmp[h] * Scaler + Scaler - 1, now > written[h], ~mtip[h]
               PROVE  FALSE
    BY DEF TimerNotLate, Inv
  <2>1. /\ irq_event # None /\ now <= irq_event
        /\ \/ irq_event <= mtimecmp[h] * Scaler + Scaler - 1
           \/ irq_event <= written[h]
    BY DEF WakeInTime
  <2>2. /\ irq_event \in Int /\ now \in Int /\ written[h] \in Int
        /\ mtimecmp[h] * Scaler + Scaler - 1 \in Int
    BY CLINTAssumption DEF Inv, TypeOK
  <2> QED
    BY <2>1, <2>2
<1> QED
  BY <1>1, <1>2, <1>3, PTL DEF Spec

-----------------------------------------------------------------------------
(* The time run() works with lies at most the lead of a hart ahead. *)
LEMMA UpdatedMtimeClose ==
    ASSUME TypeOK, MtimeFollowsTime, ~mtime_set
    PROVE  UpdatedMtime * Scaler <= now + MaxDelay
<1>0. /\ now \in Nat /\ mtime \in Nat /\ MaxDelay \in Nat
      /\ mtime * Scaler <= now + MaxDelay
  BY CLINTAssumption DEF TypeOK, MtimeFollowsTime
<1>1. (now \div Scaler) * Scaler <= now /\ (now \div Scaler) * Scaler \in Int
  BY <1>0, TickRoundsDown, CLINTAssumption
<1>2. CASE UpdatedMtime = now \div Scaler
  BY <1>0, <1>1, <1>2
<1>3. CASE UpdatedMtime = mtime
  BY <1>0, <1>3
<1> QED
  BY <1>2, <1>3 DEF UpdatedMtime

(* As long as software leaves mtime alone, it never runs ahead of          *)
(* simulated time by more than the lead of a hart.                         *)
THEOREM MtimeFollowsTimeTheorem == Spec => []MtimeFollowsTime
<1> DEFINE I == Inv /\ MtimeFollowsTime
<1>1. Init => I
  BY InitInv, CLINTAssumption DEF Init, MtimeFollowsTime
<1>2. I /\ [Next]_vars => I'
  <2> SUFFICES ASSUME I, [Next]_vars, ~mtime_set' PROVE (mtime * Scaler <= now + MaxDelay)'
    BY NextInv DEF MtimeFollowsTime
  <2> DEFINE Close == mtime * Scaler <= now + MaxDelay
  <2>10. ~mtime_set
    BY DEF Inv, TypeOK, Next, Run, Tick, ReadTimeCsr, ReadMtime, WriteMtime, WriteMtimecmp, WriteMsip, vars
  <2>0. /\ now \in Nat /\ mtime \in Nat /\ MaxDelay \in Nat
        /\ mtime * Scaler <= now + MaxDelay
    BY <2>10, CLINTAssumption DEF Inv, TypeOK, MtimeFollowsTime
  <2>1. UpdatedMtime * Scaler <= now + MaxDelay
    BY <2>10, UpdatedMtimeClose DEF Inv
  <2>2. CASE Run
    BY <2>1, <2>2 DEF Run
  <2>3. CASE Tick
    <3>1. mtime * Scaler \in Int
      BY <2>0, CLINTAssumption
    <3> QED
      BY <2>0, <2>3, <3>1 DEF Tick
  <2>4. CASE ReadTimeCsr
    BY <2>1, <2>4 DEF ReadTimeCsr
  <2>5. ASSUME NEW d \in 0 .. MaxDelay, ReadMtime(d) PROVE Close'
    <3>1. now + d \in Nat /\ now + d <= now + MaxDelay
      BY <2>0
    <3> DEFINE time == (now + d) % TimeMod
    <3>2. time \in Nat /\ time <= now + d
      BY <3>1, WrapShortens
    <3>3. mtime' = time \div Scaler /\ now' = now
      BY <2>5 DEF ReadMtime
    <3> HIDE DEF time
    <3>4. (time \div Scaler) * Scaler <= time /\ (time \div Scaler) * Scaler \in Int
      BY <3>2, TickRoundsDown, CLINTAssumption
    <3>5. (time \div Scaler) * Scaler <= now + MaxDelay
      BY <2>0, <3>1, <3>2, <3>4
    <3> QED
      BY <3>3, <3>5
  <2>6. ASSUME NEW h \in Hart, NEW v \in CmpValues, NEW d \in 0 .. MaxDelay,
               WriteMtimecmp(h, v, d)
        PROVE  Close'
    BY <2>0, <2>6 DEF WriteMtimecmp
  <2>7. ASSUME NEW h \in Hart, NEW v \in 0 .. 3, WriteMsip(h, v) PROVE Close'
    BY <2>0, <2>7 DEF WriteMsip
  <2>9. ASSUME NEW v \in MtimeWrites, WriteMtime(v) PROVE Close'
    BY <2>9 DEF WriteMtime
  <2>8. CASE UNCHANGED vars
    BY <2>0, <2>8 DEF vars
  <2> QED
    BY <2>2, <2>3, <2>4, <2>5, <2>6, <2>7, <2>8, <2>9 DEF Next
<1>3. I => MtimeFollowsTime
  OBVIOUS
<1> QED
  BY <1>1, <1>2, <1>3, PTL DEF Spec

-----------------------------------------------------------------------------
(* What justifies that the line of hart h is up. *)
Justified(h) ==
    \/ mtimecmp[h] > 0 /\ now + MaxDelay >= mtimecmp[h] * Scaler
    \/ irq_event # None /\ irq_event <= now + MaxDelay

(* The timer interrupt of a hart is never early by more than the lead of a *)
(* hart, unless run() is about to see the write that made the line stale.  *)
THEOREM TimerNotEarlyTheorem == Spec => []TimerNotEarly
<1>1. Init => TimerNotEarly
  BY DEF Init, TimerNotEarly
<1>2. TypeOK /\ MtimeFollowsTime /\ TimerNotEarly /\ [Next]_vars => TimerNotEarly'
  <2> SUFFICES ASSUME TypeOK, MtimeFollowsTime, TimerNotEarly, [Next]_vars,
                      NEW g \in Hart, mtip'[g], ~mtime_set'
               PROVE  Justified(g)'
    BY DEF TimerNotEarly, Justified
  <2>10. ~mtime_set
    BY DEF TypeOK, Next, Run, Tick, ReadTimeCsr, ReadMtime, WriteMtime, WriteMtimecmp, WriteMsip, vars
  <2>0. /\ now \in Nat /\ MaxDelay \in Nat /\ Scaler \in Nat
        /\ irq_event \in Nat \cup {None} /\ mtimecmp[g] \in Nat /\ mtimecmp[g] * Scaler \in Nat
    BY CLINTAssumption DEF TypeOK
  <2>1. CASE Run
    <3>1. mtimecmp[g] > 0 /\ UpdatedMtime >= mtimecmp[g]
      BY <2>1 DEF Run, Expired
    <3>2. UpdatedMtime \in Nat /\ UpdatedMtime * Scaler <= now + MaxDelay
      BY <2>10, UpdatedMtimeType, UpdatedMtimeClose
    <3>3. UpdatedMtime * Scaler >= mtimecmp[g] * Scaler /\ UpdatedMtime * Scaler \in Nat
      BY <2>0, <3>1, <3>2
    <3>4. mtimecmp[g] > 0 /\ now + MaxDelay >= mtimecmp[g] * Scaler
      BY <2>0, <3>1, <3>2, <3>3
    <3> QED
      BY <2>1, <3>4 DEF Run, Justified
  <2>2. ASSUME UNCHANGED <<mtimecmp, irq_event, mtip>>, now' \in {now, now + 1} PROVE Justified(g)'
    <3>1. Justified(g)
      BY <2>2, <2>10 DEF TimerNotEarly, Justified
    <3> QED
      BY <2>0, <2>2, <3>1 DEF Justified
  <2>3. ASSUME NEW h \in Hart, NEW v \in CmpValues, NEW d \in 0 .. MaxDelay, WriteMtimecmp(h, v, d)
        PROVE  Justified(g)'
    <3>1. /\ now + d \in Nat /\ now + d <= now + MaxDelay
          /\ At(d) \in Nat /\ At(d) <= now + d
      BY <2>0, AtBounds
    <3>2. irq_event' \in Nat /\ irq_event' <= At(d)
      BY <2>0, <2>3, <3>1, NotifiedInTime DEF WriteMtimecmp
    <3> QED
      BY <2>0, <2>3, <3>1, <3>2 DEF WriteMtimecmp, Justified
  <2> QED
    BY <2>1, <2>2, <2>3
    DEF Next, Tick, ReadTimeCsr, ReadMtime, WriteMtime, WriteMsip, vars
<1> QED
  BY <1>1, <1>2, TypeCorrect, MtimeFollowsTimeTheorem, PTL DEF Spec

(* run() lets simulated time advance, unless a hart waits for a tick that  *)
(* lies beyond the end of the 64 bit time: in every other case the event   *)
(* it re-arms for is ahead, although distances and their sums with the     *)
(* current time are taken modulo the word width.                           *)
THEOREM RunAdvancesTheorem == Spec => RunAdvances
<1> DEFINE Beyond(h) == /\ mtimecmp[h] > mtime' /\ mtimecmp[h] < CmpMax
                        /\ (mtimecmp[h] + 1) * Scaler > TimeMod
           A == Run /\ irq_event' = now => \E h \in Hart : Beyond(h)
<1>1. TypeOK /\ [Next]_vars => [A]_vars
  <2> SUFFICES ASSUME TypeOK, Run, irq_event' = now
               PROVE  \E h \in Hart : Beyond(h)
    OBVIOUS
  <2> DEFINE t == UpdatedMtime
             ahead == {h \in Hart : Armed(mtimecmp[h], t)}
             dues == {Due(mtimecmp[h], t) : h \in ahead}
  <2>1. t \in Nat /\ now \in Nat /\ \A h \in Hart : mtimecmp[h] \in Nat
    BY UpdatedMtimeType, CLINTAssumption DEF TypeOK
  <2>2. dues \subseteq Nat
    BY <2>1, DueType
  <2>3. irq_event' = Earliest(dues) /\ mtime' = t
    BY DEF Run
  <2>4. dues # {}
    BY <2>1, <2>3 DEF Earliest
  <2>5. now \in dues
    BY <2>2, <2>3, <2>4, EarliestExists
  <2>6. PICK h \in ahead : now = Due(mtimecmp[h], t)
    BY <2>5
  <2>7. mtimecmp[h] \in Nat /\ t < mtimecmp[h] /\ mtimecmp[h] < CmpMax
    BY <2>1, <2>6 DEF Armed, Expired
  <2>8. (mtimecmp[h] + 1) * Scaler > TimeMod
    BY <2>6, <2>7, DueInTime
  <2>9. Beyond(h)
    BY <2>1, <2>3, <2>7, <2>8
  <2> QED
    BY <2>6, <2>9
<1> QED
  BY <1>1, TypeCorrect, PTL DEF Spec, RunAdvances

-----------------------------------------------------------------------------
(* The real-time CLINT. *)

Threads == [state : {"off", "sleep", "woken", "ended"}, due : Nat]

RealTypeInv ==
    /\ rusec \in Nat
    /\ rmtimecmp \in [Hart -> Nat]
    /\ rtimer \in [Hart -> Threads]
    /\ revent \in BOOLEAN
    /\ rmtip \in [Hart -> BOOLEAN]
    /\ rwritten \in [Hart -> BOOLEAN]

(* A thread leaves its last sleep no sooner than it is due. *)
WokenIsDue == \A h \in Hart : rtimer[h].state = "woken" => rtimer[h].due <= rusec

RealInv == RealTypeInv /\ WokenIsDue /\ Real!RealTimerExact

(* What is left out when host time is rounded down to ticks of mtime is    *)
(* less than a tick (usec_to_ticks).                                       *)
LEMMA Rounding ==
    ASSUME NEW n \in Nat, NEW d \in Nat, d > 0
    PROVE  /\ n \div d \in Nat
           /\ (n \div d) * d <= n
           /\ n < (n \div d) * d + d
  OBVIOUS

(* Products keep the order of their factors. *)
LEMMA Products ==
    ASSUME NEW a \in Nat, NEW b \in Nat, NEW d \in Nat, d > 0
    PROVE  /\ a * d \in Nat
           /\ a >= b => b * d <= a * d
           /\ b > a => a * d + d <= b * d
           /\ b > a => (b - a) * d = b * d - a * d
  OBVIOUS

-----------------------------------------------------------------------------
(* mtime has reached a compare value exactly when host time has reached    *)
(* the start of its tick (interrupt, post_write_mtimecmp).                 *)
LEMMA Reached ==
    ASSUME Dividend \in Nat, Dividend > 0, rusec \in Nat, NEW cmp \in Nat
    PROVE  /\ Real!UpdatedMtime \in Nat
           /\ Real!UpdatedMtime >= cmp <=> cmp * Dividend <= rusec
<1> DEFINE t == rusec \div Dividend
<1>1. t \in Nat /\ t * Dividend <= rusec /\ rusec < t * Dividend + Dividend
  BY Rounding
<1>2. t >= cmp => cmp * Dividend <= t * Dividend
  BY <1>1, Products
<1>3. cmp > t => t * Dividend + Dividend <= cmp * Dividend
  BY <1>1, Products
<1>4. cmp * Dividend \in Nat /\ t * Dividend \in Nat
  BY <1>1, Products
<1>5. Real!UpdatedMtime = t
  BY DEF Real!UpdatedMtime, Real!usec_to_ticks
<1> QED
  <2> HIDE DEF t
  <2> QED
    BY <1>1, <1>2, <1>3, <1>4, <1>5

(* A thread started for a compare value that lies ahead is due within the  *)
(* tick of that value (ticks_to_usec).                                     *)
LEMMA DueInTick ==
    ASSUME Dividend \in Nat, Dividend > 0, rusec \in Nat, NEW cmp \in Nat, cmp > Real!UpdatedMtime
    PROVE  LET due == rusec + Real!ticks_to_usec(cmp - Real!UpdatedMtime)
           IN due \in Nat /\ cmp * Dividend <= due /\ due < cmp * Dividend + Dividend
<1> DEFINE t == rusec \div Dividend
<1>1. t \in Nat /\ t * Dividend <= rusec /\ rusec < t * Dividend + Dividend
  BY Rounding
<1>2. Real!UpdatedMtime = t
  BY DEF Real!UpdatedMtime, Real!usec_to_ticks
<1>3. (cmp - t) * Dividend = cmp * Dividend - t * Dividend
  BY <1>1, <1>2, Products
<1>4. cmp * Dividend \in Nat /\ t * Dividend \in Nat /\ t * Dividend + Dividend <= cmp * Dividend
  BY <1>1, <1>2, Products
<1>5. Real!ticks_to_usec(cmp - Real!UpdatedMtime) = cmp * Dividend - t * Dividend
  BY <1>2, <1>3 DEF Real!ticks_to_usec
<1> QED
  <2> HIDE DEF t
  <2> QED
    BY <1>1, <1>4, <1>5

-----------------------------------------------------------------------------
LEMMA RealInitInv == Real!Init => RealInv
<1> SUFFICES ASSUME Real!Init PROVE RealInv
  OBVIOUS
<1>1. RealTypeInv
  BY DEF Real!Init, RealTypeInv, Threads, Real!Off
<1>2. WokenIsDue
  BY DEF Real!Init, WokenIsDue, Real!Off
<1>3. \A h \in Hart : ~rmtip[h] /\ ~rwritten[h]
  BY DEF Real!Init
<1>4. Real!RealTimerExact
  BY <1>3 DEF Real!RealTimerExact
<1> QED
  BY <1>1, <1>2, <1>4 DEF RealInv

LEMMA RealNextInv ==
    ASSUME Dividend \in Nat, Dividend > 0, RealCmpValues \subseteq Nat, RealInv, [Real!Next]_Real!vars
    PROVE  RealInv'
<1> USE DEF RealInv, RealTypeInv, Threads
<1> DEFINE start(h) == rmtimecmp[h] * Dividend
<1>0. \A h \in Hart : start(h) \in Nat
  BY Products
<1>1. CASE Real!Tick
  <2>1. RealTypeInv' /\ WokenIsDue'
    BY <1>1 DEF Real!Tick, WokenIsDue
  <2>2. Real!RealTimerExact'
    BY <1>0, <1>1 DEF Real!Tick, Real!RealTimerExact
  <2> QED
    BY <2>1, <2>2
<1>2. ASSUME NEW h \in Hart, Real!Wake(h) PROVE RealInv'
  <2>1. RealTypeInv' /\ WokenIsDue'
    BY <1>2 DEF Real!Wake, WokenIsDue
  <2>2. Real!RealTimerExact'
    BY <1>2 DEF Real!Wake, Real!RealTimerExact
  <2> QED
    BY <2>1, <2>2
<1>3. ASSUME NEW h \in Hart, Real!Callback(h) PROVE RealInv'
  <2>1. RealTypeInv' /\ WokenIsDue'
    BY <1>3 DEF Real!Callback, WokenIsDue
  <2>2. ~rmtip[h] /\ rwritten[h] => start(h) <= rusec
    BY <1>0, <1>3 DEF Real!Callback, WokenIsDue, Real!RealTimerExact
  <2>3. Real!RealTimerExact'
    BY <1>3, <2>2 DEF Real!Callback, Real!RealTimerExact
  <2> QED
    BY <2>1, <2>3
<1>4. ASSUME NEW h \in Hart, NEW cmp \in RealCmpValues, Real!WriteMtimecmp(h, cmp) PROVE RealInv'
  <2>0. cmp \in Nat
    OBVIOUS
  <2>1. CASE Real!UpdatedMtime >= cmp
    <3>1. cmp * Dividend <= rusec
      BY <2>0, <2>1, Reached
    <3>2. /\ rmtip' = [rmtip EXCEPT ![h] = TRUE]
          /\ rtimer' = [rtimer EXCEPT ![h] = Real!Off]
      BY <1>4, <2>1 DEF Real!WriteMtimecmp
    <3>3. RealTypeInv' /\ WokenIsDue'
      BY <1>4, <2>0, <3>2 DEF Real!WriteMtimecmp, WokenIsDue, Real!Off, Real!PausedEvent
    <3>4. Real!RealTimerExact'
      BY <1>4, <3>1, <3>2 DEF Real!WriteMtimecmp, Real!RealTimerExact, Real!PausedEvent
    <3> QED
      BY <3>3, <3>4
  <2>2. CASE ~(Real!UpdatedMtime >= cmp)
    <3> DEFINE due == rusec + Real!ticks_to_usec(cmp - Real!UpdatedMtime)
    <3>0. cmp > Real!UpdatedMtime
      BY <2>0, <2>2, Reached
    <3>1. due \in Nat /\ cmp * Dividend <= due /\ due < cmp * Dividend + Dividend
      BY <2>0, <3>0, DueInTick
    <3>2. /\ rmtip' = [rmtip EXCEPT ![h] = FALSE]
          /\ rtimer' = [rtimer EXCEPT ![h] = [state |-> "sleep", due |-> due]]
      <4>1. (Real!UpdatedMtime >= cmp) = FALSE
        BY <2>2
      <4> QED
        BY ONLY <1>4, <4>1, Zenon DEF Real!WriteMtimecmp
    <3> HIDE DEF due
    <3>3. RealTypeInv' /\ WokenIsDue'
      BY <1>4, <2>0, <3>1, <3>2 DEF Real!WriteMtimecmp, WokenIsDue, Real!PausedEvent
    <3>4. Real!RealTimerExact'
      BY <1>4, <3>1, <3>2 DEF Real!WriteMtimecmp, Real!RealTimerExact, Real!PausedEvent
    <3> QED
      BY <3>3, <3>4
  <2> QED
    BY <2>1, <2>2
<1>5. CASE Real!Interrupt
  <2>1. RealTypeInv' /\ WokenIsDue'
    BY <1>5 DEF Real!Interrupt, WokenIsDue
  <2>2. \A h \in Hart : rmtip'[h] <=> (rmtip[h] \/ start(h) <= rusec)
    BY <1>5, Reached DEF Real!Interrupt
  <2>3. Real!RealTimerExact'
    BY <1>0, <1>5, <2>2 DEF Real!Interrupt, Real!RealTimerExact
  <2> QED
    BY <2>1, <2>3
<1>6. CASE Real!ReadMtime
  BY <1>6 DEF Real!ReadMtime, WokenIsDue, Real!RealTimerExact
<1>7. ASSUME NEW v \in RealCmpValues, Real!WriteMtime(v) PROVE RealInv'
  BY <1>7 DEF Real!WriteMtime, WokenIsDue, Real!RealTimerExact
<1>8. ASSUME NEW h \in Hart, NEW v \in {1, 2}, Real!WriteMsip(h, v) PROVE RealInv'
  BY <1>8 DEF Real!WriteMsip, WokenIsDue, Real!RealTimerExact
<1>9. CASE UNCHANGED Real!vars
  BY <1>9 DEF Real!vars, WokenIsDue, Real!RealTimerExact
<1> QED
  BY <1>1, <1>2, <1>3, <1>4, <1>5, <1>6, <1>7, <1>8, <1>9 DEF Real!Next

(* Whatever the host's threads do and in whatever order, the timer         *)
(* interrupt of real_clint.cpp is up only for a compare value that has     *)
(* been reached, and a compare value that is reached has its notification  *)
(* on the way: for every clock rate and every number of harts.             *)
THEOREM RealTimerExactTheorem == Real!Spec => []RealTimerExact
<1>1. Real!Init => RealInv
  BY RealInitInv
<1>2. RealInv /\ [Real!Next]_Real!vars => RealInv'
  BY RealNextInv, RealAssumption
<1>3. RealInv => RealTimerExact
  BY DEF RealInv, RealTimerExact
<1> QED
  BY <1>1, <1>2, <1>3, PTL DEF Real!Spec
=============================================================================

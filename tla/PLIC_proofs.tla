----------------------------- MODULE PLIC_proofs -----------------------------
(***************************************************************************)
(* Proofs about the two interrupt controllers, for every number of         *)
(* interrupts, priorities and harts: what the loop over the interrupts     *)
(* returns, and that neither controller forgets an interrupt.              *)
(***************************************************************************)
EXTENDS MCPLIC, NaturalsInduction, WellFoundedInduction, TLAPS

(* Induction over the naturals, from the well-foundedness of their order. *)
LEMMA Induction ==
    ASSUME NEW T \in SUBSET Nat, 0 \in T, \A n \in T : n + 1 \in T
    PROVE  T = Nat
<1> SUFFICES ASSUME Nat \ T # {} PROVE FALSE
  OBVIOUS
<1>1. IsWellFoundedOn(OpToRel(<, Nat), Nat)
  BY NatLessThanWellFounded
<1>2. PICK m \in Nat \ T : \A k \in Nat \ T : ~ (<<k, m>> \in OpToRel(<, Nat))
  BY <1>1, WFMin
<1>3. m # 0 /\ m - 1 \in Nat /\ m - 1 < m /\ (m - 1) + 1 = m
  OBVIOUS
<1>4. m - 1 \in T
  BY <1>2, <1>3 DEF OpToRel
<1> QED
  BY <1>2, <1>3, <1>4

(* The loop over the interrupts 1 to n, of which E are eligible and p[i]   *)
(* is the priority of i: f[i] is the best of the first i.                  *)
Step(E, p, i, best) == IF i \in E /\ (best = 0 \/ p[i] > p[best]) THEN i ELSE best
Loop(E, p, n, f) == [i \in 0 .. n |-> IF i = 0 THEN 0 ELSE Step(E, p, i, f[i - 1])]
Scan(E, p, n) == CHOOSE f : f = Loop(E, p, n, f)

LEMMA ScanExists ==
    ASSUME NEW E, NEW p, NEW n \in Nat
    PROVE  Scan(E, p, n) = Loop(E, p, n, Scan(E, p, n))
<1> DEFINE T == {k \in Nat : \E f : f = Loop(E, p, k, f)}
<1>1. 0 \in T
  <2> DEFINE f == [i \in 0 .. 0 |-> 0]
  <2>1. f = Loop(E, p, 0, f)
    BY DEF Loop
  <2> QED
    BY <2>1
<1>2. ASSUME NEW k \in T PROVE k + 1 \in T
  <2>1. PICK f : f = Loop(E, p, k, f)
    OBVIOUS
  <2> DEFINE g == [i \in 0 .. k + 1 |-> IF i = k + 1 THEN Step(E, p, i, f[k]) ELSE f[i]]
  <2>2. \A i \in 0 .. k : f[i] = IF i = 0 THEN 0 ELSE Step(E, p, i, f[i - 1])
    BY <2>1 DEF Loop
  <2>3. \A i \in 0 .. k : g[i] = f[i]
    OBVIOUS
  <2>4. \A i \in 0 .. k + 1 : g[i] = IF i = 0 THEN 0 ELSE Step(E, p, i, g[i - 1])
    <3> TAKE i \in 0 .. k + 1
    <3>1. CASE i = 0
      BY <2>2, <3>1
    <3>2. CASE i \in 1 .. k
      <4>1. g[i] = f[i] /\ g[i - 1] = f[i - 1]
        BY <2>3, <3>2
      <4> HIDE DEF g
      <4> QED
        BY <2>2, <3>2, <4>1
    <3>3. CASE i = k + 1
      <4>1. g[i] = Step(E, p, i, f[k]) /\ g[i - 1] = f[k]
        BY <2>3, <3>3
      <4> HIDE DEF g
      <4> QED
        BY <3>3, <4>1
    <3> QED
      BY <3>1, <3>2, <3>3
  <2>5. g = Loop(E, p, k + 1, g)
    BY <2>4 DEF Loop
  <2> QED
    BY <2>5
<1>3. T = Nat
  BY <1>1, <1>2, Induction
<1>4. \E f : f = Loop(E, p, n, f)
  BY <1>3
<1> QED
  BY <1>4 DEF Scan

LEMMA ScanSteps ==
    ASSUME NEW E, NEW p, NEW n \in Nat
    PROVE  /\ Scan(E, p, n)[0] = 0
           /\ \A i \in 1 .. n : Scan(E, p, n)[i] = Step(E, p, i, Scan(E, p, n)[i - 1])
<1> DEFINE f == Scan(E, p, n)
<1>1. f = [i \in 0 .. n |-> IF i = 0 THEN 0 ELSE Step(E, p, i, f[i - 1])]
  BY ScanExists DEF Loop
<1> HIDE DEF f
<1>2. \A i \in 0 .. n : f[i] = IF i = 0 THEN 0 ELSE Step(E, p, i, f[i - 1])
  BY <1>1
<1> QED
  BY <1>2 DEF f

(* The loop finds an interrupt if and only if one is eligible. *)
LEMMA ScanFinds ==
    ASSUME NEW E, NEW p, NEW n \in Nat, E \subseteq 1 .. n
    PROVE  /\ E = {} => Scan(E, p, n)[n] = 0
           /\ E # {} => Scan(E, p, n)[n] \in E
<1> DEFINE f == Scan(E, p, n)
           Good(k) == /\ f[k] \in E \cup {0}
                      /\ f[k] = 0 <=> E \cap (1 .. k) = {}
           T == {k \in Nat : k <= n => Good(k)}
<1>0. f[0] = 0 /\ \A i \in 1 .. n : f[i] = Step(E, p, i, f[i - 1])
  BY ScanSteps
<1> HIDE DEF f
<1>1. 0 \in T
  BY <1>0
<1>2. ASSUME NEW k \in T PROVE k + 1 \in T
  <2> SUFFICES ASSUME k + 1 <= n PROVE Good(k + 1)
    OBVIOUS
  <2>1. Good(k) /\ f[k + 1] = Step(E, p, k + 1, f[k])
    BY <1>0
  <2>2. E \cap (1 .. k + 1) = (E \cap (1 .. k)) \cup (E \cap {k + 1})
    OBVIOUS
  <2>3. CASE k + 1 \in E
    BY <2>1, <2>2, <2>3 DEF Step
  <2>4. CASE k + 1 \notin E
    BY <2>1, <2>2, <2>4 DEF Step
  <2> QED
    BY <2>3, <2>4
<1>3. T = Nat
  BY <1>1, <1>2, Induction
<1>4. Good(n)
  BY <1>3
<1>5. E \cap (1 .. n) = E
  OBVIOUS
<1>6. (E = {} => f[n] = 0) /\ (E # {} => f[n] \in E)
  BY <1>4, <1>5
<1> QED
  BY <1>6 DEF f

(* What it finds is the first of those with the highest priority. *)
LEMMA ScanBest ==
    ASSUME NEW E, NEW p, NEW n \in Nat, E \subseteq 1 .. n, \A i \in E : p[i] \in Nat,
           NEW i \in E
    PROVE  LET best == Scan(E, p, n)[n]
           IN  p[i] < p[best] \/ (p[i] = p[best] /\ best <= i)
<1> DEFINE f == Scan(E, p, n)
           Beats(b, j) == p[j] < p[b] \/ (p[j] = p[b] /\ b <= j)
           Good(k) == /\ f[k] \in (E \cap (1 .. k)) \cup {0}
                      /\ \A j \in E \cap (1 .. k) : f[k] # 0 /\ Beats(f[k], j)
           T == {k \in Nat : k <= n => Good(k)}
<1>0. f[0] = 0 /\ \A j \in 1 .. n : f[j] = Step(E, p, j, f[j - 1])
  BY ScanSteps
<1> HIDE DEF f
<1>1. 0 \in T
  BY <1>0
<1>2. ASSUME NEW k \in T PROVE k + 1 \in T
  <2> SUFFICES ASSUME k + 1 <= n PROVE Good(k + 1)
    OBVIOUS
  <2>1. Good(k) /\ f[k + 1] = Step(E, p, k + 1, f[k])
    BY <1>0
  <2>2. E \cap (1 .. k + 1) = (E \cap (1 .. k)) \cup (E \cap {k + 1})
    OBVIOUS
  <2>3. CASE f[k + 1] = k + 1 /\ k + 1 \in E /\ (f[k] = 0 \/ p[k + 1] > p[f[k]])
    <3>1. ASSUME NEW j \in E \cap (1 .. k) PROVE p[j] < p[k + 1]
      BY <2>1, <2>3
    <3> QED
      BY <2>2, <2>3, <3>1
  <2>4. CASE f[k + 1] = f[k] /\ (k + 1 \notin E \/ (f[k] # 0 /\ ~(p[k + 1] > p[f[k]])))
    <3>1. ASSUME NEW j \in E \cap {k + 1} PROVE f[k] # 0 /\ Beats(f[k], j)
      BY <2>1, <2>4
    <3> QED
      BY <2>1, <2>2, <2>4, <3>1
  <2> QED
    BY <2>1, <2>3, <2>4 DEF Step
<1>3. T = Nat
  BY <1>1, <1>2, Induction
<1>4. Good(n)
  BY <1>3
<1> QED
  BY <1>4 DEF f


-----------------------------------------------------------------------------
(* The FE310 controller. *)

(* hart_get_next_pending_interrupt is that loop. *)
LEMMA NextPendingIsScan ==
    ASSUME NEW c
    PROVE  NextPending(c) = Scan({i \in Irq : Eligible(i, c)}, interrupt_priorities, NumberInterrupts - 1)[NumberInterrupts - 1]
<1> DEFINE E == {i \in Irq : Eligible(i, c)}
           n == NumberInterrupts - 1
           p == interrupt_priorities
           Body(f) == [i \in 0 .. n |-> IF i = 0 THEN 0
                            ELSE IF Eligible(i, c) /\ Outranks(i, f[i - 1]) THEN i ELSE f[i - 1]]
<1>1. NextPending(c) = (CHOOSE f : f = Body(f))[n]
  BY DEF NextPending
<1>2. ASSUME NEW f PROVE Body(f) = Loop(E, p, n, f)
  <2>1. \A i \in 0 .. n : i # 0 => (i \in E <=> Eligible(i, c))
    BY PLICAssumption DEF Irq
  <2> QED
    BY <2>1 DEF Loop, Step, Outranks
<1> HIDE DEF Body
<1>3. (CHOOSE f : f = Body(f)) = CHOOSE f : f = Loop(E, p, n, f)
  BY <1>2
<1> QED
  BY <1>1, <1>3 DEF Scan

PrioritiesOK == interrupt_priorities \in [Irq -> Nat]

LEMMA PrioritiesKept == PrioritiesOK /\ [Next]_vars => PrioritiesOK'
<1> SUFFICES ASSUME PrioritiesOK, [Next]_vars PROVE PrioritiesOK'
  OBVIOUS
<1>1. ASSUME NEW i \in Irq, NEW prio \in 0 .. MaxPriority + 1, WritePriority(i, prio)
      PROVE  PrioritiesOK'
  <2>1. Clamped(prio) \in Nat
    BY PLICAssumption DEF Clamped
  <2> QED
    BY <1>1, <2>1 DEF WritePriority, PrioritiesOK
<1> QED
  BY <1>1 DEF Next, Trigger, Run, Claim, Complete, Configure, WriteEnable, WriteThreshold,
              vars, config, PrioritiesOK

(* hart_get_next_pending_interrupt returns the enabled pending interrupt   *)
(* with the highest priority, of equal ones the first, and 0 if and only   *)
(* if there is none.                                                       *)
THEOREM ScanFindsBestTheorem == Spec => []ScanFindsBest
<1>1. Init => PrioritiesOK
  BY DEF Init, PrioritiesOK
<1>2. PrioritiesOK => ScanFindsBest
  <2> SUFFICES ASSUME PrioritiesOK, NEW consider \in BOOLEAN
               PROVE  LET S == {i \in Irq : Eligible(i, consider)}
                          best == NextPending(consider)
                      IN  /\ best = 0 <=> S = {}
                          /\ best # 0 =>
                              /\ best \in S
                              /\ \A i \in S :
                                    \/ interrupt_priorities[i] < interrupt_priorities[best]
                                    \/ /\ interrupt_priorities[i] = interrupt_priorities[best]
                                       /\ best <= i
    BY DEF ScanFindsBest
  <2> DEFINE S == {i \in Irq : Eligible(i, consider)}
             n == NumberInterrupts - 1
             p == interrupt_priorities
             best == NextPending(consider)
  <2>1. n \in Nat /\ S \subseteq 1 .. n /\ \A i \in S : p[i] \in Nat
    BY PLICAssumption DEF Irq, PrioritiesOK
  <2>2. best = Scan(S, p, n)[n]
    BY NextPendingIsScan
  <2> HIDE DEF S, n, p, best
  <2>3. (S = {} => best = 0) /\ (S # {} => best \in S)
    BY <2>1, <2>2, ScanFinds
  <2>5. 0 \notin S
    BY <2>1
  <2>4. \A i \in S : p[i] < p[best] \/ (p[i] = p[best] /\ best <= i)
    BY <2>1, <2>2, ScanBest
  <2> QED
    BY <2>3, <2>4, <2>5 DEF S, p, best
<1> QED
  BY <1>1, <1>2, PrioritiesKept, PTL DEF Spec

Flags ==
    /\ hart_eip \in BOOLEAN
    /\ e_run \in BOOLEAN
    /\ meip \in BOOLEAN
    /\ serving \in BOOLEAN
    /\ failed \in BOOLEAN

(* The condition of an interrupt is read from the configuration and the    *)
(* pending bits only; taking bits away never causes an interrupt.          *)
LEMMA EligibleShrinks ==
    ASSUME UNCHANGED config, pending_interrupts' \subseteq pending_interrupts, NEW i \in Irq
    PROVE  Eligible(i, TRUE)' => Eligible(i, TRUE)
  BY DEF config, Eligible

LEMMA HasPendingBool == HasPending \in BOOLEAN
  BY DEF HasPending

-----------------------------------------------------------------------------
Inv == Flags /\ NoLostInterrupt

LEMMA InitInv == Init => Inv
  BY DEF Init, Inv, Flags, NoLostInterrupt, Eligible

LEMMA NextInv == Inv /\ [Next]_vars => Inv'
<1> SUFFICES ASSUME Inv, [Next]_vars PROVE Inv'
  OBVIOUS
<1> USE DEF Inv
<1>1. ASSUME NEW i \in Irq, Trigger(i) PROVE Inv'
  BY <1>1 DEF Trigger, Woken, Flags, NoLostInterrupt
<1>2. CASE Run
  <2>1. \A i \in Irq : Eligible(i, TRUE)' => HasPending
    BY <1>2, EligibleShrinks DEF Run, HasPending
  <2>2. Flags'
    BY <1>2, HasPendingBool DEF Run, Flags
  <2>3. NoLostInterrupt'
    BY <1>2, <2>1 DEF Run, NoLostInterrupt
  <2> QED
    BY <2>2, <2>3
<1>3. CASE Claim
  <2>1. \A i \in Irq : Eligible(i, TRUE)' => Eligible(i, TRUE)
    BY <1>3, EligibleShrinks DEF Claim
  <2>2. Flags'
    BY <1>3 DEF Claim, ClaimedEip, Flags
  <2>3. NoLostInterrupt'
    BY <1>3, <2>1 DEF Claim, ClaimedEip, NoLostInterrupt
  <2> QED
    BY <2>2, <2>3
<1>4. CASE Complete
  <2>1. \A i \in Irq : Eligible(i, TRUE)' => HasPending
    BY <1>4, EligibleShrinks DEF Complete, HasPending
  <2>2. Flags'
    BY <1>4, HasPendingBool DEF Complete, CompletedEip, Flags
  <2>3. NoLostInterrupt'
    BY <1>4, <2>1 DEF Complete, CompletedEip, NoLostInterrupt
  <2> QED
    BY <2>2, <2>3
<1>5. CASE Configure
  <2>1. /\ UNCHANGED <<hart_eip, e_run, meip, serving, failed, pending_interrupts>>
        /\ unchecked' = unchecked \cup pending_interrupts
    BY <1>5 DEF Configure, WritePriority, WriteEnable, WriteThreshold
  <2>2. \A i \in Irq : Eligible(i, TRUE)' => i \in unchecked'
    BY <2>1 DEF Eligible
  <2> QED
    BY <2>1, <2>2 DEF Flags, NoLostInterrupt
<1>6. CASE UNCHANGED vars
  <2>1. \A i \in Irq : Eligible(i, TRUE)' => Eligible(i, TRUE)
    BY <1>6, EligibleShrinks DEF vars
  <2> QED
    BY <1>6, <2>1 DEF vars, Flags, NoLostInterrupt
<1> QED
  BY <1>1, <1>2, <1>3, <1>4, <1>5, <1>6 DEF Next

(* No interrupt the hart should see is forgotten between trigger, claim    *)
(* and completion, whatever the software does.                             *)
THEOREM NoLostInterruptTheorem == Spec => []NoLostInterrupt
<1>1. Inv => NoLostInterrupt
  BY DEF Inv
<1> QED
  BY <1>1, InitInv, NextInv, PTL DEF Spec

-----------------------------------------------------------------------------
(* If software claims only while the interrupt line is up, the assertion   *)
(* of the completion never fails.                                          *)
THEOREM CompletionFindsLineUpTheorem ==
    ASSUME ~Polling PROVE Spec => []CompletionFindsLineUp
<1> DEFINE I == Inv /\ ServingLineUp /\ CompletionFindsLineUp
<1>1. Init => I
  BY InitInv DEF Init, ServingLineUp, CompletionFindsLineUp
<1>2. I /\ [Next]_vars => I'
  <2> SUFFICES ASSUME I, [Next]_vars PROVE (ServingLineUp /\ CompletionFindsLineUp)'
    BY NextInv
  <2>0. Flags /\ ServingLineUp /\ ~failed
    BY DEF Inv, CompletionFindsLineUp
  <2>1. ASSUME NEW i \in Irq, Trigger(i) PROVE (ServingLineUp /\ CompletionFindsLineUp)'
    BY <2>0, <2>1 DEF Trigger, ServingLineUp, CompletionFindsLineUp
  <2>2. CASE Run
    BY <2>0, <2>2, HasPendingBool DEF Run, ServingLineUp, CompletionFindsLineUp, Flags
  <2>3. CASE Claim
    <3>1. meip /\ hart_eip
      BY <2>0, <2>3 DEF Claim, ServingLineUp
    <3>2. UNCHANGED <<meip, hart_eip, failed>>
      BY <2>3 DEF Claim, ClaimedEip
    <3> QED
      BY <2>0, <3>1, <3>2 DEF ServingLineUp, CompletionFindsLineUp
  <2>4. CASE Complete
    BY <2>0, <2>4 DEF Complete, CompletedEip, ServingLineUp, CompletionFindsLineUp
  <2>5. CASE Configure
    BY <2>0, <2>5 DEF Configure, WritePriority, WriteEnable, WriteThreshold,
                      ServingLineUp, CompletionFindsLineUp
  <2>6. CASE UNCHANGED vars
    BY <2>0, <2>6 DEF vars, ServingLineUp, CompletionFindsLineUp
  <2> QED
    BY <2>1, <2>2, <2>3, <2>4, <2>5, <2>6 DEF Next
<1>3. I => CompletionFindsLineUp
  OBVIOUS
<1> QED
  BY <1>1, <1>2, <1>3, PTL DEF Spec

-----------------------------------------------------------------------------
(* The FU540 controller. *)

(* next_pending_irq is the same loop. *)
LEMMA NextPendingIrqIsScan ==
    ASSUME NEW c, NEW ignth
    PROVE  FU540!NextPendingIrq(c, ignth) =
             Scan({i \in FU540!Irq : FU540!Eligible(c, i, ignth)}, priorities, NumIrq)[NumIrq]
<1> DEFINE E == {i \in FU540!Irq : FU540!Eligible(c, i, ignth)}
           Body(f) == [i \in 0 .. NumIrq |->
                        IF i = 0 THEN 0
                        ELSE IF /\ FU540!Eligible(c, i, ignth)
                                /\ f[i - 1] = 0 \/ FU540!Prio(i) > FU540!Prio(f[i - 1])
                             THEN i ELSE f[i - 1]]
<1>1. FU540!NextPendingIrq(c, ignth) = (CHOOSE f : f = Body(f))[NumIrq]
  BY DEF FU540!NextPendingIrq
<1>2. ASSUME NEW f PROVE Body(f) = Loop(E, priorities, NumIrq, f)
  <2>1. \A i \in 0 .. NumIrq : i # 0 => (i \in E <=> FU540!Eligible(c, i, ignth))
    BY FU540Assumption DEF FU540!Irq
  <2> QED
    BY <2>1 DEF Loop, Step, FU540!Prio
<1> HIDE DEF Body
<1>3. (CHOOSE f : f = Body(f)) = CHOOSE f : f = Loop(E, priorities, NumIrq, f)
  BY <1>2
<1> QED
  BY <1>1, <1>3 DEF Scan

(* It returns 0 if and only if no interrupt is eligible. *)
LEMMA NextPendingIrqFinds ==
    ASSUME NEW c, NEW ignth
    PROVE  /\ FU540!NextPendingIrq(c, ignth) \in Nat
           /\ FU540!NextPendingIrq(c, ignth) = 0
                <=> \A i \in FU540!Irq : ~FU540!Eligible(c, i, ignth)
<1> DEFINE E == {i \in FU540!Irq : FU540!Eligible(c, i, ignth)}
           best == FU540!NextPendingIrq(c, ignth)
<1>1. NumIrq \in Nat /\ E \subseteq 1 .. NumIrq
  BY FU540Assumption DEF FU540!Irq
<1>2. best = Scan(E, priorities, NumIrq)[NumIrq]
  BY NextPendingIrqIsScan
<1> HIDE DEF E, best
<1>3. (E = {} => best = 0) /\ (E # {} => best \in E)
  BY <1>1, <1>2, ScanFinds
<1>4. best \in Nat /\ (best = 0 <=> E = {})
  <2>1. E \subseteq Nat /\ 0 \notin E
    BY <1>1
  <2>2. CASE E = {}
    BY <1>3, <2>2
  <2>3. CASE E # {}
    BY <1>3, <2>1, <2>3
  <2> QED
    BY <2>2, <2>3
<1> QED
  BY <1>4 DEF E, best

LEMMA HasPendingIrqFinds ==
    ASSUME NEW c
    PROVE  FU540!HasPendingIrq(c) <=> \E i \in FU540!Irq : FU540!Eligible(c, i, FALSE)
<1> DEFINE best == FU540!NextPendingIrq(c, FALSE)
<1>1. best \in Nat /\ (best = 0 <=> \A i \in FU540!Irq : ~FU540!Eligible(c, i, FALSE))
  BY NextPendingIrqFinds, Zenon
<1>2. FU540!HasPendingIrq(c) <=> best > 0
  BY DEF FU540!HasPendingIrq
<1> HIDE DEF best
<1>3. best > 0 <=> best # 0
  BY <1>1
<1> QED
  BY <1>1, <1>2, <1>3, Zenon

(* The state that makes it inductive: only the contexts in use have        *)
(* interrupts enabled.                                                     *)
FU540TypeOK ==
    /\ line \in [FU540!Context -> BOOLEAN]
    /\ handler \in [FU540!Context -> {"idle", "serving", "draining"}]
    /\ enabled \in [FU540!Context -> SUBSET Wired]
    /\ e_run2 \in BOOLEAN
    /\ \A c \in FU540!Context \ UsedContexts : enabled[c] = {}

FU540Inv == FU540TypeOK /\ FU540NoLostInterrupt

LEMMA FU540EligibleShrinks ==
    ASSUME UNCHANGED <<priorities, enabled, threshold>>, pending' \subseteq pending,
           NEW c, NEW i, NEW ignth
    PROVE  FU540!Eligible(c, i, ignth)' => FU540!Eligible(c, i, ignth)
  BY DEF FU540!Eligible, FU540!Prio

LEMMA FU540InitInv == FU540!Init => FU540Inv
  BY FU540Assumption DEF FU540!Init, FU540Inv, FU540TypeOK, FU540NoLostInterrupt,
     FU540!NoLostInterrupt, FU540!Eligible

LEMMA FU540NextInv == FU540Inv /\ [FU540!Next]_(FU540!vars) => FU540Inv'
<1> SUFFICES ASSUME FU540Inv, [FU540!Next]_(FU540!vars) PROVE FU540Inv'
  OBVIOUS
<1> USE DEF FU540NoLostInterrupt
<1>0. FU540TypeOK /\ FU540NoLostInterrupt
  BY DEF FU540Inv
<1>1. ASSUME NEW i \in Wired, FU540!Trigger(i) PROVE FU540Inv'
  BY <1>0, <1>1 DEF FU540!Trigger, FU540!Woken, FU540!config, FU540Inv, FU540TypeOK,
                    FU540!NoLostInterrupt
<1>2. CASE FU540!Run
  <2>1. FU540TypeOK'
    BY <1>0, <1>2 DEF FU540!Run, FU540!config, FU540TypeOK
  <2>2. ASSUME NEW c \in FU540!Context, NEW i \in FU540!Irq, FU540!Eligible(c, i, FALSE)'
        PROVE  line'[c]
    <3>1. FU540!Eligible(c, i, FALSE)
      BY <1>2, <2>2, FU540EligibleShrinks DEF FU540!Run, FU540!config
    <3>2. FU540!HasPendingIrq(c)
      BY <3>1, HasPendingIrqFinds
    <3>3. c \in UsedContexts
      BY <1>0, <3>1 DEF FU540TypeOK, FU540!Eligible
    <3>4. c \in FU540!Signalled(c[1])
      <4>1. c = <<c[1], c[2]>> /\ c[2] \in {"M", "S"} /\ (c[1] = 0 => c[2] = "M")
        BY DEF FU540!Context
      <4>2. CASE c[2] = "S"
        <5>1. c = <<c[1], "S">> /\ c[1] # 0
          BY <4>1, <4>2
        <5> QED
          BY <3>2, <5>1 DEF FU540!Signalled
      <4>3. CASE c[2] = "M"
        <5> DEFINE d == <<c[1], "S">>
        <5>1. c = <<c[1], "M">> /\ d # c /\ d[1] = c[1]
          BY <4>1, <4>3
        <5>2. ASSUME c[1] # 0, FU540!HasPendingIrq(d) PROVE FALSE
          <6>1. d \in FU540!Context
            BY <5>2 DEF FU540!Context
          <6>2. d \notin UsedContexts
            BY <3>3, <5>1, FU540Assumption
          <6>3. PICK j \in FU540!Irq : FU540!Eligible(d, j, FALSE)
            BY <5>2, HasPendingIrqFinds
          <6> QED
            BY <1>0, <6>1, <6>2, <6>3 DEF FU540TypeOK, FU540!Eligible
        <5> QED
          BY <3>2, <5>1, <5>2 DEF FU540!Signalled
      <4> QED
        BY <4>1, <4>2, <4>3
    <3> QED
      BY <1>2, <3>4 DEF FU540!Run
  <2> QED
    BY <2>1, <2>2 DEF FU540Inv, FU540!NoLostInterrupt
<1>3. ASSUME NEW c \in FU540!Context, FU540!Claim(c) PROVE FU540Inv'
  <2>1. FU540TypeOK'
    BY <1>0, <1>3 DEF FU540!Claim, FU540!config, FU540TypeOK
  <2>2. ASSUME NEW d \in FU540!Context, NEW i \in FU540!Irq \ unchecked2',
               FU540!Eligible(d, i, FALSE)'
        PROVE  line'[d] \/ e_run2' \/ handler'[d] # "idle"
    <3>1. FU540!Eligible(d, i, FALSE) /\ FU540!Eligible(d, i, TRUE)
      BY <1>3, <2>2, FU540EligibleShrinks DEF FU540!Claim, FU540!config, FU540!Eligible
    <3>2. CASE d = c
      <4>1. FU540!Claimed(c) # 0
        BY <3>1, <3>2, NextPendingIrqFinds DEF FU540!Claimed
      <4> QED
        BY <1>0, <1>3, <3>2, <4>1 DEF FU540!Claim, FU540TypeOK
    <3>3. CASE d # c
      BY <1>0, <1>3, <2>2, <3>1, <3>3 DEF FU540!Claim, FU540TypeOK, FU540!NoLostInterrupt
    <3> QED
      BY <3>2, <3>3
  <2> QED
    BY <2>1, <2>2 DEF FU540Inv, FU540!NoLostInterrupt
<1>4. ASSUME NEW c \in FU540!Context, FU540!Complete(c) PROVE FU540Inv'
  <2>1. FU540TypeOK'
    BY <1>0, <1>4 DEF FU540!Complete, FU540!config, FU540TypeOK
  <2>2. ASSUME NEW d \in FU540!Context, NEW i \in FU540!Irq \ unchecked2',
               FU540!Eligible(d, i, FALSE)'
        PROVE  line'[d] \/ e_run2' \/ handler'[d] # "idle"
    <3>1. FU540!Eligible(d, i, FALSE)
      BY <1>4, <2>2, FU540EligibleShrinks DEF FU540!Complete, FU540!config
    <3> QED
      BY <1>0, <1>4, <2>2, <3>1 DEF FU540!Complete, FU540TypeOK, FU540!NoLostInterrupt
  <2> QED
    BY <2>1, <2>2 DEF FU540Inv, FU540!NoLostInterrupt
<1>5. ASSUME FU540TypeOK', unchecked2' = unchecked2 \cup pending, pending' = pending
      PROVE  FU540Inv'
  BY <1>5 DEF FU540Inv, FU540!NoLostInterrupt, FU540!Eligible
<1>6. ASSUME NEW i \in FU540!Irq, NEW v \in 0 .. MaxPrio + 1, FU540!WritePriority(i, v)
      PROVE  FU540Inv'
  BY <1>0, <1>5, <1>6 DEF FU540!WritePriority, FU540TypeOK
<1>7. ASSUME NEW c \in UsedContexts, NEW v \in 0 .. MaxPrio + 1, FU540!WriteThreshold(c, v)
      PROVE  FU540Inv'
  BY <1>0, <1>5, <1>7 DEF FU540!WriteThreshold, FU540TypeOK
<1>8. ASSUME NEW c \in UsedContexts, NEW E \in SUBSET Wired, FU540!WriteEnable(c, E)
      PROVE  FU540Inv'
  <2>1. FU540TypeOK'
    BY <1>0, <1>8 DEF FU540!WriteEnable, FU540TypeOK
  <2> QED
    BY <1>5, <1>8, <2>1 DEF FU540!WriteEnable
<1>9. CASE UNCHANGED FU540!vars
  BY <1>0, <1>9 DEF FU540!vars, FU540!config, FU540Inv, FU540TypeOK, FU540!NoLostInterrupt,
                    FU540!Eligible, FU540!Prio
<1> QED
  BY <1>1, <1>2, <1>3, <1>4, <1>6, <1>7, <1>8, <1>9 DEF FU540!Next

(* The FU540 controller forgets no interrupt either, although it lowers    *)
(* the line at every completion, if software uses one context per hart.    *)
THEOREM FU540NoLostInterruptTheorem == FU540!Spec => []FU540NoLostInterrupt
<1>1. FU540Inv => FU540NoLostInterrupt
  BY DEF FU540Inv
<1> QED
  BY <1>1, FU540InitInv, FU540NextInv, PTL DEF FU540!Spec
=============================================================================

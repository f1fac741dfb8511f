---------------------------- MODULE MCHartMemory -----------------------------
(* Model checking of HartMemory: values, and the AMO operations used.      *)
EXTENDS HartMemory, TLC

CONSTANTS h1, h2, a1, a2

MCHart == {h1, h2}
MCAddr == {a1, a2}
MCOneAddr == {a1}
MCVal == {0, 1}
MCOneVal == {0}

AmoAdd == [x \in MCVal |-> [y \in MCVal |-> (x + y) % 2]]
MCAmoFns == {AmoAdd}
MCOneAmoFn == {[x \in MCOneVal |-> [y \in MCOneVal |-> 0]]}

(* Harts and addresses are interchangeable: nothing orders them.           *)
MCSymmetry == Permutations(MCHart) \cup Permutations(MCAddr)
=============================================================================

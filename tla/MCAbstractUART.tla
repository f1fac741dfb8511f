-------------------------- MODULE MCAbstractUART --------------------------
(* Instances of AbstractUART. *)
EXTENDS AbstractUART

(* One byte, then two: more than the receive FIFO holds. *)
TwoInputs == <<1, 2>>
=============================================================================

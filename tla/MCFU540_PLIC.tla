---------------------------- MODULE MCFU540_PLIC ----------------------------
(* Instances of FU540_PLIC: which contexts the operating system uses. *)
EXTENDS FU540_PLIC

(* Supervisor mode of the one application hart. *)
ContextsOne == {<<1, "S">>}
=============================================================================

------------------------------- MODULE FpOps --------------------------------
(* The floating point instructions of both executors, grouped by what their  *)
(* case of exec_step does: which of fp_prepare_instr, fp_setup_rm and        *)
(* fp_finish_instr it calls, where it reads its operands and where it writes *)
(* its result. The groups of RV32D and RV64 extend those of RV32F.           *)
EXTENDS Integers, FiniteSets

(* prepare, setup_rm, a softfloat operation into an FP register, finish.   *)
FpArith_S == {"FADD_S", "FSUB_S", "FMUL_S", "FDIV_S", "FSQRT_S", "FMADD_S", "FMSUB_S",
              "FNMADD_S", "FNMSUB_S"}
FpArith_D == {"FADD_D", "FSUB_D", "FMUL_D", "FDIV_D", "FSQRT_D", "FMADD_D", "FMSUB_D",
              "FNMADD_D", "FNMSUB_D"}

(* The same, from an integer register or the other precision.              *)
FpFromX_S == {"FCVT_S_W", "FCVT_S_WU"}
FpFromX_D == {"FCVT_D_W", "FCVT_D_WU"}
FpFromX_64 == {"FCVT_S_L", "FCVT_S_LU", "FCVT_D_L", "FCVT_D_LU"}
FpConvert_D == {"FCVT_S_D", "FCVT_D_S"}

(* prepare, setup_rm, a softfloat operation into an integer register, finish. *)
FpToX_S == {"FCVT_W_S", "FCVT_WU_S"}
FpToX_D == {"FCVT_W_D", "FCVT_WU_D"}
FpToX_64 == {"FCVT_L_S", "FCVT_LU_S", "FCVT_L_D", "FCVT_LU_D"}

(* prepare, two quiet comparisons, one operand copied, finish.             *)
FpMinMax_S == {"FMIN_S", "FMAX_S"}
FpMinMax_D == {"FMIN_D", "FMAX_D"}

(* prepare, bits moved into an FP register, set_dirty.                     *)
FpSign_S == {"FSGNJ_S", "FSGNJN_S", "FSGNJX_S"}
FpSign_D == {"FSGNJ_D", "FSGNJN_D", "FSGNJX_D"}
FpMoveToF_S == {"FMV_W_X"}
FpMoveToF_64 == {"FMV_D_X"}

(* prepare, bits or the class of an operand into an integer register.      *)
FpMoveToX_S == {"FMV_X_W", "FCLASS_S"}
FpMoveToX_D == {"FCLASS_D"}
FpMoveToX_64 == {"FMV_X_D"}

(* prepare, a comparison into an integer register, update_exception_flags. *)
FpCompare_S == {"FEQ_S", "FLT_S", "FLE_S"}
FpCompare_D == {"FEQ_D", "FLT_D", "FLE_D"}

(* The alignment check and the access, nothing else.                       *)
FpMem_S == {"FLW", "FSW"}
FpMem_D == {"FLD", "FSD"}

(* REQUIRE_ISA(F_ISA_EXT) and REQUIRE_ISA(D_ISA_EXT) of the RV32 executor. *)
FpSingle == FpArith_S \cup FpFromX_S \cup FpToX_S \cup FpMinMax_S \cup FpSign_S \cup FpMoveToF_S
                \cup FpMoveToX_S \cup FpCompare_S \cup FpMem_S
FpDouble == FpArith_D \cup FpFromX_D \cup FpConvert_D \cup FpToX_D \cup FpMinMax_D \cup FpSign_D
                \cup FpMoveToX_D \cup FpCompare_D \cup FpMem_D
Fp64 == FpFromX_64 \cup FpToX_64 \cup FpMoveToF_64 \cup FpMoveToX_64
=============================================================================

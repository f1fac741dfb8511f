-------------------------------- MODULE FPU ---------------------------------
(* The floating point registers and the floating point state in mstatus and  *)
(* fcsr, under the floating point instructions of both executors. Of a       *)
(* register the model keeps whether it holds a boxed single (the upper word  *)
(* all ones) and whether what it holds is a NaN; softfloat may return any    *)
(* number with any flags, and a NaN when an operand is one.                  *)
EXTENDS CSRs, FpOps

VARIABLES fregs,    \* FpRegs::regs
          sf,       \* softfloat_exceptionFlags
          raised    \* flags raised since software last wrote fflags or fcsr

fpuVars == <<fregs, sf, raised>>

FRegs == {0, 1}
FFlags == {0, 4}        \* inexact and invalid, as bits of fcsr
SingleValues == [boxed : {TRUE}, nan : BOOLEAN]
DoubleValues == [boxed : {FALSE}, nan : BOOLEAN]

FpuInit ==
    /\ fregs = [r \in FRegs |-> [boxed |-> FALSE, nan |-> FALSE]]
    /\ sf = {}
    /\ raised = {}

(***************************************************************************)
(* FpRegs: reading a register as a single or as a double. A register that  *)
(* holds no boxed single reads as a NaN single, and a boxed single is a    *)
(* NaN when it is read as a double.                                        *)
(***************************************************************************)
f32_defaultNaN == [boxed |-> TRUE, nan |-> TRUE]
f64_defaultNaN == [boxed |-> FALSE, nan |-> TRUE]
f32(x) == IF x.boxed THEN x ELSE f32_defaultNaN
f64(x) == x
f32_isNaN(x) == x.nan
f64_isNaN(x) == x.boxed \/ x.nan

ReadsSingle == FpSingle \cup {"FCVT_D_S", "FCVT_L_S", "FCVT_LU_S"}
WritesSingle == FpSingle \cup {"FCVT_S_D", "FCVT_S_L", "FCVT_S_LU"}
Source(op, r) == IF op \in ReadsSingle THEN f32(fregs[r]) ELSE f64(fregs[r])
IsNaN(op, x) == IF op \in ReadsSingle THEN f32_isNaN(x) ELSE f64_isNaN(x)
Results(op) == IF op \in WritesSingle THEN SingleValues ELSE DoubleValues

(***************************************************************************)
(* The helpers of the cases of exec_step.                                  *)
(***************************************************************************)
FS == {13, 14}
SD == IF arch = "RV32" THEN 31 ELSE 63
fp_set_dirty(c) == [c EXCEPT !["mstatus"] = @ \cup FS \cup {SD}]

(* Mutant: the flags of the last instruction replace the accrued ones. *)
fp_update_exception_flagsMutant(c, flags) ==
    IF flags = {} THEN c ELSE [fp_set_dirty(c) EXCEPT !["fcsr"] = (@ \ FFlags) \cup flags]

fp_update_exception_flags(c, flags) ==
    IF flags = {} THEN c ELSE [fp_set_dirty(c) EXCEPT !["fcsr"] = @ \cup flags]

(* Mutant: the state is dirty only when a flag was raised. *)
fp_finish_instrMutant(c, flags) == fp_update_exception_flags(c, flags)

fp_finish_instr(c, flags) == fp_update_exception_flags(fp_set_dirty(c), flags)

(* REQUIRE_ISA, or an opcode this executor does not have. *)
RequireIsa(op) == arch = "RV32" => op \in FpSingle
fp_prepare_instr(op) == RequireIsa(op) /\ csrs["mstatus"] \cap FS # {}

(* The rounding mode of an instruction: 7 is dynamic, 4 and above illegal. *)
Frm(c) == LET Bit(b, w) == IF b \in c["fcsr"] THEN w ELSE 0 IN Bit(5, 1) + Bit(6, 2) + Bit(7, 4)
fp_setup_rm(rm) == (IF rm = 7 THEN Frm(csrs) ELSE rm) < 4

(***************************************************************************)
(* What the case of an instruction does, for each group of FpOps.          *)
(***************************************************************************)
Executed(by, trap) ==
    /\ last' = [by |-> by, mode |-> Machine, trap |-> trap, wrote |-> FALSE]
    /\ UNCHANGED <<arch, use, clk, lines, overwritten>>

FpTraps == csrs' = csrs /\ UNCHANGED fpuVars /\ Executed("fp", TRUE)

(* The softfloat calls of one instruction raise flags, and the end of its  *)
(* case moves them to fcsr, which gives c.                                 *)
FpCompletes(regs, flags, c) ==
    /\ fregs' = regs
    /\ csrs' = c
    /\ sf' = {}
    /\ raised' = raised \cup flags
    /\ Executed("fp", FALSE)

(* The case ends in fp_set_dirty, or with nothing, and calls no softfloat. *)
FpMoves(regs, c) ==
    /\ fregs' = regs
    /\ csrs' = c
    /\ UNCHANGED <<sf, raised>>
    /\ Executed("fp", FALSE)

FpArithmetic(ops) ==
    \E op \in ops :
        \E rm \in {0, 4, 7}, rd \in FRegs, flags \in SUBSET FFlags :
            \/ fp_prepare_instr(op) /\ fp_setup_rm(rm)
                /\ \E rs \in SUBSET FRegs, v \in Results(op) :
                    /\ rs = {} <=> op \in FpFromX_S \cup FpFromX_D \cup FpFromX_64
                    /\ (\E r \in rs : IsNaN(op, Source(op, r))) => v.nan
                    /\ FpCompletes([fregs EXCEPT ![rd] = v], flags, fp_finish_instr(csrs, sf \cup flags))
            \/ ~(fp_prepare_instr(op) /\ fp_setup_rm(rm)) /\ FpTraps

FpToInteger(ops) ==
    \E op \in ops, rm \in {0, 4, 7}, flags \in SUBSET FFlags :
        \/ /\ fp_prepare_instr(op) /\ fp_setup_rm(rm)
           /\ FpCompletes(fregs, flags, fp_finish_instr(csrs, sf \cup flags))
        \/ ~(fp_prepare_instr(op) /\ fp_setup_rm(rm)) /\ FpTraps

(* The second operand when the comparison with it fails, as with a NaN;    *)
(* a quiet comparison raises invalid only for a signalling NaN.            *)
Selects(op, a, b, v, flags) ==
    LET nans == {x \in {a, b} : IsNaN(op, x)}
        default == IF op \in FpMinMax_S THEN f32_defaultNaN ELSE f64_defaultNaN
    IN /\ v \in {a, b, default}
       /\ nans = {} => flags = {}
       /\ IF nans = {a, b} THEN v = default
          ELSE IF nans # {} THEN v = b ELSE v # default

FpMinMax(ops) ==
    \E op \in ops, rd \in FRegs, rs1 \in FRegs, rs2 \in FRegs :
        \/ /\ fp_prepare_instr(op)
           /\ \E flags \in SUBSET {4}, v \in SingleValues \cup DoubleValues :
                 /\ Selects(op, Source(op, rs1), Source(op, rs2), v, flags)
                 /\ FpCompletes([fregs EXCEPT ![rd] = v], flags, fp_finish_instr(csrs, sf \cup flags))
        \/ ~fp_prepare_instr(op) /\ FpTraps

(* Changing the sign of a register read as a double may box or unbox it:   *)
(* a boxed single is a negative NaN.                                       *)
SignChanged(op, x) ==
    {x} \cup IF op \in FpSign_S \/ ~f64_isNaN(x) THEN {}
             ELSE IF x.boxed THEN {f64_defaultNaN} ELSE SingleValues
FpSignInject(ops) ==
    \E op \in ops, rd \in FRegs, rs1 \in FRegs :
        \/ /\ fp_prepare_instr(op)
           /\ \E v \in SignChanged(op, Source(op, rs1)) :
                FpMoves([fregs EXCEPT ![rd] = v], fp_set_dirty(csrs))
        \/ ~fp_prepare_instr(op) /\ FpTraps

FpMoveToF(ops) ==
    \E op \in ops, rd \in FRegs :
        \/ /\ fp_prepare_instr(op)
           /\ \E v \in SingleValues \cup DoubleValues :
                /\ op \in FpMoveToF_S => v.boxed
                /\ FpMoves([fregs EXCEPT ![rd] = v], fp_set_dirty(csrs))
        \/ ~fp_prepare_instr(op) /\ FpTraps

FpMoveToX(ops) ==
    \E op \in ops :
        \/ fp_prepare_instr(op) /\ FpMoves(fregs, csrs)
        \/ ~fp_prepare_instr(op) /\ FpTraps

(* FEQ is quiet, FLT and FLE signal for any NaN.                           *)
FpCompare(ops) ==
    \E op \in ops, rs1 \in FRegs, rs2 \in FRegs :
        LET nan == \E r \in {rs1, rs2} : IsNaN(op, Source(op, r))
            quiet == op \in {"FEQ_S", "FEQ_D"}
        IN \/ /\ fp_prepare_instr(op)
              /\ \E flags \in SUBSET {4} :
                    /\ flags # {} => nan
                    /\ nan /\ ~quiet => flags # {}
                    /\ FpCompletes(fregs, flags,
                                   fp_update_exception_flags(csrs, sf \cup flags))
           \/ ~fp_prepare_instr(op) /\ FpTraps

(* FLW, FLD, FSW and FSD look only at misa, and leave FS as it is.         *)
FpLoadStore(ops) ==
    \E op \in ops, rd \in FRegs, v \in SingleValues \cup DoubleValues :
        \/ /\ RequireIsa(op)
           /\ op = "FLW" => v.boxed
           /\ fregs' = IF op \in {"FLW", "FLD"} THEN [fregs EXCEPT ![rd] = v] ELSE fregs
           /\ UNCHANGED <<csrs, sf, raised>>
           /\ Executed("fpmem", FALSE)
        \/ ~RequireIsa(op) /\ FpTraps

(***************************************************************************)
(* The instructions: RV32F, RV32D and what RV64 adds to them.              *)
(***************************************************************************)
Arithmetic_S == FpArithmetic(FpArith_S)
Convert_S == FpArithmetic(FpFromX_S) \/ FpToInteger(FpToX_S)
MinMax_S == FpMinMax(FpMinMax_S)
Sign_S == FpSignInject(FpSign_S)
Move_S == FpMoveToF(FpMoveToF_S) \/ FpMoveToX(FpMoveToX_S)
Compare_S == FpCompare(FpCompare_S)
Memory_S == FpLoadStore(FpMem_S)

Arithmetic_D == FpArithmetic(FpArith_D)
Convert_D == FpArithmetic(FpFromX_D \cup FpConvert_D) \/ FpToInteger(FpToX_D)
MinMax_D == FpMinMax(FpMinMax_D)
Sign_D == FpSignInject(FpSign_D)
Class_D == FpMoveToX(FpMoveToX_D)
Compare_D == FpCompare(FpCompare_D)
Memory_D == FpLoadStore(FpMem_D)

Convert_64 == FpArithmetic(FpFromX_64) \/ FpToInteger(FpToX_64)
Move_64 == FpMoveToF(FpMoveToF_64) \/ FpMoveToX(FpMoveToX_64)

FpuNext ==
    /\ "fpu" \in use.units
    /\ \/ Arithmetic_S \/ Convert_S \/ MinMax_S \/ Sign_S \/ Move_S \/ Compare_S \/ Memory_S
       \/ Arithmetic_D \/ Convert_D \/ MinMax_D \/ Sign_D \/ Class_D \/ Compare_D \/ Memory_D
       \/ Convert_64 \/ Move_64

(* What a step of CSRs does to the state of this module: a write to the    *)
(* flags starts the ghost afresh.                                          *)
FpuFollowsCsr ==
    /\ raised' = IF csrs'["fcsr"] # csrs["fcsr"] THEN csrs'["fcsr"] \cap FFlags ELSE raised
    /\ UNCHANGED <<fregs, sf>>

(***************************************************************************)
(* Properties.                                                             *)
(***************************************************************************)
(* fflags accrue: a flag that some instruction raised stays in fcsr until  *)
(* software writes fcsr, and none is left in softfloat, where the assert   *)
(* of fp_prepare_instr would meet it, on any path of any instruction.      *)
FlagsAccrue == sf = {} /\ raised \subseteq csrs["fcsr"]

(* What an operating system that saves the FP context lazily relies on: an *)
(* instruction that changes an FP register or fcsr, other than a load,     *)
(* leaves FS dirty and SD set, and none executes while FS is off.          *)
FsTracksChanges ==
    [][last'.by = "fp" /\ ~last'.trap =>
          /\ csrs["mstatus"] \cap FS # {}
          /\ fregs' # fregs \/ csrs'["fcsr"] # csrs["fcsr"]
                => FS \cup {SD} \subseteq csrs'["mstatus"]]_<<csrVars, fpuVars>>
=============================================================================

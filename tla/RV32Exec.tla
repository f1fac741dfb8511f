------------------------------ MODULE RV32Exec ------------------------------
(* rv32::ISS::exec_step, the integer instructions: what each case of the     *)
(* switch computes from its operands. Registers hold signed values of        *)
(* XLEN32 bits. An instruction x is a record of its decoded operation and    *)
(* its operands:                                                             *)
(*   op, a = regs[rs1], b = regs[rs2], imm = the immediate or shift amount   *)
(*   of its format, pc and next = last_pc and the address after it,          *)
(*   mem = the value in memory at the address it accesses.                   *)
EXTENDS Arith, FpOps, Tables

CONSTANT Nothing    \* no trap, no result, no store

XLEN32 == WORD

(* misa of this core: IMACF with N, U and S; no D.                         *)
misa32 == {"I", "M", "A", "F", "C", "N", "U", "S"}

ImmOps32 == {"ADDI", "SLTI", "SLTIU", "XORI", "ORI", "ANDI"}
RegOps32 == {"ADD", "SUB", "SLL", "SLT", "SLTU", "SRL", "SRA", "XOR", "OR", "AND"}
ShiftOps32 == {"SLLI", "SRLI", "SRAI"}
UpperOps32 == {"LUI", "AUIPC"}
JumpOps32 == {"JAL", "JALR"}
BranchOps32 == {"BEQ", "BNE", "BLT", "BGE", "BLTU", "BGEU"}
MulDivOps32 == {"MUL", "MULH", "MULHU", "MULHSU", "DIV", "DIVU", "REM", "REMU"}
AmoOps32 == {"AMOSWAP_W", "AMOADD_W", "AMOXOR_W", "AMOAND_W", "AMOOR_W", "AMOMIN_W",
             "AMOMINU_W", "AMOMAX_W", "AMOMAXU_W"}

(* regs.shamt: the low bits of a register, as many as select a bit of it. *)
Shamt32(b) == Unsigned(b, XLEN32) % XLEN32

(* The results of the operations on registers and immediates. *)
Alu32(op, a, b) ==
    LET S(v) == Signed(v, XLEN32)
        u == Unsigned(a, XLEN32)
        v == Unsigned(b, XLEN32)
    IN CASE op \in {"ADD", "ADDI"} -> S(a + b)
         [] op = "SUB" -> S(a - b)
         [] op \in {"SLT", "SLTI"} -> Truth(a < b)
         [] op \in {"SLTU", "SLTIU"} -> Truth(u < v)
         [] op \in {"XOR", "XORI"} -> BitXor(a, b, XLEN32)
         [] op \in {"OR", "ORI"} -> BitOr(a, b, XLEN32)
         [] op \in {"AND", "ANDI"} -> BitAnd(a, b, XLEN32)
         [] op = "SLL" -> S(a * Pow2[Shamt32(b)])
         [] op = "SRL" -> S(u \div Pow2[Shamt32(b)])
         [] op = "SRA" -> a \div Pow2[Shamt32(b)]

Shift32(op, a, shamt) ==
    CASE op = "SLLI" -> Signed(a * Pow2[shamt], XLEN32)
      [] op = "SRLI" -> Signed(Unsigned(a, XLEN32) \div Pow2[shamt], XLEN32)
      [] op = "SRAI" -> a \div Pow2[shamt]

Mul32(op, a, b) ==
    LET u == Unsigned(a, XLEN32)
        v == Unsigned(b, XLEN32)
    IN CASE op = "MUL" -> Signed(a * b, XLEN32)
         [] op = "MULH" -> High(a * b, XLEN32)
         [] op = "MULHU" -> High(u * v, XLEN32)
         [] op = "MULHSU" -> High(a * v, XLEN32)

Div32(op, a, b) ==
    LET u == Unsigned(a, XLEN32)
        v == Unsigned(b, XLEN32)
        overflow == a = MinInt(XLEN32) /\ b = -1
    IN CASE op = "DIV" -> IF b = 0 THEN -1 ELSE IF overflow THEN a ELSE Quotient(a, b)
         [] op = "DIVU" -> IF b = 0 THEN -1 ELSE Signed(u \div v, XLEN32)
         [] op = "REM" -> IF b = 0 THEN a ELSE IF overflow THEN 0 ELSE Remainder(a, b)
         [] op = "REMU" -> IF b = 0 THEN a ELSE Signed(u % v, XLEN32)

Taken32(op, a, b) ==
    LET u == Unsigned(a, XLEN32)
        v == Unsigned(b, XLEN32)
    IN CASE op = "BEQ" -> a = b
         [] op = "BNE" -> a # b
         [] op = "BLT" -> a < b
         [] op = "BGE" -> a >= b
         [] op = "BLTU" -> u < v
         [] op = "BGEU" -> u >= v

(* The value an AMO stores, from the one it loaded and the one of rs2. *)
Amo32(op, a, b) ==
    LET u == Unsigned(a, WORD)
        v == Unsigned(b, WORD)
    IN CASE op = "AMOSWAP_W" -> Signed(b, WORD)
         [] op = "AMOADD_W" -> Signed(a + b, WORD)
         [] op = "AMOXOR_W" -> BitXor(a, b, WORD)
         [] op = "AMOAND_W" -> BitAnd(a, b, WORD)
         [] op = "AMOOR_W" -> BitOr(a, b, WORD)
         [] op = "AMOMIN_W" -> Smaller(a, b)
         [] op = "AMOMINU_W" -> Signed(Smaller(u, v), WORD)
         [] op = "AMOMAX_W" -> Greater(a, b)
         [] op = "AMOMAXU_W" -> Signed(Greater(u, v), WORD)

(* Bytes accessed; the loads of a byte or a half word by sign.             *)
Size32 == [LB |-> 1, LBU |-> 1, LH |-> 2, LHU |-> 2, LW |-> 4, SB |-> 1, SH |-> 2, SW |-> 4]
Loads32 == {"LB", "LBU", "LH", "LHU", "LW"}
Stores32 == {"SB", "SH", "SW"}
Load32(op, mem) ==
    IF op \in {"LBU", "LHU"} THEN Unsigned(mem, Size32[op] * BYTE)
                             ELSE Signed(mem, Size32[op] * BYTE)

(***************************************************************************)
(* What an instruction does: the trap it raises, the value written to rd,  *)
(* the program counter after it, and the value it stores.                  *)
(***************************************************************************)
Retires32(x) == [trap |-> Nothing, rd |-> Nothing, pc |-> x.next, store |-> Nothing]
Result32(x, v) == [Retires32(x) EXCEPT !.rd = v]
Raises32(x, cause) == [Retires32(x) EXCEPT !.trap = cause, !.pc = x.pc]

(* trap_check_pc_alignment; the assertion on bit 0 is NextPcEven.          *)
JumpTo32(x, target, link) ==
    IF target % 4 # 0 /\ "C" \notin misa32 THEN Raises32(x, "fetch_misaligned")
    ELSE [Retires32(x) EXCEPT !.pc = target, !.rd = link]

(* Mutant: bit 0 of the target of JALR is kept. *)
ExecJump32Mutant(x) ==
    JumpTo32(x, Unsigned((IF x.op = "JALR" THEN x.a ELSE x.pc) + x.imm, XLEN32),
             Signed(x.next, XLEN32))

ExecJump32(x) ==
    CASE x.op = "JAL" -> JumpTo32(x, Unsigned(x.pc + x.imm, XLEN32), Signed(x.next, XLEN32))
      [] x.op = "JALR" -> LET t == Unsigned(x.a + x.imm, XLEN32)
                          IN JumpTo32(x, t - (t % 2), Signed(x.next, XLEN32))
      [] x.op \in BranchOps32 ->
            IF Taken32(x.op, x.a, x.b)
            THEN JumpTo32(x, Unsigned(x.pc + x.imm, XLEN32), Nothing)
            ELSE Retires32(x)

ExecMem32(x) ==
    LET addr == Unsigned(x.a + x.imm, XLEN32)
        aligned == addr % Size32[x.op] = 0
    IN CASE x.op \in Loads32 -> IF aligned THEN Result32(x, Load32(x.op, x.mem))
                                           ELSE Raises32(x, "load_misaligned")
         [] x.op \in Stores32 ->
                IF aligned
                THEN [Retires32(x) EXCEPT !.store = Unsigned(x.b, Size32[x.op] * BYTE)]
                ELSE Raises32(x, "store_misaligned")

(* execute_amo: the old value goes to rd after the store.                  *)
ExecAmo32(x) ==
    IF Unsigned(x.a, XLEN32) % 4 # 0 THEN Raises32(x, "store_misaligned")
    ELSE [Result32(x, Signed(x.mem, WORD)) EXCEPT
             !.store = Unsigned(Amo32(x.op, Signed(x.mem, WORD), x.b), WORD)]

(* Instructions the decoder returns and this core rejects. *)
(* Mutant: the moves of 64 bit registers are not listed. *)
Illegal32Mutant ==
    {"UNDEF", "LWU", "LD", "SD", "ADDIW", "SLLIW", "SRLIW", "SRAIW", "ADDW", "SUBW", "SLLW",
     "SRLW", "SRAW", "MULW", "DIVW", "DIVUW", "REMW", "REMUW", "LR_D", "SC_D"}

Illegal32 ==
    {"UNDEF", "LWU", "LD", "SD", "ADDIW", "SLLIW", "SRLIW", "SRAIW", "ADDW", "SUBW", "SLLW",
     "SRLW", "SRAW", "MULW", "DIVW", "DIVUW", "REMW", "REMUW", "LR_D", "SC_D", "AMOSWAP_D",
     "AMOADD_D", "AMOXOR_D", "AMOAND_D", "AMOOR_D", "AMOMIN_D", "AMOMAX_D", "AMOMINU_D",
     "AMOMAXU_D", "FCVT_L_S", "FCVT_LU_S", "FCVT_S_L", "FCVT_S_LU", "FCVT_L_D", "FCVT_LU_D",
     "FMV_X_D", "FCVT_D_L", "FCVT_D_LU", "FMV_D_X"}

(* Instructions whose effect is on more than registers and one location:   *)
(* HartMemory, CSRs and Traps model them.                                  *)
LrScOps32 == {"LR_W", "SC_W"}
CsrOps == {"CSRRW", "CSRRS", "CSRRC", "CSRRWI", "CSRRSI", "CSRRCI"}
SystemOps == {"ECALL", "EBREAK", "WFI", "SFENCE_VMA", "URET", "SRET", "MRET"}
FenceOps == {"FENCE", "FENCE_I"}

(* The labels of the switch; its default throws. *)
Integer32 == ImmOps32 \cup RegOps32 \cup ShiftOps32 \cup UpperOps32 \cup JumpOps32
                \cup BranchOps32 \cup Loads32 \cup Stores32 \cup MulDivOps32 \cup AmoOps32
                \cup FenceOps
Handled32 == Illegal32 \cup Integer32 \cup LrScOps32 \cup CsrOps \cup SystemOps
                \cup FpSingle \cup FpDouble

(* The extension REQUIRE_ISA asks for. *)
Requires32(op) ==
    CASE op \in MulDivOps32 -> "M"
      [] op \in AmoOps32 \cup LrScOps32 -> "A"
      [] op \in FpSingle -> "F"
      [] op \in FpDouble -> "D"
      [] OTHER -> "I"

Exec32(x) ==
    CASE x.op \in Illegal32 \/ Requires32(x.op) \notin misa32 -> Raises32(x, "illegal")
      [] x.op \in ImmOps32 -> Result32(x, Alu32(x.op, x.a, x.imm))
      [] x.op \in RegOps32 -> Result32(x, Alu32(x.op, x.a, x.b))
      [] x.op \in ShiftOps32 -> Result32(x, Shift32(x.op, x.a, x.imm))
      [] x.op = "LUI" -> Result32(x, Signed(x.imm, XLEN32))
      [] x.op = "AUIPC" -> Result32(x, Signed(x.pc + x.imm, XLEN32))
      [] x.op \in JumpOps32 \cup BranchOps32 -> ExecJump32(x)
      [] x.op \in Loads32 \cup Stores32 -> ExecMem32(x)
      [] x.op \in MulDivOps32 ->
            Result32(x, IF x.op \in {"MUL", "MULH", "MULHU", "MULHSU"}
                        THEN Mul32(x.op, x.a, x.b) ELSE Div32(x.op, x.a, x.b))
      [] x.op \in AmoOps32 -> ExecAmo32(x)
      [] x.op \in FenceOps -> Retires32(x)
=============================================================================

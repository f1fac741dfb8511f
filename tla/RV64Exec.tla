------------------------------ MODULE RV64Exec ------------------------------
(* rv64::ISS::exec_step, the integer instructions, with the operand records  *)
(* of RV32Exec. This core has an executor of its own, with 64 bit registers, *)
(* the W instructions on the low half of them, and no REQUIRE_ISA.           *)
EXTENDS RV32Exec

XLEN64 == DOUBLE

misa64 == misa32 \cup {"D"}

ImmOps64 == ImmOps32
RegOps64 == RegOps32
WordOps == {"ADDIW", "SLLIW", "SRLIW", "SRAIW", "ADDW", "SUBW", "SLLW", "SRLW", "SRAW"}
MulDivWordOps == {"MULW", "DIVW", "DIVUW", "REMW", "REMUW"}
AmoDoubleOps == {"AMOSWAP_D", "AMOADD_D", "AMOXOR_D", "AMOAND_D", "AMOOR_D", "AMOMIN_D",
                 "AMOMINU_D", "AMOMAX_D", "AMOMAXU_D"}

Shamt64(b) == Unsigned(b, XLEN64) % XLEN64
Shamt_w(b) == Unsigned(b, XLEN64) % WORD

Alu64(op, a, b) ==
    LET S(v) == Signed(v, XLEN64)
        u == Unsigned(a, XLEN64)
        v == Unsigned(b, XLEN64)
    IN CASE op \in {"ADD", "ADDI"} -> S(a + b)
         [] op = "SUB" -> S(a - b)
         [] op \in {"SLT", "SLTI"} -> Truth(a < b)
         [] op \in {"SLTU", "SLTIU"} -> Truth(u < v)
         [] op \in {"XOR", "XORI"} -> BitXor(a, b, XLEN64)
         [] op \in {"OR", "ORI"} -> BitOr(a, b, XLEN64)
         [] op \in {"AND", "ANDI"} -> BitAnd(a, b, XLEN64)
         [] op = "SLL" -> S(a * Pow2[Shamt64(b)])
         [] op = "SRL" -> S(u \div Pow2[Shamt64(b)])
         [] op = "SRA" -> a \div Pow2[Shamt64(b)]

Shift64(op, a, shamt) ==
    CASE op = "SLLI" -> Signed(a * Pow2[shamt], XLEN64)
      [] op = "SRLI" -> Signed(Unsigned(a, XLEN64) \div Pow2[shamt], XLEN64)
      [] op = "SRAI" -> a \div Pow2[shamt]

(* The casts to int32_t and uint32_t keep the low word; the result is      *)
(* extended by its sign. b is rs2 or the immediate, shamt a shift amount.  *)
AluWord(op, a, b, shamt) ==
    LET lo == Signed(a, WORD)
        ulo == Unsigned(a, WORD)
    IN CASE op \in {"ADDIW", "ADDW"} -> Signed(lo + Signed(b, WORD), WORD)
         [] op = "SUBW" -> Signed(lo - Signed(b, WORD), WORD)
         [] op \in {"SLLIW", "SLLW"} -> Signed(ulo * Pow2[shamt], WORD)
         [] op \in {"SRLIW", "SRLW"} -> Signed(ulo \div Pow2[shamt], WORD)
         [] op \in {"SRAIW", "SRAW"} -> lo \div Pow2[shamt]

Mul64(op, a, b) ==
    LET u == Unsigned(a, XLEN64)
        v == Unsigned(b, XLEN64)
    IN CASE op = "MUL" -> Signed(a * b, XLEN64)
         [] op = "MULH" -> High(a * b, XLEN64)
         [] op = "MULHU" -> High(u * v, XLEN64)
         [] op = "MULHSU" -> High(a * v, XLEN64)

(* Mutant: the remainder of a division by zero is zero. *)
Div64Mutant(op, a, b) ==
    IF b = 0 THEN IF op \in {"DIV", "DIVU"} THEN -1 ELSE 0
    ELSE IF op \in {"DIV", "DIVU"} THEN Quotient(a, b) ELSE Remainder(a, b)

Div64(op, a, b) ==
    LET u == Unsigned(a, XLEN64)
        v == Unsigned(b, XLEN64)
        overflow == a = MinInt(XLEN64) /\ b = -1
    IN CASE op = "DIV" -> IF b = 0 THEN -1 ELSE IF overflow THEN a ELSE Quotient(a, b)
         [] op = "DIVU" -> IF b = 0 THEN -1 ELSE Signed(u \div v, XLEN64)
         [] op = "REM" -> IF b = 0 THEN a ELSE IF overflow THEN 0 ELSE Remainder(a, b)
         [] op = "REMU" -> IF b = 0 THEN a ELSE Signed(u % v, XLEN64)

MulDivWord(op, rs1, rs2) ==
    LET a == Signed(rs1, WORD)
        b == Signed(rs2, WORD)
        u == Unsigned(a, WORD)
        v == Unsigned(b, WORD)
        overflow == a = MinInt(WORD) /\ b = -1
    IN CASE op = "MULW" -> Signed(rs1 * rs2, WORD)
         [] op = "DIVW" -> IF b = 0 THEN -1 ELSE IF overflow THEN a ELSE Quotient(a, b)
         [] op = "DIVUW" -> IF b = 0 THEN -1 ELSE Signed(u \div v, WORD)
         [] op = "REMW" -> IF b = 0 THEN a ELSE IF overflow THEN 0 ELSE Remainder(a, b)
         [] op = "REMUW" -> IF b = 0 THEN a ELSE Signed(u % v, WORD)

Taken64(op, a, b) ==
    LET u == Unsigned(a, XLEN64)
        v == Unsigned(b, XLEN64)
    IN CASE op = "BEQ" -> a = b
         [] op = "BNE" -> a # b
         [] op = "BLT" -> a < b
         [] op = "BGE" -> a >= b
         [] op = "BLTU" -> u < v
         [] op = "BGEU" -> u >= v

(* The word AMOs compute on int32_t: what is loaded and rs2 are cast.      *)
(* Mutant: rs2 is compared without the cast to a word. *)
AmoWord64Mutant(op, data, rs2) ==
    Signed(IF op \in {"AMOMIN_W", "AMOMINU_W"} THEN Smaller(data, rs2) ELSE Greater(data, rs2),
           WORD)

AmoWord64(op, data, rs2) ==
    LET b == Signed(rs2, WORD)
        u == Unsigned(data, WORD)
        v == Unsigned(b, WORD)
    IN CASE op = "AMOSWAP_W" -> b
         [] op = "AMOADD_W" -> Signed(data + b, WORD)
         [] op = "AMOXOR_W" -> BitXor(data, b, WORD)
         [] op = "AMOAND_W" -> BitAnd(data, b, WORD)
         [] op = "AMOOR_W" -> BitOr(data, b, WORD)
         [] op = "AMOMIN_W" -> Smaller(data, b)
         [] op = "AMOMINU_W" -> Signed(Smaller(u, v), WORD)
         [] op = "AMOMAX_W" -> Greater(data, b)
         [] op = "AMOMAXU_W" -> Signed(Greater(u, v), WORD)

AmoDouble(op, data, b) ==
    LET u == Unsigned(data, DOUBLE)
        v == Unsigned(b, DOUBLE)
    IN CASE op = "AMOSWAP_D" -> b
         [] op = "AMOADD_D" -> Signed(data + b, DOUBLE)
         [] op = "AMOXOR_D" -> BitXor(data, b, DOUBLE)
         [] op = "AMOAND_D" -> BitAnd(data, b, DOUBLE)
         [] op = "AMOOR_D" -> BitOr(data, b, DOUBLE)
         [] op = "AMOMIN_D" -> Smaller(data, b)
         [] op = "AMOMINU_D" -> Signed(Smaller(u, v), DOUBLE)
         [] op = "AMOMAX_D" -> Greater(data, b)
         [] op = "AMOMAXU_D" -> Signed(Greater(u, v), DOUBLE)

Size64 == Joined(Size32, [LWU |-> 4, LD |-> 8, SD |-> 8])
Loads64 == Loads32 \cup {"LWU", "LD"}
Stores64 == Stores32 \cup {"SD"}
Load64(op, mem) ==
    IF op \in {"LBU", "LHU", "LWU"} THEN Unsigned(mem, Size64[op] * BYTE)
                                    ELSE Signed(mem, Size64[op] * BYTE)

(***************************************************************************)
(* The effect of an instruction, as in RV32Exec.                           *)
(***************************************************************************)
JumpTo64(x, target, link) ==
    IF target % 4 # 0 /\ "C" \notin misa64 THEN Raises32(x, "fetch_misaligned")
    ELSE [Retires32(x) EXCEPT !.pc = target, !.rd = link]

ExecJump64(x) ==
    CASE x.op = "JAL" -> JumpTo64(x, Unsigned(x.pc + x.imm, XLEN64), Signed(x.next, XLEN64))
      [] x.op = "JALR" -> LET t == Unsigned(x.a + x.imm, XLEN64)
                          IN JumpTo64(x, t - (t % 2), Signed(x.next, XLEN64))
      [] x.op \in BranchOps32 ->
            IF Taken64(x.op, x.a, x.b)
            THEN JumpTo64(x, Unsigned(x.pc + x.imm, XLEN64), Nothing)
            ELSE Retires32(x)

ExecMem64(x) ==
    LET addr == Unsigned(x.a + x.imm, XLEN64)
        aligned == addr % Size64[x.op] = 0
    IN CASE x.op \in Loads64 -> IF aligned THEN Result32(x, Load64(x.op, x.mem))
                                           ELSE Raises32(x, "load_misaligned")
         [] x.op \in Stores64 ->
                IF aligned
                THEN [Retires32(x) EXCEPT !.store = Unsigned(x.b, Size64[x.op] * BYTE)]
                ELSE Raises32(x, "store_misaligned")

ExecAmo64(x) ==
    LET double == x.op \in AmoDoubleOps
        width == IF double THEN DOUBLE ELSE WORD
        data == Signed(x.mem, width)
        val == IF double THEN AmoDouble(x.op, data, x.b) ELSE AmoWord64(x.op, data, x.b)
    IN IF Unsigned(x.a, XLEN64) % (width \div BYTE) # 0 THEN Raises32(x, "store_misaligned")
       ELSE [Result32(x, data) EXCEPT !.store = Unsigned(val, width)]

(* The labels of the switch; its default throws. *)
Integer64 == Integer32 \cup {"LWU", "LD", "SD"} \cup WordOps \cup MulDivWordOps \cup AmoDoubleOps
Handled64 == {"UNDEF"} \cup Integer64 \cup LrScOps32 \cup {"LR_D", "SC_D"} \cup CsrOps
                \cup SystemOps \cup FpSingle \cup FpDouble \cup Fp64

Exec64(x) ==
    CASE x.op = "UNDEF" -> Raises32(x, "illegal")
      [] x.op \in ImmOps64 -> Result32(x, Alu64(x.op, x.a, x.imm))
      [] x.op \in RegOps64 -> Result32(x, Alu64(x.op, x.a, x.b))
      [] x.op \in ShiftOps32 -> Result32(x, Shift64(x.op, x.a, x.imm))
      [] x.op = "LUI" -> Result32(x, Signed(x.imm, XLEN64))
      [] x.op = "AUIPC" -> Result32(x, Signed(x.pc + x.imm, XLEN64))
      [] x.op \in JumpOps32 \cup BranchOps32 -> ExecJump64(x)
      [] x.op \in Loads64 \cup Stores64 -> ExecMem64(x)
      [] x.op = "ADDIW" -> Result32(x, AluWord(x.op, x.a, x.imm, 0))
      [] x.op \in {"SLLIW", "SRLIW", "SRAIW"} -> Result32(x, AluWord(x.op, x.a, 0, x.imm))
      [] x.op \in {"ADDW", "SUBW", "SLLW", "SRLW", "SRAW"} ->
            Result32(x, AluWord(x.op, x.a, x.b, Shamt_w(x.b)))
      [] x.op \in MulDivOps32 ->
            Result32(x, IF x.op \in {"MUL", "MULH", "MULHU", "MULHSU"}
                        THEN Mul64(x.op, x.a, x.b) ELSE Div64(x.op, x.a, x.b))
      [] x.op \in MulDivWordOps -> Result32(x, MulDivWord(x.op, x.a, x.b))
      [] x.op \in AmoOps32 \cup AmoDoubleOps -> ExecAmo64(x)
      [] x.op \in FenceOps -> Retires32(x)
=============================================================================

------------------------------- MODULE Instr --------------------------------
(* The instruction decoder of core/common/instr.{h,cpp}.                     *)
(*                                                                           *)
(* A 32 bit word is a record of its six fields, from which the other fields  *)
(* and the immediates are computed as the accessors of struct Instruction    *)
(* do; a compressed instruction is the number of its low 16 bits.            *)
EXTENDS Opcodes

(* BIT_SLICE; also of a negative number in two's complement. *)
Slice(n, upper, lower) == (n \div 2^lower) % 2^(upper - lower + 1)
Bit(n, pos) == Slice(n, pos, pos)

(* EXTRACT_SIGN_BIT: all bits from new_pos on are copies of the sign bit. *)
SignBit(n, pos, new_pos) == -(Bit(n, pos) * 2^new_pos)

Sext(n, width) == IF Bit(n, width - 1) = 1 THEN n - 2^width ELSE n

(***************************************************************************)
(* struct Instruction: fields and immediates of a word.                    *)
(***************************************************************************)
funct2(w) == w.funct7 % 4
funct5(w) == w.funct7 \div 4
funct6(w) == w.funct7 \div 2
funct12(w) == w.funct7 * 32 + w.rs2
csr(w) == funct12(w)
shamt(w) == (w.funct7 % 2) * 32 + w.rs2

Field(w, f) ==
    CASE f = "funct2" -> funct2(w)
      [] f = "funct5" -> funct5(w)
      [] f = "funct6" -> funct6(w)
      [] OTHER -> w[f]

I_imm(w) == Sext(w.funct7 * 32 + w.rs2, 12)
S_imm(w) == Sext(w.funct7 * 32 + w.rd, 12)
B_imm(w) ==
    Sext(Bit(w.funct7, 6) * 2^12 + Bit(w.rd, 0) * 2^11 + Slice(w.funct7, 5, 0) * 2^5
            + Slice(w.rd, 4, 1) * 2, 13)
U_imm(w) == Sext(w.funct7 * 2^13 + w.rs2 * 2^8 + w.rs1 * 2^3 + w.funct3, 20) * 2^12
J_imm(w) ==
    Sext(Bit(w.funct7, 6) * 2^20 + w.rs1 * 2^15 + w.funct3 * 2^12 + Bit(w.rs2, 0) * 2^11
            + Slice(w.funct7, 5, 0) * 2^5 + Slice(w.rs2, 4, 1) * 2, 21)

(***************************************************************************)
(* decode_normal: nested switches choose a candidate, whose mask is then   *)
(* matched against the whole word (MATCH_AND_RETURN_INSTR).                *)
(***************************************************************************)
Matches(w, row) == \A f \in DOMAIN row : Field(w, f) = row[f]

(* A switch over one field: the instruction whose case it is, if any.      *)
Switch(table, value) ==
    IF \E n \in DOMAIN table : table[n] = value
    THEN CHOOSE n \in DOMAIN table : table[n] = value
    ELSE "UNDEF"

RouteBase(w) ==
    CASE w.opcode = OP.LUI -> "LUI"
      [] w.opcode = OP.AUIPC -> "AUIPC"
      [] w.opcode = OP.JAL -> "JAL"
      [] w.opcode = OP.JALR -> "JALR"
      [] w.opcode = OP.BEQ -> Switch(F3_BRANCH, w.funct3)
      [] w.opcode = OP.LB -> Switch(F3_LOAD, w.funct3)
      [] w.opcode = OP.SB -> Switch(F3_STORE, w.funct3)
      [] w.opcode = OP.ADDI -> IF w.funct3 = F3_SRLI THEN Switch(F6_SHIFT, funct6(w))
                                                     ELSE Switch(F3_IMM, w.funct3)
      [] w.opcode = OP.ADDIW -> IF w.funct3 = F3_SRLIW THEN Switch(F7_SHIFTW, w.funct7)
                                                       ELSE Switch(F3_IMMW, w.funct3)
      [] OTHER -> "UNDEF"

RouteReg(w) ==
    LET add == w.opcode = OP.ADD
    IN CASE w.funct7 = F7_ADD -> Switch(IF add THEN F3_ADD ELSE F3_ADDW, w.funct3)
         [] w.funct7 = F7_SUB -> Switch(IF add THEN F3_SUB ELSE F3_SUBW, w.funct3)
         [] w.funct7 = F7_MUL -> Switch(IF add THEN F3_MUL ELSE F3_MULW, w.funct3)
         [] OTHER -> "UNDEF"

RouteSystem(w) ==
    IF w.funct3 # F3_SYS THEN Switch(F3_CSR, w.funct3)
    ELSE IF \E n \in DOMAIN F12 : F12[n] = funct12(w) THEN Switch(F12, funct12(w))
    ELSE "SFENCE_VMA"

(* Mutant: the width of an AMO is not looked at. *)
RouteAmoMutant(w) == Switch(F5_AMO_W, funct5(w))

RouteAmo(w) ==
    LET n == Switch(F5_AMO_W, funct5(w))
    IN IF n # "UNDEF" /\ w.funct3 = F3_AMO_D THEN AMO_D[n] ELSE n

RouteFp(w) ==
    CASE w.funct7 \in DOMAIN F3_FP -> Switch(F3_FP[w.funct7], w.funct3)
      [] w.funct7 \in DOMAIN RS2_FP -> Switch(RS2_FP[w.funct7], w.rs2)
      [] OTHER -> Switch(F7_FP, w.funct7)

RouteFpMem(w) ==
    CASE w.opcode = OP.FLW -> Switch(F3_FLW, w.funct3)
      [] w.opcode = OP.FSW -> Switch(F3_FSW, w.funct3)
      [] w.opcode = OP.FMSUB_S -> Switch(F2_FMSUB, funct2(w))
      [] w.opcode = OP.FNMSUB_S -> Switch(F2_FNMSUB, funct2(w))
      [] w.opcode = OP.FNMADD_S -> Switch(F2_FNMADD, funct2(w))
      [] OTHER -> "UNDEF"

Route(w) ==
    CASE w.opcode \in {OP.ADD, OP.ADDW} -> RouteReg(w)
      [] w.opcode = OP.FENCE -> Switch(F3_FENCE, w.funct3)
      [] w.opcode = OP.ECALL -> RouteSystem(w)
      [] w.opcode = OP.AMO -> RouteAmo(w)
      [] w.opcode = OP.FMADD_S -> Switch(F2_FMADD, funct2(w))
      [] w.opcode = OP.FADD_S -> RouteFp(w)
      [] w.opcode \in {OP.FLW, OP.FSW, OP.FMSUB_S, OP.FNMSUB_S, OP.FNMADD_S} -> RouteFpMem(w)
      [] OTHER -> RouteBase(w)

decode_normal(w, arch) ==
    LET n == Route(w)
    IN IF n # "UNDEF" /\ Matches(w, Encoding[arch][n]) THEN n ELSE "UNDEF"

(***************************************************************************)
(* Compressed instructions: fields of the low 16 bits.                     *)
(***************************************************************************)
quadrant(n) == n % 4
is_compressed(n) == quadrant(n) < 3
c_opcode(n) == Slice(n, 15, 13)
c_b12(n) == Bit(n, 12)
c_rd(n) == Slice(n, 11, 7)
c_rs2(n) == Slice(n, 6, 2)
c_rd_small(n) == Slice(n, 9, 7) + 8
c_rs2_small(n) == Slice(n, 4, 2) + 8
c_imm(n) == Slice(n, 6, 2) + SignBit(n, 12, 5)
c_uimm(n) == Slice(n, 6, 2) + Bit(n, 12) * 2^5
c_f2_high(n) == Slice(n, 11, 10)
c_f2_low(n) == Slice(n, 6, 5)

C_ADDI4SPN_NZUIMM(n) ==
    Slice(n, 12, 11) * 2^4 + Slice(n, 10, 7) * 2^6 + Bit(n, 6) * 2^2 + Bit(n, 5) * 2^3
C_LW_UIMM(n) == Slice(n, 12, 10) * 2^3 + Bit(n, 6) * 2^2 + Bit(n, 5) * 2^6
C_LD_UIMM(n) == Slice(n, 12, 10) * 2^3 + Slice(n, 6, 5) * 2^6
C_JAL_IMM(n) ==
    SignBit(n, 12, 11) + Bit(n, 11) * 2^4 + Slice(n, 10, 9) * 2^8 + Bit(n, 8) * 2^10
        + Bit(n, 7) * 2^6 + Bit(n, 6) * 2^7 + Slice(n, 5, 3) * 2 + Bit(n, 2) * 2^5
C_ADDI16SP_NZIMM(n) ==
    SignBit(n, 12, 9) + Bit(n, 6) * 2^4 + Bit(n, 5) * 2^6 + Slice(n, 4, 3) * 2^7 + Bit(n, 2) * 2^5
C_LUI_NZIMM(n) == SignBit(n, 12, 17) + Slice(n, 6, 2) * 2^12
C_BRANCH_IMM(n) ==
    SignBit(n, 12, 8) + Slice(n, 11, 10) * 2^3 + Slice(n, 6, 5) * 2^6 + Slice(n, 4, 3) * 2
        + Bit(n, 2) * 2^5
C_LWSP_UIMM(n) == Bit(n, 12) * 2^5 + Slice(n, 6, 4) * 2^2 + Slice(n, 3, 2) * 2^6
C_SWSP_UIMM(n) == Slice(n, 12, 9) * 2^2 + Slice(n, 8, 7) * 2^6
C_LDSP_UIMM(n) == Bit(n, 12) * 2^5 + Slice(n, 6, 5) * 2^3 + Slice(n, 4, 2) * 2^6
C_SDSP_UIMM(n) == Slice(n, 12, 10) * 2^3 + Slice(n, 9, 7) * 2^6

(***************************************************************************)
(* decode_compressed, one operator per quadrant.                           *)
(***************************************************************************)
C_Quadrant0(n, arch) ==
    CASE c_opcode(n) = 0 -> IF n = 0 THEN "C_Illegal" ELSE "C_ADDI4SPN"
      [] c_opcode(n) = 1 -> "C_FLD"
      [] c_opcode(n) = 2 -> "C_LW"
      [] c_opcode(n) = 3 -> IF arch = "RV32" THEN "C_FLW" ELSE "C_LD"
      [] c_opcode(n) = 4 -> "C_Reserved"
      [] c_opcode(n) = 5 -> "C_FSD"
      [] c_opcode(n) = 6 -> "C_SW"
      [] c_opcode(n) = 7 -> IF arch = "RV32" THEN "C_FSW" ELSE "C_SD"

C_Arith(n) ==
    CASE c_f2_high(n) = 0 -> "C_SRLI"
      [] c_f2_high(n) = 1 -> "C_SRAI"
      [] c_f2_high(n) = 2 -> "C_ANDI"
      [] c_f2_high(n) = 3 /\ c_b12(n) = 1 -> <<"C_SUBW", "C_ADDW", "C_Reserved", "C_Reserved">>[c_f2_low(n) + 1]
      [] c_f2_high(n) = 3 /\ c_b12(n) = 0 -> <<"C_SUB", "C_XOR", "C_OR", "C_AND">>[c_f2_low(n) + 1]

C_Quadrant1(n, arch) ==
    CASE c_opcode(n) = 0 -> IF n = 1 THEN "C_NOP" ELSE "C_ADDI"
      [] c_opcode(n) = 1 -> IF arch = "RV32" THEN "C_JAL" ELSE "C_ADDIW"
      [] c_opcode(n) = 2 -> "C_LI"
      [] c_opcode(n) = 3 -> IF c_rd(n) = 2 THEN "C_ADDI16SP" ELSE "C_LUI"
      [] c_opcode(n) = 4 -> C_Arith(n)
      [] c_opcode(n) = 5 -> "C_J"
      [] c_opcode(n) = 6 -> "C_BEQZ"
      [] c_opcode(n) = 7 -> "C_BNEZ"

C_Jumps(n) ==
    CASE c_b12(n) = 1 /\ c_rd(n) = 0 -> "C_EBREAK"
      [] c_b12(n) = 1 /\ c_rd(n) # 0 -> IF c_rs2(n) # 0 THEN "C_ADD" ELSE "C_JALR"
      [] c_b12(n) = 0 -> IF c_rs2(n) # 0 THEN "C_MV" ELSE "C_JR"

C_Quadrant2(n, arch) ==
    CASE c_opcode(n) = 0 -> "C_SLLI"
      [] c_opcode(n) = 1 -> "C_FLDSP"
      [] c_opcode(n) = 2 -> "C_LWSP"
      [] c_opcode(n) = 3 -> IF arch = "RV32" THEN "C_FLWSP" ELSE "C_LDSP"
      [] c_opcode(n) = 4 -> C_Jumps(n)
      [] c_opcode(n) = 5 -> "C_FSDSP"
      [] c_opcode(n) = 6 -> "C_SWSP"
      [] c_opcode(n) = 7 -> IF arch = "RV32" THEN "C_FSWSP" ELSE "C_SDSP"

decode_compressed(n, arch) ==
    CASE quadrant(n) = 0 -> C_Quadrant0(n, arch)
      [] quadrant(n) = 1 -> C_Quadrant1(n, arch)
      [] quadrant(n) = 2 -> C_Quadrant2(n, arch)

(***************************************************************************)
(* InstructionFactory: a word of each format. The immediates are masked to *)
(* the bits the format has.                                                *)
(***************************************************************************)
RWord(opcode, f3, f7, rd, rs1, rs2) ==
    [opcode |-> opcode, rd |-> rd, funct3 |-> f3, rs1 |-> rs1, rs2 |-> rs2, funct7 |-> f7]
IWord(opcode, f3, rd, rs1, imm) ==
    RWord(opcode, f3, Slice(imm, 11, 5), rd, rs1, Slice(imm, 4, 0))
SWord(opcode, f3, rs1, rs2, imm) ==
    RWord(opcode, f3, Slice(imm, 11, 5), Slice(imm, 4, 0), rs1, rs2)
(* Mutant: bit 11 of a branch offset stays where the other formats have it. *)
BWordMutant(f3, rs1, rs2, imm) ==
    RWord(99, f3, Slice(imm, 11, 5), Slice(imm, 4, 1) * 2, rs1, rs2)

BWord(f3, rs1, rs2, imm) ==
    RWord(99, f3, Bit(imm, 12) * 2^6 + Slice(imm, 10, 5), Slice(imm, 4, 1) * 2 + Bit(imm, 11),
          rs1, rs2)
UWord(rd, imm) ==
    RWord(55, Slice(imm, 14, 12), Slice(imm, 31, 25), rd, Slice(imm, 19, 15), Slice(imm, 24, 20))
JWord(rd, imm) ==
    RWord(111, Slice(imm, 14, 12), Bit(imm, 20) * 2^6 + Slice(imm, 10, 5), rd,
          Slice(imm, 19, 15), Slice(imm, 4, 1) * 2 + Bit(imm, 11))
ShiftWord(f3, f7, rd, rs1, amount) ==
    RWord(19, f3, f7 + Bit(amount, 5), rd, rs1, Slice(amount, 4, 0))

(***************************************************************************)
(* expand_compressed: the instruction a compressed one stands for, the     *)
(* word the executor then reads its operands from, and the immediate the   *)
(* word was built with. Undefined leaves the fetched word in place.        *)
(***************************************************************************)
Expanded(op, word, imm) == [op |-> op, word |-> word, imm |-> imm]
Undefined == Expanded("UNDEF", RWord(0, 0, 0, 0, 0, 0), 0)
Unless(reserved, e) == IF reserved THEN Undefined ELSE e

ExpandReg(c, n) ==
    LET rd == c_rd_small(n)
        rs2 == c_rs2_small(n)
    IN CASE c = "C_NOP" -> Expanded("ADD", RWord(51, 0, 0, 0, 0, 0), 0)
         [] c = "C_ADD" -> Expanded("ADD", RWord(51, 0, 0, c_rd(n), c_rd(n), c_rs2(n)), 0)
         [] c = "C_MV" -> Expanded("ADD", RWord(51, 0, 0, c_rd(n), 0, c_rs2(n)), 0)
         [] c = "C_AND" -> Expanded("AND", RWord(51, 7, 0, rd, rd, rs2), 0)
         [] c = "C_OR" -> Expanded("OR", RWord(51, 6, 0, rd, rd, rs2), 0)
         [] c = "C_XOR" -> Expanded("XOR", RWord(51, 4, 0, rd, rd, rs2), 0)
         [] c = "C_SUB" -> Expanded("SUB", RWord(51, 0, 32, rd, rd, rs2), 0)
         [] c = "C_ADDW" -> Expanded("ADDW", RWord(59, 0, 0, rd, rd, rs2), 0)
         [] c = "C_SUBW" -> Expanded("SUBW", RWord(59, 0, 32, rd, rd, rs2), 0)

ExpandMem(c, n) ==
    LET rd == c_rd_small(n)
        rs2 == c_rs2_small(n)
        Load(op, opcode, f3, imm) == Expanded(op, IWord(opcode, f3, rs2, rd, imm), imm)
        Store(op, opcode, f3, imm) == Expanded(op, SWord(opcode, f3, rd, rs2, imm), imm)
    IN CASE c = "C_LW" -> Load("LW", 3, 2, C_LW_UIMM(n))
         [] c = "C_LD" -> Load("LD", 3, 3, C_LD_UIMM(n))
         [] c = "C_FLW" -> Load("FLW", 7, 2, C_LW_UIMM(n))
         [] c = "C_FLD" -> Load("FLD", 7, 3, C_LD_UIMM(n))
         [] c = "C_SW" -> Store("SW", 35, 2, C_LW_UIMM(n))
         [] c = "C_SD" -> Store("SD", 35, 3, C_LD_UIMM(n))
         [] c = "C_FSW" -> Store("FSW", 39, 2, C_LW_UIMM(n))
         [] c = "C_FSD" -> Store("FSD", 39, 3, C_LD_UIMM(n))

ExpandImm(c, n, arch) ==
    LET rd == c_rd(n)
        Addi(op, d, s, imm) == Expanded(op, IWord(19, 0, d, s, imm), imm)
        Shift(op, f3, f7, d) ==
            Unless(arch = "RV32" /\ c_uimm(n) > 31,
                   Expanded(op, ShiftWord(f3, f7, d, d, c_uimm(n)), c_uimm(n)))
    IN CASE c = "C_ADDI4SPN" -> Unless(C_ADDI4SPN_NZUIMM(n) = 0,
                                       Addi("ADDI", c_rs2_small(n), 2, C_ADDI4SPN_NZUIMM(n)))
         [] c = "C_ADDI" -> Addi("ADDI", rd, rd, c_imm(n))
         [] c = "C_ADDIW" -> Unless(rd = 0, Addi("ADDIW", rd, rd, c_imm(n)))
         [] c = "C_LI" -> Addi("ADDI", rd, 0, c_imm(n))
         [] c = "C_ADDI16SP" -> Unless(C_ADDI16SP_NZIMM(n) = 0,
                                       Addi("ADDI", 2, 2, C_ADDI16SP_NZIMM(n)))
         [] c = "C_LUI" -> Unless(C_LUI_NZIMM(n) = 0,
                                  Expanded("LUI", UWord(rd, C_LUI_NZIMM(n)), C_LUI_NZIMM(n)))
         [] c = "C_SLLI" -> Shift("SLLI", 1, 0, rd)
         [] c = "C_SRLI" -> Shift("SRLI", 5, 0, c_rd_small(n))
         [] c = "C_SRAI" -> Shift("SRAI", 5, 32, c_rd_small(n))
         [] c = "C_ANDI" -> Expanded("ANDI", IWord(19, 7, c_rd_small(n), c_rd_small(n), c_imm(n)),
                                     c_imm(n))

ExpandJump(c, n) ==
    LET Branch(op, f3) ==
            Expanded(op, BWord(f3, c_rd_small(n), 0, C_BRANCH_IMM(n)), C_BRANCH_IMM(n))
    IN CASE c = "C_JAL" -> Expanded("JAL", JWord(1, C_JAL_IMM(n)), C_JAL_IMM(n))
         [] c = "C_J" -> Expanded("JAL", JWord(0, C_JAL_IMM(n)), C_JAL_IMM(n))
         [] c = "C_BEQZ" -> Branch("BEQ", 0)
         [] c = "C_BNEZ" -> Branch("BNE", 1)
         [] c = "C_EBREAK" -> Expanded("EBREAK", RWord(115, 0, 0, 0, 0, 1), 0)
         [] c = "C_JR" -> Unless(c_rd(n) = 0, Expanded("JALR", IWord(103, 0, 0, c_rd(n), 0), 0))
         [] c = "C_JALR" -> Expanded("JALR", IWord(103, 0, 1, c_rd(n), 0), 0)

ExpandStack(c, n) ==
    LET Load(op, opcode, f3, imm) == Expanded(op, IWord(opcode, f3, c_rd(n), 2, imm), imm)
        Store(op, opcode, f3, imm) == Expanded(op, SWord(opcode, f3, 2, c_rs2(n), imm), imm)
    IN CASE c = "C_LWSP" -> Unless(c_rd(n) = 0, Load("LW", 3, 2, C_LWSP_UIMM(n)))
         [] c = "C_LDSP" -> Unless(c_rd(n) = 0, Load("LD", 3, 3, C_LDSP_UIMM(n)))
         [] c = "C_FLWSP" -> Load("FLW", 7, 2, C_LWSP_UIMM(n))
         [] c = "C_FLDSP" -> Load("FLD", 7, 3, C_LDSP_UIMM(n))
         [] c = "C_SWSP" -> Store("SW", 35, 2, C_SWSP_UIMM(n))
         [] c = "C_SDSP" -> Store("SD", 35, 3, C_SDSP_UIMM(n))
         [] c = "C_FSWSP" -> Store("FSW", 39, 2, C_SWSP_UIMM(n))
         [] c = "C_FSDSP" -> Store("FSD", 39, 3, C_SDSP_UIMM(n))

(* enum Compressed::Opcode by the part of expand_compressed that takes it. *)
C_Reg == {"C_NOP", "C_ADD", "C_MV", "C_AND", "C_OR", "C_XOR", "C_SUB", "C_ADDW", "C_SUBW"}
C_Mem == {"C_LW", "C_LD", "C_FLW", "C_FLD", "C_SW", "C_SD", "C_FSW", "C_FSD"}
C_Imm == {"C_ADDI4SPN", "C_ADDI", "C_ADDIW", "C_LI", "C_ADDI16SP", "C_LUI", "C_SLLI", "C_SRLI",
          "C_SRAI", "C_ANDI"}
C_Jump == {"C_JAL", "C_J", "C_BEQZ", "C_BNEZ", "C_EBREAK", "C_JR", "C_JALR"}
C_Stack == {"C_LWSP", "C_LDSP", "C_FLWSP", "C_FLDSP", "C_SWSP", "C_SDSP", "C_FSWSP", "C_FSDSP"}

(* Illegal, reserved and RV128 instructions are undefined.                 *)
expand_compressed(c, n, arch) ==
    CASE c \in C_Reg -> ExpandReg(c, n)
      [] c \in C_Mem -> ExpandMem(c, n)
      [] c \in C_Imm -> ExpandImm(c, n, arch)
      [] c \in C_Jump -> ExpandJump(c, n)
      [] c \in C_Stack -> ExpandStack(c, n)
      [] OTHER -> Undefined

decode_and_expand_compressed(n, arch) == expand_compressed(decode_compressed(n, arch), n, arch)
=============================================================================

------------------------------ MODULE Opcodes -------------------------------
(* The tables of core/common/instr.{h,cpp}: the instructions the decoders    *)
(* may return, the name the trace prints for each, the format of each, and   *)
(* the fields of a word that its mask selects with the value they must have. *)
EXTENDS Integers, Sequences, Tables

(***************************************************************************)
(* enum Mapping, extension by extension, in the order of the enumeration.  *)
(***************************************************************************)
Mapping_RV32I ==
    <<"LUI", "AUIPC", "JAL", "JALR", "BEQ", "BNE", "BLT", "BGE", "BLTU", "BGEU", "LB", "LH",
      "LW", "LBU", "LHU", "SB", "SH", "SW", "ADDI", "SLTI", "SLTIU", "XORI", "ORI", "ANDI",
      "SLLI", "SRLI", "SRAI", "ADD", "SUB", "SLL", "SLT", "SLTU", "XOR", "SRL", "SRA", "OR",
      "AND", "FENCE", "ECALL", "EBREAK", "FENCE_I", "CSRRW", "CSRRS", "CSRRC", "CSRRWI",
      "CSRRSI", "CSRRCI">>

Mapping_RV32MA ==
    <<"MUL", "MULH", "MULHSU", "MULHU", "DIV", "DIVU", "REM", "REMU", "LR_W", "SC_W",
      "AMOSWAP_W", "AMOADD_W", "AMOXOR_W", "AMOAND_W", "AMOOR_W", "AMOMIN_W", "AMOMAX_W",
      "AMOMINU_W", "AMOMAXU_W">>

Mapping_RV64IMA ==
    <<"LWU", "LD", "SD", "ADDIW", "SLLIW", "SRLIW", "SRAIW", "ADDW", "SUBW", "SLLW", "SRLW",
      "SRAW", "MULW", "DIVW", "DIVUW", "REMW", "REMUW", "LR_D", "SC_D", "AMOSWAP_D", "AMOADD_D",
      "AMOXOR_D", "AMOAND_D", "AMOOR_D", "AMOMIN_D", "AMOMAX_D", "AMOMINU_D", "AMOMAXU_D">>

Mapping_F ==
    <<"FLW", "FSW", "FMADD_S", "FMSUB_S", "FNMADD_S", "FNMSUB_S", "FADD_S", "FSUB_S", "FMUL_S",
      "FDIV_S", "FSQRT_S", "FSGNJ_S", "FSGNJN_S", "FSGNJX_S", "FMIN_S", "FMAX_S", "FCVT_W_S",
      "FCVT_WU_S", "FMV_X_W", "FEQ_S", "FLT_S", "FLE_S", "FCLASS_S", "FCVT_S_W", "FCVT_S_WU",
      "FMV_W_X", "FCVT_L_S", "FCVT_LU_S", "FCVT_S_L", "FCVT_S_LU">>

Mapping_D ==
    <<"FLD", "FSD", "FMADD_D", "FMSUB_D", "FNMSUB_D", "FNMADD_D", "FADD_D", "FSUB_D", "FMUL_D",
      "FDIV_D", "FSQRT_D", "FSGNJ_D", "FSGNJN_D", "FSGNJX_D", "FMIN_D", "FMAX_D", "FCVT_S_D",
      "FCVT_D_S", "FEQ_D", "FLT_D", "FLE_D", "FCLASS_D", "FCVT_W_D", "FCVT_WU_D", "FCVT_D_W",
      "FCVT_D_WU", "FCVT_L_D", "FCVT_LU_D", "FMV_X_D", "FCVT_D_L", "FCVT_D_LU", "FMV_D_X">>

Mapping_Priv ==
    <<"URET", "SRET", "MRET", "WFI", "SFENCE_VMA">>

(* The index of an instruction is its position minus one: UNDEF is 0. *)
Mapping ==
    <<"UNDEF">> \o Mapping_RV32I \o Mapping_RV32MA \o Mapping_RV64IMA
        \o Mapping_F \o Mapping_D \o Mapping_Priv

Ops == {Mapping[i] : i \in 2 .. Len(Mapping)}

(***************************************************************************)
(* mappingStr: the names the instruction trace prints, a second list kept  *)
(* by hand and indexed with the enumeration.                               *)
(***************************************************************************)
mappingStr_RV32 ==
    <<"ZERO-INVALID", "LUI", "AUIPC", "JAL", "JALR", "BEQ", "BNE", "BLT", "BGE", "BLTU", "BGEU",
      "LB", "LH", "LW", "LBU", "LHU", "SB", "SH", "SW", "ADDI", "SLTI", "SLTIU", "XORI", "ORI",
      "ANDI", "SLLI", "SRLI", "SRAI", "ADD", "SUB", "SLL", "SLT", "SLTU", "XOR", "SRL", "SRA",
      "OR", "AND", "FENCE", "ECALL", "EBREAK", "FENCE_I", "CSRRW", "CSRRS", "CSRRC", "CSRRWI",
      "CSRRSI", "CSRRCI", "MUL", "MULH", "MULHSU", "MULHU", "DIV", "DIVU", "REM", "REMU",
      "LR_W", "SC_W", "AMOSWAP_W", "AMOADD_W", "AMOXOR_W", "AMOAND_W", "AMOOR_W", "AMOMIN_W",
      "AMOMAX_W", "AMOMINU_W", "AMOMAXU_W">>

mappingStr_RV64FD ==
    <<"LWU", "LD", "SD", "ADDIW", "SLLIW", "SRLIW", "SRAIW", "ADDW", "SUBW", "SLLW", "SRLW",
      "SRAW", "MULW", "DIVW", "DIVUW", "REMW", "REMUW", "LR_D", "SC_D", "AMOSWAP_D", "AMOADD_D",
      "AMOXOR_D", "AMOAND_D", "AMOOR_D", "AMOMIN_D", "AMOMAX_D", "AMOMINU_D", "AMOMAXU_D",
      "FLW", "FSW", "FMADD_S", "FMSUB_S", "FNMADD_S", "FNMSUB_S", "FADD_S", "FSUB_S", "FMUL_S",
      "FDIV_S", "FSQRT_S", "FSGNJ_S", "FSGNJN_S", "FSGNJX_S", "FMIN_S", "FMAX_S", "FCVT_W_S",
      "FCVT_WU_S", "FMV_X_W", "FEQ_S", "FLT_S", "FLE_S", "FCLASS_S", "FCVT_S_W", "FCVT_S_WU",
      "FMV_W_X", "FCVT_L_S", "FCVT_LU_S", "FCVT_S_L", "FCVT_S_LU", "FLD", "FSD", "FMADD_D",
      "FMSUB_D", "FNMSUB_D", "FNMADD_D", "FADD_D", "FSUB_D", "FMUL_D", "FDIV_D", "FSQRT_D",
      "FSGNJ_D", "FSGNJN_D", "FSGNJX_D", "FMIN_D", "FMAX_D", "FCVT_S_D", "FCVT_D_S", "FEQ_D",
      "FLT_D", "FLE_D", "FCLASS_D", "FCVT_W_D", "FCVT_WU_D", "FCVT_D_W", "FCVT_D_WU",
      "FCVT_L_D", "FCVT_LU_D", "FMV_X_D", "FCVT_D_L", "FCVT_D_LU", "FMV_D_X", "URET", "SRET",
      "MRET", "WFI", "SFENCE_VMA">>

mappingStr == mappingStr_RV32 \o mappingStr_RV64FD

(***************************************************************************)
(* A row of the encoding table: the fields under the mask and their values.*)
(***************************************************************************)
Op(o) == [opcode |-> o]
OpF3(o, f3) == [opcode |-> o, funct3 |-> f3]
OpF2(o, f2) == [opcode |-> o, funct2 |-> f2]
OpF7(o, f7) == [opcode |-> o, funct7 |-> f7]
OpF3F5(o, f3, f5) == [opcode |-> o, funct3 |-> f3, funct5 |-> f5]
OpF3F6(o, f3, f6) == [opcode |-> o, funct3 |-> f3, funct6 |-> f6]
OpF3F7(o, f3, f7) == [opcode |-> o, funct3 |-> f3, funct7 |-> f7]
OpRs2F7(o, rs2, f7) == [opcode |-> o, rs2 |-> rs2, funct7 |-> f7]
OpF3Rs2F5(o, f3, rs2, f5) == [opcode |-> o, funct3 |-> f3, rs2 |-> rs2, funct5 |-> f5]
OpF3Rs2F7(o, f3, rs2, f7) == [opcode |-> o, funct3 |-> f3, rs2 |-> rs2, funct7 |-> f7]
System(rs2, f7) ==
    [opcode |-> 115, rd |-> 0, funct3 |-> 0, rs1 |-> 0, rs2 |-> rs2, funct7 |-> f7]
SFence(f7) == [opcode |-> 115, rd |-> 0, funct3 |-> 0, funct7 |-> f7]

ENC_RV32I ==
    [LUI |-> Op(55), AUIPC |-> Op(23), JAL |-> Op(111), JALR |-> OpF3(103, 0),
     BEQ |-> OpF3(99, 0), BNE |-> OpF3(99, 1), BLT |-> OpF3(99, 4), BGE |-> OpF3(99, 5),
     BLTU |-> OpF3(99, 6), BGEU |-> OpF3(99, 7), LB |-> OpF3(3, 0), LH |-> OpF3(3, 1),
     LW |-> OpF3(3, 2), LBU |-> OpF3(3, 4), LHU |-> OpF3(3, 5), SB |-> OpF3(35, 0),
     SH |-> OpF3(35, 1), SW |-> OpF3(35, 2), ADDI |-> OpF3(19, 0), SLTI |-> OpF3(19, 2),
     SLTIU |-> OpF3(19, 3), XORI |-> OpF3(19, 4), ORI |-> OpF3(19, 6), ANDI |-> OpF3(19, 7),
     ADD |-> OpF3F7(51, 0, 0), SUB |-> OpF3F7(51, 0, 32), SLL |-> OpF3F7(51, 1, 0),
     SLT |-> OpF3F7(51, 2, 0), SLTU |-> OpF3F7(51, 3, 0), XOR |-> OpF3F7(51, 4, 0),
     SRL |-> OpF3F7(51, 5, 0), SRA |-> OpF3F7(51, 5, 32), OR |-> OpF3F7(51, 6, 0),
     AND |-> OpF3F7(51, 7, 0), FENCE |-> OpF3(15, 0), FENCE_I |-> OpF3(15, 1),
     ECALL |-> System(0, 0), EBREAK |-> System(1, 0), CSRRW |-> OpF3(115, 1),
     CSRRS |-> OpF3(115, 2), CSRRC |-> OpF3(115, 3), CSRRWI |-> OpF3(115, 5),
     CSRRSI |-> OpF3(115, 6), CSRRCI |-> OpF3(115, 7)]

ENC_Shift_RV64 ==
    [SLLI |-> OpF3F6(19, 1, 0), SRLI |-> OpF3F6(19, 5, 0), SRAI |-> OpF3F6(19, 5, 16)]

ENC_Shift_RV32 ==
    [SLLI |-> OpF3F7(19, 1, 0), SRLI |-> OpF3F7(19, 5, 0), SRAI |-> OpF3F7(19, 5, 32)]

ENC_RV32MA ==
    [MUL |-> OpF3F7(51, 0, 1), MULH |-> OpF3F7(51, 1, 1), MULHSU |-> OpF3F7(51, 2, 1),
     MULHU |-> OpF3F7(51, 3, 1), DIV |-> OpF3F7(51, 4, 1), DIVU |-> OpF3F7(51, 5, 1),
     REM |-> OpF3F7(51, 6, 1), REMU |-> OpF3F7(51, 7, 1), LR_W |-> OpF3Rs2F5(47, 2, 0, 2),
     SC_W |-> OpF3F5(47, 2, 3), AMOSWAP_W |-> OpF3F5(47, 2, 1), AMOADD_W |-> OpF3F5(47, 2, 0),
     AMOXOR_W |-> OpF3F5(47, 2, 4), AMOAND_W |-> OpF3F5(47, 2, 12),
     AMOOR_W |-> OpF3F5(47, 2, 8), AMOMIN_W |-> OpF3F5(47, 2, 16),
     AMOMAX_W |-> OpF3F5(47, 2, 20), AMOMINU_W |-> OpF3F5(47, 2, 24),
     AMOMAXU_W |-> OpF3F5(47, 2, 28)]

ENC_Priv ==
    [URET |-> System(2, 0), SRET |-> System(2, 8), MRET |-> System(2, 24), WFI |-> System(5, 8),
     SFENCE_VMA |-> SFence(9)]

ENC_RV64IMA ==
    [LWU |-> OpF3(3, 6), LD |-> OpF3(3, 3), SD |-> OpF3(35, 3), ADDIW |-> OpF3(27, 0),
     SLLIW |-> OpF3F7(27, 1, 0), SRLIW |-> OpF3F7(27, 5, 0), SRAIW |-> OpF3F7(27, 5, 32),
     ADDW |-> OpF3F7(59, 0, 0), SUBW |-> OpF3F7(59, 0, 32), SLLW |-> OpF3F7(59, 1, 0),
     SRLW |-> OpF3F7(59, 5, 0), SRAW |-> OpF3F7(59, 5, 32), MULW |-> OpF3F7(59, 0, 1),
     DIVW |-> OpF3F7(59, 4, 1), DIVUW |-> OpF3F7(59, 5, 1), REMW |-> OpF3F7(59, 6, 1),
     REMUW |-> OpF3F7(59, 7, 1), LR_D |-> OpF3Rs2F5(47, 3, 0, 2), SC_D |-> OpF3F5(47, 3, 3),
     AMOSWAP_D |-> OpF3F5(47, 3, 1), AMOADD_D |-> OpF3F5(47, 3, 0),
     AMOXOR_D |-> OpF3F5(47, 3, 4), AMOAND_D |-> OpF3F5(47, 3, 12),
     AMOOR_D |-> OpF3F5(47, 3, 8), AMOMIN_D |-> OpF3F5(47, 3, 16),
     AMOMAX_D |-> OpF3F5(47, 3, 20), AMOMINU_D |-> OpF3F5(47, 3, 24),
     AMOMAXU_D |-> OpF3F5(47, 3, 28)]

ENC_F ==
    [FLW |-> OpF3(7, 2), FSW |-> OpF3(39, 2), FMADD_S |-> OpF2(67, 0), FMSUB_S |-> OpF2(71, 0),
     FNMADD_S |-> OpF2(79, 0), FNMSUB_S |-> OpF2(75, 0), FADD_S |-> OpF7(83, 0),
     FSUB_S |-> OpF7(83, 4), FMUL_S |-> OpF7(83, 8), FDIV_S |-> OpF7(83, 12),
     FSQRT_S |-> OpRs2F7(83, 0, 44), FSGNJ_S |-> OpF3F7(83, 0, 16),
     FSGNJN_S |-> OpF3F7(83, 1, 16), FSGNJX_S |-> OpF3F7(83, 2, 16),
     FMIN_S |-> OpF3F7(83, 0, 20), FMAX_S |-> OpF3F7(83, 1, 20),
     FCVT_W_S |-> OpRs2F7(83, 0, 96), FCVT_WU_S |-> OpRs2F7(83, 1, 96),
     FMV_X_W |-> OpF3Rs2F7(83, 0, 0, 112), FEQ_S |-> OpF3F7(83, 2, 80),
     FLT_S |-> OpF3F7(83, 1, 80), FLE_S |-> OpF3F7(83, 0, 80),
     FCLASS_S |-> OpF3Rs2F7(83, 1, 0, 112), FCVT_S_W |-> OpRs2F7(83, 0, 104),
     FCVT_S_WU |-> OpRs2F7(83, 1, 104), FMV_W_X |-> OpF3Rs2F7(83, 0, 0, 120),
     FCVT_L_S |-> OpRs2F7(83, 2, 96), FCVT_LU_S |-> OpRs2F7(83, 3, 96),
     FCVT_S_L |-> OpRs2F7(83, 2, 104), FCVT_S_LU |-> OpRs2F7(83, 3, 104)]

ENC_D ==
    [FLD |-> OpF3(7, 3), FSD |-> OpF3(39, 3), FMADD_D |-> OpF2(67, 1), FMSUB_D |-> OpF2(71, 1),
     FNMSUB_D |-> OpF2(75, 1), FNMADD_D |-> OpF2(79, 1), FADD_D |-> OpF7(83, 1),
     FSUB_D |-> OpF7(83, 5), FMUL_D |-> OpF7(83, 9), FDIV_D |-> OpF7(83, 13),
     FSQRT_D |-> OpRs2F7(83, 0, 45), FSGNJ_D |-> OpF3F7(83, 0, 17),
     FSGNJN_D |-> OpF3F7(83, 1, 17), FSGNJX_D |-> OpF3F7(83, 2, 17),
     FMIN_D |-> OpF3F7(83, 0, 21), FMAX_D |-> OpF3F7(83, 1, 21),
     FCVT_S_D |-> OpRs2F7(83, 1, 32), FCVT_D_S |-> OpRs2F7(83, 0, 33),
     FEQ_D |-> OpF3F7(83, 2, 81), FLT_D |-> OpF3F7(83, 1, 81), FLE_D |-> OpF3F7(83, 0, 81),
     FCLASS_D |-> OpF3Rs2F7(83, 1, 0, 113), FCVT_W_D |-> OpRs2F7(83, 0, 97),
     FCVT_WU_D |-> OpRs2F7(83, 1, 97), FCVT_D_W |-> OpRs2F7(83, 0, 105),
     FCVT_D_WU |-> OpRs2F7(83, 1, 105), FCVT_L_D |-> OpRs2F7(83, 2, 97),
     FCVT_LU_D |-> OpRs2F7(83, 3, 97), FMV_X_D |-> OpF3Rs2F7(83, 0, 0, 113),
     FCVT_D_L |-> OpRs2F7(83, 2, 105), FCVT_D_LU |-> OpRs2F7(83, 3, 105),
     FMV_D_X |-> OpF3Rs2F7(83, 0, 0, 121)]

(* The row an architecture matches an instruction with: RV32 has masks of   *)
(* its own for the immediate shifts, whose sixth shift bit must be zero.   *)
Encoding ==
    LET common == Joined(ENC_RV32I, Joined(ENC_RV32MA, Joined(ENC_Priv, Joined(ENC_RV64IMA,
                      Joined(ENC_F, ENC_D)))))
    IN [RV32 |-> Joined(ENC_Shift_RV32, common), RV64 |-> Joined(ENC_Shift_RV64, common)]

(***************************************************************************)
(* enum Parts: the values the decoder switches on. They are written a      *)
(* second time here, apart from the masks above.                           *)
(***************************************************************************)
OP == [LUI |-> 55, AUIPC |-> 23, JAL |-> 111, JALR |-> 103, LB |-> 3, SB |-> 35, BEQ |-> 99,
       ADDI |-> 19, ADD |-> 51, FENCE |-> 15, ECALL |-> 115, AMO |-> 47, ADDIW |-> 27,
       ADDW |-> 59, FMADD_S |-> 67, FADD_S |-> 83, FLW |-> 7, FSW |-> 39, FMSUB_S |-> 71,
       FNMSUB_S |-> 75, FNMADD_S |-> 79]

F3_LOAD == [LB |-> 0, LH |-> 1, LW |-> 2, LBU |-> 4, LHU |-> 5, LWU |-> 6, LD |-> 3]
F3_STORE == [SB |-> 0, SH |-> 1, SW |-> 2, SD |-> 3]
F3_BRANCH == [BEQ |-> 0, BNE |-> 1, BLT |-> 4, BGE |-> 5, BLTU |-> 6, BGEU |-> 7]
F3_IMM == [ADDI |-> 0, SLTI |-> 2, SLTIU |-> 3, XORI |-> 4, ORI |-> 6, ANDI |-> 7, SLLI |-> 1]
F3_SRLI == 5
F6_SHIFT == [SRLI |-> 0, SRAI |-> 16]

(* F7_ADDW, F7_SUBW and F7_MULW have the same values. *)
F7_ADD == 0
F7_SUB == 32
F7_MUL == 1
F3_ADD == [ADD |-> 0, SLL |-> 1, SLT |-> 2, SLTU |-> 3, XOR |-> 4, SRL |-> 5, OR |-> 6, AND |-> 7]
F3_SUB == [SUB |-> 0, SRA |-> 5]
F3_MUL == [MUL |-> 0, MULH |-> 1, MULHSU |-> 2, MULHU |-> 3, DIV |-> 4, DIVU |-> 5, REM |-> 6,
           REMU |-> 7]

F3_FENCE == [FENCE |-> 0, FENCE_I |-> 1]
F3_SYS == 0
F12 == [ECALL |-> 0, EBREAK |-> 1, URET |-> 2, SRET |-> 258, MRET |-> 770, WFI |-> 261]
F3_CSR == [CSRRW |-> 1, CSRRS |-> 2, CSRRC |-> 3, CSRRWI |-> 5, CSRRSI |-> 6, CSRRCI |-> 7]
F3_AMO_D == 3
F5_AMO_W == [LR_W |-> 2, SC_W |-> 3, AMOSWAP_W |-> 1, AMOADD_W |-> 0, AMOXOR_W |-> 4,
             AMOAND_W |-> 12, AMOOR_W |-> 8, AMOMIN_W |-> 16, AMOMAX_W |-> 20,
             AMOMINU_W |-> 24, AMOMAXU_W |-> 28]
(* The double word instruction that shares the funct5 of a word instruction. *)
AMO_D == [LR_W |-> "LR_D", SC_W |-> "SC_D", AMOSWAP_W |-> "AMOSWAP_D", AMOADD_W |-> "AMOADD_D",
          AMOXOR_W |-> "AMOXOR_D", AMOAND_W |-> "AMOAND_D", AMOOR_W |-> "AMOOR_D",
          AMOMIN_W |-> "AMOMIN_D", AMOMAX_W |-> "AMOMAX_D", AMOMINU_W |-> "AMOMINU_D",
          AMOMAXU_W |-> "AMOMAXU_D"]

F3_IMMW == [ADDIW |-> 0, SLLIW |-> 1]
F3_SRLIW == 5
F7_SHIFTW == [SRLIW |-> 0, SRAIW |-> 32]
F3_ADDW == [ADDW |-> 0, SLLW |-> 1, SRLW |-> 5]
F3_SUBW == [SUBW |-> 0, SRAW |-> 5]
F3_MULW == [MULW |-> 0, DIVW |-> 4, DIVUW |-> 5, REMW |-> 6, REMUW |-> 7]

F2_FMADD == [FMADD_S |-> 0, FMADD_D |-> 1]
F2_FMSUB == [FMSUB_S |-> 0, FMSUB_D |-> 1]
F2_FNMSUB == [FNMSUB_S |-> 0, FNMSUB_D |-> 1]
F2_FNMADD == [FNMADD_S |-> 0, FNMADD_D |-> 1]
F3_FLW == [FLW |-> 2, FLD |-> 3]
F3_FSW == [FSW |-> 2, FSD |-> 3]

(* OP_FADD_S: instructions that funct7 alone selects ...                   *)
F7_FP == [FADD_S |-> 0, FADD_D |-> 1, FSUB_S |-> 4, FSUB_D |-> 5, FCVT_D_S |-> 33, FMUL_S |-> 8,
          FMUL_D |-> 9, FDIV_S |-> 12, FDIV_D |-> 13, FCVT_S_D |-> 32, FSQRT_S |-> 44,
          FSQRT_D |-> 45, FMV_W_X |-> 120, FMV_D_X |-> 121]
(* ... and, for the other values of funct7, the table of funct3 or of rs2. *)
F3_FP ==
    [f7 \in {16, 17, 20, 21, 80, 81, 112, 113} |->
        CASE f7 = 80 -> [FLE_S |-> 0, FLT_S |-> 1, FEQ_S |-> 2]
          [] f7 = 81 -> [FLE_D |-> 0, FLT_D |-> 1, FEQ_D |-> 2]
          [] f7 = 16 -> [FSGNJ_S |-> 0, FSGNJN_S |-> 1, FSGNJX_S |-> 2]
          [] f7 = 17 -> [FSGNJ_D |-> 0, FSGNJN_D |-> 1, FSGNJX_D |-> 2]
          [] f7 = 20 -> [FMIN_S |-> 0, FMAX_S |-> 1]
          [] f7 = 21 -> [FMIN_D |-> 0, FMAX_D |-> 1]
          [] f7 = 112 -> [FMV_X_W |-> 0, FCLASS_S |-> 1]
          [] f7 = 113 -> [FMV_X_D |-> 0, FCLASS_D |-> 1]]
RS2_FP ==
    [f7 \in {96, 97, 104, 105} |->
        CASE f7 = 104 -> [FCVT_S_W |-> 0, FCVT_S_WU |-> 1, FCVT_S_L |-> 2, FCVT_S_LU |-> 3]
          [] f7 = 105 -> [FCVT_D_W |-> 0, FCVT_D_WU |-> 1, FCVT_D_L |-> 2, FCVT_D_LU |-> 3]
          [] f7 = 97 -> [FCVT_W_D |-> 0, FCVT_WU_D |-> 1, FCVT_L_D |-> 2, FCVT_LU_D |-> 3]
          [] f7 = 96 -> [FCVT_W_S |-> 0, FCVT_WU_S |-> 1, FCVT_L_S |-> 2, FCVT_LU_S |-> 3]]

(***************************************************************************)
(* getType: the format of an instruction.                                  *)
(***************************************************************************)
R_int ==
    {"SLLI", "SRLI", "SRAI", "ADD", "SUB", "SLL", "SLT", "SLTU", "XOR", "SRL", "SRA", "OR",
     "AND", "MUL", "MULH", "MULHSU", "MULHU", "DIV", "DIVU", "REM", "REMU", "ADDW", "SUBW",
     "SLLW", "SRLW", "SRAW", "MULW", "DIVW", "DIVUW", "REMW", "REMUW", "LR_W", "SC_W",
     "AMOSWAP_W", "AMOADD_W", "AMOXOR_W", "AMOAND_W", "AMOOR_W", "AMOMIN_W", "AMOMAX_W",
     "AMOMINU_W", "AMOMAXU_W", "LR_D", "SC_D", "AMOSWAP_D", "AMOADD_D", "AMOXOR_D", "AMOAND_D",
     "AMOOR_D", "AMOMIN_D", "AMOMAX_D", "AMOMINU_D", "AMOMAXU_D"}

R_fp ==
    {"FADD_S", "FSUB_S", "FMUL_S", "FDIV_S", "FSQRT_S", "FSGNJ_S", "FSGNJN_S", "FSGNJX_S",
     "FMIN_S", "FMAX_S", "FCVT_W_S", "FCVT_WU_S", "FMV_X_W", "FEQ_S", "FLT_S", "FLE_S",
     "FCLASS_S", "FCVT_S_W", "FCVT_S_WU", "FMV_W_X", "FCVT_L_S", "FCVT_LU_S", "FCVT_S_L",
     "FCVT_S_LU", "FADD_D", "FSUB_D", "FMUL_D", "FDIV_D", "FSQRT_D", "FSGNJ_D", "FSGNJN_D",
     "FSGNJX_D", "FMIN_D", "FMAX_D", "FCVT_S_D", "FCVT_D_S", "FEQ_D", "FLT_D", "FLE_D",
     "FCLASS_D", "FCVT_W_D", "FCVT_WU_D", "FCVT_D_W", "FCVT_D_WU", "FCVT_L_D", "FCVT_LU_D",
     "FMV_X_D", "FCVT_D_L", "FCVT_D_LU", "FMV_D_X"}

I_type ==
    {"JALR", "LB", "LH", "LW", "LD", "LBU", "LHU", "LWU", "ADDI", "SLTI", "SLTIU", "XORI",
     "ORI", "ANDI", "ADDIW", "SLLIW", "SRLIW", "SRAIW", "FLW", "FLD"}

S_type ==
    {"SB", "SH", "SW", "SD", "FSW", "FSD"}

B_type ==
    {"BEQ", "BNE", "BLT", "BGE", "BLTU", "BGEU"}

U_type ==
    {"LUI", "AUIPC"}

J_type ==
    {"JAL"}

R4_type ==
    {"FMADD_S", "FMSUB_S", "FNMSUB_S", "FNMADD_S", "FMADD_D", "FMSUB_D", "FNMSUB_D", "FNMADD_D"}

getType(op) ==
    CASE op \in R_int \cup R_fp -> "R"
      [] op \in I_type -> "I"
      [] op \in S_type -> "S"
      [] op \in B_type -> "B"
      [] op \in U_type -> "U"
      [] op \in J_type -> "J"
      [] op \in R4_type -> "R4"
      [] OTHER -> "UNKNOWN"
=============================================================================

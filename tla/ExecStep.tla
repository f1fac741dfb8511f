------------------------------ MODULE ExecStep ------------------------------
(* The decoders and the executors of both cores, run on one instruction at a *)
(* time. A job is one of                                                     *)
(*   "normal"      decode a 32 bit word with a given major opcode,           *)
(*   "compressed"  decode and expand a 16 bit parcel with given upper bits,  *)
(*   "execute"     execute a given instruction,                              *)
(* and every step of a job takes another word, parcel or tuple of operands.  *)
EXTENDS Instr, RV64Exec

CONSTANTS Registers,    \* combinations of rd, rs1 and rs2 of the words
          Jumps,        \* immediates of jumps, branches, loads and stores
          Edges         \* second operands of the 64 bit instructions

VARIABLES isa,      \* the core, "RV32" or "RV64"
          job,
          in, out   \* what the step takes, and its result

execVars == <<isa, job, in, out>>

Arch == {"RV32", "RV64"}
Integer == [RV32 |-> Integer32, RV64 |-> Integer64]
Handled == [RV32 |-> Handled32, RV64 |-> Handled64]
XLEN == [RV32 |-> XLEN32, RV64 |-> XLEN64]

(* Every major opcode of a 32 bit word, and the upper six bits of a parcel. *)
MajorOpcodes == {4 * n + 3 : n \in 0 .. 31}
UpperBits == 0 .. 63

ExecInit ==
    /\ isa \in Arch
    /\ job \in [unit : {"normal"}, of : MajorOpcodes] \cup [unit : {"compressed"}, of : UpperBits]
                    \cup [unit : {"execute"}, of : Integer[isa]]
    /\ in = Nothing
    /\ out = Nothing

Decode ==
    /\ job.unit = "normal" /\ out = Nothing
    /\ \E f3 \in 0 .. 7, f7 \in 0 .. 127, r \in Registers :
           LET w == RWord(job.of, f3, f7, r[1], r[2], r[3])
           IN in' = w /\ out' = decode_normal(w, isa)
    /\ UNCHANGED <<isa, job>>

Expand ==
    /\ job.unit = "compressed" /\ out = Nothing
    /\ \E n \in {m \in 0 .. 1023 : is_compressed(m)} :
           LET parcel == job.of * 1024 + n
           IN in' = parcel /\ out' = decode_and_expand_compressed(parcel, isa)
    /\ UNCHANGED <<isa, job>>

(* The operands an instruction reads: rs1 always, rs2 and the immediate as *)
(* its format says; a location of memory when it accesses one.             *)
ReadsMemory(op) == op \in Loads64 \cup AmoOps32 \cup AmoDoubleOps
Immediates(op) ==
    CASE op \in ShiftOps32 -> 0 .. XLEN[isa] - 1
      [] op \in {"SLLIW", "SRLIW", "SRAIW"} -> 0 .. WORD - 1
      [] op \in BranchOps32 \cup {"JAL"} -> {i \in Jumps : i % 2 = 0}
      [] op \in ImmOps32 \cup {"ADDIW", "JALR"} \cup UpperOps32 \cup Loads64 \cup Stores64 -> Jumps
      [] OTHER -> {0}
Signeds(n) == -Pow2[n - 1] .. Pow2[n - 1] - 1

(* The fields of the words are in range, and the operands are register     *)
(* values of the wider core.                                               *)
ASSUME ExecAssumption ==
    /\ Registers \subseteq (0 .. 31) \X (0 .. 31) \X (0 .. 31)
    /\ Jumps \subseteq Int
    /\ Edges \subseteq Signeds(XLEN64)

Seconds(op) ==
    IF op \notin ImmOps32 \cup ShiftOps32 \cup {"SLLIW", "SRLIW", "SRAIW", "ADDIW"} \cup UpperOps32
                    \cup JumpOps32 \cup Loads64
    THEN IF isa = "RV32" THEN Signeds(XLEN32) ELSE Edges
    ELSE {0}

Firsts(op) ==
    IF op \in Loads64 \cup Stores64 \cup AmoOps32 \cup AmoDoubleOps /\ isa = "RV64"
    THEN Edges ELSE Signeds(XLEN[isa])

Execute ==
    /\ job.unit = "execute" /\ out = Nothing
    /\ \E a \in Firsts(job.of), b \in Seconds(job.of), imm \in Immediates(job.of),
          mem \in IF ReadsMemory(job.of) THEN Edges ELSE {0} :
           LET x == [op |-> job.of, a |-> a, b |-> b, imm |-> imm, pc |-> 2, next |-> 6,
                     mem |-> mem]
           IN in' = x /\ out' = IF isa = "RV32" THEN Exec32(x) ELSE Exec64(x)
    /\ UNCHANGED <<isa, job>>

(* The hart takes its next instruction. *)
Proceed == out # Nothing /\ in' = Nothing /\ out' = Nothing /\ UNCHANGED <<isa, job>>

ExecNext == Decode \/ Expand \/ Execute \/ Proceed

ExecSpec == ExecInit /\ [][ExecNext]_execVars

(***************************************************************************)
(* Properties.                                                             *)
(***************************************************************************)
AfterDecode == job.unit = "normal" /\ out # Nothing
AfterExpand == job.unit = "compressed" /\ out # Nothing
AfterExecute == job.unit = "execute" /\ out # Nothing

(* The instructions with a given major opcode. *)
OpsOf ==
    [a \in Arch |-> [o \in MajorOpcodes |-> {op \in Ops : Encoding[a][op].opcode = o}]]

(* decode_normal returns the instruction whose mask matches the word, and  *)
(* no other mask does: no path through its nested switches loses an        *)
(* instruction, and no word has two meanings.                              *)
DecodeMatchesEncoding ==
    AfterDecode => {op \in OpsOf[isa][in.opcode] : Matches(in, Encoding[isa][op])} = {out} \ {"UNDEF"}

(* The immediate of a word, by the format of its instruction. *)
WordImmediate(op, w) ==
    CASE op \in ShiftOps32 -> shamt(w)
      [] getType(op) = "I" -> I_imm(w)
      [] getType(op) = "S" -> S_imm(w)
      [] getType(op) = "B" -> B_imm(w)
      [] getType(op) = "U" -> U_imm(w)
      [] getType(op) = "J" -> J_imm(w)
      [] OTHER -> 0

(* A compressed instruction expands into a word that decodes to the same   *)
(* instruction and holds the same immediate, so that whoever looks at the  *)
(* word again (the executor's operands, the trap value, the trace) sees    *)
(* what was executed. C.ADDIW is built from an ADDI word.                  *)
ExpansionDecodesBack ==
    AfterExpand /\ out.op # "UNDEF" =>
        /\ decode_normal(out.word, isa) = IF out.op = "ADDIW" THEN "ADDI" ELSE out.op
        /\ out.op = "EBREAK" \/ WordImmediate(out.op, out.word) = out.imm

(* Whatever the decoders return has a case in the switch of exec_step,     *)
(* whose default throws, and is printed under its own name by the trace.   *)
DecodedIsKnown ==
    LET op == IF AfterDecode THEN out ELSE out.op
    IN AfterDecode \/ AfterExpand =>
        /\ op \in Handled[isa]
        /\ op # "UNDEF" => \E i \in 1 .. Len(Mapping) : Mapping[i] = op /\ mappingStr[i] = op

(* trap_check_pc_alignment asserts that bit 0 of a jump target is clear,   *)
(* "not possible due to immediate formats and jump execution".             *)
NextPcEven ==
    /\ AfterDecode => (out \in BranchOps32 => B_imm(in) % 2 = 0) /\ (out = "JAL" => J_imm(in) % 2 = 0)
    /\ AfterExecute => out.pc % 2 = 0 /\ out.pc \in 0 .. Pow2[XLEN[isa]] - 1

(* The result register of another instruction on the operands of this one. *)
Also(op) ==
    LET x == [in EXCEPT !.op = op] IN IF isa = "RV32" THEN Exec32(x).rd ELSE Exec64(x).rd

(* Pairs of instructions that split one exact result between them, for     *)
(* every operand, zero divisors and overflow included: the two halves of a *)
(* product make the product, quotient and remainder make the dividend, and *)
(* the remainder is smaller than the divisor and has the dividend's sign.  *)
ExactArithmetic ==
    LET n == XLEN[isa]
        u == Unsigned(in.a, n)
        v == Unsigned(in.b, n)
        Product(high) == out.rd = (high - Unsigned(Also("MUL"), n)) \div Pow2[n]
        Divides(q, r, a, b, w) ==
            /\ Unsigned(q * b + r, w) = Unsigned(a, w)
            /\ b = 0 \/ (Abs(r) < Abs(b) /\ (r = 0 \/ (r < 0) = (a < 0)))
        lo == Signed(in.a, WORD)
        hi == Signed(in.b, WORD)
    IN AfterExecute =>
        CASE in.op = "MULH" -> Product(in.a * in.b)
          [] in.op = "MULHU" -> Unsigned(out.rd, n) = (u * v - Unsigned(Also("MUL"), n)) \div Pow2[n]
          [] in.op = "MULHSU" -> Product(in.a * v)
          [] in.op = "DIV" -> Divides(out.rd, Also("REM"), in.a, in.b, n)
          [] in.op = "DIVU" -> Divides(Unsigned(out.rd, n), Unsigned(Also("REMU"), n), u, v, n)
          [] in.op = "DIVW" -> Divides(out.rd, Also("REMW"), lo, hi, WORD)
          [] in.op = "DIVUW" -> Divides(Unsigned(out.rd, WORD), Unsigned(Also("REMUW"), WORD),
                                        Unsigned(lo, WORD), Unsigned(hi, WORD), WORD)
          [] OTHER -> TRUE

(* The instruction of the 32 bit core that a word instruction stands for. *)
NarrowOf ==
    Joined([op \in AmoOps32 |-> op],
    [ADDIW |-> "ADDI", SLLIW |-> "SLLI", SRLIW |-> "SRLI", SRAIW |-> "SRAI", ADDW |-> "ADD",
     SUBW |-> "SUB", SLLW |-> "SLL", SRLW |-> "SRL", SRAW |-> "SRA", MULW |-> "MUL",
     DIVW |-> "DIV", DIVUW |-> "DIVU", REMW |-> "REM", REMUW |-> "REMU"])

(* The two cores have an executor each. A word instruction or a word AMO   *)
(* of the 64 bit core gives what the 32 bit core gives for the low words   *)
(* of its operands, extended by its sign; an AMO stores the same word.     *)
WordOpsAgree ==
    AfterExecute /\ isa = "RV64" /\ in.op \in DOMAIN NarrowOf =>
        LET narrow == Exec32([in EXCEPT !.op = NarrowOf[in.op], !.a = Signed(in.a, WORD),
                                        !.b = Signed(in.b, WORD)])
        IN <<out.trap, out.rd, out.store>> = <<narrow.trap, narrow.rd, narrow.store>>
=============================================================================

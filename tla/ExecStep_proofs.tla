--------------------------- MODULE ExecStep_proofs ---------------------------
(* Proofs about the decoder and the executors of both cores.                 *)
EXTENDS ExecStep, NaturalsInduction, WellFoundedInduction, TLAPS

-----------------------------------------------------------------------------
(* The encoding tables and the enumeration.                                  *)

(* The words that decode_normal is given. *)
Words == [opcode : MajorOpcodes, rd : 0 .. 31, funct3 : 0 .. 7, rs1 : 0 .. 31, rs2 : 0 .. 31,
          funct7 : 0 .. 127]

(* The instructions that have a row in the encoding table. *)
Encoded == DOMAIN ENC_RV32I \cup DOMAIN ENC_Shift_RV32 \cup DOMAIN ENC_RV32MA \cup DOMAIN ENC_Priv
               \cup DOMAIN ENC_RV64IMA \cup DOMAIN ENC_F \cup DOMAIN ENC_D

LEMMA JoinedFirst ==
    ASSUME NEW f, NEW g, NEW x \in DOMAIN f
    PROVE  x \in DOMAIN Joined(f, g) /\ Joined(f, g)[x] = f[x]
  BY DEF Joined

LEMMA JoinedSecond ==
    ASSUME NEW f, NEW g, NEW x \in DOMAIN g, x \notin DOMAIN f
    PROVE  x \in DOMAIN Joined(f, g) /\ Joined(f, g)[x] = g[x]
  BY DEF Joined

(* The parts of the encoding table have no instruction in common, so that  *)
(* the row of an instruction is the one its part gives.                    *)
LEMMA Rows ==
    ASSUME NEW a \in Arch
    PROVE  /\ \A op \in DOMAIN ENC_RV32I : Encoding[a][op] = ENC_RV32I[op]
           /\ \A op \in DOMAIN ENC_RV32MA : Encoding[a][op] = ENC_RV32MA[op]
           /\ \A op \in DOMAIN ENC_Priv : Encoding[a][op] = ENC_Priv[op]
           /\ \A op \in DOMAIN ENC_RV64IMA : Encoding[a][op] = ENC_RV64IMA[op]
           /\ \A op \in DOMAIN ENC_F : Encoding[a][op] = ENC_F[op]
           /\ \A op \in DOMAIN ENC_D : Encoding[a][op] = ENC_D[op]
           /\ \A op \in DOMAIN ENC_Shift_RV32 :
                  Encoding[a][op] = IF a = "RV32" THEN ENC_Shift_RV32[op] ELSE ENC_Shift_RV64[op]
<1> DEFINE J5 == Joined(ENC_F, ENC_D)
           J4 == Joined(ENC_RV64IMA, J5)
           J3 == Joined(ENC_Priv, J4)
           J2 == Joined(ENC_RV32MA, J3)
           J1 == Joined(ENC_RV32I, J2)
           Shift == IF a = "RV32" THEN ENC_Shift_RV32 ELSE ENC_Shift_RV64
<1>1. Encoding[a] = Joined(Shift, J1)
  BY DEF Encoding, Arch
<1>2. DOMAIN Shift = {"SLLI", "SRLI", "SRAI"} /\ DOMAIN ENC_Shift_RV32 = {"SLLI", "SRLI", "SRAI"}
  BY DEF ENC_Shift_RV32, ENC_Shift_RV64
<1>3. \A op \in DOMAIN ENC_RV32I : op \notin {"SLLI", "SRLI", "SRAI"}
  BY DEF ENC_RV32I
<1>4. \A op \in DOMAIN ENC_RV32MA : op \notin {"SLLI", "SRLI", "SRAI"} \cup DOMAIN ENC_RV32I
  BY DEF ENC_RV32I, ENC_RV32MA
<1>5. \A op \in DOMAIN ENC_Priv :
          op \notin {"SLLI", "SRLI", "SRAI"} \cup DOMAIN ENC_RV32I \cup DOMAIN ENC_RV32MA
  BY DEF ENC_RV32I, ENC_RV32MA, ENC_Priv
<1>6. \A op \in DOMAIN ENC_RV64IMA :
          op \notin {"SLLI", "SRLI", "SRAI"} \cup DOMAIN ENC_RV32I \cup DOMAIN ENC_RV32MA
                        \cup DOMAIN ENC_Priv
  BY DEF ENC_RV32I, ENC_RV32MA, ENC_Priv, ENC_RV64IMA
<1>7. \A op \in DOMAIN ENC_F :
          op \notin {"SLLI", "SRLI", "SRAI"} \cup DOMAIN ENC_RV32I \cup DOMAIN ENC_RV32MA
                        \cup DOMAIN ENC_Priv \cup DOMAIN ENC_RV64IMA
  BY DEF ENC_RV32I, ENC_RV32MA, ENC_Priv, ENC_RV64IMA, ENC_F
<1>8. \A op \in DOMAIN ENC_D :
          op \notin {"SLLI", "SRLI", "SRAI"} \cup DOMAIN ENC_RV32I \cup DOMAIN ENC_RV32MA
                        \cup DOMAIN ENC_Priv \cup DOMAIN ENC_RV64IMA \cup DOMAIN ENC_F
  BY DEF ENC_RV32I, ENC_RV32MA, ENC_Priv, ENC_RV64IMA, ENC_F, ENC_D
<1> HIDE DEF J1, J2, J3, J4, J5, Shift
<1>9. \A op \in DOMAIN ENC_RV32I : Encoding[a][op] = ENC_RV32I[op]
  BY <1>1, <1>2, <1>3, JoinedFirst, JoinedSecond DEF J1
<1>10. \A op \in DOMAIN J2 : op \notin DOMAIN Shift \cup DOMAIN ENC_RV32I => Encoding[a][op] = J2[op]
  BY <1>1, JoinedSecond DEF J1
<1>11. \A op \in DOMAIN J3 : op \notin DOMAIN ENC_RV32MA => op \in DOMAIN J2 /\ J2[op] = J3[op]
  BY JoinedSecond DEF J2
<1>12. \A op \in DOMAIN J4 : op \notin DOMAIN ENC_Priv => op \in DOMAIN J3 /\ J3[op] = J4[op]
  BY JoinedSecond DEF J3
<1>13. \A op \in DOMAIN J5 : op \notin DOMAIN ENC_RV64IMA => op \in DOMAIN J4 /\ J4[op] = J5[op]
  BY JoinedSecond DEF J4
<1>14. ASSUME NEW op \in DOMAIN ENC_RV32MA PROVE Encoding[a][op] = ENC_RV32MA[op]
  <2>1. op \in DOMAIN J2 /\ J2[op] = ENC_RV32MA[op]
    BY JoinedFirst DEF J2
  <2>2. op \in DOMAIN J2 /\ J2[op] = ENC_RV32MA[op]
    BY <2>1, <1>4
  <2> QED
    BY <1>2, <1>4, <1>10, <2>2
<1>15. ASSUME NEW op \in DOMAIN ENC_Priv PROVE Encoding[a][op] = ENC_Priv[op]
  <2>1. op \in DOMAIN J3 /\ J3[op] = ENC_Priv[op]
    BY JoinedFirst DEF J3
  <2>2. op \in DOMAIN J2 /\ J2[op] = ENC_Priv[op]
    BY <2>1, <1>5, <1>11
  <2> QED
    BY <1>2, <1>5, <1>10, <2>2
<1>16. ASSUME NEW op \in DOMAIN ENC_RV64IMA PROVE Encoding[a][op] = ENC_RV64IMA[op]
  <2>1. op \in DOMAIN J4 /\ J4[op] = ENC_RV64IMA[op]
    BY JoinedFirst DEF J4
  <2>2. op \in DOMAIN J2 /\ J2[op] = ENC_RV64IMA[op]
    BY <2>1, <1>6, <1>11, <1>12
  <2> QED
    BY <1>2, <1>6, <1>10, <2>2
<1>17. ASSUME NEW op \in DOMAIN ENC_F PROVE Encoding[a][op] = ENC_F[op]
  <2>1. op \in DOMAIN J5 /\ J5[op] = ENC_F[op]
    BY JoinedFirst DEF J5
  <2>2. op \in DOMAIN J2 /\ J2[op] = ENC_F[op]
    BY <2>1, <1>7, <1>11, <1>12, <1>13
  <2> QED
    BY <1>2, <1>7, <1>10, <2>2
<1>18. ASSUME NEW op \in DOMAIN ENC_D PROVE Encoding[a][op] = ENC_D[op]
  <2>1. op \in DOMAIN J5 /\ J5[op] = ENC_D[op]
    BY <1>8, JoinedSecond DEF J5
  <2>2. op \in DOMAIN J2 /\ J2[op] = ENC_D[op]
    BY <2>1, <1>8, <1>11, <1>12, <1>13
  <2> QED
    BY <1>2, <1>8, <1>10, <2>2
<1>19. \A op \in DOMAIN ENC_Shift_RV32 :
          Encoding[a][op] = IF a = "RV32" THEN ENC_Shift_RV32[op] ELSE ENC_Shift_RV64[op]
  BY <1>1, <1>2, JoinedFirst DEF Shift
<1> QED
  BY <1>9, <1>14, <1>15, <1>16, <1>17, <1>18, <1>19

(* The fields that the mask of a row selects. *)
LEMMA RowFields ==
    ASSUME NEW w, NEW o, NEW f3, NEW f7, NEW r
    PROVE  /\ Matches(w, Op(o)) <=> w.opcode = o
           /\ Matches(w, OpF3(o, f3)) <=> w.opcode = o /\ w.funct3 = f3
           /\ Matches(w, OpF2(o, f7)) <=> w.opcode = o /\ funct2(w) = f7
           /\ Matches(w, OpF7(o, f7)) <=> w.opcode = o /\ w.funct7 = f7
           /\ Matches(w, OpF3F5(o, f3, f7)) <=> w.opcode = o /\ w.funct3 = f3 /\ funct5(w) = f7
           /\ Matches(w, OpF3F6(o, f3, f7)) <=> w.opcode = o /\ w.funct3 = f3 /\ funct6(w) = f7
           /\ Matches(w, OpF3F7(o, f3, f7)) <=> w.opcode = o /\ w.funct3 = f3 /\ w.funct7 = f7
           /\ Matches(w, OpRs2F7(o, r, f7)) <=> w.opcode = o /\ w.rs2 = r /\ w.funct7 = f7
           /\ Matches(w, OpF3Rs2F5(o, f3, r, f7)) <=>
                  w.opcode = o /\ w.funct3 = f3 /\ w.rs2 = r /\ funct5(w) = f7
           /\ Matches(w, OpF3Rs2F7(o, f3, r, f7)) <=>
                  w.opcode = o /\ w.funct3 = f3 /\ w.rs2 = r /\ w.funct7 = f7
           /\ Matches(w, System(r, f7)) <=> w.opcode = 115 /\ w.rd = 0 /\ w.funct3 = 0 /\ w.rs1 = 0
                                                /\ w.rs2 = r /\ w.funct7 = f7
           /\ Matches(w, SFence(f7)) <=>
                  w.opcode = 115 /\ w.rd = 0 /\ w.funct3 = 0 /\ w.funct7 = f7
<1> USE DEF Matches, Field
<1>1. Matches(w, Op(o)) <=> w.opcode = o
  BY DEF Op
<1>2. Matches(w, OpF3(o, f3)) <=> w.opcode = o /\ w.funct3 = f3
  BY DEF OpF3
<1>3. Matches(w, OpF2(o, f7)) <=> w.opcode = o /\ funct2(w) = f7
  BY DEF OpF2
<1>4. Matches(w, OpF7(o, f7)) <=> w.opcode = o /\ w.funct7 = f7
  BY DEF OpF7
<1>5. Matches(w, OpF3F5(o, f3, f7)) <=> w.opcode = o /\ w.funct3 = f3 /\ funct5(w) = f7
  BY DEF OpF3F5
<1>6. Matches(w, OpF3F6(o, f3, f7)) <=> w.opcode = o /\ w.funct3 = f3 /\ funct6(w) = f7
  BY DEF OpF3F6
<1>7. Matches(w, OpF3F7(o, f3, f7)) <=> w.opcode = o /\ w.funct3 = f3 /\ w.funct7 = f7
  BY DEF OpF3F7
<1>8. Matches(w, OpRs2F7(o, r, f7)) <=> w.opcode = o /\ w.rs2 = r /\ w.funct7 = f7
  BY DEF OpRs2F7
<1>9. Matches(w, OpF3Rs2F5(o, f3, r, f7)) <=>
          w.opcode = o /\ w.funct3 = f3 /\ w.rs2 = r /\ funct5(w) = f7
  BY DEF OpF3Rs2F5
<1>10. Matches(w, OpF3Rs2F7(o, f3, r, f7)) <=>
          w.opcode = o /\ w.funct3 = f3 /\ w.rs2 = r /\ w.funct7 = f7
  BY DEF OpF3Rs2F7
<1>11. Matches(w, System(r, f7)) <=> w.opcode = 115 /\ w.rd = 0 /\ w.funct3 = 0 /\ w.rs1 = 0
                                        /\ w.rs2 = r /\ w.funct7 = f7
  BY DEF System
<1>12. Matches(w, SFence(f7)) <=> w.opcode = 115 /\ w.rd = 0 /\ w.funct3 = 0 /\ w.funct7 = f7
  BY DEF SFence
<1> HIDE DEF Matches, Field
<1> QED
  BY <1>1, <1>2, <1>3, <1>4, <1>5, <1>6, <1>7, <1>8, <1>9, <1>10, <1>11, <1>12

(* The names in the two lists. *)
Names == Encoded \cup {"UNDEF", "ZERO-INVALID"}

(* A list of n names; p is s, of length m, followed by t, of length n. The *)
(* lengths are arguments, for the provers take a sequence of a constant    *)
(* length apart into its elements.                                         *)
IsList(s, n) == s \in Seq(Names) /\ Len(s) = n
Glued(p, s, m, t, n) ==
    /\ \A i \in Int : 1 <= i /\ i <= m => p[i] = s[i]
    /\ \A i \in Int : m < i /\ i <= m + n => p[i] = t[i - m]

LEMMA Concatenated ==
    ASSUME NEW s, NEW t, NEW m \in Nat, NEW n \in Nat, IsList(s, m), IsList(t, n)
    PROVE  IsList(s \o t, m + n) /\ Glued(s \o t, s, m, t, n)
  BY DEF Glued, IsList

LEMMA WiderSeq == ASSUME NEW S, NEW T, S \subseteq T, NEW s \in Seq(S) PROVE s \in Seq(T)
  OBVIOUS

LEMMA MappingParts ==
    /\ IsList(Mapping_RV32I, 47)
    /\ IsList(Mapping_RV32MA, 19)
    /\ IsList(Mapping_RV64IMA, 28)
    /\ IsList(Mapping_F, 30)
    /\ IsList(Mapping_D, 32)
    /\ IsList(Mapping_Priv, 5)
    /\ IsList(mappingStr_RV32, 67)
    /\ IsList(mappingStr_RV64FD, 95)
<1>1. IsList(Mapping_RV32I, 47)
  <2>1. Mapping_RV32I \in Seq(DOMAIN ENC_RV32I \cup DOMAIN ENC_Shift_RV32) /\ Len(Mapping_RV32I) = 47
    BY DEF Mapping_RV32I, ENC_RV32I, ENC_Shift_RV32
  <2> QED
    BY <2>1, WiderSeq DEF Names, Encoded, IsList
<1>2. IsList(Mapping_RV32MA, 19)
  <2>1. Mapping_RV32MA \in Seq(DOMAIN ENC_RV32MA) /\ Len(Mapping_RV32MA) = 19
    BY DEF Mapping_RV32MA, ENC_RV32MA
  <2> QED
    BY <2>1, WiderSeq DEF Names, Encoded, IsList
<1>3. IsList(Mapping_RV64IMA, 28)
  <2>1. Mapping_RV64IMA \in Seq(DOMAIN ENC_RV64IMA) /\ Len(Mapping_RV64IMA) = 28
    BY DEF Mapping_RV64IMA, ENC_RV64IMA
  <2> QED
    BY <2>1, WiderSeq DEF Names, Encoded, IsList
<1>4. IsList(Mapping_F, 30)
  <2>1. Mapping_F \in Seq(DOMAIN ENC_F) /\ Len(Mapping_F) = 30
    BY DEF Mapping_F, ENC_F
  <2> QED
    BY <2>1, WiderSeq DEF Names, Encoded, IsList
<1>5. IsList(Mapping_D, 32)
  <2>1. Mapping_D \in Seq(DOMAIN ENC_D) /\ Len(Mapping_D) = 32
    BY DEF Mapping_D, ENC_D
  <2> QED
    BY <2>1, WiderSeq DEF Names, Encoded, IsList
<1>6. IsList(Mapping_Priv, 5)
  <2>1. Mapping_Priv \in Seq(DOMAIN ENC_Priv) /\ Len(Mapping_Priv) = 5
    BY DEF Mapping_Priv, ENC_Priv
  <2> QED
    BY <2>1, WiderSeq DEF Names, Encoded, IsList
<1>7. IsList(mappingStr_RV32, 67)
  <2>1. mappingStr_RV32 \in Seq({"ZERO-INVALID"} \cup DOMAIN ENC_RV32I \cup DOMAIN ENC_Shift_RV32 \cup DOMAIN ENC_RV32MA) /\ Len(mappingStr_RV32) = 67
    BY DEF mappingStr_RV32, ENC_RV32I, ENC_Shift_RV32, ENC_RV32MA
  <2> QED
    BY <2>1, WiderSeq DEF Names, Encoded, IsList
<1>8. IsList(mappingStr_RV64FD, 95)
  <2>1. mappingStr_RV64FD \in Seq(DOMAIN ENC_RV64IMA \cup DOMAIN ENC_F \cup DOMAIN ENC_D \cup DOMAIN ENC_Priv) /\ Len(mappingStr_RV64FD) = 95
    BY DEF mappingStr_RV64FD, ENC_RV64IMA, ENC_F, ENC_D, ENC_Priv
  <2> QED
    BY <2>1, WiderSeq DEF Names, Encoded, IsList
<1> QED
  BY <1>1, <1>2, <1>3, <1>4, <1>5, <1>6, <1>7, <1>8

(* Which part of the enumeration an index falls into. *)
LEMMA MappingAt ==
    /\ Len(Mapping) = 162
    /\ \A i \in Int : 2 <= i /\ i <= 48 => Mapping[i] = Mapping_RV32I[i - 1]
    /\ \A i \in Int : 49 <= i /\ i <= 67 => Mapping[i] = Mapping_RV32MA[i - 48]
    /\ \A i \in Int : 68 <= i /\ i <= 95 => Mapping[i] = Mapping_RV64IMA[i - 67]
    /\ \A i \in Int : 96 <= i /\ i <= 125 => Mapping[i] = Mapping_F[i - 95]
    /\ \A i \in Int : 126 <= i /\ i <= 157 => Mapping[i] = Mapping_D[i - 125]
    /\ \A i \in Int : 158 <= i /\ i <= 162 => Mapping[i] = Mapping_Priv[i - 157]
<1> DEFINE P0 == <<"UNDEF">>
           P1 == P0 \o Mapping_RV32I
           P2 == P1 \o Mapping_RV32MA
           P3 == P2 \o Mapping_RV64IMA
           P4 == P3 \o Mapping_F
           P5 == P4 \o Mapping_D
           P6 == P5 \o Mapping_Priv
<1>0. Mapping = P6
  BY DEF Mapping
<1>1. IsList(P0, 1)
  BY DEF Names, IsList
<1> HIDE DEF P0
<1>2. IsList(P1, 48) /\ Glued(P1, P0, 1, Mapping_RV32I, 47)
  BY <1>1, MappingParts, Concatenated
<1> HIDE DEF P1
<1>3. IsList(P2, 67) /\ Glued(P2, P1, 48, Mapping_RV32MA, 19)
  BY <1>2, MappingParts, Concatenated
<1> HIDE DEF P2
<1>4. IsList(P3, 95) /\ Glued(P3, P2, 67, Mapping_RV64IMA, 28)
  BY <1>3, MappingParts, Concatenated
<1> HIDE DEF P3
<1>5. IsList(P4, 125) /\ Glued(P4, P3, 95, Mapping_F, 30)
  BY <1>4, MappingParts, Concatenated
<1> HIDE DEF P4
<1>6. IsList(P5, 157) /\ Glued(P5, P4, 125, Mapping_D, 32)
  BY <1>5, MappingParts, Concatenated
<1> HIDE DEF P5
<1>7. IsList(P6, 162) /\ Glued(P6, P5, 157, Mapping_Priv, 5)
  BY <1>6, MappingParts, Concatenated
<1> HIDE DEF P6
<1>11. \A i \in Int : 1 <= i /\ i <= 1 => P1[i] = P0[i]
  BY <1>2 DEF Glued
<1>21. \A i \in Int : 2 <= i /\ i <= 48 => P1[i] = Mapping_RV32I[i - 1]
  BY <1>2 DEF Glued
<1>12. \A i \in Int : 1 <= i /\ i <= 48 => P2[i] = P1[i]
  BY <1>3 DEF Glued
<1>22. \A i \in Int : 49 <= i /\ i <= 67 => P2[i] = Mapping_RV32MA[i - 48]
  BY <1>3 DEF Glued
<1>13. \A i \in Int : 1 <= i /\ i <= 67 => P3[i] = P2[i]
  BY <1>4 DEF Glued
<1>23. \A i \in Int : 68 <= i /\ i <= 95 => P3[i] = Mapping_RV64IMA[i - 67]
  BY <1>4 DEF Glued
<1>14. \A i \in Int : 1 <= i /\ i <= 95 => P4[i] = P3[i]
  BY <1>5 DEF Glued
<1>24. \A i \in Int : 96 <= i /\ i <= 125 => P4[i] = Mapping_F[i - 95]
  BY <1>5 DEF Glued
<1>15. \A i \in Int : 1 <= i /\ i <= 125 => P5[i] = P4[i]
  BY <1>6 DEF Glued
<1>25. \A i \in Int : 126 <= i /\ i <= 157 => P5[i] = Mapping_D[i - 125]
  BY <1>6 DEF Glued
<1>16. \A i \in Int : 1 <= i /\ i <= 157 => P6[i] = P5[i]
  BY <1>7 DEF Glued
<1>26. \A i \in Int : 158 <= i /\ i <= 162 => P6[i] = Mapping_Priv[i - 157]
  BY <1>7 DEF Glued
<1>17. Len(P6) = 162
  BY <1>7 DEF IsList
<1> QED
  BY <1>0, <1>17, <1>12, <1>13, <1>14, <1>15, <1>16, <1>21, <1>22, <1>23, <1>24, <1>25, <1>26

LEMMA StrAt ==
    /\ \A i \in Int : 1 <= i /\ i <= 67 => mappingStr[i] = mappingStr_RV32[i]
    /\ \A i \in Int : 68 <= i /\ i <= 162 => mappingStr[i] = mappingStr_RV64FD[i - 67]
<1>1. Glued(mappingStr, mappingStr_RV32, 67, mappingStr_RV64FD, 95)
  BY MappingParts, Concatenated DEF mappingStr
<1>2. \A i \in Int : 1 <= i /\ i <= 67 => mappingStr[i] = mappingStr_RV32[i]
  BY <1>1 DEF Glued
<1>3. \A i \in Int : 68 <= i /\ i <= 162 => mappingStr[i] = mappingStr_RV64FD[i - 67]
  BY <1>1 DEF Glued
<1> QED
  BY <1>2, <1>3

(* The two lists agree: the trace prints the name of the instruction. *)
LEMMA NamesAgree == \A i \in Int : 2 <= i /\ i <= 162 => Mapping[i] = mappingStr[i]
<1>1. \A i \in Int : 1 <= i /\ i <= 47 => Mapping_RV32I[i] = mappingStr_RV32[i + 1]
  BY DEF Mapping_RV32I, mappingStr_RV32
<1>2. \A i \in Int : 1 <= i /\ i <= 19 => Mapping_RV32MA[i] = mappingStr_RV32[i + 48]
  BY DEF Mapping_RV32MA, mappingStr_RV32
<1>3. \A i \in Int : 1 <= i /\ i <= 28 => Mapping_RV64IMA[i] = mappingStr_RV64FD[i + 0]
  BY DEF Mapping_RV64IMA, mappingStr_RV64FD
<1>4. \A i \in Int : 1 <= i /\ i <= 30 => Mapping_F[i] = mappingStr_RV64FD[i + 28]
  BY DEF Mapping_F, mappingStr_RV64FD
<1>5. \A i \in Int : 1 <= i /\ i <= 32 => Mapping_D[i] = mappingStr_RV64FD[i + 58]
  BY DEF Mapping_D, mappingStr_RV64FD
<1>6. \A i \in Int : 1 <= i /\ i <= 5 => Mapping_Priv[i] = mappingStr_RV64FD[i + 90]
  BY DEF Mapping_Priv, mappingStr_RV64FD
<1> SUFFICES ASSUME NEW i \in Int, 2 <= i /\ i <= 162 PROVE Mapping[i] = mappingStr[i]
  OBVIOUS
<1>7. CASE 2 <= i /\ i <= 48
  BY <1>1, <1>7, MappingAt, StrAt
<1>8. CASE 49 <= i /\ i <= 67
  BY <1>2, <1>8, MappingAt, StrAt
<1>9. CASE 68 <= i /\ i <= 95
  BY <1>3, <1>9, MappingAt, StrAt
<1>10. CASE 96 <= i /\ i <= 125
  BY <1>4, <1>10, MappingAt, StrAt
<1>11. CASE 126 <= i /\ i <= 157
  BY <1>5, <1>11, MappingAt, StrAt
<1>12. CASE 158 <= i /\ i <= 162
  BY <1>6, <1>12, MappingAt, StrAt
<1> QED
  BY <1>7, <1>8, <1>9, <1>10, <1>11, <1>12

(* Every instruction of the enumeration has a row, and every row is for    *)
(* one of them.                                                            *)
LEMMA OpsAreEncoded == Ops = Encoded
<1> DEFINE Elements(s, n) == {s[i] : i \in {k \in Int : 1 <= k /\ k <= n}}
<1>1. Ops = Elements(Mapping_RV32I, 47) \cup Elements(Mapping_RV32MA, 19)
                \cup Elements(Mapping_RV64IMA, 28) \cup Elements(Mapping_F, 30)
                \cup Elements(Mapping_D, 32) \cup Elements(Mapping_Priv, 5)
  <2>1. Ops = {Mapping[i] : i \in {k \in Int : 2 <= k /\ k <= 162}}
    BY MappingAt DEF Ops
  <2>2. ASSUME NEW op \in Ops
        PROVE  op \in Elements(Mapping_RV32I, 47) \cup Elements(Mapping_RV32MA, 19)
                \cup Elements(Mapping_RV64IMA, 28) \cup Elements(Mapping_F, 30)
                \cup Elements(Mapping_D, 32) \cup Elements(Mapping_Priv, 5)
    <3>1. PICK i \in Int : 2 <= i /\ i <= 162 /\ op = Mapping[i]
      BY <2>1
    <3>2. CASE 2 <= i /\ i <= 48
      BY <3>1, <3>2, MappingAt
    <3>3. CASE 49 <= i /\ i <= 67
      BY <3>1, <3>3, MappingAt
    <3>4. CASE 68 <= i /\ i <= 95
      BY <3>1, <3>4, MappingAt
    <3>5. CASE 96 <= i /\ i <= 125
      BY <3>1, <3>5, MappingAt
    <3>6. CASE 126 <= i /\ i <= 157
      BY <3>1, <3>6, MappingAt
    <3>7. CASE 158 <= i /\ i <= 162
      BY <3>1, <3>7, MappingAt
    <3> QED
      BY <3>1, <3>2, <3>3, <3>4, <3>5, <3>6, <3>7
  <2>3. ASSUME NEW op \in Elements(Mapping_RV32I, 47) PROVE op \in Ops
    <3>1. PICK i \in Int : 1 <= i /\ i <= 47 /\ op = Mapping_RV32I[i]
      OBVIOUS
    <3>2. Mapping[i + 1] = Mapping_RV32I[i] /\ i + 1 \in Int /\ 2 <= i + 1 /\ i + 1 <= 162
      BY <3>1, MappingAt
    <3> QED
      BY <2>1, <3>1, <3>2
  <2>4. ASSUME NEW op \in Elements(Mapping_RV32MA, 19) PROVE op \in Ops
    <3>1. PICK i \in Int : 1 <= i /\ i <= 19 /\ op = Mapping_RV32MA[i]
      OBVIOUS
    <3>2. Mapping[i + 48] = Mapping_RV32MA[i] /\ i + 48 \in Int /\ 2 <= i + 48 /\ i + 48 <= 162
      BY <3>1, MappingAt
    <3> QED
      BY <2>1, <3>1, <3>2
  <2>5. ASSUME NEW op \in Elements(Mapping_RV64IMA, 28) PROVE op \in Ops
    <3>1. PICK i \in Int : 1 <= i /\ i <= 28 /\ op = Mapping_RV64IMA[i]
      OBVIOUS
    <3>2. Mapping[i + 67] = Mapping_RV64IMA[i] /\ i + 67 \in Int /\ 2 <= i + 67 /\ i + 67 <= 162
      BY <3>1, MappingAt
    <3> QED
      BY <2>1, <3>1, <3>2
  <2>6. ASSUME NEW op \in Elements(Mapping_F, 30) PROVE op \in Ops
    <3>1. PICK i \in Int : 1 <= i /\ i <= 30 /\ op = Mapping_F[i]
      OBVIOUS
    <3>2. Mapping[i + 95] = Mapping_F[i] /\ i + 95 \in Int /\ 2 <= i + 95 /\ i + 95 <= 162
      BY <3>1, MappingAt
    <3> QED
      BY <2>1, <3>1, <3>2
  <2>7. ASSUME NEW op \in Elements(Mapping_D, 32) PROVE op \in Ops
    <3>1. PICK i \in Int : 1 <= i /\ i <= 32 /\ op = Mapping_D[i]
      OBVIOUS
    <3>2. Mapping[i + 125] = Mapping_D[i] /\ i + 125 \in Int /\ 2 <= i + 125 /\ i + 125 <= 162
      BY <3>1, MappingAt
    <3> QED
      BY <2>1, <3>1, <3>2
  <2>8. ASSUME NEW op \in Elements(Mapping_Priv, 5) PROVE op \in Ops
    <3>1. PICK i \in Int : 1 <= i /\ i <= 5 /\ op = Mapping_Priv[i]
      OBVIOUS
    <3>2. Mapping[i + 157] = Mapping_Priv[i] /\ i + 157 \in Int /\ 2 <= i + 157 /\ i + 157 <= 162
      BY <3>1, MappingAt
    <3> QED
      BY <2>1, <3>1, <3>2
  <2> HIDE DEF Elements
  <2> QED
    BY <2>2, <2>3, <2>4, <2>5, <2>6, <2>7, <2>8
<1>2. Elements(Mapping_RV32I, 47) = DOMAIN ENC_RV32I \cup DOMAIN ENC_Shift_RV32
  BY DEF Mapping_RV32I, ENC_RV32I, ENC_Shift_RV32
<1>3. Elements(Mapping_RV32MA, 19) = DOMAIN ENC_RV32MA
  BY DEF Mapping_RV32MA, ENC_RV32MA
<1>4. Elements(Mapping_RV64IMA, 28) = DOMAIN ENC_RV64IMA
  BY DEF Mapping_RV64IMA, ENC_RV64IMA
<1>5. Elements(Mapping_F, 30) = DOMAIN ENC_F
  BY DEF Mapping_F, ENC_F
<1>6. Elements(Mapping_D, 32) = DOMAIN ENC_D
  BY DEF Mapping_D, ENC_D
<1>7. Elements(Mapping_Priv, 5) = DOMAIN ENC_Priv
  BY DEF Mapping_Priv, ENC_Priv
<1> HIDE DEF Elements
<1> QED
  BY <1>1, <1>2, <1>3, <1>4, <1>5, <1>6, <1>7 DEF Encoded
-----------------------------------------------------------------------------
(* decode_normal against the encoding table.                                 *)

LEMMA OPIs ==
    /\ OP.LUI = 55 /\ OP.AUIPC = 23 /\ OP.JAL = 111 /\ OP.JALR = 103 /\ OP.LB = 3 /\ OP.SB = 35
    /\ OP.BEQ = 99 /\ OP.ADDI = 19 /\ OP.ADD = 51 /\ OP.FENCE = 15 /\ OP.ECALL = 115
    /\ OP.AMO = 47 /\ OP.ADDIW = 27 /\ OP.ADDW = 59 /\ OP.FMADD_S = 67 /\ OP.FADD_S = 83
    /\ OP.FLW = 7 /\ OP.FSW = 39 /\ OP.FMSUB_S = 71 /\ OP.FNMSUB_S = 75 /\ OP.FNMADD_S = 79
  BY DEF OP

(* The switch that the major opcode of a word leads to. *)
LEMMA RouteAt ==
    ASSUME NEW w
    PROVE  /\ w.opcode = 55 => Route(w) = "LUI"
           /\ w.opcode = 23 => Route(w) = "AUIPC"
           /\ w.opcode = 111 => Route(w) = "JAL"
           /\ w.opcode = 103 => Route(w) = "JALR"
           /\ w.opcode = 99 => Route(w) = Switch(F3_BRANCH, w.funct3)
           /\ w.opcode = 3 => Route(w) = Switch(F3_LOAD, w.funct3)
           /\ w.opcode = 35 => Route(w) = Switch(F3_STORE, w.funct3)
           /\ w.opcode = 19 => Route(w) = IF w.funct3 = 5 THEN Switch(F6_SHIFT, funct6(w))
                                                          ELSE Switch(F3_IMM, w.funct3)
           /\ w.opcode = 27 => Route(w) = IF w.funct3 = 5 THEN Switch(F7_SHIFTW, w.funct7)
                                                          ELSE Switch(F3_IMMW, w.funct3)
           /\ w.opcode \in {51, 59} => Route(w) = RouteReg(w)
           /\ w.opcode = 15 => Route(w) = Switch(F3_FENCE, w.funct3)
           /\ w.opcode = 115 => Route(w) = RouteSystem(w)
           /\ w.opcode = 47 => Route(w) = RouteAmo(w)
           /\ w.opcode = 67 => Route(w) = Switch(F2_FMADD, funct2(w))
           /\ w.opcode = 71 => Route(w) = Switch(F2_FMSUB, funct2(w))
           /\ w.opcode = 75 => Route(w) = Switch(F2_FNMSUB, funct2(w))
           /\ w.opcode = 79 => Route(w) = Switch(F2_FNMADD, funct2(w))
           /\ w.opcode = 7 => Route(w) = Switch(F3_FLW, w.funct3)
           /\ w.opcode = 39 => Route(w) = Switch(F3_FSW, w.funct3)
           /\ w.opcode = 83 => Route(w) = RouteFp(w)
<1> USE OPIs
<1>1. w.opcode \in {55, 23, 111, 103, 99, 3, 35, 19, 27} => Route(w) = RouteBase(w)
  BY DEF Route
<1>2. w.opcode \in {7, 39, 71, 75, 79} => Route(w) = RouteFpMem(w)
  BY DEF Route
<1>3. /\ w.opcode \in {51, 59} => Route(w) = RouteReg(w)
      /\ w.opcode = 15 => Route(w) = Switch(F3_FENCE, w.funct3)
      /\ w.opcode = 115 => Route(w) = RouteSystem(w)
      /\ w.opcode = 47 => Route(w) = RouteAmo(w)
      /\ w.opcode = 67 => Route(w) = Switch(F2_FMADD, funct2(w))
      /\ w.opcode = 83 => Route(w) = RouteFp(w)
  BY DEF Route
<1>4. /\ w.opcode = 71 => RouteFpMem(w) = Switch(F2_FMSUB, funct2(w))
      /\ w.opcode = 75 => RouteFpMem(w) = Switch(F2_FNMSUB, funct2(w))
      /\ w.opcode = 79 => RouteFpMem(w) = Switch(F2_FNMADD, funct2(w))
      /\ w.opcode = 7 => RouteFpMem(w) = Switch(F3_FLW, w.funct3)
      /\ w.opcode = 39 => RouteFpMem(w) = Switch(F3_FSW, w.funct3)
  BY DEF RouteFpMem
<1>5. /\ w.opcode = 55 => RouteBase(w) = "LUI"
      /\ w.opcode = 23 => RouteBase(w) = "AUIPC"
      /\ w.opcode = 111 => RouteBase(w) = "JAL"
      /\ w.opcode = 103 => RouteBase(w) = "JALR"
      /\ w.opcode = 99 => RouteBase(w) = Switch(F3_BRANCH, w.funct3)
      /\ w.opcode = 3 => RouteBase(w) = Switch(F3_LOAD, w.funct3)
      /\ w.opcode = 35 => RouteBase(w) = Switch(F3_STORE, w.funct3)
  BY DEF RouteBase
<1>6. /\ w.opcode = 19 => RouteBase(w) = IF w.funct3 = 5 THEN Switch(F6_SHIFT, funct6(w))
                                                         ELSE Switch(F3_IMM, w.funct3)
      /\ w.opcode = 27 => RouteBase(w) = IF w.funct3 = 5 THEN Switch(F7_SHIFTW, w.funct7)
                                                         ELSE Switch(F3_IMMW, w.funct3)
  BY DEF RouteBase, F3_SRLI, F3_SRLIW
<1> QED
  BY <1>1, <1>2, <1>3, <1>4, <1>5, <1>6

(* A switch returns one of its cases, and the right one when no two of     *)
(* them have the same label.                                               *)
Unambiguous(table) == \A m, n \in DOMAIN table : table[m] = table[n] => m = n

LEMMA SwitchCase == ASSUME NEW table, NEW v PROVE Switch(table, v) \in DOMAIN table \cup {"UNDEF"}
  BY DEF Switch

LEMMA SwitchFinds ==
    ASSUME NEW table, Unambiguous(table), NEW n \in DOMAIN table, NEW v, table[n] = v
    PROVE  Switch(table, v) = n
  BY DEF Switch, Unambiguous

LEMMA TablesUnambiguous ==
    /\ Unambiguous(F3_BRANCH) /\ Unambiguous(F3_LOAD) /\ Unambiguous(F3_STORE)
    /\ Unambiguous(F3_IMM) /\ Unambiguous(F6_SHIFT) /\ Unambiguous(F3_IMMW)
    /\ Unambiguous(F7_SHIFTW) /\ Unambiguous(F3_ADD) /\ Unambiguous(F3_SUB)
    /\ Unambiguous(F3_MUL) /\ Unambiguous(F3_ADDW) /\ Unambiguous(F3_SUBW)
    /\ Unambiguous(F3_MULW) /\ Unambiguous(F3_FENCE) /\ Unambiguous(F12) /\ Unambiguous(F3_CSR)
    /\ Unambiguous(F5_AMO_W) /\ Unambiguous(F2_FMADD) /\ Unambiguous(F2_FMSUB)
    /\ Unambiguous(F2_FNMSUB) /\ Unambiguous(F2_FNMADD) /\ Unambiguous(F3_FLW)
    /\ Unambiguous(F3_FSW) /\ Unambiguous(F7_FP)
    /\ \A f7 \in DOMAIN F3_FP : Unambiguous(F3_FP[f7])
    /\ \A f7 \in DOMAIN RS2_FP : Unambiguous(RS2_FP[f7])
<1> USE DEF Unambiguous
<1>1. Unambiguous(F3_BRANCH) /\ Unambiguous(F3_LOAD) /\ Unambiguous(F3_STORE)
  BY DEF F3_BRANCH, F3_LOAD, F3_STORE
<1>2. Unambiguous(F3_IMM) /\ Unambiguous(F6_SHIFT) /\ Unambiguous(F3_IMMW) /\ Unambiguous(F7_SHIFTW)
  BY DEF F3_IMM, F6_SHIFT, F3_IMMW, F7_SHIFTW
<1>3. Unambiguous(F3_ADD)
  BY DEF F3_ADD
<1>4. Unambiguous(F3_SUB) /\ Unambiguous(F3_ADDW) /\ Unambiguous(F3_SUBW) /\ Unambiguous(F3_MULW)
  BY DEF F3_SUB, F3_ADDW, F3_SUBW, F3_MULW
<1>5. Unambiguous(F3_MUL)
  BY DEF F3_MUL
<1>6. Unambiguous(F3_FENCE) /\ Unambiguous(F12) /\ Unambiguous(F3_CSR)
  BY DEF F3_FENCE, F12, F3_CSR
<1>7. Unambiguous(F5_AMO_W)
  BY DEF F5_AMO_W
<1>8. Unambiguous(F2_FMADD) /\ Unambiguous(F2_FMSUB) /\ Unambiguous(F2_FNMSUB) /\ Unambiguous(F2_FNMADD)
  BY DEF F2_FMADD, F2_FMSUB, F2_FNMSUB, F2_FNMADD
<1>9. Unambiguous(F3_FLW) /\ Unambiguous(F3_FSW)
  BY DEF F3_FLW, F3_FSW
<1>10. Unambiguous(F7_FP)
  BY DEF F7_FP
<1>11. \A f7 \in DOMAIN F3_FP : Unambiguous(F3_FP[f7])
  BY DEF F3_FP
<1>12. \A f7 \in DOMAIN RS2_FP : Unambiguous(RS2_FP[f7])
  BY DEF RS2_FP
<1> HIDE DEF Unambiguous
<1> QED
  BY <1>1, <1>2, <1>3, <1>4, <1>5, <1>6, <1>7, <1>8, <1>9, <1>10, <1>11, <1>12

(* A row of the encoding table fixes field f of the word to v. *)
Demands(row, f, v) == f \in DOMAIN row /\ row[f] = v

LEMMA DemandMet ==
    ASSUME NEW w, NEW row, Matches(w, row), NEW f, NEW v, Demands(row, f, v)
    PROVE  Field(w, f) = v
  BY DEF Matches, Demands

LEMMA Fields ==
    ASSUME NEW w
    PROVE  /\ Field(w, "opcode") = w.opcode /\ Field(w, "funct3") = w.funct3
           /\ Field(w, "rs2") = w.rs2 /\ Field(w, "funct7") = w.funct7
           /\ Field(w, "funct2") = funct2(w) /\ Field(w, "funct5") = funct5(w)
           /\ Field(w, "funct6") = funct6(w)
  BY DEF Field
(* The demands of the rows, by the switch that finds the instruction. *)
LEMMA RowsBase ==
    ASSUME NEW a \in Arch
    PROVE  /\ \A op \in {"LUI", "AUIPC", "JAL", "JALR"} :
                  /\ Demands(Encoding[a][op], "opcode", OP[op])
           /\ \A op \in DOMAIN F3_BRANCH :
                  /\ Demands(Encoding[a][op], "opcode", 99)
                  /\ Demands(Encoding[a][op], "funct3", F3_BRANCH[op])
           /\ \A op \in DOMAIN F3_LOAD :
                  /\ Demands(Encoding[a][op], "opcode", 3)
                  /\ Demands(Encoding[a][op], "funct3", F3_LOAD[op])
           /\ \A op \in DOMAIN F3_STORE :
                  /\ Demands(Encoding[a][op], "opcode", 35)
                  /\ Demands(Encoding[a][op], "funct3", F3_STORE[op])
           /\ \A op \in DOMAIN F3_IMM :
                  /\ Demands(Encoding[a][op], "opcode", 19)
                  /\ Demands(Encoding[a][op], "funct3", F3_IMM[op])
           /\ \A op \in DOMAIN F3_IMMW :
                  /\ Demands(Encoding[a][op], "opcode", 27)
                  /\ Demands(Encoding[a][op], "funct3", F3_IMMW[op])
           /\ \A op \in DOMAIN F7_SHIFTW :
                  /\ Demands(Encoding[a][op], "opcode", 27)
                  /\ Demands(Encoding[a][op], "funct3", 5)
                  /\ Demands(Encoding[a][op], "funct7", F7_SHIFTW[op])
<1>1. \A op \in {"LUI", "AUIPC", "JAL", "JALR"} :
          /\ Demands(Encoding[a][op], "opcode", OP[op])
  BY Rows DEF Demands, ENC_RV32I, OP, Op, OpF3, OpF3F7, System
<1>2. \A op \in DOMAIN F3_BRANCH :
          /\ Demands(Encoding[a][op], "opcode", 99)
          /\ Demands(Encoding[a][op], "funct3", F3_BRANCH[op])
  BY Rows DEF Demands, ENC_RV32I, F3_BRANCH, Op, OpF3, OpF3F7, System
<1>3. \A op \in DOMAIN F3_LOAD :
          /\ Demands(Encoding[a][op], "opcode", 3)
          /\ Demands(Encoding[a][op], "funct3", F3_LOAD[op])
  BY Rows DEF Demands, ENC_RV32I, ENC_RV64IMA, F3_LOAD, Op, OpF3, OpF3F7, System, OpF3F5, OpF3Rs2F5
<1>4. \A op \in DOMAIN F3_STORE :
          /\ Demands(Encoding[a][op], "opcode", 35)
          /\ Demands(Encoding[a][op], "funct3", F3_STORE[op])
  BY Rows DEF Demands, ENC_RV32I, ENC_RV64IMA, F3_STORE, Op, OpF3, OpF3F7, System, OpF3F5, OpF3Rs2F5
<1>5. \A op \in DOMAIN F3_IMM :
          /\ Demands(Encoding[a][op], "opcode", 19)
          /\ Demands(Encoding[a][op], "funct3", F3_IMM[op])
  <2>1. \A op \in DOMAIN F3_IMM : op # "SLLI" =>
          /\ Demands(Encoding[a][op], "opcode", 19)
          /\ Demands(Encoding[a][op], "funct3", F3_IMM[op])
    BY Rows DEF Demands, ENC_RV32I, F3_IMM, OpF3
  <2>2. Encoding[a]["SLLI"] = OpF3F7(19, 1, 0) \/ Encoding[a]["SLLI"] = OpF3F6(19, 1, 0)
    BY Rows DEF ENC_Shift_RV32, ENC_Shift_RV64
  <2>3. Demands(Encoding[a]["SLLI"], "opcode", 19) /\ Demands(Encoding[a]["SLLI"], "funct3", 1)
    BY <2>2 DEF Demands, OpF3F7, OpF3F6
  <2> QED
    BY <2>1, <2>3 DEF F3_IMM
<1>6. \A op \in DOMAIN F3_IMMW :
          /\ Demands(Encoding[a][op], "opcode", 27)
          /\ Demands(Encoding[a][op], "funct3", F3_IMMW[op])
  BY Rows DEF Demands, ENC_RV64IMA, F3_IMMW, OpF3, OpF3F7, OpF3F5, OpF3Rs2F5
<1>7. \A op \in DOMAIN F7_SHIFTW :
          /\ Demands(Encoding[a][op], "opcode", 27)
          /\ Demands(Encoding[a][op], "funct3", 5)
          /\ Demands(Encoding[a][op], "funct7", F7_SHIFTW[op])
  BY Rows DEF Demands, ENC_RV64IMA, F7_SHIFTW, OpF3, OpF3F7, OpF3F5, OpF3Rs2F5
<1> QED
  BY <1>1, <1>2, <1>3, <1>4, <1>5, <1>6, <1>7

LEMMA RowsReg ==
    ASSUME NEW a \in Arch
    PROVE  /\ \A op \in DOMAIN F3_ADD :
                  /\ Demands(Encoding[a][op], "opcode", 51)
                  /\ Demands(Encoding[a][op], "funct3", F3_ADD[op])
                  /\ Demands(Encoding[a][op], "funct7", F7_ADD)
           /\ \A op \in DOMAIN F3_SUB :
                  /\ Demands(Encoding[a][op], "opcode", 51)
                  /\ Demands(Encoding[a][op], "funct3", F3_SUB[op])
                  /\ Demands(Encoding[a][op], "funct7", F7_SUB)
           /\ \A op \in DOMAIN F3_MUL :
                  /\ Demands(Encoding[a][op], "opcode", 51)
                  /\ Demands(Encoding[a][op], "funct3", F3_MUL[op])
                  /\ Demands(Encoding[a][op], "funct7", F7_MUL)
           /\ \A op \in DOMAIN F3_ADDW :
                  /\ Demands(Encoding[a][op], "opcode", 59)
                  /\ Demands(Encoding[a][op], "funct3", F3_ADDW[op])
                  /\ Demands(Encoding[a][op], "funct7", F7_ADD)
           /\ \A op \in DOMAIN F3_SUBW :
                  /\ Demands(Encoding[a][op], "opcode", 59)
                  /\ Demands(Encoding[a][op], "funct3", F3_SUBW[op])
                  /\ Demands(Encoding[a][op], "funct7", F7_SUB)
           /\ \A op \in DOMAIN F3_MULW :
                  /\ Demands(Encoding[a][op], "opcode", 59)
                  /\ Demands(Encoding[a][op], "funct3", F3_MULW[op])
                  /\ Demands(Encoding[a][op], "funct7", F7_MUL)
<1>1. \A op \in DOMAIN F3_ADD :
          /\ Demands(Encoding[a][op], "opcode", 51)
          /\ Demands(Encoding[a][op], "funct3", F3_ADD[op])
          /\ Demands(Encoding[a][op], "funct7", F7_ADD)
  BY Rows DEF Demands, ENC_RV32I, F3_ADD, F7_ADD, Op, OpF3, OpF3F7, System
<1>2. \A op \in DOMAIN F3_SUB :
          /\ Demands(Encoding[a][op], "opcode", 51)
          /\ Demands(Encoding[a][op], "funct3", F3_SUB[op])
          /\ Demands(Encoding[a][op], "funct7", F7_SUB)
  BY Rows DEF Demands, ENC_RV32I, F3_SUB, F7_SUB, Op, OpF3, OpF3F7, System
<1>3. \A op \in DOMAIN F3_MUL :
          /\ Demands(Encoding[a][op], "opcode", 51)
          /\ Demands(Encoding[a][op], "funct3", F3_MUL[op])
          /\ Demands(Encoding[a][op], "funct7", F7_MUL)
  BY Rows DEF Demands, ENC_RV32MA, F3_MUL, F7_MUL, OpF3F7, OpF3F5, OpF3Rs2F5
<1>4. \A op \in DOMAIN F3_ADDW :
          /\ Demands(Encoding[a][op], "opcode", 59)
          /\ Demands(Encoding[a][op], "funct3", F3_ADDW[op])
          /\ Demands(Encoding[a][op], "funct7", F7_ADD)
  BY Rows DEF Demands, ENC_RV64IMA, F3_ADDW, F7_ADD, OpF3, OpF3F7, OpF3F5, OpF3Rs2F5
<1>5. \A op \in DOMAIN F3_SUBW :
          /\ Demands(Encoding[a][op], "opcode", 59)
          /\ Demands(Encoding[a][op], "funct3", F3_SUBW[op])
          /\ Demands(Encoding[a][op], "funct7", F7_SUB)
  BY Rows DEF Demands, ENC_RV64IMA, F3_SUBW, F7_SUB, OpF3, OpF3F7, OpF3F5, OpF3Rs2F5
<1>6. \A op \in DOMAIN F3_MULW :
          /\ Demands(Encoding[a][op], "opcode", 59)
          /\ Demands(Encoding[a][op], "funct3", F3_MULW[op])
          /\ Demands(Encoding[a][op], "funct7", F7_MUL)
  BY Rows DEF Demands, ENC_RV64IMA, F3_MULW, F7_MUL, OpF3, OpF3F7, OpF3F5, OpF3Rs2F5
<1> QED
  BY <1>1, <1>2, <1>3, <1>4, <1>5, <1>6

LEMMA RowsSystem ==
    ASSUME NEW a \in Arch
    PROVE  /\ \A op \in DOMAIN F3_FENCE :
                  /\ Demands(Encoding[a][op], "opcode", 15)
                  /\ Demands(Encoding[a][op], "funct3", F3_FENCE[op])
           /\ \A op \in DOMAIN F3_CSR :
                  /\ Demands(Encoding[a][op], "opcode", 115)
                  /\ Demands(Encoding[a][op], "funct3", F3_CSR[op])
           /\ \A op \in DOMAIN F12 :
                  /\ Demands(Encoding[a][op], "opcode", 115)
                  /\ Demands(Encoding[a][op], "funct3", 0)
                  /\ Demands(Encoding[a][op], "rs2", F12[op] % 32)
                  /\ Demands(Encoding[a][op], "funct7", F12[op] \div 32)
           /\ \A op \in {"SFENCE_VMA"} :
                  /\ Demands(Encoding[a][op], "opcode", 115)
                  /\ Demands(Encoding[a][op], "funct3", 0)
                  /\ Demands(Encoding[a][op], "funct7", 9)
           /\ \A op \in DOMAIN F5_AMO_W :
                  /\ Demands(Encoding[a][op], "opcode", 47)
                  /\ Demands(Encoding[a][op], "funct3", 2)
                  /\ Demands(Encoding[a][op], "funct5", F5_AMO_W[op])
<1>1. \A op \in DOMAIN F3_FENCE :
          /\ Demands(Encoding[a][op], "opcode", 15)
          /\ Demands(Encoding[a][op], "funct3", F3_FENCE[op])
  BY Rows DEF Demands, ENC_RV32I, F3_FENCE, Op, OpF3, OpF3F7, System
<1>2. \A op \in DOMAIN F3_CSR :
          /\ Demands(Encoding[a][op], "opcode", 115)
          /\ Demands(Encoding[a][op], "funct3", F3_CSR[op])
  BY Rows DEF Demands, ENC_RV32I, F3_CSR, Op, OpF3, OpF3F7, System
<1>3. \A op \in DOMAIN F12 :
          /\ Demands(Encoding[a][op], "opcode", 115)
          /\ Demands(Encoding[a][op], "funct3", 0)
          /\ Demands(Encoding[a][op], "rs2", F12[op] % 32)
          /\ Demands(Encoding[a][op], "funct7", F12[op] \div 32)
  BY Rows DEF Demands, ENC_RV32I, ENC_Priv, F12, Op, OpF3, OpF3F7, System, SFence
<1>4. \A op \in {"SFENCE_VMA"} :
          /\ Demands(Encoding[a][op], "opcode", 115)
          /\ Demands(Encoding[a][op], "funct3", 0)
          /\ Demands(Encoding[a][op], "funct7", 9)
  BY Rows DEF Demands, ENC_Priv, System, SFence
<1>5. \A op \in DOMAIN F5_AMO_W :
          /\ Demands(Encoding[a][op], "opcode", 47)
          /\ Demands(Encoding[a][op], "funct3", 2)
          /\ Demands(Encoding[a][op], "funct5", F5_AMO_W[op])
  BY Rows DEF Demands, ENC_RV32MA, F5_AMO_W, OpF3F7, OpF3F5, OpF3Rs2F5
<1> QED
  BY <1>1, <1>2, <1>3, <1>4, <1>5

LEMMA RowsFp ==
    ASSUME NEW a \in Arch
    PROVE  /\ \A op \in DOMAIN F2_FMADD :
                  /\ Demands(Encoding[a][op], "opcode", 67)
                  /\ Demands(Encoding[a][op], "funct2", F2_FMADD[op])
           /\ \A op \in DOMAIN F2_FMSUB :
                  /\ Demands(Encoding[a][op], "opcode", 71)
                  /\ Demands(Encoding[a][op], "funct2", F2_FMSUB[op])
           /\ \A op \in DOMAIN F2_FNMSUB :
                  /\ Demands(Encoding[a][op], "opcode", 75)
                  /\ Demands(Encoding[a][op], "funct2", F2_FNMSUB[op])
           /\ \A op \in DOMAIN F2_FNMADD :
                  /\ Demands(Encoding[a][op], "opcode", 79)
                  /\ Demands(Encoding[a][op], "funct2", F2_FNMADD[op])
           /\ \A op \in DOMAIN F3_FLW :
                  /\ Demands(Encoding[a][op], "opcode", 7)
                  /\ Demands(Encoding[a][op], "funct3", F3_FLW[op])
           /\ \A op \in DOMAIN F3_FSW :
                  /\ Demands(Encoding[a][op], "opcode", 39)
                  /\ Demands(Encoding[a][op], "funct3", F3_FSW[op])
           /\ \A op \in DOMAIN F7_FP :
                  /\ Demands(Encoding[a][op], "opcode", 83)
                  /\ Demands(Encoding[a][op], "funct7", F7_FP[op])
<1>1. \A op \in DOMAIN F2_FMADD :
          /\ Demands(Encoding[a][op], "opcode", 67)
          /\ Demands(Encoding[a][op], "funct2", F2_FMADD[op])
  BY Rows DEF Demands, ENC_F, ENC_D, F2_FMADD, OpF3, OpF2, OpF7, OpRs2F7, OpF3F7, OpF3Rs2F7
<1>2. \A op \in DOMAIN F2_FMSUB :
          /\ Demands(Encoding[a][op], "opcode", 71)
          /\ Demands(Encoding[a][op], "funct2", F2_FMSUB[op])
  BY Rows DEF Demands, ENC_F, ENC_D, F2_FMSUB, OpF3, OpF2, OpF7, OpRs2F7, OpF3F7, OpF3Rs2F7
<1>3. \A op \in DOMAIN F2_FNMSUB :
          /\ Demands(Encoding[a][op], "opcode", 75)
          /\ Demands(Encoding[a][op], "funct2", F2_FNMSUB[op])
  BY Rows DEF Demands, ENC_F, ENC_D, F2_FNMSUB, OpF3, OpF2, OpF7, OpRs2F7, OpF3F7, OpF3Rs2F7
<1>4. \A op \in DOMAIN F2_FNMADD :
          /\ Demands(Encoding[a][op], "opcode", 79)
          /\ Demands(Encoding[a][op], "funct2", F2_FNMADD[op])
  BY Rows DEF Demands, ENC_F, ENC_D, F2_FNMADD, OpF3, OpF2, OpF7, OpRs2F7, OpF3F7, OpF3Rs2F7
<1>5. \A op \in DOMAIN F3_FLW :
          /\ Demands(Encoding[a][op], "opcode", 7)
          /\ Demands(Encoding[a][op], "funct3", F3_FLW[op])
  BY Rows DEF Demands, ENC_F, ENC_D, F3_FLW, OpF3, OpF2, OpF7, OpRs2F7, OpF3F7, OpF3Rs2F7
<1>6. \A op \in DOMAIN F3_FSW :
          /\ Demands(Encoding[a][op], "opcode", 39)
          /\ Demands(Encoding[a][op], "funct3", F3_FSW[op])
  BY Rows DEF Demands, ENC_F, ENC_D, F3_FSW, OpF3, OpF2, OpF7, OpRs2F7, OpF3F7, OpF3Rs2F7
<1>7. \A op \in DOMAIN F7_FP :
          /\ Demands(Encoding[a][op], "opcode", 83)
          /\ Demands(Encoding[a][op], "funct7", F7_FP[op])
  BY Rows DEF Demands, ENC_F, ENC_D, F7_FP, OpF3, OpF2, OpF7, OpRs2F7, OpF3F7, OpF3Rs2F7
<1> QED
  BY <1>1, <1>2, <1>3, <1>4, <1>5, <1>6, <1>7

(* The double word AMOs share the funct5 of the word AMOs. *)
LEMMA RowsAmoD ==
    ASSUME NEW a \in Arch, NEW n \in DOMAIN F5_AMO_W
    PROVE  /\ Demands(Encoding[a][AMO_D[n]], "opcode", 47)
           /\ Demands(Encoding[a][AMO_D[n]], "funct3", 3)
           /\ Demands(Encoding[a][AMO_D[n]], "funct5", F5_AMO_W[n])
  BY Rows DEF Demands, ENC_RV64IMA, F5_AMO_W, AMO_D, OpF3, OpF3F7, OpF3F5, OpF3Rs2F5

LEMMA RowsShift ==
    ASSUME NEW a \in Arch, NEW op \in DOMAIN F6_SHIFT
    PROVE  /\ Demands(Encoding[a][op], "opcode", 19)
           /\ Demands(Encoding[a][op], "funct3", 5)
           /\ a = "RV32" => Demands(Encoding[a][op], "funct7", 2 * F6_SHIFT[op])
           /\ a = "RV64" => Demands(Encoding[a][op], "funct6", F6_SHIFT[op])
  BY Rows DEF Demands, ENC_Shift_RV32, ENC_Shift_RV64, F6_SHIFT, OpF3F6, OpF3F7, Arch

LEMMA RowsFp3 ==
    ASSUME NEW a \in Arch, NEW f7 \in DOMAIN F3_FP, NEW op \in DOMAIN F3_FP[f7]
    PROVE  /\ Demands(Encoding[a][op], "opcode", 83)
           /\ Demands(Encoding[a][op], "funct7", f7)
           /\ Demands(Encoding[a][op], "funct3", F3_FP[f7][op])
<1> DEFINE Good(g) == \A o \in DOMAIN F3_FP[g] :
                          /\ Demands(Encoding[a][o], "opcode", 83)
                          /\ Demands(Encoding[a][o], "funct7", g)
                          /\ Demands(Encoding[a][o], "funct3", F3_FP[g][o])
<1>1. Good(16)
  BY Rows DEF Demands, F3_FP, ENC_F, OpF3F7
<1>2. Good(17)
  BY Rows DEF Demands, F3_FP, ENC_D, OpF3F7
<1>3. Good(20)
  BY Rows DEF Demands, F3_FP, ENC_F, OpF3F7
<1>4. Good(21)
  BY Rows DEF Demands, F3_FP, ENC_D, OpF3F7
<1>5. Good(80)
  BY Rows DEF Demands, F3_FP, ENC_F, OpF3F7
<1>6. Good(81)
  BY Rows DEF Demands, F3_FP, ENC_D, OpF3F7
<1>7. Good(112)
  BY Rows DEF Demands, F3_FP, ENC_F, OpF3Rs2F7
<1>8. Good(113)
  BY Rows DEF Demands, F3_FP, ENC_D, OpF3Rs2F7
<1> HIDE DEF Good
<1>9. Good(f7)
  BY <1>1, <1>2, <1>3, <1>4, <1>5, <1>6, <1>7, <1>8 DEF F3_FP
<1> QED
  BY <1>9 DEF Good

LEMMA RowsFpRs2 ==
    ASSUME NEW a \in Arch, NEW f7 \in DOMAIN RS2_FP, NEW op \in DOMAIN RS2_FP[f7]
    PROVE  /\ Demands(Encoding[a][op], "opcode", 83)
           /\ Demands(Encoding[a][op], "funct7", f7)
           /\ Demands(Encoding[a][op], "rs2", RS2_FP[f7][op])
  BY Rows DEF Demands, ENC_F, ENC_D, RS2_FP, OpF3, OpF2, OpF7, OpRs2F7, OpF3F7, OpF3Rs2F7
(* The instructions, by the switch that finds them. *)
FoundFp3 == UNION {DOMAIN F3_FP[f7] : f7 \in DOMAIN F3_FP}
FoundFpRs2 == UNION {DOMAIN RS2_FP[f7] : f7 \in DOMAIN RS2_FP}
Found ==
    {"LUI", "AUIPC", "JAL", "JALR", "SFENCE_VMA"} \cup DOMAIN F3_BRANCH \cup DOMAIN F3_LOAD
        \cup DOMAIN F3_STORE \cup DOMAIN F3_IMM \cup DOMAIN F6_SHIFT \cup DOMAIN F3_IMMW
        \cup DOMAIN F7_SHIFTW \cup DOMAIN F3_ADD \cup DOMAIN F3_SUB \cup DOMAIN F3_MUL
        \cup DOMAIN F3_ADDW \cup DOMAIN F3_SUBW \cup DOMAIN F3_MULW \cup DOMAIN F3_FENCE
        \cup DOMAIN F3_CSR \cup DOMAIN F12 \cup DOMAIN F5_AMO_W
        \cup {AMO_D[n] : n \in DOMAIN F5_AMO_W} \cup DOMAIN F2_FMADD \cup DOMAIN F2_FMSUB
        \cup DOMAIN F2_FNMSUB \cup DOMAIN F2_FNMADD \cup DOMAIN F3_FLW \cup DOMAIN F3_FSW
        \cup DOMAIN F7_FP \cup FoundFp3 \cup FoundFpRs2

LEMMA EncodedIsFound == Encoded = Found
<1>1. DOMAIN ENC_RV32I \cup DOMAIN ENC_Shift_RV32 \cup DOMAIN ENC_Priv \cup DOMAIN ENC_RV32MA \subseteq Found
  <2>1. DOMAIN ENC_RV32I \cup DOMAIN ENC_Shift_RV32 \cup DOMAIN ENC_Priv \cup DOMAIN ENC_RV32MA
          \subseteq {"LUI", "AUIPC", "JAL", "JALR", "SFENCE_VMA"} \cup DOMAIN F3_BRANCH
              \cup DOMAIN F3_LOAD \cup DOMAIN F3_STORE \cup DOMAIN F3_IMM \cup DOMAIN F6_SHIFT
              \cup DOMAIN F3_ADD \cup DOMAIN F3_SUB \cup DOMAIN F3_MUL \cup DOMAIN F3_FENCE
              \cup DOMAIN F3_CSR \cup DOMAIN F12 \cup DOMAIN F5_AMO_W
    BY DEF ENC_RV32I, ENC_Shift_RV32, ENC_Priv, ENC_RV32MA, F3_BRANCH, F3_LOAD, F3_STORE, F3_IMM,
           F6_SHIFT, F3_ADD, F3_SUB, F3_MUL, F3_FENCE, F3_CSR, F12, F5_AMO_W
  <2> QED
    BY <2>1 DEF Found
<1>2. DOMAIN ENC_RV64IMA \subseteq Found
  <2>1. DOMAIN ENC_RV64IMA \subseteq
          DOMAIN F3_LOAD \cup DOMAIN F3_STORE \cup DOMAIN F3_IMMW \cup DOMAIN F7_SHIFTW
              \cup DOMAIN F3_ADDW \cup DOMAIN F3_SUBW \cup DOMAIN F3_MULW
              \cup {AMO_D[n] : n \in DOMAIN F5_AMO_W}
    BY DEF ENC_RV64IMA, F3_LOAD, F3_STORE, F3_IMMW, F7_SHIFTW, F3_ADDW, F3_SUBW, F3_MULW, AMO_D,
           F5_AMO_W
  <2> QED
    BY <2>1 DEF Found
<1>3. DOMAIN ENC_F \cup DOMAIN ENC_D \subseteq Found
  <2>1. ASSUME NEW op \in DOMAIN ENC_F \cup DOMAIN ENC_D
        PROVE  \/ op \in DOMAIN F2_FMADD \cup DOMAIN F2_FMSUB \cup DOMAIN F2_FNMSUB
                        \cup DOMAIN F2_FNMADD \cup DOMAIN F3_FLW \cup DOMAIN F3_FSW \cup DOMAIN F7_FP
               \/ op \in {"FSGNJ_S", "FSGNJN_S", "FSGNJX_S", "FMIN_S", "FMAX_S", "FEQ_S", "FLT_S",
                         "FLE_S", "FMV_X_W", "FCLASS_S", "FSGNJ_D", "FSGNJN_D", "FSGNJX_D",
                         "FMIN_D", "FMAX_D", "FEQ_D", "FLT_D", "FLE_D", "FMV_X_D", "FCLASS_D"}
               \/ op \in {"FCVT_W_S", "FCVT_WU_S", "FCVT_L_S", "FCVT_LU_S", "FCVT_S_W",
                         "FCVT_S_WU", "FCVT_S_L", "FCVT_S_LU", "FCVT_W_D", "FCVT_WU_D",
                         "FCVT_L_D", "FCVT_LU_D", "FCVT_D_W", "FCVT_D_WU", "FCVT_D_L",
                         "FCVT_D_LU"}
    BY DEF ENC_F, ENC_D, F2_FMADD, F2_FMSUB, F2_FNMSUB, F2_FNMADD, F3_FLW, F3_FSW, F7_FP
  <2>2. {"FSGNJ_S", "FSGNJN_S", "FSGNJX_S", "FMIN_S", "FMAX_S", "FEQ_S", "FLT_S",
         "FLE_S", "FMV_X_W", "FCLASS_S", "FSGNJ_D", "FSGNJN_D", "FSGNJX_D",
         "FMIN_D", "FMAX_D", "FEQ_D", "FLT_D", "FLE_D", "FMV_X_D", "FCLASS_D"} \subseteq FoundFp3
    <3>1. /\ {"FSGNJ_S", "FSGNJN_S", "FSGNJX_S"} \subseteq DOMAIN F3_FP[16] /\ 16 \in DOMAIN F3_FP
          /\ {"FSGNJ_D", "FSGNJN_D", "FSGNJX_D"} \subseteq DOMAIN F3_FP[17] /\ 17 \in DOMAIN F3_FP
          /\ {"FMIN_S", "FMAX_S"} \subseteq DOMAIN F3_FP[20] /\ 20 \in DOMAIN F3_FP
          /\ {"FMIN_D", "FMAX_D"} \subseteq DOMAIN F3_FP[21] /\ 21 \in DOMAIN F3_FP
      BY DEF F3_FP
    <3>2. /\ {"FEQ_S", "FLT_S", "FLE_S"} \subseteq DOMAIN F3_FP[80] /\ 80 \in DOMAIN F3_FP
          /\ {"FEQ_D", "FLT_D", "FLE_D"} \subseteq DOMAIN F3_FP[81] /\ 81 \in DOMAIN F3_FP
          /\ {"FMV_X_W", "FCLASS_S"} \subseteq DOMAIN F3_FP[112] /\ 112 \in DOMAIN F3_FP
          /\ {"FMV_X_D", "FCLASS_D"} \subseteq DOMAIN F3_FP[113] /\ 113 \in DOMAIN F3_FP
      BY DEF F3_FP
    <3>3. \A f7 \in DOMAIN F3_FP : DOMAIN F3_FP[f7] \subseteq FoundFp3
      BY DEF FoundFp3
    <3> QED
      BY <3>1, <3>2, <3>3
  <2>3. {"FCVT_W_S", "FCVT_WU_S", "FCVT_L_S", "FCVT_LU_S", "FCVT_S_W",
         "FCVT_S_WU", "FCVT_S_L", "FCVT_S_LU", "FCVT_W_D", "FCVT_WU_D",
         "FCVT_L_D", "FCVT_LU_D", "FCVT_D_W", "FCVT_D_WU", "FCVT_D_L", "FCVT_D_LU"} \subseteq FoundFpRs2
    <3>1. /\ {"FCVT_W_S", "FCVT_WU_S", "FCVT_L_S", "FCVT_LU_S"} \subseteq DOMAIN RS2_FP[96]
          /\ {"FCVT_W_D", "FCVT_WU_D", "FCVT_L_D", "FCVT_LU_D"} \subseteq DOMAIN RS2_FP[97]
          /\ {"FCVT_S_W", "FCVT_S_WU", "FCVT_S_L", "FCVT_S_LU"} \subseteq DOMAIN RS2_FP[104]
          /\ {"FCVT_D_W", "FCVT_D_WU", "FCVT_D_L", "FCVT_D_LU"} \subseteq DOMAIN RS2_FP[105]
          /\ {96, 97, 104, 105} \subseteq DOMAIN RS2_FP
      BY DEF RS2_FP
    <3>2. \A f7 \in DOMAIN RS2_FP : DOMAIN RS2_FP[f7] \subseteq FoundFpRs2
      BY DEF FoundFpRs2
    <3> QED
      BY <3>1, <3>2
  <2> QED
    BY <2>1, <2>2, <2>3 DEF Found
<1>4. {"LUI", "AUIPC", "JAL", "JALR", "SFENCE_VMA"} \cup DOMAIN F3_BRANCH \cup DOMAIN F3_IMM
          \cup DOMAIN F6_SHIFT \cup DOMAIN F3_ADD \cup DOMAIN F3_SUB \cup DOMAIN F3_MUL
          \cup DOMAIN F3_FENCE \cup DOMAIN F3_CSR \cup DOMAIN F12 \cup DOMAIN F5_AMO_W
          \subseteq DOMAIN ENC_RV32I \cup DOMAIN ENC_Shift_RV32 \cup DOMAIN ENC_Priv
                        \cup DOMAIN ENC_RV32MA
  BY DEF ENC_RV32I, ENC_Shift_RV32, ENC_Priv, ENC_RV32MA, F3_BRANCH, F3_IMM, F6_SHIFT, F3_ADD,
         F3_SUB, F3_MUL, F3_FENCE, F3_CSR, F12, F5_AMO_W
<1>5. DOMAIN F3_LOAD \cup DOMAIN F3_STORE \cup DOMAIN F3_IMMW \cup DOMAIN F7_SHIFTW
          \cup DOMAIN F3_ADDW \cup DOMAIN F3_SUBW \cup DOMAIN F3_MULW
          \cup {AMO_D[n] : n \in DOMAIN F5_AMO_W}
          \subseteq DOMAIN ENC_RV32I \cup DOMAIN ENC_RV64IMA
  BY DEF ENC_RV32I, ENC_RV64IMA, F3_LOAD, F3_STORE, F3_IMMW, F7_SHIFTW, F3_ADDW, F3_SUBW,
         F3_MULW, AMO_D, F5_AMO_W
<1>6. DOMAIN F2_FMADD \cup DOMAIN F2_FMSUB \cup DOMAIN F2_FNMSUB \cup DOMAIN F2_FNMADD
          \cup DOMAIN F3_FLW \cup DOMAIN F3_FSW \cup DOMAIN F7_FP
          \subseteq DOMAIN ENC_F \cup DOMAIN ENC_D
  BY DEF ENC_F, ENC_D, F2_FMADD, F2_FMSUB, F2_FNMSUB, F2_FNMADD, F3_FLW, F3_FSW, F7_FP
<1>7. FoundFp3 \subseteq DOMAIN ENC_F \cup DOMAIN ENC_D
  BY DEF FoundFp3, ENC_F, ENC_D, F3_FP
<1>8. FoundFpRs2 \subseteq DOMAIN ENC_F \cup DOMAIN ENC_D
  BY DEF FoundFpRs2, ENC_F, ENC_D, RS2_FP
<1>9. Encoded \subseteq Found
  BY <1>1, <1>2, <1>3 DEF Encoded
<1>10. Found \subseteq Encoded
  BY <1>4, <1>5, <1>6, <1>7, <1>8 DEF Encoded, Found
<1> QED
  BY <1>9, <1>10

(* No path through the switches loses an instruction: the word that a mask *)
(* matches is routed to the instruction of that mask.                      *)
LEMMA RouteComplete ==
    ASSUME NEW w \in Words, NEW a \in Arch, NEW op \in Encoded, Matches(w, Encoding[a][op])
    PROVE  Route(w) = op
<1>0. /\ \A f, v : Demands(Encoding[a][op], f, v) => Field(w, f) = v
      /\ Field(w, "opcode") = w.opcode /\ Field(w, "funct3") = w.funct3
      /\ Field(w, "rs2") = w.rs2 /\ Field(w, "funct7") = w.funct7
      /\ Field(w, "funct2") = funct2(w) /\ Field(w, "funct5") = funct5(w)
      /\ Field(w, "funct6") = funct6(w)
  BY DemandMet, Fields
<1>1. CASE op \in {"LUI", "AUIPC", "JAL", "JALR"}
  <2>1. w.opcode = OP[op]
    BY <1>0, <1>1, RowsBase
  <2> QED
    BY <1>1, <2>1, RouteAt DEF OP
<1>2. CASE op \in DOMAIN F3_BRANCH
  <2>1. w.opcode = 99 /\ w.funct3 = F3_BRANCH[op]
    BY <1>0, <1>2, RowsBase
  <2> QED
    BY <1>2, <2>1, RouteAt, SwitchFinds, TablesUnambiguous
<1>3. CASE op \in DOMAIN F3_LOAD
  <2>1. w.opcode = 3 /\ w.funct3 = F3_LOAD[op]
    BY <1>0, <1>3, RowsBase
  <2> QED
    BY <1>3, <2>1, RouteAt, SwitchFinds, TablesUnambiguous
<1>4. CASE op \in DOMAIN F3_STORE
  <2>1. w.opcode = 35 /\ w.funct3 = F3_STORE[op]
    BY <1>0, <1>4, RowsBase
  <2> QED
    BY <1>4, <2>1, RouteAt, SwitchFinds, TablesUnambiguous
<1>5. CASE op \in DOMAIN F3_IMM
  <2>1. w.opcode = 19 /\ w.funct3 = F3_IMM[op] /\ F3_IMM[op] # 5
    BY <1>0, <1>5, RowsBase DEF F3_IMM
  <2> QED
    BY <1>5, <2>1, RouteAt, SwitchFinds, TablesUnambiguous
<1>6. CASE op \in DOMAIN F6_SHIFT
  <2>1. w.opcode = 19 /\ w.funct3 = 5 /\ funct6(w) = F6_SHIFT[op]
    BY <1>0, <1>6, RowsShift DEF F6_SHIFT, funct6, Arch
  <2> QED
    BY <1>6, <2>1, RouteAt, SwitchFinds, TablesUnambiguous
<1>7. CASE op \in DOMAIN F3_IMMW
  <2>1. w.opcode = 27 /\ w.funct3 = F3_IMMW[op] /\ F3_IMMW[op] # 5
    BY <1>0, <1>7, RowsBase DEF F3_IMMW
  <2> QED
    BY <1>7, <2>1, RouteAt, SwitchFinds, TablesUnambiguous
<1>8. CASE op \in DOMAIN F7_SHIFTW
  <2>1. w.opcode = 27 /\ w.funct3 = 5 /\ w.funct7 = F7_SHIFTW[op]
    BY <1>0, <1>8, RowsBase
  <2> QED
    BY <1>8, <2>1, RouteAt, SwitchFinds, TablesUnambiguous
<1>9. CASE op \in DOMAIN F3_ADD
  <2>1. w.opcode = 51 /\ w.funct3 = F3_ADD[op] /\ w.funct7 = F7_ADD
    BY <1>0, <1>9, RowsReg
  <2>2. RouteReg(w) = Switch(F3_ADD, w.funct3)
    BY <2>1, OPIs DEF RouteReg, F7_ADD, F7_SUB, F7_MUL
  <2> QED
    BY <1>9, <2>1, <2>2, RouteAt, SwitchFinds, TablesUnambiguous
<1>10. CASE op \in DOMAIN F3_SUB
  <2>1. w.opcode = 51 /\ w.funct3 = F3_SUB[op] /\ w.funct7 = F7_SUB
    BY <1>0, <1>10, RowsReg
  <2>2. RouteReg(w) = Switch(F3_SUB, w.funct3)
    BY <2>1, OPIs DEF RouteReg, F7_ADD, F7_SUB, F7_MUL
  <2> QED
    BY <1>10, <2>1, <2>2, RouteAt, SwitchFinds, TablesUnambiguous
<1>11. CASE op \in DOMAIN F3_MUL
  <2>1. w.opcode = 51 /\ w.funct3 = F3_MUL[op] /\ w.funct7 = F7_MUL
    BY <1>0, <1>11, RowsReg
  <2>2. RouteReg(w) = Switch(F3_MUL, w.funct3)
    BY <2>1, OPIs DEF RouteReg, F7_ADD, F7_SUB, F7_MUL
  <2> QED
    BY <1>11, <2>1, <2>2, RouteAt, SwitchFinds, TablesUnambiguous
<1>12. CASE op \in DOMAIN F3_ADDW
  <2>1. w.opcode = 59 /\ w.funct3 = F3_ADDW[op] /\ w.funct7 = F7_ADD
    BY <1>0, <1>12, RowsReg
  <2>2. RouteReg(w) = Switch(F3_ADDW, w.funct3)
    BY <2>1, OPIs DEF RouteReg, F7_ADD, F7_SUB, F7_MUL
  <2> QED
    BY <1>12, <2>1, <2>2, RouteAt, SwitchFinds, TablesUnambiguous
<1>13. CASE op \in DOMAIN F3_SUBW
  <2>1. w.opcode = 59 /\ w.funct3 = F3_SUBW[op] /\ w.funct7 = F7_SUB
    BY <1>0, <1>13, RowsReg
  <2>2. RouteReg(w) = Switch(F3_SUBW, w.funct3)
    BY <2>1, OPIs DEF RouteReg, F7_ADD, F7_SUB, F7_MUL
  <2> QED
    BY <1>13, <2>1, <2>2, RouteAt, SwitchFinds, TablesUnambiguous
<1>14. CASE op \in DOMAIN F3_MULW
  <2>1. w.opcode = 59 /\ w.funct3 = F3_MULW[op] /\ w.funct7 = F7_MUL
    BY <1>0, <1>14, RowsReg
  <2>2. RouteReg(w) = Switch(F3_MULW, w.funct3)
    BY <2>1, OPIs DEF RouteReg, F7_ADD, F7_SUB, F7_MUL
  <2> QED
    BY <1>14, <2>1, <2>2, RouteAt, SwitchFinds, TablesUnambiguous
<1>15. CASE op \in DOMAIN F3_FENCE
  <2>1. w.opcode = 15 /\ w.funct3 = F3_FENCE[op]
    BY <1>0, <1>15, RowsSystem
  <2> QED
    BY <1>15, <2>1, RouteAt, SwitchFinds, TablesUnambiguous
<1>16. CASE op \in DOMAIN F3_CSR
  <2>1. w.opcode = 115 /\ w.funct3 = F3_CSR[op] /\ F3_CSR[op] # 0
    BY <1>0, <1>16, RowsSystem DEF F3_CSR
  <2>2. RouteSystem(w) = Switch(F3_CSR, w.funct3)
    BY <2>1 DEF RouteSystem, F3_SYS
  <2> QED
    BY <1>16, <2>1, <2>2, RouteAt, SwitchFinds, TablesUnambiguous
<1>17. CASE op \in DOMAIN F12
  <2>1. w.opcode = 115 /\ w.funct3 = 0 /\ w.rs2 = F12[op] % 32 /\ w.funct7 = F12[op] \div 32
    BY <1>0, <1>17, RowsSystem
  <2>2. funct12(w) = F12[op]
    BY <1>17, <2>1 DEF funct12, F12
  <2>3. RouteSystem(w) = Switch(F12, funct12(w))
    BY <1>17, <2>1, <2>2 DEF RouteSystem, F3_SYS
  <2> QED
    BY <1>17, <2>1, <2>2, <2>3, RouteAt, SwitchFinds, TablesUnambiguous
<1>18. CASE op = "SFENCE_VMA"
  <2>1. w.opcode = 115 /\ w.funct3 = 0 /\ w.funct7 = 9
    BY <1>0, <1>18, RowsSystem
  <2>2. \A n \in DOMAIN F12 : F12[n] # funct12(w)
    BY <2>1 DEF funct12, F12, Words
  <2> QED
    BY <1>18, <2>1, <2>2, RouteAt DEF RouteSystem, F3_SYS
<1>19. CASE op \in DOMAIN F5_AMO_W
  <2>1. w.opcode = 47 /\ w.funct3 = 2 /\ funct5(w) = F5_AMO_W[op]
    BY <1>0, <1>19, RowsSystem
  <2>2. Switch(F5_AMO_W, funct5(w)) = op
    BY <1>19, <2>1, SwitchFinds, TablesUnambiguous
  <2> QED
    BY <2>1, <2>2, RouteAt DEF RouteAmo, F3_AMO_D
<1>20. CASE op \in {AMO_D[m] : m \in DOMAIN F5_AMO_W}
  <2>0. PICK m \in DOMAIN F5_AMO_W : op = AMO_D[m]
    BY <1>20
  <2>1. w.opcode = 47 /\ w.funct3 = 3 /\ funct5(w) = F5_AMO_W[m]
    BY <1>0, <2>0, RowsAmoD
  <2>2. Switch(F5_AMO_W, funct5(w)) = m /\ m # "UNDEF"
    <3>1. m # "UNDEF"
      BY DEF F5_AMO_W
    <3> QED
      BY <3>1, <2>1, SwitchFinds, TablesUnambiguous
  <2> QED
    BY <2>0, <2>1, <2>2, RouteAt DEF RouteAmo, F3_AMO_D
<1>21. CASE op \in DOMAIN F2_FMADD
  <2>1. w.opcode = 67 /\ funct2(w) = F2_FMADD[op]
    BY <1>0, <1>21, RowsFp
  <2> QED
    BY <1>21, <2>1, RouteAt, SwitchFinds, TablesUnambiguous
<1>22. CASE op \in DOMAIN F2_FMSUB
  <2>1. w.opcode = 71 /\ funct2(w) = F2_FMSUB[op]
    BY <1>0, <1>22, RowsFp
  <2> QED
    BY <1>22, <2>1, RouteAt, SwitchFinds, TablesUnambiguous
<1>23. CASE op \in DOMAIN F2_FNMSUB
  <2>1. w.opcode = 75 /\ funct2(w) = F2_FNMSUB[op]
    BY <1>0, <1>23, RowsFp
  <2> QED
    BY <1>23, <2>1, RouteAt, SwitchFinds, TablesUnambiguous
<1>24. CASE op \in DOMAIN F2_FNMADD
  <2>1. w.opcode = 79 /\ funct2(w) = F2_FNMADD[op]
    BY <1>0, <1>24, RowsFp
  <2> QED
    BY <1>24, <2>1, RouteAt, SwitchFinds, TablesUnambiguous
<1>25. CASE op \in DOMAIN F3_FLW
  <2>1. w.opcode = 7 /\ w.funct3 = F3_FLW[op]
    BY <1>0, <1>25, RowsFp
  <2> QED
    BY <1>25, <2>1, RouteAt, SwitchFinds, TablesUnambiguous
<1>26. CASE op \in DOMAIN F3_FSW
  <2>1. w.opcode = 39 /\ w.funct3 = F3_FSW[op]
    BY <1>0, <1>26, RowsFp
  <2> QED
    BY <1>26, <2>1, RouteAt, SwitchFinds, TablesUnambiguous
<1>27. CASE op \in DOMAIN F7_FP
  <2>1. w.opcode = 83 /\ w.funct7 = F7_FP[op]
    BY <1>0, <1>27, RowsFp
  <2>2. w.funct7 \notin DOMAIN F3_FP /\ w.funct7 \notin DOMAIN RS2_FP
    <3>1. F7_FP[op] \in {0, 1, 4, 5, 33, 8, 9, 12, 13, 32, 44, 45, 120, 121}
      BY <1>27 DEF F7_FP
    <3> QED
      BY <2>1, <3>1 DEF F3_FP, RS2_FP
  <2>3. RouteFp(w) = Switch(F7_FP, w.funct7)
    BY <2>2 DEF RouteFp
  <2> QED
    BY <1>27, <2>1, <2>3, RouteAt, SwitchFinds, TablesUnambiguous
<1>28. CASE op \in FoundFp3
  <2>0. PICK f7 \in DOMAIN F3_FP : op \in DOMAIN F3_FP[f7]
    BY <1>28 DEF FoundFp3
  <2>1. w.opcode = 83 /\ w.funct7 = f7 /\ w.funct3 = F3_FP[f7][op]
    BY <1>0, <2>0, RowsFp3
  <2>2. f7 \notin DOMAIN RS2_FP
    BY DEF F3_FP, RS2_FP
  <2>3. RouteFp(w) = Switch(F3_FP[f7], w.funct3)
    BY <2>1, <2>2 DEF RouteFp
  <2> QED
    BY <2>0, <2>1, <2>3, RouteAt, SwitchFinds, TablesUnambiguous
<1>29. CASE op \in FoundFpRs2
  <2>0. PICK f7 \in DOMAIN RS2_FP : op \in DOMAIN RS2_FP[f7]
    BY <1>29 DEF FoundFpRs2
  <2>1. w.opcode = 83 /\ w.funct7 = f7 /\ w.rs2 = RS2_FP[f7][op]
    BY <1>0, <2>0, RowsFpRs2
  <2>2. f7 \notin DOMAIN F3_FP
    BY DEF F3_FP, RS2_FP
  <2>3. RouteFp(w) = Switch(RS2_FP[f7], w.rs2)
    BY <2>1, <2>2 DEF RouteFp
  <2> QED
    BY <2>0, <2>1, <2>3, RouteAt, SwitchFinds, TablesUnambiguous
<1>30. op \in Found
  BY EncodedIsFound
<1> QED
  BY <1>30, <1>1, <1>2, <1>3, <1>4, <1>5, <1>6, <1>7, <1>8, <1>9, <1>10, <1>11, <1>12, <1>13, <1>14,
     <1>15, <1>16, <1>17, <1>18, <1>19, <1>20, <1>21, <1>22, <1>23, <1>24, <1>25, <1>26, <1>27,
     <1>28, <1>29 DEF Found
(* The switches lead nowhere else. *)
LEMMA RouteFound == ASSUME NEW w PROVE Route(w) \in Found \cup {"UNDEF"}
<1>0. /\ \A v : /\ Switch(F3_BRANCH, v) \in Found \cup {"UNDEF"}
                /\ Switch(F3_LOAD, v) \in Found \cup {"UNDEF"}
                /\ Switch(F3_STORE, v) \in Found \cup {"UNDEF"}
                /\ Switch(F3_IMM, v) \in Found \cup {"UNDEF"}
                /\ Switch(F6_SHIFT, v) \in Found \cup {"UNDEF"}
                /\ Switch(F3_IMMW, v) \in Found \cup {"UNDEF"}
                /\ Switch(F7_SHIFTW, v) \in Found \cup {"UNDEF"}
      /\ \A v : /\ Switch(F3_ADD, v) \in Found \cup {"UNDEF"}
                /\ Switch(F3_SUB, v) \in Found \cup {"UNDEF"}
                /\ Switch(F3_MUL, v) \in Found \cup {"UNDEF"}
                /\ Switch(F3_ADDW, v) \in Found \cup {"UNDEF"}
                /\ Switch(F3_SUBW, v) \in Found \cup {"UNDEF"}
                /\ Switch(F3_MULW, v) \in Found \cup {"UNDEF"}
      /\ \A v : /\ Switch(F3_FENCE, v) \in Found \cup {"UNDEF"}
                /\ Switch(F3_CSR, v) \in Found \cup {"UNDEF"}
                /\ Switch(F12, v) \in Found \cup {"UNDEF"}
      /\ \A v : /\ Switch(F2_FMADD, v) \in Found \cup {"UNDEF"}
                /\ Switch(F2_FMSUB, v) \in Found \cup {"UNDEF"}
                /\ Switch(F2_FNMSUB, v) \in Found \cup {"UNDEF"}
                /\ Switch(F2_FNMADD, v) \in Found \cup {"UNDEF"}
                /\ Switch(F3_FLW, v) \in Found \cup {"UNDEF"}
                /\ Switch(F3_FSW, v) \in Found \cup {"UNDEF"}
                /\ Switch(F7_FP, v) \in Found \cup {"UNDEF"}
  BY SwitchCase DEF Found
<1>1. RouteBase(w) \in Found \cup {"UNDEF"}
  <2>1. {"LUI", "AUIPC", "JAL", "JALR"} \subseteq Found
    BY DEF Found
  <2> HIDE DEF Found
  <2> QED
    BY <1>0, <2>1, OPIs DEF RouteBase
<1>2. RouteReg(w) \in Found \cup {"UNDEF"}
  BY <1>0 DEF RouteReg, F7_ADD, F7_SUB, F7_MUL
<1>3. RouteSystem(w) \in Found \cup {"UNDEF"}
  <2>1. "SFENCE_VMA" \in Found
    BY DEF Found
  <2> QED
    BY <1>0, <2>1 DEF RouteSystem
<1>4. RouteAmo(w) \in Found \cup {"UNDEF"}
  <2>1. \A n \in DOMAIN F5_AMO_W : n \in Found /\ AMO_D[n] \in Found
    BY DEF Found
  <2> QED
    BY <2>1, SwitchCase DEF RouteAmo
<1>5. RouteFp(w) \in Found \cup {"UNDEF"}
  <2>1. \A f7 \in DOMAIN F3_FP : \A v : Switch(F3_FP[f7], v) \in Found \cup {"UNDEF"}
    <3>1. \A f7 \in DOMAIN F3_FP : DOMAIN F3_FP[f7] \subseteq Found
      BY DEF Found, FoundFp3
    <3> QED
      BY <3>1, SwitchCase
  <2>2. \A f7 \in DOMAIN RS2_FP : \A v : Switch(RS2_FP[f7], v) \in Found \cup {"UNDEF"}
    <3>1. \A f7 \in DOMAIN RS2_FP : DOMAIN RS2_FP[f7] \subseteq Found
      BY DEF Found, FoundFpRs2
    <3> QED
      BY <3>1, SwitchCase
  <2>3. \A f7 \in DOMAIN F3_FP : f7 \notin DOMAIN RS2_FP
    BY DEF F3_FP, RS2_FP
  <2> QED
    BY <1>0, <2>1, <2>2, <2>3 DEF RouteFp
<1>6. RouteFpMem(w) \in Found \cup {"UNDEF"}
  BY <1>0, OPIs DEF RouteFpMem
<1> QED
  BY <1>0, <1>1, <1>2, <1>3, <1>4, <1>5, <1>6, OPIs DEF Route

LEMMA EveryRowHasOpcode ==
    ASSUME NEW a \in Arch, NEW op \in Encoded
    PROVE  "opcode" \in DOMAIN Encoding[a][op]
<1>1. op \in DOMAIN ENC_RV32I => "opcode" \in DOMAIN ENC_RV32I[op]
  BY DEF ENC_RV32I, Op, OpF3, OpF3F7, System
<1>2. op \in DOMAIN ENC_RV32MA => "opcode" \in DOMAIN ENC_RV32MA[op]
  BY DEF ENC_RV32MA, OpF3F7, OpF3F5, OpF3Rs2F5
<1>3. op \in DOMAIN ENC_Priv => "opcode" \in DOMAIN ENC_Priv[op]
  BY DEF ENC_Priv, System, SFence
<1>4. op \in DOMAIN ENC_RV64IMA => "opcode" \in DOMAIN ENC_RV64IMA[op]
  BY DEF ENC_RV64IMA, OpF3, OpF3F7, OpF3F5, OpF3Rs2F5
<1>5. op \in DOMAIN ENC_F => "opcode" \in DOMAIN ENC_F[op]
  BY DEF ENC_F, OpF3, OpF2, OpF7, OpRs2F7, OpF3F7, OpF3Rs2F7
<1>6. op \in DOMAIN ENC_D => "opcode" \in DOMAIN ENC_D[op]
  BY DEF ENC_D, OpF3, OpF2, OpF7, OpRs2F7, OpF3F7, OpF3Rs2F7
<1>7. op \in DOMAIN ENC_Shift_RV32 =>
          "opcode" \in DOMAIN ENC_Shift_RV32[op] /\ "opcode" \in DOMAIN ENC_Shift_RV64[op]
  BY DEF ENC_Shift_RV32, ENC_Shift_RV64, OpF3F6, OpF3F7
<1> QED
  BY <1>1, <1>2, <1>3, <1>4, <1>5, <1>6, <1>7, Rows DEF Encoded

LEMMA UndefIsNoOp == "UNDEF" \notin Encoded
  BY DEF Encoded, ENC_RV32I, ENC_Shift_RV32, ENC_RV32MA, ENC_Priv, ENC_RV64IMA, ENC_F, ENC_D

(* What decode_normal returns. *)
LEMMA DecodeNormal ==
    ASSUME NEW w \in Words, NEW a \in Arch
    PROVE  /\ decode_normal(w, a) \in Ops \cup {"UNDEF"}
           /\ \A op \in Ops : Matches(w, Encoding[a][op]) => decode_normal(w, a) = op
           /\ decode_normal(w, a) # "UNDEF" =>
                  /\ Matches(w, Encoding[a][decode_normal(w, a)])
                  /\ Encoding[a][decode_normal(w, a)].opcode = w.opcode
<1>1. decode_normal(w, a) \in Encoded \cup {"UNDEF"}
  BY RouteFound, EncodedIsFound DEF decode_normal
<1>2. decode_normal(w, a) # "UNDEF" => Matches(w, Encoding[a][decode_normal(w, a)])
  BY DEF decode_normal
<1>3. ASSUME NEW op \in Encoded, Matches(w, Encoding[a][op]) PROVE decode_normal(w, a) = op
  BY <1>3, RouteComplete, UndefIsNoOp DEF decode_normal
<1>4. decode_normal(w, a) # "UNDEF" => Encoding[a][decode_normal(w, a)].opcode = w.opcode
  BY <1>1, <1>2, EveryRowHasOpcode, DemandMet, Fields DEF Demands
<1> QED
  BY <1>1, <1>2, <1>3, <1>4, OpsAreEncoded

-----------------------------------------------------------------------------
(* Powers of two.                                                            *)

LEMMA Induction ==
    ASSUME NEW T \in SUBSET Nat, 0 \in T, \A n \in T : n + 1 \in T
    PROVE  T = Nat
<1> SUFFICES ASSUME Nat \ T # {} PROVE FALSE
  OBVIOUS
<1>1. PICK m \in Nat \ T : \A k \in Nat \ T : ~ (<<k, m>> \in OpToRel(<, Nat))
  BY NatLessThanWellFounded, WFMin
<1>2. m # 0 /\ m - 1 \in Nat /\ m - 1 < m /\ (m - 1) + 1 = m
  OBVIOUS
<1>3. m - 1 \in T
  BY <1>1, <1>2 DEF OpToRel
<1> QED
  BY <1>1, <1>2, <1>3

(* g holds the powers up to 2^k. *)
Powers(k, g) == g = [i \in 0 .. k |-> IF i = 0 THEN 1 ELSE 2 * g[i - 1]]

LEMMA PowersExist == ASSUME NEW n \in Nat PROVE \E g : Powers(n, g)
<1> DEFINE T == {k \in Nat : \E g : Powers(k, g)}
<1>1. 0 \in T
  <2>1. Powers(0, [i \in 0 .. 0 |-> 1])
    BY DEF Powers
  <2> QED
    BY <2>1
<1>2. ASSUME NEW k \in T PROVE k + 1 \in T
  <2>1. PICK g : Powers(k, g)
    OBVIOUS
  <2> DEFINE h == [i \in 0 .. k + 1 |-> IF i = k + 1 THEN 2 * g[k] ELSE g[i]]
  <2>2. \A i \in 0 .. k : g[i] = IF i = 0 THEN 1 ELSE 2 * g[i - 1]
    BY <2>1 DEF Powers
  <2>3. \A i \in 0 .. k : h[i] = g[i]
    OBVIOUS
  <2>4. \A i \in 0 .. k + 1 : h[i] = IF i = 0 THEN 1 ELSE 2 * h[i - 1]
    <3> TAKE i \in 0 .. k + 1
    <3>1. CASE i = 0
      BY <2>2, <3>1
    <3>2. CASE i \in 1 .. k
      <4>1. h[i] = g[i] /\ h[i - 1] = g[i - 1]
        BY <2>3, <3>2
      <4> HIDE DEF h
      <4> QED
        BY <2>2, <3>2, <4>1
    <3>3. CASE i = k + 1
      <4>1. h[i] = 2 * g[k] /\ h[i - 1] = g[k]
        BY <2>3, <3>3
      <4> HIDE DEF h
      <4> QED
        BY <3>3, <4>1
    <3> QED
      BY <3>1, <3>2, <3>3
  <2>5. Powers(k + 1, h)
    BY <2>4 DEF Powers
  <2> QED
    BY <2>5
<1>3. T = Nat
  BY <1>1, <1>2, Induction
<1> QED
  BY <1>3

LEMMA PowersAgree ==
    ASSUME NEW j \in Nat, NEW k \in Nat, NEW g, NEW h, Powers(j, g), Powers(k, h),
           NEW i \in Nat, i <= j, i <= k
    PROVE  g[i] = h[i]
<1> DEFINE T == {n \in Nat : n <= j /\ n <= k => g[n] = h[n]}
<1>1. /\ \A n \in 0 .. j : g[n] = IF n = 0 THEN 1 ELSE 2 * g[n - 1]
      /\ \A n \in 0 .. k : h[n] = IF n = 0 THEN 1 ELSE 2 * h[n - 1]
  BY DEF Powers
<1>2. 0 \in T
  BY <1>1
<1>3. ASSUME NEW n \in T PROVE n + 1 \in T
  <2> SUFFICES ASSUME n + 1 <= j, n + 1 <= k PROVE g[n + 1] = h[n + 1]
    OBVIOUS
  <2>1. g[n + 1] = 2 * g[n] /\ h[n + 1] = 2 * h[n]
    BY <1>1
  <2>2. g[n] = h[n]
    OBVIOUS
  <2> QED
    BY <2>1, <2>2
<1>4. T = Nat
  BY <1>2, <1>3, Induction
<1> QED
  BY <1>4

LEMMA Pow2Def == Pow2 = [n \in Nat |-> IF n = 0 THEN 1 ELSE 2 * Pow2[n - 1]]
<1> DEFINE G(n) == CHOOSE g : Powers(n, g)
           f == [n \in Nat |-> G(n)[n]]
<1>1. \A n \in Nat : Powers(n, G(n))
  BY PowersExist
<1> HIDE DEF G
<1>2. ASSUME NEW n \in Nat PROVE f[n] = IF n = 0 THEN 1 ELSE 2 * f[n - 1]
  <2>1. G(n)[n] = IF n = 0 THEN 1 ELSE 2 * G(n)[n - 1]
    BY <1>1 DEF Powers
  <2>2. n # 0 => G(n)[n - 1] = G(n - 1)[n - 1]
    BY <1>1, PowersAgree
  <2> QED
    BY <2>1, <2>2
<1>3. f = [n \in Nat |-> IF n = 0 THEN 1 ELSE 2 * f[n - 1]]
  <2> HIDE DEF f
  <2>1. f = [n \in Nat |-> f[n]]
    BY DEF f
  <2> QED
    BY <1>2, <2>1
<1> HIDE DEF f
<1> QED
  BY <1>3 DEF Pow2

LEMMA Pow2Base == Pow2[0] = 1 /\ \A n \in Nat : Pow2[n + 1] = 2 * Pow2[n]
  BY Pow2Def

LEMMA Pow2Nat == \A n \in Nat : Pow2[n] \in Nat /\ Pow2[n] >= 1 /\ n < Pow2[n]
<1> DEFINE T == {n \in Nat : Pow2[n] \in Nat /\ Pow2[n] >= 1 /\ n < Pow2[n]}
<1>1. 0 \in T
  BY Pow2Base
<1>2. ASSUME NEW n \in T PROVE n + 1 \in T
  BY Pow2Base
<1>3. T = Nat
  BY <1>1, <1>2, Induction
<1> QED
  BY <1>3

LEMMA Pow2Small == Pow2[1] = 2 /\ Pow2[2] = 4 /\ Pow2[3] = 8 /\ Pow2[4] = 16
<1>1. Pow2[0 + 1] = 2 /\ Pow2[1 + 1] = 4 /\ Pow2[2 + 1] = 8 /\ Pow2[3 + 1] = 16
  BY Pow2Base
<1> QED
  BY <1>1

LEMMA Pow2Sum == \A m, n \in Nat : Pow2[m + n] = Pow2[m] * Pow2[n]
<1> SUFFICES ASSUME NEW m \in Nat PROVE \A n \in Nat : Pow2[m + n] = Pow2[m] * Pow2[n]
  OBVIOUS
<1> DEFINE T == {n \in Nat : Pow2[m + n] = Pow2[m] * Pow2[n]}
<1>1. 0 \in T
  BY Pow2Base, Pow2Nat
<1>2. ASSUME NEW n \in T PROVE n + 1 \in T
  <2>1. Pow2[(m + n) + 1] = 2 * Pow2[m + n] /\ Pow2[n + 1] = 2 * Pow2[n]
    BY Pow2Base
  <2>2. \A x, y \in Nat : 2 * (x * y) = x * (2 * y)
    OBVIOUS
  <2>3. Pow2[m] * Pow2[n + 1] = 2 * (Pow2[m] * Pow2[n])
    BY <2>1, <2>2, Pow2Nat
  <2>4. m + (n + 1) = (m + n) + 1
    OBVIOUS
  <2> QED
    BY <2>1, <2>3, <2>4
<1>3. T = Nat
  BY <1>1, <1>2, Induction
<1> QED
  BY <1>3

-----------------------------------------------------------------------------
(* Congruence of integers.                                                   *)

LEMMA DivMod ==
    ASSUME NEW x \in Int, NEW m \in Nat, m > 0
    PROVE  /\ x = m * (x \div m) + (x % m)
           /\ x \div m \in Int /\ x % m \in Int /\ 0 <= x % m /\ x % m < m
  OBVIOUS

LEMMA DivModUnique ==
    ASSUME NEW x \in Int, NEW m \in Nat, m > 0, NEW q \in Int, NEW r \in Int,
           x = m * q + r, 0 <= r, r < m
    PROVE  x \div m = q /\ x % m = r
<1> DEFINE p == x \div m
           s == x % m
<1>1. x = m * p + s /\ p \in Int /\ s \in Int /\ 0 <= s /\ s < m
  BY DivMod
<1> HIDE DEF p, s
<1>2. CASE p < q
  <2>1. m * (p + 1) <= m * q
    BY <1>1, <1>2
  <2>2. m * (p + 1) = m * p + m
    BY <1>1
  <2> QED
    BY <1>1, <2>1, <2>2
<1>3. CASE q < p
  <2>1. m * (q + 1) <= m * p
    BY <1>1, <1>3
  <2>2. m * (q + 1) = m * q + m
    OBVIOUS
  <2> QED
    BY <1>1, <2>1, <2>2
<1>4. CASE p = q
  BY <1>1, <1>4 DEF p, s
<1> QED
  BY <1>1, <1>2, <1>3, <1>4

Congruent(x, y, m) == \E k \in Int : x = y + m * k

LEMMA CongruentMod ==
    ASSUME NEW x \in Int, NEW y \in Int, NEW m \in Nat, m > 0
    PROVE  Congruent(x, y, m) <=> x % m = y % m
<1>1. ASSUME Congruent(x, y, m) PROVE x % m = y % m
  <2>1. PICK k \in Int : x = y + m * k
    BY <1>1 DEF Congruent
  <2> DEFINE q == y \div m
             r == y % m
  <2>2. y = m * q + r /\ q \in Int /\ r \in Int /\ 0 <= r /\ r < m
    BY DivMod
  <2> HIDE DEF q, r
  <2>3. x = m * (q + k) + r
    BY <2>1, <2>2
  <2>4. x % m = r
    BY <2>2, <2>3, DivModUnique
  <2> QED
    BY <2>4 DEF r
<1>2. ASSUME x % m = y % m PROVE Congruent(x, y, m)
  <2> DEFINE p == x \div m
             q == y \div m
             r == y % m
  <2>1. x = m * p + r /\ y = m * q + r /\ p \in Int /\ q \in Int /\ r \in Int
    BY <1>2, DivMod
  <2> HIDE DEF p, q, r
  <2>2. x = y + m * (p - q) /\ p - q \in Int
    BY <2>1
  <2> QED
    BY <2>2 DEF Congruent
<1> QED
  BY <1>1, <1>2

LEMMA CongruentOps ==
    ASSUME NEW m \in Nat, m > 0, NEW x \in Int, NEW y \in Int, NEW z \in Int, Congruent(x, y, m)
    PROVE  /\ Congruent(y, x, m)
           /\ Congruent(x + z, y + z, m) /\ Congruent(z + x, z + y, m)
           /\ Congruent(x - z, y - z, m) /\ Congruent(z - x, z - y, m)
           /\ Congruent(x * z, y * z, m) /\ Congruent(z * x, z * y, m)
<1>1. PICK k \in Int : x = y + m * k
  BY DEF Congruent
<1>2. y = x + m * (-k) /\ -k \in Int
  BY <1>1
<1>3. x + z = y + z + m * k /\ z + x = z + y + m * k /\ x - z = y - z + m * k
  BY <1>1
<1>4. z - x = z - y + m * (-k)
  BY <1>1
<1>5. x * z = y * z + m * (k * z) /\ z * x = z * y + m * (k * z) /\ k * z \in Int
  <2>1. (y + m * k) * z = y * z + m * (k * z)
    OBVIOUS
  <2>2. x * z = y * z + m * (k * z)
    BY <1>1, <2>1
  <2>3. z * x = x * z /\ z * y = y * z
    OBVIOUS
  <2> QED
    BY <2>2, <2>3
<1> QED
  BY <1>1, <1>2, <1>3, <1>4, <1>5 DEF Congruent

LEMMA CongruentTrans ==
    ASSUME NEW m \in Nat, NEW x \in Int, NEW y \in Int, NEW z \in Int,
           Congruent(x, y, m), Congruent(y, z, m)
    PROVE  Congruent(x, z, m)
<1>1. PICK j \in Int : x = y + m * j
  BY DEF Congruent
<1>2. PICK k \in Int : y = z + m * k
  BY DEF Congruent
<1>3. x = z + m * (j + k) /\ j + k \in Int
  BY <1>1, <1>2
<1> QED
  BY <1>3 DEF Congruent

(* A modulus that divides another. *)
LEMMA ModOfMod ==
    ASSUME NEW x \in Int, NEW d \in Nat, d > 0, NEW e \in Nat, e > 0
    PROVE  /\ (x % (d * e)) % d = x % d
           /\ (x % (d * e)) \div d = (x \div d) % e
<1> DEFINE q == x \div d
           r == x % d
           p == q \div e
           s == q % e
<1>1. x = d * q + r /\ q \in Int /\ r \in Int /\ 0 <= r /\ r < d
  BY DivMod
<1> HIDE DEF q, r
<1>2. q = e * p + s /\ p \in Int /\ s \in Int /\ 0 <= s /\ s < e
  BY <1>1, DivMod
<1> HIDE DEF p, s
<1>3. d * e \in Nat /\ d * e > 0
  OBVIOUS
<1>4. x = (d * e) * p + (d * s + r)
  <2>1. d * (e * p + s) = (d * e) * p + d * s
    BY <1>2
  <2> QED
    BY <1>1, <1>2, <2>1
<1>5. d * s + r \in Int /\ 0 <= d * s + r /\ d * s + r < d * e
  <2>1. 0 <= d * s /\ d * s \in Int
    BY <1>2
  <2>2. d * (s + 1) <= d * e
    BY <1>2
  <2>3. d * (s + 1) = d * s + d
    BY <1>2
  <2> QED
    BY <1>1, <2>1, <2>2, <2>3
<1>6. x % (d * e) = d * s + r
  BY <1>2, <1>3, <1>4, <1>5, DivModUnique
<1>7. (d * s + r) % d = r /\ (d * s + r) \div d = s
  BY <1>1, <1>2, <1>5, DivModUnique
<1> QED
  BY <1>6, <1>7 DEF r, s, q

-----------------------------------------------------------------------------
(* Integers of a width.                                                      *)

Width(w) == w \in Nat /\ w >= 4

LEMMA PowerOfWidth ==
    ASSUME NEW w, Width(w)
    PROVE  /\ w - 1 \in Nat /\ Pow2[w - 1] \in Nat /\ Pow2[w - 1] >= 8
           /\ Pow2[w] \in Nat /\ Pow2[w] >= 16 /\ Pow2[w] > 0
           /\ Pow2[w] = 2 * Pow2[w - 1] /\ Pow2[w] % 4 = 0 /\ Pow2[w] % 2 = 0
<1>1. PICK k \in Nat : w = k + 4
  <2>1. w - 4 \in Nat /\ w = (w - 4) + 4
    BY DEF Width
  <2> QED
    BY <2>1
<1>2. Pow2[k + 4] = Pow2[k] * Pow2[4] /\ Pow2[k + 3] = Pow2[k] * Pow2[3]
  BY Pow2Sum
<1>3. Pow2[w] = Pow2[k] * 16 /\ Pow2[w - 1] = Pow2[k] * 8
  <2>1. w - 1 = k + 3
    BY <1>1
  <2> QED
    BY <1>1, <1>2, <2>1, Pow2Small
<1>4. Pow2[k] \in Nat /\ Pow2[k] >= 1
  BY Pow2Nat
<1> DEFINE p == Pow2[k]
<1> HIDE DEF p
<1>5. p \in Nat /\ p >= 1 /\ Pow2[w] = p * 16 /\ Pow2[w - 1] = p * 8
  BY <1>3, <1>4 DEF p
<1>6. p * 16 \in Nat /\ p * 16 >= 16 /\ (p * 16) % 4 = 0 /\ (p * 16) % 2 = 0
  BY <1>5
<1>7. p * 8 \in Nat /\ p * 8 >= 8 /\ p * 16 = 2 * (p * 8)
  BY <1>5
<1> QED
  BY <1>1, <1>5, <1>6, <1>7

LEMMA Widths ==
    /\ BYTE \in Nat /\ BYTE >= 1
    /\ Width(WORD) /\ Width(XLEN32) /\ Width(XLEN64)
    /\ XLEN32 = WORD /\ DOUBLE = XLEN64 /\ XLEN64 = WORD + WORD
    /\ WORD \div BYTE = 4
<1>1. BYTE \in Nat /\ BYTE >= 1
  BY ByteAssumption, Pow2Nat
<1>2. WORD = 4 * BYTE /\ XLEN32 = 4 * BYTE /\ XLEN64 = 8 * BYTE /\ DOUBLE = 8 * BYTE
  BY DEF WORD, XLEN32, XLEN64, DOUBLE
<1>3. Width(4 * BYTE) /\ Width(8 * BYTE)
  BY <1>1 DEF Width
<1>4. (4 * BYTE) \div BYTE = 4
  BY <1>1, DivModUnique
<1> QED
  BY <1>1, <1>2, <1>3, <1>4

LEMMA UnsignedIs ==
    ASSUME NEW w, Width(w), NEW x \in Int
    PROVE  /\ Unsigned(x, w) \in Int /\ 0 <= Unsigned(x, w) /\ Unsigned(x, w) < Pow2[w]
           /\ Congruent(Unsigned(x, w), x, Pow2[w])
<1>1. Pow2[w] \in Nat /\ Pow2[w] > 0
  BY PowerOfWidth
<1>2. Unsigned(x, w) \in Int /\ 0 <= Unsigned(x, w) /\ Unsigned(x, w) < Pow2[w]
  BY <1>1, DivMod DEF Unsigned
<1>3. Unsigned(x, w) % Pow2[w] = Unsigned(x, w)
  BY <1>1, <1>2
<1>4. Unsigned(x, w) % Pow2[w] = x % Pow2[w]
  BY <1>3 DEF Unsigned
<1> QED
  BY <1>1, <1>2, <1>4, CongruentMod

LEMMA UnsignedUnique ==
    ASSUME NEW w, Width(w), NEW x \in Int, NEW y \in Int, Congruent(x, y, Pow2[w])
    PROVE  /\ Unsigned(x, w) = Unsigned(y, w)
           /\ Signed(x, w) = Signed(y, w)
           /\ 0 <= y /\ y < Pow2[w] => Unsigned(x, w) = y
<1>1. Pow2[w] \in Nat /\ Pow2[w] > 0
  BY PowerOfWidth
<1>2. x % Pow2[w] = y % Pow2[w]
  BY <1>1, CongruentMod
<1>3. 0 <= y /\ y < Pow2[w] => y % Pow2[w] = y
  BY <1>1
<1> QED
  BY <1>2, <1>3 DEF Unsigned, Signed

LEMMA SignedIs ==
    ASSUME NEW w, Width(w), NEW x \in Int
    PROVE  /\ Signed(x, w) \in Int /\ -Pow2[w - 1] <= Signed(x, w) /\ Signed(x, w) < Pow2[w - 1]
           /\ Congruent(Signed(x, w), x, Pow2[w])
           /\ Signed(Signed(x, w), w) = Signed(x, w)
           /\ Unsigned(Signed(x, w), w) = Unsigned(x, w)
           /\ Signed(Unsigned(x, w), w) = Signed(x, w)
<1> DEFINE M == Pow2[w]
           H == Pow2[w - 1]
           u == Unsigned(x, w)
<1>1. M \in Nat /\ M > 0 /\ H \in Nat /\ M = 2 * H
  BY PowerOfWidth
<1>2. u \in Int /\ 0 <= u /\ u < M /\ Congruent(u, x, M)
  BY UnsignedIs
<1>3. Signed(x, w) = IF u >= H THEN u - M ELSE u
  BY DEF Signed, Unsigned
<1> HIDE DEF M, H, u
<1>4. Signed(x, w) \in Int /\ -H <= Signed(x, w) /\ Signed(x, w) < H
  BY <1>1, <1>2, <1>3
<1>5. Congruent(Signed(x, w), u, M)
  <2>1. u - M = u + M * (-1) /\ u = u + M * 0
    BY <1>1, <1>2
  <2> QED
    BY <1>3, <2>1 DEF Congruent
<1>6. Congruent(Signed(x, w), x, M)
  BY <1>1, <1>2, <1>4, <1>5, CongruentTrans
<1>7. Signed(Signed(x, w), w) = Signed(x, w) /\ Unsigned(Signed(x, w), w) = Unsigned(x, w)
  BY <1>4, <1>6, UnsignedUnique DEF M
<1>8. Signed(u, w) = Signed(x, w)
  BY <1>2, UnsignedUnique DEF M
<1> QED
  BY <1>4, <1>6, <1>7, <1>8 DEF M, H, u

LEMMA SignedUnique ==
    ASSUME NEW w, Width(w), NEW x \in Int, NEW y \in Int, Congruent(x, y, Pow2[w]),
           -Pow2[w - 1] <= y, y < Pow2[w - 1]
    PROVE  Signed(x, w) = y
<1> DEFINE M == Pow2[w]
           H == Pow2[w - 1]
<1>1. M \in Nat /\ M > 0 /\ H \in Nat /\ M = 2 * H /\ -H <= y /\ y < H
  BY PowerOfWidth
<1>2. Signed(x, w) = Signed(y, w)
  BY UnsignedUnique
<1>3. Signed(y, w) = IF y % M >= H THEN (y % M) - M ELSE y % M
  BY DEF Signed
<1> HIDE DEF M, H
<1>4. CASE 0 <= y
  <2>1. y % M = y
    BY <1>1, <1>4
  <2> QED
    BY <1>1, <1>2, <1>3, <1>4, <2>1
<1>5. CASE y < 0
  <2>1. y = M * (-1) + (y + M) /\ 0 <= y + M /\ y + M < M /\ y + M \in Int
    BY <1>1, <1>5
  <2>2. y % M = y + M
    BY <1>1, <2>1, DivModUnique
  <2> QED
    BY <1>1, <1>2, <1>3, <1>5, <2>2
<1> QED
  BY <1>4, <1>5

LEMMA SignedItself ==
    ASSUME NEW w, Width(w), NEW x \in Int, -Pow2[w - 1] <= x, x < Pow2[w - 1]
    PROVE  Signed(x, w) = x
<1>1. Congruent(x, x, Pow2[w])
  BY PowerOfWidth, CongruentMod
<1> QED
  BY <1>1, SignedUnique

-----------------------------------------------------------------------------
(* The upper half of a product.                                              *)

LEMMA ProductPositive == ASSUME NEW x \in Int, NEW y \in Int, 0 <= x, 0 <= y PROVE 0 <= x * y
  OBVIOUS

LEMMA DivRange ==
    ASSUME NEW x \in Int, NEW m \in Nat, m > 0, NEW lo \in Int, NEW hi \in Int,
           lo * m <= x, x < hi * m
    PROVE  lo <= x \div m /\ x \div m < hi
<1> DEFINE q == x \div m
           r == x % m
<1>1. x = m * q + r /\ q \in Int /\ r \in Int /\ 0 <= r /\ r < m
  BY DivMod
<1> HIDE DEF q, r
<1>2. ~ (q < lo)
  <2> SUFFICES ASSUME q < lo PROVE FALSE
    OBVIOUS
  <2>1. 0 <= (lo - (q + 1)) * m
    BY <1>1, ProductPositive
  <2>2. (lo - (q + 1)) * m = lo * m - m * q - m
    BY <1>1
  <2> QED
    BY <1>1, <2>1, <2>2
<1>3. ~ (hi <= q)
  <2> SUFFICES ASSUME hi <= q PROVE FALSE
    OBVIOUS
  <2>1. 0 <= (q - hi) * m
    BY <1>1, ProductPositive
  <2>2. (q - hi) * m = m * q - hi * m
    BY <1>1
  <2> QED
    BY <1>1, <2>1, <2>2
<1> QED
  BY <1>1, <1>2, <1>3 DEF q

LEMMA SignedProduct ==
    ASSUME NEW a \in Int, NEW b \in Int, NEW h \in Nat, NEW k \in Nat,
           -h <= a, a <= h, -k <= b, b <= k
    PROVE  -(h * k) <= a * b /\ a * b <= h * k
<1>1. 0 <= (h - a) * (k + b) /\ 0 <= (h + a) * (k - b)
  BY ProductPositive
<1>2. 0 <= (h - a) * (k - b) /\ 0 <= (h + a) * (k + b)
  BY ProductPositive
<1>3. (h - a) * (k + b) + (h + a) * (k - b) = 2 * (h * k) - 2 * (a * b)
  OBVIOUS
<1>4. (h - a) * (k - b) + (h + a) * (k + b) = 2 * (h * k) + 2 * (a * b)
  OBVIOUS
<1>5. a * b \in Int /\ h * k \in Int
  OBVIOUS
<1>6. 0 <= 2 * (h * k) - 2 * (a * b)
  BY <1>1, <1>3
<1>7. 0 <= 2 * (h * k) + 2 * (a * b)
  BY <1>2, <1>4
<1> QED
  BY <1>5, <1>6, <1>7

(* The number that the executors keep of a product is its upper half, and  *)
(* the lower half is what MUL returns.                                     *)
LEMMA HighIs ==
    ASSUME NEW w, Width(w), NEW x \in Int
    PROVE  /\ x \div Pow2[w] \in Int
           /\ High(x, w) = Signed(x \div Pow2[w], w)
           /\ (x - Unsigned(x, w)) \div Pow2[w] = x \div Pow2[w]
<1> DEFINE M == Pow2[w]
           q == x \div M
           r == x % M
<1>1. M \in Nat /\ M > 0 /\ w \in Nat
  BY PowerOfWidth DEF Width
<1>2. x = M * q + r /\ q \in Int /\ r \in Int /\ 0 <= r /\ r < M
  BY <1>1, DivMod
<1>3. Pow2[2 * w] = M * M
  <2>1. Pow2[w + w] = M * M /\ 2 * w = w + w
    BY <1>1, Pow2Sum
  <2> QED
    BY <2>1
<1>4. (x % (M * M)) \div M = q % M
  BY <1>1, ModOfMod
<1>5. High(x, w) = Signed(q % M, w)
  BY <1>3, <1>4 DEF High
<1>6. Signed(q % M, w) = Signed(q, w)
  BY <1>2, SignedIs DEF Unsigned
<1>7. (x - r) \div M = q
  <2> HIDE DEF q, r, M
  <2>1. x - r = M * q + 0
    BY <1>1, <1>2
  <2> QED
    BY <1>1, <1>2, <2>1, DivModUnique
<1> QED
  BY <1>2, <1>5, <1>6, <1>7 DEF Unsigned

LEMMA HighSigned ==
    ASSUME NEW w, Width(w), NEW a \in Int, NEW b \in Int,
           -Pow2[w - 1] <= a, a < Pow2[w - 1], -Pow2[w - 1] <= b, b < Pow2[w - 1]
    PROVE  High(a * b, w) = (a * b - Unsigned(Signed(a * b, w), w)) \div Pow2[w]
<1> DEFINE M == Pow2[w]
           H == Pow2[w - 1]
           x == a * b
           q == x \div M
<1>1. M \in Nat /\ M > 0 /\ H \in Nat /\ H >= 8 /\ M = 2 * H /\ x \in Int
  BY PowerOfWidth
<1>2. -(H * H) <= x /\ x <= H * H
  BY <1>1, SignedProduct
<1>3. -H * M <= x /\ x < H * M
  <2> HIDE DEF M, H, x
  <2>1. H * M = 2 * (H * H) /\ -H * M = -(2 * (H * H)) /\ H * H > 0 /\ H * H \in Int
    BY <1>1
  <2> QED
    BY <1>1, <1>2, <2>1
<1>4. -H <= q /\ q < H /\ q \in Int
  <2> HIDE DEF M, H, x
  <2>1. -H \in Int /\ H \in Int
    BY <1>1
  <2> QED
    BY <1>1, <1>3, <2>1, DivRange, DivMod
<1>5. Signed(q, w) = q
  BY <1>4, SignedItself
<1> QED
  BY <1>1, <1>5, HighIs, SignedIs

LEMMA HighSignedUnsigned ==
    ASSUME NEW w, Width(w), NEW a \in Int, NEW b \in Int, -Pow2[w - 1] <= a, a < Pow2[w - 1]
    PROVE  High(a * Unsigned(b, w), w)
               = (a * Unsigned(b, w) - Unsigned(Signed(a * b, w), w)) \div Pow2[w]
<1> DEFINE M == Pow2[w]
           H == Pow2[w - 1]
           v == Unsigned(b, w)
           x == a * v
           q == x \div M
<1>1. M \in Nat /\ M > 0 /\ H \in Nat /\ H >= 8 /\ M = 2 * H
  BY PowerOfWidth
<1>2. v \in Int /\ 0 <= v /\ v < M /\ Congruent(v, b, M)
  BY UnsignedIs
<1>3. x \in Int
  BY <1>2
<1>4. -H * M <= x /\ x < H * M
  <2> HIDE DEF M, H, v
  <2>1. 0 <= (a + H) * v /\ 0 <= H * (M - v) /\ 0 <= ((H - 1) - a) * v /\ 0 <= (H - 1) * (M - v)
    BY <1>1, <1>2, ProductPositive DEF M, H
  <2>2. (a + H) * v + H * (M - v) = a * v + H * M
    BY <1>1, <1>2
  <2>3. ((H - 1) - a) * v + (H - 1) * (M - v) = H * M - M - a * v
    BY <1>1, <1>2
  <2>4. -H * M = -(H * M) /\ H * M \in Int /\ a * v \in Int
    BY <1>1, <1>2
  <2>5. 0 <= a * v + H * M /\ 0 <= H * M - M - a * v
    BY <1>1, <1>2, <2>1, <2>2, <2>3
  <2> QED
    BY <1>1, <2>4, <2>5
<1>5. -H <= q /\ q < H /\ q \in Int
  <2> HIDE DEF M, H, x
  <2>1. -H \in Int /\ H \in Int
    BY <1>1
  <2> QED
    BY <1>1, <1>3, <1>4, <2>1, DivRange, DivMod
<1>6. Signed(q, w) = q
  BY <1>5, SignedItself
<1>7. Unsigned(x, w) = Unsigned(Signed(a * b, w), w)
  <2>1. a * b \in Int /\ Congruent(x, a * b, M)
    <3> HIDE DEF M, v
    <3>1. Congruent(a * v, a * b, M)
      BY <1>1, <1>2, CongruentOps
    <3> QED
      BY <3>1
  <2> QED
    BY <1>3, <2>1, UnsignedUnique, SignedIs
<1> QED
  BY <1>3, <1>6, <1>7, HighIs

LEMMA HighUnsigned ==
    ASSUME NEW w, Width(w), NEW a \in Int, NEW b \in Int
    PROVE  Unsigned(High(Unsigned(a, w) * Unsigned(b, w), w), w)
               = (Unsigned(a, w) * Unsigned(b, w) - Unsigned(Signed(a * b, w), w)) \div Pow2[w]
<1> DEFINE M == Pow2[w]
           u == Unsigned(a, w)
           v == Unsigned(b, w)
           x == u * v
           q == x \div M
<1>1. M \in Nat /\ M > 0
  BY PowerOfWidth
<1>2. v \in Int /\ 0 <= v /\ v < M /\ Congruent(v, b, M)
  BY UnsignedIs
<1>3. u \in Int /\ 0 <= u /\ u < M /\ Congruent(u, a, M)
  BY UnsignedIs
<1>4. x \in Int
  BY <1>2, <1>3
<1>5. 0 * M <= x /\ x < M * M
  <2> HIDE DEF M, u, v
  <2>1. 0 <= u * v /\ 0 <= u * (M - v) /\ 0 <= ((M - 1) - u) * M
    BY <1>1, <1>2, <1>3, ProductPositive
  <2>2. u * (M - v) + ((M - 1) - u) * M = M * M - M - u * v
    BY <1>1, <1>2, <1>3
  <2>3. u * v \in Int /\ M * M \in Int
    BY <1>1, <1>2, <1>3
  <2>4. 0 <= M * M - M - u * v
    BY <1>1, <1>2, <1>3, <2>1, <2>2
  <2> QED
    BY <1>1, <2>1, <2>3, <2>4
<1>6. 0 <= q /\ q < M /\ q \in Int
  <2> HIDE DEF M, x
  <2> QED
    BY <1>1, <1>4, <1>5, DivRange, DivMod
<1>7. Unsigned(Signed(q, w), w) = q
  <2>1. Unsigned(Signed(q, w), w) = q % M
    BY <1>6, SignedIs DEF Unsigned
  <2> QED
    BY <1>1, <1>6, <2>1
<1>8. Unsigned(x, w) = Unsigned(Signed(a * b, w), w)
  <2>1. a * b \in Int /\ u * b \in Int /\ Congruent(x, u * b, M) /\ Congruent(u * b, a * b, M)
    <3> HIDE DEF M, u, v
    <3>1. a * b \in Int /\ u * b \in Int
      BY <1>3
    <3>2. Congruent(u * v, u * b, M)
      BY <1>1, <1>2, <1>3, CongruentOps
    <3>3. Congruent(u * b, a * b, M)
      BY <1>1, <1>2, <1>3, CongruentOps
    <3> QED
      BY <3>1, <3>2, <3>3
  <2>2. Congruent(x, a * b, M)
    <3> HIDE DEF x
    <3> QED
      BY <1>1, <1>4, <2>1, CongruentTrans
  <2> QED
    BY <1>4, <2>1, <2>2, UnsignedUnique, SignedIs
<1> QED
  BY <1>4, <1>7, <1>8, HighIs

-----------------------------------------------------------------------------
(* Division.                                                                 *)

(* Quotient q and remainder r of a and b, integers of width w: what the    *)
(* property ExactArithmetic asks of a division.                            *)
Divided(q, r, a, b, w) ==
    /\ Unsigned(q * b + r, w) = Unsigned(a, w)
    /\ b = 0 \/ (Abs(r) < Abs(b) /\ (r = 0 \/ (r < 0) = (a < 0)))

LEMMA Truncated ==
    ASSUME NEW a \in Int, NEW b \in Int, b # 0
    PROVE  /\ Quotient(a, b) \in Int /\ Remainder(a, b) \in Int
           /\ Quotient(a, b) * b + Remainder(a, b) = a
           /\ Abs(Remainder(a, b)) < Abs(b)
           /\ Remainder(a, b) = 0 \/ (Remainder(a, b) < 0) = (a < 0)
<1> DEFINE m == Abs(b)
           q == Abs(a) \div m
           r == Abs(a) % m
<1>1. m \in Nat /\ m > 0 /\ Abs(a) \in Int /\ 0 <= Abs(a)
  BY DEF Abs
<1>2. Abs(a) = m * q + r /\ q \in Int /\ r \in Int /\ 0 <= r /\ r < m
  BY <1>1, DivMod
<1>3. Quotient(a, b) = IF (a < 0) = (b < 0) THEN q ELSE -q
  BY DEF Quotient
<1>4. Remainder(a, b) = a - b * Quotient(a, b)
  BY DEF Remainder
<1>5. m = (IF b < 0 THEN -b ELSE b) /\ Abs(a) = (IF a < 0 THEN -a ELSE a)
  BY DEF Abs
<1> HIDE DEF m, q, r
<1>6. Remainder(a, b) = IF a < 0 THEN -r ELSE r
  <2>1. CASE a < 0 /\ b < 0
    <3>1. Quotient(a, b) = q /\ m = -b /\ -a = m * q + r
      BY <1>2, <1>3, <1>5, <2>1
    <3>2. (-b) * q = -(b * q)
      BY <1>2
    <3> QED
      BY <1>2, <1>4, <2>1, <3>1, <3>2
  <2>2. CASE a < 0 /\ ~ (b < 0)
    <3>1. Quotient(a, b) = -q /\ m = b /\ -a = m * q + r
      BY <1>2, <1>3, <1>5, <2>2
    <3>2. b * (-q) = -(b * q)
      BY <1>2
    <3> QED
      BY <1>2, <1>4, <2>2, <3>1, <3>2
  <2>3. CASE ~ (a < 0) /\ b < 0
    <3>1. Quotient(a, b) = -q /\ m = -b /\ a = m * q + r
      BY <1>2, <1>3, <1>5, <2>3
    <3>2. (-b) * q = -(b * q) /\ b * (-q) = -(b * q)
      BY <1>2
    <3> QED
      BY <1>2, <1>4, <2>3, <3>1, <3>2
  <2>4. CASE ~ (a < 0) /\ ~ (b < 0)
    <3>1. Quotient(a, b) = q /\ m = b /\ a = m * q + r
      BY <1>2, <1>3, <1>5, <2>4
    <3> QED
      BY <1>2, <1>4, <2>4, <3>1
  <2> QED
    BY <2>1, <2>2, <2>3, <2>4
<1>7. Quotient(a, b) \in Int
  BY <1>2, <1>3
<1>8. Remainder(a, b) \in Int
  BY <1>2, <1>6
<1>9. Quotient(a, b) * b + Remainder(a, b) = a
  BY <1>4, <1>7, <1>8
<1>10. Abs(Remainder(a, b)) < Abs(b)
  BY <1>2, <1>6, <1>8 DEF Abs, m
<1>11. Remainder(a, b) = 0 \/ (Remainder(a, b) < 0) = (a < 0)
  BY <1>2, <1>6
<1> QED
  BY <1>7, <1>8, <1>9, <1>10, <1>11

(* DIV with REM, and their word forms. *)
LEMMA DividedSigned ==
    ASSUME NEW w, Width(w), NEW a \in Int, NEW b \in Int,
           -Pow2[w - 1] <= a, a < Pow2[w - 1], -Pow2[w - 1] <= b, b < Pow2[w - 1]
    PROVE  LET overflow == a = MinInt(w) /\ b = -1
           IN Divided(IF b = 0 THEN -1 ELSE IF overflow THEN a ELSE Quotient(a, b),
                      IF b = 0 THEN a ELSE IF overflow THEN 0 ELSE Remainder(a, b), a, b, w)
<1>1. CASE b = 0
  BY <1>1 DEF Divided
<1>2. CASE b # 0 /\ a = MinInt(w) /\ b = -1
  <2> DEFINE M == Pow2[w]
             H == Pow2[w - 1]
  <2>1. M \in Nat /\ M > 0 /\ H \in Nat /\ M = 2 * H
    BY PowerOfWidth
  <2>2. a = -H
    BY <1>2 DEF MinInt
  <2>3. a * b + 0 = a + M * 1 /\ a * b + 0 \in Int
    <3> HIDE DEF M, H
    <3> QED
      BY <1>2, <2>1, <2>2
  <2>4. Congruent(a * b + 0, a, M)
    <3> HIDE DEF M, H
    <3> QED
      BY <2>3 DEF Congruent
  <2>5. Unsigned(a * b + 0, w) = Unsigned(a, w)
    BY <2>3, <2>4, UnsignedUnique
  <2>6. Abs(0) < Abs(b)
    BY <1>2 DEF Abs
  <2> QED
    BY <1>2, <2>5, <2>6 DEF Divided
<1>3. CASE b # 0 /\ ~ (a = MinInt(w) /\ b = -1)
  BY <1>3, Truncated DEF Divided
<1> QED
  BY <1>1, <1>2, <1>3

(* DIVU with REMU, and their word forms. *)
LEMMA DividedUnsigned ==
    ASSUME NEW w, Width(w), NEW a \in Int, NEW b \in Int,
           -Pow2[w - 1] <= b, b < Pow2[w - 1]
    PROVE  LET u == Unsigned(a, w)
               v == Unsigned(b, w)
           IN Divided(Unsigned(IF b = 0 THEN -1 ELSE Signed(u \div v, w), w),
                      Unsigned(IF b = 0 THEN a ELSE Signed(u % v, w), w), u, v, w)
<1> DEFINE M == Pow2[w]
           u == Unsigned(a, w)
           v == Unsigned(b, w)
<1>1. M \in Nat /\ M > 0
  BY PowerOfWidth
<1>2. u \in Int /\ 0 <= u /\ u < M
  BY UnsignedIs
<1>3. v \in Int /\ 0 <= v /\ v < M
  BY UnsignedIs
<1>4. CASE b = 0
  <2>1. v = 0
    BY <1>1, <1>4 DEF Unsigned
  <2>2. Unsigned(-1, w) \in Int
    BY UnsignedIs
  <2>3. Unsigned(-1, w) * v + u = u
    BY <1>2, <2>1, <2>2
  <2> QED
    BY <1>4, <2>1, <2>3 DEF Divided
<1>5. CASE b # 0
  <2>1. v # 0
    <3>1. Signed(v, w) = b
      BY SignedItself, SignedIs
    <3>2. Signed(0, w) = 0
      BY SignedItself, PowerOfWidth
    <3> QED
      BY <1>5, <3>1, <3>2
  <2> DEFINE q == u \div v
             r == u % v
  <2>2. u = v * q + r /\ q \in Int /\ r \in Int /\ 0 <= r /\ r < v
    <3> HIDE DEF u, v
    <3> QED
      BY <1>2, <1>3, <2>1, DivMod
  <2>3. 0 <= q /\ q <= u
    <3> HIDE DEF u, v, q, r
    <3>1. 0 <= q
      <4> SUFFICES ASSUME q < 0 PROVE FALSE
        BY <2>2
      <4>1. 0 <= v * (-(q + 1))
        BY <1>3, <2>2, ProductPositive
      <4>2. v * (-(q + 1)) = -(v * q) - v
        BY <1>3, <2>2
      <4>3. v * q \in Int
        BY <1>3, <2>2
      <4> QED
        BY <1>2, <1>3, <2>2, <4>1, <4>2, <4>3
    <3>2. 0 <= (v - 1) * q
      BY <1>3, <2>1, <2>2, <3>1, ProductPositive
    <3>3. (v - 1) * q = v * q - q /\ v * q \in Int
      BY <1>3, <2>2
    <3> QED
      BY <1>2, <1>3, <2>2, <3>1, <3>2, <3>3
  <2>4. Unsigned(Signed(q, w), w) = q
    <3>1. Unsigned(Signed(q, w), w) = q % M
      BY <2>2, SignedIs DEF Unsigned
    <3>2. q % M = q
      <4> HIDE DEF u, q, M
      <4> QED
        BY <1>1, <1>2, <2>2, <2>3
    <3> QED
      BY <3>1, <3>2
  <2>5. Unsigned(Signed(r, w), w) = r
    <3>1. Unsigned(Signed(r, w), w) = r % M
      BY <2>2, SignedIs DEF Unsigned
    <3>2. r % M = r
      <4> HIDE DEF v, r, M
      <4> QED
        BY <1>1, <1>3, <2>2
    <3> QED
      BY <3>1, <3>2
  <2>6. Divided(q, r, u, v, w)
    <3> HIDE DEF u, v, q, r
    <3>1. q * v + r = u
      BY <1>2, <1>3, <2>2
    <3>2. Abs(r) < Abs(v)
      BY <1>3, <2>2 DEF Abs
    <3>3. (r < 0) = (u < 0)
      BY <1>2, <2>2
    <3> QED
      BY <3>1, <3>2, <3>3 DEF Divided
  <2> QED
    BY <1>5, <2>4, <2>5, <2>6
<1> QED
  BY <1>4, <1>5

-----------------------------------------------------------------------------
(* The case of exec_step that an instruction takes.                          *)

LEMMA Outcome ==
    ASSUME NEW x, NEW v, NEW cause
    PROVE  /\ Result32(x, v).trap = Nothing /\ Result32(x, v).rd = v
           /\ Result32(x, v).pc = x.next /\ Result32(x, v).store = Nothing
           /\ Raises32(x, cause).trap = cause /\ Raises32(x, cause).rd = Nothing
           /\ Raises32(x, cause).pc = x.pc /\ Raises32(x, cause).store = Nothing
           /\ Retires32(x).pc = x.next
<1>1. Result32(x, v).trap = Nothing /\ Result32(x, v).rd = v
  BY DEF Retires32, Result32
<1>2. Result32(x, v).pc = x.next /\ Result32(x, v).store = Nothing
  BY DEF Retires32, Result32
<1>3. Raises32(x, cause).trap = cause /\ Raises32(x, cause).rd = Nothing
  BY DEF Retires32, Raises32
<1>4. Raises32(x, cause).pc = x.pc /\ Raises32(x, cause).store = Nothing
  BY DEF Retires32, Raises32
<1> QED
  BY <1>1, <1>2, <1>3, <1>4 DEF Retires32

LEMMA Supported32 ==
    ASSUME NEW op \in Integer32
    PROVE  op \notin Illegal32 /\ Requires32(op) \in misa32
<1> USE DEF Integer32, ImmOps32, RegOps32, ShiftOps32, UpperOps32, JumpOps32, BranchOps32, Loads32,
            Stores32, MulDivOps32, AmoOps32, FenceOps
<1>1. op \notin Illegal32
  BY DEF Illegal32
<1>2. op \notin LrScOps32
  BY DEF LrScOps32
<1>3. op \notin FpSingle
  BY DEF FpSingle, FpArith_S, FpFromX_S, FpToX_S, FpMinMax_S, FpSign_S, FpMoveToF_S, FpMoveToX_S,
         FpCompare_S, FpMem_S
<1>4. op \notin FpDouble
  BY DEF FpDouble, FpArith_D, FpFromX_D, FpConvert_D, FpToX_D, FpMinMax_D, FpSign_D, FpMoveToX_D,
         FpCompare_D, FpMem_D
<1>5. ~ (op \in MulDivOps32 /\ op \in AmoOps32)
  OBVIOUS
<1> HIDE DEF Integer32, ImmOps32, RegOps32, ShiftOps32, UpperOps32, JumpOps32, BranchOps32, Loads32,
             Stores32, MulDivOps32, AmoOps32, FenceOps
<1>6. Requires32(op) \in {"M", "A", "I"}
  BY <1>2, <1>3, <1>4, <1>5 DEF Requires32
<1> QED
  BY <1>1, <1>6 DEF misa32

LEMMA Exec32At ==
    ASSUME NEW x
    PROVE  /\ x.op \in ImmOps32 => Exec32(x) = Result32(x, Alu32(x.op, x.a, x.imm))
           /\ x.op \in RegOps32 => Exec32(x) = Result32(x, Alu32(x.op, x.a, x.b))
           /\ x.op \in ShiftOps32 => Exec32(x) = Result32(x, Shift32(x.op, x.a, x.imm))
           /\ x.op = "LUI" => Exec32(x) = Result32(x, Signed(x.imm, XLEN32))
           /\ x.op = "AUIPC" => Exec32(x) = Result32(x, Signed(x.pc + x.imm, XLEN32))
           /\ x.op \in JumpOps32 \cup BranchOps32 => Exec32(x) = ExecJump32(x)
           /\ x.op \in Loads32 \cup Stores32 => Exec32(x) = ExecMem32(x)
           /\ x.op \in {"MUL", "MULH", "MULHU", "MULHSU"} =>
                  Exec32(x) = Result32(x, Mul32(x.op, x.a, x.b))
           /\ x.op \in {"DIV", "DIVU", "REM", "REMU"} =>
                  Exec32(x) = Result32(x, Div32(x.op, x.a, x.b))
           /\ x.op \in AmoOps32 => Exec32(x) = ExecAmo32(x)
           /\ x.op \in FenceOps => Exec32(x) = Retires32(x)
<1> DEFINE Legal == ~ (x.op \in Illegal32 \/ Requires32(x.op) \notin misa32)
<1>0. x.op \in Integer32 => Legal
  BY Supported32
<1> HIDE DEF Legal
<1> USE DEF ImmOps32, RegOps32, ShiftOps32, UpperOps32, JumpOps32, BranchOps32, Loads32, Stores32,
            MulDivOps32, AmoOps32, FenceOps
<1>1. x.op \in ImmOps32 \cup RegOps32 \cup ShiftOps32 \cup {"LUI", "AUIPC"} \cup FenceOps => Legal
  BY <1>0 DEF Integer32
<1>2. x.op \in JumpOps32 \cup BranchOps32 \cup Loads32 \cup Stores32 => Legal
  BY <1>0 DEF Integer32
<1>3. x.op \in {"MUL", "MULH", "MULHU", "MULHSU", "DIV", "DIVU", "REM", "REMU"} \cup AmoOps32 => Legal
  BY <1>0 DEF Integer32
<1>4. x.op \in ImmOps32 => Exec32(x) = Result32(x, Alu32(x.op, x.a, x.imm))
  BY <1>1 DEF Exec32, Legal
<1>5. x.op \in RegOps32 => Exec32(x) = Result32(x, Alu32(x.op, x.a, x.b))
  BY <1>1 DEF Exec32, Legal
<1>6. x.op \in ShiftOps32 => Exec32(x) = Result32(x, Shift32(x.op, x.a, x.imm))
  BY <1>1 DEF Exec32, Legal
<1>7. x.op = "LUI" => Exec32(x) = Result32(x, Signed(x.imm, XLEN32))
  BY <1>1 DEF Exec32, Legal
<1>8. x.op = "AUIPC" => Exec32(x) = Result32(x, Signed(x.pc + x.imm, XLEN32))
  BY <1>1 DEF Exec32, Legal
<1>9. x.op \in JumpOps32 \cup BranchOps32 => Exec32(x) = ExecJump32(x)
  BY <1>2 DEF Exec32, Legal
<1>10. x.op \in Loads32 \cup Stores32 => Exec32(x) = ExecMem32(x)
  BY <1>2 DEF Exec32, Legal
<1>11. x.op \in {"MUL", "MULH", "MULHU", "MULHSU"} => Exec32(x) = Result32(x, Mul32(x.op, x.a, x.b))
  BY <1>3 DEF Exec32, Legal
<1>12. x.op \in {"DIV", "DIVU", "REM", "REMU"} => Exec32(x) = Result32(x, Div32(x.op, x.a, x.b))
  BY <1>3 DEF Exec32, Legal
<1>13. x.op \in AmoOps32 => Exec32(x) = ExecAmo32(x)
  BY <1>3 DEF Exec32, Legal
<1>14. x.op \in FenceOps => Exec32(x) = Retires32(x)
  BY <1>1 DEF Exec32, Legal
<1> HIDE DEF ImmOps32, RegOps32, ShiftOps32, UpperOps32, JumpOps32, BranchOps32, Loads32, Stores32,
             MulDivOps32, AmoOps32, FenceOps
<1> QED
  BY <1>4, <1>5, <1>6, <1>7, <1>8, <1>9, <1>10, <1>11, <1>12, <1>13, <1>14

LEMMA Exec64At ==
    ASSUME NEW x
    PROVE  /\ x.op \in ImmOps32 => Exec64(x) = Result32(x, Alu64(x.op, x.a, x.imm))
           /\ x.op \in RegOps32 => Exec64(x) = Result32(x, Alu64(x.op, x.a, x.b))
           /\ x.op \in ShiftOps32 => Exec64(x) = Result32(x, Shift64(x.op, x.a, x.imm))
           /\ x.op = "LUI" => Exec64(x) = Result32(x, Signed(x.imm, XLEN64))
           /\ x.op = "AUIPC" => Exec64(x) = Result32(x, Signed(x.pc + x.imm, XLEN64))
           /\ x.op \in JumpOps32 \cup BranchOps32 => Exec64(x) = ExecJump64(x)
           /\ x.op \in Loads64 \cup Stores64 => Exec64(x) = ExecMem64(x)
           /\ x.op = "ADDIW" => Exec64(x) = Result32(x, AluWord(x.op, x.a, x.imm, 0))
           /\ x.op \in {"SLLIW", "SRLIW", "SRAIW"} =>
                  Exec64(x) = Result32(x, AluWord(x.op, x.a, 0, x.imm))
           /\ x.op \in {"ADDW", "SUBW", "SLLW", "SRLW", "SRAW"} =>
                  Exec64(x) = Result32(x, AluWord(x.op, x.a, x.b, Shamt_w(x.b)))
           /\ x.op \in {"MUL", "MULH", "MULHU", "MULHSU"} =>
                  Exec64(x) = Result32(x, Mul64(x.op, x.a, x.b))
           /\ x.op \in {"DIV", "DIVU", "REM", "REMU"} =>
                  Exec64(x) = Result32(x, Div64(x.op, x.a, x.b))
           /\ x.op \in MulDivWordOps => Exec64(x) = Result32(x, MulDivWord(x.op, x.a, x.b))
           /\ x.op \in AmoOps32 \cup AmoDoubleOps => Exec64(x) = ExecAmo64(x)
           /\ x.op \in FenceOps => Exec64(x) = Retires32(x)
<1> USE DEF ImmOps32, RegOps32, ImmOps64, RegOps64, ShiftOps32, UpperOps32, JumpOps32, BranchOps32,
            Loads32, Stores32, Loads64, Stores64, MulDivOps32, MulDivWordOps, AmoOps32, AmoDoubleOps,
            FenceOps, Exec64
<1>1. x.op \in ImmOps32 => Exec64(x) = Result32(x, Alu64(x.op, x.a, x.imm))
  OBVIOUS
<1>2. x.op \in RegOps32 => Exec64(x) = Result32(x, Alu64(x.op, x.a, x.b))
  OBVIOUS
<1>3. x.op \in ShiftOps32 => Exec64(x) = Result32(x, Shift64(x.op, x.a, x.imm))
  OBVIOUS
<1>4. x.op = "LUI" => Exec64(x) = Result32(x, Signed(x.imm, XLEN64))
  OBVIOUS
<1>5. x.op = "AUIPC" => Exec64(x) = Result32(x, Signed(x.pc + x.imm, XLEN64))
  OBVIOUS
<1>6. x.op \in JumpOps32 \cup BranchOps32 => Exec64(x) = ExecJump64(x)
  OBVIOUS
<1>7. x.op \in Loads64 \cup Stores64 => Exec64(x) = ExecMem64(x)
  OBVIOUS
<1>8. x.op = "ADDIW" => Exec64(x) = Result32(x, AluWord(x.op, x.a, x.imm, 0))
  OBVIOUS
<1>9. x.op \in {"SLLIW", "SRLIW", "SRAIW"} => Exec64(x) = Result32(x, AluWord(x.op, x.a, 0, x.imm))
  OBVIOUS
<1>10. x.op \in {"ADDW", "SUBW", "SLLW", "SRLW", "SRAW"} =>
           Exec64(x) = Result32(x, AluWord(x.op, x.a, x.b, Shamt_w(x.b)))
  OBVIOUS
<1>11. x.op \in {"MUL", "MULH", "MULHU", "MULHSU"} => Exec64(x) = Result32(x, Mul64(x.op, x.a, x.b))
  OBVIOUS
<1>12. x.op \in {"DIV", "DIVU", "REM", "REMU"} => Exec64(x) = Result32(x, Div64(x.op, x.a, x.b))
  OBVIOUS
<1>13. x.op \in MulDivWordOps => Exec64(x) = Result32(x, MulDivWord(x.op, x.a, x.b))
  OBVIOUS
<1>14. x.op \in AmoOps32 \cup AmoDoubleOps => Exec64(x) = ExecAmo64(x)
  OBVIOUS
<1>15. x.op \in FenceOps => Exec64(x) = Retires32(x)
  OBVIOUS
<1> HIDE DEF ImmOps32, RegOps32, ImmOps64, RegOps64, ShiftOps32, UpperOps32, JumpOps32, BranchOps32,
             Loads32, Stores32, Loads64, Stores64, MulDivOps32, MulDivWordOps, AmoOps32, AmoDoubleOps,
             FenceOps, Exec64
<1> QED
  BY <1>1, <1>2, <1>3, <1>4, <1>5, <1>6, <1>7, <1>8, <1>9, <1>10, <1>11, <1>12, <1>13, <1>14, <1>15

-----------------------------------------------------------------------------
(* The inductive invariant: what a step took and what it gave.               *)

Jobs(a) ==
    [unit : {"normal"}, of : MajorOpcodes] \cup [unit : {"compressed"}, of : UpperBits]
        \cup [unit : {"execute"}, of : Integer[a]]

(* The parcels that decode_and_expand_compressed is given. *)
Parcels == {n \in Int : 0 <= n /\ n <= 65535 /\ is_compressed(n)}

(* The instructions that a core is given to execute, with their operands. *)
Executed(x, a) ==
    /\ x.op \in Integer[a]
    /\ x = [op |-> x.op, a |-> x.a, b |-> x.b, imm |-> x.imm, pc |-> 2, next |-> 6, mem |-> x.mem]
    /\ x.a \in Signeds(XLEN[a]) /\ x.b \in Signeds(XLEN[a])
    /\ x.imm \in Int /\ x.mem \in Int
    /\ x.op \in BranchOps32 \cup {"JAL"} => x.imm % 2 = 0
    /\ x.op \in ShiftOps32 => x.imm \in 0 .. XLEN[a] - 1
    /\ x.op \in {"SLLIW", "SRLIW", "SRAIW"} => x.imm \in 0 .. WORD - 1

ExecInv ==
    /\ isa \in Arch
    /\ job \in Jobs(isa)
    /\ \/ out = Nothing
       \/ job.unit = "normal" /\ in \in Words /\ out = decode_normal(in, isa)
       \/ job.unit = "compressed" /\ in \in Parcels /\ out = decode_and_expand_compressed(in, isa)
       \/ /\ job.unit = "execute" /\ Executed(in, isa)
          /\ out = IF isa = "RV32" THEN Exec32(in) ELSE Exec64(in)

LEMMA DecodeStep == ASSUME ExecInv, Decode PROVE ExecInv'
<1>1. isa \in Arch /\ job \in Jobs(isa) /\ job.unit = "normal" /\ isa' = isa /\ job' = job
  BY DEF ExecInv, Decode
<1>2. job.of \in MajorOpcodes
  BY <1>1 DEF Jobs
<1>3. in' \in Words /\ out' = decode_normal(in', isa)
  <2>1. PICK f3 \in 0 .. 7, f7 \in 0 .. 127, r \in Registers :
            LET w == RWord(job.of, f3, f7, r[1], r[2], r[3])
            IN in' = w /\ out' = decode_normal(w, isa)
    BY DEF Decode
  <2>2. r[1] \in 0 .. 31 /\ r[2] \in 0 .. 31 /\ r[3] \in 0 .. 31
    BY ExecAssumption
  <2>3. in' = RWord(job.of, f3, f7, r[1], r[2], r[3]) /\ out' = decode_normal(in', isa)
    BY <2>1
  <2>4. RWord(job.of, f3, f7, r[1], r[2], r[3]) \in Words
    BY <1>2, <2>2 DEF RWord, Words
  <2> QED
    BY <2>3, <2>4
<1> QED
  BY <1>1, <1>3 DEF ExecInv

ParcelAt(k, n) == k * 1024 + n

LEMMA ParcelFits ==
    ASSUME NEW k \in Int, 0 <= k, k <= 63, NEW n \in Int, 0 <= n, n <= 1023, n % 4 < 3
    PROVE  ParcelAt(k, n) \in Parcels
<1>1. k * 1024 + n \in Int /\ 0 <= k * 1024 + n /\ k * 1024 + n <= 65535
  OBVIOUS
<1>2. (k * 1024 + n) % 4 < 3
  OBVIOUS
<1> QED
  BY <1>1, <1>2 DEF ParcelAt, Parcels, is_compressed, quadrant

LEMMA ExpandStep == ASSUME ExecInv, Expand PROVE ExecInv'
<1>1. isa \in Arch /\ job \in Jobs(isa) /\ job.unit = "compressed" /\ isa' = isa /\ job' = job
  BY DEF ExecInv, Expand
<1>2. job.of \in Int /\ 0 <= job.of /\ job.of <= 63
  BY <1>1 DEF Jobs, UpperBits
<1>3. in' \in Parcels /\ out' = decode_and_expand_compressed(in', isa)
  <2>1. PICK n \in {m \in 0 .. 1023 : is_compressed(m)} :
            LET parcel == job.of * 1024 + n
            IN in' = parcel /\ out' = decode_and_expand_compressed(parcel, isa)
    BY DEF Expand
  <2>2. n \in Int /\ 0 <= n /\ n <= 1023 /\ n % 4 < 3
    BY <2>1 DEF is_compressed, quadrant
  <2>3. in' = job.of * 1024 + n /\ out' = decode_and_expand_compressed(in', isa)
    BY <2>1
  <2>4. ParcelAt(job.of, n) \in Parcels
    BY <1>2, <2>2, ParcelFits
  <2> QED
    BY <2>3, <2>4 DEF ParcelAt
<1> QED
  BY <1>1, <1>3 DEF ExecInv

LEMMA SignedsAre ==
    ASSUME NEW w, Width(w)
    PROVE  /\ \A x \in Signeds(w) : x \in Int /\ -Pow2[w - 1] <= x /\ x < Pow2[w - 1]
           /\ 0 \in Signeds(w)
  BY PowerOfWidth DEF Signeds

LEMMA XLENIs ==
    ASSUME NEW a \in Arch
    PROVE  /\ XLEN[a] = IF a = "RV32" THEN XLEN32 ELSE XLEN64
           /\ Width(XLEN[a])
  BY Widths DEF Arch, XLEN

LEMMA OperandsFit ==
    ASSUME isa \in Arch, NEW op
    PROVE  /\ Firsts(op) \subseteq Signeds(XLEN[isa])
           /\ Seconds(op) \subseteq Signeds(XLEN[isa])
<1>1. isa = "RV32" \/ (isa = "RV64" /\ XLEN[isa] = XLEN64)
  BY XLENIs DEF Arch
<1>2. isa = "RV32" => XLEN[isa] = XLEN32
  BY XLENIs
<1>3. 0 \in Signeds(XLEN[isa])
  BY XLENIs, SignedsAre
<1>4. isa = "RV64" => Edges \subseteq Signeds(XLEN[isa])
  BY <1>1, ExecAssumption
<1>5. Firsts(op) \subseteq Signeds(XLEN[isa])
  BY <1>4 DEF Firsts
<1> QED
  BY <1>1, <1>2, <1>3, <1>4, <1>5 DEF Seconds

LEMMA ImmediatesFit ==
    ASSUME isa \in Arch, NEW op, NEW i \in Immediates(op)
    PROVE  /\ i \in Int
           /\ op \in BranchOps32 \cup {"JAL"} => i % 2 = 0
           /\ op \in ShiftOps32 => i \in 0 .. XLEN[isa] - 1
           /\ op \in {"SLLIW", "SRLIW", "SRAIW"} => i \in 0 .. WORD - 1
<1>1. ~ (op \in ShiftOps32 /\ op \in {"SLLIW", "SRLIW", "SRAIW"})
  BY DEF ShiftOps32
<1>2. ~ (op \in BranchOps32 \cup {"JAL"} /\ op \in ShiftOps32 \cup {"SLLIW", "SRLIW", "SRAIW"})
  BY DEF ShiftOps32, BranchOps32
<1>3. ~ (op \in ImmOps32 \cup {"ADDIW", "JALR"} \cup UpperOps32 \cup Loads64 \cup Stores64
            /\ op \in ShiftOps32 \cup {"SLLIW", "SRLIW", "SRAIW"} \cup BranchOps32 \cup {"JAL"})
  BY DEF ShiftOps32, BranchOps32, ImmOps32, UpperOps32, Loads64, Loads32, Stores64, Stores32
<1>4. XLEN[isa] \in Int /\ WORD \in Int /\ Jumps \subseteq Int
  BY XLENIs, Widths, ExecAssumption DEF Width
<1>5. CASE op \in ShiftOps32
  BY <1>1, <1>2, <1>3, <1>4, <1>5 DEF Immediates
<1>6. CASE op \in {"SLLIW", "SRLIW", "SRAIW"}
  BY <1>1, <1>2, <1>3, <1>4, <1>6 DEF Immediates
<1>7. CASE op \in BranchOps32 \cup {"JAL"}
  BY <1>2, <1>3, <1>4, <1>7 DEF Immediates
<1>8. CASE op \in ImmOps32 \cup {"ADDIW", "JALR"} \cup UpperOps32 \cup Loads64 \cup Stores64
  BY <1>3, <1>4, <1>8 DEF Immediates
<1> QED
  BY <1>5, <1>6, <1>7, <1>8 DEF Immediates

LEMMA ExecuteStep == ASSUME ExecInv, Execute PROVE ExecInv'
<1>1. isa \in Arch /\ job \in Jobs(isa) /\ job.unit = "execute" /\ isa' = isa /\ job' = job
  BY DEF ExecInv, Execute
<1>2. job.of \in Integer[isa]
  BY <1>1 DEF Jobs
<1>3. PICK a \in Firsts(job.of), b \in Seconds(job.of), imm \in Immediates(job.of),
           mem \in IF ReadsMemory(job.of) THEN Edges ELSE {0} :
           LET x == [op |-> job.of, a |-> a, b |-> b, imm |-> imm, pc |-> 2, next |-> 6,
                     mem |-> mem]
           IN in' = x /\ out' = IF isa = "RV32" THEN Exec32(x) ELSE Exec64(x)
  BY DEF Execute
<1>4. a \in Signeds(XLEN[isa]) /\ b \in Signeds(XLEN[isa])
  BY <1>1, OperandsFit
<1>5. mem \in Int
  BY SignedsAre, Widths, ExecAssumption
<1> DEFINE x == [op |-> job.of, a |-> a, b |-> b, imm |-> imm, pc |-> 2, next |-> 6, mem |-> mem]
<1>6. in' = x /\ out' = IF isa = "RV32" THEN Exec32(x) ELSE Exec64(x)
  BY <1>3
<1>7. x.op = job.of /\ x.a = a /\ x.b = b /\ x.imm = imm /\ x.mem = mem
  OBVIOUS
<1>8. x = [op |-> x.op, a |-> x.a, b |-> x.b, imm |-> x.imm, pc |-> 2, next |-> 6, mem |-> x.mem]
  OBVIOUS
<1> HIDE DEF x
<1>9. Executed(x, isa)
  BY <1>1, <1>2, <1>4, <1>5, <1>7, <1>8, ImmediatesFit DEF Executed
<1> QED
  BY <1>1, <1>6, <1>9 DEF ExecInv

LEMMA ProceedStep == ASSUME ExecInv, Proceed PROVE ExecInv'
  BY DEF ExecInv, Proceed

(* Every step of a job took a word, a parcel or operands of the code's      *)
(* ranges, and its result is what the decoder or the executor computes.     *)
THEOREM ExecInvariant == ExecSpec => []ExecInv
<1>1. ExecInit => ExecInv
  BY DEF ExecInit, ExecInv, Jobs
<1>2. ASSUME ExecInv, [ExecNext]_execVars PROVE ExecInv'
  <2>1. CASE UNCHANGED execVars
    BY <1>2, <2>1 DEF execVars, ExecInv
  <2>2. CASE ExecNext
    BY <1>2, <2>2, DecodeStep, ExpandStep, ExecuteStep, ProceedStep DEF ExecNext
  <2> QED
    BY <1>2, <2>1, <2>2
<1> QED
  BY <1>1, <1>2, PTL DEF ExecSpec

-----------------------------------------------------------------------------
(* decode_normal.                                                            *)

(* What a step of each job left behind. *)
LEMMA After ==
    ASSUME ExecInv
    PROVE  /\ AfterDecode => isa \in Arch /\ in \in Words /\ out = decode_normal(in, isa)
           /\ AfterExpand => /\ isa \in Arch /\ in \in Parcels
                             /\ out = decode_and_expand_compressed(in, isa)
           /\ AfterExecute => /\ isa \in Arch /\ Executed(in, isa)
                              /\ out = IF isa = "RV32" THEN Exec32(in) ELSE Exec64(in)
  BY DEF ExecInv, AfterDecode, AfterExpand, AfterExecute

LEMMA DecodeMatches ==
    ASSUME NEW w \in Words, NEW a \in Arch
    PROVE  {op \in OpsOf[a][w.opcode] : Matches(w, Encoding[a][op])}
               = {decode_normal(w, a)} \ {"UNDEF"}
<1>1. w.opcode \in MajorOpcodes
  BY DEF Words
<1>2. OpsOf[a][w.opcode] = {op \in Ops : Encoding[a][op].opcode = w.opcode}
  BY <1>1 DEF OpsOf
<1>3. "UNDEF" \notin Ops
  BY OpsAreEncoded, UndefIsNoOp
<1> QED
  BY <1>2, <1>3, DecodeNormal

(* For every word, opcode and core, decode_normal returns the only          *)
(* instruction of the table whose mask matches, and "UNDEF" if none does.   *)
THEOREM DecodeIsExact == ExecSpec => []DecodeMatchesEncoding
<1>1. ExecInv => DecodeMatchesEncoding
  BY After, DecodeMatches DEF DecodeMatchesEncoding
<1> QED
  BY <1>1, ExecInvariant, PTL

-----------------------------------------------------------------------------
(* Every instruction is handled and named.                                   *)

LEMMA AllHandled ==
    ASSUME NEW op \in Encoded \cup {"UNDEF"}
    PROVE  op \in Handled32 /\ op \in Handled64
<1> USE DEF Handled32, Handled64, Integer64, Integer32, ImmOps32, RegOps32, ShiftOps32, UpperOps32,
        JumpOps32, BranchOps32, Loads32, Stores32, MulDivOps32, AmoOps32, FenceOps, Illegal32,
        LrScOps32, CsrOps, SystemOps, WordOps, MulDivWordOps, AmoDoubleOps
<1>1. op \in DOMAIN ENC_RV32I => op \in Handled32 /\ op \in Handled64
  BY DEF ENC_RV32I
<1>2. op \in DOMAIN ENC_Shift_RV32 => op \in Handled32 /\ op \in Handled64
  BY DEF ENC_Shift_RV32
<1>3. op \in DOMAIN ENC_RV32MA => op \in Handled32 /\ op \in Handled64
  BY DEF ENC_RV32MA
<1>4. op \in DOMAIN ENC_Priv => op \in Handled32 /\ op \in Handled64
  BY DEF ENC_Priv
<1>5. op \in DOMAIN ENC_RV64IMA => op \in Handled32 /\ op \in Handled64
  BY DEF ENC_RV64IMA
<1>6. op \in DOMAIN ENC_F => op \in FpSingle \cup Fp64
  BY DEF ENC_F, FpSingle, FpArith_S, FpFromX_S, FpToX_S, FpMinMax_S, FpSign_S, FpMoveToF_S,
         FpMoveToX_S, FpCompare_S, FpMem_S, Fp64, FpFromX_64, FpToX_64, FpMoveToF_64, FpMoveToX_64
<1>7. op \in DOMAIN ENC_D => op \in FpDouble \cup Fp64
  BY DEF ENC_D, FpDouble, FpArith_D, FpFromX_D, FpConvert_D, FpToX_D, FpMinMax_D, FpSign_D,
         FpMoveToX_D, FpCompare_D, FpMem_D, Fp64, FpFromX_64, FpToX_64, FpMoveToF_64, FpMoveToX_64
<1>8. op \in Fp64 => op \in Illegal32
  BY DEF Fp64, FpFromX_64, FpToX_64, FpMoveToF_64, FpMoveToX_64
<1>9. op = "UNDEF" => op \in Handled32 /\ op \in Handled64
  OBVIOUS
<1> QED
  BY <1>1, <1>2, <1>3, <1>4, <1>5, <1>6, <1>7, <1>8, <1>9 DEF Encoded

LEMMA AllNamed ==
    ASSUME NEW op \in Ops
    PROVE  \E i \in 1 .. Len(Mapping) : Mapping[i] = op /\ mappingStr[i] = op
<1>1. PICK i \in 2 .. Len(Mapping) : op = Mapping[i]
  BY DEF Ops
<1>2. i \in Int /\ 2 <= i /\ i <= 162 /\ i \in 1 .. Len(Mapping)
  BY MappingAt
<1> QED
  BY <1>1, <1>2, NamesAgree

LEMMA Known ==
    ASSUME NEW a \in Arch, NEW op \in Ops \cup {"UNDEF"}
    PROVE  /\ op \in Handled[a]
           /\ op # "UNDEF" => \E i \in 1 .. Len(Mapping) : Mapping[i] = op /\ mappingStr[i] = op
<1>1. Handled[a] \in {Handled32, Handled64}
  BY DEF Arch, Handled
<1> QED
  BY <1>1, AllHandled, AllNamed, OpsAreEncoded

-----------------------------------------------------------------------------
(* The formats: a word holds the immediate it was built with.                *)

LEMMA SextIs ==
    ASSUME NEW u \in Int, 0 <= u
    PROVE  /\ u < 4096 => Sext(u, 12) = IF u < 2048 THEN u ELSE u - 4096
           /\ u < 8192 => Sext(u, 13) = IF u < 4096 THEN u ELSE u - 8192
           /\ u < 1048576 => Sext(u, 20) = IF u < 524288 THEN u ELSE u - 1048576
           /\ u < 2097152 => Sext(u, 21) = IF u < 1048576 THEN u ELSE u - 2097152
  BY SMT DEF Sext, Bit, Slice

LEMMA IFormat ==
    ASSUME NEW o, NEW f3, NEW rd, NEW rs1, NEW imm \in Int, -2048 <= imm, imm < 2048
    PROVE  /\ Slice(imm, 11, 5) \in 0 .. 127 /\ Slice(imm, 4, 0) \in 0 .. 31
           /\ I_imm(IWord(o, f3, rd, rs1, imm)) = imm
<1> DEFINE h == Slice(imm, 11, 5)
           l == Slice(imm, 4, 0)
<1>1. h \in 0 .. 127 /\ l \in 0 .. 31
  BY DEF Slice
<1>2. h * 32 + l = IF imm < 0 THEN imm + 4096 ELSE imm
  BY DEF Slice
<1>3. IWord(o, f3, rd, rs1, imm).funct7 = h /\ IWord(o, f3, rd, rs1, imm).rs2 = l
  BY DEF IWord, RWord
<1> HIDE DEF h, l
<1>4. Sext(h * 32 + l, 12) = imm
  BY <1>1, <1>2, SextIs
<1> QED
  BY <1>1, <1>3, <1>4 DEF I_imm, h, l

LEMMA SFormat ==
    ASSUME NEW o, NEW f3, NEW rs1, NEW rs2, NEW imm \in Int, -2048 <= imm, imm < 2048
    PROVE  S_imm(SWord(o, f3, rs1, rs2, imm)) = imm
<1> DEFINE h == Slice(imm, 11, 5)
           l == Slice(imm, 4, 0)
<1>1. h \in 0 .. 127 /\ l \in 0 .. 31
  BY DEF Slice
<1>2. h * 32 + l = IF imm < 0 THEN imm + 4096 ELSE imm
  BY DEF Slice
<1>3. SWord(o, f3, rs1, rs2, imm).funct7 = h /\ SWord(o, f3, rs1, rs2, imm).rd = l
  BY DEF SWord, RWord
<1> HIDE DEF h, l
<1>4. Sext(h * 32 + l, 12) = imm
  BY <1>1, <1>2, SextIs
<1> QED
  BY <1>1, <1>3, <1>4 DEF S_imm

LEMMA BFormat ==
    ASSUME NEW f3, NEW rs1, NEW rs2, NEW imm \in Int, -4096 <= imm, imm < 4096, imm % 2 = 0
    PROVE  LET w == BWord(f3, rs1, rs2, imm)
           IN w.funct7 \in 0 .. 127 /\ w.rd \in 0 .. 31 /\ B_imm(w) = imm
<1> DEFINE s == Bit(imm, 12)
           m == Slice(imm, 10, 5)
           l == Slice(imm, 4, 1)
           t == Bit(imm, 11)
           w == BWord(f3, rs1, rs2, imm)
<1>1. s \in 0 .. 1 /\ m \in 0 .. 63 /\ l \in 0 .. 15 /\ t \in 0 .. 1
  BY DEF Slice, Bit
<1>2. s * 4096 + t * 2048 + m * 32 + l * 2 = IF imm < 0 THEN imm + 8192 ELSE imm
  BY DEF Slice, Bit
<1>3. w.funct7 = s * 64 + m /\ w.rd = l * 2 + t
  BY DEF BWord, RWord
<1> HIDE DEF s, m, l, t, w
<1>4. Bit(w.funct7, 6) = s /\ Slice(w.funct7, 5, 0) = m
  BY <1>1, <1>3 DEF Bit, Slice
<1>5. Bit(w.rd, 0) = t /\ Slice(w.rd, 4, 1) = l
  BY <1>1, <1>3 DEF Bit, Slice
<1>6. w.funct7 \in 0 .. 127 /\ w.rd \in 0 .. 31
  BY <1>1, <1>3
<1>7. Sext(s * 4096 + t * 2048 + m * 32 + l * 2, 13) = imm
  BY <1>1, <1>2, SextIs
<1>8. B_imm(w) = imm
  BY <1>4, <1>5, <1>7 DEF B_imm
<1> QED
  BY <1>6, <1>8 DEF w

LEMMA UFormat ==
    ASSUME NEW rd, NEW k \in Int, -524288 <= k, k < 524288
    PROVE  LET w == UWord(rd, k * 4096)
           IN /\ w.funct3 \in 0 .. 7 /\ w.funct7 \in 0 .. 127 /\ w.rs1 \in 0 .. 31
              /\ w.rs2 \in 0 .. 31 /\ U_imm(w) = k * 4096
<1> DEFINE imm == k * 4096
           a == Slice(imm, 31, 25)
           b == Slice(imm, 24, 20)
           c == Slice(imm, 19, 15)
           d == Slice(imm, 14, 12)
           w == UWord(rd, imm)
<1>1. a \in 0 .. 127 /\ b \in 0 .. 31 /\ c \in 0 .. 31 /\ d \in 0 .. 7
  BY SMT DEF Slice
<1>2. d = k % 8 /\ c = (k \div 8) % 32 /\ b = (k \div 256) % 32 /\ a = (k \div 8192) % 128
  BY SMT DEF Slice
<1>3. w.funct7 = a /\ w.rs2 = b /\ w.rs1 = c /\ w.funct3 = d
  BY SMT DEF UWord, RWord
<1> HIDE DEF a, b, c, d, w
<1>4. a * 8192 + b * 256 + c * 8 + d = IF k < 0 THEN k + 1048576 ELSE k
  BY SMT, <1>2
<1>5. Sext(a * 8192 + b * 256 + c * 8 + d, 20) = k
  BY SMT, <1>1, <1>4, SextIs
<1>6. U_imm(w) = k * 4096
  BY SMT, <1>3, <1>5 DEF U_imm
<1> QED
  BY SMT, <1>1, <1>3, <1>6 DEF w

LEMMA JFormat ==
    ASSUME NEW rd, NEW imm \in Int, -1048576 <= imm, imm < 1048576, imm % 2 = 0
    PROVE  LET w == JWord(rd, imm)
           IN /\ w.funct3 \in 0 .. 7 /\ w.funct7 \in 0 .. 127 /\ w.rs1 \in 0 .. 31
              /\ w.rs2 \in 0 .. 31 /\ J_imm(w) = imm
<1> DEFINE s == Bit(imm, 20)
           h == Slice(imm, 19, 15)
           g == Slice(imm, 14, 12)
           t == Bit(imm, 11)
           m == Slice(imm, 10, 5)
           l == Slice(imm, 4, 1)
           w == JWord(rd, imm)
<1>1. s \in 0 .. 1 /\ t \in 0 .. 1 /\ h \in 0 .. 31 /\ g \in 0 .. 7 /\ m \in 0 .. 63 /\ l \in 0 .. 15
  BY SMT DEF Slice, Bit
<1>2. /\ s = (imm \div 1048576) % 2 /\ h = (imm \div 32768) % 32 /\ g = (imm \div 4096) % 8
      /\ t = (imm \div 2048) % 2 /\ m = (imm \div 32) % 64 /\ l = (imm \div 2) % 16
  BY SMT DEF Slice, Bit
<1>3. w.funct7 = s * 64 + m /\ w.rs2 = l * 2 + t /\ w.rs1 = h /\ w.funct3 = g
  BY SMT DEF JWord, RWord
<1> HIDE DEF s, h, g, t, m, l, w
<1>4. s * 1048576 + h * 32768 + g * 4096 + t * 2048 + m * 32 + l * 2
          = IF imm < 0 THEN imm + 2097152 ELSE imm
  <2>1. imm = 32 * (imm \div 32) + l * 2
    BY SMT, <1>2
  <2>2. imm \div 32 = 64 * (imm \div 2048) + m
    BY SMT, <1>2
  <2>3. imm \div 2048 = 2 * (imm \div 4096) + t
    BY SMT, <1>2
  <2>4. imm \div 4096 = 8 * (imm \div 32768) + g
    BY SMT, <1>2
  <2>5. imm \div 32768 = 32 * (imm \div 1048576) + h
    BY SMT, <1>2
  <2>6. imm \div 1048576 = (IF imm < 0 THEN -1 ELSE 0) /\ s = (IF imm < 0 THEN 1 ELSE 0)
    BY SMT, <1>2
  <2> QED
    BY SMT, <1>1, <2>1, <2>2, <2>3, <2>4, <2>5, <2>6
<1>5. Bit(w.funct7, 6) = s /\ Slice(w.funct7, 5, 0) = m
  BY SMT, <1>1, <1>3 DEF Bit, Slice
<1>6. Bit(w.rs2, 0) = t /\ Slice(w.rs2, 4, 1) = l
  BY SMT, <1>1, <1>3 DEF Bit, Slice
<1>7. w.funct7 \in 0 .. 127 /\ w.rs2 \in 0 .. 31
  BY SMT, <1>1, <1>3
<1>8. Sext(s * 1048576 + h * 32768 + g * 4096 + t * 2048 + m * 32 + l * 2, 21) = imm
  BY SMT, <1>1, <1>4, SextIs
<1>9. J_imm(w) = imm
  BY SMT, <1>3, <1>5, <1>6, <1>8 DEF J_imm
<1> QED
  BY SMT, <1>1, <1>3, <1>7, <1>9 DEF w

LEMMA ShiftFormat ==
    ASSUME NEW f3, NEW f7 \in {0, 32}, NEW rd, NEW rs1, NEW n \in Int, 0 <= n, n <= 63
    PROVE  LET w == ShiftWord(f3, f7, rd, rs1, n)
           IN /\ w.funct7 \in 0 .. 127 /\ w.rs2 \in 0 .. 31
              /\ shamt(w) = n /\ funct6(w) = f7 \div 2 /\ (n <= 31 => w.funct7 = f7)
<1> DEFINE w == ShiftWord(f3, f7, rd, rs1, n)
<1>1. w.funct7 = f7 + ((n \div 32) % 2) /\ w.rs2 = n % 32
  BY DEF ShiftWord, RWord, Bit, Slice
<1> HIDE DEF w
<1>2. w.funct7 \in 0 .. 127 /\ w.rs2 \in 0 .. 31
  BY <1>1
<1>3. shamt(w) = n /\ funct6(w) = f7 \div 2
  BY <1>1 DEF shamt, funct6
<1>4. n <= 31 => w.funct7 = f7
  BY <1>1
<1> QED
  BY <1>2, <1>3, <1>4 DEF w

-----------------------------------------------------------------------------
(* expand_compressed.                                                        *)

(* The fields and immediates of a parcel are in the range of their format. *)
LEMMA ParcelFields ==
    ASSUME NEW n \in Parcels
    PROVE  /\ n \in Int /\ 0 <= n /\ n <= 65535
           /\ c_rd(n) \in 0 .. 31 /\ c_rs2(n) \in 0 .. 31
           /\ c_rd_small(n) \in 0 .. 31 /\ c_rs2_small(n) \in 0 .. 31
           /\ c_uimm(n) \in Int /\ 0 <= c_uimm(n) /\ c_uimm(n) <= 63
<1>1. n \in Int /\ 0 <= n /\ n <= 65535
  BY DEF Parcels
<1>2. c_rd(n) \in 0 .. 31 /\ c_rs2(n) \in 0 .. 31
  BY <1>1 DEF c_rd, c_rs2, Slice
<1>3. c_rd_small(n) \in 0 .. 31 /\ c_rs2_small(n) \in 0 .. 31
  BY <1>1 DEF c_rd_small, c_rs2_small, Slice
<1>4. c_uimm(n) \in Int /\ 0 <= c_uimm(n) /\ c_uimm(n) <= 63
  BY <1>1 DEF c_uimm, Slice, Bit
<1> QED
  BY <1>1, <1>2, <1>3, <1>4

Imm12(i) == i \in Int /\ -2048 <= i /\ i < 2048

LEMMA ParcelImmediates ==
    ASSUME NEW n \in Int
    PROVE  /\ Imm12(c_imm(n)) /\ Imm12(C_ADDI4SPN_NZUIMM(n)) /\ Imm12(C_ADDI16SP_NZIMM(n))
           /\ Imm12(C_LW_UIMM(n)) /\ Imm12(C_LD_UIMM(n))
           /\ Imm12(C_LWSP_UIMM(n)) /\ Imm12(C_LDSP_UIMM(n))
           /\ Imm12(C_SWSP_UIMM(n)) /\ Imm12(C_SDSP_UIMM(n))
           /\ Imm12(C_JAL_IMM(n)) /\ C_JAL_IMM(n) % 2 = 0
           /\ Imm12(C_BRANCH_IMM(n)) /\ C_BRANCH_IMM(n) % 2 = 0
           /\ \E k \in Int : -32 <= k /\ k < 32 /\ C_LUI_NZIMM(n) = k * 4096
<1> USE DEF Slice, Bit, SignBit, Imm12
<1>1. Imm12(c_imm(n)) /\ Imm12(C_ADDI4SPN_NZUIMM(n))
  BY DEF c_imm, C_ADDI4SPN_NZUIMM
<1>2. Imm12(C_ADDI16SP_NZIMM(n))
  BY DEF C_ADDI16SP_NZIMM
<1>3. Imm12(C_LW_UIMM(n)) /\ Imm12(C_LD_UIMM(n))
  BY DEF C_LW_UIMM, C_LD_UIMM
<1>4. Imm12(C_LWSP_UIMM(n)) /\ Imm12(C_LDSP_UIMM(n))
  BY DEF C_LWSP_UIMM, C_LDSP_UIMM
<1>5. Imm12(C_SWSP_UIMM(n)) /\ Imm12(C_SDSP_UIMM(n))
  BY DEF C_SWSP_UIMM, C_SDSP_UIMM
<1>6. Imm12(C_JAL_IMM(n)) /\ C_JAL_IMM(n) % 2 = 0
  BY DEF C_JAL_IMM
<1>7. Imm12(C_BRANCH_IMM(n)) /\ C_BRANCH_IMM(n) % 2 = 0
  BY DEF C_BRANCH_IMM
<1>8. \E k \in Int : -32 <= k /\ k < 32 /\ C_LUI_NZIMM(n) = k * 4096
  <2> DEFINE k == Slice(n, 6, 2) - Bit(n, 12) * 32
  <2>1. k \in Int /\ -32 <= k /\ k < 32 /\ C_LUI_NZIMM(n) = k * 4096
    BY SMT DEF C_LUI_NZIMM
  <2> HIDE DEF k
  <2> QED
    BY <2>1
<1> QED
  BY <1>1, <1>2, <1>3, <1>4, <1>5, <1>6, <1>7, <1>8

(* The format of the instructions that expand_compressed gives. *)
LEMMA FormatOf ==
    ASSUME NEW op, NEW w
    PROVE  /\ op \in {"SLLI", "SRLI", "SRAI"} => WordImmediate(op, w) = shamt(w)
           /\ op \in {"ADD", "AND", "OR", "XOR", "SUB", "ADDW", "SUBW"} => WordImmediate(op, w) = 0
           /\ op \in {"LW", "LD", "FLW", "FLD", "ADDI", "ADDIW", "ANDI", "JALR"} =>
                  WordImmediate(op, w) = I_imm(w)
           /\ op \in {"SW", "SD", "FSW", "FSD"} => WordImmediate(op, w) = S_imm(w)
           /\ op \in {"BEQ", "BNE"} => WordImmediate(op, w) = B_imm(w)
           /\ op = "LUI" => WordImmediate(op, w) = U_imm(w)
           /\ op = "JAL" => WordImmediate(op, w) = J_imm(w)
<1> USE DEF R_int, R_fp, I_type, S_type, B_type, U_type, J_type, R4_type
<1>1. op \in {"ADD", "AND", "OR", "XOR", "SUB", "ADDW", "SUBW"} => getType(op) = "R"
  BY DEF getType
<1>2. op \in {"LW", "LD", "FLW", "FLD", "ADDI", "ADDIW", "ANDI", "JALR"} => getType(op) = "I"
  BY DEF getType
<1>3. op \in {"SW", "SD", "FSW", "FSD"} => getType(op) = "S"
  BY DEF getType
<1>4. op \in {"BEQ", "BNE"} => getType(op) = "B"
  BY DEF getType
<1>5. op = "LUI" => getType(op) = "U"
  BY DEF getType
<1>6. op = "JAL" => getType(op) = "J"
  BY DEF getType
<1>7. op \in {"SLLI", "SRLI", "SRAI"} => getType(op) = "R"
  BY DEF getType
<1> HIDE DEF R_int, R_fp, I_type, S_type, B_type, U_type, J_type, R4_type
<1> USE DEF WordImmediate, ShiftOps32
<1>8. op \in {"SLLI", "SRLI", "SRAI"} => WordImmediate(op, w) = shamt(w)
  BY <1>7
<1>9. op \in {"ADD", "AND", "OR", "XOR", "SUB", "ADDW", "SUBW"} => WordImmediate(op, w) = 0
  BY <1>1
<1>10. op \in {"LW", "LD", "FLW", "FLD", "ADDI", "ADDIW", "ANDI", "JALR"} =>
           WordImmediate(op, w) = I_imm(w)
  BY <1>2
<1>11. op \in {"SW", "SD", "FSW", "FSD"} => WordImmediate(op, w) = S_imm(w)
  BY <1>3
<1>12. op \in {"BEQ", "BNE"} => WordImmediate(op, w) = B_imm(w)
  BY <1>4
<1>13. op = "LUI" => WordImmediate(op, w) = U_imm(w)
  BY <1>5
<1>14. op = "JAL" => WordImmediate(op, w) = J_imm(w)
  BY <1>6
<1> QED
  BY <1>8, <1>9, <1>10, <1>11, <1>12, <1>13, <1>14

LEMMA WordOpcodes == {3, 7, 19, 35, 39, 51, 55, 59, 99, 103, 111, 115} \subseteq MajorOpcodes
<1> SUFFICES ASSUME NEW o \in {3, 7, 19, 35, 39, 51, 55, 59, 99, 103, 111, 115}
             PROVE  o \in MajorOpcodes
  OBVIOUS
<1>1. (o - 3) \div 4 \in 0 .. 31 /\ o = 4 * ((o - 3) \div 4) + 3
  OBVIOUS
<1> QED
  BY <1>1 DEF MajorOpcodes

LEMMA Built ==
    ASSUME NEW o, NEW f3, NEW f7, NEW rd, NEW rs1, NEW rs2, o \in MajorOpcodes, f3 \in 0 .. 7,
           f7 \in 0 .. 127, rd \in 0 .. 31, rs1 \in 0 .. 31, rs2 \in 0 .. 31
    PROVE  LET w == RWord(o, f3, f7, rd, rs1, rs2)
           IN w \in Words /\ w.opcode = o /\ w.funct3 = f3 /\ w.funct7 = f7
  BY DEF RWord, Words

(* e is undefined, or its word decodes to its instruction and holds its    *)
(* immediate.                                                              *)
Faithful(e, a) ==
    \/ e.op = "UNDEF"
    \/ /\ e.op \in Ops
       /\ decode_normal(e.word, a) = IF e.op = "ADDIW" THEN "ADDI" ELSE e.op
       /\ e.op = "EBREAK" \/ WordImmediate(e.op, e.word) = e.imm

LEMMA FaithfulUnless ==
    ASSUME NEW e, NEW a, NEW reserved, ~reserved => Faithful(e, a)
    PROVE  Faithful(Unless(reserved, e), a)
  BY DEF Unless, Undefined, Expanded, Faithful

LEMMA FaithfulIf ==
    ASSUME NEW op \in Encoded, NEW w \in Words, NEW imm, NEW a \in Arch,
           Matches(w, Encoding[a][op]), op # "ADDIW",
           op = "EBREAK" \/ WordImmediate(op, w) = imm
    PROVE  Faithful(Expanded(op, w, imm), a)
<1>1. op \in Ops /\ decode_normal(w, a) = op
  BY DecodeNormal, OpsAreEncoded
<1>2. Expanded(op, w, imm).op = op /\ Expanded(op, w, imm).word = w /\ Expanded(op, w, imm).imm = imm
  BY DEF Expanded
<1> QED
  BY <1>1, <1>2 DEF Faithful

LEMMA FaithfulReg ==
    ASSUME NEW a \in Arch, NEW op, NEW o, NEW f3, NEW f7, NEW rd, NEW rs1, NEW rs2,
           op \in {"ADD", "AND", "OR", "XOR", "SUB", "ADDW", "SUBW"}, op \in Encoded,
           o \in {51, 59}, f3 \in 0 .. 7, f7 \in {0, 32}, Encoding[a][op] = OpF3F7(o, f3, f7),
           rd \in 0 .. 31, rs1 \in 0 .. 31, rs2 \in 0 .. 31
    PROVE  Faithful(Expanded(op, RWord(o, f3, f7, rd, rs1, rs2), 0), a)
<1> DEFINE w == RWord(o, f3, f7, rd, rs1, rs2)
<1>0. o \in MajorOpcodes /\ f7 \in 0 .. 127
  BY WordOpcodes
<1>1. w \in Words /\ w.opcode = o /\ w.funct3 = f3 /\ w.funct7 = f7
  BY <1>0, Built
<1> HIDE DEF w
<1>2. Matches(w, Encoding[a][op])
  BY <1>1, RowFields
<1>3. WordImmediate(op, w) = 0 /\ op # "ADDIW"
  BY FormatOf
<1> QED
  BY <1>1, <1>2, <1>3, FaithfulIf DEF w

LEMMA FaithfulI ==
    ASSUME NEW a \in Arch, NEW op, NEW o, NEW f3, NEW rd, NEW rs1, NEW imm,
           op \in {"LW", "LD", "FLW", "FLD", "ADDI", "ANDI", "JALR"}, op \in Encoded,
           o \in {3, 7, 19, 103}, f3 \in 0 .. 7, Encoding[a][op] = OpF3(o, f3), rd \in 0 .. 31,
           rs1 \in 0 .. 31, Imm12(imm)
    PROVE  Faithful(Expanded(op, IWord(o, f3, rd, rs1, imm), imm), a)
<1> DEFINE w == IWord(o, f3, rd, rs1, imm)
<1>0. o \in MajorOpcodes
  BY WordOpcodes
<1>1. Slice(imm, 11, 5) \in 0 .. 127 /\ Slice(imm, 4, 0) \in 0 .. 31 /\ I_imm(w) = imm
  BY IFormat DEF Imm12
<1>2. w \in Words /\ w.opcode = o /\ w.funct3 = f3
  BY <1>0, <1>1, Built DEF IWord
<1> HIDE DEF w
<1>3. Matches(w, Encoding[a][op])
  BY <1>2, RowFields
<1>4. WordImmediate(op, w) = imm /\ op # "ADDIW"
  BY <1>1, FormatOf
<1> QED
  BY <1>2, <1>3, <1>4, FaithfulIf DEF w

LEMMA FaithfulAddiw ==
    ASSUME NEW a \in Arch, NEW rd, NEW rs1, NEW imm, rd \in 0 .. 31, rs1 \in 0 .. 31, Imm12(imm)
    PROVE  Faithful(Expanded("ADDIW", IWord(19, 0, rd, rs1, imm), imm), a)
<1> DEFINE w == IWord(19, 0, rd, rs1, imm)
<1>0. 19 \in MajorOpcodes
  BY WordOpcodes
<1>1. Slice(imm, 11, 5) \in 0 .. 127 /\ Slice(imm, 4, 0) \in 0 .. 31 /\ I_imm(w) = imm
  BY IFormat DEF Imm12
<1>2. w \in Words /\ w.opcode = 19 /\ w.funct3 = 0
  BY <1>0, <1>1, Built DEF IWord
<1> HIDE DEF w
<1>3. Encoding[a]["ADDI"] = OpF3(19, 0)
  BY Rows DEF ENC_RV32I
<1>4. "ADDI" \in Ops /\ "ADDIW" \in Ops
  BY OpsAreEncoded DEF Encoded, ENC_RV32I, ENC_RV64IMA
<1>5. decode_normal(w, a) = "ADDI"
  BY <1>2, <1>3, <1>4, RowFields, DecodeNormal
<1>6. WordImmediate("ADDIW", w) = imm
  BY <1>1, FormatOf
<1> QED
  BY <1>4, <1>5, <1>6 DEF w, Faithful, Expanded

LEMMA FaithfulS ==
    ASSUME NEW a \in Arch, NEW op, NEW o, NEW f3, NEW rs1, NEW rs2, NEW imm,
           op \in {"SW", "SD", "FSW", "FSD"}, op \in Encoded, o \in {35, 39}, f3 \in 0 .. 7,
           Encoding[a][op] = OpF3(o, f3), rs1 \in 0 .. 31, rs2 \in 0 .. 31, Imm12(imm)
    PROVE  Faithful(Expanded(op, SWord(o, f3, rs1, rs2, imm), imm), a)
<1> DEFINE w == SWord(o, f3, rs1, rs2, imm)
<1>0. o \in MajorOpcodes
  BY WordOpcodes
<1>1. Slice(imm, 11, 5) \in 0 .. 127 /\ Slice(imm, 4, 0) \in 0 .. 31 /\ S_imm(w) = imm
  BY IFormat, SFormat DEF Imm12
<1>2. w \in Words /\ w.opcode = o /\ w.funct3 = f3
  BY <1>0, <1>1, Built DEF SWord
<1> HIDE DEF w
<1>3. Matches(w, Encoding[a][op])
  BY <1>2, RowFields
<1>4. WordImmediate(op, w) = imm /\ op # "ADDIW"
  BY <1>1, FormatOf
<1> QED
  BY <1>2, <1>3, <1>4, FaithfulIf DEF w

LEMMA FaithfulB ==
    ASSUME NEW a \in Arch, NEW op, NEW f3, NEW rs1, NEW rs2, NEW imm, op \in {"BEQ", "BNE"},
           op \in Encoded, f3 \in 0 .. 7, Encoding[a][op] = OpF3(99, f3), rs1 \in 0 .. 31,
           rs2 \in 0 .. 31, Imm12(imm), imm % 2 = 0
    PROVE  Faithful(Expanded(op, BWord(f3, rs1, rs2, imm), imm), a)
<1> DEFINE w == BWord(f3, rs1, rs2, imm)
<1>0. 99 \in MajorOpcodes
  BY WordOpcodes
<1>1. w.funct7 \in 0 .. 127 /\ w.rd \in 0 .. 31 /\ B_imm(w) = imm
  BY BFormat DEF Imm12
<1>2. w = RWord(99, f3, w.funct7, w.rd, rs1, rs2)
  BY DEF BWord, RWord
<1> HIDE DEF w
<1>3. w \in Words /\ w.opcode = 99 /\ w.funct3 = f3
  BY <1>0, <1>1, <1>2, Built
<1>4. Matches(w, Encoding[a][op])
  BY <1>3, RowFields
<1>5. WordImmediate(op, w) = imm /\ op # "ADDIW"
  BY <1>1, FormatOf
<1> QED
  BY <1>3, <1>4, <1>5, FaithfulIf DEF w

LEMMA FaithfulLui ==
    ASSUME NEW a \in Arch, NEW rd, NEW k \in Int, rd \in 0 .. 31, -32 <= k, k < 32
    PROVE  Faithful(Expanded("LUI", UWord(rd, k * 4096), k * 4096), a)
<1> DEFINE w == UWord(rd, k * 4096)
<1>0. 55 \in MajorOpcodes
  BY WordOpcodes
<1>1. /\ w.funct3 \in 0 .. 7 /\ w.funct7 \in 0 .. 127 /\ w.rs1 \in 0 .. 31
      /\ w.rs2 \in 0 .. 31 /\ U_imm(w) = k * 4096
  BY SMT, UFormat
<1>2. w = RWord(55, w.funct3, w.funct7, rd, w.rs1, w.rs2)
  BY SMT DEF UWord, RWord
<1> HIDE DEF w
<1>3. w \in Words /\ w.opcode = 55
  BY <1>0, <1>1, <1>2, Built
<1>4. Encoding[a]["LUI"] = Op(55) /\ "LUI" \in Encoded
  BY Rows DEF Encoded, ENC_RV32I
<1>5. Matches(w, Encoding[a]["LUI"])
  BY <1>3, <1>4, RowFields
<1>6. WordImmediate("LUI", w) = k * 4096
  BY <1>1, FormatOf
<1> QED
  BY <1>3, <1>4, <1>5, <1>6, FaithfulIf DEF w

LEMMA FaithfulJal ==
    ASSUME NEW a \in Arch, NEW rd, NEW imm, rd \in 0 .. 31, Imm12(imm), imm % 2 = 0
    PROVE  Faithful(Expanded("JAL", JWord(rd, imm), imm), a)
<1> DEFINE w == JWord(rd, imm)
<1>0. 111 \in MajorOpcodes
  BY WordOpcodes
<1>1. /\ w.funct3 \in 0 .. 7 /\ w.funct7 \in 0 .. 127 /\ w.rs1 \in 0 .. 31
      /\ w.rs2 \in 0 .. 31 /\ J_imm(w) = imm
  BY SMT, JFormat DEF Imm12
<1>2. w = RWord(111, w.funct3, w.funct7, rd, w.rs1, w.rs2)
  BY DEF JWord, RWord
<1> HIDE DEF w
<1>3. w \in Words /\ w.opcode = 111
  BY <1>0, <1>1, <1>2, Built
<1>4. Encoding[a]["JAL"] = Op(111) /\ "JAL" \in Encoded
  BY Rows DEF Encoded, ENC_RV32I
<1>5. Matches(w, Encoding[a]["JAL"])
  BY <1>3, <1>4, RowFields
<1>6. WordImmediate("JAL", w) = imm
  BY <1>1, FormatOf
<1> QED
  BY <1>3, <1>4, <1>5, <1>6, FaithfulIf DEF w

(* RV32 has a mask of its own for the shifts, which a longer shift would   *)
(* not match.                                                              *)
LEMMA FaithfulShift ==
    ASSUME NEW a \in Arch, NEW op, NEW f3, NEW f7, NEW rd, NEW n \in Int,
           op \in {"SLLI", "SRLI", "SRAI"}, f3 \in 0 .. 7, f7 \in {0, 32},
           Encoding["RV32"][op] = OpF3F7(19, f3, f7),
           Encoding["RV64"][op] = OpF3F6(19, f3, f7 \div 2), op \in Encoded, rd \in 0 .. 31,
           0 <= n, n <= 63, a = "RV32" => n <= 31
    PROVE  Faithful(Expanded(op, ShiftWord(f3, f7, rd, rd, n), n), a)
<1> DEFINE w == ShiftWord(f3, f7, rd, rd, n)
<1>0. 19 \in MajorOpcodes
  BY WordOpcodes
<1>1. /\ w.funct7 \in 0 .. 127 /\ w.rs2 \in 0 .. 31
      /\ shamt(w) = n /\ funct6(w) = f7 \div 2 /\ (n <= 31 => w.funct7 = f7)
  BY ShiftFormat
<1>2. w = RWord(19, f3, w.funct7, rd, rd, w.rs2)
  BY DEF ShiftWord, RWord
<1> HIDE DEF w
<1>3. w \in Words /\ w.opcode = 19 /\ w.funct3 = f3
  BY <1>0, <1>1, <1>2, Built
<1>4. Matches(w, Encoding[a][op])
  <2>1. CASE a = "RV32"
    BY <1>1, <1>3, <2>1, RowFields
  <2>2. CASE a = "RV64"
    BY <1>1, <1>3, <2>2, RowFields
  <2> QED
    BY <2>1, <2>2 DEF Arch
<1>5. WordImmediate(op, w) = n /\ op # "ADDIW"
  BY <1>1, FormatOf
<1> QED
  BY <1>3, <1>4, <1>5, FaithfulIf DEF w

(* The rows of the instructions that expand_compressed gives. *)
LEMMA RowsExpanded ==
    ASSUME NEW a \in Arch
    PROVE  /\ Encoding[a]["ADD"] = OpF3F7(51, 0, 0) /\ Encoding[a]["AND"] = OpF3F7(51, 7, 0)
           /\ Encoding[a]["OR"] = OpF3F7(51, 6, 0) /\ Encoding[a]["XOR"] = OpF3F7(51, 4, 0)
           /\ Encoding[a]["SUB"] = OpF3F7(51, 0, 32) /\ Encoding[a]["ADDW"] = OpF3F7(59, 0, 0)
           /\ Encoding[a]["SUBW"] = OpF3F7(59, 0, 32)
           /\ Encoding[a]["LW"] = OpF3(3, 2) /\ Encoding[a]["LD"] = OpF3(3, 3)
           /\ Encoding[a]["FLW"] = OpF3(7, 2) /\ Encoding[a]["FLD"] = OpF3(7, 3)
           /\ Encoding[a]["SW"] = OpF3(35, 2) /\ Encoding[a]["SD"] = OpF3(35, 3)
           /\ Encoding[a]["FSW"] = OpF3(39, 2) /\ Encoding[a]["FSD"] = OpF3(39, 3)
           /\ Encoding[a]["ADDI"] = OpF3(19, 0) /\ Encoding[a]["ANDI"] = OpF3(19, 7)
           /\ Encoding[a]["JALR"] = OpF3(103, 0) /\ Encoding[a]["BEQ"] = OpF3(99, 0)
           /\ Encoding[a]["BNE"] = OpF3(99, 1) /\ Encoding[a]["EBREAK"] = System(1, 0)
<1>1. /\ Encoding[a]["ADD"] = OpF3F7(51, 0, 0) /\ Encoding[a]["AND"] = OpF3F7(51, 7, 0)
      /\ Encoding[a]["OR"] = OpF3F7(51, 6, 0) /\ Encoding[a]["XOR"] = OpF3F7(51, 4, 0)
      /\ Encoding[a]["SUB"] = OpF3F7(51, 0, 32)
  BY Rows DEF ENC_RV32I
<1>2. /\ Encoding[a]["ADDW"] = OpF3F7(59, 0, 0) /\ Encoding[a]["SUBW"] = OpF3F7(59, 0, 32)
      /\ Encoding[a]["LD"] = OpF3(3, 3) /\ Encoding[a]["SD"] = OpF3(35, 3)
  BY Rows DEF ENC_RV64IMA
<1>3. Encoding[a]["FLW"] = OpF3(7, 2) /\ Encoding[a]["FSW"] = OpF3(39, 2)
  BY Rows DEF ENC_F
<1>4. Encoding[a]["FLD"] = OpF3(7, 3) /\ Encoding[a]["FSD"] = OpF3(39, 3)
  BY Rows DEF ENC_D
<1>5. /\ Encoding[a]["LW"] = OpF3(3, 2) /\ Encoding[a]["SW"] = OpF3(35, 2)
      /\ Encoding[a]["ADDI"] = OpF3(19, 0) /\ Encoding[a]["ANDI"] = OpF3(19, 7)
  BY Rows DEF ENC_RV32I
<1>6. /\ Encoding[a]["JALR"] = OpF3(103, 0) /\ Encoding[a]["BEQ"] = OpF3(99, 0)
      /\ Encoding[a]["BNE"] = OpF3(99, 1) /\ Encoding[a]["EBREAK"] = System(1, 0)
  BY Rows DEF ENC_RV32I
<1> QED
  BY <1>1, <1>2, <1>3, <1>4, <1>5, <1>6

LEMMA ShiftRows ==
    /\ Encoding["RV32"]["SLLI"] = OpF3F7(19, 1, 0) /\ Encoding["RV64"]["SLLI"] = OpF3F6(19, 1, 0)
    /\ Encoding["RV32"]["SRLI"] = OpF3F7(19, 5, 0) /\ Encoding["RV64"]["SRLI"] = OpF3F6(19, 5, 0)
    /\ Encoding["RV32"]["SRAI"] = OpF3F7(19, 5, 32) /\ Encoding["RV64"]["SRAI"] = OpF3F6(19, 5, 16)
<1>1. "RV32" \in Arch /\ "RV64" \in Arch
  BY DEF Arch
<1> QED
  BY <1>1, Rows DEF ENC_Shift_RV32, ENC_Shift_RV64

LEMMA ExpandedEncoded ==
    /\ {"ADD", "AND", "OR", "XOR", "SUB", "LW", "SW", "ADDI", "ANDI", "JALR", "BEQ", "BNE",
        "EBREAK"} \subseteq Encoded
    /\ {"ADDW", "SUBW", "LD", "SD", "FLW", "FSW", "FLD", "FSD", "SLLI", "SRLI", "SRAI"}
           \subseteq Encoded
<1>1. {"ADD", "AND", "OR", "XOR", "SUB", "LW", "SW", "ADDI", "ANDI", "JALR", "BEQ", "BNE",
       "EBREAK"} \subseteq DOMAIN ENC_RV32I
  BY DEF ENC_RV32I
<1>2. {"ADDW", "SUBW", "LD", "SD"} \subseteq DOMAIN ENC_RV64IMA
  BY DEF ENC_RV64IMA
<1>3. {"FLW", "FSW"} \subseteq DOMAIN ENC_F /\ {"FLD", "FSD"} \subseteq DOMAIN ENC_D
  BY DEF ENC_F, ENC_D
<1>4. {"SLLI", "SRLI", "SRAI"} \subseteq DOMAIN ENC_Shift_RV32
  BY DEF ENC_Shift_RV32
<1> QED
  BY <1>1, <1>2, <1>3, <1>4 DEF Encoded


LEMMA FaithfulExpandReg ==
    ASSUME NEW a \in Arch, NEW n \in Parcels, NEW c \in C_Reg
    PROVE  Faithful(ExpandReg(c, n), a)
<1> USE ParcelFields, ExpandedEncoded
<1>1. CASE c = "C_NOP"
  BY <1>1, FaithfulReg, RowsExpanded DEF ExpandReg
<1>2. CASE c = "C_ADD"
  BY <1>2, FaithfulReg, RowsExpanded DEF ExpandReg
<1>3. CASE c = "C_MV"
  BY <1>3, FaithfulReg, RowsExpanded DEF ExpandReg
<1>4. CASE c = "C_AND"
  BY <1>4, FaithfulReg, RowsExpanded DEF ExpandReg
<1>5. CASE c = "C_OR"
  BY <1>5, FaithfulReg, RowsExpanded DEF ExpandReg
<1>6. CASE c = "C_XOR"
  BY <1>6, FaithfulReg, RowsExpanded DEF ExpandReg
<1>7. CASE c = "C_SUB"
  BY <1>7, FaithfulReg, RowsExpanded DEF ExpandReg
<1>8. CASE c = "C_ADDW"
  BY <1>8, FaithfulReg, RowsExpanded DEF ExpandReg
<1>9. CASE c = "C_SUBW"
  BY <1>9, FaithfulReg, RowsExpanded DEF ExpandReg
<1> QED
  BY <1>1, <1>2, <1>3, <1>4, <1>5, <1>6, <1>7, <1>8, <1>9 DEF C_Reg

LEMMA FaithfulExpandMem ==
    ASSUME NEW a \in Arch, NEW n \in Parcels, NEW c \in C_Mem
    PROVE  Faithful(ExpandMem(c, n), a)
<1> USE ParcelFields, ExpandedEncoded
<1>1. CASE c = "C_LW"
  BY <1>1, FaithfulI, RowsExpanded, ParcelImmediates DEF ExpandMem
<1>2. CASE c = "C_LD"
  BY <1>2, FaithfulI, RowsExpanded, ParcelImmediates DEF ExpandMem
<1>3. CASE c = "C_FLW"
  BY <1>3, FaithfulI, RowsExpanded, ParcelImmediates DEF ExpandMem
<1>4. CASE c = "C_FLD"
  BY <1>4, FaithfulI, RowsExpanded, ParcelImmediates DEF ExpandMem
<1>5. CASE c = "C_SW"
  BY <1>5, FaithfulS, RowsExpanded, ParcelImmediates DEF ExpandMem
<1>6. CASE c = "C_SD"
  BY <1>6, FaithfulS, RowsExpanded, ParcelImmediates DEF ExpandMem
<1>7. CASE c = "C_FSW"
  BY <1>7, FaithfulS, RowsExpanded, ParcelImmediates DEF ExpandMem
<1>8. CASE c = "C_FSD"
  BY <1>8, FaithfulS, RowsExpanded, ParcelImmediates DEF ExpandMem
<1> QED
  BY <1>1, <1>2, <1>3, <1>4, <1>5, <1>6, <1>7, <1>8 DEF C_Mem

LEMMA FaithfulExpandStack ==
    ASSUME NEW a \in Arch, NEW n \in Parcels, NEW c \in C_Stack
    PROVE  Faithful(ExpandStack(c, n), a)
<1> USE ParcelFields, ExpandedEncoded
<1>1. CASE c = "C_LWSP"
  <2>1. Faithful(Expanded("LW", IWord(3, 2, c_rd(n), 2, C_LWSP_UIMM(n)), C_LWSP_UIMM(n)), a)
    BY FaithfulI, RowsExpanded, ParcelImmediates
  <2> QED
    BY <1>1, <2>1, FaithfulUnless DEF ExpandStack
<1>2. CASE c = "C_LDSP"
  <2>1. Faithful(Expanded("LD", IWord(3, 3, c_rd(n), 2, C_LDSP_UIMM(n)), C_LDSP_UIMM(n)), a)
    BY FaithfulI, RowsExpanded, ParcelImmediates
  <2> QED
    BY <1>2, <2>1, FaithfulUnless DEF ExpandStack
<1>3. CASE c = "C_FLWSP"
  BY <1>3, FaithfulI, RowsExpanded, ParcelImmediates DEF ExpandStack
<1>4. CASE c = "C_FLDSP"
  BY <1>4, FaithfulI, RowsExpanded, ParcelImmediates DEF ExpandStack
<1>5. CASE c = "C_SWSP"
  BY <1>5, FaithfulS, RowsExpanded, ParcelImmediates DEF ExpandStack
<1>6. CASE c = "C_SDSP"
  BY <1>6, FaithfulS, RowsExpanded, ParcelImmediates DEF ExpandStack
<1>7. CASE c = "C_FSWSP"
  BY <1>7, FaithfulS, RowsExpanded, ParcelImmediates DEF ExpandStack
<1>8. CASE c = "C_FSDSP"
  BY <1>8, FaithfulS, RowsExpanded, ParcelImmediates DEF ExpandStack
<1> QED
  BY <1>1, <1>2, <1>3, <1>4, <1>5, <1>6, <1>7, <1>8 DEF C_Stack

LEMMA FaithfulExpandJump ==
    ASSUME NEW a \in Arch, NEW n \in Parcels, NEW c \in C_Jump
    PROVE  Faithful(ExpandJump(c, n), a)
<1> USE ParcelFields, ExpandedEncoded
<1>0. Imm12(0)
  BY DEF Imm12
<1>1. CASE c = "C_JAL"
  BY <1>1, FaithfulJal, ParcelImmediates DEF ExpandJump
<1>2. CASE c = "C_J"
  BY <1>2, FaithfulJal, ParcelImmediates DEF ExpandJump
<1>3. CASE c = "C_BEQZ"
  BY <1>3, FaithfulB, RowsExpanded, ParcelImmediates DEF ExpandJump
<1>4. CASE c = "C_BNEZ"
  BY <1>4, FaithfulB, RowsExpanded, ParcelImmediates DEF ExpandJump
<1>5. CASE c = "C_EBREAK"
  <2> DEFINE w == RWord(115, 0, 0, 0, 0, 1)
  <2>1. w \in Words
    BY WordOpcodes, Built
  <2>2. Matches(w, System(1, 0))
    BY RowFields DEF RWord
  <2>3. Faithful(Expanded("EBREAK", w, 0), a)
    BY <2>1, <2>2, RowsExpanded, FaithfulIf
  <2> QED
    BY <1>5, <2>3 DEF ExpandJump
<1>6. CASE c = "C_JR"
  <2>1. Faithful(Expanded("JALR", IWord(103, 0, 0, c_rd(n), 0), 0), a)
    BY <1>0, FaithfulI, RowsExpanded
  <2> QED
    BY <1>6, <2>1, FaithfulUnless DEF ExpandJump
<1>7. CASE c = "C_JALR"
  BY <1>0, <1>7, FaithfulI, RowsExpanded DEF ExpandJump
<1> QED
  BY <1>1, <1>2, <1>3, <1>4, <1>5, <1>6, <1>7 DEF C_Jump

LEMMA FaithfulExpandImm ==
    ASSUME NEW a \in Arch, NEW n \in Parcels, NEW c \in C_Imm
    PROVE  Faithful(ExpandImm(c, n, a), a)
<1> USE ParcelFields, ExpandedEncoded
<1> DEFINE long == a = "RV32" /\ c_uimm(n) > 31
<1>1. ~long => (a = "RV32" => c_uimm(n) <= 31)
  OBVIOUS
<1>2. Faithful(Undefined, a)
  BY DEF Faithful, Undefined, Expanded
<1>3. CASE c = "C_ADDI4SPN"
  <2> DEFINE imm == C_ADDI4SPN_NZUIMM(n)
  <2>1. Faithful(Expanded("ADDI", IWord(19, 0, c_rs2_small(n), 2, imm), imm), a)
    BY FaithfulI, RowsExpanded, ParcelImmediates
  <2> QED
    BY <1>3, <2>1, FaithfulUnless DEF ExpandImm
<1>4. CASE c = "C_ADDI"
  BY <1>4, FaithfulI, RowsExpanded, ParcelImmediates DEF ExpandImm
<1>5. CASE c = "C_ADDIW"
  <2>1. Faithful(Expanded("ADDIW", IWord(19, 0, c_rd(n), c_rd(n), c_imm(n)), c_imm(n)), a)
    BY FaithfulAddiw, ParcelImmediates
  <2> QED
    BY <1>5, <2>1, FaithfulUnless DEF ExpandImm
<1>6. CASE c = "C_LI"
  BY <1>6, FaithfulI, RowsExpanded, ParcelImmediates DEF ExpandImm
<1>7. CASE c = "C_ADDI16SP"
  <2> DEFINE imm == C_ADDI16SP_NZIMM(n)
  <2>1. Faithful(Expanded("ADDI", IWord(19, 0, 2, 2, imm), imm), a)
    BY FaithfulI, RowsExpanded, ParcelImmediates
  <2> QED
    BY <1>7, <2>1, FaithfulUnless DEF ExpandImm
<1>8. CASE c = "C_LUI"
  <2>1. PICK k \in Int : -32 <= k /\ k < 32 /\ C_LUI_NZIMM(n) = k * 4096
    BY ParcelImmediates
  <2>2. Faithful(Expanded("LUI", UWord(c_rd(n), C_LUI_NZIMM(n)), C_LUI_NZIMM(n)), a)
    BY <2>1, FaithfulLui
  <2> QED
    BY <1>8, <2>2, FaithfulUnless DEF ExpandImm
<1>9. CASE c = "C_SLLI"
  <2>1. ~long => Faithful(Expanded("SLLI", ShiftWord(1, 0, c_rd(n), c_rd(n), c_uimm(n)), c_uimm(n)), a)
    BY <1>1, FaithfulShift, ShiftRows
  <2> QED
    BY <1>9, <2>1, <1>2 DEF ExpandImm, Unless
<1>10. CASE c = "C_SRLI"
  <2> DEFINE rd == c_rd_small(n)
  <2>1. ~long => Faithful(Expanded("SRLI", ShiftWord(5, 0, rd, rd, c_uimm(n)), c_uimm(n)), a)
    BY <1>1, FaithfulShift, ShiftRows
  <2> QED
    BY <1>10, <2>1, <1>2 DEF ExpandImm, Unless
<1>11. CASE c = "C_SRAI"
  <2> DEFINE rd == c_rd_small(n)
  <2>0. 32 \div 2 = 16
    OBVIOUS
  <2>1. ~long => Faithful(Expanded("SRAI", ShiftWord(5, 32, rd, rd, c_uimm(n)), c_uimm(n)), a)
    BY <1>1, <2>0, FaithfulShift, ShiftRows
  <2> QED
    BY <1>11, <2>1, <1>2 DEF ExpandImm, Unless
<1>12. CASE c = "C_ANDI"
  BY <1>12, FaithfulI, RowsExpanded, ParcelImmediates DEF ExpandImm
<1> QED
  BY <1>3, <1>4, <1>5, <1>6, <1>7, <1>8, <1>9, <1>10, <1>11, <1>12 DEF C_Imm

LEMMA FaithfulExpansion ==
    ASSUME NEW a \in Arch, NEW n \in Parcels
    PROVE  Faithful(decode_and_expand_compressed(n, a), a)
<1> DEFINE c == decode_compressed(n, a)
<1>1. C_Reg \cap (C_Mem \cup C_Imm \cup C_Jump \cup C_Stack) = {}
  BY DEF C_Reg, C_Mem, C_Imm, C_Jump, C_Stack
<1>2. C_Mem \cap (C_Imm \cup C_Jump \cup C_Stack) = {}
  BY DEF C_Mem, C_Imm, C_Jump, C_Stack
<1>3. C_Imm \cap (C_Jump \cup C_Stack) = {} /\ C_Jump \cap C_Stack = {}
  BY DEF C_Imm, C_Jump, C_Stack
<1>4. Faithful(Undefined, a)
  BY DEF Faithful, Undefined, Expanded
<1> HIDE DEF c
<1>5. Faithful(expand_compressed(c, n, a), a)
  <2>1. CASE c \in C_Reg
    BY <1>1, <2>1, FaithfulExpandReg DEF expand_compressed
  <2>2. CASE c \in C_Mem
    BY <1>1, <1>2, <2>2, FaithfulExpandMem DEF expand_compressed
  <2>3. CASE c \in C_Imm
    BY <1>1, <1>2, <1>3, <2>3, FaithfulExpandImm DEF expand_compressed
  <2>4. CASE c \in C_Jump
    BY <1>1, <1>2, <1>3, <2>4, FaithfulExpandJump DEF expand_compressed
  <2>5. CASE c \in C_Stack
    BY <1>1, <1>2, <1>3, <2>5, FaithfulExpandStack DEF expand_compressed
  <2> QED
    BY <1>4, <2>1, <2>2, <2>3, <2>4, <2>5 DEF expand_compressed
<1> QED
  BY <1>5 DEF c, decode_and_expand_compressed

(* For every parcel and both cores, the word that a compressed instruction  *)
(* expands into decodes to that instruction and holds its immediate.        *)
THEOREM ExpansionIsExact == ExecSpec => []ExpansionDecodesBack
<1>1. ExecInv => ExpansionDecodesBack
  BY After, FaithfulExpansion DEF ExpansionDecodesBack, Faithful
<1> QED
  BY <1>1, ExecInvariant, PTL

(* Whatever the decoders return, for every word and every parcel, has a     *)
(* case in the switch of exec_step and its own name in mappingStr.          *)
THEOREM EveryOpIsKnown == ExecSpec => []DecodedIsKnown
<1>1. ExecInv /\ AfterDecode => isa \in Arch /\ out \in Ops \cup {"UNDEF"}
  BY After, DecodeNormal
<1>2. ExecInv /\ AfterExpand => isa \in Arch /\ out.op \in Ops \cup {"UNDEF"}
  BY After, FaithfulExpansion DEF Faithful
<1>3. ~ (AfterDecode /\ AfterExpand)
  BY DEF AfterDecode, AfterExpand
<1>4. ExecInv => DecodedIsKnown
  BY <1>1, <1>2, <1>3, Known DEF DecodedIsKnown
<1> QED
  BY <1>4, ExecInvariant, PTL

-----------------------------------------------------------------------------
(* The program counter after an instruction.                                 *)

LEMMA ImmediatesEven ==
    ASSUME NEW w \in Words
    PROVE  B_imm(w) % 2 = 0 /\ J_imm(w) % 2 = 0
<1>1. w.rd \in 0 .. 31 /\ w.funct3 \in 0 .. 7 /\ w.rs1 \in 0 .. 31 /\ w.rs2 \in 0 .. 31
      /\ w.funct7 \in 0 .. 127
  BY DEF Words
<1>2. B_imm(w) % 2 = 0
  BY SMT, <1>1 DEF B_imm, Sext, Bit, Slice
<1>3. J_imm(w) % 2 = 0
  <2> DEFINE s == Bit(w.funct7, 6)
             t == Bit(w.rs2, 0)
             m == Slice(w.funct7, 5, 0)
             l == Slice(w.rs2, 4, 1)
             u == s * 1048576 + w.rs1 * 32768 + w.funct3 * 4096 + t * 2048 + m * 32 + l * 2
  <2>1. s \in Int /\ t \in Int /\ m \in Int /\ l \in Int
    BY <1>1 DEF Bit, Slice
  <2>2. J_imm(w) = Sext(u, 21)
    BY SMT DEF J_imm
  <2> HIDE DEF s, t, m, l
  <2>3. u \in Int /\ u % 2 = 0
    BY SMT, <1>1, <2>1
  <2> HIDE DEF u
  <2>4. Sext(u, 21) = u \/ Sext(u, 21) = u - 2097152
    BY SMT DEF Sext
  <2> QED
    BY SMT, <2>2, <2>3, <2>4
<1> QED
  BY <1>2, <1>3

(* An even address of a width. *)
Even(pc, w) == pc % 2 = 0 /\ pc \in 0 .. Pow2[w] - 1

LEMMA Targets ==
    ASSUME NEW w, Width(w), NEW x \in Int
    PROVE  /\ Even(2, w) /\ Even(6, w)
           /\ x % 2 = 0 => Even(Unsigned(x, w), w)
           /\ Even(Unsigned(x, w) - (Unsigned(x, w) % 2), w)
<1> DEFINE M == Pow2[w]
           u == Unsigned(x, w)
           q == x \div M
           H == Pow2[w - 1]
<1>1. M \in Nat /\ M >= 16 /\ M = 2 * H /\ H \in Nat
  BY PowerOfWidth
<1>2. u \in Int /\ 0 <= u /\ u < M
  BY UnsignedIs
<1> HIDE DEF M, H
<1>3. x = M * q + u /\ q \in Int
  <2>1. u = x % M
    BY DEF Unsigned, M
  <2>2. M > 0
    BY <1>1
  <2>3. x = M * (x \div M) + (x % M) /\ x \div M \in Int
    BY <1>1, <2>2, DivMod
  <2> QED
    BY <2>1, <2>3
<1> HIDE DEF u, q
<1>4. Even(2, w) /\ Even(6, w)
  BY <1>1 DEF Even, M
<1>5. x % 2 = 0 => u % 2 = 0
  <2> DEFINE t == H * q
  <2>1. t \in Int /\ M * q = 2 * t
    BY <1>1, <1>3
  <2> HIDE DEF t
  <2>2. x = 2 * t + u
    BY <1>3, <2>1
  <2> QED
    BY <1>2, <2>1, <2>2
<1>6. u - (u % 2) \in Int /\ 0 <= u - (u % 2) /\ u - (u % 2) < M /\ (u - (u % 2)) % 2 = 0
  BY <1>1, <1>2
<1>7. x % 2 = 0 => Even(u, w)
  BY <1>1, <1>2, <1>5 DEF Even, M
<1>8. Even(u - (u % 2), w)
  BY <1>1, <1>6 DEF Even, M
<1> QED
  BY <1>4, <1>7, <1>8 DEF u

LEMMA JumpOutcome ==
    ASSUME NEW x, NEW target, NEW link
    PROVE  JumpTo32(x, target, link).pc = target /\ JumpTo64(x, target, link).pc = target
<1>1. "C" \in misa32 /\ "C" \in misa64
  BY DEF misa32, misa64
<1>2. JumpTo32(x, target, link).pc = target
  BY <1>1 DEF JumpTo32, Retires32
<1>3. JumpTo64(x, target, link).pc = target
  BY <1>1 DEF JumpTo64, Retires32
<1> QED
  BY <1>2, <1>3

LEMMA ExecutedFields ==
    ASSUME NEW a \in Arch, NEW x, Executed(x, a)
    PROVE  /\ x.op \in Integer[a] /\ x.pc = 2 /\ x.next = 6
           /\ x.a \in Int /\ x.b \in Int /\ x.imm \in Int /\ x.mem \in Int
           /\ -Pow2[XLEN[a] - 1] <= x.a /\ x.a < Pow2[XLEN[a] - 1]
           /\ -Pow2[XLEN[a] - 1] <= x.b /\ x.b < Pow2[XLEN[a] - 1]
<1>1. x.pc = 2 /\ x.next = 6
  BY DEF Executed
<1>2. x.op \in Integer[a] /\ x.imm \in Int /\ x.mem \in Int
  BY DEF Executed
<1>3. x.a \in Signeds(XLEN[a]) /\ x.b \in Signeds(XLEN[a])
  BY DEF Executed
<1> QED
  BY <1>1, <1>2, <1>3, XLENIs, SignedsAre

LEMMA JumpEven ==
    ASSUME NEW x, x.op \in JumpOps32 \cup BranchOps32, x.pc = 2, x.next = 6, x.a \in Int,
           x.imm \in Int, x.op \in BranchOps32 \cup {"JAL"} => x.imm % 2 = 0
    PROVE  Even(ExecJump32(x).pc, XLEN32) /\ Even(ExecJump64(x).pc, XLEN64)
<1>1. x.imm % 2 = 0 => (x.pc + x.imm) % 2 = 0
  OBVIOUS
<1>2. x.pc + x.imm \in Int /\ x.a + x.imm \in Int
  OBVIOUS
<1>3. Retires32(x).pc = 6
  BY Outcome
<1>4. ~ (x.op \in BranchOps32 /\ x.op \in {"JAL", "JALR"})
  BY DEF BranchOps32
<1>5. CASE x.op = "JAL"
  BY <1>1, <1>2, <1>4, <1>5, Targets, Widths, JumpOutcome DEF ExecJump32, ExecJump64
<1>6. CASE x.op = "JALR"
  BY <1>2, <1>4, <1>6, Targets, Widths, JumpOutcome DEF ExecJump32, ExecJump64
<1>7. CASE x.op \in BranchOps32
  BY <1>1, <1>2, <1>3, <1>4, <1>7, Targets, Widths, JumpOutcome DEF ExecJump32, ExecJump64
<1> QED
  BY <1>5, <1>6, <1>7 DEF JumpOps32

LEMMA MemPc ==
    ASSUME NEW x, x.pc = 2, x.next = 6
    PROVE  /\ x.op \in Loads32 \cup Stores32 => ExecMem32(x).pc \in {2, 6}
           /\ x.op \in Loads64 \cup Stores64 => ExecMem64(x).pc \in {2, 6}
           /\ ExecAmo32(x).pc \in {2, 6} /\ ExecAmo64(x).pc \in {2, 6}
<1>1. \A v : Result32(x, v).pc = 6
  BY Outcome
<1>2. \A v : Raises32(x, v).pc = 2
  BY Outcome
<1>3. \A v : [Retires32(x) EXCEPT !.store = v].pc = 6
  BY DEF Retires32
<1>4. \A u, v : [Result32(x, u) EXCEPT !.store = v].pc = 6
  BY DEF Result32, Retires32
<1>5. x.op \in Loads32 \cup Stores32 => ExecMem32(x).pc \in {2, 6}
  BY <1>1, <1>2, <1>3 DEF ExecMem32, Loads32, Stores32
<1>6. x.op \in Loads64 \cup Stores64 => ExecMem64(x).pc \in {2, 6}
  BY <1>1, <1>2, <1>3 DEF ExecMem64, Loads64, Stores64, Loads32, Stores32
<1>7. ExecAmo32(x).pc \in {2, 6}
  BY <1>2, <1>4 DEF ExecAmo32
<1>8. ExecAmo64(x).pc \in {2, 6}
  BY <1>2, <1>4 DEF ExecAmo64
<1> QED
  BY <1>5, <1>6, <1>7, <1>8

LEMMA ExecutedPc ==
    ASSUME NEW a \in Arch, NEW x, Executed(x, a)
    PROVE  Even((IF a = "RV32" THEN Exec32(x) ELSE Exec64(x)).pc, XLEN[a])
<1>1. x.op \in Integer[a] /\ x.pc = 2 /\ x.next = 6 /\ x.a \in Int /\ x.imm \in Int
  BY ExecutedFields
<1>2. x.op \in BranchOps32 \cup {"JAL"} => x.imm % 2 = 0
  BY DEF Executed
<1>3. (\A v : Result32(x, v).pc = 6) /\ Retires32(x).pc = 6
  BY <1>1, Outcome
<1>4. \A pc \in {2, 6} : Even(pc, XLEN[a])
  BY Targets, XLENIs
<1>5. CASE a = "RV32"
  <2>1. x.op \in Integer32 /\ XLEN[a] = XLEN32
    BY <1>1, <1>5, XLENIs DEF Integer
  <2>2. x.op \in JumpOps32 \cup BranchOps32 => Even(Exec32(x).pc, XLEN32)
    BY <1>1, <1>2, JumpEven, Exec32At
  <2>3. x.op \notin JumpOps32 \cup BranchOps32 => Exec32(x).pc \in {2, 6}
    <3>1. x.op \in ImmOps32 \cup RegOps32 \cup ShiftOps32 \cup FenceOps => Exec32(x).pc = 6
      BY <1>3, Exec32At
    <3>2. x.op \in UpperOps32 => Exec32(x).pc = 6
      BY <1>3, Exec32At DEF UpperOps32
    <3>3. x.op \in MulDivOps32 => Exec32(x).pc = 6
      BY <1>3, Exec32At DEF MulDivOps32
    <3>4. x.op \in Loads32 \cup Stores32 \cup AmoOps32 => Exec32(x).pc \in {2, 6}
      BY <1>1, MemPc, Exec32At
    <3> QED
      BY <2>1, <3>1, <3>2, <3>3, <3>4 DEF Integer32
  <2> QED
    BY <1>4, <1>5, <2>1, <2>2, <2>3
<1>6. CASE a = "RV64"
  <2>1. x.op \in Integer64 /\ XLEN[a] = XLEN64
    BY <1>1, <1>6, XLENIs DEF Integer
  <2>2. x.op \in JumpOps32 \cup BranchOps32 => Even(Exec64(x).pc, XLEN64)
    BY <1>1, <1>2, JumpEven, Exec64At
  <2>3. x.op \notin JumpOps32 \cup BranchOps32 => Exec64(x).pc \in {2, 6}
    <3>1. x.op \in ImmOps32 \cup RegOps32 \cup ShiftOps32 \cup FenceOps => Exec64(x).pc = 6
      BY <1>3, Exec64At
    <3>2. x.op \in UpperOps32 => Exec64(x).pc = 6
      BY <1>3, Exec64At DEF UpperOps32
    <3>3. x.op \in MulDivOps32 => Exec64(x).pc = 6
      BY <1>3, Exec64At DEF MulDivOps32
    <3>4. x.op \in WordOps \cup MulDivWordOps => Exec64(x).pc = 6
      BY <1>3, Exec64At DEF WordOps
    <3>5. x.op \in Loads64 \cup Stores64 \cup AmoOps32 \cup AmoDoubleOps => Exec64(x).pc \in {2, 6}
      BY <1>1, MemPc, Exec64At
    <3>6. /\ Loads32 \cup {"LWU", "LD"} = Loads64 /\ Stores32 \cup {"SD"} = Stores64
      BY DEF Loads64, Stores64
    <3> QED
      BY <2>1, <3>1, <3>2, <3>3, <3>4, <3>5, <3>6 DEF Integer64, Integer32
  <2> QED
    BY <1>4, <1>6, <2>1, <2>2, <2>3
<1> QED
  BY <1>5, <1>6 DEF Arch

(* The assertion of trap_check_pc_alignment holds for every word, every     *)
(* operand and both register widths: a jump target is even, and the program *)
(* counter stays in the address space.                                      *)
THEOREM ProgramCounterEven == ExecSpec => []NextPcEven
<1>1. ExecInv => NextPcEven
  <2> SUFFICES ASSUME ExecInv PROVE NextPcEven
    OBVIOUS
  <2>1. AfterDecode => B_imm(in) % 2 = 0 /\ J_imm(in) % 2 = 0
    BY After, ImmediatesEven
  <2>2. AfterExecute => Even(out.pc, XLEN[isa])
    BY After, ExecutedPc
  <2> QED
    BY <2>1, <2>2 DEF NextPcEven, Even
<1> QED
  BY <1>1, ExecInvariant, PTL

-----------------------------------------------------------------------------
(* Multiplication and division.                                              *)

(* The register that a core writes. *)
Rd(x, a) == IF a = "RV32" THEN Exec32(x).rd ELSE Exec64(x).rd

LEMMA MulRd ==
    ASSUME NEW a \in Arch, NEW x
    PROVE  /\ x.op = "MUL" => Rd(x, a) = Signed(x.a * x.b, XLEN[a])
           /\ x.op = "MULH" => Rd(x, a) = High(x.a * x.b, XLEN[a])
           /\ x.op = "MULHU" =>
                  Rd(x, a) = High(Unsigned(x.a, XLEN[a]) * Unsigned(x.b, XLEN[a]), XLEN[a])
           /\ x.op = "MULHSU" => Rd(x, a) = High(x.a * Unsigned(x.b, XLEN[a]), XLEN[a])
<1>1. \A v : Result32(x, v).rd = v
  BY Outcome
<1>2. x.op \in {"MUL", "MULH", "MULHU", "MULHSU"} =>
          Rd(x, a) = IF a = "RV32" THEN Mul32(x.op, x.a, x.b) ELSE Mul64(x.op, x.a, x.b)
  BY <1>1, Exec32At, Exec64At DEF Rd
<1>3. XLEN[a] = IF a = "RV32" THEN XLEN32 ELSE XLEN64
  BY XLENIs
<1>4. x.op = "MUL" => Rd(x, a) = Signed(x.a * x.b, XLEN[a])
  BY <1>2, <1>3 DEF Mul32, Mul64
<1>5. x.op = "MULH" => Rd(x, a) = High(x.a * x.b, XLEN[a])
  BY <1>2, <1>3 DEF Mul32, Mul64
<1>6. x.op = "MULHU" =>
          Rd(x, a) = High(Unsigned(x.a, XLEN[a]) * Unsigned(x.b, XLEN[a]), XLEN[a])
  BY <1>2, <1>3 DEF Mul32, Mul64
<1>7. x.op = "MULHSU" => Rd(x, a) = High(x.a * Unsigned(x.b, XLEN[a]), XLEN[a])
  BY <1>2, <1>3 DEF Mul32, Mul64
<1> QED
  BY <1>4, <1>5, <1>6, <1>7

(* The quotients and remainders of a width, as both executors compute them. *)
DivOf(a, b, w) ==
    IF b = 0 THEN -1 ELSE IF a = MinInt(w) /\ b = -1 THEN a ELSE Quotient(a, b)
RemOf(a, b, w) ==
    IF b = 0 THEN a ELSE IF a = MinInt(w) /\ b = -1 THEN 0 ELSE Remainder(a, b)
DivuOf(a, b, w) == IF b = 0 THEN -1 ELSE Signed(Unsigned(a, w) \div Unsigned(b, w), w)
RemuOf(a, b, w) == IF b = 0 THEN a ELSE Signed(Unsigned(a, w) % Unsigned(b, w), w)

LEMMA DivRd ==
    ASSUME NEW a \in Arch, NEW x
    PROVE  /\ x.op = "DIV" => Rd(x, a) = DivOf(x.a, x.b, XLEN[a])
           /\ x.op = "REM" => Rd(x, a) = RemOf(x.a, x.b, XLEN[a])
           /\ x.op = "DIVU" => Rd(x, a) = DivuOf(x.a, x.b, XLEN[a])
           /\ x.op = "REMU" => Rd(x, a) = RemuOf(x.a, x.b, XLEN[a])
<1>1. \A v : Result32(x, v).rd = v
  BY Outcome
<1>2. x.op \in {"DIV", "DIVU", "REM", "REMU"} =>
          Rd(x, a) = IF a = "RV32" THEN Div32(x.op, x.a, x.b) ELSE Div64(x.op, x.a, x.b)
  BY <1>1, Exec32At, Exec64At DEF Rd
<1>3. XLEN[a] = IF a = "RV32" THEN XLEN32 ELSE XLEN64
  BY XLENIs
<1>4. x.op = "DIV" => Rd(x, a) = DivOf(x.a, x.b, XLEN[a])
  BY <1>2, <1>3 DEF Div32, Div64, DivOf
<1>5. x.op = "REM" => Rd(x, a) = RemOf(x.a, x.b, XLEN[a])
  BY <1>2, <1>3 DEF Div32, Div64, RemOf
<1>6. x.op = "DIVU" => Rd(x, a) = DivuOf(x.a, x.b, XLEN[a])
  BY <1>2, <1>3 DEF Div32, Div64, DivuOf
<1>7. x.op = "REMU" => Rd(x, a) = RemuOf(x.a, x.b, XLEN[a])
  BY <1>2, <1>3 DEF Div32, Div64, RemuOf
<1> QED
  BY <1>4, <1>5, <1>6, <1>7

LEMMA DivWordRd ==
    ASSUME NEW x
    PROVE  LET a == Signed(x.a, WORD)
               b == Signed(x.b, WORD)
           IN /\ x.op = "MULW" => Exec64(x).rd = Signed(x.a * x.b, WORD)
              /\ x.op = "DIVW" => Exec64(x).rd = DivOf(a, b, WORD)
              /\ x.op = "REMW" => Exec64(x).rd = RemOf(a, b, WORD)
              /\ x.op = "DIVUW" => Exec64(x).rd = DivuOf(a, b, WORD)
              /\ x.op = "REMUW" => Exec64(x).rd = RemuOf(a, b, WORD)
<1> DEFINE a == Signed(x.a, WORD)
           b == Signed(x.b, WORD)
<1>1. x.op \in MulDivWordOps => Exec64(x).rd = MulDivWord(x.op, x.a, x.b)
  BY Outcome, Exec64At
<1>2. x.op = "MULW" => Exec64(x).rd = Signed(x.a * x.b, WORD)
  BY <1>1 DEF MulDivWord, MulDivWordOps
<1>3. x.op = "DIVW" => Exec64(x).rd = DivOf(a, b, WORD)
  BY <1>1 DEF MulDivWord, MulDivWordOps, DivOf
<1>4. x.op = "REMW" => Exec64(x).rd = RemOf(a, b, WORD)
  BY <1>1 DEF MulDivWord, MulDivWordOps, RemOf
<1>5. x.op = "DIVUW" => Exec64(x).rd = DivuOf(a, b, WORD)
  BY <1>1 DEF MulDivWord, MulDivWordOps, DivuOf
<1>6. x.op = "REMUW" => Exec64(x).rd = RemuOf(a, b, WORD)
  BY <1>1 DEF MulDivWord, MulDivWordOps, RemuOf
<1> QED
  BY <1>2, <1>3, <1>4, <1>5, <1>6

LEMMA DividesExactly ==
    ASSUME NEW w, Width(w), NEW a \in Int, NEW b \in Int,
           -Pow2[w - 1] <= a, a < Pow2[w - 1], -Pow2[w - 1] <= b, b < Pow2[w - 1]
    PROVE  /\ Divided(DivOf(a, b, w), RemOf(a, b, w), a, b, w)
           /\ Divided(Unsigned(DivuOf(a, b, w), w), Unsigned(RemuOf(a, b, w), w),
                      Unsigned(a, w), Unsigned(b, w), w)
<1>1. Divided(DivOf(a, b, w), RemOf(a, b, w), a, b, w)
  BY DividedSigned DEF DivOf, RemOf
<1>2. Divided(Unsigned(DivuOf(a, b, w), w), Unsigned(RemuOf(a, b, w), w),
              Unsigned(a, w), Unsigned(b, w), w)
  BY DividedUnsigned DEF DivuOf, RemuOf
<1> QED
  BY <1>1, <1>2

(* Another instruction on the operands of this one. *)
LEMMA AlsoRd ==
    ASSUME isa \in Arch, Executed(in, isa), NEW op
    PROVE  \E x : /\ Also(op) = Rd(x, isa) /\ x.op = op /\ x.a = in.a /\ x.b = in.b
<1> DEFINE x == [in EXCEPT !.op = op]
<1>1. Also(op) = Rd(x, isa)
  BY DEF Also, Rd
<1>2. in = [op |-> in.op, a |-> in.a, b |-> in.b, imm |-> in.imm, pc |-> 2, next |-> 6,
            mem |-> in.mem]
  BY DEF Executed
<1>3. x.op = op /\ x.a = in.a /\ x.b = in.b
  BY <1>2
<1> HIDE DEF x
<1> QED
  BY <1>1, <1>3

LEMMA ExactStep == ASSUME ExecInv PROVE ExactArithmetic
<1> SUFFICES ASSUME AfterExecute PROVE ExactArithmetic
  BY DEF ExactArithmetic
<1> DEFINE n == XLEN[isa]
           u == Unsigned(in.a, n)
           v == Unsigned(in.b, n)
           lo == Signed(in.a, WORD)
           hi == Signed(in.b, WORD)
<1>1. isa \in Arch /\ Executed(in, isa) /\ out = IF isa = "RV32" THEN Exec32(in) ELSE Exec64(in)
  BY After
<1>2. out.rd = Rd(in, isa)
  BY <1>1 DEF Rd
<1>3. /\ Width(n) /\ in.op \in Integer[isa] /\ in.a \in Int /\ in.b \in Int
      /\ -Pow2[n - 1] <= in.a /\ in.a < Pow2[n - 1]
      /\ -Pow2[n - 1] <= in.b /\ in.b < Pow2[n - 1]
  BY <1>1, XLENIs, ExecutedFields
<1>4. /\ Width(WORD) /\ lo \in Int /\ hi \in Int
      /\ -Pow2[WORD - 1] <= lo /\ lo < Pow2[WORD - 1]
      /\ -Pow2[WORD - 1] <= hi /\ hi < Pow2[WORD - 1]
  BY <1>3, Widths, SignedIs
<1>5. Also("MUL") = Signed(in.a * in.b, n)
  BY <1>1, AlsoRd, MulRd
<1>6. Also("REM") = RemOf(in.a, in.b, n)
  BY <1>1, AlsoRd, DivRd
<1>7. Also("REMU") = RemuOf(in.a, in.b, n)
  BY <1>1, AlsoRd, DivRd
<1>8. in.op \in {"DIVW", "DIVUW"} => isa = "RV64"
  BY <1>1, <1>3 DEF Arch, Integer, Integer32, ImmOps32, RegOps32, ShiftOps32, UpperOps32, JumpOps32,
                    BranchOps32, Loads32, Stores32, MulDivOps32, AmoOps32, FenceOps
<1>9. isa = "RV64" => Also("REMW") = RemOf(lo, hi, WORD) /\ Also("REMUW") = RemuOf(lo, hi, WORD)
  BY <1>1, AlsoRd, DivWordRd DEF Rd
<1>10. CASE in.op = "MULH"
  <2>1. out.rd = (in.a * in.b - Unsigned(Also("MUL"), n)) \div Pow2[n]
    BY <1>1, <1>2, <1>3, <1>5, <1>10, MulRd, HighSigned
  <2> QED
    BY <1>10, <2>1 DEF ExactArithmetic
<1>11. CASE in.op = "MULHU"
  <2>1. Unsigned(out.rd, n) = (u * v - Unsigned(Also("MUL"), n)) \div Pow2[n]
    BY <1>1, <1>2, <1>3, <1>5, <1>11, MulRd, HighUnsigned
  <2> QED
    BY <1>11, <2>1 DEF ExactArithmetic
<1>12. CASE in.op = "MULHSU"
  <2>1. out.rd = (in.a * v - Unsigned(Also("MUL"), n)) \div Pow2[n]
    BY <1>1, <1>2, <1>3, <1>5, <1>12, MulRd, HighSignedUnsigned
  <2> QED
    BY <1>12, <2>1 DEF ExactArithmetic
<1>13. CASE in.op = "DIV"
  <2>1. Divided(out.rd, Also("REM"), in.a, in.b, n)
    BY <1>1, <1>2, <1>3, <1>6, <1>13, DivRd, DividesExactly
  <2> QED
    BY <1>13, <2>1 DEF ExactArithmetic, Divided
<1>14. CASE in.op = "DIVU"
  <2>1. Divided(Unsigned(out.rd, n), Unsigned(Also("REMU"), n), u, v, n)
    BY <1>1, <1>2, <1>3, <1>7, <1>14, DivRd, DividesExactly
  <2> QED
    BY <1>14, <2>1 DEF ExactArithmetic, Divided
<1>15. CASE in.op = "DIVW"
  <2>1. Divided(out.rd, Also("REMW"), lo, hi, WORD)
    BY <1>1, <1>2, <1>4, <1>8, <1>9, <1>15, DivWordRd, DividesExactly DEF Rd
  <2> QED
    BY <1>15, <2>1 DEF ExactArithmetic, Divided
<1>16. CASE in.op = "DIVUW"
  <2>1. Divided(Unsigned(out.rd, WORD), Unsigned(Also("REMUW"), WORD), Unsigned(lo, WORD),
                Unsigned(hi, WORD), WORD)
    BY <1>1, <1>2, <1>4, <1>8, <1>9, <1>16, DivWordRd, DividesExactly DEF Rd
  <2> QED
    BY <1>16, <2>1 DEF ExactArithmetic, Divided
<1>17. CASE in.op \notin {"MULH", "MULHU", "MULHSU", "DIV", "DIVU", "DIVW", "DIVUW"}
  BY <1>17 DEF ExactArithmetic
<1> QED
  BY <1>10, <1>11, <1>12, <1>13, <1>14, <1>15, <1>16, <1>17

(* On both cores and for every width of a byte, the two halves of a product *)
(* make the product and quotient and remainder make the dividend, for every *)
(* operand, zero divisors and the overflow of the division included.        *)
THEOREM ArithmeticIsExact == ExecSpec => []ExactArithmetic
<1>1. ExecInv => ExactArithmetic
  BY ExactStep
<1> QED
  BY <1>1, ExecInvariant, PTL

-----------------------------------------------------------------------------
(* The word instructions of the 64 bit core.                                 *)

(* A divisor of 2^WORD. *)
DividesWord(d) == d \in Nat /\ d > 0 /\ \E e \in Nat : e > 0 /\ Pow2[WORD] = d * e

LEMMA PowerDivides == ASSUME NEW k \in Nat, k <= WORD PROVE DividesWord(Pow2[k])
<1>1. WORD \in Nat
  BY Widths DEF Width
<1>2. PICK j \in Nat : WORD = k + j
  <2>1. WORD - k \in Nat /\ WORD = k + (WORD - k)
    BY <1>1
  <2> QED
    BY <2>1
<1>3. Pow2[k + j] = Pow2[k] * Pow2[j]
  BY <1>2, Pow2Sum
<1>4. Pow2[k] \in Nat /\ Pow2[k] > 0 /\ Pow2[j] \in Nat /\ Pow2[j] > 0
  <2>1. Pow2[k] \in Nat /\ Pow2[k] >= 1
    BY Pow2Nat
  <2>2. Pow2[j] \in Nat /\ Pow2[j] >= 1
    BY Pow2Nat
  <2> QED
    BY <2>1, <2>2
<1> QED
  BY <1>2, <1>3, <1>4 DEF DividesWord

LEMMA WordDivides == DividesWord(4) /\ DividesWord(WORD)
<1>1. BYTE \in Nat /\ BYTE >= 1 /\ WORD = 4 * BYTE
  BY Widths DEF WORD
<1>2. DividesWord(4)
  <2>1. DividesWord(Pow2[2])
    BY <1>1, PowerDivides
  <2> QED
    BY <2>1, Pow2Small
<1>3. PICK k \in Nat : k <= BYTE /\ BYTE = Pow2[k]
  BY ByteAssumption
<1>4. Pow2[2 + k] = 4 * Pow2[k]
  BY Pow2Sum, Pow2Small
<1>5. 2 + k \in Nat /\ 2 + k <= WORD
  BY <1>1, <1>3
<1>6. DividesWord(Pow2[2 + k])
  BY <1>5, PowerDivides
<1> QED
  BY <1>1, <1>2, <1>3, <1>4, <1>6

(* A mask that is narrower than a word sees the same bits in a register of *)
(* either core.                                                            *)
LEMMA SameLowBits ==
    ASSUME NEW d, DividesWord(d), NEW x \in Int
    PROVE  /\ Unsigned(x, XLEN64) % d = Unsigned(Signed(x, WORD), XLEN32) % d
           /\ Unsigned(x, XLEN64) % d \in Nat
<1> DEFINE M == Pow2[WORD]
<1>1. M \in Nat /\ M > 0
  BY Widths, PowerOfWidth
<1>2. PICK e \in Nat : e > 0 /\ M = d * e
  BY DEF DividesWord
<1>3. d \in Nat /\ d > 0
  BY DEF DividesWord
<1>4. Pow2[XLEN64] = M * M
  BY Widths, Pow2Sum DEF Width
<1> HIDE DEF M
<1>5. M * M = d * (e * M) /\ e * M \in Nat /\ e * M > 0
  <2>1. e * M \in Nat /\ e * M > 0
    BY <1>1, <1>2
  <2> QED
    BY <1>1, <1>2, <1>3, <2>1
<1>6. (x % (d * (e * M))) % d = x % d
  BY <1>3, <1>5, ModOfMod
<1>7. (x % (d * e)) % d = x % d
  BY <1>2, <1>3, ModOfMod
<1>8. Unsigned(Signed(x, WORD), XLEN32) = x % (d * e)
  BY <1>2, Widths, SignedIs DEF Unsigned, M
<1>9. Unsigned(x, XLEN64) = x % (d * (e * M))
  BY <1>4, <1>5 DEF Unsigned
<1>10. x % d \in Nat
  BY <1>3, DivMod
<1> QED
  BY <1>6, <1>7, <1>8, <1>9, <1>10

(* What the word instructions compute depends on the low words alone. *)
LEMMA LowWords ==
    ASSUME NEW x \in Int, NEW y \in Int, NEW p \in Int
    PROVE  /\ Signed(Signed(x, WORD) + Signed(p, WORD), WORD) = Signed(Signed(x, WORD) + p, WORD)
           /\ Signed(Unsigned(x, WORD) * p, WORD) = Signed(Signed(x, WORD) * p, WORD)
           /\ Signed(x * y, WORD) = Signed(Signed(x, WORD) * Signed(y, WORD), WORD)
<1> DEFINE M == Pow2[WORD]
           a == Signed(x, WORD)
           b == Signed(y, WORD)
           c == Signed(p, WORD)
           u == Unsigned(x, WORD)
<1>1. Width(WORD) /\ M \in Nat /\ M > 0
  BY Widths, PowerOfWidth
<1>2. a \in Int /\ b \in Int /\ c \in Int /\ u \in Int
  BY <1>1, SignedIs, UnsignedIs
<1>3. Congruent(a, x, M)
  BY <1>1, SignedIs
<1>4. Congruent(b, y, M)
  BY <1>1, SignedIs
<1>5. Congruent(c, p, M)
  BY <1>1, SignedIs
<1>6. Congruent(u, x, M)
  BY <1>1, UnsignedIs
<1> HIDE DEF a, b, c, u
<1>7. Signed(a + c, WORD) = Signed(a + p, WORD)
  <2>1. Congruent(a + c, a + p, M)
    BY <1>1, <1>2, <1>5, CongruentOps
  <2> QED
    BY <1>1, <1>2, <2>1, UnsignedUnique
<1>8. Signed(u * p, WORD) = Signed(a * p, WORD)
  <2>1. Congruent(u * p, x * p, M)
    BY <1>1, <1>2, <1>6, CongruentOps
  <2>2. Congruent(a * p, x * p, M)
    BY <1>1, <1>2, <1>3, CongruentOps
  <2>3. Signed(u * p, WORD) = Signed(x * p, WORD)
    BY <1>1, <1>2, <2>1, UnsignedUnique
  <2>4. Signed(a * p, WORD) = Signed(x * p, WORD)
    BY <1>1, <1>2, <2>2, UnsignedUnique
  <2> QED
    BY <2>3, <2>4
<1>9. Signed(x * y, WORD) = Signed(a * b, WORD)
  <2>1. Congruent(a * b, x * b, M)
    BY <1>1, <1>2, <1>3, CongruentOps
  <2>2. Congruent(x * b, x * y, M)
    BY <1>1, <1>2, <1>4, CongruentOps
  <2>3. Signed(a * b, WORD) = Signed(x * b, WORD)
    BY <1>1, <1>2, <2>1, UnsignedUnique
  <2>4. Signed(x * b, WORD) = Signed(x * y, WORD)
    BY <1>1, <1>2, <2>2, UnsignedUnique
  <2> QED
    BY <2>3, <2>4
<1> QED
  BY <1>7, <1>8, <1>9 DEF a, b, c, u

(* The AMO computes the same word on both cores. *)
LEMMA SameAmo ==
    ASSUME NEW op \in AmoOps32, NEW data \in Int, NEW b \in Int
    PROVE  AmoWord64(op, data, b) = Amo32(op, data, Signed(b, WORD))
<1>1. Signed(Signed(b, WORD), WORD) = Signed(b, WORD)
  BY Widths, SignedIs
<1>2. op = "AMOSWAP_W" => AmoWord64(op, data, b) = Amo32(op, data, Signed(b, WORD))
  BY <1>1 DEF AmoWord64, Amo32
<1>3. op \in AmoOps32 \ {"AMOSWAP_W"} => AmoWord64(op, data, b) = Amo32(op, data, Signed(b, WORD))
  BY DEF AmoWord64, Amo32, AmoOps32
<1> QED
  BY <1>2, <1>3

(* y is what the 32 bit core is given for x. *)
Narrows(x, y) ==
    /\ x.op \in DOMAIN NarrowOf /\ y.op = NarrowOf[x.op]
    /\ y.a = Signed(x.a, WORD) /\ y.b = Signed(x.b, WORD) /\ y.imm = x.imm /\ y.mem = x.mem
    /\ x.a \in Int /\ x.b \in Int /\ x.imm \in Int /\ x.mem \in Int
    /\ x.op \in {"SLLIW", "SRLIW", "SRAIW"} => x.imm \in 0 .. WORD - 1

SameEffect(p, q) == p.trap = q.trap /\ p.rd = q.rd /\ p.store = q.store

LEMMA SameResult ==
    ASSUME NEW x, NEW y, NEW v PROVE SameEffect(Result32(x, v), Result32(y, v))
  BY Outcome DEF SameEffect

LEMMA SameAmoEffect ==
    ASSUME NEW x, NEW y, Narrows(x, y), x.op \in AmoOps32
    PROVE  SameEffect(Exec64(x), Exec32(y))
<1>1. y.op = x.op
  BY JoinedFirst DEF Narrows, NarrowOf
<1>2. Exec64(x) = ExecAmo64(x) /\ Exec32(y) = ExecAmo32(y)
  BY <1>1, Exec64At, Exec32At
<1>3. x.op \notin AmoDoubleOps
  BY DEF AmoOps32, AmoDoubleOps
<1> DEFINE data == Signed(x.mem, WORD)
           val == Unsigned(Amo32(x.op, data, y.b), WORD)
           odd == Unsigned(x.a, XLEN64) % 4 # 0
<1>4. data \in Int /\ x.b \in Int /\ y.b = Signed(x.b, WORD)
  BY Widths, SignedIs DEF Narrows
<1>5. AmoWord64(x.op, data, x.b) = Amo32(x.op, data, y.b)
  BY <1>4, SameAmo
<1>6. Unsigned(y.a, XLEN32) % 4 = Unsigned(x.a, XLEN64) % 4
  BY WordDivides, SameLowBits DEF Narrows
<1>7. ExecAmo64(x) = IF odd THEN Raises32(x, "store_misaligned")
                     ELSE [Result32(x, data) EXCEPT !.store = val]
  BY <1>3, <1>5, Widths DEF ExecAmo64
<1>8. ExecAmo32(y) = IF odd THEN Raises32(y, "store_misaligned")
                     ELSE [Result32(y, data) EXCEPT !.store = val]
  BY <1>1, <1>6 DEF ExecAmo32, Narrows
<1> HIDE DEF data, val, odd
<1>9. SameEffect(Raises32(x, "store_misaligned"), Raises32(y, "store_misaligned"))
  BY Outcome DEF SameEffect
<1>10. SameEffect([Result32(x, data) EXCEPT !.store = val], [Result32(y, data) EXCEPT !.store = val])
  BY DEF SameEffect, Result32, Retires32
<1> QED
  BY <1>2, <1>7, <1>8, <1>9, <1>10

LEMMA NarrowIs ==
    /\ NarrowOf["ADDIW"] = "ADDI" /\ NarrowOf["SLLIW"] = "SLLI" /\ NarrowOf["SRLIW"] = "SRLI"
    /\ NarrowOf["SRAIW"] = "SRAI" /\ NarrowOf["ADDW"] = "ADD" /\ NarrowOf["SUBW"] = "SUB"
    /\ NarrowOf["SLLW"] = "SLL" /\ NarrowOf["SRLW"] = "SRL" /\ NarrowOf["SRAW"] = "SRA"
    /\ NarrowOf["MULW"] = "MUL" /\ NarrowOf["DIVW"] = "DIV" /\ NarrowOf["DIVUW"] = "DIVU"
    /\ NarrowOf["REMW"] = "REM" /\ NarrowOf["REMUW"] = "REMU"
    /\ DOMAIN NarrowOf = AmoOps32 \cup WordOps \cup MulDivWordOps
<1> DEFINE words ==
        [ADDIW |-> "ADDI", SLLIW |-> "SLLI", SRLIW |-> "SRLI", SRAIW |-> "SRAI", ADDW |-> "ADD",
         SUBW |-> "SUB", SLLW |-> "SLL", SRLW |-> "SRL", SRAW |-> "SRA", MULW |-> "MUL",
         DIVW |-> "DIV", DIVUW |-> "DIVU", REMW |-> "REM", REMUW |-> "REMU"]
           amos == [op \in AmoOps32 |-> op]
<1>1. NarrowOf = Joined(amos, words)
  BY DEF NarrowOf
<1>2. DOMAIN words = WordOps \cup MulDivWordOps /\ DOMAIN amos = AmoOps32
  BY DEF WordOps, MulDivWordOps
<1>3. (WordOps \cup MulDivWordOps) \cap AmoOps32 = {}
  BY DEF WordOps, MulDivWordOps, AmoOps32
<1> HIDE DEF amos
<1>4. \A op \in DOMAIN words : NarrowOf[op] = words[op]
  BY <1>1, <1>2, <1>3, JoinedSecond
<1>5. DOMAIN NarrowOf = DOMAIN amos \cup DOMAIN words
  BY <1>1 DEF Joined
<1> QED
  BY <1>2, <1>4, <1>5

LEMMA SameImmediate ==
    ASSUME NEW x, NEW y, Narrows(x, y), x.op \in {"ADDIW", "SLLIW", "SRLIW", "SRAIW"}
    PROVE  SameEffect(Exec64(x), Exec32(y))
<1>0. /\ y.a = Signed(x.a, WORD) /\ y.imm = x.imm /\ x.a \in Int /\ x.imm \in Int
      /\ y.op = NarrowOf[x.op]
  BY DEF Narrows
<1>1. CASE x.op = "ADDIW"
  <2>1. y.op = "ADDI" /\ y.op \in ImmOps32
    BY <1>0, <1>1, NarrowIs DEF ImmOps32
  <2>2. AluWord(x.op, x.a, x.imm, 0) = Alu32(y.op, y.a, y.imm)
    BY <1>0, <1>1, <2>1, LowWords, Widths DEF AluWord, Alu32
  <2> QED
    BY <1>1, <2>1, <2>2, Exec64At, Exec32At, SameResult
<1>2. CASE x.op \in {"SLLIW", "SRLIW", "SRAIW"}
  <2>1. y.op \in ShiftOps32 /\ y.op = (IF x.op = "SLLIW" THEN "SLLI" ELSE
                                       IF x.op = "SRLIW" THEN "SRLI" ELSE "SRAI")
    BY <1>0, <1>2, NarrowIs DEF ShiftOps32
  <2>2. x.imm \in Nat /\ Pow2[x.imm] \in Int
    BY <1>2, Pow2Nat, Widths DEF Narrows, Width
  <2>3. Unsigned(y.a, XLEN32) = Unsigned(x.a, WORD)
    BY <1>0, Widths, SignedIs
  <2>4. Signed(Unsigned(x.a, WORD) * Pow2[x.imm], WORD) = Signed(y.a * Pow2[x.imm], WORD)
    BY <1>0, <2>2, LowWords
  <2>5. AluWord(x.op, x.a, 0, x.imm) = Shift32(y.op, y.a, y.imm)
    <3>1. CASE x.op = "SLLIW"
      BY <1>0, <2>1, <2>4, <3>1, Widths DEF AluWord, Shift32
    <3>2. CASE x.op = "SRLIW"
      BY <1>0, <2>1, <2>3, <3>2, Widths DEF AluWord, Shift32
    <3>3. CASE x.op = "SRAIW"
      BY <1>0, <2>1, <3>3 DEF AluWord, Shift32
    <3> QED
      BY <1>2, <3>1, <3>2, <3>3
  <2> QED
    BY <1>2, <2>1, <2>5, Exec64At, Exec32At, SameResult
<1> QED
  BY <1>1, <1>2

LEMMA SameRegister ==
    ASSUME NEW x, NEW y, Narrows(x, y), x.op \in {"ADDW", "SUBW", "SLLW", "SRLW", "SRAW"}
    PROVE  SameEffect(Exec64(x), Exec32(y))
<1>0. /\ y.a = Signed(x.a, WORD) /\ y.b = Signed(x.b, WORD) /\ x.a \in Int /\ x.b \in Int
      /\ y.op = NarrowOf[x.op]
  BY DEF Narrows
<1>1. /\ y.op = CASE x.op = "ADDW" -> "ADD" [] x.op = "SUBW" -> "SUB" [] x.op = "SLLW" -> "SLL"
                  [] x.op = "SRLW" -> "SRL" [] x.op = "SRAW" -> "SRA"
  BY <1>0, NarrowIs
<1>2. y.op \in RegOps32
  BY <1>1 DEF RegOps32
<1> DEFINE n == Shamt_w(x.b)
<1>3. Shamt32(y.b) = n /\ n \in Nat
  BY <1>0, WordDivides, SameLowBits, Widths DEF Shamt_w, Shamt32
<1>4. Pow2[n] \in Int
  BY <1>3, Pow2Nat
<1> HIDE DEF n
<1>5. Signed(Unsigned(x.a, WORD) * Pow2[n], WORD) = Signed(y.a * Pow2[n], WORD)
  BY <1>0, <1>4, LowWords
<1>6. Unsigned(y.a, XLEN32) = Unsigned(x.a, WORD)
  BY <1>0, Widths, SignedIs
<1>7. AluWord(x.op, x.a, x.b, n) = Alu32(y.op, y.a, y.b)
  <2>1. CASE x.op = "ADDW"
    BY <1>0, <1>1, <2>1, Widths DEF AluWord, Alu32
  <2>2. CASE x.op = "SUBW"
    BY <1>0, <1>1, <2>2, Widths DEF AluWord, Alu32
  <2>3. CASE x.op = "SLLW"
    BY <1>0, <1>1, <1>3, <1>5, <2>3, Widths DEF AluWord, Alu32
  <2>4. CASE x.op = "SRLW"
    BY <1>0, <1>1, <1>3, <1>6, <2>4, Widths DEF AluWord, Alu32
  <2>5. CASE x.op = "SRAW"
    BY <1>0, <1>1, <1>3, <2>5, Widths DEF AluWord, Alu32
  <2> QED
    BY <2>1, <2>2, <2>3, <2>4, <2>5
<1> QED
  BY <1>2, <1>7, Exec64At, Exec32At, SameResult DEF n

LEMMA SameMulDiv ==
    ASSUME NEW x, NEW y, Narrows(x, y), x.op \in MulDivWordOps
    PROVE  SameEffect(Exec64(x), Exec32(y))
<1>0. /\ y.a = Signed(x.a, WORD) /\ y.b = Signed(x.b, WORD) /\ x.a \in Int /\ x.b \in Int
      /\ y.op = NarrowOf[x.op]
  BY DEF Narrows
<1>1. y.op = CASE x.op = "MULW" -> "MUL" [] x.op = "DIVW" -> "DIV" [] x.op = "DIVUW" -> "DIVU"
               [] x.op = "REMW" -> "REM" [] x.op = "REMUW" -> "REMU"
  BY <1>0, NarrowIs DEF MulDivWordOps
<1>2. "RV32" \in Arch /\ XLEN["RV32"] = WORD
  BY Widths DEF Arch, XLEN
<1>3. Rd(y, "RV32") = Exec32(y).rd
  BY DEF Rd
<1>4. Exec64(x).rd = Exec32(y).rd
  <2>1. CASE x.op = "MULW"
    <3>1. Exec32(y).rd = Signed(y.a * y.b, WORD)
      BY <1>1, <1>2, <1>3, <2>1, MulRd
    <3> QED
      BY <1>0, <2>1, <3>1, DivWordRd, LowWords
  <2>2. CASE x.op = "DIVW"
    BY <1>0, <1>1, <1>2, <1>3, <2>2, DivRd, DivWordRd
  <2>3. CASE x.op = "DIVUW"
    BY <1>0, <1>1, <1>2, <1>3, <2>3, DivRd, DivWordRd
  <2>4. CASE x.op = "REMW"
    BY <1>0, <1>1, <1>2, <1>3, <2>4, DivRd, DivWordRd
  <2>5. CASE x.op = "REMUW"
    BY <1>0, <1>1, <1>2, <1>3, <2>5, DivRd, DivWordRd
  <2> QED
    BY <2>1, <2>2, <2>3, <2>4, <2>5 DEF MulDivWordOps
<1>5. Exec64(x).trap = Nothing /\ Exec64(x).store = Nothing
  BY Exec64At, Outcome
<1>6. y.op \in {"MUL", "MULH", "MULHU", "MULHSU"} \/ y.op \in {"DIV", "DIVU", "REM", "REMU"}
  BY <1>1 DEF MulDivWordOps
<1>7. Exec32(y).trap = Nothing /\ Exec32(y).store = Nothing
  BY <1>6, Exec32At, Outcome
<1> QED
  BY <1>4, <1>5, <1>7 DEF SameEffect

(* The two executors agree: on every operand, a word instruction or a word  *)
(* AMO of the 64 bit core has the trap, the result and the store that the   *)
(* 32 bit core computes from the low words.                                 *)
THEOREM ExecutorsAgree == ExecSpec => []WordOpsAgree
<1>1. ExecInv => WordOpsAgree
  <2> SUFFICES ASSUME ExecInv, AfterExecute, isa = "RV64", in.op \in DOMAIN NarrowOf
               PROVE  WordOpsAgree
    BY DEF WordOpsAgree
  <2> DEFINE y == [in EXCEPT !.op = NarrowOf[in.op], !.a = Signed(in.a, WORD),
                             !.b = Signed(in.b, WORD)]
  <2>1. isa \in Arch /\ Executed(in, isa) /\ out = Exec64(in)
    BY After
  <2>2. in = [op |-> in.op, a |-> in.a, b |-> in.b, imm |-> in.imm, pc |-> 2, next |-> 6,
              mem |-> in.mem]
    BY <2>1 DEF Executed
  <2>3. /\ y.op = NarrowOf[in.op] /\ y.a = Signed(in.a, WORD) /\ y.b = Signed(in.b, WORD)
        /\ y.imm = in.imm /\ y.mem = in.mem
    BY <2>2
  <2>4. in.op \in {"SLLIW", "SRLIW", "SRAIW"} => in.imm \in 0 .. WORD - 1
    BY <2>1 DEF Executed
  <2> HIDE DEF y
  <2>5. Narrows(in, y)
    BY <2>1, <2>3, <2>4, ExecutedFields DEF Narrows
  <2>6. in.op \in AmoOps32 \/ in.op \in WordOps \/ in.op \in MulDivWordOps
    BY NarrowIs
  <2>7. SameEffect(out, Exec32(y))
    BY <2>1, <2>5, <2>6, SameAmoEffect, SameImmediate, SameRegister, SameMulDiv DEF WordOps
  <2> QED
    BY <2>7 DEF WordOpsAgree, SameEffect, y
<1> QED
  BY <1>1, ExecInvariant, PTL
=============================================================================

------------------------------ MODULE RV32CSR -------------------------------
(* The control and status registers of the 32 bit core: core/rv32/csr.h, and *)
(* the CSR instructions of rv32::ISS. A register is the set of the positions *)
(* of its one bits; a 64 bit counter has two 32 bit addresses.               *)
(*                                                                           *)
(* get_csr_value and set_csr_value take the register table c, the clocks     *)
(* they read (clk.mtime of the CLINT, clk.cycle of the hart), the privilege  *)
(* level prv and an address; they return whether they raised no trap, the    *)
(* value, and the table afterwards.                                          *)
EXTENDS Integers, FiniteSets, Sequences, Tables

User == 0
Supervisor == 1
Machine == 3

Low == 0 .. 31
ReadBits(x, mask) == x \cap mask

(* Mutant: the bits outside the mask are lost. *)
WriteBitsMutant(x, mask, v) == v \cap mask

WriteBits(x, mask, v) == (x \ mask) \cup (v \cap mask)

(***************************************************************************)
(* namespace csr: masks and addresses.                                     *)
(***************************************************************************)
(* Mutant: the supervisor's view of mstatus shows MPRV. *)
Masks32Mutant ==
    LET mie == {0, 1, 3, 4, 5, 7, 8, 9, 11}
    IN [MIE |-> mie, SIE |-> {0, 1, 4, 5, 8, 9}, UIE |-> {0, 4, 8},
        MIP_WRITE |-> {0, 1, 4, 5, 8, 9}, MIP_READ |-> mie, SIP |-> {0, 1}, UIP |-> {0},
        MEDELEG |-> mie, MIDELEG |-> mie, SEDELEG |-> mie, SIDELEG |-> mie, MTVEC |-> Low,
        MCOUNTEREN |-> {0, 1, 2}, MCOUNTINHIBIT |-> {0, 2}, MSTATUS |-> 0 .. 22,
        SSTATUS |-> {0, 1, 4, 5, 8, 31} \cup 13 .. 19, USTATUS |-> {0, 4}, SATP |-> Low,
        FCSR |-> 0 .. 7]

Masks32 ==
    LET mie == {0, 1, 3, 4, 5, 7, 8, 9, 11}
    IN [MIE |-> mie, SIE |-> {0, 1, 4, 5, 8, 9}, UIE |-> {0, 4, 8},
        MIP_WRITE |-> {0, 1, 4, 5, 8, 9}, MIP_READ |-> mie, SIP |-> {0, 1}, UIP |-> {0},
        MEDELEG |-> 0 .. 15 \ {10, 14}, MIDELEG |-> mie,
        SEDELEG |-> 0 .. 15 \ {9, 10, 11, 14}, SIDELEG |-> mie,
        MTVEC |-> Low \ {1}, MCOUNTEREN |-> {0, 1, 2}, MCOUNTINHIBIT |-> {0, 2},
        MSTATUS |-> {0, 1, 3, 4, 5, 7, 8, 31} \cup 11 .. 22,
        SSTATUS |-> {0, 1, 4, 5, 8, 18, 19, 31} \cup 13 .. 16, USTATUS |-> {0, 4},
        SATP |-> 0 .. 21 \cup {31}, FCSR |-> 0 .. 7]

CounterAddrs32 ==
    [CYCLE |-> \hC00, CYCLEH |-> \hC80, TIME |-> \hC01, TIMEH |-> \hC81, INSTRET |-> \hC02,
     INSTRETH |-> \hC82, MCYCLE |-> \hB00, MCYCLEH |-> \hB80, MTIME |-> \hB01, MTIMEH |-> \hB81,
     MINSTRET |-> \hB02, MINSTRETH |-> \hB82]
DebugAddrs32 ==
    [TSELECT |-> \h7A0, TDATA1 |-> \h7A1, TDATA2 |-> \h7A2, TDATA3 |-> \h7A3, DCSR |-> \h7B0,
     DPC |-> \h7B1, DSCRATCH0 |-> \h7B2, DSCRATCH1 |-> \h7B3]
MachineAddrs32 ==
    [MVENDORID |-> \hF11, MARCHID |-> \hF12, MIMPID |-> \hF13, MHARTID |-> \hF14,
     MSTATUS |-> \h300, MISA |-> \h301, MEDELEG |-> \h302, MIDELEG |-> \h303, MIE |-> \h304,
     MTVEC |-> \h305, MCOUNTEREN |-> \h306, MCOUNTINHIBIT |-> \h320, MSCRATCH |-> \h340,
     MEPC |-> \h341, MCAUSE |-> \h342, MTVAL |-> \h343, MIP |-> \h344]
SupervisorAddrs32 ==
    [SSTATUS |-> \h100, SEDELEG |-> \h102, SIDELEG |-> \h103, SIE |-> \h104, STVEC |-> \h105,
     SCOUNTEREN |-> \h106, SSCRATCH |-> \h140, SEPC |-> \h141, SCAUSE |-> \h142,
     STVAL |-> \h143, SIP |-> \h144, SATP |-> \h180]
UserAddrs32 ==
    [USTATUS |-> \h000, UIE |-> \h004, UTVEC |-> \h005, USCRATCH |-> \h040, UEPC |-> \h041,
     UCAUSE |-> \h042, UTVAL |-> \h043, UIP |-> \h044,
     FFLAGS |-> \h001, FRM |-> \h002, FCSR |-> \h003]
(* The 16 pmpaddr registers are all alike: one of them.                    *)
PmpAddrs ==
    [PMPCFG0 |-> \h3A0, PMPCFG1 |-> \h3A1, PMPCFG2 |-> \h3A2, PMPCFG3 |-> \h3A3,
     PMPADDR0 |-> \h3B0]

Addrs32 ==
    Joined(CounterAddrs32, Joined(DebugAddrs32, Joined(MachineAddrs32,
        Joined(SupervisorAddrs32, Joined(UserAddrs32, PmpAddrs)))))

(* hpmcounter, hpmcounterh, mhpmcounter, mhpmcounterh and mhpmevent, 3 to 31. *)
HpmAddrs == \hC03 .. \hC1F \cup \hC83 .. \hC9F \cup \hB03 .. \hB1F \cup \hB83 .. \hB9F
                \cup \h323 .. \h33F

(* SWITCH_CASE_MATCH_ANY_HPMCOUNTER_RV32.                                  *)
HpmCounters32 == HpmAddrs

(* The names of the addresses. *)
Named(addrs) ==
    [a \in {addrs[n] : n \in DOMAIN addrs} |-> CHOOSE n \in DOMAIN addrs : addrs[n] = a]
Names32 == Named(Addrs32)
Name32(addr) == IF addr \in DOMAIN Names32 THEN Names32[addr] ELSE "none"

(***************************************************************************)
(* csr_table: the registers kept, and register_mapping.                    *)
(***************************************************************************)
Stored32 ==
    [MVENDORID |-> "mvendorid", MARCHID |-> "marchid", MIMPID |-> "mimpid", MHARTID |-> "mhartid",
     MSTATUS |-> "mstatus", MISA |-> "misa", MEDELEG |-> "medeleg", MIDELEG |-> "mideleg",
     MIE |-> "mie", MTVEC |-> "mtvec", MCOUNTEREN |-> "mcounteren",
     MCOUNTINHIBIT |-> "mcountinhibit", MSCRATCH |-> "mscratch", MEPC |-> "mepc",
     MCAUSE |-> "mcause", MTVAL |-> "mtval", MIP |-> "mip", SEDELEG |-> "sedeleg",
     SIDELEG |-> "sideleg", STVEC |-> "stvec", SCOUNTEREN |-> "scounteren",
     SSCRATCH |-> "sscratch", SEPC |-> "sepc", SCAUSE |-> "scause", STVAL |-> "stval",
     SATP |-> "satp", UTVEC |-> "utvec", USCRATCH |-> "uscratch", UEPC |-> "uepc",
     UCAUSE |-> "ucause", UTVAL |-> "utval", FCSR |-> "fcsr",
     PMPCFG0 |-> "pmpcfg0", PMPCFG1 |-> "pmpcfg1", PMPCFG2 |-> "pmpcfg2", PMPCFG3 |-> "pmpcfg3",
     PMPADDR0 |-> "pmpaddr"]
Halves32 ==
    [CYCLE |-> <<"cycle", 0>>, CYCLEH |-> <<"cycle", 32>>, TIME |-> <<"time", 0>>,
     TIMEH |-> <<"time", 32>>, INSTRET |-> <<"instret", 0>>, INSTRETH |-> <<"instret", 32>>,
     MCYCLE |-> <<"cycle", 0>>, MCYCLEH |-> <<"cycle", 32>>, MTIME |-> <<"time", 0>>,
     MTIMEH |-> <<"time", 32>>, MINSTRET |-> <<"instret", 0>>, MINSTRETH |-> <<"instret", 32>>]

Storage == {Stored32[n] : n \in DOMAIN Stored32} \cup {"cycle", "time", "instret"}
csr_table32 ==
    [r \in Storage |-> IF r = "misa" THEN {0, 2, 5, 8, 12, 13, 18, 20, 30} ELSE {}]

Half(x, shift) == {b \in Low : b + shift \in x}
SetHalf(x, shift, v) == {b \in x : b - shift \notin Low} \cup {b + shift : b \in v}

is_valid_csr32_addr(addr) ==
    Name32(addr) \in DOMAIN Stored32 \cup DOMAIN Halves32
default_read32(c, addr) ==
    LET n == Name32(addr)
    IN IF n \in DOMAIN Stored32 THEN c[Stored32[n]]
       ELSE Half(c[Halves32[n][1]], Halves32[n][2])
default_write32(c, addr, v) ==
    LET n == Name32(addr)
    IN IF n \in DOMAIN Stored32 THEN [c EXCEPT ![Stored32[n]] = v]
       ELSE [c EXCEPT ![Halves32[n][1]] = SetHalf(@, Halves32[n][2], v)]

(***************************************************************************)
(* Access rights.                                                          *)
(***************************************************************************)
(* The lowest level that may use an address, and its read-only bits.       *)
csr_prv(addr) == (addr \div 256) % 4
csr_readonly(addr) == (addr \div 1024) % 4 = 3

is_invalid_csr_access32(c, prv, addr, is_write) ==
    \/ Name32(addr) \in {"FFLAGS", "FRM", "FCSR"} /\ 5 \notin c["misa"]
    \/ is_write /\ csr_readonly(addr)
    \/ prv < csr_prv(addr)
    \/ csr_prv(addr) = Supervisor /\ 18 \notin c["misa"]
    \/ csr_prv(addr) = User /\ 20 \notin c["misa"]

(* validate_csr_counter_read_access_rights. *)
MayCount(c, prv, addr) ==
    LET cnt == addr % 32
    IN /\ prv = Supervisor => cnt \in c["mcounteren"]
       /\ prv = User => cnt \in c["mcounteren"] \cap c["scounteren"]
MayReadCounter32(c, prv, addr) ==
    addr \in \hC00 .. \hC1F \cup \hC80 .. \hC9F => MayCount(c, prv, addr)

(***************************************************************************)
(* get_csr_value and set_csr_value.                                        *)
(***************************************************************************)
Gives(c, v) == [ok |-> TRUE, value |-> v, csrs |-> c]
IllegalAccess(c) == [ok |-> FALSE, value |-> {}, csrs |-> c]
Tvm == 20

(* Views: the register behind an address, and the mask it is read through. *)
Views32 ==
    [MSTATUS |-> <<"mstatus", "MSTATUS">>, SSTATUS |-> <<"mstatus", "SSTATUS">>,
     USTATUS |-> <<"mstatus", "USTATUS">>, MIP |-> <<"mip", "MIP_READ">>,
     SIP |-> <<"mip", "SIP">>, UIP |-> <<"mip", "UIP">>, MIE |-> <<"mie", "MIE">>,
     SIE |-> <<"mie", "SIE">>, UIE |-> <<"mie", "UIE">>, FCSR |-> <<"fcsr", "FCSR">>]

(* Mutant: only writing satp is trapped by TVM. *)
TrapsSatpReadMutant(c) == FALSE

TrapsSatpRead(c) == Tvm \in c["mstatus"]

get_csr_value32(c, clk, prv, addr) ==
    LET n == Name32(addr)
        timed == [c EXCEPT !["time"] = clk.mtime]
        cycled == [c EXCEPT !["cycle"] = clk.cycle]
    IN IF ~MayReadCounter32(c, prv, addr) THEN IllegalAccess(c)
       ELSE IF n \in {"TIME", "MTIME", "TIMEH", "MTIMEH"}
       THEN Gives(timed, default_read32(timed, addr))
       ELSE IF n \in {"MCYCLE", "MCYCLEH"} THEN Gives(cycled, default_read32(cycled, addr))
       ELSE IF addr \in HpmCounters32 THEN Gives(c, {})
       ELSE IF n \in DOMAIN Views32
       THEN Gives(c, ReadBits(c[Views32[n][1]], Masks32[Views32[n][2]]))
       ELSE IF n = "FFLAGS" THEN Gives(c, {b \in 0 .. 4 : b \in c["fcsr"]})
       ELSE IF n = "FRM" THEN Gives(c, {b \in 0 .. 2 : b + 5 \in c["fcsr"]})
       ELSE IF n = "TSELECT" THEN Gives(c, {0})
       ELSE IF n \in DOMAIN DebugAddrs32 THEN Gives(c, {})
       ELSE IF n = "SATP" /\ TrapsSatpRead(c) THEN IllegalAccess(c)
       ELSE IF is_valid_csr32_addr(addr) THEN Gives(c, default_read32(c, addr))
       ELSE IllegalAccess(c)

(* The registers written through a mask. *)
Written32 ==
    [MTVEC |-> <<"mtvec", "MTVEC">>, STVEC |-> <<"stvec", "MTVEC">>, UTVEC |-> <<"utvec", "MTVEC">>,
     MSTATUS |-> <<"mstatus", "MSTATUS">>, SSTATUS |-> <<"mstatus", "SSTATUS">>,
     USTATUS |-> <<"mstatus", "USTATUS">>, MIP |-> <<"mip", "MIP_WRITE">>,
     SIP |-> <<"mip", "SIP">>, UIP |-> <<"mip", "UIP">>, MIE |-> <<"mie", "MIE">>,
     SIE |-> <<"mie", "SIE">>, UIE |-> <<"mie", "UIE">>, MIDELEG |-> <<"mideleg", "MIDELEG">>,
     MEDELEG |-> <<"medeleg", "MEDELEG">>, SIDELEG |-> <<"sideleg", "SIDELEG">>,
     SEDELEG |-> <<"sedeleg", "SEDELEG">>, MCOUNTEREN |-> <<"mcounteren", "MCOUNTEREN">>,
     SCOUNTEREN |-> <<"scounteren", "MCOUNTEREN">>,
     MCOUNTINHIBIT |-> <<"mcountinhibit", "MCOUNTINHIBIT">>, FCSR |-> <<"fcsr", "FCSR">>]
Epcs == [MEPC |-> "mepc", SEPC |-> "sepc", UEPC |-> "uepc"]
pc_alignment_mask32(c) == IF 2 \in c["misa"] THEN Low \ {0} ELSE Low \ {0, 1}

set_csr_value32(c, addr, v) ==
    LET n == Name32(addr)
        Put(r, mask) == Gives([c EXCEPT ![r] = WriteBits(@, mask, v)], {})
    IN IF n = "MISA" \/ addr \in HpmCounters32 \/ n \in DOMAIN DebugAddrs32 THEN Gives(c, {})
       ELSE IF n = "SATP" /\ Tvm \in c["mstatus"] THEN IllegalAccess(c)
       ELSE IF n = "SATP" THEN Put("satp", Masks32.SATP)
       ELSE IF n \in DOMAIN Written32 THEN Put(Written32[n][1], Masks32[Written32[n][2]])
       ELSE IF n \in DOMAIN Epcs THEN Put(Epcs[n], pc_alignment_mask32(c))
       ELSE IF n = "FFLAGS" THEN Put("fcsr", 0 .. 4)
       ELSE IF n = "FRM"
       THEN Gives([c EXCEPT !["fcsr"] = WriteBits(@, 5 .. 7, {b + 5 : b \in v})], {})
       ELSE IF is_valid_csr32_addr(addr) THEN Gives(default_write32(c, addr, v), {})
       ELSE IllegalAccess(c)

(***************************************************************************)
(* CSRRW, CSRRS, CSRRC and their immediate forms. i is the instruction:    *)
(* its operation, its address, whether rd is x0, whether the operand is x0 *)
(* or the immediate 0, and the value v of the operand. The result says     *)
(* whether it trapped, what it wrote to rd, and the table afterwards.      *)
(***************************************************************************)
Swaps(i) == i.op \in {"CSRRW", "CSRRWI"}
Writes(i) == Swaps(i) \/ ~i.zero
Reads(i) == ~Swaps(i) \/ ~i.rd0

(* Mutant: setting bits forgets the old value. *)
CombinedMutant(i, old) ==
    IF i.op \in {"CSRRC", "CSRRCI"} THEN old \ i.v ELSE i.v

Combined(i, old) ==
    IF Swaps(i) THEN i.v
    ELSE IF i.op \in {"CSRRS", "CSRRSI"} THEN old \cup i.v
    ELSE old \ i.v
Outcome(trap, c) == [trap |-> trap, wrote |-> FALSE, rd |-> {}, csrs |-> c]

ExecCsr32(c, clk, prv, i) ==
    IF is_invalid_csr_access32(c, prv, i.addr, Writes(i)) THEN Outcome(TRUE, c)
    ELSE LET get == IF Reads(i) THEN get_csr_value32(c, clk, prv, i.addr) ELSE Gives(c, {})
             set == IF Writes(i) THEN set_csr_value32(get.csrs, i.addr, Combined(i, get.value))
                                 ELSE get
         IN IF ~get.ok THEN Outcome(TRUE, c)
            ELSE [trap |-> ~set.ok, wrote |-> ~i.rd0, rd |-> IF i.rd0 THEN {} ELSE get.value,
                  csrs |-> set.csrs]
=============================================================================

------------------------------ MODULE RV64CSR -------------------------------
(* The control and status registers of the 64 bit core: core/rv64/csr.h, and *)
(* the CSR instructions of rv64::ISS, in the form of RV32CSR. Registers have *)
(* 64 bits, the counters one address each, there are no debug registers, the *)
(* status registers have a read and a write mask, satp.mode is WARL, and     *)
(* is_invalid_csr_access does not look at misa.                              *)
EXTENDS RV32CSR

All64 == 0 .. 63

Masks64 ==
    LET mie == {0, 1, 3, 4, 5, 7, 8, 9, 11}
        mstatus == {0, 1, 3, 4, 5, 7, 8, 63} \cup 11 .. 22
        sstatus == {0, 1, 4, 5, 8, 18, 19, 63} \cup 13 .. 16
    IN [MIE |-> mie, SIE |-> {0, 1, 4, 5, 8, 9}, UIE |-> {0, 4, 8},
        MIP_WRITE |-> {0, 1, 4, 5, 8, 9}, MIP_READ |-> mie, SIP |-> {0, 1}, UIP |-> {0},
        MEDELEG |-> 0 .. 15 \ {10, 14}, MIDELEG |-> mie,
        SEDELEG |-> 0 .. 15 \ {9, 10, 11, 14}, SIDELEG |-> mie,
        MTVEC |-> All64 \ {1}, MCOUNTEREN |-> {0, 1, 2}, MCOUNTINHIBIT |-> {0, 2},
        MSTATUS_WRITE |-> mstatus, MSTATUS_READ |-> mstatus \cup 32 .. 35,
        SSTATUS_WRITE |-> sstatus, SSTATUS_READ |-> sstatus \cup {32, 33}, USTATUS |-> {0, 4},
        SATP |-> 0 .. 43 \cup 60 .. 63, FCSR |-> 0 .. 7]

CounterAddrs64 ==
    [CYCLE |-> \hC00, TIME |-> \hC01, INSTRET |-> \hC02, MCYCLE |-> \hB00, MTIME |-> \hB01,
     MINSTRET |-> \hB02]
MachineAddrs64 == MachineAddrs32
SupervisorAddrs64 == SupervisorAddrs32
UserAddrs64 == UserAddrs32
(* The addresses of the upper halves are declared here too, and not matched. *)
HpmCounters64 == HpmAddrs \ (\hC83 .. \hC9F \cup \hB83 .. \hB9F)

Addrs64 ==
    Joined(CounterAddrs64, Joined(MachineAddrs64, Joined(SupervisorAddrs64,
        Joined(UserAddrs64, PmpAddrs))))

Names64 == Named(Addrs64)
Name64(addr) == IF addr \in DOMAIN Names64 THEN Names64[addr] ELSE "none"

(* The array pmpcfg has 2 elements, but 4 addresses are mapped to it: the  *)
(* elements 2 and 3 are the members of csr_table that follow the array.    *)
PastPmpcfg == [PMPCFG2 |-> "sedeleg", PMPCFG3 |-> "sideleg"]
Counters64 ==
    [CYCLE |-> "cycle", TIME |-> "time", INSTRET |-> "instret", MCYCLE |-> "cycle",
     MTIME |-> "time", MINSTRET |-> "instret"]
Stored64 == Joined(PastPmpcfg, Joined(Counters64, Stored32))

(* uxl and sxl are hardwired to 2 by the constructor of csr_mstatus.       *)
csr_table64 ==
    [r \in Storage |->
        IF r = "misa" THEN {0, 2, 3, 5, 8, 12, 13, 18, 20, 63}
        ELSE IF r = "mstatus" THEN {33, 35}
        ELSE {}]

is_valid_csr64_addr(addr) == Name64(addr) \in DOMAIN Stored64
default_read64(c, addr) == c[Stored64[Name64(addr)]]
default_write64(c, addr, v) == [c EXCEPT ![Stored64[Name64(addr)]] = v]

is_invalid_csr_access64(prv, addr, is_write) ==
    (is_write /\ csr_readonly(addr)) \/ prv < csr_prv(addr)

MayReadCounter64(c, prv, addr) == addr \in \hC00 .. \hC1F => MayCount(c, prv, addr)

Views64 ==
    [MSTATUS |-> <<"mstatus", "MSTATUS_READ">>, SSTATUS |-> <<"mstatus", "SSTATUS_READ">>,
     USTATUS |-> <<"mstatus", "USTATUS">>, MIP |-> <<"mip", "MIP_READ">>,
     SIP |-> <<"mip", "SIP">>, UIP |-> <<"mip", "UIP">>, MIE |-> <<"mie", "MIE">>,
     SIE |-> <<"mie", "SIE">>, UIE |-> <<"mie", "UIE">>, FCSR |-> <<"fcsr", "FCSR">>]

get_csr_value64(c, clk, prv, addr) ==
    LET n == Name64(addr)
    IN IF ~MayReadCounter64(c, prv, addr) THEN IllegalAccess(c)
       ELSE IF n \in {"TIME", "MTIME"} THEN Gives([c EXCEPT !["time"] = clk.mtime], clk.mtime)
       ELSE IF n = "MCYCLE" THEN Gives([c EXCEPT !["cycle"] = clk.cycle], clk.cycle)
       ELSE IF addr \in HpmCounters64 THEN Gives(c, {})
       ELSE IF n \in DOMAIN Views64
       THEN Gives(c, ReadBits(c[Views64[n][1]], Masks64[Views64[n][2]]))
       ELSE IF n = "FFLAGS" THEN Gives(c, {b \in 0 .. 4 : b \in c["fcsr"]})
       ELSE IF n = "FRM" THEN Gives(c, {b \in 0 .. 2 : b + 5 \in c["fcsr"]})
       ELSE IF n = "SATP" /\ TrapsSatpRead(c) THEN IllegalAccess(c)
       ELSE IF is_valid_csr64_addr(addr) THEN Gives(c, default_read64(c, addr))
       ELSE IllegalAccess(c)

Written64 ==
    [MTVEC |-> <<"mtvec", "MTVEC">>, STVEC |-> <<"stvec", "MTVEC">>, UTVEC |-> <<"utvec", "MTVEC">>,
     MSTATUS |-> <<"mstatus", "MSTATUS_WRITE">>, SSTATUS |-> <<"mstatus", "SSTATUS_WRITE">>,
     USTATUS |-> <<"mstatus", "USTATUS">>, MIP |-> <<"mip", "MIP_WRITE">>,
     SIP |-> <<"mip", "SIP">>, UIP |-> <<"mip", "UIP">>, MIE |-> <<"mie", "MIE">>,
     SIE |-> <<"mie", "SIE">>, UIE |-> <<"mie", "UIE">>, MIDELEG |-> <<"mideleg", "MIDELEG">>,
     MEDELEG |-> <<"medeleg", "MEDELEG">>, SIDELEG |-> <<"sideleg", "SIDELEG">>,
     SEDELEG |-> <<"sedeleg", "SEDELEG">>, MCOUNTEREN |-> <<"mcounteren", "MCOUNTEREN">>,
     SCOUNTEREN |-> <<"scounteren", "MCOUNTEREN">>,
     MCOUNTINHIBIT |-> <<"mcountinhibit", "MCOUNTINHIBIT">>, FCSR |-> <<"fcsr", "FCSR">>]
pc_alignment_mask64(c) == IF 2 \in c["misa"] THEN All64 \ {0} ELSE All64 \ {0, 1}

(* satp.mode: bare, Sv39 or Sv48. *)
SatpModes == {{}, {63}, {60, 63}}
SatpMode(satp) == satp \cap 60 .. 63

(* Mutant: an unsupported mode is kept. *)
WriteSatpMutant(satp, v) == WriteBits(satp, Masks64.SATP, v)

(* An unsupported mode leaves the mode as it was and writes the rest.      *)
WriteSatp(satp, v) ==
    LET written == WriteBits(satp, Masks64.SATP, v)
    IN IF SatpMode(written) \in SatpModes THEN written
       ELSE (written \ (60 .. 63)) \cup SatpMode(satp)

set_csr_value64(c, addr, v) ==
    LET n == Name64(addr)
        Put(r, mask) == Gives([c EXCEPT ![r] = WriteBits(@, mask, v)], {})
    IN IF n = "MISA" \/ addr \in HpmCounters64 THEN Gives(c, {})
       ELSE IF n = "SATP" /\ Tvm \in c["mstatus"] THEN IllegalAccess(c)
       ELSE IF n = "SATP" THEN Gives([c EXCEPT !["satp"] = WriteSatp(@, v)], {})
       ELSE IF n \in DOMAIN Written64 THEN Put(Written64[n][1], Masks64[Written64[n][2]])
       ELSE IF n \in DOMAIN Epcs THEN Put(Epcs[n], pc_alignment_mask64(c))
       ELSE IF n = "FFLAGS" THEN Put("fcsr", 0 .. 4)
       ELSE IF n = "FRM"
       THEN Gives([c EXCEPT !["fcsr"] = WriteBits(@, 5 .. 7, {b + 5 : b \in v})], {})
       ELSE IF is_valid_csr64_addr(addr) THEN Gives(default_write64(c, addr, v), {})
       ELSE IllegalAccess(c)

ExecCsr64(c, clk, prv, i) ==
    IF is_invalid_csr_access64(prv, i.addr, Writes(i)) THEN Outcome(TRUE, c)
    ELSE LET get == IF Reads(i) THEN get_csr_value64(c, clk, prv, i.addr) ELSE Gives(c, {})
             set == IF Writes(i) THEN set_csr_value64(get.csrs, i.addr, Combined(i, get.value))
                                 ELSE get
         IN IF ~get.ok THEN Outcome(TRUE, c)
            ELSE [trap |-> ~set.ok, wrote |-> ~i.rd0, rd |-> IF i.rd0 THEN {} ELSE get.value,
                  csrs |-> set.csrs]
=============================================================================

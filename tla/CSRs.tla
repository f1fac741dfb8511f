-------------------------------- MODULE CSRs --------------------------------
(* The CSR registers of a hart of either core under the CSR instructions,    *)
(* the interrupt lines and the clocks. The privilege level an instruction    *)
(* executes at is any: module Traps models how it changes.                   *)
EXTENDS RV64CSR

CONSTANT Workloads        \* what software does in a behaviour: the CSR instructions
                          \* and addresses and the values and units it uses, its page
                          \* tables, and the number of steps, a bound

VARIABLES arch,     \* the core, "RV32" or "RV64"
          use,      \* the workload of this behaviour
          csrs,     \* csr_table
          clk,      \* the time of the CLINT and the cycle counter of the hart
          lines,    \* the interrupt lines the devices hold up
          overwritten,  \* history: bits of mip that software wrote after the device
          last      \* the unit that executed last, and the outcome

csrVars == <<arch, use, csrs, clk, lines, overwritten, last>>

Levels == {User, Supervisor, Machine}
NoInstr == [by |-> "none", mode |-> Machine, trap |-> FALSE, wrote |-> FALSE]

(* The counters cross 2^32 so that both halves are seen to change.         *)
Clock == <<{}, {0}, {32}>>

CsrInit ==
    /\ arch \in {"RV32", "RV64"}
    /\ use \in Workloads
    /\ csrs = IF arch = "RV32" THEN csr_table32 ELSE csr_table64
    /\ clk = [mtime |-> {}, cycle |-> {}]
    /\ lines = {}
    /\ overwritten = {}
    /\ last = NoInstr

Width == IF arch = "RV32" THEN Low ELSE All64

(* The register forms take a source register, the others five bits, and    *)
(* the latter differ from the former in nothing else.                      *)
Immediate == {"CSRRWI", "CSRRSI", "CSRRCI"}
Operand(op) == IF op \in Immediate THEN {v \cap 0 .. 4 : v \in use.values}
                                   ELSE {v \cap Width : v \in use.values}

(* The bits of mip that the devices drive, trigger_external_interrupt and  *)
(* clear_external_interrupt for each level among them: msip, mtip, ueip,   *)
(* seip and meip. MIP_WRITE_MASK leaves two of them to software as well.   *)
DeviceBits == {3, 7, 8, 9, 11}
SoftwareBits == {8, 9}

(* The bits of SoftwareBits that an instruction writes: a swap writes all, *)
(* setting and clearing bits is about those that the operand names.        *)
Overwrites(prv, i) ==
    IF prv = Machine /\ i.addr = \h344 /\ Writes(i)
    THEN IF Swaps(i) THEN SoftwareBits ELSE SoftwareBits \cap i.v
    ELSE {}

CsrInstruction(prv, i) ==
    LET r == IF arch = "RV32" THEN ExecCsr32(csrs, clk, prv, i) ELSE ExecCsr64(csrs, clk, prv, i)
    IN /\ csrs' = r.csrs
       /\ last' = [by |-> "csr", mode |-> prv, trap |-> r.trap, wrote |-> r.wrote]
       /\ overwritten' = overwritten \cup Overwrites(prv, i)
       /\ UNCHANGED <<arch, use, clk, lines>>

ExecuteCsr ==
    \E prv \in Levels, op \in use.ops, addr \in use.addrs, rd0 \in BOOLEAN :
        \E v \in Operand(op), zero \in BOOLEAN :
            /\ zero => v = {}
            /\ op \in Immediate => zero = (v = {})
            /\ CsrInstruction(prv, [op |-> op, addr |-> addr, rd0 |-> rd0, zero |-> zero, v |-> v])

(* trigger_external_interrupt, trigger_timer_interrupt and                 *)
(* trigger_software_interrupt, and clear_external_interrupt: a device may  *)
(* drive its line again to where it is, as the PLICs do.                   *)
DriveLine ==
    \E b \in DeviceBits, up \in BOOLEAN :
        /\ "lines" \in use.units
        /\ lines' = IF up THEN lines \cup {b} ELSE lines \ {b}
        /\ csrs' = [csrs EXCEPT !["mip"] = IF up THEN @ \cup {b} ELSE @ \ {b}]
        /\ overwritten' = overwritten \ {b}
        /\ last' = NoInstr
        /\ UNCHANGED <<arch, use, clk>>

(* Simulated time passes. *)
Tick ==
    \E k \in 1 .. Len(Clock) - 1 :
        /\ "clock" \in use.units
        /\ clk.mtime = Clock[k]
        /\ clk' = [mtime |-> Clock[k + 1], cycle |-> Clock[k + 1]]
        /\ last' = NoInstr
        /\ UNCHANGED <<arch, use, csrs, lines, overwritten>>

CsrNext == ExecuteCsr \/ DriveLine \/ Tick

(***************************************************************************)
(* Properties.                                                             *)
(***************************************************************************)
(* What a level may not change: the registers of the levels above it, and  *)
(* their fields in the registers it shares with them. Reading a counter    *)
(* refreshes the cached copy of it at any level.                           *)
SharedFields ==
    [mstatus |-> [user |-> {0, 4}, supervisor |-> {0, 1, 4, 5, 8, 13, 14, 15, 16, 18, 19, 31, 63}],
     mie |-> [user |-> {0, 4, 8}, supervisor |-> {0, 1, 4, 5, 8, 9}],
     mip |-> [user |-> {0}, supervisor |-> {0, 1}]]
UserRegs == {"utvec", "uscratch", "uepc", "ucause", "utval", "fcsr", "cycle", "time", "instret"}
SupervisorRegs == {"sedeleg", "sideleg", "stvec", "scounteren", "sscratch", "sepc", "scause",
                   "stval", "satp"}
Shared(r, level) ==
    IF r \in UserRegs \/ (r \in SupervisorRegs /\ level = Supervisor) THEN All64
    ELSE IF r \notin DOMAIN SharedFields THEN {}
    ELSE IF level = User THEN SharedFields[r].user
    ELSE SharedFields[r].supervisor

(* A CSR instruction executed at user or supervisor level changes nothing  *)
(* that belongs to a level above, whichever view of a register it uses.    *)
LevelsAreSeparate ==
    [][last'.by = "csr" /\ last'.mode # Machine =>
          \A r \in Storage : csrs'[r] # csrs[r] =>
                csrs'[r] \ Shared(r, last'.mode) = csrs[r] \ Shared(r, last'.mode)]_csrVars

(* A CSR instruction that traps has no effect: it is executed again from   *)
(* the start after the handler, so neither rd nor a register may show it.  *)
TrapsArePrecise ==
    [][last'.by = "csr" /\ last'.trap => csrs' = csrs /\ ~last'.wrote]_csrVars

(* The table after software saves register addr and writes it back: the    *)
(* instructions csrr and csrrw.                                            *)
Save(addr) == [op |-> "CSRRS", addr |-> addr, rd0 |-> FALSE, zero |-> TRUE, v |-> {}]
WriteTo(addr, v) == [op |-> "CSRRW", addr |-> addr, rd0 |-> FALSE, zero |-> FALSE, v |-> v]
Restored(addr) ==
    LET Exec(i) == IF arch = "RV32" THEN ExecCsr32(csrs, clk, Machine, i)
                                    ELSE ExecCsr64(csrs, clk, Machine, i)
        saved == Exec(Save(addr))
    IN IF saved.trap THEN csrs ELSE Exec(WriteTo(addr, saved.rd)).csrs

(* Saving a CSR and writing the saved value back changes no register but   *)
(* the cached counters, for every register, view and pair of read and      *)
(* write masks: what a context switch relies on.                           *)
RestoreIsIdentity ==
    \A addr \in use.addrs :
        LET c == Restored(addr)
        IN \A r \in Storage \ {"cycle", "time"} : c[r] = csrs[r]

(* The bits of mip that devices drive follow the devices, but for seip and *)
(* ueip from when machine mode software writes the bit itself until its    *)
(* device drives it again: no interrupt gets lost, and none is made up, by *)
(* a read-modify-write of other bits of mip, by a write through sip or uip *)
(* or by an instruction of a lower level.                                  *)
MipFollowsDevices == (csrs["mip"] \cap DeviceBits) \ overwritten = lines \ overwritten

(* misa is fixed, the low bits of the trap vectors and of the exception    *)
(* PCs are legal, and satp.mode is one the MMU implements.                 *)
RegistersAreLegal ==
    /\ csrs["misa"] = (IF arch = "RV32" THEN csr_table32 ELSE csr_table64)["misa"]
    /\ \A r \in {"mtvec", "stvec", "utvec"} : 1 \notin csrs[r]
    /\ \A r \in {"mepc", "sepc", "uepc"} : 0 \notin csrs[r]
    /\ arch = "RV64" => SatpMode(csrs["satp"]) \in SatpModes

(* No sequence of CSR instructions and interrupt lines reaches a value the *)
(* hardware rules out: set_csr_value writes through masks that spare what  *)
(* is hardwired, and the shared register mip shows the lines of the        *)
(* devices where machine mode software did not overwrite them.             *)
ValuesAreLegal == RegistersAreLegal /\ MipFollowsDevices
=============================================================================

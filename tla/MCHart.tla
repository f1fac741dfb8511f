------------------------------- MODULE MCHart -------------------------------
(* Model checking of what a hart does in one step: decoding and executing an *)
(* instruction (ExecStep), or changing the registers, the floating point     *)
(* unit and the MMU (HartState). A behaviour is about one of the two, and    *)
(* the other stays in its initial state.                                     *)
EXTENDS ExecStep, HartState, TLC

(* Fields that some mask compares: rd and rs1 zero or not, rs2 up to 5.    *)
MCRegisters == {<<0, 0, 0>>, <<0, 0, 1>>, <<0, 0, 2>>, <<0, 0, 3>>, <<0, 0, 5>>, <<1, 0, 2>>,
                <<0, 1, 5>>, <<1, 1, 4>>}

MCJumps == {-6, -3, -2, 0, 1, 4}

(* Around zero, around the extremes of a word and of a double word.        *)
MCEdges == {-128, -17, -9, -8, -7, -1, 0, 1, 2, 7, 8, 9, 16, 127}

Ones == 0 .. 63
Leaf(ppn, flags) == [ppn |-> ppn, flags |-> flags \cup {"V"}]
Pointer(ppn) == [ppn |-> ppn, flags |-> {"V"}]
NoPte == [ppn |-> 0, flags |-> {}]

(* Table 0 is the root when satp.ppn is 0, table 1 when it is 1.           *)
Table(t0, t1) == <<0, 0>> :> t0[1] @@ <<0, 1>> :> t0[2] @@ <<1, 0>> :> t1[1] @@ <<1, 1>> :> t1[2]

Use(addrs, values, units, ops) ==
    [addrs |-> addrs, values |-> values, units |-> units, ops |-> ops, steps |-> 3,
     pt |-> Table(<<NoPte, NoPte>>, <<NoPte, NoPte>>)]
UseMmu(table) ==
    [addrs |-> {\h300, \h180}, values |-> {{0, 31, 63}, {17, 20}, {18, 19}}, units |-> {"mmu"},
     ops |-> {"CSRRS", "CSRRC"}, steps |-> 4, pt |-> table]

NoUse == [Use({}, {}, {}, {}) EXCEPT !.steps = 0]

RegisterForms == {"CSRRW", "CSRRS", "CSRRC"}
ImmediateForms == {"CSRRWI", "CSRRSI", "CSRRCI"}

(* The status registers with satp, the interrupt registers, delegation,    *)
(* trap vectors and exception PCs, the counters, the registers without a   *)
(* rule of their own and addresses of no register; the floating point      *)
(* registers with the unit; satp and mstatus with the MMU.                 *)
MCWorkloads ==
    {NoUse,
     Use({\h300, \h100, \h000, \h180}, {Ones, {}, {20}, {61, 62}, {11, 18}}, {}, RegisterForms),
     Use({\h304, \h104, \h004, \h344, \h144, \h044}, {Ones, {3, 9}, {1}}, {"lines"}, RegisterForms),
     Use({\h302, \h303, \h102, \h103, \h305, \h105, \h005, \h3A2, \h3A3}, {Ones, {1}}, {}, RegisterForms),
     Use({\h341, \h141, \h041, \h301, \h344}, {Ones, {0, 1}}, {"lines"}, RegisterForms),
     Use({\h306, \h106, \h320, \hC00, \hC01, \hC02, \hB00, \hC80, \hB81, \hC03, \h323},
         {Ones, {}, {0}}, {"clock"}, RegisterForms),
     Use({\h340, \h342, \hF11, \h301, \h3A0, \h7A0, \h7B0, \h7C0, \h5C0}, {Ones, {}, {0}}, {},
         RegisterForms),
     Use({\h003, \h002, \h001, \h304}, {Ones, {}, {2}}, {}, RegisterForms \cup ImmediateForms),
     Use({\h002, \h300}, {Ones, {2}, {13}}, {"fpu"}, RegisterForms),
     UseMmu(Table(<<Pointer(1), Leaf(8, {"R", "W", "X"})>>, <<Leaf(4, {"R", "W", "U"}), Pointer(1)>>)),
     UseMmu(Table(<<Leaf(5, {"R", "X", "A"}), Pointer(0)>>, <<Pointer(0), Leaf(8, {"X", "U", "A"})>>))}

MCPtes == {NoPte, Leaf(4, {"R", "W", "A"}), Leaf(8, {"W"})}
MCVpns == [RV32 |-> {0, 1, 2}, RV64 |-> {0, 2, 29, 8}]

-----------------------------------------------------------------------------
NoJob == [unit |-> "none"]

MCInit ==
    /\ Init
    /\ isa = arch
    /\ \/ use = NoUse /\ ExecInit
       \/ use # NoUse /\ job = NoJob /\ in = Nothing /\ out = Nothing

MCNext ==
    \/ ExecNext /\ UNCHANGED vars
    \/ Next /\ UNCHANGED execVars

MCSpec == MCInit /\ [][MCNext]_<<execVars, vars>>
=============================================================================

-------------------------------- MODULE MMU ---------------------------------
(* GenericMMU: translation of addresses through the page table that satp     *)
(* selects, with a direct mapped TLB for each mode and type of access, which *)
(* only SFENCE.VMA empties. A page number has one bit for each level of the  *)
(* table instead of nine or ten, and the page offset is left out. HartMemory *)
(* models the bus transactions of a walk, which interleave with other harts; *)
(* here a walk is one step.                                                  *)
EXTENDS CSRs

CONSTANTS Ptes,           \* entries that software stores
          Vpns,           \* the virtual pages used, for each core
          TLB_ENTRIES

VARIABLES pt,       \* page table memory: table and index to entry
          tlb,      \* mode, access type and index to a cached translation
          stale     \* software changed what a cached translation depends on

mmuVars == <<pt, tlb, stale>>

Entries == [ppn : Nat, flags : SUBSET {"V", "R", "W", "X", "U", "A", "D"}]

ASSUME TableAssumption ==
    /\ Ptes \subseteq Entries
    /\ \A u \in Workloads : u.pt \in [DOMAIN u.pt -> Entries]

AccessTypes == {"FETCH", "LOAD", "STORE"}
NoEntry == [vpn |-> -1, ppn |-> -1]
flush_tlb == [s \in {User, Supervisor} \X AccessTypes \X (0 .. TLB_ENTRIES - 1) |-> NoEntry]

MmuInit ==
    /\ pt = use.pt
    /\ tlb = flush_tlb
    /\ stale = FALSE

(***************************************************************************)
(* decode_vm_info and check_vaddr_extension.                               *)
(***************************************************************************)
SatpBare == IF arch = "RV32" THEN 31 \notin csrs["satp"] ELSE SatpMode(csrs["satp"]) = {}
Root == (IF 0 \in csrs["satp"] THEN 1 ELSE 0) + (IF 1 \in csrs["satp"] THEN 2 ELSE 0)
VmLevels == IF arch = "RV32" THEN 2 ELSE IF SatpMode(csrs["satp"]) = {63} THEN 3 ELSE 4

(* The bits of a page number: just those of Sv32, one more than Sv48 uses. *)
VpnBits == IF arch = "RV32" THEN 2 ELSE 5

(* From the highest bit that a level uses upwards, the bits are equal.     *)
check_vaddr_extension(vpn) ==
    vpn \div 2^(VmLevels - 1) \in {0, 2^(VpnBits - VmLevels + 1) - 1}

(***************************************************************************)
(* walk, with page_fault_on_AD off: the physical page, and where the A and *)
(* D flags had to be set.                                                  *)
(***************************************************************************)
Fault == [ok |-> FALSE, ppn |-> -1, at |-> <<0, 0>>, ad |-> {}]

AllowsType(pte, type) ==
    \/ type = "FETCH" /\ "X" \in pte.flags
    \/ type = "LOAD" /\ ("R" \in pte.flags \/ (19 \in csrs["mstatus"] /\ "X" \in pte.flags))
    \/ type = "STORE" /\ {"R", "W"} \subseteq pte.flags
AllowsMode(pte, type, mode) ==
    IF "U" \in pte.flags THEN mode = Supervisor => type # "FETCH" /\ 18 \in csrs["mstatus"]
                         ELSE mode = Supervisor

(* The loop over the levels: what the walk gives that has n levels left    *)
(* and continues in the table base, where next[b] is what it gives from b  *)
(* on the level below. Loading an entry from where there is no memory      *)
(* traps as well.                                                          *)
NeededFlags(type) == {"A"} \cup IF type = "STORE" THEN {"D"} ELSE {}
WalkLevel(vpn, type, mode, n, base, next) ==
    LET i == n - 1
        at == <<base, (vpn \div 2^i) % 2>>
        pte == pt[at]
    IN IF \/ n = 0
          \/ at \notin DOMAIN pt
          \/ "V" \notin pte.flags
          \/ "R" \notin pte.flags /\ "W" \in pte.flags
       THEN Fault
       ELSE IF {"R", "X"} \cap pte.flags = {} THEN next[pte.ppn]
       ELSE IF AllowsType(pte, type) /\ AllowsMode(pte, type, mode) /\ pte.ppn % 2^i = 0
       THEN [ok |-> TRUE, ppn |-> pte.ppn + (vpn % 2^i), at |-> at,
             ad |-> NeededFlags(type) \ pte.flags]
       ELSE Fault

WalkFrom(vpn, type, mode) ==
    LET w[n \in 0 .. VmLevels] ==
            [base \in Nat |-> WalkLevel(vpn, type, mode, n, base, w[n - 1])]
    IN w

walk(vpn, type, mode) ==
    IF check_vaddr_extension(vpn) THEN WalkFrom(vpn, type, mode)[VmLevels][Root] ELSE Fault

(***************************************************************************)
(* translate_virtual_to_physical_addr.                                     *)
(***************************************************************************)
Mpp == (IF 11 \in csrs["mstatus"] THEN 1 ELSE 0) + (IF 12 \in csrs["mstatus"] THEN 2 ELSE 0)
EffectiveMode(prv, type) == IF type # "FETCH" /\ 17 \in csrs["mstatus"] THEN Mpp ELSE prv

(* Mutant: fetches share the entries of loads. *)
TlbSlotMutant(mode, type, vpn) ==
    <<mode, IF type = "FETCH" THEN "LOAD" ELSE type, vpn % TLB_ENTRIES>>

TlbSlot(mode, type, vpn) == <<mode, type, vpn % TLB_ENTRIES>>

Translates ==
    /\ last' = NoInstr
    /\ UNCHANGED <<arch, use, csrs, clk, lines, overwritten, stale>>

(* Bare mode, machine mode or a cached translation: no walk. The reserved  *)
(* mode 2, which MPRV and MPP can select, ends the simulation in an assert. *)
TranslateFast ==
    \E prv \in Levels, type \in AccessTypes, vpn \in Vpns[arch] :
        LET mode == EffectiveMode(prv, type)
        IN /\ \/ SatpBare
              \/ mode = Machine
              \/ mode \in {User, Supervisor} /\ tlb[TlbSlot(mode, type, vpn)].vpn = vpn
           /\ Translates
           /\ UNCHANGED <<pt, tlb>>

TranslateWalk ==
    \E prv \in Levels, type \in AccessTypes, vpn \in Vpns[arch] :
        LET mode == EffectiveMode(prv, type)
            w == walk(vpn, type, mode)
        IN /\ ~SatpBare
           /\ mode \in {User, Supervisor}
           /\ tlb[TlbSlot(mode, type, vpn)].vpn # vpn
           /\ \/ /\ w.ok
                 /\ pt' = [pt EXCEPT ![w.at].flags = @ \cup w.ad]
                 /\ tlb' = [tlb EXCEPT ![TlbSlot(mode, type, vpn)] = [vpn |-> vpn, ppn |-> w.ppn]]
                 /\ Translates
              \/ ~w.ok /\ Translates /\ UNCHANGED <<pt, tlb>>

(* SFENCE.VMA: the supervisor is trapped when TVM is set. The 32 bit core  *)
(* and the 64 bit core agree.                                              *)
SfenceVma ==
    \E prv \in Levels :
        LET traps == prv = Supervisor /\ Tvm \in csrs["mstatus"]
        IN /\ \/ ~traps /\ tlb' = flush_tlb /\ stale' = FALSE
              \/ traps /\ UNCHANGED <<tlb, stale>>
           /\ last' = NoInstr
           /\ UNCHANGED <<arch, use, csrs, clk, lines, overwritten, pt>>

OutdatesTlb == stale' = (stale \/ tlb # flush_tlb)

(* A store to page table memory, by this hart or by another one. *)
StorePte ==
    \E at \in DOMAIN pt, pte \in Ptes :
        /\ pt' = [pt EXCEPT ![at] = pte]
        /\ OutdatesTlb
        /\ last' = NoInstr
        /\ UNCHANGED <<arch, use, csrs, clk, lines, overwritten, tlb>>

MmuNext == "mmu" \in use.units /\ (TranslateFast \/ TranslateWalk \/ SfenceVma \/ StorePte)

(* What a step of CSRs does to the state of this module. *)
MmuFollowsCsr ==
    /\ IF \/ csrs'["satp"] # csrs["satp"]
          \/ csrs'["mstatus"] \cap {18, 19} # csrs["mstatus"] \cap {18, 19}
       THEN OutdatesTlb ELSE stale' = stale
    /\ UNCHANGED <<pt, tlb>>

(***************************************************************************)
(* Properties.                                                             *)
(***************************************************************************)
(* As long as software changes neither satp, SUM, MXR nor the page table,  *)
(* the TLB cannot be seen: what it holds for a mode and a type of access   *)
(* is what a walk gives now, for an entry whose A and D flags are set. A   *)
(* change of privilege, MPRV or MPP, the updates of A and D by other       *)
(* walks, and conflicting pages need no flush.                             *)
TlbCoherent ==
    ~stale => \A s \in DOMAIN tlb :
        tlb[s] # NoEntry =>
            LET w == walk(tlb[s].vpn, s[2], s[1])
            IN w.ok /\ w.ppn = tlb[s].ppn /\ w.ad = {}
=============================================================================

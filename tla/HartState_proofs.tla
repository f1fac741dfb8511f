-------------------------- MODULE HartState_proofs --------------------------
(* Proofs about the registers, the floating point unit and the MMU of a      *)
(* hart, for every workload, set of page table entries and TLB size.         *)
(*                                                                           *)
(* First the CSR instructions of each core: what an address may change is    *)
(* one register through one mask (Target32, Target64); the masks keep the    *)
(* values legal and keep the levels apart (Legal, Within); so an instruction *)
(* has the effect Effect. Then what the floating point instructions do       *)
(* (FpExecutes), and with both the invariant RegsInv and the properties that *)
(* follow from it. Last the walk of a page table, which a change of A and D  *)
(* flags does not divert (WalkSame), and the invariant TlbInv.               *)
EXTENDS HartState, TLAPS

(* The values of the register table. *)
Regs == [Storage -> SUBSET All64]

LEMMA StorageIs ==
    Storage = {"mvendorid", "marchid", "mimpid", "mhartid", "mstatus", "misa", "medeleg",
               "mideleg", "mie", "mtvec", "mcounteren", "mcountinhibit", "mscratch", "mepc",
               "mcause", "mtval", "mip", "sedeleg", "sideleg", "stvec", "scounteren",
               "sscratch", "sepc", "scause", "stval", "satp", "utvec", "uscratch", "uepc",
               "ucause", "utval", "fcsr", "pmpcfg0", "pmpcfg1", "pmpcfg2", "pmpcfg3", "pmpaddr",
               "cycle", "time", "instret"}
  BY DEF Storage, Stored32

(* Register r with the bits of mask replaced by those of x. *)
Put(c, r, mask, x) == [c EXCEPT ![r] = WriteBits(c[r], mask, x)]

(* The registers that are written as they are. *)
Plain32 == DOMAIN Stored32 \ ({"MISA", "SATP"} \cup DOMAIN Written32 \cup DOMAIN Epcs)

(* What the address called n may change: the bits mask of the register r. *)
Target32(n, r, mask) ==
    \/ n = "SATP" /\ r = "satp"
    \/ n \in DOMAIN Written32 /\ r = Written32[n][1] /\ mask = Masks32[Written32[n][2]]
    \/ n \in DOMAIN Epcs /\ r = Epcs[n] /\ 0 \notin mask
    \/ n \in {"FFLAGS", "FRM"} /\ r = "fcsr"
    \/ n \in Plain32 /\ r = Stored32[n]
    \/ n \in DOMAIN Halves32 /\ r = Halves32[n][1]

LEMMA Written32Regs ==
    \A n \in DOMAIN Written32 : Written32[n][1] \in Storage
  BY StorageIs DEF Written32

LEMMA Halves32Regs ==
    \A n \in DOMAIN Halves32 : /\ Halves32[n][1] \in {"cycle", "time", "instret"}
                               /\ Halves32[n][2] \in {0, 32}
  BY DEF Halves32

LEMMA Masks32Bits ==
    \A n \in DOMAIN Written32 : Masks32[Written32[n][2]] \in SUBSET All64
  BY DEF Written32, Masks32, All64, Low

LEMMA SetHalfPuts ==
    ASSUME NEW x \in SUBSET All64, NEW s \in {0, 32}, NEW v \in SUBSET Low
    PROVE  \E mask \in SUBSET All64, w \in SUBSET All64 : SetHalf(x, s, v) = WriteBits(x, mask, w)
<1> DEFINE mask == s .. s + 31
           w == {b + s : b \in v}
<1>1. mask \in SUBSET All64 /\ w \in SUBSET All64
  BY DEF Low, All64
<1>2. SetHalf(x, s, v) = WriteBits(x, mask, w)
  BY DEF SetHalf, WriteBits, Low, All64
<1> QED
  BY <1>1, <1>2

(* set_csr_value changes at most one register, through the mask of the     *)
(* address, and then it does not trap.                                     *)
LEMMA Set32 ==
    ASSUME NEW c \in Regs, NEW addr, NEW v \in SUBSET All64,
           Name32(addr) \in DOMAIN Halves32 => v \in SUBSET Low
    PROVE  LET s == set_csr_value32(c, addr, v)
           IN \/ s.csrs = c
              \/ /\ s.ok
                 /\ \E r \in Storage, mask \in SUBSET All64, x \in SUBSET All64 :
                        s.csrs = Put(c, r, mask, x) /\ Target32(Name32(addr), r, mask)
<1> DEFINE n == Name32(addr)
           s == set_csr_value32(c, addr, v)
           Puts == \E r \in Storage, mask \in SUBSET All64, x \in SUBSET All64 :
                       s.csrs = Put(c, r, mask, x) /\ Target32(n, r, mask)
<1> SUFFICES s.csrs = c \/ (s.ok /\ Puts)
  OBVIOUS
<1>a. s = set_csr_value32(c, addr, v)
  OBVIOUS
<1>b. n \in DOMAIN Halves32 => v \in SUBSET Low
  OBVIOUS
<1>c. n = Name32(addr)
  OBVIOUS
<1> HIDE DEF n, s
<1>0. "satp" \in Storage /\ "fcsr" \in Storage /\ Masks32.SATP \in SUBSET All64
  BY StorageIs DEF Masks32, All64, Low
<1>1. CASE s.csrs = c
  BY <1>1
<1>2. CASE n = "SATP" /\ s = Gives(Put(c, "satp", Masks32.SATP, v), {})
  BY <1>0, <1>2 DEF Target32, Gives
<1>3. CASE /\ n \in DOMAIN Written32
           /\ s = Gives(Put(c, Written32[n][1], Masks32[Written32[n][2]], v), {})
  BY <1>3, Written32Regs, Masks32Bits DEF Target32, Gives
<1>4. CASE n \in DOMAIN Epcs /\ s = Gives(Put(c, Epcs[n], pc_alignment_mask32(c), v), {})
  <2>1. Epcs[n] \in Storage
    BY <1>4, StorageIs DEF Epcs
  <2>2. pc_alignment_mask32(c) \in SUBSET All64 /\ 0 \notin pc_alignment_mask32(c)
    BY DEF pc_alignment_mask32, Low, All64
  <2> QED
    BY <1>4, <2>1, <2>2 DEF Target32, Gives
<1>5. CASE n = "FFLAGS" /\ s = Gives(Put(c, "fcsr", 0 .. 4, v), {})
  <2>1. 0 .. 4 \in SUBSET All64
    BY DEF All64
  <2> QED
    BY <1>0, <1>5, <2>1 DEF Target32, Gives
<1>6. CASE n = "FRM" /\ s = Gives(Put(c, "fcsr", 5 .. 7, {b + 5 : b \in v}), {})
  <2>1. 5 .. 7 \in SUBSET All64
    BY DEF All64
  <2>2. Put(c, "fcsr", 5 .. 7, {b + 5 : b \in v}) = Put(c, "fcsr", 5 .. 7, {b + 5 : b \in v} \cap 5 .. 7)
    BY DEF Put, WriteBits
  <2>3. {b + 5 : b \in v} \cap 5 .. 7 \in SUBSET All64
    BY <2>1
  <2>4. s.ok /\ s.csrs = Put(c, "fcsr", 5 .. 7, {b + 5 : b \in v} \cap 5 .. 7)
    BY <1>6, <2>2 DEF Gives
  <2>5. Target32(n, "fcsr", 5 .. 7)
    BY <1>6 DEF Target32
  <2> QED
    BY <1>0, <2>1, <2>3, <2>4, <2>5
<1>7. CASE n \in Plain32 /\ s = Gives([c EXCEPT ![Stored32[n]] = v], {})
  <2>1. Stored32[n] \in Storage
    BY <1>7 DEF Plain32, Storage
  <2>2. [c EXCEPT ![Stored32[n]] = v] = Put(c, Stored32[n], All64, v)
    BY <2>1 DEF Put, WriteBits, Regs
  <2>3. s.ok /\ s.csrs = Put(c, Stored32[n], All64, v)
    BY <1>7, <2>2 DEF Gives
  <2>4. Target32(n, Stored32[n], All64)
    BY <1>7 DEF Target32
  <2> QED
    BY <2>1, <2>3, <2>4
<1>8. CASE /\ n \in DOMAIN Halves32
           /\ s = Gives([c EXCEPT ![Halves32[n][1]] = SetHalf(@, Halves32[n][2], v)], {})
  <2>1. Halves32[n][1] \in Storage /\ Halves32[n][2] \in {0, 32}
    BY <1>8, Halves32Regs, StorageIs
  <2>2. PICK mask \in SUBSET All64, w \in SUBSET All64 :
            SetHalf(c[Halves32[n][1]], Halves32[n][2], v) = WriteBits(c[Halves32[n][1]], mask, w)
    BY <1>8, <1>b, <2>1, SetHalfPuts DEF Regs
  <2>3. s.ok /\ s.csrs = Put(c, Halves32[n][1], mask, w)
    BY <1>8, <2>1, <2>2 DEF Gives, Put
  <2>4. Target32(n, Halves32[n][1], mask)
    BY <1>8 DEF Target32
  <2> QED
    BY <2>1, <2>3, <2>4
<1>9. \/ s.csrs = c
      \/ n = "SATP" /\ s = Gives(Put(c, "satp", Masks32.SATP, v), {})
      \/ /\ n \in DOMAIN Written32
         /\ s = Gives(Put(c, Written32[n][1], Masks32[Written32[n][2]], v), {})
      \/ n \in DOMAIN Epcs /\ s = Gives(Put(c, Epcs[n], pc_alignment_mask32(c), v), {})
      \/ n = "FFLAGS" /\ s = Gives(Put(c, "fcsr", 0 .. 4, v), {})
      \/ n = "FRM" /\ s = Gives(Put(c, "fcsr", 5 .. 7, {b + 5 : b \in v}), {})
      \/ n \in Plain32 /\ s = Gives([c EXCEPT ![Stored32[n]] = v], {})
      \/ /\ n \in DOMAIN Halves32
         /\ s = Gives([c EXCEPT ![Halves32[n][1]] = SetHalf(@, Halves32[n][2], v)], {})
  BY <1>a, <1>c
  DEF set_csr_value32, Gives, IllegalAccess, Put, is_valid_csr32_addr, default_write32, Plain32
<1> QED
  BY <1>1, <1>2, <1>3, <1>4, <1>5, <1>6, <1>7, <1>8, <1>9

-----------------------------------------------------------------------------
(* What the masks guarantee. *)
Legal(r, mask) ==
    /\ r # "misa"
    /\ r \in {"mtvec", "stvec", "utvec"} => 1 \notin mask
    /\ r \in {"mepc", "sepc", "uepc"} => 0 \notin mask

LEMMA Target32Legal ==
    ASSUME NEW n, NEW r, NEW mask, Target32(n, r, mask)
    PROVE  Legal(r, mask)
<1>1. CASE n = "SATP" /\ r = "satp"
  BY <1>1 DEF Legal
<1>2. CASE n \in DOMAIN Written32 /\ r = Written32[n][1] /\ mask = Masks32[Written32[n][2]]
  BY <1>2 DEF Legal, Written32, Masks32, Low
<1>3. CASE n \in DOMAIN Epcs /\ r = Epcs[n] /\ 0 \notin mask
  BY <1>3 DEF Legal, Epcs
<1>4. CASE n \in {"FFLAGS", "FRM"} /\ r = "fcsr"
  BY <1>4 DEF Legal
<1>5. CASE n \in Plain32 /\ r = Stored32[n]
  BY <1>5 DEF Legal, Plain32, Stored32, Written32, Epcs
<1>6. CASE n \in DOMAIN Halves32 /\ r = Halves32[n][1]
  BY <1>6, Halves32Regs DEF Legal
<1> QED
  BY <1>1, <1>2, <1>3, <1>4, <1>5, <1>6 DEF Target32

(* Of the bits of mip that devices drive, an address other than mip's own  *)
(* changes none.                                                           *)
LEMMA Target32Mip ==
    ASSUME NEW n, NEW mask, Target32(n, "mip", mask)
    PROVE  n = "MIP" \/ mask \cap DeviceBits = {}
<1>1. CASE n \in DOMAIN Written32 /\ "mip" = Written32[n][1] /\ mask = Masks32[Written32[n][2]]
  <2>1. n \in {"MIP", "SIP", "UIP"}
    BY <1>1 DEF Written32
  <2>2. n \in {"SIP", "UIP"} => mask \subseteq {0, 1}
    BY <1>1 DEF Written32, Masks32
  <2> QED
    BY <2>1, <2>2 DEF DeviceBits
<1>2. CASE n \in Plain32 /\ "mip" = Stored32[n]
  BY <1>2 DEF Plain32, Stored32, Written32
<1>3. CASE n \in DOMAIN Epcs /\ "mip" = Epcs[n]
  BY <1>3 DEF Epcs
<1>4. CASE n \in DOMAIN Halves32 /\ "mip" = Halves32[n][1]
  BY <1>4, Halves32Regs
<1> QED
  BY <1>1, <1>2, <1>3, <1>4 DEF Target32

LEMMA Levels32 ==
    /\ \A n \in DOMAIN CounterAddrs32 : csr_prv(CounterAddrs32[n]) \in {0, 3}
    /\ \A n \in DOMAIN DebugAddrs32 : csr_prv(DebugAddrs32[n]) = 3
    /\ \A n \in DOMAIN MachineAddrs32 : csr_prv(MachineAddrs32[n]) = 3
    /\ \A n \in DOMAIN SupervisorAddrs32 : csr_prv(SupervisorAddrs32[n]) = 1
    /\ \A n \in DOMAIN UserAddrs32 : csr_prv(UserAddrs32[n]) = 0
    /\ \A n \in DOMAIN PmpAddrs : csr_prv(PmpAddrs[n]) = 3
<1>1. \A n \in DOMAIN CounterAddrs32 : csr_prv(CounterAddrs32[n]) \in {0, 3}
  BY DEF CounterAddrs32, csr_prv
<1>2. \A n \in DOMAIN DebugAddrs32 : csr_prv(DebugAddrs32[n]) = 3
  BY DEF DebugAddrs32, csr_prv
<1>3. \A n \in DOMAIN MachineAddrs32 : csr_prv(MachineAddrs32[n]) = 3
  BY DEF MachineAddrs32, csr_prv
<1>4. \A n \in DOMAIN SupervisorAddrs32 : csr_prv(SupervisorAddrs32[n]) = 1
  BY DEF SupervisorAddrs32, csr_prv
<1>5. \A n \in DOMAIN UserAddrs32 : csr_prv(UserAddrs32[n]) = 0
  BY DEF UserAddrs32, csr_prv
<1>6. \A n \in DOMAIN PmpAddrs : csr_prv(PmpAddrs[n]) = 3
  BY DEF PmpAddrs, csr_prv
<1> QED
  BY <1>1, <1>2, <1>3, <1>4, <1>5, <1>6

Within(addr, r, mask) ==
    \A level \in {User, Supervisor} : ~(level < csr_prv(addr)) => mask \subseteq Shared(r, level)

LEMMA JoinedIs ==
    ASSUME NEW f, NEW g, NEW x \in DOMAIN Joined(f, g)
    PROVE  \/ x \in DOMAIN f /\ Joined(f, g)[x] = f[x]
           \/ x \in DOMAIN g /\ Joined(f, g)[x] = g[x]
  BY DEF Joined

LEMMA NamedIs ==
    ASSUME NEW f, NEW a \in DOMAIN Named(f)
    PROVE  Named(f)[a] \in DOMAIN f /\ f[Named(f)[a]] = a
  BY DEF Named

(* The name of an address is one of the tables', and the table has the address. *)
LEMMA Name32Is ==
    ASSUME NEW addr, NEW n, n = Name32(addr)
    PROVE  \/ n = "none"
           \/ n \in DOMAIN CounterAddrs32 /\ addr = CounterAddrs32[n]
           \/ n \in DOMAIN DebugAddrs32 /\ addr = DebugAddrs32[n]
           \/ n \in DOMAIN MachineAddrs32 /\ addr = MachineAddrs32[n]
           \/ n \in DOMAIN SupervisorAddrs32 /\ addr = SupervisorAddrs32[n]
           \/ n \in DOMAIN UserAddrs32 /\ addr = UserAddrs32[n]
           \/ n \in DOMAIN PmpAddrs /\ addr = PmpAddrs[n]
<1> DEFINE A1 == Joined(UserAddrs32, PmpAddrs)
           A2 == Joined(SupervisorAddrs32, A1)
           A3 == Joined(MachineAddrs32, A2)
           A4 == Joined(DebugAddrs32, A3)
<1>1. n = "none" \/ (n \in DOMAIN Addrs32 /\ Addrs32[n] = addr)
  <2>1. \A a \in DOMAIN Named(Addrs32) :
            Named(Addrs32)[a] \in DOMAIN Addrs32 /\ Addrs32[Named(Addrs32)[a]] = a
    BY NamedIs
  <2> QED
    BY <2>1 DEF Name32, Names32
<1>2. Addrs32 = Joined(CounterAddrs32, A4)
  BY DEF Addrs32
<1>3. n # "none" => \/ n \in DOMAIN CounterAddrs32 /\ addr = CounterAddrs32[n]
                    \/ n \in DOMAIN A4 /\ addr = A4[n]
  <2> HIDE DEF A4
  <2> QED
    BY <1>1, <1>2, JoinedIs
<1>4. n \in DOMAIN A4 => \/ n \in DOMAIN DebugAddrs32 /\ A4[n] = DebugAddrs32[n]
                         \/ n \in DOMAIN A3 /\ A4[n] = A3[n]
  BY JoinedIs
<1>5. n \in DOMAIN A3 => \/ n \in DOMAIN MachineAddrs32 /\ A3[n] = MachineAddrs32[n]
                         \/ n \in DOMAIN A2 /\ A3[n] = A2[n]
  BY JoinedIs
<1>6. n \in DOMAIN A2 => \/ n \in DOMAIN SupervisorAddrs32 /\ A2[n] = SupervisorAddrs32[n]
                         \/ n \in DOMAIN A1 /\ A2[n] = A1[n]
  BY JoinedIs
<1>7. n \in DOMAIN A1 => \/ n \in DOMAIN UserAddrs32 /\ A1[n] = UserAddrs32[n]
                         \/ n \in DOMAIN PmpAddrs /\ A1[n] = PmpAddrs[n]
  BY JoinedIs
<1> HIDE DEF A1, A2, A3, A4
<1> QED
  BY <1>3, <1>4, <1>5, <1>6, <1>7

LEMMA Target32Within ==
    ASSUME NEW addr, NEW r \in Storage, NEW mask \in SUBSET All64, Target32(Name32(addr), r, mask)
    PROVE  Within(addr, r, mask)
<1> DEFINE n == Name32(addr)
<1>1. Target32(n, r, mask)
  OBVIOUS
<1>2. n = Name32(addr)
  OBVIOUS
<1> HIDE DEF n
<1>3. CASE n = "none"
  BY <1>1, <1>3 DEF Target32, Written32, Plain32, Stored32, Halves32, Epcs
<1>4. CASE n \in DOMAIN CounterAddrs32
  <2>1. r \in UserRegs
    BY <1>1, <1>4, Halves32Regs DEF Target32, UserRegs, CounterAddrs32, Written32, Plain32, Stored32, Epcs
  <2> QED
    BY <2>1 DEF Within, Shared
<1>5. CASE csr_prv(addr) = 3
  BY <1>5 DEF Within, User, Supervisor
<1>6. CASE n \in DOMAIN SupervisorAddrs32 /\ addr = SupervisorAddrs32[n]
  <2>1. csr_prv(addr) = 1
    BY <1>6, Levels32
  <2>2. mask \subseteq Shared(r, Supervisor)
    <3>1. CASE r \in SupervisorRegs
      BY <3>1 DEF Shared
    <3>2. CASE n \in {"SSTATUS", "SIE", "SIP"}
      BY <1>1, <3>2 DEF Target32, Written32, Plain32, Stored32, Halves32, Epcs, Masks32, Shared,
                        SharedFields, Supervisor, User, UserRegs, SupervisorRegs
    <3> QED
      BY <1>1, <1>6, <3>1, <3>2
      DEF SupervisorAddrs32, Target32, Written32, Plain32, Stored32, Halves32, Epcs, SupervisorRegs
  <2> QED
    BY <2>1, <2>2 DEF Within, User, Supervisor
<1>7. CASE n \in DOMAIN UserAddrs32 /\ addr = UserAddrs32[n]
  <2>1. CASE r \in UserRegs
    BY <2>1 DEF Within, Shared
  <2>2. CASE n \in {"USTATUS", "UIE", "UIP"}
    BY <1>1, <2>2 DEF Target32, Written32, Plain32, Stored32, Halves32, Epcs, Masks32, Shared,
                      SharedFields, Supervisor, User, UserRegs, SupervisorRegs, Within
  <2> QED
    BY <1>1, <1>7, <2>1, <2>2
    DEF UserAddrs32, Target32, Written32, Plain32, Stored32, Halves32, Epcs, UserRegs
<1> QED
  BY <1>2, <1>3, <1>4, <1>5, <1>6, <1>7, Levels32, Name32Is

-----------------------------------------------------------------------------
(* Reading refreshes at most a cached counter. *)
Clocks == [mtime : SUBSET All64, cycle : SUBSET All64]
Cached(c, k) == {c, [c EXCEPT !["time"] = k.mtime], [c EXCEPT !["cycle"] = k.cycle]}

LEMMA CachedRegs ==
    ASSUME NEW c \in Regs, NEW k \in Clocks, NEW b \in Cached(c, k)
    PROVE  b \in Regs /\ \A r \in Storage \ {"cycle", "time"} : b[r] = c[r]
  BY StorageIs DEF Regs, Clocks, Cached

LEMMA Read32 ==
    ASSUME NEW c \in Regs, NEW addr, is_valid_csr32_addr(addr)
    PROVE  /\ default_read32(c, addr) \in SUBSET All64
           /\ Name32(addr) \in DOMAIN Halves32 => default_read32(c, addr) \in SUBSET Low
<1> DEFINE n == Name32(addr)
<1>1. CASE n \in DOMAIN Stored32
  <2>1. default_read32(c, addr) = c[Stored32[n]] /\ Stored32[n] \in Storage
    BY <1>1 DEF default_read32, Storage
  <2>2. n \notin DOMAIN Halves32
    BY <1>1 DEF Stored32, Halves32
  <2> QED
    BY <2>1, <2>2 DEF Regs
<1>2. CASE n \notin DOMAIN Stored32
  BY <1>2 DEF default_read32, Half, Low, All64
<1> QED
  BY <1>1, <1>2

LEMMA Get32 ==
    ASSUME NEW c \in Regs, NEW k \in Clocks, NEW prv, NEW addr, NEW g,
           g = get_csr_value32(c, k, prv, addr)
    PROVE  /\ g.csrs \in Cached(c, k)
           /\ g.value \in SUBSET All64
           /\ Name32(addr) \in DOMAIN Halves32 => g.value \in SUBSET Low
           /\ ~g.ok => g.csrs = c
<1> DEFINE n == Name32(addr)
           timed == [c EXCEPT !["time"] = k.mtime]
           cycled == [c EXCEPT !["cycle"] = k.cycle]
<1>1. timed \in Regs /\ cycled \in Regs /\ {c, timed, cycled} = Cached(c, k)
  BY CachedRegs DEF Cached
<1>2. \A b \in {c, timed, cycled} : is_valid_csr32_addr(addr) =>
          /\ default_read32(b, addr) \in SUBSET All64
          /\ n \in DOMAIN Halves32 => default_read32(b, addr) \in SUBSET Low
  BY <1>1, Read32
<1>3. \A m \in DOMAIN Views32 : Views32[m][1] \in Storage /\ m \notin DOMAIN Halves32
  BY StorageIs DEF Views32, Halves32
<1>4. "fcsr" \in Storage
  BY StorageIs
<1>5. n \in {"TIME", "MTIME", "TIMEH", "MTIMEH", "MCYCLE", "MCYCLEH"} => is_valid_csr32_addr(addr)
  BY DEF is_valid_csr32_addr, Halves32
<1>6. n \in {"FFLAGS", "FRM", "TSELECT"} => n \notin DOMAIN Halves32
  BY DEF Halves32
<1>a. c \in Regs
  OBVIOUS
<1> HIDE DEF n, timed, cycled
<1>7. \/ g = IllegalAccess(c)
      \/ is_valid_csr32_addr(addr) /\ \E b \in {c, timed, cycled} : g = Gives(b, default_read32(b, addr))
      \/ g = Gives(c, {})
      \/ n \in DOMAIN Views32 /\ g = Gives(c, ReadBits(c[Views32[n][1]], Masks32[Views32[n][2]]))
      \/ n = "FFLAGS" /\ g = Gives(c, {b \in 0 .. 4 : b \in c["fcsr"]})
      \/ n = "FRM" /\ g = Gives(c, {b \in 0 .. 2 : b + 5 \in c["fcsr"]})
      \/ n = "TSELECT" /\ g = Gives(c, {0})
  BY <1>5 DEF get_csr_value32, n, timed, cycled
<1> QED
  BY <1>1, <1>2, <1>3, <1>4, <1>6, <1>7 DEF IllegalAccess, Gives, ReadBits, Regs, All64, Low, n

-----------------------------------------------------------------------------
(* What a CSR instruction at level prv does to the registers. *)
Effect(c, k, prv, o) ==
    /\ o.trap => o.csrs = c /\ ~o.wrote
    /\ \E b \in Cached(c, k) :
          \/ o.csrs = b
          \/ \E r \in Storage, mask \in SUBSET All64, x \in SUBSET All64 :
                /\ o.csrs = Put(b, r, mask, x)
                /\ Legal(r, mask)
                /\ prv \in {User, Supervisor} => mask \subseteq Shared(r, prv)

(* The bits of mip that devices drive stay, but for those it overwrites.   *)
MipKept(c, prv, i, d) ==
    (d["mip"] \cap DeviceBits) \ Overwrites(prv, i) = (c["mip"] \cap DeviceBits) \ Overwrites(prv, i)

(* What is read through MIP_READ_MASK, combined with the operand and       *)
(* written through MIP_WRITE_MASK changes only the bits the operand names: *)
(* the first mask has all the bits of devices that the second has.         *)
LEMMA CombinedMip ==
    ASSUME NEW x, NEW i, NEW old, NEW named,
           Reads(i) => old = x \cap {0, 1, 3, 4, 5, 7, 8, 9, 11},
           named = IF Swaps(i) THEN SoftwareBits ELSE SoftwareBits \cap i.v
    PROVE  (WriteBits(x, {0, 1, 4, 5, 8, 9}, Combined(i, old)) \cap DeviceBits) \ named
               = (x \cap DeviceBits) \ named
<1> DEFINE y == WriteBits(x, {0, 1, 4, 5, 8, 9}, Combined(i, old))
<1>1. \A b \in DeviceBits \ SoftwareBits : b \in y <=> b \in x
  BY DEF WriteBits, DeviceBits, SoftwareBits
<1>2. CASE Swaps(i)
  BY <1>1, <1>2
<1>3. CASE ~Swaps(i)
  <2>1. old = x \cap {0, 1, 3, 4, 5, 7, 8, 9, 11}
    BY <1>3 DEF Reads
  <2>2. Combined(i, old) \in {old \cup i.v, old \ i.v}
    BY <1>3 DEF Combined
  <2>3. \A b \in SoftwareBits \ i.v : b \in y <=> b \in x
    BY <2>1, <2>2 DEF WriteBits, SoftwareBits
  <2>4. (y \cap DeviceBits) \ (SoftwareBits \cap i.v) = (x \cap DeviceBits) \ (SoftwareBits \cap i.v)
    <3> HIDE DEF y
    <3> QED
      BY <1>1, <2>3
  <2> QED
    BY <1>3, <2>4
<1> QED
  BY <1>2, <1>3

LEMMA CombinedBits ==
    ASSUME NEW i, NEW old, NEW B, i.v \in SUBSET B, old \in SUBSET B
    PROVE  Combined(i, old) \in SUBSET B
  BY DEF Combined

(* A write after a successful read of the same register does not fail. *)
LEMMA SetAfterGet32 ==
    ASSUME NEW c \in Regs, NEW k \in Clocks, NEW prv, NEW addr, NEW v, NEW g, NEW s,
           g = get_csr_value32(c, k, prv, addr), g.ok, s = set_csr_value32(g.csrs, addr, v)
    PROVE  s.ok
<1> DEFINE n == Name32(addr)
<1>1. g.csrs["mstatus"] = c["mstatus"]
  BY Get32, CachedRegs, StorageIs
<1>2. n \in DOMAIN Views32 => n \in DOMAIN Written32
  BY DEF Views32, Written32
<1>3. n \in {"TIME", "MTIME", "TIMEH", "MTIMEH", "MCYCLE", "MCYCLEH"} => is_valid_csr32_addr(addr)
  BY DEF is_valid_csr32_addr, Halves32
<1>4. "TSELECT" \in DOMAIN DebugAddrs32
  BY DEF DebugAddrs32
<1>5. "SATP" \notin DOMAIN Views32 /\ "SATP" \notin DOMAIN DebugAddrs32
  BY DEF Views32, DebugAddrs32
<1> HIDE DEF n
<1> QED
  BY <1>1, <1>2, <1>3, <1>4, <1>5
  DEF get_csr_value32, set_csr_value32, Gives, IllegalAccess, TrapsSatpRead, n

(* The fields of the outcome of an instruction. *)
LEMMA OutcomeFields ==
    ASSUME NEW ok, NEW w, NEW d, NEW x, NEW o,
           o = [trap |-> ~ok, wrote |-> ~w, rd |-> d, csrs |-> x]
    PROVE  (o.trap => ~ok) /\ (o.wrote => ~w) /\ o.rd = d /\ o.csrs = x
  BY Zenon

(* Access to mip by its own address.                                       *)
LEMMA Mip32 ==
    ASSUME NEW addr, Name32(addr) = "MIP"
    PROVE  /\ addr = \h344 /\ csr_prv(addr) = Machine
           /\ \A c, k, prv : get_csr_value32(c, k, prv, addr)
                                = Gives(c, c["mip"] \cap {0, 1, 3, 4, 5, 7, 8, 9, 11})
           /\ \A c, v : set_csr_value32(c, addr, v)
                           = Gives([c EXCEPT !["mip"] = WriteBits(@, {0, 1, 4, 5, 8, 9}, v)], {})
<1>1. addr = \h344
  BY Name32Is
  DEF CounterAddrs32, DebugAddrs32, MachineAddrs32, SupervisorAddrs32, UserAddrs32, PmpAddrs
<1>2. csr_prv(addr) = Machine
  BY <1>1 DEF csr_prv, Machine
<1>3. addr \notin HpmCounters32 /\ addr \notin \hC00 .. \hC1F \cup \hC80 .. \hC9F
  BY <1>1 DEF HpmCounters32, HpmAddrs
<1>4. /\ "MIP" \in DOMAIN Views32 /\ Views32["MIP"][1] = "mip"
      /\ Masks32[Views32["MIP"][2]] = {0, 1, 3, 4, 5, 7, 8, 9, 11}
  BY DEF Views32, Masks32
<1>5. /\ "MIP" \in DOMAIN Written32 /\ Written32["MIP"][1] = "mip"
      /\ Masks32[Written32["MIP"][2]] = {0, 1, 4, 5, 8, 9}
  BY DEF Written32, Masks32
<1>6. "MIP" \notin DOMAIN DebugAddrs32
  BY DEF DebugAddrs32
<1>7. ASSUME NEW c, NEW k, NEW prv
      PROVE  get_csr_value32(c, k, prv, addr) = Gives(c, c["mip"] \cap {0, 1, 3, 4, 5, 7, 8, 9, 11})
  BY <1>3, <1>4 DEF get_csr_value32, MayReadCounter32, ReadBits
<1>8. ASSUME NEW c, NEW v
      PROVE  set_csr_value32(c, addr, v)
               = Gives([c EXCEPT !["mip"] = WriteBits(@, {0, 1, 4, 5, 8, 9}, v)], {})
  BY <1>3, <1>5, <1>6 DEF set_csr_value32
<1> QED
  BY <1>1, <1>2, <1>7, <1>8

(* A CSR instruction of the 32 bit core: invalid, trapped by the read, or  *)
(* what the write makes of the table after the read.                       *)
LEMMA Exec32 ==
    ASSUME NEW c \in Regs, NEW k \in Clocks, NEW prv \in Levels, NEW i, i.v \in SUBSET Low,
           i.rd0 \in BOOLEAN, NEW o, o = ExecCsr32(c, k, prv, i)
    PROVE  Effect(c, k, prv, o) /\ MipKept(c, prv, i, o.csrs)
<1> DEFINE invalid == is_invalid_csr_access32(c, prv, i.addr, Writes(i))
           get == IF Reads(i) THEN get_csr_value32(c, k, prv, i.addr) ELSE Gives(c, {})
           v == Combined(i, get.value)
           set == IF Writes(i) THEN set_csr_value32(get.csrs, i.addr, v) ELSE get
<1>1. o = IF invalid \/ ~get.ok THEN Outcome(TRUE, c)
          ELSE [trap |-> ~set.ok, wrote |-> ~i.rd0, rd |-> IF i.rd0 THEN {} ELSE get.value,
                csrs |-> set.csrs]
  BY DEF ExecCsr32
<1>2. /\ get.csrs \in Cached(c, k)
      /\ get.value \in SUBSET All64
      /\ Name32(i.addr) \in DOMAIN Halves32 => get.value \in SUBSET Low
  <2>1. CASE Reads(i)
    <3>1. get = get_csr_value32(c, k, prv, i.addr)
      BY <2>1
    <3> HIDE DEF get
    <3> QED
      BY <3>1, Get32
  <2>2. CASE ~Reads(i)
    BY <2>2 DEF Gives, Cached
  <2> QED
    BY <2>1, <2>2
<1>3. v \in SUBSET All64 /\ (Name32(i.addr) \in DOMAIN Halves32 => v \in SUBSET Low)
  <2>1. i.v \in SUBSET All64
    BY DEF Low, All64
  <2> QED
    BY <1>2, <2>1, CombinedBits
<1>4. get.csrs \in Regs
  BY <1>2, CachedRegs
<1>5. CASE invalid \/ ~get.ok
  BY <1>1, <1>5 DEF Outcome, Effect, Cached, MipKept
<1>6. CASE ~invalid /\ get.ok
  <2>1. (o.trap => ~set.ok) /\ (o.wrote => ~i.rd0) /\ o.csrs = set.csrs
    <3>1. o = [trap |-> ~set.ok, wrote |-> ~i.rd0, rd |-> IF i.rd0 THEN {} ELSE get.value,
               csrs |-> set.csrs]
      <4> HIDE DEF invalid, get, set
      <4> QED
        BY Zenon, <1>1, <1>6
    <3> HIDE DEF get, set
    <3> QED
      BY ONLY <3>1, OutcomeFields, Zenon
  <2>2. ~set.ok => set.csrs = c /\ i.rd0
    <3>1. CASE Reads(i) /\ Writes(i)
      BY <1>6, <3>1, SetAfterGet32
    <3>2. CASE ~Reads(i) /\ Writes(i)
      <4>1. i.rd0 /\ set = set_csr_value32(c, i.addr, v) /\ v \in SUBSET All64
        BY <1>3, <3>2 DEF Reads, Gives
      <4> QED
        BY <1>3, <4>1, Set32
    <3>3. CASE ~Writes(i)
      BY <1>6, <3>3
    <3> QED
      BY <3>1, <3>2, <3>3
  <2>0. get.csrs["mip"] = c["mip"]
    BY <1>2, CachedRegs, StorageIs
  <2>3. CASE set.csrs = get.csrs
    BY <1>2, <2>0, <2>1, <2>2, <2>3 DEF Effect, MipKept
  <2>4. CASE set.csrs # get.csrs
    <3>1. Writes(i) /\ set = set_csr_value32(get.csrs, i.addr, v)
      BY <2>4
    <3>0. Name32(i.addr) = "MIP" => (Reads(i) => get.value = c["mip"] \cap {0, 1, 3, 4, 5, 7, 8, 9, 11})
      BY Mip32 DEF Gives
    <3>a. v = Combined(i, get.value)
      OBVIOUS
    <3> HIDE DEF get, v, set
    <3>2. PICK r \in Storage, mask \in SUBSET All64, x \in SUBSET All64 :
              set.csrs = Put(get.csrs, r, mask, x) /\ Target32(Name32(i.addr), r, mask)
      BY <1>3, <1>4, <2>4, <3>1, Set32
    <3>3. Legal(r, mask) /\ Within(i.addr, r, mask)
      BY <3>2, Target32Legal, Target32Within
    <3>4. ~(prv < csr_prv(i.addr))
      BY <1>6 DEF is_invalid_csr_access32
    <3>5. ASSUME r # "mip" \/ mask \cap DeviceBits = {}
          PROVE  MipKept(c, prv, i, o.csrs)
      <4>1. o.csrs["mip"] \cap DeviceBits = c["mip"] \cap DeviceBits
        BY <1>4, <2>0, <2>1, <3>2, <3>5, StorageIs DEF Put, Regs, WriteBits
      <4> QED
        BY <4>1 DEF MipKept
    <3>6. ASSUME r = "mip", Name32(i.addr) = "MIP"
          PROVE  MipKept(c, prv, i, o.csrs)
      <4>1. i.addr = \h344 /\ prv = Machine
        BY <3>4, <3>6, Mip32 DEF Levels, User, Supervisor, Machine
      <4>2. o.csrs["mip"] = WriteBits(c["mip"], {0, 1, 4, 5, 8, 9}, v)
        BY <1>4, <2>0, <2>1, <3>1, <3>6, Mip32, StorageIs DEF Gives, Regs
      <4>3. Overwrites(prv, i) = IF Swaps(i) THEN SoftwareBits ELSE SoftwareBits \cap i.v
        BY <3>1, <4>1 DEF Overwrites
      <4>4. Reads(i) => get.value = c["mip"] \cap {0, 1, 3, 4, 5, 7, 8, 9, 11}
        BY <3>0, <3>6
      <4>5. (WriteBits(c["mip"], {0, 1, 4, 5, 8, 9}, Combined(i, get.value)) \cap DeviceBits)
               \ Overwrites(prv, i) = (c["mip"] \cap DeviceBits) \ Overwrites(prv, i)
        BY <4>3, <4>4, CombinedMip
      <4>6. o.csrs["mip"] = WriteBits(c["mip"], {0, 1, 4, 5, 8, 9}, Combined(i, get.value))
        BY <3>a, <4>2, Zenon
      <4> QED
        BY <4>5, <4>6 DEF MipKept
    <3>7. MipKept(c, prv, i, o.csrs)
      BY <3>2, <3>5, <3>6, Target32Mip
    <3> QED
      BY <1>2, <2>1, <2>2, <3>2, <3>3, <3>4, <3>7 DEF Effect, Within
  <2> QED
    BY <2>3, <2>4
<1> QED
  BY <1>5, <1>6

-----------------------------------------------------------------------------
(* The same for the 64 bit core, whose satp.mode is legal or stays.        *)
Plain64 == DOMAIN Stored64 \ ({"MISA", "SATP"} \cup DOMAIN Written64 \cup DOMAIN Epcs)

Target64(n, r, mask) ==
    \/ n = "SATP" /\ r = "satp"
    \/ n \in DOMAIN Written64 /\ r = Written64[n][1] /\ mask = Masks64[Written64[n][2]]
    \/ n \in DOMAIN Epcs /\ r = Epcs[n] /\ 0 \notin mask
    \/ n \in {"FFLAGS", "FRM"} /\ r = "fcsr"
    \/ n \in Plain64 /\ r = Stored64[n]

SatpKept(c, d) == SatpMode(c["satp"]) \in SatpModes => SatpMode(d["satp"]) \in SatpModes

LEMMA Stored64Is ==
    ASSUME NEW n \in DOMAIN Stored64
    PROVE  \/ n \in DOMAIN Stored32 /\ Stored64[n] = Stored32[n]
           \/ n \in DOMAIN CounterAddrs64 /\ Stored64[n] \in {"cycle", "time", "instret"}
           \/ n \in {"PMPCFG2", "PMPCFG3"} /\ Stored64[n] \in {"sedeleg", "sideleg"}
  BY DEF Stored64, PastPmpcfg, Counters64, Joined, CounterAddrs64

LEMMA Written64Regs ==
    \A n \in DOMAIN Written64 : /\ Written64[n][1] \in Storage \ {"satp"}
                                /\ Masks64[Written64[n][2]] \in SUBSET All64
<1>1. \A n \in DOMAIN Written64 : Written64[n][1] \in Storage \ {"satp"}
  BY StorageIs DEF Written64
<1>2. \A n \in DOMAIN Written64 : Masks64[Written64[n][2]] \in SUBSET All64
  BY DEF Written64, Masks64, All64
<1> QED
  BY <1>1, <1>2

LEMMA WriteSatpPuts ==
    ASSUME NEW x \in SUBSET All64, NEW v \in SUBSET All64
    PROVE  /\ \E mask \in SUBSET All64 : WriteSatp(x, v) = WriteBits(x, mask, v)
           /\ SatpMode(x) \in SatpModes => SatpMode(WriteSatp(x, v)) \in SatpModes
<1> DEFINE written == WriteBits(x, Masks64.SATP, v)
           low == WriteBits(x, 0 .. 43, v)
<1>1. Masks64.SATP = 0 .. 43 \cup 60 .. 63
  BY DEF Masks64
<1>2. Masks64.SATP \in SUBSET All64 /\ 0 .. 43 \in SUBSET All64
  BY <1>1 DEF All64
<1>3. CASE SatpMode(written) \in SatpModes
  BY <1>2, <1>3 DEF WriteSatp
<1>4. CASE SatpMode(written) \notin SatpModes
  <2>1. WriteSatp(x, v) = (written \ (60 .. 63)) \cup SatpMode(x)
    BY <1>4 DEF WriteSatp
  <2>2. (written \ (60 .. 63)) \cup SatpMode(x) = low
    BY <1>1 DEF WriteBits, SatpMode
  <2>3. SatpMode(low) = SatpMode(x)
    BY DEF WriteBits, SatpMode
  <2> QED
    BY <1>2, <2>1, <2>2, <2>3
<1> QED
  BY <1>3, <1>4

LEMMA Set64 ==
    ASSUME NEW c \in Regs, NEW addr, NEW v \in SUBSET All64
    PROVE  LET s == set_csr_value64(c, addr, v)
           IN /\ \/ s.csrs = c
                 \/ /\ s.ok
                    /\ \E r \in Storage, mask \in SUBSET All64, x \in SUBSET All64 :
                           s.csrs = Put(c, r, mask, x) /\ Target64(Name64(addr), r, mask)
              /\ SatpKept(c, s.csrs)
<1> DEFINE n == Name64(addr)
           s == set_csr_value64(c, addr, v)
           Puts == \E r \in Storage, mask \in SUBSET All64, x \in SUBSET All64 :
                       s.csrs = Put(c, r, mask, x) /\ Target64(n, r, mask)
<1> SUFFICES (s.csrs = c \/ (s.ok /\ Puts)) /\ SatpKept(c, s.csrs)
  OBVIOUS
<1>a. s = set_csr_value64(c, addr, v) /\ n = Name64(addr)
  OBVIOUS
<1> HIDE DEF n, s
<1>b. ASSUME NEW r \in Storage, NEW mask \in SUBSET All64, NEW x \in SUBSET All64,
             s = Gives(Put(c, r, mask, x), {}), Target64(n, r, mask), r # "satp"
      PROVE  (s.ok /\ Puts) /\ SatpKept(c, s.csrs)
  <2>1. s.ok /\ s.csrs = Put(c, r, mask, x)
    BY <1>b DEF Gives
  <2>2. s.csrs["satp"] = c["satp"]
    BY <1>b, <2>1, StorageIs DEF Put, Regs
  <2> QED
    BY <1>b, <2>1, <2>2 DEF SatpKept
<1>1. CASE s.csrs = c
  BY <1>1 DEF SatpKept
<1>2. CASE n = "SATP" /\ s = Gives([c EXCEPT !["satp"] = WriteSatp(@, v)], {})
  <2>1. "satp" \in Storage /\ c["satp"] \in SUBSET All64
    BY StorageIs DEF Regs
  <2>2. s.ok /\ s.csrs = [c EXCEPT !["satp"] = WriteSatp(c["satp"], v)]
    BY <1>2 DEF Gives
  <2>3. SatpKept(c, s.csrs)
    BY <2>1, <2>2, WriteSatpPuts DEF SatpKept, Regs
  <2>4. PICK mask \in SUBSET All64 : WriteSatp(c["satp"], v) = WriteBits(c["satp"], mask, v)
    BY <2>1, WriteSatpPuts
  <2>5. s.csrs = Put(c, "satp", mask, v) /\ Target64(n, "satp", mask)
    BY <1>2, <2>2, <2>4 DEF Put, Target64
  <2> QED
    BY <2>1, <2>2, <2>3, <2>5
<1>3. CASE /\ n \in DOMAIN Written64
           /\ s = Gives(Put(c, Written64[n][1], Masks64[Written64[n][2]], v), {})
  BY <1>3, <1>b, Written64Regs DEF Target64
<1>4. CASE n \in DOMAIN Epcs /\ s = Gives(Put(c, Epcs[n], pc_alignment_mask64(c), v), {})
  <2>1. Epcs[n] \in Storage \ {"satp"}
    BY <1>4, StorageIs DEF Epcs
  <2>2. pc_alignment_mask64(c) \in SUBSET All64 /\ 0 \notin pc_alignment_mask64(c)
    BY DEF pc_alignment_mask64, All64
  <2> QED
    BY <1>4, <1>b, <2>1, <2>2 DEF Target64
<1>5. CASE n = "FFLAGS" /\ s = Gives(Put(c, "fcsr", 0 .. 4, v), {})
  <2>1. 0 .. 4 \in SUBSET All64 /\ "fcsr" \in Storage
    BY StorageIs DEF All64
  <2> QED
    BY <1>5, <1>b, <2>1 DEF Target64
<1>6. CASE n = "FRM" /\ s = Gives(Put(c, "fcsr", 5 .. 7, {b + 5 : b \in v}), {})
  <2>1. 5 .. 7 \in SUBSET All64 /\ "fcsr" \in Storage
    BY StorageIs DEF All64
  <2>2. Put(c, "fcsr", 5 .. 7, {b + 5 : b \in v}) = Put(c, "fcsr", 5 .. 7, {b + 5 : b \in v} \cap 5 .. 7)
    BY DEF Put, WriteBits
  <2>3. {b + 5 : b \in v} \cap 5 .. 7 \in SUBSET All64
    BY <2>1
  <2>4. s = Gives(Put(c, "fcsr", 5 .. 7, {b + 5 : b \in v} \cap 5 .. 7), {})
    BY <1>6, <2>2
  <2>5. Target64(n, "fcsr", 5 .. 7)
    BY <1>6 DEF Target64
  <2> QED
    BY <1>b, <2>1, <2>3, <2>4, <2>5
<1>7. CASE n \in Plain64 /\ s = Gives([c EXCEPT ![Stored64[n]] = v], {})
  <2>1. Stored64[n] \in Storage \ {"satp"}
    <3>1. n \in DOMAIN Stored64 /\ n # "SATP"
      BY <1>7 DEF Plain64
    <3>2. \A m \in DOMAIN Stored32 : Stored32[m] \in Storage /\ (Stored32[m] = "satp" => m = "SATP")
      BY StorageIs DEF Stored32
    <3> QED
      BY <3>1, <3>2, Stored64Is, StorageIs
  <2>2. [c EXCEPT ![Stored64[n]] = v] = Put(c, Stored64[n], All64, v)
    BY <2>1 DEF Put, WriteBits, Regs
  <2>3. Target64(n, Stored64[n], All64)
    BY <1>7 DEF Target64
  <2> QED
    BY <1>7, <1>b, <2>1, <2>2, <2>3
<1>8. \/ s.csrs = c
      \/ n = "SATP" /\ s = Gives([c EXCEPT !["satp"] = WriteSatp(@, v)], {})
      \/ /\ n \in DOMAIN Written64
         /\ s = Gives(Put(c, Written64[n][1], Masks64[Written64[n][2]], v), {})
      \/ n \in DOMAIN Epcs /\ s = Gives(Put(c, Epcs[n], pc_alignment_mask64(c), v), {})
      \/ n = "FFLAGS" /\ s = Gives(Put(c, "fcsr", 0 .. 4, v), {})
      \/ n = "FRM" /\ s = Gives(Put(c, "fcsr", 5 .. 7, {b + 5 : b \in v}), {})
      \/ n \in Plain64 /\ s = Gives([c EXCEPT ![Stored64[n]] = v], {})
  BY <1>a
  DEF set_csr_value64, Gives, IllegalAccess, Put, is_valid_csr64_addr, default_write64, Plain64
<1> QED
  BY <1>1, <1>2, <1>3, <1>4, <1>5, <1>6, <1>7, <1>8

LEMMA Target64Legal ==
    ASSUME NEW n, NEW r, NEW mask, Target64(n, r, mask)
    PROVE  Legal(r, mask)
<1>1. CASE n = "SATP" /\ r = "satp"
  BY <1>1 DEF Legal
<1>2. CASE n \in DOMAIN Written64 /\ r = Written64[n][1] /\ mask = Masks64[Written64[n][2]]
  BY <1>2 DEF Legal, Written64, Masks64, All64
<1>3. CASE n \in DOMAIN Epcs /\ r = Epcs[n] /\ 0 \notin mask
  BY <1>3 DEF Legal, Epcs
<1>4. CASE n \in {"FFLAGS", "FRM"} /\ r = "fcsr"
  BY <1>4 DEF Legal
<1>5. CASE n \in Plain64 /\ r = Stored64[n]
  BY <1>5, Stored64Is DEF Legal, Plain64, Stored32, Written64, Epcs
<1> QED
  BY <1>1, <1>2, <1>3, <1>4, <1>5 DEF Target64

LEMMA Target64Mip ==
    ASSUME NEW n, NEW mask, Target64(n, "mip", mask)
    PROVE  n = "MIP" \/ mask \cap DeviceBits = {}
<1>1. CASE n \in DOMAIN Written64 /\ "mip" = Written64[n][1] /\ mask = Masks64[Written64[n][2]]
  <2>1. n \in {"MIP", "SIP", "UIP"}
    BY <1>1 DEF Written64
  <2>2. n \in {"SIP", "UIP"} => mask \subseteq {0, 1}
    BY <1>1 DEF Written64, Masks64
  <2> QED
    BY <2>1, <2>2 DEF DeviceBits
<1>2. CASE n \in Plain64 /\ "mip" = Stored64[n]
  BY <1>2, Stored64Is DEF Plain64, Stored32, Written64
<1>3. CASE n \in DOMAIN Epcs /\ "mip" = Epcs[n]
  BY <1>3 DEF Epcs
<1> QED
  BY <1>1, <1>2, <1>3 DEF Target64

LEMMA Name64Is ==
    ASSUME NEW addr, NEW n, n = Name64(addr)
    PROVE  \/ n = "none"
           \/ n \in DOMAIN CounterAddrs64 /\ addr = CounterAddrs64[n]
           \/ n \in DOMAIN MachineAddrs64 /\ addr = MachineAddrs64[n]
           \/ n \in DOMAIN SupervisorAddrs64 /\ addr = SupervisorAddrs64[n]
           \/ n \in DOMAIN UserAddrs64 /\ addr = UserAddrs64[n]
           \/ n \in DOMAIN PmpAddrs /\ addr = PmpAddrs[n]
<1> DEFINE A1 == Joined(UserAddrs64, PmpAddrs)
           A2 == Joined(SupervisorAddrs64, A1)
           A3 == Joined(MachineAddrs64, A2)
<1>1. n = "none" \/ (n \in DOMAIN Addrs64 /\ Addrs64[n] = addr)
  <2>1. \A a \in DOMAIN Named(Addrs64) :
            Named(Addrs64)[a] \in DOMAIN Addrs64 /\ Addrs64[Named(Addrs64)[a]] = a
    BY NamedIs
  <2> QED
    BY <2>1 DEF Name64, Names64
<1>2. Addrs64 = Joined(CounterAddrs64, A3)
  BY DEF Addrs64
<1>3. n # "none" => \/ n \in DOMAIN CounterAddrs64 /\ addr = CounterAddrs64[n]
                    \/ n \in DOMAIN A3 /\ addr = A3[n]
  <2> HIDE DEF A3
  <2> QED
    BY <1>1, <1>2, JoinedIs
<1>5. n \in DOMAIN A3 => \/ n \in DOMAIN MachineAddrs64 /\ A3[n] = MachineAddrs64[n]
                         \/ n \in DOMAIN A2 /\ A3[n] = A2[n]
  BY JoinedIs
<1>6. n \in DOMAIN A2 => \/ n \in DOMAIN SupervisorAddrs64 /\ A2[n] = SupervisorAddrs64[n]
                         \/ n \in DOMAIN A1 /\ A2[n] = A1[n]
  BY JoinedIs
<1>7. n \in DOMAIN A1 => \/ n \in DOMAIN UserAddrs64 /\ A1[n] = UserAddrs64[n]
                         \/ n \in DOMAIN PmpAddrs /\ A1[n] = PmpAddrs[n]
  BY JoinedIs
<1> HIDE DEF A1, A2, A3
<1> QED
  BY <1>3, <1>5, <1>6, <1>7

LEMMA Target64Within ==
    ASSUME NEW addr, NEW r \in Storage, NEW mask \in SUBSET All64, Target64(Name64(addr), r, mask)
    PROVE  Within(addr, r, mask)
<1> DEFINE n == Name64(addr)
<1>1. Target64(n, r, mask)
  OBVIOUS
<1>2. n = Name64(addr)
  OBVIOUS
<1> HIDE DEF n
<1>0. n \in Plain64 => \/ n \in DOMAIN Stored32 /\ Stored64[n] = Stored32[n]
                       \/ n \in DOMAIN CounterAddrs64 /\ Stored64[n] \in {"cycle", "time", "instret"}
                       \/ n \in {"PMPCFG2", "PMPCFG3"}
  BY Stored64Is DEF Plain64
<1>3. CASE n = "none"
  BY <1>0, <1>1, <1>3 DEF Target64, Written64, Stored32, CounterAddrs64, Epcs
<1>4. CASE n \in DOMAIN CounterAddrs64
  <2>1. r \in UserRegs
    BY <1>0, <1>1, <1>4 DEF Target64, UserRegs, Stored32, CounterAddrs64, Written64, Epcs
  <2> QED
    BY <2>1 DEF Within, Shared
<1>5. CASE csr_prv(addr) = 3
  BY <1>5 DEF Within, User, Supervisor
<1>6. CASE n \in DOMAIN SupervisorAddrs64 /\ addr = SupervisorAddrs64[n]
  <2>1. csr_prv(addr) = 1
    BY <1>6, Levels32 DEF SupervisorAddrs64
  <2>2. mask \subseteq Shared(r, Supervisor)
    <3>1. CASE r \in SupervisorRegs
      BY <3>1 DEF Shared
    <3>2. CASE n \in {"SSTATUS", "SIE", "SIP"}
      BY <1>0, <1>1, <3>2
      DEF Stored32, CounterAddrs64, Target64, Written64, Epcs, Masks64, Shared, SharedFields,
          Supervisor, User, UserRegs, SupervisorRegs
    <3> QED
      BY <1>0, <1>1, <1>6, <3>1, <3>2
      DEF SupervisorAddrs64, SupervisorAddrs32, Target64, Written64, Stored32, CounterAddrs64, Epcs,
          SupervisorRegs
  <2> QED
    BY <2>1, <2>2 DEF Within, User, Supervisor
<1>7. CASE n \in DOMAIN UserAddrs64 /\ addr = UserAddrs64[n]
  <2>1. CASE r \in UserRegs
    BY <2>1 DEF Within, Shared
  <2>2. CASE n \in {"USTATUS", "UIE", "UIP"}
    BY <1>0, <1>1, <2>2
    DEF Stored32, CounterAddrs64, Target64, Written64, Epcs, Masks64, Shared, SharedFields,
        Supervisor, User, UserRegs, SupervisorRegs, Within
  <2> QED
    BY <1>0, <1>1, <1>7, <2>1, <2>2
    DEF UserAddrs64, UserAddrs32, Target64, Written64, Stored32, CounterAddrs64, Epcs, UserRegs
<1> QED
  BY <1>2, <1>3, <1>4, <1>5, <1>6, <1>7, Levels32, Name64Is
  DEF MachineAddrs64, SupervisorAddrs64, UserAddrs64

LEMMA Get64 ==
    ASSUME NEW c \in Regs, NEW k \in Clocks, NEW prv, NEW addr, NEW g,
           g = get_csr_value64(c, k, prv, addr)
    PROVE  g.csrs \in Cached(c, k) /\ g.value \in SUBSET All64 /\ (~g.ok => g.csrs = c)
<1> DEFINE n == Name64(addr)
<1>1. is_valid_csr64_addr(addr) => default_read64(c, addr) \in SUBSET All64
  <2>1. n \in DOMAIN Stored64 => Stored64[n] \in Storage
    BY Stored64Is, StorageIs DEF Storage
  <2> QED
    BY <2>1 DEF is_valid_csr64_addr, default_read64, Regs
<1>2. \A m \in DOMAIN Views64 : Views64[m][1] \in Storage
  BY StorageIs DEF Views64
<1>3. k.mtime \in SUBSET All64 /\ k.cycle \in SUBSET All64
  BY DEF Clocks
<1>a. c \in Regs
  OBVIOUS
<1> HIDE DEF n
<1>4. \/ g = IllegalAccess(c)
      \/ is_valid_csr64_addr(addr) /\ g = Gives(c, default_read64(c, addr))
      \/ g = Gives([c EXCEPT !["time"] = k.mtime], k.mtime)
      \/ g = Gives([c EXCEPT !["cycle"] = k.cycle], k.cycle)
      \/ g = Gives(c, {})
      \/ n \in DOMAIN Views64 /\ g = Gives(c, ReadBits(c[Views64[n][1]], Masks64[Views64[n][2]]))
      \/ g = Gives(c, {b \in 0 .. 4 : b \in c["fcsr"]})
      \/ g = Gives(c, {b \in 0 .. 2 : b + 5 \in c["fcsr"]})
  BY DEF get_csr_value64, n
<1> QED
  BY <1>1, <1>2, <1>3, <1>4 DEF IllegalAccess, Gives, ReadBits, Regs, All64, Cached

LEMMA SetAfterGet64 ==
    ASSUME NEW c \in Regs, NEW k \in Clocks, NEW prv, NEW addr, NEW v, NEW g, NEW s,
           g = get_csr_value64(c, k, prv, addr), g.ok, s = set_csr_value64(g.csrs, addr, v)
    PROVE  s.ok
<1> DEFINE n == Name64(addr)
<1>1. g.csrs["mstatus"] = c["mstatus"]
  BY Get64, CachedRegs, StorageIs
<1>2. n \in DOMAIN Views64 => n \in DOMAIN Written64
  BY DEF Views64, Written64
<1>3. n \in {"TIME", "MTIME", "MCYCLE"} => is_valid_csr64_addr(addr)
  BY DEF is_valid_csr64_addr, Stored64, PastPmpcfg, Counters64, Joined
<1>4. "SATP" \notin DOMAIN Views64
  BY DEF Views64
<1> HIDE DEF n
<1> QED
  BY <1>1, <1>2, <1>3, <1>4
  DEF get_csr_value64, set_csr_value64, Gives, IllegalAccess, TrapsSatpRead, n

LEMMA Mip64 ==
    ASSUME NEW addr, Name64(addr) = "MIP"
    PROVE  /\ addr = \h344 /\ csr_prv(addr) = Machine
           /\ \A c, k, prv : get_csr_value64(c, k, prv, addr)
                                = Gives(c, c["mip"] \cap {0, 1, 3, 4, 5, 7, 8, 9, 11})
           /\ \A c, v : set_csr_value64(c, addr, v)
                           = Gives([c EXCEPT !["mip"] = WriteBits(@, {0, 1, 4, 5, 8, 9}, v)], {})
<1>1. addr = \h344
  BY Name64Is
  DEF CounterAddrs64, MachineAddrs64, MachineAddrs32, SupervisorAddrs64, SupervisorAddrs32,
      UserAddrs64, UserAddrs32, PmpAddrs
<1>2. csr_prv(addr) = Machine
  BY <1>1 DEF csr_prv, Machine
<1>3. addr \notin HpmCounters64 /\ addr \notin \hC00 .. \hC1F
  BY <1>1 DEF HpmCounters64, HpmAddrs
<1>4. /\ "MIP" \in DOMAIN Views64 /\ Views64["MIP"][1] = "mip"
      /\ Masks64[Views64["MIP"][2]] = {0, 1, 3, 4, 5, 7, 8, 9, 11}
  BY DEF Views64, Masks64
<1>5. /\ "MIP" \in DOMAIN Written64 /\ Written64["MIP"][1] = "mip"
      /\ Masks64[Written64["MIP"][2]] = {0, 1, 4, 5, 8, 9}
  BY DEF Written64, Masks64
<1>7. ASSUME NEW c, NEW k, NEW prv
      PROVE  get_csr_value64(c, k, prv, addr) = Gives(c, c["mip"] \cap {0, 1, 3, 4, 5, 7, 8, 9, 11})
  BY <1>3, <1>4 DEF get_csr_value64, MayReadCounter64, ReadBits
<1>8. ASSUME NEW c, NEW v
      PROVE  set_csr_value64(c, addr, v)
               = Gives([c EXCEPT !["mip"] = WriteBits(@, {0, 1, 4, 5, 8, 9}, v)], {})
  BY <1>3, <1>5 DEF set_csr_value64
<1> QED
  BY <1>1, <1>2, <1>7, <1>8

LEMMA Exec64 ==
    ASSUME NEW c \in Regs, NEW k \in Clocks, NEW prv \in Levels, NEW i, i.v \in SUBSET All64,
           i.rd0 \in BOOLEAN, NEW o, o = ExecCsr64(c, k, prv, i)
    PROVE  Effect(c, k, prv, o) /\ SatpKept(c, o.csrs) /\ MipKept(c, prv, i, o.csrs)
<1> DEFINE invalid == is_invalid_csr_access64(prv, i.addr, Writes(i))
           get == IF Reads(i) THEN get_csr_value64(c, k, prv, i.addr) ELSE Gives(c, {})
           v == Combined(i, get.value)
           set == IF Writes(i) THEN set_csr_value64(get.csrs, i.addr, v) ELSE get
<1>1. o = IF invalid \/ ~get.ok THEN Outcome(TRUE, c)
          ELSE [trap |-> ~set.ok, wrote |-> ~i.rd0, rd |-> IF i.rd0 THEN {} ELSE get.value,
                csrs |-> set.csrs]
  BY DEF ExecCsr64
<1>2. /\ get.csrs \in Cached(c, k)
      /\ get.value \in SUBSET All64
  <2>1. CASE Reads(i)
    <3>1. get = get_csr_value64(c, k, prv, i.addr)
      BY <2>1
    <3> HIDE DEF get
    <3> QED
      BY <3>1, Get64
  <2>2. CASE ~Reads(i)
    BY <2>2 DEF Gives, Cached
  <2> QED
    BY <2>1, <2>2
<1>3. v \in SUBSET All64
  BY <1>2, CombinedBits
<1>4. get.csrs \in Regs
  BY <1>2, CachedRegs
<1>5. CASE invalid \/ ~get.ok
  BY <1>1, <1>5 DEF Outcome, Effect, Cached, SatpKept, MipKept
<1>6. CASE ~invalid /\ get.ok
  <2>1. (o.trap => ~set.ok) /\ (o.wrote => ~i.rd0) /\ o.csrs = set.csrs
    <3>1. o = [trap |-> ~set.ok, wrote |-> ~i.rd0, rd |-> IF i.rd0 THEN {} ELSE get.value,
               csrs |-> set.csrs]
      <4> HIDE DEF invalid, get, set
      <4> QED
        BY Zenon, <1>1, <1>6
    <3> HIDE DEF get, set
    <3> QED
      BY ONLY <3>1, OutcomeFields, Zenon
  <2>2. ~set.ok => set.csrs = c /\ i.rd0
    <3>1. CASE Reads(i) /\ Writes(i)
      BY <1>6, <3>1, SetAfterGet64
    <3>2. CASE ~Reads(i) /\ Writes(i)
      <4>1. i.rd0 /\ set = set_csr_value64(c, i.addr, v) /\ v \in SUBSET All64
        BY <1>3, <3>2 DEF Reads, Gives
      <4> QED
        BY <1>3, <4>1, Set64
    <3>3. CASE ~Writes(i)
      BY <1>6, <3>3
    <3> QED
      BY <3>1, <3>2, <3>3
  <2>5. SatpKept(c, get.csrs)
    BY <1>2, CachedRegs, StorageIs DEF SatpKept
  <2>0. get.csrs["mip"] = c["mip"]
    BY <1>2, CachedRegs, StorageIs
  <2>3. CASE set.csrs = get.csrs
    BY <1>2, <2>0, <2>1, <2>2, <2>3, <2>5 DEF Effect, SatpKept, MipKept
  <2>4. CASE set.csrs # get.csrs
    <3>1. Writes(i) /\ set = set_csr_value64(get.csrs, i.addr, v)
      BY <2>4
    <3>0. Name64(i.addr) = "MIP" => (Reads(i) => get.value = c["mip"] \cap {0, 1, 3, 4, 5, 7, 8, 9, 11})
      BY Mip64 DEF Gives
    <3>a. v = Combined(i, get.value)
      OBVIOUS
    <3> HIDE DEF get, v, set
    <3>2. PICK r \in Storage, mask \in SUBSET All64, x \in SUBSET All64 :
              set.csrs = Put(get.csrs, r, mask, x) /\ Target64(Name64(i.addr), r, mask)
      BY <1>3, <1>4, <2>4, <3>1, Set64
    <3>5. SatpKept(c, o.csrs)
      BY <1>3, <1>4, <2>1, <2>5, <3>1, Set64 DEF SatpKept
    <3>3. Legal(r, mask) /\ Within(i.addr, r, mask)
      BY <3>2, Target64Legal, Target64Within
    <3>4. ~(prv < csr_prv(i.addr))
      BY <1>6 DEF is_invalid_csr_access64
    <3>6. ASSUME r # "mip" \/ mask \cap DeviceBits = {}
          PROVE  MipKept(c, prv, i, o.csrs)
      <4>1. o.csrs["mip"] \cap DeviceBits = c["mip"] \cap DeviceBits
        BY <1>4, <2>0, <2>1, <3>2, <3>6, StorageIs DEF Put, Regs, WriteBits
      <4> QED
        BY <4>1 DEF MipKept
    <3>7. ASSUME r = "mip", Name64(i.addr) = "MIP"
          PROVE  MipKept(c, prv, i, o.csrs)
      <4>1. i.addr = \h344 /\ prv = Machine
        BY <3>4, <3>7, Mip64 DEF Levels, User, Supervisor, Machine
      <4>2. o.csrs["mip"] = WriteBits(c["mip"], {0, 1, 4, 5, 8, 9}, v)
        BY <1>4, <2>0, <2>1, <3>1, <3>7, Mip64, StorageIs DEF Gives, Regs
      <4>3. Overwrites(prv, i) = IF Swaps(i) THEN SoftwareBits ELSE SoftwareBits \cap i.v
        BY <3>1, <4>1 DEF Overwrites
      <4>4. Reads(i) => get.value = c["mip"] \cap {0, 1, 3, 4, 5, 7, 8, 9, 11}
        BY <3>0, <3>7
      <4>5. (WriteBits(c["mip"], {0, 1, 4, 5, 8, 9}, Combined(i, get.value)) \cap DeviceBits)
               \ Overwrites(prv, i) = (c["mip"] \cap DeviceBits) \ Overwrites(prv, i)
        BY <4>3, <4>4, CombinedMip
      <4>6. o.csrs["mip"] = WriteBits(c["mip"], {0, 1, 4, 5, 8, 9}, Combined(i, get.value))
        BY <3>a, <4>2, Zenon
      <4> QED
        BY <4>5, <4>6 DEF MipKept
    <3>8. MipKept(c, prv, i, o.csrs)
      BY <3>2, <3>6, <3>7, Target64Mip
    <3> QED
      BY <1>2, <2>1, <2>2, <3>2, <3>3, <3>4, <3>5, <3>8 DEF Effect, Within
  <2> QED
    BY <2>3, <2>4
<1> QED
  BY <1>5, <1>6

-----------------------------------------------------------------------------
(* The CSR instructions as steps. *)
LEMMA EffectKeeps ==
    ASSUME NEW c \in Regs, NEW k \in Clocks, NEW prv, NEW o, Effect(c, k, prv, o)
    PROVE  /\ o.csrs \in Regs
           /\ o.csrs["misa"] = c["misa"]
           /\ \A r \in {"mtvec", "stvec", "utvec"} : 1 \notin c[r] => 1 \notin o.csrs[r]
           /\ \A r \in {"mepc", "sepc", "uepc"} : 0 \notin c[r] => 0 \notin o.csrs[r]
<1>1. PICK b \in Cached(c, k) :
          \/ o.csrs = b
          \/ \E r \in Storage, mask \in SUBSET All64, x \in SUBSET All64 :
                o.csrs = Put(b, r, mask, x) /\ Legal(r, mask)
  BY DEF Effect
<1>2. b \in Regs /\ \A r \in Storage \ {"cycle", "time"} : b[r] = c[r]
  BY CachedRegs
<1>3. {"misa", "mtvec", "stvec", "utvec", "mepc", "sepc", "uepc"}
          \subseteq Storage \ {"cycle", "time"}
  BY StorageIs
<1>4. CASE o.csrs = b
  BY <1>2, <1>3, <1>4
<1>5. CASE o.csrs # b
  <2>1. PICK r0 \in Storage, mask \in SUBSET All64, x \in SUBSET All64 :
            o.csrs = Put(b, r0, mask, x) /\ Legal(r0, mask)
    BY <1>1, <1>5
  <2>2. \A r \in Storage : o.csrs[r] = IF r = r0 THEN WriteBits(b[r], mask, x) ELSE b[r]
    BY <1>2, <2>1 DEF Put, Regs
  <2>3. o.csrs \in Regs
    <3>1. WriteBits(b[r0], mask, x) \in SUBSET All64
      BY <1>2 DEF Regs, WriteBits
    <3> QED
      BY <1>2, <2>1, <3>1 DEF Put, Regs
  <2>4. o.csrs["misa"] = c["misa"]
    BY <1>2, <1>3, <2>1, <2>2 DEF Legal
  <2>6. ASSUME NEW r \in {"mtvec", "stvec", "utvec"}, 1 \notin c[r] PROVE 1 \notin o.csrs[r]
    BY <1>2, <1>3, <2>1, <2>2, <2>6 DEF Legal, WriteBits
  <2>7. ASSUME NEW r \in {"mepc", "sepc", "uepc"}, 0 \notin c[r] PROVE 0 \notin o.csrs[r]
    BY <1>2, <1>3, <2>1, <2>2, <2>7 DEF Legal, WriteBits
  <2> QED
    BY <2>3, <2>4, <2>6, <2>7
<1> QED
  BY <1>4, <1>5

RegsOK ==
    /\ arch \in {"RV32", "RV64"}
    /\ csrs \in Regs
    /\ clk \in Clocks

(* The outcome o of the CSR instruction i that the step executed at level prv. *)
Executes(prv, i, o) ==
    /\ Effect(csrs, clk, prv, o)
    /\ MipKept(csrs, prv, i, o.csrs)
    /\ overwritten' = overwritten \cup Overwrites(prv, i)
    /\ arch = "RV64" => SatpKept(csrs, o.csrs)
    /\ csrs' = o.csrs
    /\ last' = [by |-> "csr", mode |-> prv, trap |-> o.trap, wrote |-> o.wrote]
    /\ UNCHANGED <<arch, use, clk, lines>>

LEMMA ExecutesCsr ==
    ASSUME RegsOK, ExecuteCsr
    PROVE  \E prv \in Levels : \E i, o : Executes(prv, i, o)
<1>1. PICK prv \in Levels, op \in use.ops, addr \in use.addrs, rd0 \in BOOLEAN :
          \E v \in Operand(op), zero \in BOOLEAN :
             CsrInstruction(prv, [op |-> op, addr |-> addr, rd0 |-> rd0, zero |-> zero, v |-> v])
  BY DEF ExecuteCsr
<1>2. PICK v \in Operand(op), zero \in BOOLEAN :
          CsrInstruction(prv, [op |-> op, addr |-> addr, rd0 |-> rd0, zero |-> zero, v |-> v])
  BY <1>1
<1> DEFINE i == [op |-> op, addr |-> addr, rd0 |-> rd0, zero |-> zero, v |-> v]
<1>3. i.rd0 \in BOOLEAN /\ i.v = v
  OBVIOUS
<1>4. v \in SUBSET Width
  BY DEF Operand, Width, Low, All64
<1> HIDE DEF i
<1>5. CASE arch = "RV32"
  <2> DEFINE o == ExecCsr32(csrs, clk, prv, i)
  <2>1. CsrInstruction(prv, i)
    BY <1>2 DEF i
  <2>2. csrs' = o.csrs /\ last' = [by |-> "csr", mode |-> prv, trap |-> o.trap, wrote |-> o.wrote]
        /\ overwritten' = overwritten \cup Overwrites(prv, i)
        /\ UNCHANGED <<arch, use, clk, lines>>
    BY <1>5, <2>1 DEF CsrInstruction
  <2>3. Effect(csrs, clk, prv, o) /\ MipKept(csrs, prv, i, o.csrs)
    BY <1>3, <1>4, <1>5, Exec32 DEF RegsOK, Width
  <2> HIDE DEF o
  <2> QED
    BY <1>5, <2>2, <2>3 DEF Executes
<1>6. CASE arch = "RV64"
  <2> DEFINE o == ExecCsr64(csrs, clk, prv, i)
  <2>1. CsrInstruction(prv, i)
    BY <1>2 DEF i
  <2>2. csrs' = o.csrs /\ last' = [by |-> "csr", mode |-> prv, trap |-> o.trap, wrote |-> o.wrote]
        /\ overwritten' = overwritten \cup Overwrites(prv, i)
        /\ UNCHANGED <<arch, use, clk, lines>>
    BY <1>6, <2>1 DEF CsrInstruction
  <2>3. Effect(csrs, clk, prv, o) /\ SatpKept(csrs, o.csrs) /\ MipKept(csrs, prv, i, o.csrs)
    BY <1>3, <1>4, <1>6, Exec64 DEF RegsOK, Width
  <2> HIDE DEF o
  <2> QED
    BY <2>2, <2>3 DEF Executes
<1> QED
  BY <1>5, <1>6 DEF RegsOK

-----------------------------------------------------------------------------
(* The floating point instructions: each one traps, moves data between a   *)
(* register and memory, or executes with the unit on and ends in one of    *)
(* four ways.                                                              *)
FpExecutes ==
    /\ csrs["mstatus"] \cap FS # {}
    /\ \/ \E regs, flags : /\ flags \in SUBSET FFlags
                          /\ FpCompletes(regs, flags, fp_finish_instr(csrs, sf \cup flags))
       \/ \E flags : /\ flags \in SUBSET FFlags
                     /\ FpCompletes(fregs, flags, fp_update_exception_flags(csrs, sf \cup flags))
       \/ \E regs : FpMoves(regs, fp_set_dirty(csrs))
       \/ FpMoves(fregs, csrs)

FpAccesses == UNCHANGED <<csrs, sf, raised>> /\ Executed("fpmem", FALSE)

LEMMA FpuSteps == FpuNext => FpTraps \/ FpAccesses \/ FpExecutes
<1> DEFINE Ends == FpTraps \/ FpAccesses \/ FpExecutes
<1>0. \A flags \in SUBSET {4} : flags \in SUBSET FFlags
  BY DEF FFlags
<1>1. ASSUME NEW ops, FpArithmetic(ops) PROVE Ends
  BY <1>1 DEF FpArithmetic, FpExecutes, fp_prepare_instr
<1>2. ASSUME NEW ops, FpToInteger(ops) PROVE Ends
  BY <1>2 DEF FpToInteger, FpExecutes, fp_prepare_instr
<1>3. ASSUME NEW ops, FpMinMax(ops) PROVE Ends
  BY <1>0, <1>3 DEF FpMinMax, FpExecutes, fp_prepare_instr
<1>4. ASSUME NEW ops, FpSignInject(ops) PROVE Ends
  BY <1>4 DEF FpSignInject, FpExecutes, fp_prepare_instr
<1>5. ASSUME NEW ops, FpMoveToF(ops) PROVE Ends
  BY <1>5 DEF FpMoveToF, FpExecutes, fp_prepare_instr
<1>6. ASSUME NEW ops, FpMoveToX(ops) PROVE Ends
  BY <1>6 DEF FpMoveToX, FpExecutes, fp_prepare_instr
<1>7. ASSUME NEW ops, FpCompare(ops) PROVE Ends
  BY <1>0, <1>7 DEF FpCompare, FpExecutes, fp_prepare_instr
<1>8. ASSUME NEW ops, FpLoadStore(ops) PROVE Ends
  BY <1>8 DEF FpLoadStore, FpAccesses
<1> HIDE DEF Ends
<1>9. FpuNext => Ends
  BY <1>1, <1>2, <1>3, <1>4, <1>5, <1>6, <1>7, <1>8
  DEF FpuNext, Arithmetic_S, Convert_S, MinMax_S, Sign_S, Move_S, Compare_S, Memory_S, Arithmetic_D,
      Convert_D, MinMax_D, Sign_D, Class_D, Compare_D, Memory_D, Convert_64, Move_64
<1> QED
  BY <1>9 DEF Ends

-----------------------------------------------------------------------------
(* The invariant of the registers. *)
RegsInv == RegsOK /\ RegistersAreLegal /\ MipFollowsDevices /\ FlagsAccrue

LEMMA InitRegs == Init => RegsInv
<1> SUFFICES ASSUME Init PROVE RegsInv
  OBVIOUS
<1>1. csr_table32 \in Regs /\ csr_table64 \in Regs
  BY DEF csr_table32, csr_table64, Regs, All64
<1>2. RegsOK
  BY <1>1 DEF Init, CsrInit, RegsOK, Clocks
<1>3. \A r \in Storage \ {"misa", "mstatus"} : csr_table32[r] = {} /\ csr_table64[r] = {}
  BY DEF csr_table32, csr_table64
<1>4. \A r \in Storage \ {"misa", "mstatus"} : csrs[r] = {}
  BY <1>3 DEF Init, CsrInit
<1>5. RegistersAreLegal
  BY <1>4, StorageIs DEF Init, CsrInit, RegistersAreLegal, SatpMode, SatpModes
<1>7. MipFollowsDevices
  BY <1>4, StorageIs DEF Init, CsrInit, MipFollowsDevices
<1>6. FlagsAccrue
  BY <1>4, StorageIs DEF Init, FpuInit, FlagsAccrue
<1> QED
  BY <1>2, <1>5, <1>6, <1>7 DEF RegsInv

(* A CSR instruction, a device or the clock. *)
LEMMA CsrKeepsRegs ==
    ASSUME RegsInv, CsrNext, FpuFollowsCsr
    PROVE  RegsInv'
<1> USE DEF RegsInv
<1>1. CASE ExecuteCsr
  <2>1. PICK prv \in Levels : \E i, o : Executes(prv, i, o)
    BY <1>1, ExecutesCsr
  <2>2. PICK i, o : Executes(prv, i, o)
    BY <2>1
  <2>3. csrs' = o.csrs /\ UNCHANGED <<arch, clk, lines>>
    BY <2>2 DEF Executes
  <2>4. /\ csrs' \in Regs
        /\ csrs'["misa"] = csrs["misa"]
        /\ \A r \in {"mtvec", "stvec", "utvec"} : 1 \notin csrs[r] => 1 \notin csrs'[r]
        /\ \A r \in {"mepc", "sepc", "uepc"} : 0 \notin csrs[r] => 0 \notin csrs'[r]
    BY <2>2, <2>3, EffectKeeps DEF Executes, RegsOK
  <2>5. arch = "RV64" => SatpMode(csrs'["satp"]) \in SatpModes
    BY <2>2, <2>3 DEF Executes, SatpKept, RegistersAreLegal
  <2>6. RegsOK' /\ RegistersAreLegal'
    BY <2>3, <2>4, <2>5 DEF RegsOK, RegistersAreLegal
  <2>7. MipFollowsDevices'
    <3> DEFINE w == Overwrites(prv, i)
    <3>1. /\ (csrs'["mip"] \cap DeviceBits) \ w = (csrs["mip"] \cap DeviceBits) \ w
          /\ overwritten' = overwritten \cup w
      BY <2>2 DEF Executes, MipKept
    <3>2. (csrs["mip"] \cap DeviceBits) \ overwritten = lines \ overwritten
      BY DEF MipFollowsDevices
    <3> HIDE DEF w
    <3>3. (csrs'["mip"] \cap DeviceBits) \ (overwritten \cup w) = lines \ (overwritten \cup w)
      BY <3>1, <3>2
    <3> QED
      BY <2>3, <3>1, <3>3 DEF MipFollowsDevices
  <2> QED
    BY <2>6, <2>7 DEF FlagsAccrue, FpuFollowsCsr
<1>2. CASE DriveLine
  <2>1. PICK b \in DeviceBits, up \in BOOLEAN :
            /\ lines' = IF up THEN lines \cup {b} ELSE lines \ {b}
            /\ csrs' = [csrs EXCEPT !["mip"] = IF up THEN @ \cup {b} ELSE @ \ {b}]
            /\ overwritten' = overwritten \ {b}
            /\ UNCHANGED <<arch, clk>>
    BY <1>2 DEF DriveLine
  <2>2. b \in All64
    BY DEF DeviceBits, All64
  <2>3. RegsOK'
    BY <2>1, <2>2, StorageIs DEF RegsOK, Regs
  <2>4. \A r \in Storage \ {"mip"} : csrs'[r] = csrs[r]
    BY <2>1 DEF RegsOK, Regs
  <2>5. MipFollowsDevices'
    <3>1. (csrs["mip"] \cap DeviceBits) \ overwritten = lines \ overwritten
      BY DEF MipFollowsDevices
    <3>2. csrs'["mip"] = IF up THEN csrs["mip"] \cup {b} ELSE csrs["mip"] \ {b}
      BY <2>1, StorageIs DEF RegsOK, Regs
    <3>3. (csrs'["mip"] \cap DeviceBits) \ overwritten' = lines' \ overwritten'
      BY <2>1, <3>1, <3>2
    <3> QED
      BY <3>3 DEF MipFollowsDevices
  <2>6. RegistersAreLegal'
    BY <2>1, <2>4, StorageIs DEF RegistersAreLegal
  <2> QED
    BY <2>3, <2>5, <2>6 DEF FlagsAccrue, FpuFollowsCsr
<1>3. CASE Tick
  <2>1. PICK k \in {1, 2} : clk' = [mtime |-> Clock[k + 1], cycle |-> Clock[k + 1]]
    BY <1>3 DEF Tick, Clock
  <2>2. clk' \in Clocks
    BY <2>1 DEF Clock, Clocks, All64
  <2>3. UNCHANGED <<arch, csrs, lines, overwritten>>
    BY <1>3 DEF Tick
  <2> QED
    BY <2>2, <2>3 DEF RegsOK, RegistersAreLegal, MipFollowsDevices, FlagsAccrue, FpuFollowsCsr
<1> QED
  BY <1>1, <1>2, <1>3 DEF CsrNext

(* What a floating point instruction makes of the registers. *)
Marked(dirty, flags) ==
    [csrs EXCEPT !["mstatus"] = IF dirty THEN @ \cup FS \cup {SD} ELSE @,
                 !["fcsr"] = @ \cup flags]

LEMMA MarkedRegs ==
    ASSUME RegsOK, NEW flags
    PROVE  /\ csrs = Marked(FALSE, {})
           /\ fp_set_dirty(csrs) = Marked(TRUE, {})
           /\ fp_finish_instr(csrs, flags) = Marked(TRUE, flags)
           /\ fp_update_exception_flags(csrs, flags) = Marked(flags # {}, flags)
<1>1. csrs = Marked(FALSE, {}) /\ fp_set_dirty(csrs) = Marked(TRUE, {})
  BY StorageIs DEF RegsOK, Regs, Marked, fp_set_dirty
<1>2. fp_update_exception_flags(csrs, flags) = Marked(flags # {}, flags)
  BY StorageIs DEF RegsOK, Regs, Marked, fp_set_dirty, fp_update_exception_flags
<1>3. fp_finish_instr(csrs, flags) = Marked(TRUE, flags)
  BY StorageIs
  DEF RegsOK, Regs, Marked, fp_set_dirty, fp_update_exception_flags, fp_finish_instr
<1> QED
  BY <1>1, <1>2, <1>3

(* The floating point unit changes mstatus and fcsr only. *)
LEMMA FpuKeepsRegs ==
    ASSUME RegsInv, FpuNext
    PROVE  /\ RegsInv'
           /\ \A r \in Storage \ {"mstatus", "fcsr"} : csrs'[r] = csrs[r]
           /\ csrs'["mstatus"] \in {csrs["mstatus"], csrs["mstatus"] \cup FS \cup {SD}}
<1> USE DEF RegsInv
<1>0. FS \subseteq All64 /\ SD \in All64 /\ FFlags \subseteq All64
  BY DEF FS, SD, FFlags, All64
<1>1. UNCHANGED <<arch, clk, lines, overwritten>>
  BY FpuSteps DEF FpTraps, FpAccesses, FpExecutes, FpCompletes, FpMoves, Executed
<1>2. ASSUME NEW flags \in SUBSET FFlags, NEW d \in BOOLEAN,
             csrs' = Marked(d, flags), sf' = {}, raised' \subseteq raised \cup flags
      PROVE  /\ RegsInv'
             /\ \A r \in Storage \ {"mstatus", "fcsr"} : csrs'[r] = csrs[r]
             /\ csrs'["mstatus"] \in {csrs["mstatus"], csrs["mstatus"] \cup FS \cup {SD}}
  <2>1. /\ csrs'["mstatus"] = IF d THEN csrs["mstatus"] \cup FS \cup {SD} ELSE csrs["mstatus"]
        /\ csrs'["fcsr"] = csrs["fcsr"] \cup flags
        /\ \A r \in Storage \ {"mstatus", "fcsr"} : csrs'[r] = csrs[r]
    BY <1>2, StorageIs DEF RegsOK, Regs, Marked
  <2>2. csrs' \in Regs
    BY <1>0, <1>2, StorageIs DEF RegsOK, Regs, Marked
  <2>3. RegsOK' /\ FlagsAccrue'
    BY <1>1, <1>2, <2>1, <2>2 DEF RegsOK, FlagsAccrue
  <2>4. RegistersAreLegal' /\ MipFollowsDevices'
    BY <1>1, <2>1, StorageIs DEF RegistersAreLegal, MipFollowsDevices
  <2> QED
    BY <2>1, <2>3, <2>4
<1>3. CASE FpTraps \/ FpAccesses
  BY <1>1, <1>3 DEF FpTraps, FpAccesses, fpuVars, RegsOK, RegistersAreLegal, MipFollowsDevices, FlagsAccrue
<1>4. CASE FpExecutes
  <2>0. sf = {} /\ {} \in SUBSET FFlags
    BY DEF FlagsAccrue
  <2>1. ASSUME NEW regs, NEW flags, flags \in SUBSET FFlags,
               FpCompletes(regs, flags, fp_finish_instr(csrs, sf \cup flags))
        PROVE  csrs' = Marked(TRUE, flags) /\ sf' = {} /\ raised' \subseteq raised \cup flags
    BY <2>0, <2>1, MarkedRegs DEF FpCompletes
  <2>2. ASSUME NEW flags, flags \in SUBSET FFlags,
               FpCompletes(fregs, flags, fp_update_exception_flags(csrs, sf \cup flags))
        PROVE  csrs' = Marked(flags # {}, flags) /\ sf' = {} /\ raised' \subseteq raised \cup flags
    BY <2>0, <2>2, MarkedRegs DEF FpCompletes
  <2>3. ASSUME NEW regs, FpMoves(regs, fp_set_dirty(csrs))
        PROVE  csrs' = Marked(TRUE, {}) /\ sf' = {} /\ raised' \subseteq raised \cup {}
    BY <2>0, <2>3, MarkedRegs DEF FpMoves
  <2>4. ASSUME FpMoves(fregs, csrs)
        PROVE  csrs' = Marked(FALSE, {}) /\ sf' = {} /\ raised' \subseteq raised \cup {}
    BY <2>0, <2>4, MarkedRegs DEF FpMoves
  <2>5. PICK d \in BOOLEAN, flags \in SUBSET FFlags :
            csrs' = Marked(d, flags) /\ sf' = {} /\ raised' \subseteq raised \cup flags
    BY <1>4, <2>0, <2>1, <2>2, <2>3, <2>4 DEF FpExecutes
  <2> QED
    BY <1>2, <2>5
<1> QED
  BY <1>3, <1>4, FpuSteps

(* The MMU reads the registers and leaves them alone. *)
LEMMA MmuKeepsRegs ==
    ASSUME MmuNext
    PROVE  UNCHANGED <<arch, use, csrs, clk, lines, overwritten>> /\ last' = NoInstr
  BY DEF MmuNext, TranslateFast, TranslateWalk, SfenceVma, StorePte, Translates

(* Every step of the hart keeps the invariant. *)
LEMMA NextRegs == RegsInv /\ [Next]_vars => RegsInv'
<1> SUFFICES ASSUME RegsInv, [Next]_vars PROVE RegsInv'
  OBVIOUS
<1>1. CASE CsrNext /\ FpuFollowsCsr /\ MmuFollowsCsr
  BY <1>1, CsrKeepsRegs
<1>2. CASE FpuNext /\ UNCHANGED mmuVars
  BY <1>2, FpuKeepsRegs
<1>3. CASE MmuNext /\ UNCHANGED fpuVars
  BY <1>3, MmuKeepsRegs
  DEF RegsInv, RegsOK, RegistersAreLegal, MipFollowsDevices, FlagsAccrue, fpuVars
<1>4. CASE UNCHANGED vars
  BY <1>4
  DEF vars, csrVars, fpuVars, RegsInv, RegsOK, RegistersAreLegal, MipFollowsDevices, FlagsAccrue
<1> QED
  BY <1>1, <1>2, <1>3, <1>4 DEF Next

(* In every reachable state each register is a set of bit positions,      *)
(* no register holds a value that csr.h rules out, mip follows the devices *)
(* and the accrued flags are in fcsr.                                      *)
THEOREM RegsInvariance == Spec => []RegsInv
<1>1. Init => RegsInv
  BY InitRegs
<1>2. RegsInv /\ [Next]_vars => RegsInv'
  BY NextRegs
<1> QED
  BY <1>1, <1>2, PTL DEF Spec

(* No sequence of CSR instructions, interrupt lines and floating point     *)
(* instructions reaches a value the hardware rules out: set_csr_value      *)
(* writes each register through a mask that spares those bits. And a bit   *)
(* of mip that a device drives is as the device drove it last, unless it   *)
(* is seip or ueip and a machine mode instruction named it in a write of   *)
(* mip since: MIP_READ_MASK has all the bits of devices that               *)
(* MIP_WRITE_MASK has.                                                     *)
THEOREM ValuesAreLegalTheorem == Spec => []ValuesAreLegal
<1>1. RegsInv => ValuesAreLegal
  BY DEF RegsInv, ValuesAreLegal
<1> QED
  BY <1>1, RegsInvariance, PTL

(* A flag that softfloat raised stays in fcsr until software writes fcsr,  *)
(* and fp_finish_instr and fp_update_exception_flags leave none behind in  *)
(* softfloat, on every path of every instruction.                          *)
THEOREM FlagsAccrueTheorem == Spec => []FlagsAccrue
<1>1. RegsInv => FlagsAccrue
  BY DEF RegsInv
<1> QED
  BY <1>1, RegsInvariance, PTL

(* Only a CSR instruction leaves "csr" in last, only one of the floating   *)
(* point unit "fp".                                                        *)
LEMMA WhoExecuted ==
    ASSUME Next
    PROVE  /\ last'.by = "csr" => ExecuteCsr
           /\ last'.by = "fp" => FpuNext
<1>1. CASE ExecuteCsr
  <2>1. last'.by = "csr"
    BY <1>1 DEF ExecuteCsr, CsrInstruction
  <2> QED
    BY <1>1, <2>1
<1>2. CASE DriveLine \/ Tick
  BY <1>2 DEF DriveLine, Tick, NoInstr
<1>3. CASE FpuNext
  <2>1. ASSUME NEW by \in {"fp", "fpmem"}, NEW trap, Executed(by, trap) PROVE last'.by # "csr"
    BY <2>1 DEF Executed
  <2>2. \E trap : Executed("fp", trap) \/ Executed("fpmem", trap)
    BY <1>3, FpuSteps DEF FpTraps, FpAccesses, FpExecutes, FpCompletes, FpMoves
  <2> QED
    BY <1>3, <2>1, <2>2
<1>4. CASE MmuNext
  BY <1>4, MmuKeepsRegs DEF NoInstr
<1> QED
  BY <1>1, <1>2, <1>3, <1>4 DEF Next, CsrNext

(* A CSR instruction that traps changes neither a register nor rd. The     *)
(* hard case is a read that succeeds before a write that traps: by         *)
(* SetAfterGet32 and SetAfterGet64 there is none.                          *)
THEOREM TrapsArePreciseTheorem == Spec => TrapsArePrecise
<1>1. RegsInv /\ [Next]_vars
        => [last'.by = "csr" /\ last'.trap => csrs' = csrs /\ ~last'.wrote]_csrVars
  <2> SUFFICES ASSUME RegsInv, Next, last'.by = "csr", last'.trap
               PROVE  csrs' = csrs /\ ~last'.wrote
    BY DEF vars
  <2>1. ExecuteCsr /\ RegsOK
    BY WhoExecuted DEF RegsInv
  <2>2. PICK prv \in Levels : \E i, o : Executes(prv, i, o)
    BY <2>1, ExecutesCsr
  <2>3. PICK i, o : Executes(prv, i, o)
    BY <2>2
  <2>4. last'.trap = o.trap /\ last'.wrote = o.wrote /\ csrs' = o.csrs
    BY <2>3 DEF Executes
  <2> QED
    BY <2>3, <2>4 DEF Executes, Effect
<1> QED
  BY <1>1, RegsInvariance, PTL DEF Spec, TrapsArePrecise

(* A CSR instruction at user or supervisor level changes nothing that      *)
(* belongs to a level above: is_invalid_csr_access leaves it addresses     *)
(* whose masks lie within what the level shares.                           *)
THEOREM LevelsAreSeparateTheorem == Spec => LevelsAreSeparate
<1>1. RegsInv /\ [Next]_vars
        => [last'.by = "csr" /\ last'.mode # Machine =>
              \A r \in Storage : csrs'[r] # csrs[r] =>
                    csrs'[r] \ Shared(r, last'.mode) = csrs[r] \ Shared(r, last'.mode)]_csrVars
  <2> SUFFICES ASSUME RegsInv, Next, last'.by = "csr", last'.mode # Machine, NEW r \in Storage
               PROVE  csrs'[r] \ Shared(r, last'.mode) = csrs[r] \ Shared(r, last'.mode)
    BY DEF vars
  <2>1. ExecuteCsr /\ RegsOK
    BY WhoExecuted DEF RegsInv
  <2>2. PICK prv \in Levels : \E i, o : Executes(prv, i, o)
    BY <2>1, ExecutesCsr
  <2>3. PICK i, o : Executes(prv, i, o)
    BY <2>2
  <2>4. last'.mode = prv /\ csrs' = o.csrs
    BY <2>3 DEF Executes
  <2>5. prv \in {User, Supervisor}
    BY <2>4 DEF Levels
  <2>6. csrs \in Regs /\ clk \in Clocks /\ Effect(csrs, clk, prv, o)
    BY <2>1, <2>3 DEF RegsOK, Executes
  <2>7. PICK b \in Cached(csrs, clk) :
            \/ csrs' = b
            \/ \E r0 \in Storage, mask \in SUBSET All64, x \in SUBSET All64 :
                  csrs' = Put(b, r0, mask, x) /\ mask \subseteq Shared(r0, prv)
    BY <2>4, <2>5, <2>6 DEF Effect
  <2>8. b \in Regs /\ (b[r] = csrs[r] \/ r \in UserRegs)
    BY <2>6, CachedRegs DEF UserRegs
  <2>9. b[r] \ Shared(r, prv) = csrs[r] \ Shared(r, prv)
    <3>1. CASE b[r] = csrs[r]
      BY <3>1
    <3>2. CASE r \in UserRegs
      <4>1. Shared(r, prv) = All64
        BY <3>2 DEF Shared
      <4> QED
        BY <2>6, <2>8, <4>1 DEF Regs
    <3> QED
      BY <2>8, <3>1, <3>2
  <2>10. csrs'[r] \ Shared(r, prv) = b[r] \ Shared(r, prv)
    <3>1. CASE csrs' = b
      BY <3>1
    <3>2. CASE csrs' # b
      <4>1. PICK r0 \in Storage, mask \in SUBSET All64, x \in SUBSET All64 :
                csrs' = Put(b, r0, mask, x) /\ mask \subseteq Shared(r0, prv)
        BY <2>7, <3>2
      <4>2. csrs'[r] = IF r = r0 THEN WriteBits(b[r], mask, x) ELSE b[r]
        BY <2>8, <4>1 DEF Put, Regs
      <4> QED
        BY <4>1, <4>2 DEF WriteBits
    <3> QED
      BY <3>1, <3>2
  <2> QED
    BY <2>4, <2>9, <2>10
<1> QED
  BY <1>1, RegsInvariance, PTL DEF Spec, LevelsAreSeparate

(* An instruction of the floating point unit that changes an FP register   *)
(* or fcsr, other than a load, leaves FS dirty and SD set, and none        *)
(* executes while FS is off (fp_prepare_instr, fp_set_dirty).              *)
THEOREM FsTracksChangesTheorem == Spec => FsTracksChanges
<1>1. RegsInv /\ [Next]_vars
        => [last'.by = "fp" /\ ~last'.trap =>
              /\ csrs["mstatus"] \cap FS # {}
              /\ fregs' # fregs \/ csrs'["fcsr"] # csrs["fcsr"]
                    => FS \cup {SD} \subseteq csrs'["mstatus"]]_<<csrVars, fpuVars>>
  <2> SUFFICES ASSUME RegsInv, Next, last'.by = "fp", ~last'.trap
               PROVE  /\ csrs["mstatus"] \cap FS # {}
                      /\ fregs' # fregs \/ csrs'["fcsr"] # csrs["fcsr"]
                            => FS \cup {SD} \subseteq csrs'["mstatus"]
    BY DEF vars
  <2>1. FpExecutes
    BY WhoExecuted, FpuSteps DEF FpTraps, FpAccesses, Executed
  <2>2. RegsOK /\ csrs \in Regs /\ "mstatus" \in Storage /\ "fcsr" \in Storage /\ sf = {}
    BY StorageIs DEF RegsInv, RegsOK, FlagsAccrue
  <2>3. ASSUME NEW d, NEW flags, csrs' = Marked(d, flags)
        PROVE  /\ d => FS \cup {SD} \subseteq csrs'["mstatus"]
               /\ csrs'["fcsr"] = csrs["fcsr"] \cup flags
    BY <2>2, <2>3 DEF Marked, Regs
  <2>4. ASSUME NEW regs, NEW flags, FpCompletes(regs, flags, fp_finish_instr(csrs, sf \cup flags))
        PROVE  csrs' = Marked(TRUE, flags)
    BY <2>2, <2>4, MarkedRegs DEF FpCompletes
  <2>5. ASSUME NEW flags, FpCompletes(fregs, flags, fp_update_exception_flags(csrs, sf \cup flags))
        PROVE  csrs' = Marked(flags # {}, flags) /\ fregs' = fregs
    BY <2>2, <2>5, MarkedRegs DEF FpCompletes
  <2>6. ASSUME NEW regs, FpMoves(regs, fp_set_dirty(csrs)) PROVE csrs' = Marked(TRUE, {})
    BY <2>2, <2>6, MarkedRegs DEF FpMoves
  <2>7. FpMoves(fregs, csrs) => UNCHANGED <<csrs, fregs>>
    BY DEF FpMoves
  <2> DEFINE Dirty == FS \cup {SD} \subseteq csrs'["mstatus"]
             Ways == Dirty \/ (csrs'["fcsr"] = csrs["fcsr"] /\ fregs' = fregs)
  <2>8. ASSUME NEW regs, NEW flags, FpCompletes(regs, flags, fp_finish_instr(csrs, sf \cup flags))
        PROVE  Ways
    BY <2>3, <2>4, <2>8
  <2>9. ASSUME NEW flags, FpCompletes(fregs, flags, fp_update_exception_flags(csrs, sf \cup flags))
        PROVE  Ways
    <3>1. csrs' = Marked(flags # {}, flags) /\ fregs' = fregs
      BY <2>5, <2>9
    <3>2. (flags # {} => Dirty) /\ csrs'["fcsr"] = csrs["fcsr"] \cup flags
      BY <2>3, <3>1
    <3> QED
      BY <3>1, <3>2
  <2>10. ASSUME NEW regs, FpMoves(regs, fp_set_dirty(csrs)) PROVE Ways
    BY <2>3, <2>6, <2>10
  <2>11. FpMoves(fregs, csrs) => Ways
    BY <2>7
  <2> HIDE DEF Ways
  <2>12. Ways
    BY <2>1, <2>8, <2>9, <2>10, <2>11 DEF FpExecutes
  <2>13. csrs["mstatus"] \cap FS # {}
    BY <2>1 DEF FpExecutes
  <2> QED
    BY <2>12, <2>13 DEF Ways
<1> QED
  BY <1>1, RegsInvariance, PTL DEF Spec, FsTracksChanges

-----------------------------------------------------------------------------
(* Writing back what was read. A register is read through a mask that      *)
(* contains the one it is written through, or whole.                       *)
LEMMA PutBack ==
    ASSUME NEW c \in Regs, NEW r \in Storage, NEW mask, NEW d, d = Put(c, r, mask, c[r])
    PROVE  d = c
<1>1. WriteBits(c[r], mask, c[r]) = c[r]
  BY DEF WriteBits
<1> QED
  BY <1>1 DEF Put, Regs

LEMMA HalfBack ==
    ASSUME NEW x \in SUBSET All64, NEW s \in {0, 32}
    PROVE  SetHalf(x, s, Half(x, s)) = x
  BY DEF SetHalf, Half, Low, All64

LEMMA RoundingBack ==
    ASSUME NEW x \in SUBSET All64
    PROVE  /\ WriteBits(x, 5 .. 7, {b + 5 : b \in {a \in 0 .. 2 : a + 5 \in x}}) = x
           /\ WriteBits(x, 0 .. 4, {b \in 0 .. 4 : b \in x}) = x
  BY DEF WriteBits, All64

LEMMA Views32Match ==
    /\ \A n \in DOMAIN Views32 : /\ n \in DOMAIN Written32
                                 /\ Written32[n][1] = Views32[n][1]
                                 /\ Masks32[Written32[n][2]] \subseteq Masks32[Views32[n][2]]
    /\ \A n \in DOMAIN Written32 \ DOMAIN Views32 : /\ n \in DOMAIN Stored32
                                                    /\ Written32[n][1] = Stored32[n]
    /\ \A n \in DOMAIN Epcs : n \in DOMAIN Stored32 /\ Epcs[n] = Stored32[n]
<1>1. \A n \in DOMAIN Views32 : /\ n \in DOMAIN Written32
                                /\ Written32[n][1] = Views32[n][1]
                                /\ Masks32[Written32[n][2]] \subseteq Masks32[Views32[n][2]]
  BY DEF Views32, Written32, Masks32
<1>2. \A n \in DOMAIN Written32 \ DOMAIN Views32 : /\ n \in DOMAIN Stored32
                                                   /\ Written32[n][1] = Stored32[n]
  BY DEF Views32, Written32, Stored32
<1>3. \A n \in DOMAIN Epcs : n \in DOMAIN Stored32 /\ Epcs[n] = Stored32[n]
  BY DEF Epcs, Stored32
<1> QED
  BY <1>1, <1>2, <1>3

LEMMA Restore32 ==
    ASSUME NEW c \in Regs, NEW k \in Clocks, NEW prv, NEW addr, NEW g, NEW s,
           g = get_csr_value32(c, k, prv, addr), g.ok, s = set_csr_value32(g.csrs, addr, g.value)
    PROVE  \A r \in Storage \ {"cycle", "time"} : s.csrs[r] = c[r]
<1> DEFINE n == Name32(addr)
           Same(d) == \A r \in Storage \ {"cycle", "time"} : d[r] = c[r]
           Clocked == {"TIME", "MTIME", "TIMEH", "MTIMEH", "MCYCLE", "MCYCLEH"}
<1>1. g.csrs \in Regs /\ Same(g.csrs)
  BY Get32, CachedRegs
<1>2. ASSUME NEW r, NEW v, s.csrs = [g.csrs EXCEPT ![r] = v], r \in {"cycle", "time"} \/ v = c[r]
      PROVE  Same(s.csrs)
  BY <1>1, <1>2 DEF Regs
<1> HIDE DEF n
<1>3. CASE s.csrs = g.csrs
  BY <1>1, <1>3
<1>4. CASE n \in DOMAIN Halves32 /\ s.csrs # g.csrs
  <2>1. n \notin DOMAIN Stored32 \cup DOMAIN Written32 \cup DOMAIN Epcs \cup DOMAIN Views32
        /\ n \notin DOMAIN DebugAddrs32 \cup {"SATP", "FFLAGS", "FRM", "TSELECT"}
    BY <1>4 DEF Halves32, Stored32, Written32, Epcs, Views32, DebugAddrs32
  <2>2. s.csrs = [g.csrs EXCEPT ![Halves32[n][1]] = SetHalf(@, Halves32[n][2], g.value)]
    BY <1>4, <2>1 DEF set_csr_value32, Gives, IllegalAccess, is_valid_csr32_addr, default_write32, n
  <2>3. CASE Halves32[n][1] \in {"cycle", "time"}
    BY <1>2, <2>2, <2>3
  <2>4. CASE Halves32[n][1] = "instret"
    <3>1. n \notin Clocked
      BY <2>4 DEF Halves32
    <3>2. addr \notin HpmCounters32
      BY <1>4 DEF set_csr_value32, Gives, n
    <3>3. g = Gives(c, Half(c["instret"], Halves32[n][2]))
      BY <1>4, <2>1, <2>4, <3>1, <3>2
      DEF get_csr_value32, IllegalAccess, is_valid_csr32_addr, default_read32, n
    <3>4. c["instret"] \in SUBSET All64 /\ Halves32[n][2] \in {0, 32}
      BY <1>4, StorageIs, Halves32Regs DEF Regs
    <3>5. SetHalf(c["instret"], Halves32[n][2], g.value) = c["instret"] /\ g.csrs = c
      BY <3>3, <3>4, HalfBack DEF Gives
    <3> QED
      BY <1>2, <2>2, <2>4, <3>5
  <2> QED
    BY <1>4, <2>3, <2>4, Halves32Regs
<1>5. CASE n \notin DOMAIN Halves32 /\ s.csrs # g.csrs
  <2>1. n \notin Clocked
    BY <1>5 DEF Halves32
  <2>2. addr \notin HpmCounters32 /\ n \notin DOMAIN DebugAddrs32 /\ n # "TSELECT" /\ n # "MISA"
    BY <1>5 DEF set_csr_value32, Gives, DebugAddrs32, n
  <2>3. \/ n \in DOMAIN Views32 /\ g = Gives(c, ReadBits(c[Views32[n][1]], Masks32[Views32[n][2]]))
        \/ n = "FFLAGS" /\ g = Gives(c, {b \in 0 .. 4 : b \in c["fcsr"]})
        \/ n = "FRM" /\ g = Gives(c, {b \in 0 .. 2 : b + 5 \in c["fcsr"]})
        \/ n \in DOMAIN Stored32 \ DOMAIN Views32 /\ g = Gives(c, c[Stored32[n]])
    BY <1>5, <2>1, <2>2
    DEF get_csr_value32, IllegalAccess, is_valid_csr32_addr, default_read32, n
  <2>4. g.csrs = c
    BY <2>3 DEF Gives
  <2>5. CASE n \in DOMAIN Views32
    <3>1. n \notin {"FFLAGS", "FRM", "SATP"}
      BY <2>5 DEF Views32
    <3>2. g.value = c[Views32[n][1]] \cap Masks32[Views32[n][2]]
      BY <2>3, <2>5, <3>1 DEF Gives, ReadBits
    <3>3. s.csrs = Put(c, Written32[n][1], Masks32[Written32[n][2]], g.value)
      BY <2>2, <2>4, <2>5, <3>1, Views32Match DEF set_csr_value32, Gives, Put, n
    <3>4. /\ g.value = c[Written32[n][1]] \cap Masks32[Views32[n][2]]
          /\ Masks32[Written32[n][2]] \subseteq Masks32[Views32[n][2]]
      BY <2>5, <3>2, Views32Match
    <3>5. WriteBits(c[Written32[n][1]], Masks32[Written32[n][2]], g.value) = c[Written32[n][1]]
      BY <3>4 DEF WriteBits
    <3> QED
      BY <1>2, <2>4, <3>3, <3>5 DEF Put
  <2>6. CASE n \in {"FFLAGS", "FRM"}
    <3>1. n \notin DOMAIN Views32 \cup DOMAIN Stored32 \cup DOMAIN Written32 \cup DOMAIN Epcs
      BY <2>6 DEF Views32, Stored32, Written32, Epcs
    <3>2. c["fcsr"] \in SUBSET All64
      BY StorageIs DEF Regs
    <3>3. CASE n = "FFLAGS"
      <4>1. g.value = {b \in 0 .. 4 : b \in c["fcsr"]}
        BY <2>3, <3>1, <3>3 DEF Gives
      <4>2. s.csrs = Put(c, "fcsr", 0 .. 4, g.value)
        BY <2>2, <2>4, <3>1, <3>3 DEF set_csr_value32, Gives, Put, n
      <4>3. WriteBits(c["fcsr"], 0 .. 4, g.value) = c["fcsr"]
        BY <3>2, <4>1, RoundingBack
      <4> QED
        BY <1>2, <2>4, <4>2, <4>3 DEF Put
    <3>4. CASE n = "FRM"
      <4>1. g.value = {b \in 0 .. 2 : b + 5 \in c["fcsr"]}
        BY <2>3, <3>1, <3>4 DEF Gives
      <4>2. s.csrs = Put(c, "fcsr", 5 .. 7, {b + 5 : b \in g.value})
        BY <2>2, <2>4, <3>1, <3>4 DEF set_csr_value32, Gives, Put, n
      <4>3. WriteBits(c["fcsr"], 5 .. 7, {b + 5 : b \in g.value}) = c["fcsr"]
        BY <3>2, <4>1, RoundingBack
      <4> QED
        BY <1>2, <2>4, <4>2, <4>3 DEF Put
    <3> QED
      BY <2>6, <3>3, <3>4
  <2>7. CASE n \in DOMAIN Stored32 \ DOMAIN Views32
    <3>1. n \notin {"FFLAGS", "FRM"}
      BY <2>7 DEF Stored32
    <3>2. g.value = c[Stored32[n]]
      BY <2>3, <2>7, <3>1 DEF Gives
    <3>3. \/ n = "SATP" /\ s.csrs = Put(c, "satp", Masks32.SATP, g.value)
          \/ n \in DOMAIN Written32
                /\ s.csrs = Put(c, Written32[n][1], Masks32[Written32[n][2]], g.value)
          \/ n \in DOMAIN Epcs /\ s.csrs = Put(c, Epcs[n], pc_alignment_mask32(c), g.value)
          \/ s.csrs = [c EXCEPT ![Stored32[n]] = g.value]
      BY <1>5, <2>2, <2>4, <2>7, <3>1
      DEF set_csr_value32, Gives, IllegalAccess, Put, is_valid_csr32_addr, default_write32, n
    <3>4. n = "SATP" => Stored32[n] = "satp"
      BY DEF Stored32
    <3>5. /\ n \in DOMAIN Written32 => Written32[n][1] = Stored32[n]
          /\ n \in DOMAIN Epcs => Epcs[n] = Stored32[n]
      BY <2>7, Views32Match
    <3>6. Stored32[n] \in Storage
      BY <2>7 DEF Storage
    <3>7. s.csrs = c
      <4>1. CASE n = "SATP" /\ s.csrs = Put(c, "satp", Masks32.SATP, g.value)
        BY <3>2, <3>4, <3>6, <4>1, PutBack
      <4>2. CASE /\ n \in DOMAIN Written32
                 /\ s.csrs = Put(c, Written32[n][1], Masks32[Written32[n][2]], g.value)
        BY <3>2, <3>5, <3>6, <4>2, PutBack
      <4>3. CASE n \in DOMAIN Epcs /\ s.csrs = Put(c, Epcs[n], pc_alignment_mask32(c), g.value)
        BY <3>2, <3>5, <3>6, <4>3, PutBack
      <4>4. CASE s.csrs = [c EXCEPT ![Stored32[n]] = g.value]
        <5>1. [c EXCEPT ![Stored32[n]] = c[Stored32[n]]] = c
          BY <3>6 DEF Regs
        <5> QED
          BY <3>2, <4>4, <5>1
      <4> QED
        BY <3>3, <4>1, <4>2, <4>3, <4>4
    <3> QED
      BY <3>7
  <2> QED
    BY <2>3, <2>5, <2>6, <2>7
<1> QED
  BY <1>3, <1>4, <1>5

LEMMA Views64Match ==
    /\ \A n \in DOMAIN Views64 : /\ n \in DOMAIN Written64
                                 /\ Written64[n][1] = Views64[n][1]
                                 /\ Masks64[Written64[n][2]] \subseteq Masks64[Views64[n][2]]
    /\ \A n \in DOMAIN Written64 \ DOMAIN Views64 : /\ n \in DOMAIN Stored64
                                                    /\ Written64[n][1] = Stored64[n]
    /\ \A n \in DOMAIN Epcs : n \in DOMAIN Stored64 /\ Epcs[n] = Stored64[n]
<1>1. \A n \in DOMAIN Views64 : /\ n \in DOMAIN Written64
                                /\ Written64[n][1] = Views64[n][1]
                                /\ Masks64[Written64[n][2]] \subseteq Masks64[Views64[n][2]]
  BY DEF Views64, Written64, Masks64
<1>2. \A n \in DOMAIN Written64 \ DOMAIN Views64 : /\ n \in DOMAIN Stored64
                                                   /\ Written64[n][1] = Stored64[n]
  BY DEF Views64, Written64, Stored64, PastPmpcfg, Counters64, Stored32, Joined
<1>3. \A n \in DOMAIN Epcs : n \in DOMAIN Stored64 /\ Epcs[n] = Stored64[n]
  BY DEF Epcs, Stored64, PastPmpcfg, Counters64, Stored32, Joined
<1> QED
  BY <1>1, <1>2, <1>3

LEMMA Restore64 ==
    ASSUME NEW c \in Regs, NEW k \in Clocks, NEW prv, NEW addr, NEW g, NEW s,
           g = get_csr_value64(c, k, prv, addr), g.ok, s = set_csr_value64(g.csrs, addr, g.value)
    PROVE  \A r \in Storage \ {"cycle", "time"} : s.csrs[r] = c[r]
<1> DEFINE n == Name64(addr)
           Same(d) == \A r \in Storage \ {"cycle", "time"} : d[r] = c[r]
           Clocked == {"TIME", "MTIME", "CYCLE", "MCYCLE"}
<1>1. g.csrs \in Regs /\ Same(g.csrs)
  BY Get64, CachedRegs
<1>2. ASSUME NEW r, NEW v, s.csrs = [g.csrs EXCEPT ![r] = v], r \in {"cycle", "time"} \/ v = c[r]
      PROVE  Same(s.csrs)
  BY <1>1, <1>2 DEF Regs
<1> HIDE DEF n
<1>3. CASE s.csrs = g.csrs
  BY <1>1, <1>3
<1>4. CASE n \in Clocked /\ s.csrs # g.csrs
  <2>1. n \notin DOMAIN Written64 \cup DOMAIN Epcs \cup DOMAIN Views64 \cup {"SATP", "FFLAGS", "FRM"}
    BY <1>4 DEF Written64, Epcs, Views64
  <2>2. s.csrs = [g.csrs EXCEPT ![Stored64[n]] = g.value]
    BY <1>4, <2>1 DEF set_csr_value64, Gives, IllegalAccess, is_valid_csr64_addr, default_write64, n
  <2>3. Stored64[n] \in {"cycle", "time"}
    BY <1>4 DEF Stored64, PastPmpcfg, Counters64, Stored32, Joined
  <2> QED
    BY <1>2, <2>2, <2>3
<1>5. CASE n \notin Clocked /\ s.csrs # g.csrs
  <2>2. addr \notin HpmCounters64 /\ n # "MISA"
    BY <1>5 DEF set_csr_value64, Gives, n
  <2>3. \/ n \in DOMAIN Views64 /\ g = Gives(c, ReadBits(c[Views64[n][1]], Masks64[Views64[n][2]]))
        \/ n = "FFLAGS" /\ g = Gives(c, {b \in 0 .. 4 : b \in c["fcsr"]})
        \/ n = "FRM" /\ g = Gives(c, {b \in 0 .. 2 : b + 5 \in c["fcsr"]})
        \/ n \in DOMAIN Stored64 \ DOMAIN Views64 /\ g = Gives(c, c[Stored64[n]])
    BY <1>5, <2>2
    DEF get_csr_value64, IllegalAccess, is_valid_csr64_addr, default_read64, n
  <2>4. g.csrs = c
    BY <2>3 DEF Gives
  <2>5. CASE n \in DOMAIN Views64
    <3>1. n \notin {"FFLAGS", "FRM", "SATP"}
      BY <2>5 DEF Views64
    <3>2. g.value = c[Views64[n][1]] \cap Masks64[Views64[n][2]]
      BY <2>3, <2>5, <3>1 DEF Gives, ReadBits
    <3>3. s.csrs = Put(c, Written64[n][1], Masks64[Written64[n][2]], g.value)
      BY <2>2, <2>4, <2>5, <3>1, Views64Match DEF set_csr_value64, Gives, Put, n
    <3>4. /\ g.value = c[Written64[n][1]] \cap Masks64[Views64[n][2]]
          /\ Masks64[Written64[n][2]] \subseteq Masks64[Views64[n][2]]
      BY <2>5, <3>2, Views64Match
    <3>5. WriteBits(c[Written64[n][1]], Masks64[Written64[n][2]], g.value) = c[Written64[n][1]]
      BY <3>4 DEF WriteBits
    <3> QED
      BY <1>2, <2>4, <3>3, <3>5 DEF Put
  <2>6. CASE n \in {"FFLAGS", "FRM"}
    <3>1. n \notin DOMAIN Views64 \cup DOMAIN Stored64 \cup DOMAIN Written64 \cup DOMAIN Epcs
      BY <2>6 DEF Views64, Stored64, PastPmpcfg, Counters64, Stored32, Joined, Written64, Epcs
    <3>2. c["fcsr"] \in SUBSET All64
      BY StorageIs DEF Regs
    <3>3. CASE n = "FFLAGS"
      <4>1. g.value = {b \in 0 .. 4 : b \in c["fcsr"]}
        BY <2>3, <3>1, <3>3 DEF Gives
      <4>2. s.csrs = Put(c, "fcsr", 0 .. 4, g.value)
        BY <2>2, <2>4, <3>1, <3>3 DEF set_csr_value64, Gives, Put, n
      <4>3. WriteBits(c["fcsr"], 0 .. 4, g.value) = c["fcsr"]
        BY <3>2, <4>1, RoundingBack
      <4> QED
        BY <1>2, <2>4, <4>2, <4>3 DEF Put
    <3>4. CASE n = "FRM"
      <4>1. g.value = {b \in 0 .. 2 : b + 5 \in c["fcsr"]}
        BY <2>3, <3>1, <3>4 DEF Gives
      <4>2. s.csrs = Put(c, "fcsr", 5 .. 7, {b + 5 : b \in g.value})
        BY <2>2, <2>4, <3>1, <3>4 DEF set_csr_value64, Gives, Put, n
      <4>3. WriteBits(c["fcsr"], 5 .. 7, {b + 5 : b \in g.value}) = c["fcsr"]
        BY <3>2, <4>1, RoundingBack
      <4> QED
        BY <1>2, <2>4, <4>2, <4>3 DEF Put
    <3> QED
      BY <2>6, <3>3, <3>4
  <2>7. CASE n \in DOMAIN Stored64 \ DOMAIN Views64
    <3>1. n \notin {"FFLAGS", "FRM"}
      BY <2>7 DEF Stored64, PastPmpcfg, Counters64, Stored32, Joined
    <3>2. g.value = c[Stored64[n]]
      BY <2>3, <2>7, <3>1 DEF Gives
    <3>3. \/ n = "SATP" /\ s.csrs = [c EXCEPT !["satp"] = WriteSatp(c["satp"], g.value)]
          \/ n \in DOMAIN Written64
                /\ s.csrs = Put(c, Written64[n][1], Masks64[Written64[n][2]], g.value)
          \/ n \in DOMAIN Epcs /\ s.csrs = Put(c, Epcs[n], pc_alignment_mask64(c), g.value)
          \/ s.csrs = [c EXCEPT ![Stored64[n]] = g.value]
      BY <1>5, <2>2, <2>4, <2>7, <3>1
      DEF set_csr_value64, Gives, IllegalAccess, Put, is_valid_csr64_addr, default_write64, n
    <3>4. n = "SATP" => Stored64[n] = "satp"
      BY DEF Stored64, PastPmpcfg, Counters64, Stored32, Joined
    <3>5. /\ n \in DOMAIN Written64 => Written64[n][1] = Stored64[n]
          /\ n \in DOMAIN Epcs => Epcs[n] = Stored64[n]
      BY <2>7, Views64Match
    <3>6. Stored64[n] \in Storage
      BY <2>7, Stored64Is, StorageIs DEF Storage
    <3>7. s.csrs = c
      <4>1. CASE n = "SATP" /\ s.csrs = [c EXCEPT !["satp"] = WriteSatp(c["satp"], g.value)]
        <5>1. WriteSatp(c["satp"], c["satp"]) = c["satp"]
          BY DEF WriteSatp, WriteBits, SatpMode
        <5>2. [c EXCEPT !["satp"] = c["satp"]] = c
          BY StorageIs DEF Regs
        <5> QED
          BY <3>2, <3>4, <4>1, <5>1, <5>2
      <4>2. CASE /\ n \in DOMAIN Written64
                 /\ s.csrs = Put(c, Written64[n][1], Masks64[Written64[n][2]], g.value)
        BY <3>2, <3>5, <3>6, <4>2, PutBack
      <4>3. CASE n \in DOMAIN Epcs /\ s.csrs = Put(c, Epcs[n], pc_alignment_mask64(c), g.value)
        BY <3>2, <3>5, <3>6, <4>3, PutBack
      <4>4. CASE s.csrs = [c EXCEPT ![Stored64[n]] = g.value]
        <5>1. [c EXCEPT ![Stored64[n]] = c[Stored64[n]]] = c
          BY <3>6 DEF Regs
        <5> QED
          BY <3>2, <4>4, <5>1
      <4> QED
        BY <3>3, <4>1, <4>2, <4>3, <4>4
    <3> QED
      BY <3>7
  <2> QED
    BY <2>3, <2>5, <2>6, <2>7
<1> QED
  BY <1>3, <1>4, <1>5

(* The two instructions of Restored: the first only reads, the second      *)
(* reads and writes its operand.                                           *)
LEMMA SaveAndWrite ==
    ASSUME NEW addr, NEW x
    PROVE  /\ Reads(Save(addr)) /\ ~Writes(Save(addr)) /\ Save(addr).addr = addr
           /\ Save(addr).rd0 = FALSE
           /\ Reads(WriteTo(addr, x)) /\ Writes(WriteTo(addr, x)) /\ WriteTo(addr, x).addr = addr
  BY DEF Save, WriteTo, Reads, Writes, Swaps

LEMMA WriteCombines ==
    ASSUME NEW addr, NEW x, NEW old
    PROVE  Combined(WriteTo(addr, x), old) = x
  BY DEF WriteTo, Swaps, Combined

LEMMA Restored32 ==
    ASSUME NEW c \in Regs, NEW k \in Clocks, NEW prv, NEW addr, NEW saved, NEW o,
           saved = ExecCsr32(c, k, prv, Save(addr)), ~saved.trap,
           o = ExecCsr32(c, k, prv, WriteTo(addr, saved.rd))
    PROVE  \A r \in Storage \ {"cycle", "time"} : o.csrs[r] = c[r]
<1> DEFINE g == get_csr_value32(c, k, prv, addr)
           s == set_csr_value32(g.csrs, addr, g.value)
<1>1. g.ok /\ saved.rd = g.value
  BY SaveAndWrite DEF ExecCsr32, Outcome
<1>2. o.csrs = c \/ o.csrs = s.csrs
  <2> DEFINE i == WriteTo(addr, saved.rd)
  <2>0. \A old : Combined(i, old) = saved.rd
    BY WriteCombines, Zenon
  <2>1. Reads(i) /\ Writes(i) /\ i.addr = addr
    BY SaveAndWrite, Zenon
  <2>2. o = ExecCsr32(c, k, prv, i)
    OBVIOUS
  <2> HIDE DEF i, g
  <2>3. o = Outcome(TRUE, c)
        \/ o = [trap |-> ~s.ok, wrote |-> ~i.rd0, rd |-> IF i.rd0 THEN {} ELSE g.value,
                csrs |-> s.csrs]
    BY <1>1, <2>0, <2>1, <2>2, Zenon DEF ExecCsr32, g
  <2> HIDE DEF s
  <2> QED
    BY <2>3, OutcomeFields DEF Outcome
<1> QED
  BY <1>1, <1>2, Restore32

LEMMA Restored64 ==
    ASSUME NEW c \in Regs, NEW k \in Clocks, NEW prv, NEW addr, NEW saved, NEW o,
           saved = ExecCsr64(c, k, prv, Save(addr)), ~saved.trap,
           o = ExecCsr64(c, k, prv, WriteTo(addr, saved.rd))
    PROVE  \A r \in Storage \ {"cycle", "time"} : o.csrs[r] = c[r]
<1> DEFINE g == get_csr_value64(c, k, prv, addr)
           s == set_csr_value64(g.csrs, addr, g.value)
<1>1. g.ok /\ saved.rd = g.value
  BY SaveAndWrite DEF ExecCsr64, Outcome
<1>2. o.csrs = c \/ o.csrs = s.csrs
  <2> DEFINE i == WriteTo(addr, saved.rd)
  <2>0. \A old : Combined(i, old) = saved.rd
    BY WriteCombines, Zenon
  <2>1. Reads(i) /\ Writes(i) /\ i.addr = addr
    BY SaveAndWrite, Zenon
  <2>2. o = ExecCsr64(c, k, prv, i)
    OBVIOUS
  <2> HIDE DEF i, g
  <2>3. o = Outcome(TRUE, c)
        \/ o = [trap |-> ~s.ok, wrote |-> ~i.rd0, rd |-> IF i.rd0 THEN {} ELSE g.value,
                csrs |-> s.csrs]
    BY <1>1, <2>0, <2>1, <2>2, Zenon DEF ExecCsr64, g
  <2> HIDE DEF s
  <2> QED
    BY <2>3, OutcomeFields DEF Outcome
<1> QED
  BY <1>1, <1>2, Restore64

(* Saving a CSR and writing the value back changes no register but the     *)
(* cached counters, at every address, in both cores: get_csr_value reads   *)
(* at least the bits that set_csr_value writes.                            *)
THEOREM RestoreIsIdentityTheorem == Spec => []RestoreIsIdentity
<1>1. RegsInv => RestoreIsIdentity
  <2> SUFFICES ASSUME RegsInv, NEW addr \in use.addrs, NEW r \in Storage \ {"cycle", "time"}
               PROVE  Restored(addr)[r] = csrs[r]
    BY DEF RestoreIsIdentity
  <2>1. csrs \in Regs /\ clk \in Clocks
    BY DEF RegsInv, RegsOK
  <2>2. CASE arch = "RV32"
    <3> DEFINE saved == ExecCsr32(csrs, clk, Machine, Save(addr))
    <3>1. Restored(addr) = IF saved.trap THEN csrs
                           ELSE ExecCsr32(csrs, clk, Machine, WriteTo(addr, saved.rd)).csrs
      BY <2>2 DEF Restored
    <3> HIDE DEF saved
    <3> QED
      BY <2>1, <3>1, Restored32 DEF saved
  <2>3. CASE arch # "RV32"
    <3> DEFINE saved == ExecCsr64(csrs, clk, Machine, Save(addr))
    <3>1. Restored(addr) = IF saved.trap THEN csrs
                           ELSE ExecCsr64(csrs, clk, Machine, WriteTo(addr, saved.rd)).csrs
      BY <2>3 DEF Restored
    <3> HIDE DEF saved
    <3> QED
      BY <2>1, <3>1, Restored64 DEF saved
  <2> QED
    BY <2>2, <2>3
<1> QED
  BY <1>1, RegsInvariance, PTL

-----------------------------------------------------------------------------
(* The walk. A recursive function is the one its equation describes, once  *)
(* there is one: here the levels are built from the lowest upwards.        *)
WalkIs(vpn, type, mode, w) ==
    w = [n \in 0 .. VmLevels |-> [base \in Nat |-> WalkLevel(vpn, type, mode, n, base, w[n - 1])]]

Walks == \A vpn, type, mode : WalkIs(vpn, type, mode, WalkFrom(vpn, type, mode))

LEMMA WalkExists == Walks
<1> SUFFICES ASSUME NEW vpn, NEW type, NEW mode
             PROVE  WalkIs(vpn, type, mode, WalkFrom(vpn, type, mode))
  BY DEF Walks
<1> DEFINE Level(n, next) == [base \in Nat |-> WalkLevel(vpn, type, mode, n, base, next)]
           l0 == Level(0, Fault)
           l1 == Level(1, l0)
           l2 == Level(2, l1)
           l3 == Level(3, l2)
           l4 == Level(4, l3)
           w == [n \in 0 .. VmLevels |-> IF n = 0 THEN l0 ELSE IF n = 1 THEN l1
                                         ELSE IF n = 2 THEN l2 ELSE IF n = 3 THEN l3 ELSE l4]
<1>1. VmLevels \in {2, 3, 4}
  BY DEF VmLevels
<1>2. \A next : Level(0, next) = l0
  BY DEF WalkLevel
<1>3. \A n \in 0 .. VmLevels : w[n] = Level(n, w[n - 1])
  <2> HIDE DEF Level
  <2>1. \A n \in 0 .. VmLevels : n \in {0, 1, 2, 3, 4}
    BY <1>1
  <2>2. w[0] = l0 /\ w[1] = l1 /\ w[2] = l2
    BY <1>1
  <2>3. 3 \in 0 .. VmLevels => w[3] = l3
    OBVIOUS
  <2>4. 4 \in 0 .. VmLevels => w[4] = l4 /\ w[3] = l3
    BY <1>1
  <2> HIDE DEF w
  <2> QED
    BY <1>2, <2>1, <2>2, <2>3, <2>4
<1>4. WalkIs(vpn, type, mode, w)
  BY <1>3 DEF WalkIs
<1> HIDE DEF w
<1>5. WalkFrom(vpn, type, mode) = CHOOSE f : WalkIs(vpn, type, mode, f)
  BY DEF WalkFrom, WalkIs
<1> QED
  BY <1>4, <1>5

PtOK == pt \in [DOMAIN pt -> Entries]

(* A walk that succeeds says where the entry is that it used, and which of *)
(* its flags are missing there.                                            *)
Finds(type, w) == w.ok => w.at \in DOMAIN pt /\ w.ad = NeededFlags(type) \ pt[w.at].flags

LEMMA LevelFinds ==
    ASSUME PtOK, NEW vpn, NEW type, NEW mode, NEW n, NEW base \in Nat, NEW next,
           \A b \in Nat : Finds(type, next[b])
    PROVE  Finds(type, WalkLevel(vpn, type, mode, n, base, next))
<1> DEFINE at == <<base, (vpn \div 2^(n - 1)) % 2>>
           x == WalkLevel(vpn, type, mode, n, base, next)
<1>1. at \in DOMAIN pt => pt[at].ppn \in Nat
  BY DEF PtOK, Entries
<1>2. \/ x = Fault
      \/ at \in DOMAIN pt /\ x = next[pt[at].ppn]
      \/ at \in DOMAIN pt /\ x = [ok |-> TRUE, ppn |-> pt[at].ppn + (vpn % 2^(n - 1)), at |-> at,
                                  ad |-> NeededFlags(type) \ pt[at].flags]
  BY DEF WalkLevel
<1> SUFFICES Finds(type, x)
  OBVIOUS
<1> HIDE DEF x, at
<1>3. CASE x = Fault
  BY <1>3 DEF Fault, Finds
<1>4. CASE at \in DOMAIN pt /\ x = next[pt[at].ppn]
  BY <1>1, <1>4
<1>5. CASE at \in DOMAIN pt /\ x = [ok |-> TRUE, ppn |-> pt[at].ppn + (vpn % 2^(n - 1)), at |-> at,
                                    ad |-> NeededFlags(type) \ pt[at].flags]
  BY <1>5 DEF Finds
<1> QED
  BY <1>2, <1>3, <1>4, <1>5

WalksFind == PtOK => \A vpn, type, mode : Finds(type, walk(vpn, type, mode))

LEMMA WalkFinds == WalksFind
<1> SUFFICES ASSUME PtOK, NEW vpn, NEW type, NEW mode PROVE Finds(type, walk(vpn, type, mode))
  BY DEF WalksFind
<1> DEFINE w == WalkFrom(vpn, type, mode)
           Good(n) == n \in 0 .. VmLevels => \A b \in Nat : Finds(type, w[n][b])
<1>1. \A n \in 0 .. VmLevels, b \in Nat : w[n][b] = WalkLevel(vpn, type, mode, n, b, w[n - 1])
  <2>1. WalkIs(vpn, type, mode, w)
    BY WalkExists DEF Walks
  <2> HIDE DEF w
  <2>2. \A n \in 0 .. VmLevels :
            w[n] = [base \in Nat |-> WalkLevel(vpn, type, mode, n, base, w[n - 1])]
    BY <2>1 DEF WalkIs
  <2> QED
    BY <2>2
<1>2. VmLevels \in {2, 3, 4} /\ Root \in Nat
  BY DEF VmLevels, Root
<1> HIDE DEF w
<1>3. Good(0)
  <2>1. \A b \in Nat : \A next : WalkLevel(vpn, type, mode, 0, b, next) = Fault
    BY DEF WalkLevel
  <2>2. 0 \in 0 .. VmLevels
    BY <1>2
  <2>3. \A b \in Nat : w[0][b] = Fault
    BY <1>1, <2>1, <2>2
  <2> QED
    BY <2>3 DEF Finds, Fault
<1>4. ASSUME NEW n \in 0 .. 3, Good(n) PROVE Good(n + 1)
  <2> SUFFICES ASSUME n + 1 \in 0 .. VmLevels, NEW b \in Nat PROVE Finds(type, w[n + 1][b])
    OBVIOUS
  <2>1. n \in 0 .. VmLevels /\ n + 1 - 1 = n
    BY <1>2
  <2>2. w[n + 1][b] = WalkLevel(vpn, type, mode, n + 1, b, w[n])
    BY <1>1, <2>1
  <2>3. \A a \in Nat : Finds(type, w[n][a])
    BY <1>4, <2>1
  <2> QED
    BY <2>2, <2>3, LevelFinds
<1>5. Good(1) /\ Good(2) /\ Good(3) /\ Good(4)
  <2> HIDE DEF Good
  <2>1. Good(0 + 1)
    BY <1>3, <1>4
  <2>2. Good(1 + 1)
    BY <1>4, <2>1
  <2>3. Good(2 + 1)
    BY <1>4, <2>2
  <2>4. Good(3 + 1)
    BY <1>4, <2>3
  <2> QED
    BY <2>1, <2>2, <2>3, <2>4
<1>6. Finds(type, w[VmLevels][Root])
  BY <1>2, <1>5
<1> QED
  BY <1>6 DEF walk, w, Finds, Fault

(* What a walk does not see: that the flag A or D of an entry is set. *)
SameTables ==
    /\ arch' = arch
    /\ csrs'["satp"] = csrs["satp"]
    /\ csrs'["mstatus"] \cap {18, 19} = csrs["mstatus"] \cap {18, 19}
    /\ DOMAIN pt' = DOMAIN pt
    /\ \A at \in DOMAIN pt : /\ pt'[at].ppn = pt[at].ppn
                             /\ pt[at].flags \subseteq pt'[at].flags
                             /\ pt'[at].flags \subseteq pt[at].flags \cup {"A", "D"}

Similar(x, y) == (x.ok <=> y.ok) /\ x.ppn = y.ppn /\ x.at = y.at

LEMMA LevelSame ==
    ASSUME PtOK, SameTables, NEW vpn, NEW type, NEW mode, NEW n, NEW base \in Nat, NEW f, NEW g,
           \A b \in Nat : Similar(f[b], g[b])
    PROVE  Similar(WalkLevel(vpn, type, mode, n, base, f), WalkLevel(vpn, type, mode, n, base, g)')
<1> DEFINE at == <<base, (vpn \div 2^(n - 1)) % 2>>
           x == WalkLevel(vpn, type, mode, n, base, f)
           y == WalkLevel(vpn, type, mode, n, base, g)'
           bad == \/ n = 0
                  \/ at \notin DOMAIN pt
                  \/ "V" \notin pt[at].flags
                  \/ "R" \notin pt[at].flags /\ "W" \in pt[at].flags
           inner == {"R", "X"} \cap pt[at].flags = {}
           leaf == /\ AllowsType(pt[at], type)
                   /\ AllowsMode(pt[at], type, mode)
                   /\ pt[at].ppn % 2^(n - 1) = 0
           page == pt[at].ppn + (vpn % 2^(n - 1))
<1>1. at \in DOMAIN pt => /\ pt'[at].ppn = pt[at].ppn
                          /\ \A l \in {"V", "R", "W", "X", "U"} :
                                l \in pt'[at].flags <=> l \in pt[at].flags
  BY DEF SameTables
<1>2. at \in DOMAIN pt' <=> at \in DOMAIN pt
  BY DEF SameTables
<1>3. x = IF bad THEN Fault ELSE IF inner THEN f[pt[at].ppn] ELSE IF leaf
          THEN [ok |-> TRUE, ppn |-> page, at |-> at, ad |-> NeededFlags(type) \ pt[at].flags]
          ELSE Fault
  BY DEF WalkLevel
<1>4. y = IF bad' THEN Fault ELSE IF inner' THEN g[pt'[at].ppn] ELSE IF leaf'
          THEN [ok |-> TRUE, ppn |-> page', at |-> at, ad |-> NeededFlags(type) \ pt'[at].flags]
          ELSE Fault
  BY DEF WalkLevel, NeededFlags, Fault
<1>5. (bad <=> bad') /\ (~bad => (inner <=> inner') /\ page' = page /\ pt[at].ppn \in Nat)
  BY <1>1, <1>2 DEF PtOK, Entries
<1>6. ~bad => (leaf <=> leaf')
  <2> SUFFICES ASSUME ~bad PROVE leaf <=> leaf'
    OBVIOUS
  <2>1. at \in DOMAIN pt
    OBVIOUS
  <2>2. (18 \in csrs'["mstatus"] <=> 18 \in csrs["mstatus"])
        /\ (19 \in csrs'["mstatus"] <=> 19 \in csrs["mstatus"])
    BY DEF SameTables
  <2> HIDE DEF at
  <2>3. AllowsType(pt[at], type) <=> AllowsType(pt[at], type)'
    BY <1>1, <2>1, <2>2 DEF AllowsType
  <2>4. AllowsMode(pt[at], type, mode) <=> AllowsMode(pt[at], type, mode)'
    BY <1>1, <2>1, <2>2 DEF AllowsMode
  <2> QED
    BY <1>1, <2>1, <2>3, <2>4
<1>7. ~bad => pt'[at].ppn = pt[at].ppn
  BY <1>1
<1> SUFFICES Similar(x, y)
  OBVIOUS
<1> HIDE DEF x, y, bad, inner, leaf, page, at
<1>8. CASE bad
  BY <1>3, <1>4, <1>5, <1>8 DEF Similar
<1>9. CASE ~bad /\ inner
  BY <1>3, <1>4, <1>5, <1>7, <1>9
<1>10. CASE ~bad /\ ~inner /\ leaf
  <2>1. /\ x = [ok |-> TRUE, ppn |-> page, at |-> at, ad |-> NeededFlags(type) \ pt[at].flags]
        /\ y = [ok |-> TRUE, ppn |-> page, at |-> at, ad |-> NeededFlags(type) \ pt'[at].flags]
    BY <1>3, <1>4, <1>5, <1>6, <1>10
  <2> QED
    BY <2>1 DEF Similar
<1>11. CASE ~bad /\ ~inner /\ ~leaf
  BY <1>3, <1>4, <1>5, <1>6, <1>11 DEF Similar
<1> QED
  BY <1>8, <1>9, <1>10, <1>11

LEMMA WalkSame ==
    ASSUME PtOK, SameTables, NEW vpn, NEW type, NEW mode
    PROVE  Similar(walk(vpn, type, mode), walk(vpn, type, mode)')
<1> DEFINE w == WalkFrom(vpn, type, mode)
           v == WalkFrom(vpn, type, mode)'
           Good(n) == n \in 0 .. VmLevels => \A b \in Nat : Similar(w[n][b], v[n][b])
<1>1. VmLevels \in {2, 3, 4} /\ Root \in Nat
  BY DEF VmLevels, Root
<1>2. /\ VmLevels' = VmLevels /\ Root' = Root
      /\ check_vaddr_extension(vpn)' <=> check_vaddr_extension(vpn)
  BY DEF SameTables, VmLevels, Root, check_vaddr_extension, VpnBits
<1>3. \A n \in 0 .. VmLevels : \A b \in Nat :
          w[n][b] = WalkLevel(vpn, type, mode, n, b, w[n - 1])
  <2>1. WalkIs(vpn, type, mode, w)
    BY WalkExists DEF Walks
  <2> HIDE DEF w
  <2>2. \A n \in 0 .. VmLevels :
            w[n] = [base \in Nat |-> WalkLevel(vpn, type, mode, n, base, w[n - 1])]
    BY <2>1 DEF WalkIs
  <2> QED
    BY <2>2
<1>4. ASSUME NEW n \in 0 .. VmLevels, NEW b \in Nat, NEW next, next = v[n - 1]
      PROVE  v[n][b] = WalkLevel(vpn, type, mode, n, b, next)'
  <2>1. Walks'
    BY WalkExists, PTL
  <2>2. WalkIs(vpn, type, mode, WalkFrom(vpn, type, mode))'
    BY <2>1 DEF Walks
  <2>3. v = [k \in 0 .. VmLevels |-> [base \in Nat |->
                WalkLevel(vpn, type, mode, k, base, WalkFrom(vpn, type, mode)[k - 1])']]
    BY <1>2, <2>2 DEF WalkIs
  <2>4. v[n] = [base \in Nat |->
                WalkLevel(vpn, type, mode, n, base, WalkFrom(vpn, type, mode)[n - 1])']
    BY <2>3
  <2>5. v[n][b] = WalkLevel(vpn, type, mode, n, b, WalkFrom(vpn, type, mode)[n - 1])'
    BY <2>4
  <2> QED
    BY <1>4, <2>5
<1> HIDE DEF w, v
<1>5. Good(0)
  <2>1. 0 \in 0 .. VmLevels
    BY <1>1
  <2>2. \A b \in Nat : w[0][b] = Fault
    BY <1>3, <2>1 DEF WalkLevel
  <2>3. \A b \in Nat : v[0][b] = Fault
    BY <1>4, <2>1 DEF WalkLevel
  <2> QED
    BY <2>2, <2>3 DEF Similar
<1>6. ASSUME NEW n \in 0 .. 3, Good(n) PROVE Good(n + 1)
  <2> SUFFICES ASSUME n + 1 \in 0 .. VmLevels, NEW b \in Nat PROVE Similar(w[n + 1][b], v[n + 1][b])
    OBVIOUS
  <2>1. n \in 0 .. VmLevels /\ n + 1 - 1 = n
    BY <1>1
  <2>2. w[n + 1][b] = WalkLevel(vpn, type, mode, n + 1, b, w[n])
    BY <1>3, <2>1
  <2>3. PICK f, g : f = w[n] /\ g = v[n]
    OBVIOUS
  <2>4. v[n + 1][b] = WalkLevel(vpn, type, mode, n + 1, b, g)'
    BY <1>4, <2>1, <2>3
  <2>5. \A a \in Nat : Similar(f[a], g[a])
    BY <1>6, <2>1, <2>3
  <2>6. Similar(WalkLevel(vpn, type, mode, n + 1, b, f), WalkLevel(vpn, type, mode, n + 1, b, g)')
    BY <2>5, LevelSame
  <2> QED
    BY <2>2, <2>3, <2>4, <2>6
<1>7. Good(1) /\ Good(2) /\ Good(3) /\ Good(4)
  <2> HIDE DEF Good
  <2>1. Good(0 + 1)
    BY <1>5, <1>6
  <2>2. Good(1 + 1)
    BY <1>6, <2>1
  <2>3. Good(2 + 1)
    BY <1>6, <2>2
  <2>4. Good(3 + 1)
    BY <1>6, <2>3
  <2> QED
    BY <2>1, <2>2, <2>3, <2>4
<1>8. Similar(w[VmLevels][Root], v[VmLevels][Root])
  BY <1>1, <1>7
<1>9. walk(vpn, type, mode) = IF check_vaddr_extension(vpn) THEN w[VmLevels][Root] ELSE Fault
  BY DEF walk, w
<1>10. walk(vpn, type, mode)' = IF check_vaddr_extension(vpn) THEN v[VmLevels][Root] ELSE Fault
  BY <1>2 DEF walk, v, Fault
<1> QED
  BY <1>8, <1>9, <1>10 DEF Similar

-----------------------------------------------------------------------------
(* The TLB: while nothing is stale, an entry is what a walk gives, in      *)
(* which no flag is missing.                                               *)
TlbInv == PtOK /\ TlbCoherent

Holds(vpn, ppn, type, mode) ==
    LET w == walk(vpn, type, mode) IN w.ok /\ w.ppn = ppn /\ w.ad = {}

LEMMA CoherentIs ==
    TlbCoherent <=> (~stale => \A s \in DOMAIN tlb :
        tlb[s] # NoEntry => Holds(tlb[s].vpn, tlb[s].ppn, s[2], s[1]))
  BY DEF TlbCoherent, Holds

LEMMA HoldsKept ==
    ASSUME PtOK, PtOK', SameTables, NEW vpn, NEW ppn, NEW type, NEW mode,
           Holds(vpn, ppn, type, mode)
    PROVE  Holds(vpn, ppn, type, mode)'
<1> DEFINE w == walk(vpn, type, mode)
           v == walk(vpn, type, mode)'
<1>1. w.ok /\ w.ppn = ppn /\ w.ad = {}
  BY DEF Holds
<1>2. (w.ok <=> v.ok) /\ w.ppn = v.ppn /\ w.at = v.at
  BY WalkSame DEF Similar
<1>3. w.at \in DOMAIN pt /\ w.ad = NeededFlags(type) \ pt[w.at].flags
  BY <1>1, WalkFinds DEF WalksFind, Finds
<1>4. v.ok => v.ad = NeededFlags(type) \ pt'[v.at].flags
  <2>1. WalksFind'
    BY WalkFinds, PTL
  <2> QED
    BY <2>1 DEF WalksFind, Finds, NeededFlags
<1>5. pt[w.at].flags \subseteq pt'[w.at].flags
  BY <1>3 DEF SameTables
<1>6. v.ok /\ v.ppn = ppn /\ v.ad = {}
  <2> HIDE DEF w, v
  <2> QED
    BY <1>1, <1>2, <1>3, <1>4, <1>5
<1> QED
  BY <1>6 DEF Holds

(* A step that leaves the TLB and everything a walk sees alone.            *)
LEMMA CoherentKept ==
    ASSUME TlbInv, SameTables, PtOK', tlb' = tlb, stale' = stale
    PROVE  TlbInv'
<1> SUFFICES ASSUME ~stale, NEW s \in DOMAIN tlb, tlb[s] # NoEntry
             PROVE  Holds(tlb[s].vpn, tlb[s].ppn, s[2], s[1])'
  BY DEF TlbInv, TlbCoherent, Holds, NoEntry
<1>1. Holds(tlb[s].vpn, tlb[s].ppn, s[2], s[1])
  BY CoherentIs DEF TlbInv
<1>2. PICK vpn, ppn : vpn = tlb[s].vpn /\ ppn = tlb[s].ppn
  OBVIOUS
<1>3. Holds(vpn, ppn, s[2], s[1])'
  BY <1>1, <1>2, HoldsKept DEF TlbInv
<1> QED
  BY <1>2, <1>3

(* A step that marks the TLB as stale unless it is empty. *)
LEMMA CoherentStale ==
    ASSUME PtOK', OutdatesTlb, tlb' = tlb
    PROVE  TlbInv'
<1>1. stale' \/ \A s \in DOMAIN tlb : tlb[s] = NoEntry
  BY DEF OutdatesTlb, flush_tlb
<1> QED
  BY <1>1 DEF TlbInv, TlbCoherent, NoEntry

(* A walk that fills an entry: it sets the flags that it misses, and so is *)
(* what a walk gives from now on, as are the entries there were.           *)
LEMMA WalkKeepsTlb ==
    ASSUME TlbInv, TranslateWalk
    PROVE  TlbInv'
<1> USE DEF TlbInv
<1>1. PICK prv \in Levels, type \in AccessTypes, vpn \in Vpns[arch] :
          LET mode == EffectiveMode(prv, type)
              w == walk(vpn, type, mode)
          IN /\ Translates
             /\ \/ /\ w.ok
                   /\ pt' = [pt EXCEPT ![w.at].flags = @ \cup w.ad]
                   /\ tlb' = [tlb EXCEPT ![TlbSlot(mode, type, vpn)] = [vpn |-> vpn, ppn |-> w.ppn]]
                \/ UNCHANGED <<pt, tlb>>
  BY DEF TranslateWalk
<1> DEFINE mode == EffectiveMode(prv, type)
           w == walk(vpn, type, mode)
           slot == TlbSlot(mode, type, vpn)
<1>2. UNCHANGED <<arch, csrs, stale>>
  BY <1>1 DEF Translates
<1>3. CASE UNCHANGED <<pt, tlb>>
  <2>1. SameTables /\ PtOK'
    BY <1>2, <1>3 DEF SameTables, PtOK
  <2> QED
    BY <1>2, <1>3, <2>1, CoherentKept
<1>4. CASE /\ w.ok
           /\ pt' = [pt EXCEPT ![w.at].flags = @ \cup w.ad]
           /\ tlb' = [tlb EXCEPT ![slot] = [vpn |-> vpn, ppn |-> w.ppn]]
  <2>1. w.at \in DOMAIN pt /\ w.ad = NeededFlags(type) \ pt[w.at].flags
    BY <1>4, WalkFinds DEF WalksFind, Finds
  <2>2. NeededFlags(type) \subseteq {"A", "D"}
    BY DEF NeededFlags
  <2>3. PICK at, ad, ppn, m : at = w.at /\ ad = w.ad /\ ppn = w.ppn /\ m = mode
    OBVIOUS
  <2>4. /\ at \in DOMAIN pt /\ ad = NeededFlags(type) \ pt[at].flags
        /\ pt' = [pt EXCEPT ![at].flags = @ \cup ad]
        /\ tlb' = [tlb EXCEPT ![slot] = [vpn |-> vpn, ppn |-> ppn]]
    BY <1>4, <2>1, <2>3
  <2>5. /\ DOMAIN pt' = DOMAIN pt
        /\ \A a \in DOMAIN pt : /\ pt'[a].ppn = pt[a].ppn
                                /\ pt'[a].flags = IF a = at THEN pt[a].flags \cup ad
                                                  ELSE pt[a].flags
                                /\ pt'[a] \in Entries
    BY <2>2, <2>4 DEF PtOK, Entries
  <2>6. SameTables /\ PtOK'
    <3>1. SameTables
      BY <1>2, <2>2, <2>4, <2>5 DEF SameTables
    <3>2. pt' = [a \in DOMAIN pt |-> pt'[a]]
      BY <2>4
    <3> QED
      BY <2>5, <3>1, <3>2 DEF PtOK
  <2>7. Holds(vpn, ppn, type, m)'
    <3>1. Similar(walk(vpn, type, m), walk(vpn, type, m)')
      BY <2>6, WalkSame
    <3>2. walk(vpn, type, m).ok /\ walk(vpn, type, m).at = at /\ walk(vpn, type, m).ppn = ppn
      BY <1>4, <2>3
    <3> DEFINE v == walk(vpn, type, m)'
    <3>3. v.ok /\ v.at = at /\ v.ppn = ppn
      BY <3>1, <3>2 DEF Similar
    <3>4. v.ad = NeededFlags(type) \ pt'[at].flags
      <4>1. WalksFind'
        BY WalkFinds, PTL
      <4> QED
        BY <2>6, <3>3, <4>1 DEF WalksFind, Finds, NeededFlags
    <3>5. v.ad = {}
      <4>1. pt'[at].flags = pt[at].flags \cup (NeededFlags(type) \ pt[at].flags)
        BY <2>4, <2>5
      <4> HIDE DEF v
      <4> QED
        BY <3>4, <4>1
    <3> QED
      BY <3>3, <3>5 DEF Holds
  <2>8. ASSUME ~stale, NEW s \in DOMAIN tlb, tlb'[s] # NoEntry
        PROVE  Holds(tlb[s].vpn, tlb[s].ppn, s[2], s[1])'
    <3>1. CASE s = slot
      <4>1. tlb'[s].vpn = vpn /\ tlb'[s].ppn = ppn
        BY <2>4, <3>1
      <4>2. s[1] = m /\ s[2] = type
        BY <2>3, <3>1 DEF TlbSlot
      <4> QED
        BY <2>7, <4>1, <4>2
    <3>2. CASE s # slot
      <4>1. tlb'[s] = tlb[s]
        BY <2>4, <3>2
      <4>2. Holds(tlb[s].vpn, tlb[s].ppn, s[2], s[1])
        BY <2>8, <4>1, CoherentIs
      <4>3. PICK vp, pp : vp = tlb[s].vpn /\ pp = tlb[s].ppn
        OBVIOUS
      <4>4. Holds(vp, pp, s[2], s[1])'
        BY <2>6, <4>2, <4>3, HoldsKept
      <4> QED
        BY <4>1, <4>3, <4>4
    <3> QED
      BY <3>1, <3>2
  <2>9. DOMAIN tlb' = DOMAIN tlb
    BY <2>4
  <2> QED
    BY <1>2, <2>6, <2>8, <2>9 DEF TlbCoherent, Holds, NoEntry
<1> QED
  BY <1>1, <1>3, <1>4

(* Every operation of the MMU. *)
LEMMA MmuKeepsTlb == ASSUME TlbInv, MmuNext PROVE TlbInv'
<1> USE DEF TlbInv
<1>1. CASE TranslateFast
  <2>1. UNCHANGED <<arch, csrs, stale, pt, tlb>>
    BY <1>1 DEF TranslateFast, Translates
  <2>2. SameTables /\ PtOK'
    BY <2>1 DEF SameTables, PtOK
  <2> QED
    BY <2>1, <2>2, CoherentKept
<1>2. CASE TranslateWalk
  BY <1>2, WalkKeepsTlb
<1>3. CASE SfenceVma
  <2>1. UNCHANGED <<arch, csrs, pt>> /\ (tlb' = flush_tlb \/ UNCHANGED <<tlb, stale>>)
    BY <1>3 DEF SfenceVma
  <2>2. SameTables /\ PtOK'
    BY <2>1 DEF SameTables, PtOK
  <2>3. CASE tlb' = flush_tlb
    BY <2>2, <2>3 DEF TlbCoherent, flush_tlb, NoEntry
  <2> QED
    BY <2>1, <2>2, <2>3, CoherentKept
<1>4. CASE StorePte
  <2>1. PICK at \in DOMAIN pt, pte \in Ptes : pt' = [pt EXCEPT ![at] = pte] /\ OutdatesTlb /\ tlb' = tlb
    BY <1>4 DEF StorePte
  <2>2. pte \in Entries
    BY TableAssumption
  <2>3. PtOK'
    BY <2>1, <2>2 DEF PtOK
  <2> QED
    BY <2>1, <2>3, CoherentStale
<1> QED
  BY <1>1, <1>2, <1>3, <1>4 DEF MmuNext

(* The CSR instructions that change satp, SUM or MXR outdate the TLB.      *)
LEMMA CsrKeepsTlb ==
    ASSUME RegsInv, TlbInv, CsrNext, MmuFollowsCsr
    PROVE  TlbInv'
<1> USE DEF TlbInv
<1>1. arch' = arch
  <2>1. ExecuteCsr => arch' = arch
    BY ExecutesCsr DEF RegsInv, Executes
  <2> QED
    BY <2>1 DEF CsrNext, DriveLine, Tick
<1>2. pt' = pt /\ tlb' = tlb /\ PtOK'
  BY DEF MmuFollowsCsr, PtOK
<1>3. CASE \/ csrs'["satp"] # csrs["satp"]
           \/ csrs'["mstatus"] \cap {18, 19} # csrs["mstatus"] \cap {18, 19}
  BY <1>2, <1>3, CoherentStale DEF MmuFollowsCsr
<1>4. CASE /\ csrs'["satp"] = csrs["satp"]
           /\ csrs'["mstatus"] \cap {18, 19} = csrs["mstatus"] \cap {18, 19}
  <2>1. SameTables /\ stale' = stale
    BY <1>1, <1>2, <1>4 DEF SameTables, MmuFollowsCsr
  <2> QED
    BY <1>2, <2>1, CoherentKept
<1> QED
  BY <1>3, <1>4

(* The floating point unit changes only FS and SD of mstatus.              *)
LEMMA FpuKeepsTlb ==
    ASSUME RegsInv, TlbInv, FpuNext, UNCHANGED mmuVars
    PROVE  TlbInv'
<1> USE DEF TlbInv
<1>1. arch' = arch
  BY FpuSteps DEF FpTraps, FpAccesses, FpExecutes, FpCompletes, FpMoves, Executed
<1>2. pt' = pt /\ tlb' = tlb /\ stale' = stale /\ PtOK'
  BY DEF mmuVars, PtOK
<1>3. csrs'["satp"] = csrs["satp"]
  BY FpuKeepsRegs, StorageIs
<1>4. csrs'["mstatus"] \cap {18, 19} = csrs["mstatus"] \cap {18, 19}
  BY FpuKeepsRegs DEF FS, SD
<1>5. SameTables
  BY <1>1, <1>2, <1>3, <1>4 DEF SameTables
<1> QED
  BY <1>2, <1>5, CoherentKept

(* While software changes neither satp, SUM, MXR nor the page table, each  *)
(* entry of the TLB is what a walk gives now, with A and D set: the walks  *)
(* of other pages, of other modes and of other types need no flush.        *)
THEOREM TlbCoherentTheorem == Spec => []TlbCoherent
<1>1. Init => TlbInv
  <2> SUFFICES ASSUME Init PROVE TlbInv
    OBVIOUS
  <2>1. PtOK
    BY TableAssumption DEF Init, CsrInit, MmuInit, PtOK
  <2> QED
    BY <2>1 DEF Init, MmuInit, TlbInv, TlbCoherent, flush_tlb
<1>2. RegsInv /\ TlbInv /\ [Next]_vars => TlbInv'
  <2> SUFFICES ASSUME RegsInv, TlbInv, [Next]_vars PROVE TlbInv'
    OBVIOUS
  <2>1. CASE UNCHANGED vars
    <3>1. UNCHANGED <<arch, csrs, pt, tlb, stale>>
      BY <2>1 DEF vars, csrVars, mmuVars
    <3>2. SameTables /\ PtOK'
      BY <3>1 DEF SameTables, TlbInv, PtOK
    <3> QED
      BY <3>1, <3>2, CoherentKept
  <2> QED
    BY <2>1, CsrKeepsTlb, FpuKeepsTlb, MmuKeepsTlb DEF Next
<1>3. TlbInv => TlbCoherent
  BY DEF TlbInv
<1> QED
  BY <1>1, <1>2, <1>3, RegsInvariance, PTL DEF Spec
=============================================================================

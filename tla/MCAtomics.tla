------------------------------ MODULE MCAtomics ------------------------------
(* Model checking of HartMemory for two platforms: one that has all that a   *)
(* platform can have, MMU, fetches over the bus (linux, linux32) and the DMA *)
(* engine (basic), with one word of memory in use, and one that has only     *)
(* harts and a debugger, with two words (tiny32-mc, tiny64-mc).              *)
EXTENDS MCHartMemory

VARIABLE platform       \* the word that the full platform uses, or NoAddr

Tiny == INSTANCE HartMemory WITH
            HasDma <- FALSE, HasMMU <- FALSE, FetchOnBus <- FALSE, MaxStops <- 1

(* The programs of the harts and of the DMA engine use only the word a.    *)
UsesOnly(a) ==
    /\ \A h \in Hart : "addr" \in DOMAIN op[h] => op[h].addr = a
    /\ {dma.src, dma.dst} \subseteq {a, NoAddr}

MCInit ==
    /\ Init
    /\ platform \in Addr \cup {NoAddr}
    /\ platform # NoAddr => \A a \in Addr \ {platform} : mem[a] = 0

MCNext ==
    /\ UNCHANGED platform
    /\ \/ platform # NoAddr /\ Next /\ UsesOnly(platform)'
       \/ platform = NoAddr /\ Tiny!Next

MCSpec == MCInit /\ [][MCNext]_<<vars, platform>>

(* The fairness of HartMemory: only the steps of a hart differ between the *)
(* platforms.                                                              *)
MCHartStep(h) ==
    \/ platform # NoAddr /\ HartStep(h)
    \/ platform = NoAddr /\ Tiny!HartStep(h)

MCFairSpec == MCSpec /\ KernelFairness /\ \A h \in Hart : WF_vars(MCHartStep(h))

(* Without an MMU the lock that the load half of an AMO took is still held *)
(* when the store half begins: the assertion of atomic_store_word.         *)
AmoKeepsLockWithoutMMU == platform = NoAddr => AmoKeepsLock
=============================================================================

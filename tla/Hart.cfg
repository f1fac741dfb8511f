SPECIFICATION MCSpec
CONSTANTS
    BYTE = 1
    Registers <- MCRegisters
    Jumps <- MCJumps
    Edges <- MCEdges
    Nothing = nothing
    Workloads <- MCWorkloads
    Ptes <- MCPtes
    Vpns <- MCVpns
    TLB_ENTRIES = 2
INVARIANTS
    DecodeMatchesEncoding
    ExpansionDecodesBack
    DecodedIsKnown
    NextPcEven
    ExactArithmetic
    WordOpsAgree
    RestoreIsIdentity
    ValuesAreLegal
    FlagsAccrue
    TlbCoherent
PROPERTIES
    LevelsAreSeparate
    TrapsArePrecise
    FsTracksChanges
CHECK_DEADLOCK FALSE

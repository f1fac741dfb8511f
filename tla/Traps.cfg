SPECIFICATION MCSpec
CONSTANTS
    c1 = c1
    c2 = c2
    Code <- OneLocation
    Tvec <- OneHandler
    Intr = {"mti", "sei"}
    Exceptions = {"e"}
    IntrDelegable <- SupervisorIntr
    ExcDelegable <- NoExc
    TrapModes = {1, 3}
    MppChoices = {0, 1}
    StatusWrites <- UniformStatus
    IgnoreWfi = FALSE
CHECK_DEADLOCK FALSE
INVARIANTS
    PromptDelivery
    ReturnRestores
    AssertOnlyInReservedMode
PROPERTIES
    OnlyReturnsLower
    WfiWakes

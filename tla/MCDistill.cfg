SPECIFICATION DistillSpec
CONSTANTS
    Byte = 2
    Bytes = 2
    Tau <- MCTau
    Whole = 2
    Settings <- MCSettings
    Rounds = {0, 1}
    MaxErrors = 1
    MaxDisclosed = 2
    MaxCalls = 1
    MaxFails = 1
INVARIANTS
    OneFinalKey
    DisclosedGone
PROPERTY
    OneEnd
CHECK_DEADLOCK FALSE

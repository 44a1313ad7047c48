SPECIFICATION Spec
CONSTANTS
    Calls = {"run", "start", "pause", "resume", "terminate", "disconnect"}
    Dispositions = {"kill", "ignore", "handle"}
    TerminateAfter = 2
    PipeCap = 1
    MaxKeys = 3
    MaxCalls = 4
INVARIANTS
    KeysKept
    WrittenInOrder
PROPERTIES
    LastKeyIsLast
    TerminateReturns
CHECK_DEADLOCK FALSE

SPECIFICATION Spec
CONSTANTS
    Callers = {"alice"}
    Listeners = {"bob"}
    SchemeNames = {"evhash", "null"}
    Nonces = {1, 2, 4}
    DuringHandshake = {}
    Conns = {1, 2}
    MaxCalls = 3
    MaxFaults = 1
INVARIANTS
    OneMaster
    
    NotForNothing
PROPERTIES
    LinkComesUp
CHECK_DEADLOCK FALSE

SPECIFICATION Spec
CONSTANTS
    Byte = 2
    Tables <- MCTables
    Lengths = {0, 1, 2}
    MaxKeys = 3
    MaxSets = 2
INVARIANTS
    
    EachBitOnce

    
CHECK_DEADLOCK FALSE

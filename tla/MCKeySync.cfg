SPECIFICATION Spec
CONSTANTS
    Keys = {1, 2, 3}
    MaxEarly = 1
    MaxRestarts = 1
INVARIANTS
    PickedOnce
    FinishedTogether
    InLockstep
PROPERTIES
    CommonKeysGetPicked
CHECK_DEADLOCK FALSE

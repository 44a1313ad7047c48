SPECIFICATION Spec
CONSTANTS
    Amount = 6
    Quantum = 2
    Material <- MCMaterial
    NoMaterial <- MCNoMaterial
    KeySizes = {3, 7}
    FinalKeySize = 1
    Thresholds = {2, 4}
    MaxKeys = 3
    MaxStores = 2
    MaxSettings = 1
    MaxFails = 1
INVARIANTS
    StoresMirrored
    OneUse
    TagsWillCome
CHECK_DEADLOCK FALSE

SPECIFICATION Spec
CONSTANTS
    StoreAmount = 7
    BufAmount = 6
    Ratio = 2
    Sated = 3
    MinKeys = 1
    SecretKeys = 2
    StoreKeys = {1, 2, 3, 4, 5, 6}
    MQKeys = 2
    MaxOffers = 3
    MaxAsks = 2
    MaxTimeouts = 0
    MaxFails = 0
    MaxConnects = 1
    MaxProduced = 1
INVARIANT
    RealMeansBothSides
CHECK_DEADLOCK FALSE

SPECIFICATION FairSpec
CONSTANTS
    StoreAmount = 7
    BufAmount = 6
    Ratio = 2
    Sated = 3
    MinKeys = 1
    SecretKeys = 2
    StoreKeys = {1, 2, 3, 4, 5, 6}
    MQKeys = 2
    MaxOffers = 2
    MaxAsks = 2
    MaxTimeouts = 1
    MaxFails = 1
    MaxConnects = 2
    MaxProduced = 1
INVARIANTS
    
    
    RealSlotsAgree
    OffersOwnWhatTheyList
    MasterHoldsKeysOnce
    SlaveHasWhatIsReal
PROPERTIES
    OffersAreAnswered
    
CHECK_DEADLOCK FALSE

SPECIFICATION Spec
CONSTANTS
    Amount = 3
    Quantum = 2
    Material = {m}
    NoMaterial = zero
    Sizes = {2, 4}
    Counts = {0, 16}
    Overrun = 1
    MaxReal = 2
    MaxInjected = 1
CONSTRAINT Bounds
PROPERTIES NoSlotHandedOutTwice ShortAnswerMeansExhausted InsertDisturbsNoKey ImplementsPool
CHECK_DEADLOCK FALSE

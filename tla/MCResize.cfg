SPECIFICATION ResizeSpec
CONSTANTS
    KeySizes = {1, 3, 5}
    Sizes = {0, 2, 4, 6}
    MaxInputs = 4
    MaxSettings = 2
INVARIANTS
    StreamKept
CHECK_DEADLOCK FALSE

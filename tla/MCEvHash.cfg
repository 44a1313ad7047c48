SPECIFICATION Spec
CONSTANTS
    Bits = 8
    WordBits = 4
    Modulus <- MCModulus
    PrecalcBits = 1
    MaxPow = 2
    Contexts = {c1, c2}
    ByteBits = 4
    ByteValues <- MCByteValues
    Alphas <- MCAlphas
    MaxMessage = 3
    MaxLog = 6
INVARIANTS
    TagOfLog
    TablesMultiply
SYMMETRY MCSymmetry
CHECK_DEADLOCK FALSE

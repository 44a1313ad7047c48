SPECIFICATION Spec
CONSTANTS
    Bits = 8
    AliceKeys <- MCAliceKeys
    Shuffles <- MCShuffles
    Passes = 3
    MaxErrors = 4
    MaxFaults = 1
INVARIANTS
    BooksTrue
    AnswersFit
    PassesComplete
CHECK_DEADLOCK FALSE

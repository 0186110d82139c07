SPECIFICATION Spec
CONSTANTS
    Cap = 3
    Bytes <- MCBytes
    LineEnds <- MCLineEnds
    Nul = "nul"
    Lower <- MCLower
    CommandOf <- MCCommandOf
    MaxReceived = 7
INVARIANTS
    TypeOK
    AnswersEachLineOnce
CHECK_DEADLOCK FALSE

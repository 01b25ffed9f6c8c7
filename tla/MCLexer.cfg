SPECIFICATION Spec
CONSTANTS
    Letters = {"i", "s"}
    Digits = {"0"}
    Reserved <- MCReserved
    Inputs <- MCTexts
    LaterInputs <- MCLaterTexts
    MaxCompilations = 2
INVARIANTS
    TypeOK
    LongestMatch
    LinesCounted
    Lossless
PROPERTIES
    Terminates
CHECK_DEADLOCK FALSE

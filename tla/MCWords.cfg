SPECIFICATION Spec
CONSTANTS
    Letters = {"i", "s"}
    Digits = {"0"}
    Reserved <- MCReserved
    Inputs <- MCWords
    LaterInputs <- MCLaterTexts
    MaxCompilations = 1
INVARIANTS
    EverySymbolIsRead
CHECK_DEADLOCK FALSE

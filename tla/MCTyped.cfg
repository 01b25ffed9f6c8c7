SPECIFICATION Spec
CONSTANTS
    Shapes = {"expressions", "pairs", "uses"}
    Programs <- MCPrograms
    MaxDepth = 8
    Garbage = {0}
INVARIANTS
    PartsPrecedeWholes
    WellTypedIsGenerated
CHECK_DEADLOCK FALSE

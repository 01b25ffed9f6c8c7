CONSTANTS
    Idents = {"x", "y", "i", "p"}
    Consts = {"a", "b", "c"}
    NoIdent = "none"
    OracleLength = 3
    Shapes = {"loops"}
    Programs <- MCPrograms
SPECIFICATION Spec
INVARIANT ForLoopChangesAreKept
CHECK_DEADLOCK FALSE

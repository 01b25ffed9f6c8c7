CONSTANTS
    Idents = {"x", "y", "i", "p"}
    Consts = {"a", "b", "c"}
    NoIdent = "none"
    OracleLength = 3
    Shapes = {"branches"}
    Programs <- MCPrograms
SPECIFICATION Spec
INVARIANT CodeIsAccepted
CHECK_DEADLOCK FALSE

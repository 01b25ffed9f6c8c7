CONSTANTS
    Idents = {"x", "y", "i", "p"}
    Consts = {"a", "b", "c"}
    NoIdent = "none"
    OracleLength = 3
    Shapes = {"one", "two", "nest", "straight"}
    Programs <- MCPrograms
SPECIFICATION Spec
INVARIANTS
    TypeOK
    FallThroughIsKnown
    JoinNeverFails
    ReadsFindValues
    PhiNodesLead
    HandledRoutinesAreRight
CHECK_DEADLOCK FALSE

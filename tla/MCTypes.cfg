SPECIFICATION Spec
CONSTANTS
    Idents <- MCIdents
    Builtin <- MCBuiltin
    PrintInt = "printInt"
    NoName = NoName
    NoFunc = NoFunc
    NoIdent = NoIdent
    MaxScopes = 3
    MaxNames = 2
    MaxTypes = 2
    TypeIdents = {"T"}
    Declared = {"x"}
    Routines = {"f", "T"}
    Exprs <- TypesExprs
    TypeDefs <- TypesDefs
    ParamLists <- TypesParams
INVARIANTS
    TypeOK
    NativeBaseExists
    RoutinesWellFormed
CHECK_DEADLOCK FALSE

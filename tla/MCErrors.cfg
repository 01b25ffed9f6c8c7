SPECIFICATION Spec
CONSTANTS
    Idents <- MCIdents
    Builtin <- MCBuiltin
    PrintInt = "printInt"
    NoName = NoName
    NoFunc = NoFunc
    NoIdent = NoIdent
    MaxScopes = 3
    MaxNames = 2
    MaxTypes = 1
    TypeIdents = {"int", "T"}
    Declared = {"x"}
    Routines = {"f"}
    Exprs <- TypesExprs
    TypeDefs <- TypesDefs
    ParamLists <- TypesParams
INVARIANTS
    ReportedErrorExits
CHECK_DEADLOCK FALSE

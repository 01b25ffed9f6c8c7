SPECIFICATION Spec
CONSTANTS
    Idents <- MCIdents
    Builtin <- MCBuiltin
    PrintInt = "printInt"
    NoName = NoName
    NoFunc = NoFunc
    NoIdent = NoIdent
    MaxScopes = 4
    MaxNames = 3
    MaxTypes = 0
    TypeIdents = {"int"}
    Declared = {"x"}
    Routines = {"f"}
    Exprs <- NamesExprs
    TypeDefs = {}
    ParamLists <- NamesParams
INVARIANTS
    ScopeDiscipline
    LookupIsParentWalk
    OnlyLaterDeclarationsRebind
PROPERTIES
    OnlyCurrentScopeChanges
    EnterScopePrecondition
    IsLexicalEnv
CHECK_DEADLOCK FALSE

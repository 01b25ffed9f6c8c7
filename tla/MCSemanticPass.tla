--------------------------- MODULE MCSemanticPass ---------------------------
(***************************************************************************)
(* Small programs for the semantic pass: MCNames stresses nesting and      *)
(* shadowing of names, MCTypes the type and routine tables.                *)
(***************************************************************************)
EXTENDS SemanticPass, TLC

MCBuiltin == (VOID :> "void") @@ (BOOL :> "bool") @@ (INT :> "int") @@ (FLOAT :> "float")
MCIdents == {"void", "bool", "int", "float", "printInt", "x", "f", "T"}

NamesExprs == {Const(INT), Use("x")}
NamesParams == {<<>>, <<[ident |-> "x", type |-> "int"]>>}

TypesExprs == {Const(BOOL), Use("x"), Call("f", <<Use("x")>>)}
TypesParams == {<<>>, <<[ident |-> "x", type |-> "T"]>>}
TypesDefs ==
    {[ident |-> "T", kind |-> "alias", parts |-> {t}] : t \in {"bool", "T"}}
        \cup {[ident |-> "T", kind |-> "array", parts |-> {"T"}],
              [ident |-> "T", kind |-> "record", parts |-> {"bool", "T"}]}
=============================================================================

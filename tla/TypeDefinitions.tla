--------------------------- MODULE TypeDefinitions --------------------------
(***************************************************************************)
(* Definitions of types in the source (src/src/Tree.h), and what a call of *)
(* TypeTable::defineType (src/src/Scope.cpp) makes of one: a call first    *)
(* finds the types of the parts, in order, by a call of its own for every  *)
(* part without a name, and then makes the type.                           *)
(***************************************************************************)
EXTENDS Expressions

Named(ident) == [form |-> "named", ident |-> ident]
ArrayOf(size, element) == [form |-> "array", size |-> size, element |-> element]
RecordOf(fields) == [form |-> "record", fields |-> fields]
Field(name, def) == [name |-> name, def |-> def]
Inferred == [form |-> "inferred"]    \* a variable without a type

\* The definitions that a definition contains.
Parts(def) ==
    CASE def.form = "named" -> <<>>
      [] def.form = "array" -> <<def.element>>
      [] def.form = "record" -> [i \in DOMAIN def.fields |-> def.fields[i].def]

\* A call of defineType, with the ids of the parts it has found.
DefinitionOf(name, def) == [name |-> name, def |-> def, parts |-> <<>>]

GeneratedName(tables) == <<"$", tables.generated + 1>>
Counted(tables) == [tables EXCEPT !.generated = @ + 1]

\* The types that a call makes.
AliasType(call, scope, base) == TypeObject("alias", call.name, scope, base, <<>>, NoIndex)
ArrayType(call, scope, size) == TypeObject("array", call.name, scope, call.parts[1], <<>>, size)
RecordType(call, scope) ==
    TypeObject("record", call.name, scope, NoType,
               [i \in DOMAIN call.parts |-> [name |-> call.def.fields[i].name, type |-> call.parts[i]]], NoIndex)

\* Records and arrays are also listed for code generation.
ListType(tables, type) == AddUserType(DefineTypeObject(tables, type), NewTypeId(tables))
=============================================================================

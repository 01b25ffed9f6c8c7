----------------------------- MODULE TypeTables -----------------------------
(***************************************************************************)
(* Types as the compiler keeps them (Type of src/src/Semantics.h, the type *)
(* tables of src/src/Scope.cpp): objects with an id, in the table of the   *)
(* scope that declares them, with the ids of their parts.  Two scopes are  *)
(* enough for everything that happens to a type: the global one and that   *)
(* of a routine.  The tables are a value, which operators take and give.   *)
(***************************************************************************)
EXTENDS Integers, Sequences, FiniteSets

VOID == 0
BOOL == 1
INT == 2
FLOAT == 3
Natives == {VOID, BOOL, INT, FLOAT}
FirstUserId == 11

NoType == -1       \* nullptr, and the type id of what has no type
LogicError == -2   \* what FindNativeBaseType returns for a type it cannot find
Aborted == -3      \* an assertion failed, or a null pointer was used

Global == "global"
Routine == "routine"
Path(scope) == {scope, Global}

\* A declared type is called by its identifier and 0, a generated one by a
\* number of its own.
Declared(ident) == <<ident, 0>>

(***************************************************************************)
(* kind is what isNative, isPrimitive, isArray and isRecord tell: an alias *)
(* is primitive whatever its base is.  base is the base of an alias or the *)
(* element of an array, and members are the names and types of a record.   *)
(***************************************************************************)
TypeObject(kind, name, scope, base, members, size) ==
    [kind |-> kind, name |-> name, scope |-> scope, base |-> base,
     members |-> members, size |-> size]

\* The function f with x mapped to y.
Extended(f, x, y) == [z \in DOMAIN f \cup {x} |-> IF z = x THEN y ELSE f[z]]

NativeNames == {"void", "bool", "int", "float"}
NativeId(name) == CASE name = "void" -> VOID [] name = "bool" -> BOOL [] name = "int" -> INT [] name = "float" -> FLOAT
NativeName(id) == CASE id = VOID -> "void" [] id = BOOL -> "bool" [] id = INT -> "int" [] id = FLOAT -> "float"

NativeType(name) == TypeObject("native", Declared(name), Global, NoType, <<>>, <<>>)

InitBuiltinTypes ==
    [types |-> [id \in Natives |-> NativeType(NativeName(id))],
     names |-> [s \in {Global, Routine} |-> IF s = Global THEN [name \in NativeNames |-> NativeId(name)] ELSE <<>>],
     userTypes |-> <<>>,   \* the types to generate, in the order of AddUserType
     generated |-> 0]      \* the generated names

LookupType(tables, scope, ident) ==
    CASE ident \in DOMAIN tables.names[scope] -> tables.names[scope][ident]
      [] ident \notin DOMAIN tables.names[scope] /\ ident \in DOMAIN tables.names[Global]
            -> tables.names[Global][ident]
      [] OTHER -> NoType

\* The id of a type that a scope can see, or NoType.
LookupTypeById(tables, scope, id) ==
    IF id \in DOMAIN tables.types /\ tables.types[id].scope \in Path(scope) THEN id ELSE NoType

FindNativeBaseType(tables, scope, id) ==
    LET Base[i \in {NoType} \cup DOMAIN tables.types] ==
            IF LookupTypeById(tables, scope, i) = NoType THEN LogicError
            ELSE CASE tables.types[i].kind = "record" -> NoType
                   [] tables.types[i].kind = "native" -> i
                   [] OTHER -> Base[tables.types[i].base]
    IN IF id \in DOMAIN tables.types THEN Base[id] ELSE LogicError

\* The type of a member, or Aborted: what getMemberByName returns is used unchecked.
MemberType(tables, id, member) ==
    LET fields == IF id \in DOMAIN tables.types THEN tables.types[id].members ELSE <<>>
        places == {i \in DOMAIN fields : fields[i].name = member}
    IN IF places = {} THEN Aborted ELSE fields[CHOOSE i \in places : TRUE].type

IsPrimitive(tables, id) == tables.types[id].kind \in {"native", "alias"}

NewTypeId(tables) == FirstUserId + Cardinality(DOMAIN tables.types \ Natives)

\* ScopeTypeTable::defineType; an earlier type of the same name is forgotten.
DefineTypeObject(tables, type) ==
    [tables EXCEPT
        !.types = Extended(@, NewTypeId(tables), type),
        !.names[type.scope] = IF type.name[2] = 0 THEN Extended(@, type.name[1], NewTypeId(tables)) ELSE @]

\* The slip of putting a new type in front of the list.
ListedInFront(tables, id) == [tables EXCEPT !.userTypes = <<id>> \o @]

AddUserType(tables, id) == [tables EXCEPT !.userTypes = Append(@, id)]
=============================================================================

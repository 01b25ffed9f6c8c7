------------------------------- MODULE Scopes -------------------------------
(***************************************************************************)
(* The scope tree and the symbol tables of the semantic analyser           *)
(* (src/src/Scope.cpp, src/src/Semantics.h).  A scope is a number, given   *)
(* in creation order; Global is the scope InitSemanticContext creates.     *)
(*                                                                         *)
(* lookupName, lookupType and the typeIDMap lookup all try the table of a  *)
(* scope and, on a miss, the table of its parent.  path[s] is the set of   *)
(* scopes that walk visits from s.  A parent exists before its children,   *)
(* so the first hit of the walk is the hit with the greatest number;       *)
(* ParentWalk below is the code's own recursion and LookupIsParentWalk     *)
(* states that the two agree.                                              *)
(***************************************************************************)
EXTENDS Integers, Sequences, FiniteSets

CONSTANTS
    Idents,      \* every identifier a program may write
    Builtin,     \* the identifiers of the four native types, by type id
    PrintInt,    \* the identifier of the only builtin routine
    NoName,      \* nullptr of lookupName
    NoFunc,      \* nullptr of lookupFunc
    MaxScopes,   \* bound: scopes created by one compilation
    MaxNames,    \* bound: Name objects created by one compilation
    MaxTypes     \* bound: types declared by one compilation

VOID == 0
BOOL == 1
INT == 2
FLOAT == 3
Natives == {VOID, BOOL, INT, FLOAT}

FirstTypeId == 11                      \* the static counter starts at 10
Scopes == 1 .. MaxScopes
Global == 1
UserTypes == FirstTypeId .. (FirstTypeId + MaxTypes - 1)
TypeIds == Natives \cup UserTypes
NoTypeId == -1                         \* TypeID of a type that is not known

(***************************************************************************)
(* A Name object: serial stands for its address, so a later declaration of *)
(* the same identifier is a different Name.                                *)
(***************************************************************************)
Name == [serial : 1 .. MaxNames, ident : Idents, type : TypeIds, param : BOOLEAN]
TypeKinds == {"native", "alias", "array", "record"}
Type == [kind : TypeKinds, scope : Scopes, parts : SUBSET TypeIds]
NoType == [kind |-> "none", scope |-> Global, parts |-> {}]
Func == [scope : Scopes \cup {0}, params : Seq(TypeIds), ret : TypeIds \cup {NoTypeId}]

ASSUME BoundsAssumption ==
    /\ MaxScopes \in Nat \ {0}
    /\ MaxNames \in Nat
    /\ MaxTypes \in Nat

ASSUME IdentsAssumption ==
    /\ Builtin \in [Natives -> Idents]
    /\ \A t, u \in Natives : Builtin[t] = Builtin[u] => t = u
    /\ PrintInt \in Idents
    /\ NoName \notin Name
    /\ NoFunc \notin Func

VARIABLES
    nScopes,       \* scopes created so far
    parent,        \* parentScope of every scope, 0 for nullptr
    path,          \* the scopes a lookup from a scope visits
    nNames,        \* Name objects created so far
    nameMap,       \* the nameMap of every scope's ScopeNameTable
    nTypes,        \* value of the type id counter, less 10
    typeNameMap,   \* the typeNameMap of every scope's ScopeTypeTable
    types,         \* every Type object, in the typeIDMap of its scope
    funcMap,       \* the GlobalFunctionTable
    currentScope

scopeVars == <<nScopes, parent, path>>
nameVars == <<nNames, nameMap>>
typeVars == <<nTypes, typeNameMap, types>>
tableVars == <<scopeVars, nameVars, typeVars, funcMap, currentScope>>

-----------------------------------------------------------------------------
(* Lookups. *)

\* The slip of starting at the global table.
Outermost(S) == CHOOSE s \in S : \A t \in S : s <= t

Innermost(S) == CHOOSE s \in S : \A t \in S : t <= s

\* The scopes, of those a lookup from s visits, whose own table defines x.
Defining(s, x) == {a \in path[s] : nameMap[a][x] # NoName}
DefiningType(s, x) == {a \in path[s] : typeNameMap[a][x] # NoTypeId}

LookupName(s, x) ==
    IF Defining(s, x) = {} THEN NoName ELSE nameMap[Innermost(Defining(s, x))][x]

\* The slip of one type table for all scopes.
LookupTypeAnywhere(s, x) ==
    LET known == {a \in Scopes : typeNameMap[a][x] # NoTypeId} IN
    IF known = {} THEN NoTypeId ELSE typeNameMap[Innermost(known)][x]

LookupType(s, x) ==
    IF DefiningType(s, x) = {} THEN NoTypeId
    ELSE typeNameMap[Innermost(DefiningType(s, x))][x]

\* The slip of a lookup by id that does not ask the parent.
TypeIsOwn(s, t) == t \in TypeIds /\ types[t] # NoType /\ types[t].scope = s

\* lookupType(typeID) # nullptr
TypeIsVisible(s, t) == t \in TypeIds /\ types[t] # NoType /\ types[t].scope \in path[s]

\* The recursion of lookupName over getParentTable, as the code has it.
ParentWalk(s, x) ==
    LET walk[a \in Scopes] == IF nameMap[a][x] # NoName THEN nameMap[a][x]
                              ELSE IF parent[a] = 0 THEN NoName
                              ELSE walk[parent[a]]
    IN walk[s]

-----------------------------------------------------------------------------
(* Updates. *)

NewName(serial, x, t, isParam) ==
    [serial |-> serial, ident |-> x, type |-> t, param |-> isParam]

EmptyNames == [x \in Idents |-> NoName]
EmptyTypes == [x \in Idents |-> NoTypeId]

NextScope == nScopes + 1

\* The slip of attaching every scope to the global one.
AttachToGlobal(p, names) ==
    /\ nScopes < MaxScopes
    /\ nScopes' = NextScope
    /\ parent' = [parent EXCEPT ![NextScope] = Global]
    /\ path' = [path EXCEPT ![NextScope] = {Global, NextScope}]
    /\ nameMap' = [nameMap EXCEPT ![NextScope] = names]

\* The slip of attaching a scope to the one created last, which may be closed.
AttachToLatest(p, names) ==
    /\ nScopes < MaxScopes
    /\ nScopes' = NextScope
    /\ parent' = [parent EXCEPT ![NextScope] = nScopes]
    /\ path' = [path EXCEPT ![NextScope] = path[nScopes] \cup {NextScope}]
    /\ nameMap' = [nameMap EXCEPT ![NextScope] = names]

(***************************************************************************)
(* Scope::Scope with a parent p, its name table holding names already.     *)
(***************************************************************************)
AttachScope(p, names) ==
    /\ nScopes < MaxScopes
    /\ nScopes' = NextScope
    /\ parent' = [parent EXCEPT ![NextScope] = p]
    /\ path' = [path EXCEPT ![NextScope] = path[p] \cup {NextScope}]
    /\ nameMap' = [nameMap EXCEPT ![NextScope] = names]

\* createInnerScope(GetCurrentScope()) followed by EnterScope.
EnterInnerScope(names) ==
    /\ AttachScope(currentScope, names)
    /\ currentScope' = NextScope

\* The slip of defining in the table of the parent.
DefineNameOutside(s, x, t) ==
    /\ nNames < MaxNames
    /\ nNames' = nNames + 1
    /\ nameMap' = [nameMap EXCEPT ![parent[s]][x] = NewName(nNames + 1, x, t, FALSE)]

\* ScopeNameTable::defineName overwrites an earlier Name of the identifier.
DefineName(s, x, t) ==
    /\ nNames < MaxNames
    /\ nNames' = nNames + 1
    /\ nameMap' = [nameMap EXCEPT ![s][x] = NewName(nNames + 1, x, t, FALSE)]

\* The slip of counter++ for ++counter.
DefineTypeEarlyId(s, x, kind, parts) ==
    LET id == FirstTypeId + nTypes - 1 IN
    /\ nTypes < MaxTypes
    /\ nTypes' = nTypes + 1
    /\ typeNameMap' = [typeNameMap EXCEPT ![s][x] = id]
    /\ types' = [types EXCEPT ![id] = [kind |-> kind, scope |-> s, parts |-> parts]]

\* ScopeTypeTable::defineType of a new Type object.
DefineType(s, x, kind, parts) ==
    LET id == FirstTypeId + nTypes IN
    /\ nTypes < MaxTypes
    /\ nTypes' = nTypes + 1
    /\ typeNameMap' = [typeNameMap EXCEPT ![s][x] = id]
    /\ types' = [types EXCEPT ![id] = [kind |-> kind, scope |-> s, parts |-> parts]]

\* The slip of leaving all open scopes at once.
ExitToGlobal == currentScope' = Global

ExitCurrentScope ==
    currentScope' = IF currentScope = Global THEN Global ELSE parent[currentScope]

(***************************************************************************)
(* InitSemanticContext: the global scope with the native types and the     *)
(* routine printInt.                                                       *)
(***************************************************************************)
InitTables ==
    /\ nScopes = 1
    /\ parent = [s \in Scopes |-> 0]
    /\ path = [s \in Scopes |-> IF s = Global THEN {Global} ELSE {}]
    /\ nNames = 0
    /\ nameMap = [s \in Scopes |-> EmptyNames]
    /\ nTypes = 0
    /\ typeNameMap = [s \in Scopes |->
           IF s # Global THEN EmptyTypes
           ELSE [x \in Idents |-> IF \E t \in Natives : Builtin[t] = x
                                  THEN CHOOSE t \in Natives : Builtin[t] = x
                                  ELSE NoTypeId]]
    /\ types = [t \in TypeIds |->
           IF t \in Natives THEN [kind |-> "native", scope |-> Global, parts |-> {}]
           ELSE NoType]
    /\ funcMap = [f \in Idents |->
           IF f = PrintInt THEN [scope |-> 0, params |-> <<INT>>, ret |-> VOID] ELSE NoFunc]
    /\ currentScope = Global

-----------------------------------------------------------------------------
TablesTypeOK ==
    /\ nScopes \in Scopes
    /\ parent \in [Scopes -> 0 .. MaxScopes]
    /\ path \in [Scopes -> SUBSET Scopes]
    /\ nNames \in 0 .. MaxNames
    /\ nameMap \in [Scopes -> [Idents -> Name \cup {NoName}]]
    /\ nTypes \in 0 .. MaxTypes
    /\ typeNameMap \in [Scopes -> [Idents -> TypeIds \cup {NoTypeId}]]
    /\ types \in [TypeIds -> Type \cup {NoType}]
    /\ funcMap \in [Idents -> Func \cup {NoFunc}]
    /\ currentScope \in Scopes
=============================================================================

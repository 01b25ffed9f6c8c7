------------------------- MODULE TypedProgramProofs -------------------------
(***************************************************************************)
(* Theorems of the type tables that the passes fill and code generation    *)
(* reads, for any programs and whatever the traces of their expressions    *)
(* give: the tables are complete, nothing in them changes, the list of     *)
(* user types is an order in which they can be generated, and every struct *)
(* is there when it is needed.                                             *)
(***************************************************************************)
EXTENDS TypedProgram, TLAPS, SequenceTheorems, FiniteSetTheorems, WellFoundedInduction

IsSequence(s) == s \in Seq({s[i] : i \in DOMAIN s})

(***************************************************************************)
(* The tables, as a value.                                                 *)
(***************************************************************************)
TableFields == {"types", "names", "userTypes", "generated"}
Ids(types) == DOMAIN types.types

\* The types that a scope can see.
Seen(types, scope) == {id \in Ids(types) : types.types[id].scope \in Path(scope)}

\* Ids are given out in their order, so that the next one is new.
IdsAreDense(types) ==
    IsFiniteSet(Ids(types)) /\ Ids(types) = Natives \cup FirstUserId .. NewTypeId(types) - 1

NamesHaveTypes(types) ==
    /\ DOMAIN types.names = {Global, Routine}
    /\ \A scope \in {Global, Routine} : \A x \in DOMAIN types.names[scope] : types.names[scope][x] \in Seen(types, scope)

\* What a type is made of; NoType where it has no base.
PartIds(type) == {type.base} \cup {type.members[k].type : k \in DOMAIN type.members}

\* Where a type can be seen, so can its parts.
IsWellMade(types, type) ==
    /\ type.kind \in {"native", "alias", "array", "record"}
    /\ type.scope \in {Global, Routine}
    /\ type.kind \in {"alias", "array"} => type.base \in Seen(types, type.scope)
    /\ type.kind \in {"native", "record"} => type.base = NoType
    /\ \A k \in DOMAIN type.members : type.members[k].type \in Seen(types, type.scope)
TypesAreWellMade(types) == \A id \in Ids(types) : IsWellMade(types, types.types[id])

\* A type is made after its parts, so that none contains itself.
PartsAreOlder(types) ==
    \A id \in Ids(types) : \A part \in PartIds(types.types[id]) : part < id

NativesAreNative(types) == \A id \in Ids(types) : id \in Natives <=> types.types[id].kind = "native"

\* Every type that needs code is listed, and nothing else.
ListIsComplete(types) ==
    /\ types.userTypes \in Seq(Ids(types))
    /\ \A id \in Ids(types) : ~IsPrimitive(types, id) <=> \E j \in DOMAIN types.userTypes : types.userTypes[j] = id

\* PartsPrecedeWholes, of any tables.
ListIsOrdered(types) ==
    \A i \in DOMAIN types.userTypes :
        \A part \in PartIds(types.types[types.userTypes[i]]) \cap Ids(types) :
            IsPrimitive(types, part) \/ \E j \in 1 .. i - 1 : types.userTypes[j] = part

TablesOK(types) ==
    /\ DOMAIN types = TableFields
    /\ IdsAreDense(types) /\ NamesHaveTypes(types)
    /\ TypesAreWellMade(types) /\ PartsAreOlder(types) /\ NativesAreNative(types)
    /\ ListIsComplete(types) /\ ListIsOrdered(types)

\* What a table holds it keeps, and the list only gets longer.
Grows(old, new) ==
    /\ \A id \in Ids(old) : id \in Ids(new) /\ new.types[id] = old.types[id]
    /\ \A j \in DOMAIN old.userTypes : j \in DOMAIN new.userTypes /\ new.userTypes[j] = old.userTypes[j]

\* The parts of a type are older types, and a scope that sees it sees them.
TypesAreGrounded ==
    \A id \in DOMAIN tables.types :
        \A part \in PartIds(tables.types[id]) \ {NoType} :
            /\ part < id
            /\ \A scope \in {Global, Routine} :
                   LookupTypeById(tables, scope, id) = id => LookupTypeById(tables, scope, part) = part

(***************************************************************************)
(* The calls of defineType: what a call has found so far are types that    *)
(* its scope can see, and for an array maybe none.                         *)
(***************************************************************************)
CallOK(types, scope, call) ==
    /\ DOMAIN call = {"name", "def", "parts"}
    /\ call.parts \in Seq(Seen(types, scope) \cup {NoType})
    /\ call.def.form = "record" => call.parts \in Seq(Seen(types, scope))
CallsOK ==
    /\ IsSequence(defining)
    /\ \A i \in DOMAIN defining : CallOK(tables, CurrentScope, defining[i])
    /\ defining # <<>> => phase \in {"parse", "globals", "locals", "vars"}

TablesInv == TablesOK(tables) /\ CallsOK

(***************************************************************************)
(* The layouts: none before the list of user types is gone through, those  *)
(* of the types before the current one while it is, and all of them then.  *)
(***************************************************************************)
BeforeTypes == {"parse", "globals", "routine", "locals", "vars", "statements"}
AfterTypes == {"header", "values", "code", "generated"}
LaidOut == DOMAIN gen.layouts

LayoutsInv ==
    /\ DOMAIN gen = {"layouts", "constructors", "allocations", "made", "vals", "sigs"}
    /\ phase \in BeforeTypes \cup {"types"} \cup AfterTypes \cup Ends
    /\ phase \in BeforeTypes => LaidOut = {}
    /\ phase = "types" => at \in DOMAIN tables.userTypes /\ LaidOut = {tables.userTypes[j] : j \in 1 .. at - 1}
    /\ phase \in AfterTypes => \A j \in DOMAIN tables.userTypes : tables.userTypes[j] \in LaidOut

\* The structs that the struct of the current type is made of are there.
PartsAreLaidOut ==
    phase = "types" =>
        \A part \in PartIds(tables.types[tables.userTypes[at]]) \cap DOMAIN tables.types :
            IsPrimitive(tables, part) \/ part \in LaidOut

\* The fields of its struct are there too, unless it was declared in a routine
\* or has a part that is void or an alias.
SoundTypesGetLayouts ==
    phase = "types" =>
        LET type == tables.types[tables.userTypes[at]]
            layout == LayoutOf(tables, gen, type)
        IN type.scope = Global /\ (\A part \in PartIds(type) \ {NoType} : part # VOID /\ tables.types[part].kind # "alias")
           => \A k \in DOMAIN layout : layout[k] \notin {Stopped, Refused}

\* The code of a routine comes after the structs of all arrays and records.
StructsComeFirst ==
    phase \in {"header", "values", "code"} =>
        \A id \in DOMAIN tables.types : IsPrimitive(tables, id) \/ id \in LaidOut

\* The bases of a type that a scope sees end at a native type or at a record,
\* which has none.
BasesAreNative ==
    \A scope \in {Global, Routine} : \A id \in Seen(tables, scope) :
        FindNativeBaseType(tables, scope, id) \in Natives \cup {NoType}

(***************************************************************************)
(* The names and variables of the routine.                                 *)
(***************************************************************************)
NamesInv == phase # "aborted" => \A x \in DOMAIN names : names[x] \in Seen(tables, Routine)
VarsInv ==
    /\ IsSequence(vars)
    /\ \A i \in DOMAIN vars : vars[i].valid => vars[i].type \in Seen(tables, Routine)

\* The routine looks its names up by the ids of their types.
VariablesHaveTypes ==
    phase # "aborted" =>
        /\ \A x \in DOMAIN names : LookupTypeById(tables, Routine, names[x]) = names[x] /\ names[x] # NoType
        /\ \A i \in DOMAIN vars :
               vars[i].valid => LookupTypeById(tables, Routine, vars[i].type) = vars[i].type /\ vars[i].type # NoType

\* A variable that is allocated has a type of LLVM, unless its type is an alias.
VariablesHaveStructs ==
    phase \in {"values", "code"} =>
        \A i \in DOMAIN vars :
            vars[i].valid /\ tables.types[vars[i].type].kind # "alias" => TypesMap(gen, vars[i].type) # NoLlvm

\* So has every type of a header.
HeadersHaveTypes ==
    phase = "header" =>
        \A id \in Seen(tables, Global) : tables.types[id].kind # "alias" => HeaderType(id) # Stopped

-----------------------------------------------------------------------------
(* The tables.                                                             *)

(***************************************************************************)
(* A sequence is a sequence over any set that has its elements.            *)
(***************************************************************************)
LEMMA SequenceOver ==
    ASSUME NEW S, NEW s \in Seq(S), NEW T, \A i \in 1 .. Len(s) : s[i] \in T
    PROVE  s \in Seq(T)
<1>1. s \in [1 .. Len(s) -> T] /\ Len(s) \in Nat
  BY LenProperties
<1> QED BY <1>1, SeqDef

\* What a Seq holds is a sequence.
LEMMA IsASequence ==
    ASSUME NEW S, NEW s \in Seq(S)
    PROVE  IsSequence(s)
<1>1. \A i \in 1 .. Len(s) : s[i] \in {s[j] : j \in DOMAIN s}
  BY LenProperties
<1> QED BY <1>1, SequenceOver DEF IsSequence

(***************************************************************************)
(* What is appended to a sequence, cut off it or changed in it leaves a    *)
(* sequence.                                                               *)
(***************************************************************************)
LEMMA SequencesStay ==
    ASSUME NEW s, IsSequence(s)
    PROVE  /\ Len(s) \in Nat /\ DOMAIN s = 1 .. Len(s)
           /\ \A x : /\ IsSequence(Append(s, x))
                     /\ Len(Append(s, x)) = Len(s) + 1
                     /\ Append(s, x)[Len(s) + 1] = x
                     /\ \A j \in DOMAIN s : Append(s, x)[j] = s[j]
           /\ s # <<>> => /\ IsSequence(SubSeq(s, 1, Len(s) - 1))
                          /\ Len(SubSeq(s, 1, Len(s) - 1)) = Len(s) - 1
                          /\ \A j \in 1 .. Len(s) - 1 : SubSeq(s, 1, Len(s) - 1)[j] = s[j]
           /\ \A i \in DOMAIN s : \A x : IsSequence([s EXCEPT ![i] = x])
<1> DEFINE S == {s[i] : i \in DOMAIN s}
<1>1. s \in Seq(S)
  BY DEF IsSequence
<1>2. Len(s) \in Nat /\ DOMAIN s = 1 .. Len(s)
  BY <1>1, LenProperties
<1>3. ASSUME NEW x
      PROVE  /\ IsSequence(Append(s, x))
             /\ Len(Append(s, x)) = Len(s) + 1
             /\ Append(s, x)[Len(s) + 1] = x
             /\ \A j \in DOMAIN s : Append(s, x)[j] = s[j]
  <2>1. s \in Seq(S \cup {x})
    BY <1>1, SeqMonotonic
  <2>2. Append(s, x) \in Seq(S \cup {x})
    BY <2>1, AppendProperties
  <2>3. IsSequence(Append(s, x))
    BY <2>2, IsASequence
  <2>4. Len(Append(s, x)) = Len(s) + 1 /\ Append(s, x)[Len(s) + 1] = x
    BY <2>1, AppendProperties
  <2>5. \A j \in 1 .. Len(s) : Append(s, x)[j] = s[j]
    BY <2>1, AppendProperties
  <2> QED BY <2>3, <2>4, <2>5, <1>2
<1>4. ASSUME s # <<>>
      PROVE  /\ IsSequence(SubSeq(s, 1, Len(s) - 1))
             /\ Len(SubSeq(s, 1, Len(s) - 1)) = Len(s) - 1
             /\ \A j \in 1 .. Len(s) - 1 : SubSeq(s, 1, Len(s) - 1)[j] = s[j]
  <2> DEFINE t == SubSeq(s, 1, Len(s) - 1)
  <2>1. Len(s) # 0
    BY <1>1, <1>4, EmptySeq
  <2>2. \A i \in 1 .. Len(s) - 1 : s[i] \in S
    BY <1>2
  <2> HIDE DEF S
  <2>3. /\ t \in Seq(S)
        /\ Len(t) = IF 1 <= Len(s) - 1 THEN Len(s) - 1 - 1 + 1 ELSE 0
        /\ \A i \in 1 .. Len(s) - 1 - 1 + 1 : t[i] = s[1 + i - 1]
    BY <1>2, <2>2, SubSeqProperties
  <2>4. IsSequence(t)
    BY <2>3, IsASequence
  <2> HIDE DEF t
  <2>5. Len(t) = Len(s) - 1
    <3>1. \A n \in Nat : n # 0 => (IF 1 <= n - 1 THEN n - 1 - 1 + 1 ELSE 0) = n - 1
      OBVIOUS
    <3> QED BY <1>2, <2>1, <2>3, <3>1
  <2>6. ASSUME NEW j \in 1 .. Len(s) - 1 PROVE t[j] = s[j]
    <3>1. j \in 1 .. Len(s) - 1 - 1 + 1 /\ 1 + j - 1 = j
      BY <1>2
    <3> QED BY <3>1, <2>3
  <2> QED BY <2>4, <2>5, <2>6 DEF t
<1>5. ASSUME NEW i \in DOMAIN s, NEW x PROVE IsSequence([s EXCEPT ![i] = x])
  <2>1. s \in Seq(S \cup {x})
    BY <1>1, SeqMonotonic
  <2>2. [s EXCEPT ![i] = x] \in Seq(S \cup {x})
    BY <2>1, <1>2, ExceptSeq
  <2> QED BY <2>2, IsASequence
<1> QED BY <1>2, <1>3, <1>4, <1>5

(***************************************************************************)
(* A new type gets an id that no type has, and nothing else changes in the *)
(* table of types.                                                         *)
(***************************************************************************)
LEMMA NewIdsAreNew ==
    ASSUME NEW types, IdsAreDense(types)
    PROVE  /\ NewTypeId(types) \in Int /\ NewTypeId(types) >= FirstUserId
           /\ NewTypeId(types) \notin Ids(types)
           /\ NewTypeId(types) # NoType
           /\ NoType \notin Ids(types)
<1>1. Cardinality(Ids(types) \ Natives) \in Nat
  BY FS_Difference, FS_CardinalityType DEF IdsAreDense
<1>2. NewTypeId(types) \in Int /\ NewTypeId(types) >= FirstUserId
  BY <1>1 DEF NewTypeId, FirstUserId, Ids
<1>3. NewTypeId(types) \notin Natives
  BY <1>2 DEF Natives, VOID, BOOL, INT, FLOAT, FirstUserId
<1>4. NewTypeId(types) \notin FirstUserId .. NewTypeId(types) - 1
  BY <1>2 DEF FirstUserId
<1>5. NoType \notin Ids(types)
  BY <1>2 DEF IdsAreDense, NoType, Natives, VOID, BOOL, INT, FLOAT, FirstUserId
<1> QED BY <1>2, <1>3, <1>4, <1>5 DEF IdsAreDense, NoType, FirstUserId

(***************************************************************************)
(* What a scope can see it goes on seeing, and all see what is global.     *)
(***************************************************************************)
LEMMA SeenIsKept ==
    ASSUME NEW old, NEW new, \A id \in Ids(old) : id \in Ids(new) /\ new.types[id] = old.types[id]
    PROVE  \A scope : Seen(old, scope) \subseteq Seen(new, scope)
BY DEF Seen

\* What is global is seen from everywhere.
LEMMA GlobalIsSeen ==
    ASSUME NEW types, NEW scope
    PROVE  Seen(types, Global) \subseteq Seen(types, scope)
BY DEF Seen, Path

\* So are the parts of a type.
LEMMA PartsAreSeen ==
    ASSUME NEW types, NEW type, IsWellMade(types, type)
    PROVE  \A part \in PartIds(type) : part \in Seen(types, type.scope) \/ part = NoType
BY DEF IsWellMade, PartIds

(***************************************************************************)
(* A definition adds a type, and its name to the scope that it is for.     *)
(***************************************************************************)
LEMMA TypeIsDefined ==
    ASSUME NEW types, DOMAIN types = TableFields, NEW type, type.scope \in DOMAIN types.names,
           NewTypeId(types) \notin Ids(types)
    PROVE  LET defined == DefineTypeObject(types, type) IN
           /\ DOMAIN defined = TableFields
           /\ Ids(defined) = Ids(types) \cup {NewTypeId(types)}
           /\ \A id \in Ids(types) : defined.types[id] = types.types[id]
           /\ defined.types[NewTypeId(types)] = type
           /\ defined.userTypes = types.userTypes
           /\ DOMAIN defined.names = DOMAIN types.names
           /\ \A scope \in DOMAIN types.names : \A x \in DOMAIN defined.names[scope] :
                  \/ x \in DOMAIN types.names[scope] /\ defined.names[scope][x] = types.names[scope][x]
                  \/ scope = type.scope /\ defined.names[scope][x] = NewTypeId(types)
<1> DEFINE n == NewTypeId(types)
           defined == DefineTypeObject(types, type)
           new == IF type.name[2] = 0 THEN Extended(types.names[type.scope], type.name[1], n) ELSE types.names[type.scope]
<1>1. /\ DOMAIN defined = TableFields
      /\ defined.types = Extended(types.types, n, type)
      /\ defined.names = [types.names EXCEPT ![type.scope] = new]
      /\ defined.userTypes = types.userTypes
  BY DEF DefineTypeObject, TableFields
<1>2. /\ Ids(defined) = Ids(types) \cup {n}
      /\ \A id \in Ids(types) : defined.types[id] = types.types[id]
      /\ defined.types[n] = type
  BY <1>1 DEF Ids, Extended
<1>3. \A x \in DOMAIN new : \/ x \in DOMAIN types.names[type.scope] /\ new[x] = types.names[type.scope][x]
                           \/ new[x] = n
  BY DEF Extended
<1>4. ASSUME NEW scope \in DOMAIN types.names, NEW x \in DOMAIN defined.names[scope]
      PROVE  \/ x \in DOMAIN types.names[scope] /\ defined.names[scope][x] = types.names[scope][x]
             \/ scope = type.scope /\ defined.names[scope][x] = n
  <2> HIDE DEF new, n, defined
  <2>1. CASE scope = type.scope
    BY <1>1, <1>3, <2>1
  <2>2. CASE scope # type.scope
    BY <1>1, <2>2
  <2> QED BY <2>1, <2>2
<1>5. DOMAIN defined.names = DOMAIN types.names
  BY <1>1
<1> HIDE DEF n, defined
<1> QED BY <1>1, <1>2, <1>4, <1>5 DEF n, defined

(***************************************************************************)
(* A type that is made of types the table has can be defined in it: all    *)
(* that does not concern the list holds after that too.                    *)
(***************************************************************************)
LEMMA DefinedTablesOK ==
    ASSUME NEW types, TablesOK(types), NEW type, type.kind # "native", IsWellMade(types, type)
    PROVE  LET defined == DefineTypeObject(types, type) IN
           /\ DOMAIN defined = TableFields
           /\ IdsAreDense(defined)
           /\ NamesHaveTypes(defined)
           /\ TypesAreWellMade(defined)
           /\ PartsAreOlder(defined)
           /\ NativesAreNative(defined)
<1> DEFINE n == NewTypeId(types)
           defined == DefineTypeObject(types, type)
<1>1. /\ DOMAIN types = TableFields /\ IdsAreDense(types) /\ NamesHaveTypes(types)
      /\ TypesAreWellMade(types) /\ PartsAreOlder(types) /\ NativesAreNative(types)
  BY DEF TablesOK
<1>2. n \in Int /\ n >= FirstUserId /\ n \notin Ids(types)
  BY <1>1, NewIdsAreNew
<1>3. /\ DOMAIN defined = TableFields
      /\ Ids(defined) = Ids(types) \cup {n}
      /\ \A id \in Ids(types) : defined.types[id] = types.types[id]
      /\ defined.types[n] = type
      /\ DOMAIN defined.names = DOMAIN types.names
      /\ \A scope \in DOMAIN types.names : \A x \in DOMAIN defined.names[scope] :
             \/ x \in DOMAIN types.names[scope] /\ defined.names[scope][x] = types.names[scope][x]
             \/ scope = type.scope /\ defined.names[scope][x] = n
  BY <1>1, <1>2, TypeIsDefined DEF NamesHaveTypes, IsWellMade
<1> HIDE DEF defined
<1>4. IdsAreDense(defined)
  <2> DEFINE users == Ids(types) \ Natives
  <2>1. IsFiniteSet(users) /\ Cardinality(users) \in Nat
    BY <1>1, FS_Difference, FS_CardinalityType DEF IdsAreDense
  <2>2. n \notin Natives /\ n \notin users
    BY <1>2 DEF Natives, VOID, BOOL, INT, FLOAT, FirstUserId
  <2>3. Ids(defined) \ Natives = users \cup {n}
    BY <1>3, <2>2
  <2>4. Cardinality(users \cup {n}) = Cardinality(users) + 1
    BY <2>1, <2>2, FS_AddElement
  <2>5. n = FirstUserId + Cardinality(users)
    BY DEF NewTypeId, Ids
  <2>6. NewTypeId(defined) = FirstUserId + Cardinality(users \cup {n})
    BY <2>3 DEF NewTypeId, Ids
  <2> HIDE DEF users, n
  <2>7. NewTypeId(defined) = n + 1
    BY <2>1, <2>4, <2>5, <2>6 DEF FirstUserId
  <2>8. FirstUserId .. n = FirstUserId .. n - 1 \cup {n}
    BY <1>2 DEF FirstUserId
  <2>9. Ids(types) = Natives \cup FirstUserId .. n - 1
    BY <1>1 DEF IdsAreDense, n
  <2>10. Ids(defined) = Natives \cup FirstUserId .. n
    BY <1>3, <2>8, <2>9
  <2>11. IsFiniteSet(Ids(defined))
    BY <1>1, <1>3, FS_AddElement DEF IdsAreDense
  <2>12. NewTypeId(defined) - 1 = n
    BY <1>2, <2>7
  <2>13. Ids(defined) = Natives \cup FirstUserId .. NewTypeId(defined) - 1
    BY <2>10, <2>12
  <2> QED BY <2>11, <2>13 DEF IdsAreDense
<1>5. /\ \A scope : Seen(types, scope) \subseteq Seen(defined, scope)
      /\ n \in Seen(defined, type.scope)
  <2>1. \A scope : Seen(types, scope) \subseteq Seen(defined, scope)
    BY <1>3, SeenIsKept
  <2> QED BY <1>3, <2>1 DEF Seen, Path
<1>6. NamesHaveTypes(defined)
  <2>1. ASSUME NEW scope \in {Global, Routine}, NEW x \in DOMAIN defined.names[scope]
        PROVE  defined.names[scope][x] \in Seen(defined, scope)
    <3>1. CASE x \in DOMAIN types.names[scope] /\ defined.names[scope][x] = types.names[scope][x]
      BY <1>1, <1>5, <3>1 DEF NamesHaveTypes
    <3>2. CASE scope = type.scope /\ defined.names[scope][x] = n
      BY <1>5, <3>2
    <3>3. DOMAIN types.names = {Global, Routine}
      BY <1>1 DEF NamesHaveTypes
    <3> QED BY <1>3, <3>1, <3>2, <3>3
  <2> QED BY <1>1, <1>3, <2>1 DEF NamesHaveTypes
<1>7. TypesAreWellMade(defined)
  <2>1. ASSUME NEW t, IsWellMade(types, t)
        PROVE  IsWellMade(defined, t)
    BY <1>5, <2>1 DEF IsWellMade
  <2> QED BY <1>1, <1>3, <2>1 DEF TypesAreWellMade
<1>8. PartsAreOlder(defined)
  <2>1. \A id \in Ids(types) : id < n
    BY <1>1, <1>2 DEF IdsAreDense, Natives, VOID, BOOL, INT, FLOAT, FirstUserId
  <2>2. NoType < n
    BY <1>2 DEF NoType, FirstUserId
  <2>3. \A part \in PartIds(type) : part < n
    BY <2>1, <2>2, PartsAreSeen DEF Seen
  <2> QED BY <1>1, <1>3, <2>3 DEF PartsAreOlder
<1>9. NativesAreNative(defined)
  <2>1. n \notin Natives
    BY <1>2 DEF Natives, VOID, BOOL, INT, FLOAT, FirstUserId
  <2> QED BY <1>1, <1>3, <2>1 DEF NativesAreNative
<1> QED BY <1>3, <1>4, <1>6, <1>7, <1>8, <1>9 DEF defined

(***************************************************************************)
(* An alias is primitive: it leaves the list as it is.                     *)
(***************************************************************************)
LEMMA AliasIsDefined ==
    ASSUME NEW types, TablesOK(types), NEW type, type.kind = "alias", IsWellMade(types, type)
    PROVE  LET defined == DefineTypeObject(types, type) IN
           /\ TablesOK(defined) /\ Grows(types, defined) /\ NewTypeId(types) \in Seen(defined, type.scope)
<1> DEFINE n == NewTypeId(types)
           defined == DefineTypeObject(types, type)
<1>1. /\ DOMAIN types = TableFields /\ IdsAreDense(types) /\ NamesHaveTypes(types)
      /\ TypesAreWellMade(types) /\ PartsAreOlder(types) /\ NativesAreNative(types)
      /\ ListIsComplete(types) /\ ListIsOrdered(types)
  BY DEF TablesOK
<1>2. n \notin Ids(types)
  BY <1>1, NewIdsAreNew
<1>3. /\ Ids(defined) = Ids(types) \cup {n}
      /\ \A id \in Ids(types) : defined.types[id] = types.types[id]
      /\ defined.types[n] = type
      /\ defined.userTypes = types.userTypes
  BY <1>1, <1>2, TypeIsDefined DEF NamesHaveTypes, IsWellMade
<1>4. /\ DOMAIN defined = TableFields /\ IdsAreDense(defined) /\ NamesHaveTypes(defined)
      /\ TypesAreWellMade(defined) /\ PartsAreOlder(defined) /\ NativesAreNative(defined)
  BY DefinedTablesOK
<1> HIDE DEF defined, n
<1>5. ListIsComplete(defined)
  <2>1. defined.userTypes \in Seq(Ids(defined))
    BY <1>1, <1>3, SeqMonotonic DEF ListIsComplete
  <2>2. \A j \in DOMAIN types.userTypes : types.userTypes[j] \in Ids(types)
    BY <1>1, LenProperties DEF ListIsComplete
  <2> QED BY <1>1, <1>2, <1>3, <2>1, <2>2 DEF ListIsComplete, IsPrimitive
<1>6. ListIsOrdered(defined)
  <2>1. \A j \in DOMAIN types.userTypes : types.userTypes[j] \in Ids(types)
    BY <1>1, LenProperties DEF ListIsComplete
  <2> SUFFICES ASSUME NEW i \in DOMAIN types.userTypes,
                      NEW part \in PartIds(types.types[types.userTypes[i]]) \cap Ids(defined)
               PROVE  IsPrimitive(defined, part) \/ \E j \in 1 .. i - 1 : types.userTypes[j] = part
    BY <1>3, <2>1 DEF ListIsOrdered
  <2>2. part \in Ids(types)
    <3>1. IsWellMade(types, types.types[types.userTypes[i]])
      BY <1>1, <2>1 DEF TypesAreWellMade
    <3>2. NoType \notin Ids(defined)
      BY <1>4, NewIdsAreNew
    <3> QED BY <3>1, <3>2, PartsAreSeen DEF Seen
  <2>3. IsPrimitive(defined, part) <=> IsPrimitive(types, part)
    BY <1>3, <2>2 DEF IsPrimitive
  <2> QED BY <1>1, <2>2, <2>3 DEF ListIsOrdered
<1>7. Grows(types, defined) /\ n \in Seen(defined, type.scope)
  BY <1>3 DEF Grows, Seen, Path
<1> QED BY <1>4, <1>5, <1>6, <1>7 DEF TablesOK, defined, n

(***************************************************************************)
(* An array or a record is listed after all that was listed, among it the  *)
(* arrays and records that it is made of.                                  *)
(***************************************************************************)
LEMMA TypeIsListed ==
    ASSUME NEW types, TablesOK(types), NEW type, type.kind \in {"array", "record"}, IsWellMade(types, type)
    PROVE  LET listed == ListType(types, type) IN
           /\ TablesOK(listed) /\ Grows(types, listed) /\ NewTypeId(types) \in Seen(listed, type.scope)
<1> DEFINE n == NewTypeId(types)
           defined == DefineTypeObject(types, type)
           listed == ListType(types, type)
           list == types.userTypes
<1>1. /\ DOMAIN types = TableFields /\ IdsAreDense(types) /\ NamesHaveTypes(types)
      /\ TypesAreWellMade(types) /\ PartsAreOlder(types) /\ NativesAreNative(types)
      /\ ListIsComplete(types) /\ ListIsOrdered(types)
  BY DEF TablesOK
<1>2. n \notin Ids(types)
  BY <1>1, NewIdsAreNew
<1>3. /\ DOMAIN defined = TableFields
      /\ Ids(defined) = Ids(types) \cup {n}
      /\ \A id \in Ids(types) : defined.types[id] = types.types[id]
      /\ defined.types[n] = type
      /\ defined.userTypes = list
  BY <1>1, <1>2, TypeIsDefined DEF NamesHaveTypes, IsWellMade
<1>4. /\ IdsAreDense(defined) /\ NamesHaveTypes(defined)
      /\ TypesAreWellMade(defined) /\ PartsAreOlder(defined) /\ NativesAreNative(defined)
  BY DefinedTablesOK
<1>5. /\ DOMAIN listed = TableFields
      /\ listed.types = defined.types /\ listed.names = defined.names
      /\ listed.userTypes = Append(list, n)
  BY <1>3 DEF ListType, AddUserType, TableFields
<1> HIDE DEF defined, n, listed, list
<1>6. /\ IdsAreDense(listed) /\ NamesHaveTypes(listed)
      /\ TypesAreWellMade(listed) /\ PartsAreOlder(listed) /\ NativesAreNative(listed)
  <2>1. Ids(listed) = Ids(defined) /\ \A scope : Seen(listed, scope) = Seen(defined, scope)
    BY <1>5 DEF Ids, Seen
  <2>2. IdsAreDense(listed)
    BY <1>4, <1>5, <2>1 DEF IdsAreDense, NewTypeId, Ids
  <2>3. NamesHaveTypes(listed)
    BY <1>4, <1>5, <2>1 DEF NamesHaveTypes
  <2>4. TypesAreWellMade(listed)
    BY <1>4, <1>5, <2>1 DEF TypesAreWellMade, IsWellMade
  <2>5. PartsAreOlder(listed) /\ NativesAreNative(listed)
    BY <1>4, <1>5, <2>1 DEF PartsAreOlder, NativesAreNative
  <2> QED BY <2>2, <2>3, <2>4, <2>5
<1>7. /\ Ids(listed) = Ids(types) \cup {n}
      /\ \A id \in Ids(types) : listed.types[id] = types.types[id]
      /\ listed.types[n] = type
  BY <1>3, <1>5 DEF Ids
<1>8. list \in Seq(Ids(types)) /\ list \in Seq(Ids(listed)) /\ n \in Ids(listed)
  BY <1>1, <1>7, SeqMonotonic DEF ListIsComplete, list
<1>9. /\ Len(list) \in Nat /\ DOMAIN list = 1 .. Len(list)
      /\ \A j \in 1 .. Len(list) : list[j] \in Ids(types)
  BY <1>8, LenProperties
<1>10. /\ listed.userTypes \in Seq(Ids(listed)) /\ DOMAIN listed.userTypes = 1 .. Len(list) + 1
       /\ listed.userTypes[Len(list) + 1] = n
       /\ \A j \in 1 .. Len(list) : listed.userTypes[j] = list[j]
  BY <1>5, <1>8, AppendProperties, LenProperties
<1>11. /\ \A id \in Ids(types) : IsPrimitive(listed, id) <=> IsPrimitive(types, id)
       /\ ~IsPrimitive(listed, n)
  BY <1>7 DEF IsPrimitive
<1>12. \A id \in Ids(types) : ~IsPrimitive(types, id) <=> \E j \in 1 .. Len(list) : list[j] = id
  BY <1>1, <1>9 DEF ListIsComplete, list
<1>13. ListIsComplete(listed)
  <2> SUFFICES ASSUME NEW id \in Ids(listed)
               PROVE  ~IsPrimitive(listed, id) <=> \E j \in 1 .. Len(list) + 1 : listed.userTypes[j] = id
    BY <1>10 DEF ListIsComplete
  <2>1. CASE id = n
    BY <2>1, <1>9, <1>10, <1>11
  <2>2. CASE id # n
    <3>1. id \in Ids(types)
      BY <2>2, <1>7
    <3>2. \A j \in 1 .. Len(list) : j \in 1 .. Len(list) + 1
      BY <1>9
    <3>3. \A j \in 1 .. Len(list) + 1 : j \in 1 .. Len(list) \/ j = Len(list) + 1
      BY <1>9
    <3> QED BY <2>2, <3>1, <3>2, <3>3, <1>10, <1>11, <1>12
  <2> QED BY <2>1, <2>2
<1>14. ListIsOrdered(listed)
  <2> SUFFICES ASSUME NEW i \in 1 .. Len(list) + 1,
                      NEW part \in PartIds(listed.types[listed.userTypes[i]]) \cap Ids(listed),
                      ~IsPrimitive(listed, part)
               PROVE  \E j \in 1 .. i - 1 : listed.userTypes[j] = part
    BY <1>10 DEF ListIsOrdered
  <2>1. NoType \notin Ids(listed)
    BY <1>6, NewIdsAreNew
  <2>2. CASE i = Len(list) + 1
    <3>1. part \in PartIds(type)
      BY <2>2, <1>7, <1>10
    <3>2. part \in Ids(types)
      BY <2>1, <3>1, PartsAreSeen DEF Seen
    <3>3. ~IsPrimitive(types, part)
      BY <3>2, <1>11
    <3>4. PICK j \in 1 .. Len(list) : list[j] = part
      BY <3>2, <3>3, <1>12
    <3>5. j \in 1 .. i - 1
      BY <2>2, <1>9
    <3>6. listed.userTypes[j] = part
      BY <3>4, <1>10
    <3> QED BY <3>5, <3>6
  <2>3. CASE i # Len(list) + 1
    <3>1. i \in 1 .. Len(list) /\ list[i] \in Ids(types)
      BY <2>3, <1>9
    <3>2. listed.types[listed.userTypes[i]] = types.types[list[i]]
      BY <3>1, <1>7, <1>10
    <3>3. part \in PartIds(types.types[list[i]])
      BY <3>2
    <3>4. part \in Ids(types)
      <4>1. IsWellMade(types, types.types[list[i]])
        BY <3>1, <1>1 DEF TypesAreWellMade
      <4> QED BY <2>1, <3>3, <4>1, PartsAreSeen DEF Seen
    <3>5. ~IsPrimitive(types, part)
      BY <3>4, <1>11
    <3>6. PICK j \in 1 .. i - 1 : list[j] = part
      BY <3>1, <3>3, <3>4, <3>5, <1>1, <1>9 DEF ListIsOrdered, list
    <3>7. j \in 1 .. Len(list)
      BY <3>1, <1>9
    <3> QED BY <3>6, <3>7, <1>10
  <2> QED BY <2>2, <2>3
<1>15. Grows(types, listed) /\ n \in Seen(listed, type.scope)
  BY <1>7, <1>9, <1>10 DEF Grows, Seen, Path, list
<1> QED BY <1>5, <1>6, <1>7, <1>13, <1>14, <1>15 DEF TablesOK, n, listed

(***************************************************************************)
(* Counting a generated name changes nothing that the invariant reads.     *)
(***************************************************************************)
LEMMA CountingKeepsTables ==
    ASSUME NEW types, TablesOK(types)
    PROVE  /\ TablesOK(Counted(types)) /\ Grows(types, Counted(types))
           /\ Ids(Counted(types)) = Ids(types)
<1>1. /\ DOMAIN Counted(types) = TableFields
      /\ Counted(types).types = types.types /\ Counted(types).names = types.names
      /\ Counted(types).userTypes = types.userTypes
  BY DEF TablesOK, Counted, TableFields
<1>2. Ids(Counted(types)) = Ids(types)
  BY <1>1 DEF Ids
<1>3. TablesOK(Counted(types))
  <2> DEFINE counted == Counted(types)
  <2> HIDE DEF counted
  <2>1. /\ DOMAIN counted = TableFields /\ Ids(counted) = Ids(types)
        /\ \A scope : Seen(counted, scope) = Seen(types, scope)
        /\ counted.types = types.types /\ counted.names = types.names /\ counted.userTypes = types.userTypes
    BY <1>1, <1>2 DEF counted, Seen
  <2>2. IdsAreDense(counted)
    BY <2>1 DEF TablesOK, IdsAreDense, NewTypeId, Ids
  <2>3. NamesHaveTypes(counted)
    BY <2>1 DEF TablesOK, NamesHaveTypes
  <2>4. TypesAreWellMade(counted)
    BY <2>1 DEF TablesOK, TypesAreWellMade, IsWellMade
  <2>5. PartsAreOlder(counted) /\ NativesAreNative(counted)
    BY <2>1 DEF TablesOK, PartsAreOlder, NativesAreNative
  <2>6. ListIsComplete(counted)
    BY <2>1 DEF TablesOK, ListIsComplete, IsPrimitive
  <2>7. ListIsOrdered(counted)
    <3>1. ListIsOrdered(types) /\ \A id : IsPrimitive(counted, id) <=> IsPrimitive(types, id)
      BY <2>1 DEF TablesOK, IsPrimitive
    <3> QED BY <2>1, <3>1 DEF ListIsOrdered
  <2> QED BY <2>1, <2>2, <2>3, <2>4, <2>5, <2>6, <2>7 DEF TablesOK, counted
<1> QED BY <1>1, <1>2, <1>3 DEF Grows

(***************************************************************************)
(* A name that is found is that of a type.                                 *)
(***************************************************************************)
LEMMA LookupFindsATypeOrNone ==
    ASSUME NEW types, TablesOK(types), NEW scope \in {Global, Routine}, NEW ident
    PROVE  LookupType(types, scope, ident) \in Seen(types, scope) \cup {NoType}
BY GlobalIsSeen DEF LookupType, TablesOK, NamesHaveTypes

-----------------------------------------------------------------------------
(* The calls.                                                              *)

\* The scope of a call is one of the two.
LEMMA CurrentScopeIsOne == CurrentScope \in {Global, Routine}
BY DEF CurrentScope

\* What a call has found stays found.
LEMMA CallsStayRight ==
    ASSUME NEW old, NEW new, Grows(old, new), NEW scope, NEW call, CallOK(old, scope, call)
    PROVE  CallOK(new, scope, call)
<1>1. Seen(old, scope) \subseteq Seen(new, scope)
  BY SeenIsKept DEF Grows
<1> QED BY <1>1, SeqMonotonic DEF CallOK

(***************************************************************************)
(* No call, or the calls of the same item.                                 *)
(***************************************************************************)
LEMMA NoCallsAreRight ==
    ASSUME defining' = <<>>
    PROVE  CallsOK'
BY EmptySeq DEF CallsOK, IsSequence

\* While there are calls, the scope that they look in stays the same.
LEMMA SomeCallsAreRight ==
    ASSUME phase' = phase, phase \in {"parse", "globals", "locals", "vars"}, IsSequence(defining'),
           \A i \in DOMAIN defining' : CallOK(tables', CurrentScope, defining'[i])
    PROVE  CallsOK'
<1>1. CurrentScope' = CurrentScope
  BY DEF CurrentScope
<1>2. IsSequence(defining)'
  BY DEF IsSequence
<1>3. \A i \in DOMAIN defining' : CallOK(tables, CurrentScope, defining[i])'
  BY <1>1 DEF CallOK, Seen, Ids
<1> QED BY <1>2, <1>3 DEF CallsOK

(***************************************************************************)
(* A new call has found nothing yet.                                       *)
(***************************************************************************)
LEMMA CallingKeepsInv ==
    ASSUME TablesInv, TablesOK(tables'), Grows(tables, tables'), NEW name, NEW def, CallDefineType(name, def),
           phase \in {"parse", "globals", "locals", "vars"}
    PROVE  TablesInv'
<1> DEFINE call == DefinitionOf(name, def)
<1>1. IsSequence(defining) /\ \A i \in DOMAIN defining : CallOK(tables, CurrentScope, defining[i])
  BY DEF TablesInv, CallsOK
<1>2. defining' = Append(defining, call) /\ phase' = phase
  BY DEF CallDefineType
<1>3. CallOK(tables', CurrentScope, call)
  BY EmptySeq DEF CallOK, DefinitionOf
<1>4. \A i \in DOMAIN defining : CallOK(tables', CurrentScope, defining[i])
  BY <1>1, CallsStayRight
<1> HIDE DEF call
<1>5. /\ IsSequence(defining') /\ DOMAIN defining' = 1 .. Len(defining) + 1
      /\ Len(defining) \in Nat /\ DOMAIN defining = 1 .. Len(defining)
      /\ defining'[Len(defining) + 1] = call
      /\ \A j \in DOMAIN defining : defining'[j] = defining[j]
  <2>1. IsSequence(defining') /\ Len(defining') = Len(defining) + 1
    BY <1>1, <1>2, SequencesStay
  <2>2. DOMAIN defining' = 1 .. Len(defining')
    BY <2>1, SequencesStay
  <2> QED BY <1>1, <1>2, <2>1, <2>2, SequencesStay
<1>6. ASSUME NEW i \in DOMAIN defining' PROVE CallOK(tables', CurrentScope, defining'[i])
  <2>1. CASE i = Len(defining) + 1
    BY <2>1, <1>3, <1>5
  <2>2. CASE i # Len(defining) + 1
    <3>1. i \in DOMAIN defining
      BY <2>2, <1>5
    <3> QED BY <3>1, <1>4, <1>5
  <2> QED BY <2>1, <2>2
<1>7. CallsOK'
  BY <1>2, <1>5, <1>6, SomeCallsAreRight
<1> QED BY <1>7 DEF TablesInv, TablesOK

(***************************************************************************)
(* The innermost call is there, and so are its callers.                    *)
(***************************************************************************)
LEMMA InnermostIsACall ==
    ASSUME TablesInv, defining # <<>>
    PROVE  /\ CallOK(tables, CurrentScope, Innermost)
           /\ LET callers == SubSeq(defining, 1, Len(defining) - 1) IN
              IsSequence(callers) /\ \A i \in DOMAIN callers : CallOK(tables, CurrentScope, callers[i])
<1> DEFINE callers == SubSeq(defining, 1, Len(defining) - 1)
<1>1. IsSequence(defining) /\ \A i \in DOMAIN defining : CallOK(tables, CurrentScope, defining[i])
  BY DEF TablesInv, CallsOK
<1>2. /\ Len(defining) \in Nat /\ DOMAIN defining = 1 .. Len(defining)
      /\ IsSequence(callers) /\ Len(callers) = Len(defining) - 1
      /\ \A j \in 1 .. Len(defining) - 1 : callers[j] = defining[j]
  BY <1>1, SequencesStay
<1>3. DOMAIN callers = 1 .. Len(callers) /\ Len(callers) \in Nat
  BY <1>2, SequencesStay
<1> HIDE DEF callers
<1>4. Len(defining) \in DOMAIN defining
  BY <1>2, <1>3
<1>5. ASSUME NEW i \in DOMAIN callers PROVE CallOK(tables, CurrentScope, callers[i])
  <2>1. i \in DOMAIN defining /\ callers[i] = defining[i]
    BY <1>2, <1>3
  <2> QED BY <2>1, <1>1
<1> QED BY <1>1, <1>2, <1>4, <1>5 DEF Innermost, callers

(***************************************************************************)
(* A caller that gets a type, or none where it can do without, goes on.    *)
(***************************************************************************)
LEMMA FoundPartsKeepInv ==
    ASSUME TablesInv, NEW types, TablesOK(types), Grows(tables, types),
           NEW calls, calls # <<>>, IsSequence(calls), \A i \in DOMAIN calls : CallOK(types, CurrentScope, calls[i]),
           NEW id \in Seen(types, CurrentScope) \cup {NoType}, PartFound(calls, types, id), defining # <<>>
    PROVE  TablesInv' /\ Grows(tables, tables')
<1> DEFINE n == Len(calls)
           call == [calls[n] EXCEPT !.parts = Append(@, id)]
<1>1. n \in DOMAIN calls /\ DOMAIN calls = 1 .. n /\ n \in Nat
  <2>1. DOMAIN calls = 1 .. n /\ n \in Nat
    BY SequencesStay
  <2>2. n # 0
    BY EmptySeq DEF IsSequence
  <2> QED BY <2>1, <2>2
<1>2. CASE id = NoType /\ calls[n].def.form = "record"
  <2>1. defining' = <<>> /\ tables' = tables
    BY <1>2 DEF PartFound, Crash
  <2>2. CallsOK'
    BY <2>1, NoCallsAreRight
  <2> QED BY <2>1, <2>2 DEF TablesInv, TablesOK, Grows
<1>3. CASE ~(id = NoType /\ calls[n].def.form = "record")
  <2>1. defining' = [calls EXCEPT ![n] = call] /\ tables' = types /\ phase' = phase
    BY <1>1, <1>3 DEF PartFound
  <2>2. CallOK(types, CurrentScope, calls[n])
    BY <1>1
  <2>3. CallOK(types, CurrentScope, call)
    <3>1. DOMAIN call = {"name", "def", "parts"} /\ call.parts = Append(calls[n].parts, id) /\ call.def = calls[n].def
      BY <2>2 DEF CallOK
    <3>2. call.parts \in Seq(Seen(types, CurrentScope) \cup {NoType})
      BY <2>2, <3>1, AppendProperties DEF CallOK
    <3>3. call.def.form = "record" => call.parts \in Seq(Seen(types, CurrentScope))
      BY <1>3, <2>2, <3>1, AppendProperties DEF CallOK
    <3> HIDE DEF call
    <3> QED BY <3>1, <3>2, <3>3 DEF CallOK
  <2> HIDE DEF call
  <2>4. IsSequence(defining')
    BY <1>1, <2>1, SequencesStay
  <2>5. \A i \in DOMAIN defining' : CallOK(types, CurrentScope, defining'[i])
    BY <1>1, <2>1, <2>3
  <2>6. CallsOK'
    <3>1. phase \in {"parse", "globals", "locals", "vars"}
      BY DEF TablesInv, CallsOK
    <3> QED BY <2>1, <2>4, <2>5, <3>1, SomeCallsAreRight
  <2>7. TablesOK(tables') /\ Grows(tables, tables')
    BY <2>1
  <2> QED BY <2>6, <2>7 DEF TablesInv, TablesOK
<1> QED BY <1>2, <1>3

(***************************************************************************)
(* So does the end of a call, whoever made it.                             *)
(***************************************************************************)
LEMMA ReturnsKeepInv ==
    ASSUME TablesInv, defining # <<>>, NEW types, TablesOK(types), Grows(tables, types),
           NEW id \in Seen(types, CurrentScope) \cup {NoType}, Return(types, id)
    PROVE  TablesInv' /\ Grows(tables, tables')
<1> DEFINE callers == SubSeq(defining, 1, Len(defining) - 1)
<1>1. IsSequence(callers) /\ \A i \in DOMAIN callers : CallOK(types, CurrentScope, callers[i])
  BY InnermostIsACall, CallsStayRight
<1>2. CASE callers # <<>>
  <2>1. PartFound(callers, types, id)
    BY <1>2 DEF Return
  <2> HIDE DEF callers
  <2> QED BY <1>1, <1>2, <2>1, FoundPartsKeepInv
<1>3. CASE callers = <<>>
  <2>1. defining' = <<>> /\ tables' = types
    <3>1. CASE phase = "vars"
      BY <1>3, <3>1 DEF Return, VariableFound
    <3>2. CASE phase # "vars"
      BY <1>3, <3>2 DEF Return
    <3> QED BY <3>1, <3>2
  <2>2. CallsOK'
    BY <2>1, NoCallsAreRight
  <2>3. TablesOK(tables') /\ Grows(tables, tables')
    BY <2>1
  <2> QED BY <2>2, <2>3 DEF TablesInv, TablesOK
<1> QED BY <1>2, <1>3

\* A crash ends all calls.
LEMMA CrashesKeepInv ==
    ASSUME TablesInv, Crash
    PROVE  TablesInv' /\ Grows(tables, tables')
<1>1. defining' = <<>> /\ tables' = tables
  BY DEF Crash
<1>2. CallsOK'
  BY <1>1, NoCallsAreRight
<1>3. TablesOK(tables') /\ Grows(tables, tables')
  BY <1>1 DEF TablesInv, Grows
<1> QED BY <1>2, <1>3 DEF TablesInv, TablesOK

-----------------------------------------------------------------------------
(* The actions.                                                            *)

(***************************************************************************)
(* The steps of defineType.                                                *)
(***************************************************************************)
LEMMA AliasesKeepInv ==
    ASSUME TablesInv, DefineAlias
    PROVE  TablesInv' /\ Grows(tables, tables')
<1> DEFINE base == LookupType(tables, CurrentScope, Innermost.def.ident)
           type == AliasType(Innermost, CurrentScope, base)
<1>1. TablesOK(tables) /\ defining # <<>>
  BY DEF TablesInv, DefineAlias
<1>2. base \in Seen(tables, CurrentScope) \cup {NoType}
  BY <1>1, CurrentScopeIsOne, LookupFindsATypeOrNone
<1> HIDE DEF base
<1>3. CASE base = NoType
  <2>1. Return(tables, NoType)
    BY <1>3 DEF DefineAlias, base
  <2>2. Grows(tables, tables)
    BY DEF Grows
  <2> QED BY <1>1, <2>1, <2>2, ReturnsKeepInv
<1>4. CASE base # NoType
  <2> DEFINE new == DefineTypeObject(tables, type)
  <2>1. Return(new, NewTypeId(tables))
    BY <1>4 DEF DefineAlias, base
  <2>2. type.kind = "alias" /\ IsWellMade(tables, type) /\ type.scope = CurrentScope
    BY <1>2, <1>4, CurrentScopeIsOne DEF AliasType, TypeObject, IsWellMade
  <2> HIDE DEF type
  <2>3. TablesOK(new) /\ Grows(tables, new) /\ NewTypeId(tables) \in Seen(new, CurrentScope)
    BY <1>1, <2>2, AliasIsDefined
  <2> HIDE DEF new
  <2> QED BY <1>1, <2>1, <2>3, ReturnsKeepInv
<1> QED BY <1>3, <1>4

\* A part with a name is looked up.
LEMMA NamedPartsKeepInv ==
    ASSUME TablesInv, FindPart
    PROVE  TablesInv' /\ Grows(tables, tables')
<1> DEFINE id == LookupType(tables, CurrentScope, NextPart.ident)
<1>1. /\ TablesOK(tables) /\ defining # <<>>
      /\ IsSequence(defining) /\ \A i \in DOMAIN defining : CallOK(tables, CurrentScope, defining[i])
      /\ PartFound(defining, tables, id)
  BY DEF TablesInv, CallsOK, FindPart, HasNextPart
<1>2. id \in Seen(tables, CurrentScope) \cup {NoType}
  BY <1>1, CurrentScopeIsOne, LookupFindsATypeOrNone
<1>3. Grows(tables, tables)
  BY DEF Grows
<1> HIDE DEF id
<1> QED BY <1>1, <1>2, <1>3, FoundPartsKeepInv

\* A part without one is a call of its own.
LEMMA GeneratedTypesKeepInv ==
    ASSUME TablesInv, NEW def, DefineGenerated(def), phase \in {"parse", "globals", "locals", "vars"}
    PROVE  TablesInv' /\ Grows(tables, tables')
<1>1. tables' = Counted(tables) /\ CallDefineType(GeneratedName(tables), def)
  BY DEF DefineGenerated
<1>2. TablesOK(tables)
  BY DEF TablesInv
<1>3. TablesOK(Counted(tables)) /\ Grows(tables, Counted(tables))
  BY <1>2, CountingKeepsTables
<1>4. TablesOK(tables') /\ Grows(tables, tables')
  BY <1>1, <1>3
<1> QED BY <1>1, <1>4, CallingKeepsInv

\* The end of the call for an array.
LEMMA ArraysKeepInv ==
    ASSUME TablesInv, DefineArray
    PROVE  TablesInv' /\ Grows(tables, tables')
<1> DEFINE size == RunTypeTrace(Current, Innermost.def.size)
           cast == IF size.type = INT THEN NoIndex ELSE CastFromTraced(Current, size, INT)
           type == ArrayType(Innermost, CurrentScope, IF cast = NoIndex THEN size ELSE cast)
           new == ListType(tables, type)
<1>1. TablesOK(tables) /\ defining # <<>> /\ Innermost.def.form = "array" /\ ~HasNextPart
  BY DEF TablesInv, DefineArray
<1>2. \/ Return(tables, NoType)
      \/ Crash
      \/ Innermost.parts[1] # NoType /\ Return(new, NewTypeId(tables))
  <2> HIDE DEF new
  <2>1. CASE size.type = NoType
    BY <2>1 DEF DefineArray
  <2>2. CASE size.type # NoType /\ (Abort \in {size, cast} \/ Innermost.parts[1] = NoType)
    BY <2>2 DEF DefineArray
  <2>3. CASE size.type # NoType /\ ~(Abort \in {size, cast} \/ Innermost.parts[1] = NoType)
    BY <2>3 DEF DefineArray, new
  <2> QED BY <2>1, <2>2, <2>3
<1>3. CASE Return(tables, NoType)
  <2>1. Grows(tables, tables)
    BY DEF Grows
  <2> QED BY <1>1, <1>3, <2>1, ReturnsKeepInv
<1>4. CASE Crash
  BY <1>4, CrashesKeepInv
<1>5. CASE Innermost.parts[1] # NoType /\ Return(new, NewTypeId(tables))
  <2>1. Innermost.parts \in Seq(Seen(tables, CurrentScope) \cup {NoType})
    BY <1>1, InnermostIsACall DEF CallOK
  <2>2. Len(Innermost.parts) >= 1
    <3>1. Len(Parts(Innermost.def)) = 1
      BY <1>1 DEF Parts
    <3>2. Len(Innermost.parts) \in Nat
      BY <2>1, LenProperties
    <3> QED BY <1>1, <3>1, <3>2 DEF HasNextPart
  <2>3. Innermost.parts[1] \in Seen(tables, CurrentScope)
    BY <1>5, <2>1, <2>2, ElementOfSeq
  <2>4. type.kind = "array" /\ IsWellMade(tables, type) /\ type.scope = CurrentScope
    BY <2>3, CurrentScopeIsOne DEF ArrayType, TypeObject, IsWellMade
  <2> HIDE DEF type
  <2>5. TablesOK(new) /\ Grows(tables, new) /\ NewTypeId(tables) \in Seen(new, CurrentScope)
    BY <1>1, <2>4, TypeIsListed
  <2> HIDE DEF new
  <2> QED BY <1>1, <1>5, <2>5, ReturnsKeepInv
<1> HIDE DEF new
<1> QED BY <1>2, <1>3, <1>4, <1>5

\* The end of the call for a record.
LEMMA RecordsKeepInv ==
    ASSUME TablesInv, DefineRecord
    PROVE  TablesInv' /\ Grows(tables, tables')
<1> DEFINE type == RecordType(Innermost, CurrentScope)
           new == ListType(tables, type)
<1>1. /\ TablesOK(tables) /\ defining # <<>> /\ Innermost.def.form = "record"
      /\ Return(new, NewTypeId(tables))
  BY DEF TablesInv, DefineRecord
<1>2. Innermost.parts \in Seq(Seen(tables, CurrentScope))
  BY <1>1, InnermostIsACall DEF CallOK
<1>3. \A k \in DOMAIN Innermost.parts : Innermost.parts[k] \in Seen(tables, CurrentScope)
  BY <1>2, LenProperties
<1>4. type.kind = "record" /\ IsWellMade(tables, type) /\ type.scope = CurrentScope
  BY <1>3, CurrentScopeIsOne DEF RecordType, TypeObject, IsWellMade
<1> HIDE DEF type
<1>5. TablesOK(new) /\ Grows(tables, new) /\ NewTypeId(tables) \in Seen(new, CurrentScope)
  BY <1>1, <1>4, TypeIsListed
<1> HIDE DEF new
<1> QED BY <1>1, <1>5, ReturnsKeepInv

(***************************************************************************)
(* The invariant says nothing of what the other actions change.            *)
(***************************************************************************)
LEMMA UntouchedTablesKeepInv ==
    ASSUME TablesInv, UNCHANGED <<defining, tables>>, defining = <<>> \/ UNCHANGED phase
    PROVE  TablesInv' /\ Grows(tables, tables')
<1>1. TablesOK(tables') /\ Grows(tables, tables')
  BY DEF TablesInv, Grows
<1>2. CASE defining = <<>>
  BY <1>2, NoCallsAreRight, <1>1 DEF TablesInv, TablesOK
<1>3. CASE defining # <<>> /\ UNCHANGED phase
  <2>1. CallsOK'
    BY <1>3, SomeCallsAreRight DEF TablesInv, CallsOK, IsSequence
  <2> QED BY <1>1, <2>1 DEF TablesInv, TablesOK
<1> QED BY <1>2, <1>3

(***************************************************************************)
(* Every action keeps the invariant and what the tables hold.              *)
(***************************************************************************)
LEMMA StepsKeepInv ==
    ASSUME TablesInv, [Next]_allVars
    PROVE  TablesInv' /\ Grows(tables, tables')
<1>0. phase \in {"routine", "statements", "types", "header", "values", "code"} => defining = <<>>
  BY DEF TablesInv, CallsOK
<1>1. CASE ParseTypeDeclaration
  <2>1. CASE program.locals[at].def.form = "record"
    BY <1>1, <2>1, GeneratedTypesKeepInv DEF ParseTypeDeclaration
  <2>2. CASE program.locals[at].def.form # "record"
    BY <1>1, <2>2, UntouchedTablesKeepInv DEF ParseTypeDeclaration
  <2> QED BY <2>1, <2>2
<1>2. ASSUME NEW list \in {"globals", "locals"}, NEW declarations, DefineTypes(list, declarations)
      PROVE  TablesInv' /\ Grows(tables, tables')
  <2>1. tables' = tables /\ phase = list /\ CallDefineType(Declared(declarations[at].name), declarations[at].def)
    BY <1>2 DEF DefineTypes
  <2>2. TablesOK(tables') /\ Grows(tables, tables')
    BY <2>1 DEF TablesInv, Grows
  <2> QED BY <2>1, <2>2, CallingKeepsInv
<1>3. CASE DefineGlobalType \/ DefineLocalType
  BY <1>2, <1>3 DEF DefineGlobalType, DefineLocalType
<1>4. CASE DefineRoutine
  BY <1>4, <1>0, UntouchedTablesKeepInv DEF DefineRoutine
<1>5. CASE DefineVariable
  <2>1. ASSUME NEW early, NEW id, VariableFound(program.vars[at], early, tables, id), UNCHANGED defining
        PROVE  TablesInv' /\ Grows(tables, tables')
    BY <1>5, <2>1, UntouchedTablesKeepInv DEF VariableFound, DefineVariable
  <2>2. CASE DefineGenerated(program.vars[at].def)
    BY <1>5, <2>2, GeneratedTypesKeepInv DEF DefineVariable
  <2> QED BY <1>5, <2>1, <2>2 DEF DefineVariable
<1>6. CASE DefineAlias
  BY <1>6, AliasesKeepInv
<1>7. CASE FindPart
  BY <1>7, NamedPartsKeepInv
<1>8. CASE DefinePart
  BY <1>8, GeneratedTypesKeepInv DEF DefinePart, HasNextPart, TablesInv, CallsOK
<1>9. CASE DefineArray
  BY <1>9, ArraysKeepInv
<1>10. CASE DefineRecord
  BY <1>10, RecordsKeepInv
<1>11. CASE ProcessExpressionStatement \/ ProcessReturnStatement \/ ProcessIfStatement
  BY <1>11, <1>0, UntouchedTablesKeepInv DEF ProcessExpressionStatement, ProcessReturnStatement, ProcessIfStatement, Traced
<1>12. CASE GenerateType \/ GenerateFunctionDeclaration \/ GenerateVariable \/ GenerateStatement
  BY <1>12, <1>0, UntouchedTablesKeepInv DEF GenerateType, GenerateFunctionDeclaration, GenerateVariable,
                                       GenerateStatement, Emit
<1>13. CASE UNCHANGED allVars
  BY <1>13, UntouchedTablesKeepInv DEF allVars
<1> QED BY <1>1, <1>3, <1>4, <1>5, <1>6, <1>7, <1>8, <1>9, <1>10, <1>11, <1>12, <1>13 DEF Next

(***************************************************************************)
(* The native types are tables to begin with.                              *)
(***************************************************************************)
LEMMA BuiltinTablesOK == TablesOK(InitBuiltinTypes)
<1> DEFINE types == InitBuiltinTypes
<1>1. /\ DOMAIN types = TableFields /\ Ids(types) = Natives
      /\ types.types = [id \in Natives |-> NativeType(NativeName(id))]
      /\ types.names = [s \in {Global, Routine} |-> IF s = Global THEN [name \in NativeNames |-> NativeId(name)]
                                                   ELSE <<>>]
      /\ types.userTypes = <<>>
  BY DEF InitBuiltinTypes, TableFields, Ids
<1> HIDE DEF types
<1>2. \A id \in Ids(types) : /\ types.types[id].kind = "native" /\ types.types[id].base = NoType
                             /\ types.types[id].members = <<>> /\ types.types[id].scope = Global
  BY <1>1 DEF NativeType, TypeObject
<1>3. IdsAreDense(types)
  <2>1. Ids(types) \ Natives = {}
    BY <1>1
  <2>2. NewTypeId(types) = FirstUserId
    BY <2>1, FS_EmptySet DEF NewTypeId, Ids, FirstUserId
  <2>3. FirstUserId .. FirstUserId - 1 = {}
    BY DEF FirstUserId
  <2>4. IsFiniteSet(Natives)
    <3>1. Natives = {VOID} \cup {BOOL} \cup {INT} \cup {FLOAT}
      BY DEF Natives
    <3> QED BY <3>1, FS_Singleton, FS_Union
  <2> QED BY <1>1, <2>2, <2>3, <2>4 DEF IdsAreDense
<1>4. NamesHaveTypes(types)
  <2>1. \A name \in NativeNames : NativeId(name) \in Natives
    BY DEF NativeNames, NativeId, Natives
  <2>2. Global # Routine
    BY DEF Global, Routine
  <2>3. Natives \subseteq Seen(types, Global)
    BY <1>1, <1>2 DEF Seen, Path
  <2> QED BY <1>1, <2>1, <2>2, <2>3 DEF NamesHaveTypes
<1>5. TypesAreWellMade(types)
  BY <1>2 DEF TypesAreWellMade, IsWellMade
<1>6. NativesAreNative(types)
  BY <1>1, <1>2 DEF NativesAreNative
<1>7. PartsAreOlder(types)
  BY <1>1, <1>2 DEF PartsAreOlder, PartIds, NoType, Natives, VOID, BOOL, INT, FLOAT
<1>8. ListIsComplete(types)
  BY <1>1, <1>2, EmptySeq DEF ListIsComplete, IsPrimitive
<1>9. ListIsOrdered(types)
  BY <1>1 DEF ListIsOrdered
<1> QED BY <1>1, <1>3, <1>4, <1>5, <1>6, <1>7, <1>8, <1>9 DEF TablesOK, types

\* The invariant holds to begin with.
LEMMA InitialTablesKeepInv == Init => TablesInv
BY BuiltinTablesOK, EmptySeq DEF Init, TablesInv, CallsOK, IsSequence

\* And always.
LEMMA TablesInvHolds == Spec => []TablesInv
<1>1. TablesInv /\ [Next]_allVars => TablesInv'
  BY StepsKeepInv
<1> QED BY <1>1, InitialTablesKeepInv, PTL DEF Spec

-----------------------------------------------------------------------------
(* The layouts.                                                            *)

(***************************************************************************)
(* The lists are gone through one after the other: the next item is in the *)
(* same list, or the first of the next list that has items.                *)
(***************************************************************************)
LEMMA AdvanceMoves ==
    ASSUME NEW types, NEW current \in 1 .. 10, phase = Lists[current], Advance(types)
    PROVE  \/ at < Items(phase, types) /\ at' = at + 1 /\ phase' = phase
           \/ /\ ~(at < Items(phase, types)) /\ at' = 1
              /\ \E i \in current + 1 .. 10 : /\ phase' = Lists[i] /\ Items(Lists[i], types) > 0
                                              /\ \A j \in current + 1 .. i - 1 : ~(Items(Lists[j], types) > 0)
           \/ /\ ~(at < Items(phase, types)) /\ at' = 1 /\ phase' = "generated"
              /\ \A j \in current + 1 .. 10 : ~(Items(Lists[j], types) > 0)
<1> DEFINE later == {i \in DOMAIN Lists : i > current /\ Items(Lists[i], types) > 0}
           first == CHOOSE i \in later : \A j \in later : i <= j
<1>1. DOMAIN Lists = 1 .. 10
  BY DEF Lists
<1>2. \A i \in DOMAIN Lists : Lists[i] = phase => i = current
  BY DEF Lists
<1>3. (CHOOSE i \in DOMAIN Lists : Lists[i] = phase) = current
  BY <1>1, <1>2
<1>4. IF at < Items(phase, types) THEN at' = at + 1 /\ phase' = phase
      ELSE at' = 1 /\ phase' = IF later = {} THEN "generated" ELSE Lists[first]
  BY <1>3 DEF Advance
<1>5. \A i \in current + 1 .. 10 : i \in later <=> Items(Lists[i], types) > 0
  BY <1>1
<1>6. later \subseteq current + 1 .. 10
  BY <1>1
<1>7. ASSUME later # {}
      PROVE  first \in later /\ \A j \in later : first <= j
  <2>1. \E i \in later : \A j \in later : i <= j
    <3> HIDE DEF later
    <3> DEFINE R == OpToRel(<, Nat)
    <3>1. later \in SUBSET Nat
      BY <1>6
    <3>2. PICK i \in later : \A j \in later : ~(<<j, i>> \in R)
      <4> HIDE DEF R
      <4> QED BY <1>7, <3>1, NatLessThanWellFounded, WFMin DEF R
    <3>3. \A j \in later : ~(j < i)
      BY <3>1, <3>2 DEF OpToRel
    <3>4. \A j \in later : i <= j
      BY <3>1, <3>3
    <3> QED BY <3>4
  <2> HIDE DEF later
  <2> QED BY <2>1
<1> HIDE DEF later, first
<1>8. CASE at < Items(phase, types)
  BY <1>4, <1>8
<1>9. CASE ~(at < Items(phase, types)) /\ later = {}
  BY <1>4, <1>5, <1>9
<1>10. CASE ~(at < Items(phase, types)) /\ later # {}
  <2>1. at' = 1 /\ phase' = Lists[first]
    BY <1>4, <1>10
  <2>2. first \in later /\ first \in current + 1 .. 10 /\ Items(Lists[first], types) > 0
    BY <1>5, <1>6, <1>7, <1>10
  <2>3. \A j \in current + 1 .. first - 1 : j \in current + 1 .. 10 /\ ~(first <= j)
    BY <2>2
  <2>4. \A j \in current + 1 .. first - 1 : ~(Items(Lists[j], types) > 0)
    BY <1>5, <1>7, <1>10, <2>3
  <2> QED BY <1>10, <2>1, <2>2, <2>4
<1> QED BY <1>8, <1>9, <1>10

(***************************************************************************)
(* What a step before code generation does: it stays with its item while   *)
(* types are being defined, it ends, or it goes on with the tables it has  *)
(* made.                                                                   *)
(***************************************************************************)
EarlyMove ==
    /\ phase \in BeforeTypes /\ gen' = gen
    /\ \/ phase' = phase /\ phase \in {"parse", "globals", "locals", "vars"}
       \/ phase' = "aborted" /\ defining' = <<>>
       \/ Advance(tables') /\ defining' = <<>>

\* No layout is made by such a move, and the list of types is there when it ends.
LEMMA EarlyMovesKeepLayouts ==
    ASSUME LayoutsInv, EarlyMove, TablesOK(tables')
    PROVE  LayoutsInv'
<1>1. LaidOut = {} /\ gen' = gen /\ phase \in BeforeTypes
  BY DEF LayoutsInv, EarlyMove
<1>2. tables'.userTypes \in Seq(Ids(tables'))
  BY DEF TablesOK, ListIsComplete
<1>3. Len(tables'.userTypes) \in Nat /\ DOMAIN tables'.userTypes = 1 .. Len(tables'.userTypes)
  BY <1>2, LenProperties
<1>4. LaidOut' = {}
  BY <1>1 DEF LaidOut
<1>5. CASE phase' = phase /\ phase \in {"parse", "globals", "locals", "vars"}
  BY <1>1, <1>4, <1>5 DEF LayoutsInv, BeforeTypes, AfterTypes
<1>6. CASE phase' = "aborted" /\ defining' = <<>>
  BY <1>1, <1>6 DEF LayoutsInv, BeforeTypes, AfterTypes, Ends
<1>7. CASE Advance(tables') /\ defining' = <<>>
  <2>1. PICK current \in 1 .. 6 : phase = Lists[current]
    BY <1>1 DEF BeforeTypes, Lists
  <2>2. Items("types", tables') = Len(tables'.userTypes) /\ Lists[7] = "types"
    BY DEF Items, Lists
  <2>3. \A i \in 1 .. 6 : Lists[i] \in BeforeTypes
    BY DEF Lists, BeforeTypes
  <2>4. \A i \in 8 .. 10 : Lists[i] \in AfterTypes \ {"generated"}
    BY DEF Lists, AfterTypes
  <2>5. \/ phase' \in BeforeTypes
        \/ phase' = "types" /\ at' = 1 /\ Len(tables'.userTypes) > 0
        \/ phase' \in AfterTypes /\ ~(Len(tables'.userTypes) > 0)
    <3>1. CASE phase' = phase
      BY <1>1, <3>1
    <3>2. ASSUME NEW i \in current + 1 .. 10, at' = 1, phase' = Lists[i], Items(Lists[i], tables') > 0,
                 \A j \in current + 1 .. i - 1 : ~(Items(Lists[j], tables') > 0)
          PROVE  \/ phase' \in BeforeTypes
                 \/ phase' = "types" /\ at' = 1 /\ Len(tables'.userTypes) > 0
                 \/ phase' \in AfterTypes /\ ~(Len(tables'.userTypes) > 0)
      <4>1. CASE i < 7
        BY <2>3, <3>2, <4>1
      <4>2. CASE i = 7
        BY <2>2, <3>2, <4>2
      <4>3. CASE i > 7
        BY <2>2, <2>4, <3>2, <4>3
      <4> QED BY <4>1, <4>2, <4>3
    <3>3. CASE phase' = "generated" /\ \A j \in current + 1 .. 10 : ~(Items(Lists[j], tables') > 0)
      BY <2>2, <3>3 DEF AfterTypes
    <3>4. current \in 1 .. 10
      OBVIOUS
    <3>5. \/ phase' = phase
          \/ at' = 1 /\ \E i \in current + 1 .. 10 :
                            /\ phase' = Lists[i] /\ Items(Lists[i], tables') > 0
                            /\ \A j \in current + 1 .. i - 1 : ~(Items(Lists[j], tables') > 0)
          \/ phase' = "generated" /\ \A j \in current + 1 .. 10 : ~(Items(Lists[j], tables') > 0)
      BY <1>7, <2>1, <3>4, AdvanceMoves
    <3> QED BY <3>1, <3>2, <3>3, <3>5
  <2>6. DOMAIN gen' = {"layouts", "constructors", "allocations", "made", "vals", "sigs"}
    BY <1>1 DEF LayoutsInv
  <2>7. CASE phase' \in BeforeTypes
    BY <1>4, <1>7, <2>6, <2>7 DEF LayoutsInv, BeforeTypes, AfterTypes
  <2>8. CASE phase' = "types" /\ at' = 1 /\ Len(tables'.userTypes) > 0
    <3>1. at' \in DOMAIN tables'.userTypes
      BY <1>3, <2>8
    <3>2. {tables'.userTypes[j] : j \in 1 .. at' - 1} = {}
      BY <2>8
    <3> QED BY <1>4, <1>7, <2>6, <2>8, <3>1, <3>2 DEF LayoutsInv, BeforeTypes, AfterTypes
  <2>9. CASE phase' \in AfterTypes /\ ~(Len(tables'.userTypes) > 0)
    <3>1. DOMAIN tables'.userTypes = {}
      BY <1>3, <2>9
    <3> QED BY <1>7, <2>6, <2>9, <3>1 DEF LayoutsInv, BeforeTypes, AfterTypes
  <2> QED BY <2>5, <2>7, <2>8, <2>9
<1> QED BY <1>5, <1>6, <1>7 DEF EarlyMove

(***************************************************************************)
(* The steps of the parser and of the semantic pass are such moves: those  *)
(* of a call, and those of the items.                                      *)
(***************************************************************************)
LEMMA VariablesMoveOn ==
    ASSUME NEW decl, NEW early, NEW types, NEW id, VariableFound(decl, early, types, id)
    PROVE  tables' = types /\ gen' = gen /\ (phase' = "aborted" \/ Advance(tables'))
<1>1. tables' = types /\ gen' = gen
  BY DEF VariableFound
<1>2. EndIn("aborted") \/ Advance(types)
  BY DEF VariableFound, Decide
<1> QED BY <1>1, <1>2 DEF EndIn

\* What ends or continues a call.
LEMMA CallsMoveOn ==
    ASSUME TablesInv, defining # <<>>
    PROVE  /\ Crash => EarlyMove
           /\ \A calls, types, id : PartFound(calls, types, id) => EarlyMove
           /\ \A types, id : Return(types, id) => EarlyMove
           /\ \A def : DefineGenerated(def) => EarlyMove
<1>1. phase \in {"parse", "globals", "locals", "vars"} /\ phase \in BeforeTypes
  BY DEF TablesInv, CallsOK, BeforeTypes
<1>2. Crash => EarlyMove
  BY <1>1 DEF Crash, EndIn, EarlyMove
<1>3. ASSUME NEW calls, NEW types, NEW id, PartFound(calls, types, id)
      PROVE  EarlyMove
  BY <1>1, <1>2, <1>3 DEF PartFound, EarlyMove
<1>4. ASSUME NEW types, NEW id, Return(types, id)
      PROVE  EarlyMove
  <2> DEFINE callers == SubSeq(defining, 1, Len(defining) - 1)
  <2>1. CASE callers # <<>>
    <3>1. PartFound(callers, types, id)
      BY <1>4, <2>1 DEF Return
    <3> QED BY <1>3, <3>1
  <2>2. CASE callers = <<>> /\ phase = "vars"
    <3>1. defining' = <<>> /\ VariableFound(program.vars[at], program.vars[at].init, types, id)
      BY <1>4, <2>2 DEF Return
    <3>2. gen' = gen /\ (phase' = "aborted" \/ Advance(tables'))
      BY <3>1, VariablesMoveOn
    <3> QED BY <1>1, <3>1, <3>2 DEF EarlyMove
  <2>3. CASE callers = <<>> /\ phase # "vars"
    <3>1. defining' = <<>> /\ tables' = types /\ Advance(types) /\ gen' = gen
      BY <1>4, <2>3 DEF Return
    <3> QED BY <1>1, <3>1 DEF EarlyMove
  <2> QED BY <2>1, <2>2, <2>3
<1>5. ASSUME NEW def, DefineGenerated(def)
      PROVE  EarlyMove
  BY <1>1, <1>5 DEF DefineGenerated, CallDefineType, EarlyMove
<1> QED BY <1>2, <1>3, <1>4, <1>5

\* The actions of the calls.
LEMMA CallStepsMoveOn ==
    ASSUME TablesInv, DefineAlias \/ FindPart \/ DefinePart \/ DefineArray \/ DefineRecord
    PROVE  EarlyMove
<1>1. CASE DefineAlias
  BY <1>1, CallsMoveOn DEF DefineAlias
<1>2. CASE FindPart
  BY <1>2, CallsMoveOn DEF FindPart, HasNextPart
<1>3. CASE DefinePart
  BY <1>3, CallsMoveOn DEF DefinePart, HasNextPart
<1>4. CASE DefineArray
  <2>1. defining # <<>> /\ (Crash \/ \E types, id : Return(types, id))
    BY <1>4 DEF DefineArray
  <2> QED BY <2>1, CallsMoveOn
<1>5. CASE DefineRecord
  BY <1>5, CallsMoveOn DEF DefineRecord
<1> QED BY <1>1, <1>2, <1>3, <1>4, <1>5

\* The actions of the items of the lists.
LEMMA ItemStepsMoveOn ==
    ASSUME TablesInv,
           \/ ParseTypeDeclaration \/ DefineGlobalType \/ DefineRoutine \/ DefineLocalType \/ DefineVariable
           \/ ProcessExpressionStatement \/ ProcessReturnStatement \/ ProcessIfStatement
    PROVE  EarlyMove
<1>1. ASSUME NEW def, DefineGenerated(def), phase \in {"parse", "globals", "locals", "vars"}
      PROVE  EarlyMove
  BY <1>1 DEF DefineGenerated, CallDefineType, EarlyMove, BeforeTypes
<1>2. CASE ParseTypeDeclaration
  <2>1. CASE program.locals[at].def.form = "record"
    BY <1>1, <1>2, <2>1 DEF ParseTypeDeclaration
  <2>2. CASE program.locals[at].def.form # "record"
    <3>1. Advance(tables) /\ UNCHANGED <<defining, tables, gen>> /\ phase = "parse" /\ defining = <<>>
      BY <1>2, <2>2 DEF ParseTypeDeclaration
    <3>2. Advance(tables')
      BY <3>1
    <3> QED BY <3>1, <3>2 DEF EarlyMove, BeforeTypes
  <2> QED BY <2>1, <2>2
<1>3. CASE DefineGlobalType \/ DefineLocalType
  BY <1>3 DEF DefineGlobalType, DefineLocalType, DefineTypes, CallDefineType, EarlyMove, BeforeTypes
<1>4. ASSUME NEW aborts, Decide(aborts, tables), UNCHANGED <<tables, gen>>, defining' = <<>>, phase \in BeforeTypes
      PROVE  EarlyMove
  <2>1. EndIn("aborted") \/ Advance(tables')
    BY <1>4 DEF Decide
  <2> QED BY <1>4, <2>1 DEF EndIn, EarlyMove
<1>5. phase \in {"routine", "statements"} => defining = <<>>
  BY DEF TablesInv, CallsOK
<1>6. CASE DefineRoutine
  BY <1>4, <1>5, <1>6 DEF DefineRoutine, BeforeTypes
<1>7. CASE DefineVariable
  <2>1. ASSUME NEW early, NEW id, VariableFound(program.vars[at], early, tables, id), UNCHANGED defining
        PROVE  EarlyMove
    <3>1. gen' = gen /\ (phase' = "aborted" \/ Advance(tables'))
      BY <2>1, VariablesMoveOn
    <3> QED BY <1>7, <2>1, <3>1 DEF DefineVariable, EarlyMove, BeforeTypes
  <2>2. CASE DefineGenerated(program.vars[at].def)
    BY <1>1, <1>7, <2>2 DEF DefineVariable
  <2> QED BY <1>7, <2>1, <2>2 DEF DefineVariable
<1>8. ASSUME NEW s, NEW expr, NEW valid, Traced(s, expr, valid), phase = "statements"
      PROVE  EarlyMove
  BY <1>4, <1>5, <1>8 DEF Traced, BeforeTypes
<1>9. CASE ProcessExpressionStatement
  BY <1>8, <1>9 DEF ProcessExpressionStatement
<1>10. CASE ProcessReturnStatement
  <2>1. phase = "statements" /\ \E s, expr, valid : Traced(s, expr, valid)
    BY <1>10 DEF ProcessReturnStatement
  <2> QED BY <1>8, <2>1
<1>11. CASE ProcessIfStatement
  <2>1. phase = "statements" /\ \E s, expr, valid : Traced(s, expr, valid)
    BY <1>11 DEF ProcessIfStatement
  <2> QED BY <1>8, <2>1
<1> QED BY <1>2, <1>3, <1>6, <1>7, <1>9, <1>10, <1>11

(***************************************************************************)
(* Code generation: an outcome that is broken ends it, and any other goes  *)
(* on.                                                                     *)
(***************************************************************************)
LEMMA EmittedMovesOn ==
    ASSUME NEW outcome, NEW new, Emit(outcome, new)
    PROVE  /\ gen' = new /\ UNCHANGED <<defining, tables>>
           /\ phase' \in {"stopped", "refused"} \/ Advance(tables)
<1>1. gen' = new /\ UNCHANGED <<defining, tables>>
  BY DEF Emit
<1>2. EndIn("stopped") \/ EndIn("refused") \/ Advance(tables)
  BY DEF Emit
<1> QED BY <1>1, <1>2 DEF EndIn

\* The end of the list of user types is the end of the layouts.
LEMMA TypeStepsKeepLayouts ==
    ASSUME LayoutsInv, TablesInv, GenerateType
    PROVE  LayoutsInv'
<1> DEFINE id == tables.userTypes[at]
           Fields == {"layouts", "constructors", "allocations", "made", "vals", "sigs"}
<1>1. /\ phase = "types" /\ at \in DOMAIN tables.userTypes
      /\ LaidOut = {tables.userTypes[j] : j \in 1 .. at - 1} /\ DOMAIN gen = Fields
  BY DEF LayoutsInv, GenerateType
<1>2. PICK layout, constructors, allocations, outcome :
          Emit(outcome, [gen EXCEPT !.layouts = Extended(@, id, layout), !.constructors = constructors,
                                    !.allocations = allocations])
  BY <1>1 DEF GenerateType
<1> DEFINE new == [gen EXCEPT !.layouts = Extended(@, id, layout), !.constructors = constructors,
                              !.allocations = allocations]
<1>3. /\ gen' = new /\ UNCHANGED <<defining, tables>>
      /\ phase' \in {"stopped", "refused"} \/ Advance(tables)
  BY <1>2, EmittedMovesOn
<1>4. DOMAIN gen' = Fields /\ gen'.layouts = Extended(gen.layouts, id, layout)
  BY <1>1, <1>3
<1> HIDE DEF new
<1>5. LaidOut' = LaidOut \cup {id}
  BY <1>4 DEF LaidOut, Extended
<1>6. tables.userTypes \in Seq(Ids(tables))
  BY DEF TablesInv, TablesOK, ListIsComplete
<1>7. Len(tables.userTypes) \in Nat /\ DOMAIN tables.userTypes = 1 .. Len(tables.userTypes)
  BY <1>6, LenProperties
<1>8. LaidOut' = {tables'.userTypes[j] : j \in 1 .. at}
  <2>1. 1 .. at = (1 .. at - 1) \cup {at}
    BY <1>1, <1>7
  <2> QED BY <1>1, <1>3, <1>5, <2>1
<1>9. CASE phase' \in {"stopped", "refused"}
  BY <1>1, <1>3, <1>4, <1>9 DEF LayoutsInv, BeforeTypes, AfterTypes, Ends
<1>10. CASE Advance(tables)
  <2>1. Items(phase, tables) = Len(tables.userTypes) /\ Lists[7] = phase
    BY <1>1 DEF Items, Lists
  <2>2. \A i \in 8 .. 10 : Lists[i] \in AfterTypes
    BY DEF Lists, AfterTypes
  <2>3. 7 \in 1 .. 10
    OBVIOUS
  <2>4. \/ at < Items(phase, tables) /\ at' = at + 1 /\ phase' = phase
        \/ ~(at < Items(phase, tables)) /\ \E i \in 7 + 1 .. 10 : phase' = Lists[i]
        \/ ~(at < Items(phase, tables)) /\ phase' = "generated"
    BY <1>10, <2>1, <2>3, AdvanceMoves
  <2>5. CASE at < Items(phase, tables) /\ at' = at + 1 /\ phase' = phase
    <3>1. at' \in DOMAIN tables'.userTypes /\ at' - 1 = at
      BY <1>1, <1>3, <1>7, <2>1, <2>5
    <3> QED BY <1>1, <1>3, <1>4, <1>8, <2>5, <3>1 DEF LayoutsInv, BeforeTypes, AfterTypes
  <2>6. CASE ~(at < Items(phase, tables)) /\ phase' \in AfterTypes
    <3>1. DOMAIN tables'.userTypes = 1 .. at
      BY <1>1, <1>3, <1>7, <2>1, <2>6
    <3> QED BY <1>1, <1>3, <1>4, <1>8, <2>6, <3>1 DEF LayoutsInv, BeforeTypes, AfterTypes
  <2>7. "generated" \in AfterTypes
    BY DEF AfterTypes
  <2> QED BY <2>2, <2>4, <2>5, <2>6, <2>7
<1> QED BY <1>3, <1>9, <1>10

\* What comes after keeps them.
LEMMA CodeStepsKeepLayouts ==
    ASSUME LayoutsInv, GenerateFunctionDeclaration \/ GenerateVariable \/ GenerateStatement
    PROVE  LayoutsInv'
<1> DEFINE Fields == {"layouts", "constructors", "allocations", "made", "vals", "sigs"}
<1>1. /\ DOMAIN gen = Fields /\ phase \in {"header", "values", "code"}
      /\ \A j \in DOMAIN tables.userTypes : tables.userTypes[j] \in LaidOut
  BY DEF LayoutsInv, AfterTypes, GenerateFunctionDeclaration, GenerateVariable, GenerateStatement
<1>2. PICK outcome, new : Emit(outcome, new) /\ DOMAIN new = Fields /\ new.layouts = gen.layouts
  <2> DEFINE Keeps(new) == DOMAIN new = Fields /\ new.layouts = gen.layouts
  <2>1. CASE GenerateFunctionDeclaration
    <3>1. PICK outcome, sigs, vals : Emit(outcome, [gen EXCEPT !.sigs = sigs, !.vals = vals])
      BY <2>1 DEF GenerateFunctionDeclaration
    <3> DEFINE new == [gen EXCEPT !.sigs = sigs, !.vals = vals]
    <3>2. Emit(outcome, new) /\ Keeps(new)
      BY <1>1, <3>1
    <3> HIDE DEF new
    <3> QED BY <3>2
  <2>2. CASE GenerateVariable
    <3>1. PICK outcome, vals, made : \/ Emit(outcome, gen)
                                     \/ Emit(outcome, [gen EXCEPT !.vals = vals, !.made = made])
      BY <2>2 DEF GenerateVariable
    <3> DEFINE new == [gen EXCEPT !.vals = vals, !.made = made]
    <3>2. (Emit(outcome, gen) \/ Emit(outcome, new)) /\ Keeps(gen) /\ Keeps(new)
      BY <1>1, <3>1
    <3> HIDE DEF new
    <3> QED BY <3>2
  <2>3. CASE GenerateStatement
    <3>1. PICK outcome, vals : Emit(outcome, gen) \/ Emit(outcome, [gen EXCEPT !.vals = vals])
      BY <2>3 DEF GenerateStatement
    <3> DEFINE new == [gen EXCEPT !.vals = vals]
    <3>2. (Emit(outcome, gen) \/ Emit(outcome, new)) /\ Keeps(gen) /\ Keeps(new)
      BY <1>1, <3>1
    <3> HIDE DEF new
    <3> QED BY <3>2
  <2> QED BY <1>1, <2>1, <2>2, <2>3
<1>3. /\ gen' = new /\ UNCHANGED <<defining, tables>>
      /\ phase' \in {"stopped", "refused"} \/ Advance(tables)
  BY <1>2, EmittedMovesOn
<1>4. DOMAIN gen' = Fields /\ LaidOut' = LaidOut
  BY <1>2, <1>3 DEF LaidOut
<1>5. phase' \in AfterTypes \cup {"stopped", "refused"}
  <2>1. PICK current \in 8 .. 10 : phase = Lists[current]
    BY <1>1 DEF Lists
  <2>2. \A i \in 8 .. 10 : Lists[i] \in AfterTypes
    BY DEF Lists, AfterTypes
  <2>3. current \in 1 .. 10 /\ "generated" \in AfterTypes
    BY DEF AfterTypes
  <2>4. Advance(tables) => \/ phase' = phase
                           \/ \E i \in current + 1 .. 10 : phase' = Lists[i]
                           \/ phase' = "generated"
    BY <2>1, <2>3, AdvanceMoves
  <2> QED BY <1>3, <2>1, <2>2, <2>3, <2>4
<1> QED BY <1>1, <1>3, <1>4, <1>5 DEF LayoutsInv, BeforeTypes, AfterTypes, Ends

\* Every step keeps the layouts right.
LEMMA LayoutsInvHolds == Spec => []LayoutsInv
<1>1. Init => LayoutsInv
  BY DEF Init, LayoutsInv, LaidOut, BeforeTypes, AfterTypes
<1>2. ASSUME LayoutsInv, TablesInv, [Next]_allVars
      PROVE  LayoutsInv'
  <2>1. TablesOK(tables')
    BY <1>2, StepsKeepInv DEF TablesInv, TablesOK
  <2>2. CASE EarlyMove
    BY <1>2, <2>1, <2>2, EarlyMovesKeepLayouts
  <2>3. CASE GenerateType
    BY <1>2, <2>3, TypeStepsKeepLayouts
  <2>4. CASE GenerateFunctionDeclaration \/ GenerateVariable \/ GenerateStatement
    BY <1>2, <2>4, CodeStepsKeepLayouts
  <2>5. CASE UNCHANGED allVars
    BY <1>2, <2>5 DEF allVars, LayoutsInv, LaidOut
  <2> QED BY <1>2, <2>2, <2>3, <2>4, <2>5, CallStepsMoveOn, ItemStepsMoveOn DEF Next
<1> QED BY <1>1, <1>2, TablesInvHolds, PTL DEF Spec

-----------------------------------------------------------------------------
(* The theorems.                                                           *)

(***************************************************************************)
(* Whatever a program declares, the list of user types is an order for     *)
(* code generation: the arrays and records that a type is made of come     *)
(* before it (TypeTable::defineType and AddUserType of src/src/Scope.cpp). *)
(***************************************************************************)
THEOREM TypesComeAfterTheirParts == Spec => []PartsPrecedeWholes
<1>1. TablesInv => PartsPrecedeWholes
  BY DEF TablesInv, TablesOK, ListIsOrdered, PartIds, PartsPrecedeWholes, Ids
<1> QED BY <1>1, TablesInvHolds, PTL

(***************************************************************************)
(* A type that is in the tables stays there with its id, its kind and its  *)
(* parts, and the list of user types only gets longer: what the semantic   *)
(* pass wrote into the tree and what code generation looks up by id is one *)
(* type (IncrementAndGetTypeID, ScopeTypeTable::defineType, AddUserType).  *)
(***************************************************************************)
THEOREM TypesAreNeverLost == Spec => [][Grows(tables, tables')]_allVars
<1>1. TablesInv /\ [Next]_allVars => Grows(tables, tables')
  BY StepsKeepInv
<1> QED BY <1>1, TablesInvHolds, PTL DEF Spec

(***************************************************************************)
(* When the struct of a type is made, those of the arrays and records in   *)
(* it are there: GenerateType takes what llvmTypesMap has for them without *)
(* asking whether it has anything (src/src/Codegen.cpp:301).               *)
(***************************************************************************)
THEOREM PartsAreLaidOutFirst == Spec => []PartsAreLaidOut
<1>1. ASSUME TablesInv, LayoutsInv, phase = "types",
             NEW part \in PartIds(tables.types[tables.userTypes[at]]) \cap DOMAIN tables.types,
             ~IsPrimitive(tables, part)
      PROVE  part \in LaidOut
  <2>1. at \in DOMAIN tables.userTypes /\ LaidOut = {tables.userTypes[j] : j \in 1 .. at - 1}
    BY <1>1 DEF LayoutsInv
  <2>2. \E j \in 1 .. at - 1 : tables.userTypes[j] = part
    BY <1>1, <2>1 DEF TablesInv, TablesOK, ListIsOrdered, Ids
  <2> QED BY <2>1, <2>2
<1>2. TablesInv /\ LayoutsInv => PartsAreLaidOut
  BY <1>1 DEF PartsAreLaidOut
<1> QED BY <1>2, TablesInvHolds, LayoutsInvHolds, PTL

(***************************************************************************)
(* When the routine is generated, every array and every record has its     *)
(* struct, anonymous ones and those of other scopes included               *)
(* (Codegen::Generate, src/src/Codegen.cpp).                               *)
(***************************************************************************)
THEOREM StructsAreMadeFirst == Spec => []StructsComeFirst
<1>1. TablesInv /\ LayoutsInv => StructsComeFirst
  BY DEF TablesInv, TablesOK, ListIsComplete, Ids, LayoutsInv, AfterTypes, StructsComeFirst
<1> QED BY <1>1, TablesInvHolds, LayoutsInvHolds, PTL

(***************************************************************************)
(* What a type is made of was made before it, so that no type contains     *)
(* itself, and a scope that finds the type by its id finds its parts: the  *)
(* walk of FindNativeBaseType (src/src/Types.cpp:26) down the bases ends,  *)
(* and never at a type that it cannot find.                                *)
(***************************************************************************)
THEOREM PartsAreOlderAndSeen == Spec => []TypesAreGrounded
<1>1. ASSUME TablesInv, NEW id \in DOMAIN tables.types, NEW part \in PartIds(tables.types[id]), part # NoType
      PROVE  /\ part < id
             /\ \A scope \in {Global, Routine} :
                    LookupTypeById(tables, scope, id) = id => LookupTypeById(tables, scope, part) = part
  <2> DEFINE type == tables.types[id]
  <2>1. IsWellMade(tables, type) /\ PartsAreOlder(tables) /\ IdsAreDense(tables) /\ id \in Ids(tables)
    BY <1>1 DEF TablesInv, TablesOK, TypesAreWellMade, Ids
  <2>2. part < id
    BY <1>1, <2>1 DEF PartsAreOlder
  <2>3. part \in Seen(tables, type.scope)
    BY <1>1, <2>1, PartsAreSeen
  <2>4. ASSUME NEW scope \in {Global, Routine}, LookupTypeById(tables, scope, id) = id
        PROVE  LookupTypeById(tables, scope, part) = part
    <3>1. id # NoType
      BY <2>1, NewIdsAreNew
    <3>2. type.scope \in Path(scope)
      BY <2>4, <3>1 DEF LookupTypeById
    <3>3. part \in DOMAIN tables.types /\ tables.types[part].scope \in Path(scope)
      BY <2>3, <3>2 DEF Seen, Ids, Path
    <3> QED BY <3>3 DEF LookupTypeById
  <2> QED BY <2>2, <2>4
<1>2. TablesInv => TypesAreGrounded
  BY <1>1 DEF TypesAreGrounded
<1> QED BY <1>2, TablesInvHolds, PTL

(***************************************************************************)
(* A struct or a native type has a pointer, and an operand that is not     *)
(* broken breaks nothing.                                                  *)
(***************************************************************************)
LEMMA SoundOperand ==
    ASSUME NEW t, t \notin {Stopped, Refused}, NEW result
    PROVE  Unless(<<t>>, result) = result
<1>1. {i \in DOMAIN <<t>> : <<t>>[i] \in {Stopped, Refused}} = {}
  OBVIOUS
<1> QED BY <1>1 DEF Unless

\* A pointer to a type that is not void.
LEMMA SoundPointer ==
    ASSUME NEW id \in Int, id >= 0, NEW stars \in Nat, id # VOID \/ stars > 0
    PROVE  Pointer([of |-> id, stars |-> stars]) = [of |-> id, stars |-> stars + 1]
<1> DEFINE t == [of |-> id, stars |-> stars]
<1>1. t \notin {Stopped, Refused} /\ t # NoLlvm /\ t # Value(VOID)
  BY DEF Stopped, Refused, NoLlvm, Value, VOID
<1>2. [t EXCEPT !.stars = @ + 1] = [of |-> id, stars |-> stars + 1]
  OBVIOUS
<1> HIDE DEF t
<1>3. Pointer(t) = Unless(<<t>>, [t EXCEPT !.stars = @ + 1])
  BY <1>1 DEF Pointer
<1> QED BY <1>1, <1>2, <1>3, SoundOperand DEF t

(***************************************************************************)
(* A type that is declared for the whole program and is made of native     *)
(* types, arrays and records gets all fields of its struct: only an alias, *)
(* void, or a type of a routine leaves GenerateType with a null type or    *)
(* with one that LLVM refuses (src/src/Codegen.cpp:301).                   *)
(***************************************************************************)
THEOREM SoundTypesAreLaidOut == Spec => []SoundTypesGetLayouts
<1>1. ASSUME TablesInv, LayoutsInv, PartsAreLaidOut, phase = "types",
             LET type == tables.types[tables.userTypes[at]] IN
                 /\ type.scope = Global
                 /\ \A part \in PartIds(type) \ {NoType} : part # VOID /\ tables.types[part].kind # "alias"
      PROVE  LET layout == LayoutOf(tables, gen, tables.types[tables.userTypes[at]]) IN
             \A k \in DOMAIN layout : layout[k] \notin {Stopped, Refused}
  <2> DEFINE id == tables.userTypes[at]
             type == tables.types[id]
             layout == LayoutOf(tables, gen, type)
  <2>1. id \in Ids(tables) /\ ~IsPrimitive(tables, id)
    BY <1>1, LenProperties, ElementOfSeq DEF LayoutsInv, TablesInv, TablesOK, ListIsComplete
  <2>2. IsWellMade(tables, type) /\ type.kind \in {"array", "record"} /\ type.scope = Global
    BY <1>1, <2>1 DEF TablesInv, TablesOK, TypesAreWellMade, IsPrimitive, IsWellMade
  <2>3. ASSUME NEW part \in PartIds(type), part # NoType
        PROVE  /\ part \in Int /\ part > 0
               /\ LookupTypeById(tables, Global, part) = part
               /\ TypesMap(gen, part) = Value(part)
    <3>1. part \in Seen(tables, Global)
      BY <2>2, <2>3, PartsAreSeen
    <3>2. part \in Ids(tables) /\ tables.types[part].scope \in Path(Global)
      BY <3>1 DEF Seen
    <3>3. part # VOID /\ tables.types[part].kind # "alias"
      BY <1>1, <2>3
    <3>4. IdsAreDense(tables)
      BY <1>1 DEF TablesInv, TablesOK
    <3>5. part \in Int /\ part > 0
      BY <3>2, <3>3, <3>4 DEF IdsAreDense, Natives, VOID, BOOL, INT, FLOAT, FirstUserId
    <3>6. LookupTypeById(tables, Global, part) = part
      BY <3>2 DEF LookupTypeById, Ids
    <3>7. part \in Natives \cup LaidOut
      <4>1. CASE IsPrimitive(tables, part)
        BY <4>1, <3>2, <3>3, <1>1 DEF IsPrimitive, TablesInv, TablesOK, NativesAreNative
      <4>2. CASE ~IsPrimitive(tables, part)
        BY <4>2, <3>2, <2>3, <1>1 DEF PartsAreLaidOut, Ids
      <4> QED BY <4>1, <4>2
    <3> QED BY <3>5, <3>6, <3>7 DEF TypesMap, LaidOut
  <2>4. CASE type.kind = "record"
    <3>1. layout = [k \in DOMAIN type.members |-> PartLayout(tables, gen, type.members[k].type)]
      BY <2>4 DEF LayoutOf
    <3>2. ASSUME NEW k \in DOMAIN type.members
          PROVE  PartLayout(tables, gen, type.members[k].type) \notin {Stopped, Refused}
      <4> DEFINE part == type.members[k].type
      <4>1. part \in PartIds(type) /\ part # NoType
        <5>1. part \in Ids(tables) /\ NoType \notin Ids(tables)
          BY <1>1, <2>2, NewIdsAreNew DEF IsWellMade, Seen, TablesInv, TablesOK
        <5> QED BY <5>1 DEF PartIds
      <4> HIDE DEF part
      <4>2. part \in Int /\ part > 0 /\ LookupTypeById(tables, Global, part) = part /\ TypesMap(gen, part) = Value(part)
        BY <2>3, <4>1
      <4>3. Value(part) \notin {Stopped, Refused, NoLlvm}
        BY <4>2 DEF Value, Stopped, Refused, NoLlvm
      <4>4. Pointer(Value(part)) = [of |-> part, stars |-> 1]
        BY <4>2, SoundPointer DEF Value, VOID
      <4>5. [of |-> part, stars |-> 1] \notin {Stopped, Refused}
        BY DEF Value, Stopped, Refused
      <4>6. PartLayout(tables, gen, part) \in {Value(part), Pointer(Value(part))}
        BY <4>1, <4>2, <4>3 DEF PartLayout, Only, VOID
      <4> QED BY <4>3, <4>4, <4>5, <4>6 DEF part
    <3> HIDE DEF layout
    <3>3. \A k \in DOMAIN layout : layout[k] \notin {Stopped, Refused}
      BY <3>1, <3>2
    <3> QED BY <3>3 DEF layout
  <2>5. CASE type.kind = "array"
    <3> DEFINE part == type.base
               pointer == Pointer(Value(part))
    <3>1. part \in PartIds(type) /\ part # NoType
      <4>1. part \in Ids(tables) /\ NoType \notin Ids(tables)
        BY <1>1, <2>2, <2>5, NewIdsAreNew DEF IsWellMade, Seen, TablesInv, TablesOK
      <4> QED BY <4>1 DEF PartIds
    <3> HIDE DEF part
    <3>2. part \in Int /\ part > 0 /\ LookupTypeById(tables, Global, part) = part /\ TypesMap(gen, part) = Value(part)
      BY <2>3, <3>1
    <3>3. pointer = [of |-> part, stars |-> 1] /\ Pointer(pointer) = [of |-> part, stars |-> 2]
      BY <3>2, SoundPointer DEF Value, VOID
    <3>4. /\ Value(INT) \notin {Stopped, Refused} /\ pointer \notin {Stopped, Refused}
          /\ Pointer(pointer) \notin {Stopped, Refused}
      BY <3>3 DEF Value, Stopped, Refused, INT
    <3>5. layout = ArrayLayout(tables, gen, part)
      BY <2>5 DEF LayoutOf, part
    <3>6. layout \in {<<Value(INT), pointer>>, <<Value(INT), Pointer(pointer)>>}
      BY <3>1, <3>2, <3>5 DEF ArrayLayout
    <3> HIDE DEF layout, pointer
    <3>7. \A k \in DOMAIN layout : layout[k] \notin {Stopped, Refused}
      <4>1. CASE layout = <<Value(INT), pointer>>
        BY <3>4, <4>1
      <4>2. CASE layout = <<Value(INT), Pointer(pointer)>>
        BY <3>4, <4>2
      <4> QED BY <3>6, <4>1, <4>2
    <3> QED BY <3>7 DEF layout
  <2> QED BY <2>2, <2>4, <2>5
<1>2. TablesInv /\ LayoutsInv /\ PartsAreLaidOut => SoundTypesGetLayouts
  BY <1>1 DEF SoundTypesGetLayouts
<1> QED BY <1>2, TablesInvHolds, LayoutsInvHolds, PartsAreLaidOutFirst, PTL

-----------------------------------------------------------------------------
(* The walk over base types.                                               *)

\* One step of FindNativeBaseType, g standing for the rest of the walk.
WalkedIds(types) == {NoType} \cup DOMAIN types.types
BaseStep(types, scope, g, i) ==
    IF LookupTypeById(types, scope, i) = NoType THEN LogicError
    ELSE CASE types.types[i].kind = "record" -> NoType
           [] types.types[i].kind = "native" -> i
           [] OTHER -> g[types.types[i].base]
BaseResults(types) == WalkedIds(types) \cup {LogicError}

\* Ids are natural numbers, and there is one above them all.
LEMMA IdsAreBounded ==
    ASSUME NEW types, TablesOK(types)
    PROVE  /\ Ids(types) \subseteq Nat
           /\ NewTypeId(types) \in Nat /\ \A id \in Ids(types) : id < NewTypeId(types)
           /\ NoType \notin Ids(types) /\ NoType = -1
<1>1. IdsAreDense(types)
  BY DEF TablesOK
<1>2. NewTypeId(types) \in Int /\ NewTypeId(types) >= FirstUserId /\ NoType \notin Ids(types)
  BY <1>1, NewIdsAreNew
<1> DEFINE n == NewTypeId(types)
<1>3. Ids(types) = Natives \cup FirstUserId .. n - 1
  BY <1>1 DEF IdsAreDense
<1> HIDE DEF n
<1>4. Ids(types) \subseteq Nat /\ \A id \in Ids(types) : id < n
  BY <1>2, <1>3 DEF n, Natives, VOID, BOOL, INT, FLOAT, FirstUserId
<1> QED BY <1>2, <1>4 DEF n, FirstUserId, NoType

\* The walk goes to an older type that the scope sees as well.
LEMMA BaseIsOlder ==
    ASSUME NEW types, TablesOK(types), NEW scope \in {Global, Routine},
           NEW i \in WalkedIds(types), LookupTypeById(types, scope, i) # NoType,
           types.types[i].kind \notin {"native", "record"}
    PROVE  i \in Nat /\ types.types[i].base \in Seen(types, scope) /\ types.types[i].base < i
<1>1. i \in Ids(types) /\ types.types[i].scope \in Path(scope)
  BY DEF LookupTypeById, Ids
<1>2. IsWellMade(types, types.types[i])
  BY <1>1 DEF TablesOK, TypesAreWellMade
<1>3. types.types[i].base \in Seen(types, types.types[i].scope)
  BY <1>2 DEF IsWellMade
<1>4. types.types[i].base < i
  BY <1>1 DEF TablesOK, PartsAreOlder, PartIds
<1> QED BY <1>1, <1>3, <1>4, IdsAreBounded DEF Seen, Path

(***************************************************************************)
(* The walk comes to an end: one that is right for the types below n can   *)
(* be continued to the n-th.                                               *)
(***************************************************************************)
LEMMA BaseWalkExists ==
    ASSUME NEW types, TablesOK(types), NEW scope \in {Global, Routine}
    PROVE  \E g : g = [i \in WalkedIds(types) |-> BaseStep(types, scope, g, i)]
<1> DEFINE D == WalkedIds(types)
           Solves(g, n) == \A i \in D : i < n => g[i] = BaseStep(types, scope, g, i)
           R == OpToRel(<, Nat)
           T == {n \in Nat : ~\E g \in [D -> BaseResults(types)] : Solves(g, n)}
<1>1. D \subseteq Int /\ \A i \in D : i \in Nat \/ i = NoType
  BY IdsAreBounded DEF WalkedIds, Ids
<1>2. ASSUME T # {} PROVE FALSE
  <2>1. PICK n \in T : \A m \in T : ~(<<m, n>> \in R)
    <3>1. T \subseteq Nat
      OBVIOUS
    <3> HIDE DEF R, T
    <3> QED BY <1>2, <3>1, NatLessThanWellFounded, WFMin DEF R
  <2>2. \A m \in T : ~(m < n)
    <3>1. T \subseteq Nat
      OBVIOUS
    <3> HIDE DEF T
    <3> QED BY <2>1, <3>1 DEF OpToRel
  <2>3. n # 0
    <3> DEFINE g == [i \in D |-> LogicError]
    <3>1. g \in [D -> BaseResults(types)]
      BY DEF BaseResults
    <3>2. ASSUME NEW i \in D, i < 0 PROVE g[i] = BaseStep(types, scope, g, i)
      <4>1. i = NoType
        BY <1>1, <3>2
      <4>2. LookupTypeById(types, scope, i) = NoType
        BY <4>1 DEF LookupTypeById
      <4> QED BY <4>2 DEF BaseStep
    <3> HIDE DEF g
    <3>3. 0 \notin T
      BY <3>1, <3>2
    <3> QED BY <3>3
  <2> DEFINE v == n - 1
  <2>4. v \in Nat /\ v < n /\ n = v + 1
    BY <2>3
  <2>5. v \notin T
    <3> HIDE DEF T, v
    <3> QED BY <2>2, <2>4
  <2>6. PICK f \in [D -> BaseResults(types)] : Solves(f, v)
    BY <2>4, <2>5
  <2> DEFINE g == [f EXCEPT ![v] = BaseStep(types, scope, f, v)]
  <2> HIDE DEF v
  <2>7. ASSUME NEW i \in D PROVE BaseStep(types, scope, f, i) \in BaseResults(types)
    <3>1. CASE LookupTypeById(types, scope, i) = NoType
      BY <3>1 DEF BaseStep, BaseResults
    <3>2. CASE LookupTypeById(types, scope, i) # NoType /\ types.types[i].kind \in {"native", "record"}
      BY <3>2 DEF BaseStep, BaseResults, WalkedIds
    <3>3. CASE LookupTypeById(types, scope, i) # NoType /\ types.types[i].kind \notin {"native", "record"}
      <4>1. types.types[i].base \in D
        BY <3>3, BaseIsOlder DEF Seen, Ids, WalkedIds
      <4>2. BaseStep(types, scope, f, i) = f[types.types[i].base]
        BY <3>3 DEF BaseStep
      <4> QED BY <2>6, <4>1, <4>2
    <3> QED BY <3>1, <3>2, <3>3
  <2>8. g \in [D -> BaseResults(types)]
    BY <2>7
  <2>9. ASSUME NEW i \in D, i < n PROVE g[i] = BaseStep(types, scope, g, i)
    <3>1. g[i] = BaseStep(types, scope, f, i)
      BY <1>1, <2>4, <2>6, <2>9
    <3>2. BaseStep(types, scope, g, i) = BaseStep(types, scope, f, i)
      <4>1. CASE ~(LookupTypeById(types, scope, i) # NoType /\ types.types[i].kind \notin {"native", "record"})
        BY <4>1 DEF BaseStep
      <4>2. CASE LookupTypeById(types, scope, i) # NoType /\ types.types[i].kind \notin {"native", "record"}
        <5> DEFINE b == types.types[i].base
        <5>1. b \in D /\ b < i
          BY <4>2, BaseIsOlder DEF Seen, Ids, WalkedIds
        <5> HIDE DEF b
        <5>2. b # v
          BY <1>1, <2>4, <2>9, <5>1
        <5>3. g[b] = f[b]
          BY <5>1, <5>2
        <5> HIDE DEF g
        <5> QED BY <4>2, <5>3 DEF BaseStep, b
      <4> QED BY <4>1, <4>2
    <3> QED BY <3>1, <3>2
  <2> HIDE DEF g
  <2>10. n \notin T
    BY <2>8, <2>9
  <2> QED BY <2>10
<1> DEFINE top == NewTypeId(types)
<1>3. top \in Nat /\ \A i \in D : i < top
  BY IdsAreBounded DEF WalkedIds, Ids
<1> HIDE DEF top
<1>4. PICK g \in [D -> BaseResults(types)] : Solves(g, top)
  BY <1>2, <1>3
<1>5. g = [i \in D |-> BaseStep(types, scope, g, i)]
  BY <1>3, <1>4
<1> QED BY <1>5

(***************************************************************************)
(* A walk that starts at a type that can be seen ends at a native type, or *)
(* at a record: the oldest type for which it does not would have a base    *)
(* for which it does not.                                                  *)
(***************************************************************************)
LEMMA BaseIsNative ==
    ASSUME NEW types, TablesOK(types), NEW scope \in {Global, Routine},
           NEW g, \A i \in WalkedIds(types) : g[i] = BaseStep(types, scope, g, i),
           NEW id \in Seen(types, scope)
    PROVE  g[id] \in Natives \cup {NoType}
<1> DEFINE R == OpToRel(<, Nat)
           T == {i \in Seen(types, scope) : g[i] \notin Natives \cup {NoType}}
<1>1. Seen(types, scope) \subseteq Ids(types) /\ Ids(types) \subseteq Nat /\ NoType \notin Ids(types)
  BY IdsAreBounded DEF Seen
<1>2. ASSUME T # {} PROVE FALSE
  <2>1. PICK i \in T : \A m \in T : ~(<<m, i>> \in R)
    <3>1. T \subseteq Nat
      BY <1>1
    <3> HIDE DEF R, T
    <3> QED BY <1>2, <3>1, NatLessThanWellFounded, WFMin DEF R
  <2>2. \A m \in T : ~(m < i)
    <3>1. T \subseteq Nat
      BY <1>1
    <3> HIDE DEF T
    <3> QED BY <2>1, <3>1 DEF OpToRel
  <2>3. i \in WalkedIds(types) /\ LookupTypeById(types, scope, i) # NoType /\ i \in Ids(types)
    BY <1>1 DEF Seen, Ids, WalkedIds, LookupTypeById
  <2>4. BaseStep(types, scope, g, i) \notin Natives \cup {NoType}
    BY <2>3
  <2> HIDE DEF T, R
  <2>5. CASE types.types[i].kind = "record"
    BY <2>3, <2>4, <2>5 DEF BaseStep
  <2>6. CASE types.types[i].kind = "native"
    <3>1. i \in Natives
      BY <2>3, <2>6 DEF TablesOK, NativesAreNative
    <3>2. BaseStep(types, scope, g, i) = i
      BY <2>3, <2>6 DEF BaseStep
    <3> QED BY <2>4, <3>1, <3>2
  <2>7. CASE types.types[i].kind \notin {"native", "record"}
    <3> DEFINE b == types.types[i].base
    <3>1. b \in Seen(types, scope) /\ b < i
      BY <2>3, <2>7, BaseIsOlder
    <3>2. g[b] \notin Natives \cup {NoType}
      BY <2>3, <2>4, <2>7 DEF BaseStep
    <3> HIDE DEF b
    <3>3. b \in T
      BY <3>1, <3>2 DEF T
    <3> QED BY <2>2, <3>1, <3>3
  <2> QED BY <2>5, <2>6, <2>7
<1> QED BY <1>2

(***************************************************************************)
(* Whatever scope asks for a type that it sees, FindNativeBaseType answers *)
(* with a native type or, of a record, with none: it never meets its       *)
(* "logic error" (src/src/Types.cpp:26).                                   *)
(***************************************************************************)
THEOREM EveryBaseIsNative == Spec => []BasesAreNative
<1>1. ASSUME TablesInv PROVE BasesAreNative
  <2> SUFFICES ASSUME NEW scope \in {Global, Routine}, NEW id \in Seen(tables, scope)
               PROVE  FindNativeBaseType(tables, scope, id) \in Natives \cup {NoType}
    BY DEF BasesAreNative
  <2> DEFINE W == CHOOSE g : g = [i \in WalkedIds(tables) |-> BaseStep(tables, scope, g, i)]
  <2>1. TablesOK(tables)
    BY <1>1 DEF TablesInv
  <2>2. W = [i \in WalkedIds(tables) |-> BaseStep(tables, scope, W, i)]
    BY <2>1, BaseWalkExists
  <2>3. id \in DOMAIN tables.types
    BY DEF Seen, Ids
  <2>4. FindNativeBaseType(tables, scope, id) = W[id]
    BY <2>3 DEF FindNativeBaseType, BaseStep, WalkedIds
  <2> HIDE DEF W
  <2>5. \A i \in WalkedIds(tables) : W[i] = BaseStep(tables, scope, W, i)
    BY <2>2
  <2> QED BY <2>1, <2>4, <2>5, BaseIsNative
<1> QED BY <1>1, TablesInvHolds, PTL

-----------------------------------------------------------------------------
(* Names and variables.                                                    *)

\* Types that are seen are found by their ids.
LEMMA SeenIsFound ==
    ASSUME NEW types, NEW scope, NEW id
    PROVE  LookupTypeById(types, scope, id) \in Seen(types, scope) \cup {NoType}
           /\ (id \in Seen(types, scope) => LookupTypeById(types, scope, id) = id)
BY DEF LookupTypeById, Seen, Ids

\* A step that changes neither names nor variables.
LEMMA OtherStepsKeepVariables ==
    ASSUME NamesInv, VarsInv, phase # "aborted", UNCHANGED <<names, vars>>, Grows(tables, tables')
    PROVE  NamesInv' /\ VarsInv'
<1>1. Seen(tables, Routine) \subseteq Seen(tables', Routine)
  BY SeenIsKept DEF Grows
<1>2. NamesInv'
  BY <1>1 DEF NamesInv, Seen, Ids
<1>3. VarsInv'
  BY <1>1 DEF VarsInv, IsSequence, Seen, Ids
<1> QED BY <1>2, <1>3

(***************************************************************************)
(* A variable is named after its type was found, in the tables with which  *)
(* the pass goes on.                                                       *)
(***************************************************************************)
LEMMA FoundVariablesKeepInv ==
    ASSUME NamesInv, VarsInv, phase # "aborted", NEW types, Grows(tables, types),
           NEW decl, NEW early, NEW id, VariableFound(decl, early, types, id)
    PROVE  NamesInv' /\ VarsInv'
<1> DEFINE type == LookupTypeById(types, Routine, id)
<1>1. tables' = types /\ Seen(tables, Routine) \subseteq Seen(types, Routine)
  BY SeenIsKept DEF Grows, VariableFound
<1>2. type \in Seen(types, Routine) \cup {NoType}
  BY SeenIsFound
<1>3. names' = IF type = NoType THEN names ELSE Extended(names, decl.name, type)
  BY DEF VariableFound
<1>4. PICK init : vars' = Append(vars, IF type = NoType THEN Skipped ELSE [type |-> type, init |-> init, valid |-> TRUE])
  BY DEF VariableFound
<1> HIDE DEF type
<1>5. NamesInv'
  <2>1. \A x \in DOMAIN names : names[x] \in Seen(types, Routine)
    BY <1>1 DEF NamesInv
  <2>2. \A x \in DOMAIN names' : names'[x] \in Seen(types, Routine)
    <3>1. CASE type = NoType
      BY <1>3, <2>1, <3>1
    <3>2. CASE type # NoType
      BY <1>2, <1>3, <2>1, <3>2 DEF Extended
    <3> QED BY <3>1, <3>2
  <2> QED BY <1>1, <2>2 DEF NamesInv, Seen, Ids
<1>6. VarsInv'
  <2> DEFINE new == IF type = NoType THEN Skipped ELSE [type |-> type, init |-> init, valid |-> TRUE]
  <2>1. new.valid => new.type \in Seen(types, Routine)
    BY <1>2 DEF Skipped
  <2>2. vars' = Append(vars, new)
    BY <1>4
  <2> HIDE DEF new
  <2>3. IsSequence(vars) /\ \A i \in DOMAIN vars : vars[i].valid => vars[i].type \in Seen(types, Routine)
    BY <1>1 DEF VarsInv
  <2>4. /\ Len(vars) \in Nat /\ DOMAIN vars = 1 .. Len(vars)
        /\ IsSequence(vars') /\ Len(vars') = Len(vars) + 1
        /\ vars'[Len(vars) + 1] = new /\ \A j \in DOMAIN vars : vars'[j] = vars[j]
    BY <2>2, <2>3, SequencesStay
  <2>5. DOMAIN vars' = 1 .. Len(vars) + 1
    BY <2>4, SequencesStay
  <2>6. ASSUME NEW i \in DOMAIN vars', vars'[i].valid PROVE vars'[i].type \in Seen(types, Routine)
    <3>1. CASE i = Len(vars) + 1
      BY <2>1, <2>4, <2>6, <3>1
    <3>2. CASE i \in DOMAIN vars
      BY <2>3, <2>4, <2>6, <3>2
    <3> QED BY <2>4, <2>5, <3>1, <3>2
  <2> QED BY <1>1, <2>4, <2>6 DEF VarsInv, IsSequence, Seen, Ids
<1> QED BY <1>5, <1>6

\* What ends or continues a call of defineType.
LEMMA CallsKeepVariables ==
    ASSUME NamesInv, VarsInv, phase # "aborted", Grows(tables, tables')
    PROVE  /\ Crash => NamesInv' /\ VarsInv'
           /\ \A calls, types, id : PartFound(calls, types, id) => NamesInv' /\ VarsInv'
           /\ \A types, id : Return(types, id) => NamesInv' /\ VarsInv'
           /\ \A def : DefineGenerated(def) => NamesInv' /\ VarsInv'
<1>1. Crash => NamesInv' /\ VarsInv'
  BY OtherStepsKeepVariables DEF Crash
<1>2. ASSUME NEW calls, NEW types, NEW id, PartFound(calls, types, id)
      PROVE  NamesInv' /\ VarsInv'
  <2>1. Crash \/ UNCHANGED <<names, vars>>
    BY <1>2 DEF PartFound
  <2> QED BY <1>1, <2>1, OtherStepsKeepVariables
<1>3. ASSUME NEW types, NEW id, Return(types, id)
      PROVE  NamesInv' /\ VarsInv'
  <2> DEFINE callers == SubSeq(defining, 1, Len(defining) - 1)
  <2>1. CASE callers # <<>>
    <3>1. PartFound(callers, types, id)
      BY <1>3, <2>1 DEF Return
    <3> QED BY <1>2, <3>1
  <2>2. CASE callers = <<>> /\ phase = "vars"
    <3>1. VariableFound(program.vars[at], program.vars[at].init, types, id)
      BY <1>3, <2>2 DEF Return
    <3>2. tables' = types
      BY <3>1 DEF VariableFound
    <3> QED BY <3>1, <3>2, FoundVariablesKeepInv
  <2>3. CASE callers = <<>> /\ phase # "vars"
    BY <1>3, <2>3, OtherStepsKeepVariables DEF Return
  <2> QED BY <2>1, <2>2, <2>3
<1>4. ASSUME NEW def, DefineGenerated(def)
      PROVE  NamesInv' /\ VarsInv'
  BY <1>4, OtherStepsKeepVariables DEF DefineGenerated, CallDefineType
<1> QED BY <1>1, <1>2, <1>3, <1>4

(***************************************************************************)
(* A parameter of unknown type is named as well, but the pass ends there.  *)
(***************************************************************************)
LEMMA RoutinesKeepVariables ==
    ASSUME TablesInv, NamesInv, VarsInv, Grows(tables, tables'), DefineRoutine
    PROVE  NamesInv' /\ VarsInv'
<1> DEFINE param == LookupType(tables, Global, program.param.ident)
<1>1. /\ names' = Extended(names, "p", param) /\ UNCHANGED <<tables, vars>> /\ phase = "routine"
      /\ param = NoType => phase' = "aborted"
  BY DEF DefineRoutine, Decide, EndIn
<1>2. param \in Seen(tables, Routine) \cup {NoType}
  BY LookupFindsATypeOrNone, GlobalIsSeen DEF TablesInv
<1> HIDE DEF param
<1>3. NamesInv'
  <2>1. CASE param = NoType
    BY <1>1, <2>1 DEF NamesInv
  <2>2. CASE param # NoType
    <3>1. \A x \in DOMAIN names' : names'[x] \in Seen(tables, Routine)
      BY <1>1, <1>2, <2>2 DEF NamesInv, Extended
    <3> QED BY <1>1, <3>1 DEF NamesInv, Seen, Ids
  <2> QED BY <2>1, <2>2
<1>4. VarsInv'
  BY <1>1 DEF VarsInv, IsSequence, Seen, Ids
<1> QED BY <1>3, <1>4

\* Every step keeps names and variables right.
LEMMA StepsKeepVariables ==
    ASSUME TablesInv, NamesInv, VarsInv, [Next]_allVars
    PROVE  NamesInv' /\ VarsInv'
<1>1. Grows(tables, tables')
  BY StepsKeepInv
<1>2. defining # <<>> => phase # "aborted"
  BY DEF TablesInv, CallsOK
<1>3. CASE ParseTypeDeclaration
  <2>1. CASE program.locals[at].def.form = "record"
    BY <1>1, <1>3, <2>1, CallsKeepVariables DEF ParseTypeDeclaration
  <2>2. CASE program.locals[at].def.form # "record"
    BY <1>1, <1>3, <2>2, OtherStepsKeepVariables DEF ParseTypeDeclaration
  <2> QED BY <2>1, <2>2
<1>4. CASE DefineGlobalType \/ DefineLocalType
  BY <1>1, <1>4, OtherStepsKeepVariables DEF DefineGlobalType, DefineLocalType, DefineTypes, CallDefineType
<1>5. CASE DefineRoutine
  BY <1>1, <1>5, RoutinesKeepVariables
<1>6. CASE DefineVariable
  <2>1. ASSUME NEW early, NEW id, VariableFound(program.vars[at], early, tables, id)
        PROVE  NamesInv' /\ VarsInv'
    <3>1. phase # "aborted" /\ Grows(tables, tables)
      BY <1>6 DEF DefineVariable, Grows
    <3> QED BY <2>1, <3>1, FoundVariablesKeepInv
  <2>2. CASE DefineGenerated(program.vars[at].def)
    BY <1>1, <1>6, <2>2, CallsKeepVariables DEF DefineVariable
  <2> QED BY <1>6, <2>1, <2>2 DEF DefineVariable
<1>7. CASE DefineAlias
  BY <1>1, <1>2, <1>7, CallsKeepVariables DEF DefineAlias
<1>8. CASE FindPart
  BY <1>1, <1>2, <1>8, CallsKeepVariables DEF FindPart, HasNextPart
<1>9. CASE DefinePart
  BY <1>1, <1>2, <1>9, CallsKeepVariables DEF DefinePart, HasNextPart
<1>10. CASE DefineArray
  <2>1. defining # <<>> /\ (Crash \/ \E types, id : Return(types, id))
    BY <1>10 DEF DefineArray
  <2> QED BY <1>1, <1>2, <2>1, CallsKeepVariables
<1>11. CASE DefineRecord
  BY <1>1, <1>2, <1>11, CallsKeepVariables DEF DefineRecord
<1>12. CASE ProcessExpressionStatement \/ ProcessReturnStatement \/ ProcessIfStatement
  <2>1. phase # "aborted" /\ UNCHANGED <<names, vars>>
    BY <1>12 DEF ProcessExpressionStatement, ProcessReturnStatement, ProcessIfStatement, Traced
  <2> QED BY <1>1, <2>1, OtherStepsKeepVariables
<1>13. CASE GenerateType \/ GenerateFunctionDeclaration \/ GenerateVariable \/ GenerateStatement
  <2>1. phase # "aborted" /\ UNCHANGED <<names, vars>>
    BY <1>13 DEF GenerateType, GenerateFunctionDeclaration, GenerateVariable, GenerateStatement, Emit
  <2> QED BY <1>1, <2>1, OtherStepsKeepVariables
<1>14. CASE UNCHANGED allVars
  BY <1>14 DEF allVars, NamesInv, VarsInv, IsSequence, Seen, Ids
<1> QED BY <1>3, <1>4, <1>5, <1>6, <1>7, <1>8, <1>9, <1>10, <1>11, <1>12, <1>13, <1>14 DEF Next

\* And they are right to begin with.
LEMMA VariablesInvHolds == Spec => [](NamesInv /\ VarsInv)
<1>1. Init => NamesInv /\ VarsInv
  BY EmptySeq DEF Init, NamesInv, VarsInv, IsSequence
<1>2. TablesInv /\ (NamesInv /\ VarsInv) /\ [Next]_allVars => (NamesInv /\ VarsInv)'
  BY StepsKeepVariables
<1> QED BY <1>1, <1>2, TablesInvHolds, PTL DEF Spec

(***************************************************************************)
(* As long as the compiler has not given up, the id that a name or a valid *)
(* variable of the routine has is the id of a type that the routine finds  *)
(* by it: what was found in the scope of the declaration, by name, is      *)
(* found again by id (NameTable::defineName, src/src/Scope.cpp:261, and    *)
(* GenerateVariable, src/src/Codegen.cpp:126).                             *)
(***************************************************************************)
THEOREM VariablesAreOfKnownTypes == Spec => []VariablesHaveTypes
<1>1. ASSUME TablesInv PROVE \A id \in Seen(tables, Routine) : LookupTypeById(tables, Routine, id) = id /\ id # NoType
  BY <1>1, SeenIsFound, IdsAreBounded DEF TablesInv, Seen
<1>2. TablesInv /\ (NamesInv /\ VarsInv) => VariablesHaveTypes
  BY <1>1 DEF NamesInv, VarsInv, VariablesHaveTypes
<1> QED BY <1>2, TablesInvHolds, VariablesInvHolds, PTL

(***************************************************************************)
(* When code generation comes to the routine, llvmTypesMap has the type of *)
(* every array, record and native type, wherever it was declared.          *)
(***************************************************************************)
LEMMA TypesAreMapped ==
    ASSUME TablesInv, LayoutsInv, phase \in {"header", "values", "code"},
           NEW id \in Ids(tables), tables.types[id].kind # "alias"
    PROVE  TypesMap(gen, id) = Value(id) /\ Value(id) # NoLlvm
<1>1. id \in Nat
  BY IdsAreBounded DEF TablesInv
<1>2. id \in Natives \cup LaidOut
  <2>1. CASE IsPrimitive(tables, id)
    BY <2>1 DEF IsPrimitive, TablesInv, TablesOK, NativesAreNative
  <2>2. CASE ~IsPrimitive(tables, id)
    BY <2>2 DEF TablesInv, TablesOK, ListIsComplete, LayoutsInv, AfterTypes
  <2> QED BY <2>1, <2>2
<1> QED BY <1>1, <1>2 DEF TypesMap, LaidOut, Value, NoLlvm

(***************************************************************************)
(* The variables of the routine get memory of a type that LLVM has: only   *)
(* an alias leaves GenerateVariable with a null type                       *)
(* (src/src/Codegen.cpp:136).                                              *)
(***************************************************************************)
THEOREM VariablesGetStructs == Spec => []VariablesHaveStructs
<1>1. TablesInv /\ LayoutsInv /\ (NamesInv /\ VarsInv) => VariablesHaveStructs
  BY TypesAreMapped DEF VariablesHaveStructs, VarsInv, Seen
<1> QED BY <1>1, TablesInvHolds, LayoutsInvHolds, VariablesInvHolds, PTL

(***************************************************************************)
(* A header of any types but aliases finds the type of each: the native    *)
(* base, or the struct behind a pointer (src/src/Codegen.cpp:700, 718).    *)
(***************************************************************************)
THEOREM HeadersAreOfKnownTypes == Spec => []HeadersHaveTypes
<1>1. ASSUME TablesInv, LayoutsInv, BasesAreNative, phase = "header",
             NEW id \in Seen(tables, Global), tables.types[id].kind # "alias"
      PROVE  HeaderType(id) # Stopped
  <2> DEFINE native == FindNativeBaseType(tables, Global, id)
  <2>1. native \in Natives \cup {NoType}
    BY <1>1 DEF BasesAreNative
  <2>2. id \in Ids(tables) /\ id \in Nat
    BY <1>1, IdsAreBounded DEF Seen, TablesInv
  <2>3. TypesMap(gen, id) = Value(id)
    BY <1>1, <2>2, TypesAreMapped
  <2> HIDE DEF native
  <2>4. CASE native = NoType
    <3>1. HeaderType(id) = Pointer(Value(id))
      BY <2>3, <2>4 DEF HeaderType, native
    <3>2. CASE id = VOID
      BY <3>1, <3>2 DEF Pointer, Value, VOID, NoLlvm, Refused, Stopped
    <3>3. CASE id # VOID
      <4>1. Pointer(Value(id)) = [of |-> id, stars |-> 1]
        BY <2>2, <3>3, SoundPointer DEF Value
      <4> QED BY <3>1, <4>1 DEF Stopped, Value
    <3> QED BY <3>2, <3>3
  <2>5. CASE native # NoType
    <3>1. native \in Natives
      BY <2>1, <2>5
    <3>2. TypesMap(gen, native) = Value(native)
      BY <3>1 DEF TypesMap
    <3>3. Value(native) # NoLlvm /\ Value(native) # Stopped
      BY <3>1 DEF Value, NoLlvm, Stopped, Natives, VOID, BOOL, INT, FLOAT
    <3>4. HeaderType(id) = Value(native)
      BY <2>5, <3>2, <3>3 DEF HeaderType, native
    <3> QED BY <3>3, <3>4
  <2> QED BY <2>4, <2>5
<1>2. TablesInv /\ LayoutsInv /\ BasesAreNative => HeadersHaveTypes
  BY <1>1 DEF HeadersHaveTypes
<1> QED BY <1>2, TablesInvHolds, LayoutsInvHolds, EveryBaseIsNative, PTL
=============================================================================

------------------------- MODULE SemanticPassProofs -------------------------
(***************************************************************************)
(* Theorems of the semantic pass, for any program and any bounds.          *)
(***************************************************************************)
EXTENDS SemanticPass, TLAPS, SequenceTheorems, WellFoundedInduction

-----------------------------------------------------------------------------
(* The operators of Scopes: what the lookups return, and that the updates  *)
(* of the tables keep their types.                                         *)

(***************************************************************************)
(* A set of numbers up to n has a greatest element, and Innermost is it.   *)
(***************************************************************************)
LEMMA InnermostIsGreatest ==
    ASSUME NEW n \in Nat, NEW S \in SUBSET (1 .. n), S # {}
    PROVE  /\ Innermost(S) \in S
           /\ \A t \in S : t <= Innermost(S)
<1> DEFINE R == OpToRel(<, Nat)
           T == {d \in Nat : n - d \in S}
<1>1. T \subseteq Nat /\ T # {}
  <2>1. PICK s \in S : TRUE
    OBVIOUS
  <2>2. n - s \in Nat /\ n - (n - s) = s
    OBVIOUS
  <2> QED BY <2>1, <2>2
<1>2. PICK d \in T : \A e \in T : ~(<<e, d>> \in R)
  <2> HIDE DEF R, T
  <2> QED BY <1>1, NatLessThanWellFounded, WFMin DEF R
<1>3. \A e \in T : ~(e < d)
  BY <1>1, <1>2 DEF OpToRel
<1>4. n - d \in S
  OBVIOUS
<1>5. \A t \in S : t <= n - d
  <2> SUFFICES ASSUME NEW t \in S PROVE t <= n - d
    OBVIOUS
  <2>1. n - t \in T
    OBVIOUS
  <2> QED BY <2>1, <1>3
<1> QED BY <1>4, <1>5 DEF Innermost

-----------------------------------------------------------------------------
(***************************************************************************)
(* lookupName returns a Name of one of the scopes it visits, the innermost *)
(* that has one, or nullptr when none has.                                 *)
(***************************************************************************)
LEMMA LookupNameFinds ==
    ASSUME TablesTypeOK, NEW s \in Scopes, NEW x \in Idents
    PROVE  /\ LookupName(s, x) \in Name \cup {NoName}
           /\ Defining(s, x) # {} =>
                 /\ Innermost(Defining(s, x)) \in Defining(s, x)
                 /\ \A a \in Defining(s, x) : a <= Innermost(Defining(s, x))
<1>1. Defining(s, x) \in SUBSET (1 .. MaxScopes)
  BY DEF TablesTypeOK, Defining, Scopes
<1>2. ASSUME Defining(s, x) # {}
      PROVE  /\ Innermost(Defining(s, x)) \in Defining(s, x)
             /\ \A a \in Defining(s, x) : a <= Innermost(Defining(s, x))
  BY <1>1, <1>2, BoundsAssumption, InnermostIsGreatest
<1>3. ASSUME Defining(s, x) # {}
      PROVE  nameMap[Innermost(Defining(s, x))][x] \in Name \cup {NoName}
  BY <1>1, <1>2, <1>3 DEF TablesTypeOK, Scopes
<1> QED BY <1>2, <1>3 DEF LookupName

(***************************************************************************)
(* lookupType returns a type id or the absent one.                         *)
(***************************************************************************)
LEMMA LookupTypeFinds ==
    ASSUME TablesTypeOK, NEW s \in Scopes, NEW x \in Idents
    PROVE  LookupType(s, x) \in TypeIds \cup {NoTypeId}
<1>1. DefiningType(s, x) \in SUBSET (1 .. MaxScopes)
  BY DEF TablesTypeOK, DefiningType, Scopes
<1>2. ASSUME DefiningType(s, x) # {}
      PROVE  Innermost(DefiningType(s, x)) \in Scopes
  BY <1>1, <1>2, BoundsAssumption, InnermostIsGreatest DEF Scopes
<1> QED BY <1>2 DEF LookupType, TablesTypeOK

\* The same of the next state's tables.
LEMMA LookupNameNext ==
    TablesTypeOK' => \A s \in Scopes, x \in Idents : LookupName(s, x)' \in Name \cup {NoName}
<1>1. TablesTypeOK => \A s \in Scopes, x \in Idents : LookupName(s, x) \in Name \cup {NoName}
  BY LookupNameFinds
<1>2. (TablesTypeOK => \A s \in Scopes, x \in Idents : LookupName(s, x) \in Name \cup {NoName})'
  BY <1>1, PTL
<1> QED BY <1>2

-----------------------------------------------------------------------------
\* InitSemanticContext gives every table its type.
LEMMA InitTablesType == InitTables => TablesTypeOK
<1> SUFFICES ASSUME InitTables PROVE TablesTypeOK
  OBVIOUS
<1>1. Natives \subseteq TypeIds /\ Global \in Scopes
  BY BoundsAssumption DEF TypeIds, Global, Scopes
<1>2. EmptyNames \in [Idents -> Name \cup {NoName}] /\ EmptyTypes \in [Idents -> TypeIds \cup {NoTypeId}]
  BY DEF EmptyNames, EmptyTypes
<1>3. typeNameMap[Global] \in [Idents -> TypeIds \cup {NoTypeId}]
  BY <1>1 DEF InitTables
<1>4. typeNameMap \in [Scopes -> [Idents -> TypeIds \cup {NoTypeId}]]
  BY <1>1, <1>2, <1>3 DEF InitTables
<1>5. types \in [TypeIds -> Type \cup {NoType}]
  <2>1. [kind |-> "native", scope |-> Global, parts |-> {}] \in Type
    BY <1>1 DEF Type, TypeKinds
  <2> QED BY <2>1 DEF InitTables
<1>6. funcMap \in [Idents -> Func \cup {NoFunc}]
  <2>1. <<INT>> \in Seq(TypeIds) /\ VOID \in TypeIds
    BY <1>1 DEF Natives
  <2>2. [scope |-> 0, params |-> <<INT>>, ret |-> VOID] \in Func
    BY <2>1 DEF Func
  <2> QED BY <2>2 DEF InitTables
<1>7. nameMap \in [Scopes -> [Idents -> Name \cup {NoName}]]
  BY <1>2 DEF InitTables
<1>8. /\ nScopes \in Scopes /\ currentScope \in Scopes
      /\ parent \in [Scopes -> 0 .. MaxScopes] /\ path \in [Scopes -> SUBSET Scopes]
      /\ nNames \in 0 .. MaxNames /\ nTypes \in 0 .. MaxTypes
  BY <1>1, BoundsAssumption DEF InitTables, Global, Scopes
<1> QED BY <1>4, <1>5, <1>6, <1>7, <1>8 DEF TablesTypeOK

(***************************************************************************)
(* Creating a scope with well-typed names keeps the scope tree well-typed. *)
(***************************************************************************)
LEMMA AttachScopeType ==
    ASSUME TablesTypeOK, NEW p \in Scopes, NEW names \in [Idents -> Name \cup {NoName}],
           AttachScope(p, names)
    PROVE  /\ nScopes' \in Scopes /\ NextScope \in Scopes
           /\ parent' \in [Scopes -> 0 .. MaxScopes]
           /\ path' \in [Scopes -> SUBSET Scopes]
           /\ nameMap' \in [Scopes -> [Idents -> Name \cup {NoName}]]
<1>1. NextScope \in Scopes
  BY BoundsAssumption DEF AttachScope, TablesTypeOK, Scopes, NextScope
<1>2. parent' \in [Scopes -> 0 .. MaxScopes]
  BY <1>1 DEF AttachScope, TablesTypeOK, Scopes
<1>3. path' \in [Scopes -> SUBSET Scopes]
  BY <1>1 DEF AttachScope, TablesTypeOK
<1>4. nameMap' \in [Scopes -> [Idents -> Name \cup {NoName}]]
  BY <1>1 DEF AttachScope, TablesTypeOK
<1> QED BY <1>1, <1>2, <1>3, <1>4 DEF AttachScope

\* Declaring a variable keeps the name tables well-typed.
LEMMA DefineNameType ==
    ASSUME TablesTypeOK, NEW s \in Scopes, NEW x \in Idents, NEW t \in TypeIds,
           DefineName(s, x, t)
    PROVE  /\ nNames' \in 0 .. MaxNames
           /\ nameMap' \in [Scopes -> [Idents -> Name \cup {NoName}]]
           /\ NewName(nNames + 1, x, t, FALSE) \in Name
<1>1. nNames + 1 \in 1 .. MaxNames
  BY BoundsAssumption DEF DefineName, TablesTypeOK
<1>2. NewName(nNames + 1, x, t, FALSE) \in Name
  BY <1>1 DEF NewName, Name
<1> DEFINE n == NewName(nNames + 1, x, t, FALSE)
<1>3. nameMap' = [nameMap EXCEPT ![s][x] = n] /\ nNames' = nNames + 1
  BY DEF DefineName
<1>4. n \in Name
  BY <1>2
<1> HIDE DEF n
<1>5. nameMap' \in [Scopes -> [Idents -> Name \cup {NoName}]]
  BY <1>3, <1>4 DEF TablesTypeOK
<1>6. nNames' \in 0 .. MaxNames
  BY <1>1, <1>3
<1> QED BY <1>2, <1>5, <1>6

\* Declaring a type keeps the type tables well-typed.
LEMMA DefineTypeType ==
    ASSUME TablesTypeOK, NEW s \in Scopes, NEW x \in Idents,
           NEW kind \in TypeKinds, NEW parts \in SUBSET TypeIds,
           DefineType(s, x, kind, parts)
    PROVE  /\ nTypes' \in 0 .. MaxTypes
           /\ typeNameMap' \in [Scopes -> [Idents -> TypeIds \cup {NoTypeId}]]
           /\ types' \in [TypeIds -> Type \cup {NoType}]
<1> DEFINE id == FirstTypeId + nTypes
<1>1. nTypes' \in 0 .. MaxTypes /\ id \in TypeIds
  BY BoundsAssumption DEF DefineType, TablesTypeOK, TypeIds, UserTypes, FirstTypeId
<1>2. [kind |-> kind, scope |-> s, parts |-> parts] \in Type
  BY DEF Type
<1> HIDE DEF id
<1>3. typeNameMap' = [typeNameMap EXCEPT ![s][x] = id]
      /\ types' = [types EXCEPT ![id] = [kind |-> kind, scope |-> s, parts |-> parts]]
  BY DEF DefineType, id
<1> QED BY <1>1, <1>2, <1>3 DEF TablesTypeOK

-----------------------------------------------------------------------------
(* The inductive invariant.                                                *)

(***************************************************************************)
(* ScopeDiscipline says of the current scope what has to hold of all open  *)
(* bodies, so that it still holds when the innermost one is closed.        *)
(***************************************************************************)
OpenBodies ==
    /\ currentScope = BodyScope(stack, Len(stack))
    /\ \A k \in 0 .. Len(stack) :
          /\ BodyScope(stack, k) \in 1 .. nScopes
          /\ path[BodyScope(stack, k)] = {BodyScope(stack, i) : i \in 0 .. k}
    /\ \A k \in 1 .. Len(stack) :
          /\ parent[BodyScope(stack, k)] = BodyScope(stack, k - 1)
          /\ BodyScope(stack, k - 1) < BodyScope(stack, k)

\* A lookup starts in the scope itself and goes to earlier scopes only.
PathsWellFormed == \A s \in 1 .. nScopes : s \in path[s] /\ path[s] \subseteq 1 .. s

\* What is recorded of the past is of the past.
UsesKnown == \A u \in uses : u.scope <= nScopes /\ u.clock <= nNames

Inv == TypeOK /\ OpenBodies /\ PathsWellFormed /\ UsesKnown

-----------------------------------------------------------------------------
(* The four things a step does to the open bodies.                         *)

\* Nothing.
LEMMA SameBodies ==
    ASSUME OpenBodies, PathsWellFormed, UNCHANGED <<scopeVars, currentScope, stack>>
    PROVE  OpenBodies' /\ PathsWellFormed'
<1>1. /\ nScopes' = nScopes /\ parent' = parent /\ path' = path
      /\ currentScope' = currentScope /\ stack' = stack
  BY DEF scopeVars
<1>2. PathsWellFormed'
  BY <1>1 DEF PathsWellFormed
<1>3. OpenBodies'
  BY <1>1 DEF OpenBodies
<1> QED BY <1>2, <1>3

(***************************************************************************)
(* A scope is created and entered inside the n-th open body, and the       *)
(* bodies inside that one are given up for it.                             *)
(***************************************************************************)
LEMMA NewInnermost ==
    ASSUME TypeOK, OpenBodies, PathsWellFormed,
           NEW names \in [Idents -> Name \cup {NoName}],
           NEW n \in Nat, n <= Len(stack), Len(stack') = n + 1,
           \A k \in 0 .. n : BodyScope(stack', k) = BodyScope(stack, k),
           BodyScope(stack', n + 1) = nScopes + 1,
           AttachScope(BodyScope(stack, n), names), currentScope' = nScopes + 1
    PROVE  OpenBodies' /\ PathsWellFormed'
<1>1. /\ nScopes \in Nat /\ n \in 0 .. Len(stack) /\ Len(stack) \in Nat
      /\ \A k \in 0 .. n : k \in 0 .. Len(stack)
      /\ \A k \in 1 .. n : k \in 1 .. Len(stack)
  BY DEF TypeOK, TablesTypeOK, Scopes
<1>2. /\ nScopes' = nScopes + 1 /\ nScopes + 1 \in Scopes
      /\ parent' = [parent EXCEPT ![nScopes + 1] = BodyScope(stack, n)]
      /\ path' = [path EXCEPT ![nScopes + 1] = path[BodyScope(stack, n)] \cup {nScopes + 1}]
  BY BoundsAssumption DEF AttachScope, NextScope, TypeOK, TablesTypeOK, Scopes
<1>3. \A k \in 0 .. n : BodyScope(stack, k) \in 1 .. nScopes /\ BodyScope(stack, k) \in Scopes
  BY <1>1, <1>2, BoundsAssumption DEF OpenBodies, Scopes
<1>4. \A k \in 0 .. n : /\ path'[BodyScope(stack, k)] = path[BodyScope(stack, k)]
                        /\ parent'[BodyScope(stack, k)] = parent[BodyScope(stack, k)]
  BY <1>1, <1>2, <1>3, SMTT(30) DEF TypeOK, TablesTypeOK
<1>5. /\ path'[nScopes + 1] = path[BodyScope(stack, n)] \cup {nScopes + 1}
      /\ parent'[nScopes + 1] = BodyScope(stack, n)
  BY <1>2 DEF TypeOK, TablesTypeOK
<1>6. \A k \in 0 .. n + 1 :
          /\ BodyScope(stack', k) \in 1 .. nScopes'
          /\ path'[BodyScope(stack', k)] = {BodyScope(stack', i) : i \in 0 .. k}
  <2>1. ASSUME NEW k \in 0 .. n
        PROVE  /\ BodyScope(stack', k) \in 1 .. nScopes'
               /\ path'[BodyScope(stack', k)] = {BodyScope(stack', i) : i \in 0 .. k}
    <3>1. {BodyScope(stack', i) : i \in 0 .. k} = {BodyScope(stack, i) : i \in 0 .. k}
      OBVIOUS
    <3> QED BY <1>1, <1>2, <1>3, <1>4, <3>1 DEF OpenBodies
  <2>2. {BodyScope(stack', i) : i \in 0 .. n + 1} = {BodyScope(stack, i) : i \in 0 .. n} \cup {nScopes + 1}
    OBVIOUS
  <2>3. path[BodyScope(stack, n)] = {BodyScope(stack, i) : i \in 0 .. n}
    BY <1>1 DEF OpenBodies
  <2>4. path'[BodyScope(stack', n + 1)] = {BodyScope(stack', i) : i \in 0 .. n + 1}
    BY <1>5, <2>2, <2>3
  <2>5. BodyScope(stack', n + 1) \in 1 .. nScopes'
    BY <1>1, <1>2
  <2> QED BY <2>1, <2>4, <2>5
<1>7. \A k \in 1 .. n + 1 :
          /\ parent'[BodyScope(stack', k)] = BodyScope(stack', k - 1)
          /\ BodyScope(stack', k - 1) < BodyScope(stack', k)
  <2>1. ASSUME NEW k \in 1 .. n
        PROVE  /\ parent'[BodyScope(stack', k)] = BodyScope(stack', k - 1)
               /\ BodyScope(stack', k - 1) < BodyScope(stack', k)
    <3>1. k \in 0 .. n /\ k - 1 \in 0 .. n
      OBVIOUS
    <3> QED BY <1>1, <1>4, <3>1 DEF OpenBodies
  <2>2. /\ parent'[BodyScope(stack', n + 1)] = BodyScope(stack', n)
        /\ BodyScope(stack', n) < BodyScope(stack', n + 1)
    BY <1>1, <1>3, <1>5
  <2> QED BY <2>1, <2>2
<1>8. PathsWellFormed'
  <2>1. path'[nScopes + 1] \subseteq 1 .. nScopes + 1 /\ nScopes + 1 \in path'[nScopes + 1]
    BY <1>1, <1>3, <1>5 DEF PathsWellFormed
  <2>2. \A s \in 1 .. nScopes : path'[s] = path[s]
    BY <1>1, <1>2 DEF TypeOK, TablesTypeOK
  <2> QED BY <1>1, <1>2, <2>1, <2>2 DEF PathsWellFormed
<1> QED BY <1>1, <1>6, <1>7, <1>8 DEF OpenBodies

\* A body is opened below the innermost one.
LEMMA PushBody ==
    ASSUME TypeOK, OpenBodies, PathsWellFormed,
           NEW kind \in BodyKinds, NEW names \in [Idents -> Name \cup {NoName}],
           EnterInnerScope(names),
           stack' = Append(stack, [kind |-> kind, scope |-> NextScope])
    PROVE  OpenBodies' /\ PathsWellFormed'
<1> DEFINE n == Len(stack)
<1>1. n \in Nat /\ Len(stack') = n + 1
  BY DEF TypeOK
<1>2. \A k \in 0 .. n : BodyScope(stack', k) = BodyScope(stack, k)
  BY <1>1 DEF BodyScope, TypeOK
<1>3. BodyScope(stack', n + 1) = nScopes + 1
  BY <1>1 DEF BodyScope, NextScope, TypeOK
<1>4. AttachScope(BodyScope(stack, n), names) /\ currentScope' = nScopes + 1
  BY DEF EnterInnerScope, NextScope, OpenBodies
<1> QED BY <1>1, <1>2, <1>3, <1>4, NewInnermost

\* The innermost body is replaced by a sibling.
LEMMA ReplaceBody ==
    ASSUME TypeOK, OpenBodies, PathsWellFormed, stack # <<>>,
           NEW kind \in BodyKinds, NEW names \in [Idents -> Name \cup {NoName}],
           AttachScope(parent[currentScope], names), currentScope' = NextScope,
           stack' = [stack EXCEPT ![Len(stack)] = [kind |-> kind, scope |-> NextScope]]
    PROVE  OpenBodies' /\ PathsWellFormed'
<1> DEFINE n == Len(stack) - 1
<1>1. Len(stack) \in Nat \ {0} /\ stack \in Seq(Frame)
  BY EmptySeq DEF TypeOK
<1>2. Len(stack') = n + 1 /\ Len(stack) = n + 1 /\ n \in Nat /\ n <= Len(stack)
  BY <1>1
<1>3. \A k \in 0 .. n : BodyScope(stack', k) = BodyScope(stack, k)
  BY <1>1 DEF BodyScope
<1>4. BodyScope(stack', n + 1) = nScopes + 1
  BY <1>1 DEF BodyScope, NextScope
<1>5. AttachScope(BodyScope(stack, n), names) /\ currentScope' = nScopes + 1
  <2>1. Len(stack) \in 0 .. Len(stack) /\ Len(stack) \in 1 .. Len(stack)
    BY <1>1
  <2>2. parent[currentScope] = BodyScope(stack, n)
    BY <2>1 DEF OpenBodies
  <2> QED BY <2>2 DEF NextScope
<1> HIDE DEF n
<1> QED BY <1>2, <1>3, <1>4, <1>5, NewInnermost

\* The innermost body is closed.
LEMMA PopBody ==
    ASSUME TypeOK, OpenBodies, PathsWellFormed, stack # <<>>,
           ExitCurrentScope, UNCHANGED scopeVars,
           stack' = SubSeq(stack, 1, Len(stack) - 1)
    PROVE  OpenBodies' /\ PathsWellFormed'
<1> DEFINE n == Len(stack)
<1>1. n \in Nat /\ n > 0 /\ Len(stack') = n - 1
  <2>1. stack \in Seq(Frame)
    BY DEF TypeOK
  <2>2. n \in Nat /\ n # 0
    BY <2>1, EmptySeq
  <2> DEFINE m == n - 1
  <2>3. m \in Int /\ 1 \in Int /\ \A i \in 1 .. m : stack[i] \in Frame
    BY <2>1, <2>2
  <2> HIDE DEF m
  <2>4. Len(SubSeq(stack, 1, m)) = IF 1 <= m THEN m - 1 + 1 ELSE 0
    BY <2>3, SubSeqProperties
  <2>5. stack' = SubSeq(stack, 1, m)
    BY DEF m
  <2>6. Len(stack') = IF 1 <= m THEN m - 1 + 1 ELSE 0
    BY <2>4, <2>5, Zenon
  <2>7. m = n - 1
    BY DEF m
  <2> HIDE DEF n
  <2> QED BY <2>2, <2>6, <2>7
<1>2. \A k \in 0 .. n - 1 : BodyScope(stack', k) = BodyScope(stack, k)
  BY <1>1 DEF BodyScope, TypeOK
<1>3. currentScope' = BodyScope(stack, n - 1)
  <2>1. n \in 1 .. n /\ n - 1 \in 0 .. n
    BY <1>1
  <2>2. BodyScope(stack, n - 1) \in 1 .. nScopes /\ BodyScope(stack, n) > BodyScope(stack, n - 1)
    BY <2>1 DEF OpenBodies
  <2>3. BodyScope(stack, n) # Global
    BY <2>2, <1>1 DEF Global, TypeOK, TablesTypeOK, Scopes
  <2> QED BY <2>1, <2>3 DEF OpenBodies, ExitCurrentScope
<1>4. \A k \in 0 .. n - 1 : {BodyScope(stack', i) : i \in 0 .. k} = {BodyScope(stack, i) : i \in 0 .. k}
  BY <1>1, <1>2
<1>5. nScopes' = nScopes /\ parent' = parent /\ path' = path
  BY DEF scopeVars
<1>6. PathsWellFormed'
  BY <1>5 DEF PathsWellFormed
<1>7. ASSUME NEW k \in 0 .. n - 1
      PROVE  /\ BodyScope(stack', k) \in 1 .. nScopes'
             /\ path'[BodyScope(stack', k)] = {BodyScope(stack', i) : i \in 0 .. k}
  <2>1. k \in 0 .. n
    BY <1>1
  <2>2. /\ BodyScope(stack, k) \in 1 .. nScopes
        /\ path[BodyScope(stack, k)] = {BodyScope(stack, i) : i \in 0 .. k}
    BY <2>1 DEF OpenBodies
  <2> QED BY <2>2, <1>2, <1>4, <1>5
<1>8. ASSUME NEW k \in 1 .. n - 1
      PROVE  /\ parent'[BodyScope(stack', k)] = BodyScope(stack', k - 1)
             /\ BodyScope(stack', k - 1) < BodyScope(stack', k)
  <2>1. k \in 1 .. n /\ k \in 0 .. n - 1 /\ k - 1 \in 0 .. n - 1
    BY <1>1
  <2>2. /\ parent[BodyScope(stack, k)] = BodyScope(stack, k - 1)
        /\ BodyScope(stack, k - 1) < BodyScope(stack, k)
    BY <2>1 DEF OpenBodies
  <2> QED BY <2>1, <2>2, <1>2, <1>5
<1>9. currentScope' = BodyScope(stack', n - 1) /\ Len(stack') = n - 1
  BY <1>1, <1>2, <1>3
<1> HIDE DEF n
<1>10. OpenBodies'
  BY <1>7, <1>8, <1>9 DEF OpenBodies
<1> QED BY <1>6, <1>10

-----------------------------------------------------------------------------
(* The invariant holds at first, and the steps that change little keep it. *)

LEMMA InitInv == Init => Inv
<1> SUFFICES ASSUME Init PROVE Inv
  OBVIOUS
<1>1. TablesTypeOK
  BY InitTablesType DEF Init
<1>2. TypeOK
  <2>1. stack \in Seq(Frame)
    BY EmptySeq DEF Init
  <2>2. uses \in SUBSET Occurrence
    BY DEF Init
  <2>3. currentFunction \in Func \cup {NoFunc} /\ reported \in BOOLEAN
    BY DEF Init
  <2>4. status \in {"running", "finished", "aborted"}
    BY DEF Init
  <2> QED BY <1>1, <2>1, <2>2, <2>3, <2>4 DEF TypeOK
<1>3. Len(stack) = 0
  BY DEF Init
<1>4. nScopes = 1 /\ currentScope = 1 /\ path[1] = {1}
  BY BoundsAssumption DEF Init, InitTables, Global, Scopes
<1>5. OpenBodies
  BY <1>3, <1>4 DEF OpenBodies, BodyScope, Global
<1>6. PathsWellFormed
  BY <1>4 DEF PathsWellFormed
<1>7. UsesKnown
  BY DEF Init, UsesKnown
<1> QED BY <1>2, <1>5, <1>6, <1>7 DEF Inv

\* A step that leaves the tables, the bodies and the recorded uses alone.
LEMMA QuietStep ==
    ASSUME Inv, UNCHANGED <<tableVars, stack, currentFunction, uses>>,
           status' \in {"running", "finished", "aborted"}, reported' \in BOOLEAN
    PROVE  Inv'
<1>1. UNCHANGED <<scopeVars, currentScope, stack>>
  BY DEF tableVars
<1>2. OpenBodies' /\ PathsWellFormed'
  BY <1>1, SameBodies DEF Inv
<1>3. TablesTypeOK'
  BY DEF Inv, TypeOK, TablesTypeOK, tableVars, scopeVars, nameVars, typeVars
<1>4. TypeOK'
  BY <1>3 DEF Inv, TypeOK
<1>5. UsesKnown'
  BY DEF Inv, UsesKnown, tableVars, scopeVars, nameVars
<1> QED BY <1>2, <1>4, <1>5 DEF Inv

LEMMA AbortKeepsInv == ASSUME Inv, AbortProcess PROVE Inv'
<1>1. reported' \in BOOLEAN
  BY DEF Inv, TypeOK, AbortProcess
<1> QED BY <1>1, QuietStep DEF AbortProcess

LEMMA SkipKeepsInv == ASSUME Inv, SkipNode PROVE Inv'
<1>1. status' \in {"running", "finished", "aborted"}
  BY DEF Inv, TypeOK, SkipNode
<1> QED BY <1>1, QuietStep DEF SkipNode

(***************************************************************************)
(* What is recorded of a valid node is a use the tables know.              *)
(***************************************************************************)
LEMMA RecordUsesType ==
    ASSUME TypeOK, NEW X \in SUBSET Idents, NEW s \in Scopes, RecordUses(X, s)
    PROVE  /\ uses' \in SUBSET Occurrence
           /\ \A u \in uses' \ uses : u.scope = s /\ u.clock = nNames
<1>1. \A x \in X : UseOf(x, s) \in Occurrence /\ UseOf(x, s).scope = s /\ UseOf(x, s).clock = nNames
  <2> SUFFICES ASSUME NEW x \in X
               PROVE  /\ UseOf(x, s) \in Occurrence
                      /\ UseOf(x, s).scope = s /\ UseOf(x, s).clock = nNames
    OBVIOUS
  <2>1. LookupName(currentScope, x) \in Name \cup {NoName}
    BY LookupNameFinds DEF TypeOK, TablesTypeOK
  <2>2. nNames \in 0 .. MaxNames
    BY DEF TypeOK, TablesTypeOK
  <2> QED BY <2>1, <2>2 DEF UseOf, Occurrence
<1> QED BY <1>1 DEF RecordUses, TypeOK

\* A valid statement without a body.
LEMMA RecordKeepsInv ==
    ASSUME Inv, NEW X \in SUBSET Idents, RecordUses(X, currentScope),
           UNCHANGED <<tableVars, stack, currentFunction, reported, status>>
    PROVE  Inv'
<1>1. UNCHANGED <<scopeVars, currentScope, stack>>
  BY DEF tableVars
<1>2. OpenBodies' /\ PathsWellFormed'
  BY <1>1, SameBodies DEF Inv
<1>3. TablesTypeOK'
  BY DEF Inv, TypeOK, TablesTypeOK, tableVars, scopeVars, nameVars, typeVars
<1>4. currentScope \in Scopes
  BY DEF Inv, TypeOK, TablesTypeOK
<1>5. /\ uses' \in SUBSET Occurrence
      /\ \A u \in uses' \ uses : u.scope = currentScope /\ u.clock = nNames
  BY <1>4, RecordUsesType DEF Inv
<1>6. TypeOK'
  BY <1>3, <1>5 DEF Inv, TypeOK
<1>7. currentScope <= nScopes
  <2>1. Len(stack) \in 0 .. Len(stack)
    BY DEF Inv, TypeOK
  <2> QED BY <2>1 DEF Inv, OpenBodies
<1>8. UsesKnown'
  <2>1. nScopes' = nScopes /\ nNames' = nNames
    BY DEF tableVars, scopeVars, nameVars
  <2> QED BY <1>5, <1>7, <2>1 DEF Inv, UsesKnown, TypeOK, TablesTypeOK
<1> QED BY <1>2, <1>6, <1>8 DEF Inv

LEMMA SimpleStatementKeepsInv ==
    ASSUME Inv, NEW outcomes, NEW X \in SUBSET Idents, SimpleStatement(outcomes, X)
    PROVE  Inv'
<1>1. \/ AbortProcess \/ SkipNode
      \/ RecordUses(X, currentScope) /\ UNCHANGED <<tableVars, stack, currentFunction, reported, status>>
  BY DEF SimpleStatement
<1> QED BY <1>1, AbortKeepsInv, SkipKeepsInv, RecordKeepsInv

-----------------------------------------------------------------------------
(* Declarations.                                                           *)

\* What defining a variable in the current scope needs to keep the invariant.
LEMMA DefineNameKeepsInv ==
    ASSUME Inv, NEW x \in Idents, NEW t \in TypeIds, DefineName(currentScope, x, t),
           UNCHANGED <<scopeVars, typeVars, funcMap, currentScope, stack, currentFunction>>,
           reported' \in BOOLEAN, status' \in {"running", "finished", "aborted"}
    PROVE  /\ TablesTypeOK'
           /\ uses' \in SUBSET Occurrence
                /\ (\A u \in uses' \ uses : u.scope = currentScope /\ u.clock <= nNames')
              => Inv'
<1>1. TablesTypeOK
  BY DEF Inv, TypeOK
<1>2. /\ nNames' \in 0 .. MaxNames
      /\ nameMap' \in [Scopes -> [Idents -> Name \cup {NoName}]]
  BY <1>1, DefineNameType DEF TablesTypeOK
<1>3. TablesTypeOK'
  BY <1>1, <1>2 DEF TablesTypeOK, scopeVars, typeVars
<1>4. ASSUME uses' \in SUBSET Occurrence,
             \A u \in uses' \ uses : u.scope = currentScope /\ u.clock <= nNames'
      PROVE  Inv'
  <2>1. OpenBodies' /\ PathsWellFormed'
    BY SameBodies DEF Inv
  <2>2. TypeOK'
    BY <1>3, <1>4 DEF Inv, TypeOK
  <2>3. currentScope <= nScopes
    <3>1. Len(stack) \in 0 .. Len(stack)
      BY DEF Inv, TypeOK
    <3> QED BY <3>1 DEF Inv, OpenBodies
  <2>4. nNames' = nNames + 1 /\ nNames \in Nat /\ nScopes' = nScopes
    BY <1>1 DEF DefineName, TablesTypeOK, scopeVars
  <2>5. \A u \in uses : u.scope <= nScopes /\ u.clock <= nNames /\ u.clock \in Nat
    BY DEF Inv, TypeOK, UsesKnown, Occurrence
  <2>6. UsesKnown'
    BY <1>4, <2>3, <2>4, <2>5 DEF UsesKnown
  <2> QED BY <2>1, <2>2, <2>6 DEF Inv
<1> QED BY <1>3, <1>4

LEMMA DeclareTypedVariableKeepsInv ==
    ASSUME Inv, NEW x \in Declared, NEW T \in TypeIdents, NEW e \in Exprs,
           DeclareTypedVariable(x, T, e)
    PROVE  Inv'
<1>1. /\ x \in Idents /\ T \in Idents /\ Reads(e) \subseteq Idents
      /\ currentScope \in Scopes /\ TablesTypeOK
  BY ProgramAssumption DEF Inv, TypeOK, TablesTypeOK
<1>2. CASE LookupType(currentScope, T) = NoTypeId
  <2>1. AbortProcess \/ SkipNode
    BY <1>2 DEF DeclareTypedVariable
  <2> QED BY <2>1, AbortKeepsInv, SkipKeepsInv
<1>3. CASE LookupType(currentScope, T) # NoTypeId
  <2> DEFINE t == LookupType(currentScope, T)
  <2>1. t \in TypeIds
    BY <1>1, <1>3, LookupTypeFinds
  <2>2. /\ DefineName(currentScope, x, t)
        /\ UNCHANGED <<scopeVars, typeVars, funcMap, currentScope, stack, currentFunction>>
        /\ uses' = uses \cup {UseOf(y, currentScope)' : y \in Reads(e)}
    BY <1>3 DEF DeclareTypedVariable
  <2>3. reported' \in BOOLEAN /\ status' \in {"running", "finished", "aborted"}
    BY <1>3 DEF DeclareTypedVariable, Inv, TypeOK
  <2> HIDE DEF t
  <2>4. TablesTypeOK'
    BY <1>1, <2>1, <2>2, <2>3, DefineNameKeepsInv
  <2>5. \A y \in Reads(e) :
           /\ UseOf(y, currentScope)' \in Occurrence
           /\ UseOf(y, currentScope)'.scope = currentScope
           /\ UseOf(y, currentScope)'.clock = nNames'
    <3> SUFFICES ASSUME NEW y \in Reads(e)
                 PROVE  /\ UseOf(y, currentScope)' \in Occurrence
                        /\ UseOf(y, currentScope)'.scope = currentScope
                        /\ UseOf(y, currentScope)'.clock = nNames'
      OBVIOUS
    <3>1. y \in Idents /\ currentScope' = currentScope
      BY <1>1, <2>2
    <3>2. LookupName(currentScope, y)' \in Name \cup {NoName}
      BY <1>1, <2>4, <3>1, LookupNameNext
    <3>3. nNames' \in 0 .. MaxNames
      BY <2>4 DEF TablesTypeOK
    <3> QED BY <1>1, <3>1, <3>2, <3>3 DEF UseOf, Occurrence
  <2>6. /\ uses' \in SUBSET Occurrence
        /\ \A u \in uses' \ uses : u.scope = currentScope /\ u.clock <= nNames'
    <3>1. nNames' <= nNames'
      BY <2>4 DEF TablesTypeOK
    <3> QED BY <2>2, <2>5, <3>1 DEF Inv, TypeOK
  <2> QED BY <1>1, <2>1, <2>2, <2>3, <2>6, DefineNameKeepsInv
<1> QED BY <1>2, <1>3

LEMMA DeclareInferredVariableKeepsInv ==
    ASSUME Inv, NEW x \in Declared, NEW e \in Exprs, DeclareInferredVariable(x, e)
    PROVE  Inv'
<1>1. /\ x \in Idents /\ Reads(e) \in SUBSET Idents
      /\ currentScope \in Scopes /\ TablesTypeOK
  BY ProgramAssumption DEF Inv, TypeOK, TablesTypeOK
<1>2. PICK t : \/ AbortProcess \/ SkipNode
               \/ /\ TypeIsVisible(currentScope, t)
                  /\ DefineName(currentScope, x, t)
                  /\ RecordUses(Reads(e), currentScope)
                  /\ UNCHANGED <<scopeVars, typeVars, funcMap, currentScope>>
                  /\ UNCHANGED <<stack, currentFunction, reported, status>>
  BY DEF DeclareInferredVariable
<1>3. CASE /\ TypeIsVisible(currentScope, t)
           /\ DefineName(currentScope, x, t)
           /\ RecordUses(Reads(e), currentScope)
           /\ UNCHANGED <<scopeVars, typeVars, funcMap, currentScope>>
           /\ UNCHANGED <<stack, currentFunction, reported, status>>
  <2>1. t \in TypeIds
    BY <1>3 DEF TypeIsVisible
  <2>2. /\ uses' \in SUBSET Occurrence
        /\ \A u \in uses' \ uses : u.scope = currentScope /\ u.clock = nNames
    BY <1>1, <1>3, RecordUsesType DEF Inv
  <2>3. nNames <= nNames'
    BY <1>1, <1>3 DEF DefineName, TablesTypeOK
  <2>4. reported' \in BOOLEAN /\ status' \in {"running", "finished", "aborted"}
    BY <1>3 DEF Inv, TypeOK
  <2> QED BY <1>1, <1>3, <2>1, <2>2, <2>3, <2>4, DefineNameKeepsInv
<1> QED BY <1>2, <1>3, AbortKeepsInv, SkipKeepsInv

LEMMA DeclareTypeKeepsInv ==
    ASSUME Inv, NEW def \in TypeDefs, DeclareType(def)
    PROVE  Inv'
<1> DEFINE parts == {LookupType(currentScope, y) : y \in def.parts}
<1>1. /\ def.ident \in Idents /\ def.kind \in TypeKinds /\ def.parts \subseteq Idents
      /\ currentScope \in Scopes /\ TablesTypeOK
  BY ProgramAssumption DEF TypeDef, Inv, TypeOK, TablesTypeOK
<1>2. CASE AbortProcess \/ SkipNode
  BY <1>2, AbortKeepsInv, SkipKeepsInv
<1>3. CASE ~(AbortProcess \/ SkipNode)
  <2>1. NoTypeId \notin parts
    BY <1>3 DEF DeclareType
  <2>2. /\ DefineType(currentScope, def.ident, def.kind, parts)
        /\ UNCHANGED <<scopeVars, nameVars, funcMap, currentScope>>
        /\ UNCHANGED <<stack, currentFunction, reported, status, uses>>
    BY <1>3 DEF DeclareType
  <2>3. parts \in SUBSET TypeIds
    BY <1>1, <2>1, LookupTypeFinds
  <2> HIDE DEF parts
  <2>4. /\ nTypes' \in 0 .. MaxTypes
        /\ typeNameMap' \in [Scopes -> [Idents -> TypeIds \cup {NoTypeId}]]
        /\ types' \in [TypeIds -> Type \cup {NoType}]
    BY <1>1, <2>2, <2>3, DefineTypeType
  <2>5. TypeOK'
    BY <1>1, <2>2, <2>4 DEF Inv, TypeOK, TablesTypeOK, scopeVars, nameVars
  <2>6. OpenBodies' /\ PathsWellFormed'
    BY <2>2, SameBodies DEF Inv
  <2>7. UsesKnown'
    BY <2>2 DEF Inv, UsesKnown, scopeVars, nameVars
  <2> QED BY <2>5, <2>6, <2>7 DEF Inv
<1> QED BY <1>2, <1>3

-----------------------------------------------------------------------------
(* Bodies.                                                                 *)

\* What opening a body below the innermost one needs to keep the invariant.
LEMMA OpenKeepsInv ==
    ASSUME Inv, NEW kind \in BodyKinds, NEW names \in [Idents -> Name \cup {NoName}],
           EnterInnerScope(names),
           stack' = Append(stack, [kind |-> kind, scope |-> NextScope]),
           UNCHANGED typeVars,
           nNames' \in 0 .. MaxNames, nNames <= nNames',
           funcMap' \in [Idents -> Func \cup {NoFunc}],
           currentFunction' \in Func \cup {NoFunc},
           reported' \in BOOLEAN, status' \in {"running", "finished", "aborted"},
           uses' \in SUBSET Occurrence,
           \A u \in uses' \ uses : u.scope <= nScopes' /\ u.clock <= nNames'
    PROVE  Inv'
<1>1. OpenBodies' /\ PathsWellFormed'
  BY PushBody DEF Inv
<1>2. TablesTypeOK /\ currentScope \in Scopes
  BY DEF Inv, TypeOK, TablesTypeOK
<1>3. AttachScope(currentScope, names) /\ currentScope' = NextScope
  BY DEF EnterInnerScope
<1>4. /\ nScopes' \in Scopes /\ NextScope \in Scopes
      /\ parent' \in [Scopes -> 0 .. MaxScopes]
      /\ path' \in [Scopes -> SUBSET Scopes]
      /\ nameMap' \in [Scopes -> [Idents -> Name \cup {NoName}]]
  BY <1>2, <1>3, AttachScopeType
<1>5. TablesTypeOK'
  BY <1>2, <1>3, <1>4 DEF TablesTypeOK, typeVars
<1>6. stack' \in Seq(Frame)
  BY <1>4 DEF Inv, TypeOK, Frame
<1>7. TypeOK'
  BY <1>5, <1>6 DEF TypeOK
<1>8. UsesKnown'
  <2>1. /\ nScopes' = nScopes + 1 /\ nScopes \in Nat /\ nNames \in Nat /\ nNames' \in Nat
        /\ \A u \in uses : /\ u.scope <= nScopes /\ u.clock <= nNames
                           /\ u.scope \in Nat /\ u.clock \in Nat
    BY <1>2, <1>3 DEF AttachScope, NextScope, TablesTypeOK, Inv, TypeOK, UsesKnown, Occurrence, Scopes
  <2> QED BY <2>1 DEF UsesKnown
<1> QED BY <1>1, <1>7, <1>8 DEF Inv

\* A then body or a while body, which declares nothing.
LEMMA OpenEmptyKeepsInv ==
    ASSUME Inv, NEW kind \in BodyKinds, NEW X \in SUBSET Idents, NEW s \in {currentScope, NextScope},
           OpenBody(kind, EmptyNames), RecordUses(X, s), UNCHANGED nNames
    PROVE  Inv'
<1>1. EmptyNames \in [Idents -> Name \cup {NoName}]
  BY DEF EmptyNames
<1>2. TypeOK /\ TablesTypeOK /\ currentScope \in Scopes
  BY DEF Inv, TypeOK, TablesTypeOK
<1>3. /\ EnterInnerScope(EmptyNames)
      /\ stack' = Append(stack, [kind |-> kind, scope |-> NextScope])
      /\ UNCHANGED <<typeVars, funcMap, currentFunction, reported, status>>
  BY DEF OpenBody
<1>4. NextScope \in Scopes
  BY <1>1, <1>2, <1>3, AttachScopeType DEF EnterInnerScope
<1>5. /\ uses' \in SUBSET Occurrence
      /\ \A u \in uses' \ uses : u.scope = s /\ u.clock = nNames
  BY <1>2, <1>4, RecordUsesType
<1>6. s <= nScopes'
  <2>1. nScopes' = nScopes + 1 /\ nScopes \in Nat
    BY <1>2, <1>3 DEF EnterInnerScope, AttachScope, NextScope, TablesTypeOK, Scopes
  <2>2. currentScope \in 1 .. nScopes
    <3>1. Len(stack) \in 0 .. Len(stack)
      BY DEF Inv, TypeOK
    <3> QED BY <3>1 DEF Inv, OpenBodies
  <2> QED BY <2>1, <2>2 DEF NextScope
<1>7. nNames' \in 0 .. MaxNames /\ nNames <= nNames'
  BY <1>2 DEF TablesTypeOK
<1>8. /\ funcMap' \in [Idents -> Func \cup {NoFunc}] /\ currentFunction' \in Func \cup {NoFunc}
      /\ reported' \in BOOLEAN /\ status' \in {"running", "finished", "aborted"}
  BY <1>2, <1>3 DEF TypeOK, TablesTypeOK
<1>9. \A u \in uses' \ uses : u.scope <= nScopes' /\ u.clock <= nNames'
  BY <1>5, <1>6, <1>7
<1> QED BY <1>1, <1>3, <1>5, <1>7, <1>8, <1>9, OpenKeepsInv

LEMMA OpenForKeepsInv ==
    ASSUME Inv, NEW x \in Declared, NEW lo \in Exprs, NEW hi \in Exprs, OpenFor(x, lo, hi)
    PROVE  Inv'
<1> DEFINE counter == NewName(nNames + 1, x, INT, FALSE)
           counterUse == [ident |-> x, name |-> counter, scope |-> NextScope, clock |-> nNames + 1]
           names == [EmptyNames EXCEPT ![x] = counter]
           X == Reads(lo) \cup Reads(hi)
<1>1. /\ TypeOK /\ TablesTypeOK /\ currentScope \in Scopes /\ x \in Idents
      /\ X \in SUBSET Idents
  BY ProgramAssumption DEF Inv, TypeOK, TablesTypeOK
<1>2. \/ AbortProcess \/ SkipNode
      \/ /\ nNames < MaxNames /\ nNames' = nNames + 1
         /\ OpenBody("for", names)
         /\ uses' = uses \cup {counterUse} \cup {UseOf(y, currentScope) : y \in X}
  BY DEF OpenFor, BlockStatement
<1>3. ASSUME nNames < MaxNames, nNames' = nNames + 1, OpenBody("for", names),
             uses' = uses \cup {counterUse} \cup {UseOf(y, currentScope) : y \in X}
      PROVE  Inv'
  <2>1. nNames + 1 \in 1 .. MaxNames /\ nNames' \in 0 .. MaxNames /\ nNames <= nNames' /\ nNames \in Nat
    BY <1>1, <1>3, BoundsAssumption DEF TablesTypeOK
  <2>2. counter \in Name
    <3>1. INT \in TypeIds
      BY DEF TypeIds, Natives
    <3> QED BY <1>1, <2>1, <3>1 DEF NewName, Name
  <2>3. names \in [Idents -> Name \cup {NoName}]
    <3> HIDE DEF counter
    <3> QED BY <1>1, <2>2 DEF EmptyNames
  <2>4. /\ EnterInnerScope(names)
        /\ stack' = Append(stack, [kind |-> "for", scope |-> NextScope])
        /\ UNCHANGED <<typeVars, funcMap, currentFunction, reported, status>>
    BY <1>3 DEF OpenBody
  <2> HIDE DEF names, counter, X
  <2>5. NextScope \in Scopes
    BY <1>1, <2>3, <2>4, AttachScopeType DEF EnterInnerScope
  <2>6. counterUse \in Occurrence /\ counterUse.scope = NextScope /\ counterUse.clock = nNames'
    BY <1>1, <1>3, <2>1, <2>2, <2>5 DEF Occurrence
  <2>7. \A y \in X : /\ UseOf(y, currentScope) \in Occurrence
                     /\ UseOf(y, currentScope).scope = currentScope
                     /\ UseOf(y, currentScope).clock = nNames
    <3> SUFFICES ASSUME NEW y \in X
                 PROVE  /\ UseOf(y, currentScope) \in Occurrence
                        /\ UseOf(y, currentScope).scope = currentScope
                        /\ UseOf(y, currentScope).clock = nNames
      OBVIOUS
    <3>1. y \in Idents /\ LookupName(currentScope, y) \in Name \cup {NoName}
      BY <1>1, LookupNameFinds
    <3>2. nNames \in 0 .. MaxNames
      BY <1>1 DEF TablesTypeOK
    <3> QED BY <1>1, <3>1, <3>2 DEF UseOf, Occurrence
  <2>8. NextScope <= nScopes' /\ currentScope <= nScopes'
    <3>1. nScopes' = nScopes + 1 /\ NextScope = nScopes + 1 /\ nScopes \in Nat
      BY <1>1, <2>4 DEF EnterInnerScope, AttachScope, NextScope, TablesTypeOK, Scopes
    <3>2. currentScope \in 1 .. nScopes
      <4>1. Len(stack) \in 0 .. Len(stack)
        BY DEF Inv, TypeOK
      <4> QED BY <4>1 DEF Inv, OpenBodies
    <3> QED BY <3>1, <3>2
  <2> HIDE DEF counterUse
  <2>9. /\ uses' \in SUBSET Occurrence
        /\ \A u \in uses' \ uses : u.scope <= nScopes' /\ u.clock <= nNames'
    BY <1>1, <1>3, <2>1, <2>6, <2>7, <2>8 DEF TypeOK
  <2>10. /\ funcMap' \in [Idents -> Func \cup {NoFunc}] /\ currentFunction' \in Func \cup {NoFunc}
         /\ reported' \in BOOLEAN /\ status' \in {"running", "finished", "aborted"}
    BY <1>1, <2>4 DEF TypeOK, TablesTypeOK
  <2> QED BY <2>1, <2>3, <2>4, <2>9, <2>10, OpenKeepsInv DEF BodyKinds
<1> QED BY <1>2, <1>3, AbortKeepsInv, SkipKeepsInv

LEMMA CloseBodyKeepsInv == ASSUME Inv, CloseBody PROVE Inv'
<1>1. /\ stack # <<>> /\ ExitCurrentScope
      /\ stack' = SubSeq(stack, 1, Len(stack) - 1)
      /\ UNCHANGED <<scopeVars, nameVars, typeVars, funcMap, currentFunction, reported, status, uses>>
  BY DEF CloseBody, InRoutine
<1>2. OpenBodies' /\ PathsWellFormed'
  BY <1>1, PopBody DEF Inv
<1>3. stack' \in Seq(Frame)
  BY <1>1 DEF Inv, TypeOK
<1>4. currentScope' \in Scopes
  <2>1. Len(stack') \in 0 .. Len(stack')
    BY <1>3
  <2>2. currentScope' \in 1 .. nScopes'
    BY <1>2, <2>1 DEF OpenBodies
  <2> QED BY <1>1, <2>2, BoundsAssumption DEF scopeVars, Inv, TypeOK, TablesTypeOK, Scopes
<1>5. TypeOK'
  BY <1>1, <1>3, <1>4 DEF Inv, TypeOK, TablesTypeOK, scopeVars, nameVars, typeVars
<1>6. UsesKnown'
  BY <1>1 DEF Inv, UsesKnown, scopeVars, nameVars
<1> QED BY <1>2, <1>5, <1>6 DEF Inv

LEMMA OpenElseKeepsInv == ASSUME Inv, OpenElse PROVE Inv'
<1>1. /\ stack # <<>> /\ AttachScope(parent[currentScope], EmptyNames) /\ currentScope' = NextScope
      /\ stack' = [stack EXCEPT ![Len(stack)] = [kind |-> "else", scope |-> NextScope]]
      /\ UNCHANGED <<nNames, typeVars, funcMap, currentFunction, reported, status, uses>>
  BY DEF OpenElse, InRoutine
<1>2. EmptyNames \in [Idents -> Name \cup {NoName}] /\ "else" \in BodyKinds
  BY DEF EmptyNames, BodyKinds
<1>3. OpenBodies' /\ PathsWellFormed'
  BY <1>1, <1>2, ReplaceBody DEF Inv
<1>4. parent[currentScope] \in Scopes
  <2>1. Len(stack) \in 1 .. Len(stack) /\ Len(stack) - 1 \in 0 .. Len(stack)
    BY <1>1, EmptySeq DEF Inv, TypeOK
  <2>2. parent[currentScope] \in 1 .. nScopes
    BY <2>1 DEF Inv, OpenBodies
  <2> QED BY <2>2, BoundsAssumption DEF Inv, TypeOK, TablesTypeOK, Scopes
<1>5. /\ nScopes' \in Scopes /\ NextScope \in Scopes
      /\ parent' \in [Scopes -> 0 .. MaxScopes]
      /\ path' \in [Scopes -> SUBSET Scopes]
      /\ nameMap' \in [Scopes -> [Idents -> Name \cup {NoName}]]
  BY <1>1, <1>2, <1>4, AttachScopeType DEF Inv, TypeOK
<1>6. TablesTypeOK'
  BY <1>1, <1>5 DEF Inv, TypeOK, TablesTypeOK, typeVars
<1>7. stack' \in Seq(Frame)
  <2>1. [kind |-> "else", scope |-> NextScope] \in Frame
    BY <1>2, <1>5 DEF Frame
  <2> QED BY <1>1, <2>1, ExceptSeq DEF Inv, TypeOK
<1>8. TypeOK'
  BY <1>1, <1>6, <1>7 DEF Inv, TypeOK
<1>9. UsesKnown'
  <2>1. nScopes' = nScopes + 1 /\ nScopes \in Nat
    BY <1>1 DEF AttachScope, NextScope, Inv, TypeOK, TablesTypeOK, Scopes
  <2>2. \A u \in uses : u.scope \in Nat /\ u.scope <= nScopes
    BY DEF Inv, UsesKnown, TypeOK, Occurrence, Scopes
  <2> QED BY <1>1, <2>1, <2>2 DEF Inv, UsesKnown
<1> QED BY <1>3, <1>8, <1>9 DEF Inv

(***************************************************************************)
(* A routine that is not refused gets well-typed parameter names: of equal *)
(* identifiers the last parameter's, and nothing for the others.           *)
(***************************************************************************)
LEMMA ParamNamesType ==
    ASSUME TypeOK, NEW params \in Seq(Param), nNames + Len(params) <= MaxNames,
           \A i \in DOMAIN params : LookupType(Global, params[i].type) # NoTypeId
    PROVE  /\ ParamNames(params) \in [Idents -> Name \cup {NoName}]
           /\ [i \in DOMAIN params |-> LookupType(Global, params[i].type)] \in Seq(TypeIds)
<1>1. TablesTypeOK /\ Global \in Scopes /\ Len(params) \in Nat /\ nNames \in Nat
  BY BoundsAssumption DEF TypeOK, TablesTypeOK, Global, Scopes
<1>2. \A i \in DOMAIN params : LookupType(Global, params[i].type) \in TypeIds
  <2> SUFFICES ASSUME NEW i \in DOMAIN params
               PROVE  LookupType(Global, params[i].type) \in TypeIds
    OBVIOUS
  <2>1. params[i] \in Param
    OBVIOUS
  <2>2. params[i].type \in Idents
    BY <2>1 DEF Param
  <2> QED BY <1>1, <2>2, LookupTypeFinds
<1>3. ASSUME NEW x \in Idents, NEW at, at = {i \in DOMAIN params : params[i].ident = x}, at # {}
      PROVE  NewName(nNames + Innermost(at), x,
                     LookupType(Global, params[Innermost(at)].type), TRUE) \in Name
  <2>1. at \in SUBSET (1 .. Len(params))
    BY <1>3
  <2>2. Innermost(at) \in at
    BY <1>1, <1>3, <2>1, InnermostIsGreatest
  <2>3. Innermost(at) \in 1 .. Len(params)
    BY <2>1, <2>2, Zenon
  <2>4. nNames + Innermost(at) \in 1 .. MaxNames
    BY <1>1, <2>3, BoundsAssumption
  <2>5. LookupType(Global, params[Innermost(at)].type) \in TypeIds
    <3>1. DOMAIN params = 1 .. Len(params)
      OBVIOUS
    <3> QED BY <1>2, <2>3, <3>1
  <2> QED BY <2>4, <2>5 DEF NewName, Name
<1>4. ParamNames(params) \in [Idents -> Name \cup {NoName}]
  BY <1>3 DEF ParamNames
<1> QED BY <1>2, <1>4

LEMMA OpenRoutineKeepsInv ==
    ASSUME Inv, NEW f \in Routines, NEW params \in ParamLists, NEW R \in TypeIdents \cup {NoIdent},
           OpenRoutine(f, params, R)
    PROVE  Inv'
<1> DEFINE paramTypes == [i \in DOMAIN params |-> LookupType(Global, params[i].type)]
           ret == IF R = NoIdent THEN VOID ELSE LookupType(Global, R)
           func == [scope |-> NextScope, params |-> paramTypes, ret |-> ret]
<1>1. /\ TypeOK /\ TablesTypeOK /\ Global \in Scopes /\ params \in Seq(Param) /\ f \in Idents
  BY ProgramAssumption, BoundsAssumption DEF Inv, TypeOK, Global, Scopes
<1>2. \/ AbortProcess
      \/ /\ \A i \in DOMAIN params : LookupType(Global, params[i].type) # NoTypeId
         /\ stack = <<>>
         /\ nNames + Len(params) <= MaxNames
         /\ nNames' = nNames + Len(params)
         /\ EnterInnerScope(ParamNames(params))
         /\ funcMap' = [funcMap EXCEPT ![f] = func]
         /\ currentFunction' = func
         /\ stack' = <<[kind |-> "routine", scope |-> NextScope]>>
         /\ reported' = (reported \/ ret = NoTypeId)
         /\ UNCHANGED <<typeVars, status, uses>>
  BY DEF OpenRoutine, InRoutine
<1>3. ASSUME \A i \in DOMAIN params : LookupType(Global, params[i].type) # NoTypeId,
             stack = <<>>,
             nNames + Len(params) <= MaxNames,
             nNames' = nNames + Len(params),
             EnterInnerScope(ParamNames(params)),
             funcMap' = [funcMap EXCEPT ![f] = func],
             currentFunction' = func,
             stack' = <<[kind |-> "routine", scope |-> NextScope]>>,
             reported' = (reported \/ ret = NoTypeId),
             UNCHANGED <<typeVars, status, uses>>
      PROVE  Inv'
  <2>1. /\ ParamNames(params) \in [Idents -> Name \cup {NoName}]
        /\ paramTypes \in Seq(TypeIds)
    BY <1>1, <1>3, ParamNamesType
  <2>2. NextScope \in Scopes
    BY <1>1, <1>3, <2>1, AttachScopeType DEF EnterInnerScope, TablesTypeOK
  <2>3. ret \in TypeIds \cup {NoTypeId}
    <3>1. VOID \in TypeIds
      BY DEF TypeIds, Natives
    <3>2. R # NoIdent => R \in Idents
      BY ProgramAssumption
    <3> QED BY <1>1, <3>1, <3>2, LookupTypeFinds
  <2> HIDE DEF paramTypes, ret
  <2>4. func \in Func
    BY <2>1, <2>2, <2>3 DEF Func
  <2> HIDE DEF func
  <2>5. funcMap' \in [Idents -> Func \cup {NoFunc}] /\ currentFunction' \in Func \cup {NoFunc}
    BY <1>1, <1>3, <2>4 DEF TablesTypeOK
  <2>6. nNames' \in 0 .. MaxNames /\ nNames <= nNames'
    BY <1>1, <1>3, BoundsAssumption DEF TablesTypeOK
  <2>7. stack' = Append(stack, [kind |-> "routine", scope |-> NextScope])
    BY <1>3
  <2>8. reported' \in BOOLEAN /\ status' \in {"running", "finished", "aborted"}
        /\ uses' \in SUBSET Occurrence
    BY <1>1, <1>3 DEF TypeOK
  <2>9. \A u \in uses' \ uses : u.scope <= nScopes' /\ u.clock <= nNames'
    BY <1>3
  <2> QED BY <1>3, <2>1, <2>5, <2>6, <2>7, <2>8, <2>9, OpenKeepsInv DEF BodyKinds
<1> QED BY <1>2, <1>3, AbortKeepsInv

-----------------------------------------------------------------------------
\* Every step keeps the invariant.
LEMMA NextKeepsInv == Inv /\ [Next]_vars => Inv'
<1> SUFFICES ASSUME Inv, [Next]_vars PROVE Inv'
  OBVIOUS
<1>1. CASE DeclareGlobalVariable
  BY <1>1, AbortKeepsInv DEF DeclareGlobalVariable
<1>2. CASE \E x \in Declared, T \in TypeIdents, e \in Exprs : DeclareTypedVariable(x, T, e)
  BY <1>2, DeclareTypedVariableKeepsInv
<1>3. CASE \E x \in Declared, e \in Exprs : DeclareInferredVariable(x, e)
  BY <1>3, DeclareInferredVariableKeepsInv
<1>4. CASE \E def \in TypeDefs : DeclareType(def)
  BY <1>4, DeclareTypeKeepsInv
<1>5. CASE RoutineDeclaration
  BY <1>5, OpenRoutineKeepsInv DEF RoutineDeclaration
<1>6. ASSUME NEW x \in Declared, NEW e \in Exprs, Assign(x, e)
      PROVE  Inv'
  <2>1. {x} \cup Reads(e) \in SUBSET Idents
    BY ProgramAssumption
  <2> QED BY <1>6, <2>1, SimpleStatementKeepsInv DEF Assign
<1>7. ASSUME NEW e \in Exprs, CallStatement(e) \/ Return(e)
      PROVE  Inv'
  <2>1. Reads(e) \in SUBSET Idents
    BY ProgramAssumption
  <2> QED BY <1>7, <2>1, SimpleStatementKeepsInv DEF CallStatement, Return
<1>8. ASSUME NEW e \in Exprs, OpenIf(e) \/ OpenWhile(e)
      PROVE  Inv'
  <2>1. Reads(e) \in SUBSET Idents
    BY ProgramAssumption
  <2>2. \/ AbortProcess \/ SkipNode
        \/ /\ OpenBody("then", EmptyNames) /\ RecordUses(Reads(e), currentScope)
           /\ UNCHANGED nNames
        \/ /\ OpenBody("while", EmptyNames) /\ RecordUses(Reads(e), NextScope)
           /\ UNCHANGED nNames
    BY <1>8 DEF OpenIf, OpenWhile, BlockStatement
  <2> QED BY <2>1, <2>2, OpenEmptyKeepsInv, AbortKeepsInv, SkipKeepsInv DEF BodyKinds
<1>9. CASE \E x \in Declared, lo \in Exprs, hi \in Exprs : OpenFor(x, lo, hi)
  BY <1>9, OpenForKeepsInv
<1>10. CASE OpenElse
  BY <1>10, OpenElseKeepsInv
<1>11. CASE CloseBody
  BY <1>11, CloseBodyKeepsInv
<1>12. CASE EndProgram
  BY <1>12, QuietStep DEF EndProgram, Inv, TypeOK
<1>13. CASE UNCHANGED vars
  BY <1>13, QuietStep DEF vars, Inv, TypeOK
<1>14. Declaration => Inv'
  BY <1>1, <1>2, <1>3, <1>4 DEF Declaration
<1>15. Statement => Inv'
  BY <1>6, <1>7, <1>8, <1>9 DEF Statement
<1> QED BY <1>5, <1>10, <1>11, <1>12, <1>13, <1>14, <1>15 DEF Next

LEMMA InvHolds == Spec => []Inv
<1> QED BY InitInv, NextKeepsInv, PTL DEF Spec

(***************************************************************************)
(* The variables of the semantic pass keep their types: no action builds a *)
(* Name, a type or a function out of a lookup that failed.                 *)
(***************************************************************************)
THEOREM TypeCorrect == Spec => []TypeOK
<1>1. Inv => TypeOK
  BY DEF Inv
<1> QED BY <1>1, InvHolds, PTL

(***************************************************************************)
(* EnterScope and ExitCurrentScope stay paired, for any program: a lookup  *)
(* from the current scope visits exactly the scopes of the open bodies.    *)
(***************************************************************************)
THEOREM ScopesAreNested == Spec => []ScopeDiscipline
<1>1. Inv => ScopeDiscipline
  <2> SUFFICES ASSUME Inv PROVE ScopeDiscipline
    OBVIOUS
  <2>1. Len(stack) \in Nat /\ Len(stack) \in 0 .. Len(stack)
    BY DEF Inv, TypeOK
  <2>2. /\ currentScope = BodyScope(stack, Len(stack))
        /\ path[currentScope] = {BodyScope(stack, i) : i \in 0 .. Len(stack)}
    BY <2>1 DEF Inv, OpenBodies
  <2>3. \A i \in 1 .. Len(stack) : BodyScope(stack, i) = stack[i].scope
    BY DEF BodyScope
  <2>4. \A i \in 1 .. Len(stack) :
           /\ parent[stack[i].scope] = BodyScope(stack, i - 1)
           /\ BodyScope(stack, i - 1) < stack[i].scope
    BY <2>3 DEF Inv, OpenBodies
  <2> QED BY <2>2, <2>4 DEF ScopeDiscipline
<1> QED BY <1>1, InvHolds, PTL

-----------------------------------------------------------------------------
(* What a step may do to the tables.                                       *)

\* The tables are left alone.
KeepsTables == UNCHANGED tableVars

\* A variable is defined in the current scope.
DefinesName ==
    /\ \E x \in Idents, t \in TypeIds : DefineName(currentScope, x, t)
    /\ UNCHANGED <<scopeVars, typeVars, currentScope>>

\* A type is defined in the current scope.
DefinesType ==
    /\ \E x \in Idents, kind \in TypeKinds, parts \in SUBSET TypeIds :
          DefineType(currentScope, x, kind, parts)
    /\ UNCHANGED <<scopeVars, nameVars, currentScope>>

\* A scope is created and entered, below the current scope or beside it.
EntersScope ==
    /\ \E p \in {currentScope, parent[currentScope]} \cap path[currentScope],
          names \in [Idents -> Name \cup {NoName}] :
              path[p] \subseteq path[currentScope] /\ AttachScope(p, names)
    /\ currentScope' = NextScope
    /\ nNames <= nNames'
    /\ UNCHANGED typeVars

\* A body is left for the one around it.
LeavesScope ==
    /\ currentScope' = parent[currentScope]
    /\ UNCHANGED <<scopeVars, nameVars, typeVars>>

LEMMA EnteredBelow ==
    ASSUME Inv
    PROVE  currentScope \in path[currentScope] /\ currentScope \in 1 .. nScopes
<1>1. Len(stack) \in 0 .. Len(stack)
  BY DEF Inv, TypeOK
<1> QED BY <1>1 DEF Inv, OpenBodies, PathsWellFormed

LEMMA EnteredBeside ==
    ASSUME Inv, stack # <<>>
    PROVE  /\ parent[currentScope] \in path[currentScope]
           /\ path[parent[currentScope]] \subseteq path[currentScope]
           /\ parent[currentScope] \in Scopes
           /\ currentScope # Global
<1> DEFINE n == Len(stack)
<1>1. n \in 1 .. n /\ n \in 0 .. n /\ n - 1 \in 0 .. n /\ \A i \in 0 .. n - 1 : i \in 0 .. n
  BY EmptySeq DEF Inv, TypeOK
<1>2. parent[currentScope] = BodyScope(stack, n - 1) /\ BodyScope(stack, n - 1) < BodyScope(stack, n)
  BY <1>1 DEF Inv, OpenBodies
<1>3. /\ path[currentScope] = {BodyScope(stack, i) : i \in 0 .. n}
      /\ path[BodyScope(stack, n - 1)] = {BodyScope(stack, i) : i \in 0 .. n - 1}
      /\ BodyScope(stack, n - 1) \in 1 .. nScopes /\ currentScope = BodyScope(stack, n)
  BY <1>1 DEF Inv, OpenBodies
<1>4. parent[currentScope] \in Scopes
  BY <1>2, <1>3, BoundsAssumption DEF Inv, TypeOK, TablesTypeOK, Scopes
<1>5. currentScope # Global
  BY <1>2, <1>3 DEF Global, Inv, TypeOK, TablesTypeOK, Scopes
<1> QED BY <1>1, <1>2, <1>3, <1>4, <1>5

\* There is no other kind of step.
LEMMA StepKinds ==
    ASSUME Inv, [Next]_vars
    PROVE  KeepsTables \/ DefinesName \/ DefinesType \/ EntersScope \/ LeavesScope
<1>1. TypeOK /\ TablesTypeOK /\ currentScope \in Scopes
  BY DEF Inv, TypeOK, TablesTypeOK
<1>2. ASSUME NEW names \in [Idents -> Name \cup {NoName}], EnterInnerScope(names),
             nNames <= nNames', UNCHANGED typeVars
      PROVE  EntersScope
  BY <1>2, EnteredBelow DEF EntersScope, EnterInnerScope
<1>3. EmptyNames \in [Idents -> Name \cup {NoName}] /\ nNames <= nNames
  BY <1>1 DEF EmptyNames, TablesTypeOK
<1>4. ASSUME NEW x \in Declared, NEW T \in TypeIdents, NEW e \in Exprs, DeclareTypedVariable(x, T, e)
      PROVE  KeepsTables \/ DefinesName
  <2>1. CASE LookupType(currentScope, T) = NoTypeId
    BY <1>4, <2>1 DEF DeclareTypedVariable, AbortProcess, SkipNode, KeepsTables
  <2>2. CASE LookupType(currentScope, T) # NoTypeId
    <3>1. x \in Idents /\ T \in Idents
      BY ProgramAssumption
    <3>2. LookupType(currentScope, T) \in TypeIds
      BY <1>1, <2>2, <3>1, LookupTypeFinds
    <3>3. /\ DefineName(currentScope, x, LookupType(currentScope, T))
          /\ UNCHANGED <<scopeVars, typeVars, currentScope>>
      BY <1>4, <2>2 DEF DeclareTypedVariable
    <3> QED BY <3>1, <3>2, <3>3 DEF DefinesName
  <2> QED BY <2>1, <2>2
<1>5. ASSUME NEW x \in Declared, NEW e \in Exprs, DeclareInferredVariable(x, e)
      PROVE  KeepsTables \/ DefinesName
  <2>1. x \in Idents
    BY ProgramAssumption
  <2> QED BY <1>5, <2>1 DEF DeclareInferredVariable, TypeIsVisible, AbortProcess, SkipNode,
                            KeepsTables, DefinesName
<1>6. ASSUME NEW def \in TypeDefs, DeclareType(def)
      PROVE  KeepsTables \/ DefinesType
  <2> DEFINE parts == {LookupType(currentScope, y) : y \in def.parts}
  <2>1. CASE AbortProcess \/ SkipNode
    BY <2>1 DEF AbortProcess, SkipNode, KeepsTables
  <2>2. CASE ~(AbortProcess \/ SkipNode)
    <3>1. def.ident \in Idents /\ def.kind \in TypeKinds /\ def.parts \subseteq Idents
      BY ProgramAssumption DEF TypeDef
    <3>2. /\ DefineType(currentScope, def.ident, def.kind, parts)
          /\ UNCHANGED <<scopeVars, nameVars, currentScope>>
          /\ NoTypeId \notin parts
      BY <1>6, <2>2 DEF DeclareType
    <3>3. parts \in SUBSET TypeIds
      BY <1>1, <3>1, <3>2, LookupTypeFinds
    <3> HIDE DEF parts
    <3> QED BY <3>1, <3>2, <3>3 DEF DefinesType
  <2> QED BY <2>1, <2>2
<1>7. ASSUME NEW f \in Routines, NEW params \in ParamLists, NEW R \in TypeIdents \cup {NoIdent},
             OpenRoutine(f, params, R)
      PROVE  KeepsTables \/ EntersScope
  <2>1. \/ AbortProcess
        \/ /\ \A i \in DOMAIN params : LookupType(Global, params[i].type) # NoTypeId
           /\ nNames + Len(params) <= MaxNames
           /\ nNames' = nNames + Len(params)
           /\ EnterInnerScope(ParamNames(params))
           /\ UNCHANGED typeVars
    BY <1>7 DEF OpenRoutine
  <2>2. params \in Seq(Param)
    BY ProgramAssumption
  <2>3. nNames <= nNames + Len(params)
    BY <1>1, <2>2 DEF TablesTypeOK
  <2> QED BY <1>1, <1>2, <2>1, <2>2, <2>3, ParamNamesType DEF AbortProcess, KeepsTables
<1>8. ASSUME NEW outcomes, NEW X, SimpleStatement(outcomes, X)
      PROVE  KeepsTables
  BY <1>8 DEF SimpleStatement, AbortProcess, SkipNode, KeepsTables
<1>9. ASSUME NEW e \in Exprs, OpenIf(e) \/ OpenWhile(e)
      PROVE  KeepsTables \/ EntersScope
  <2>1. \/ AbortProcess \/ SkipNode
        \/ EnterInnerScope(EmptyNames) /\ UNCHANGED <<typeVars, nNames>>
    BY <1>9 DEF OpenIf, OpenWhile, BlockStatement, OpenBody
  <2> QED BY <1>2, <1>3, <2>1 DEF AbortProcess, SkipNode, KeepsTables
<1>10. ASSUME NEW x \in Declared, NEW lo \in Exprs, NEW hi \in Exprs, OpenFor(x, lo, hi)
       PROVE  KeepsTables \/ EntersScope
  <2> DEFINE counter == NewName(nNames + 1, x, INT, FALSE)
  <2>1. \/ AbortProcess \/ SkipNode
        \/ /\ nNames < MaxNames /\ nNames' = nNames + 1
           /\ EnterInnerScope([EmptyNames EXCEPT ![x] = counter]) /\ UNCHANGED typeVars
    BY <1>10 DEF OpenFor, BlockStatement, OpenBody
  <2>2. ASSUME nNames < MaxNames
        PROVE  counter \in Name /\ nNames <= nNames + 1
    <3>1. nNames + 1 \in 1 .. MaxNames /\ x \in Idents /\ INT \in TypeIds
      BY <1>1, <2>2, ProgramAssumption, BoundsAssumption DEF TablesTypeOK, TypeIds, Natives
    <3> QED BY <1>1, <3>1 DEF NewName, Name, TablesTypeOK
  <2> HIDE DEF counter
  <2>3. nNames < MaxNames => [EmptyNames EXCEPT ![x] = counter] \in [Idents -> Name \cup {NoName}]
    BY <1>3, <2>2
  <2> QED BY <1>2, <2>1, <2>2, <2>3 DEF AbortProcess, SkipNode, KeepsTables
<1>11. ASSUME OpenElse
       PROVE  EntersScope
  <2>1. stack # <<>> /\ AttachScope(parent[currentScope], EmptyNames) /\ currentScope' = NextScope
        /\ nNames' = nNames /\ UNCHANGED typeVars
    BY <1>11 DEF OpenElse, InRoutine
  <2> QED BY <1>3, <2>1, EnteredBeside DEF EntersScope
<1>12. ASSUME CloseBody
       PROVE  LeavesScope
  <2>1. stack # <<>> /\ ExitCurrentScope /\ UNCHANGED <<scopeVars, nameVars, typeVars>>
    BY <1>12 DEF CloseBody, InRoutine
  <2> QED BY <2>1, EnteredBeside DEF ExitCurrentScope, LeavesScope
<1>13. CASE Declaration
  BY <1>4, <1>5, <1>6, <1>13 DEF Declaration, DeclareGlobalVariable, AbortProcess, KeepsTables
<1>14. CASE Statement
  BY <1>8, <1>9, <1>10, <1>14 DEF Statement, Assign, CallStatement, Return
<1>15. CASE EndProgram \/ UNCHANGED vars
  BY <1>15 DEF EndProgram, vars, KeepsTables
<1> QED BY <1>7, <1>11, <1>12, <1>13, <1>14, <1>15 DEF Next, RoutineDeclaration

(***************************************************************************)
(* The tables of a scope change only while it is the current scope.        *)
(***************************************************************************)
THEOREM ClosedBodiesKeepTheirTables == Spec => OnlyCurrentScopeChanges
<1>1. ASSUME Inv, [Next]_vars
      PROVE  \A s \in 1 .. nScopes : s # currentScope =>
                 nameMap'[s] = nameMap[s] /\ typeNameMap'[s] = typeNameMap[s]
  <2>1. CASE KeepsTables
    BY <2>1 DEF KeepsTables, tableVars, nameVars, typeVars
  <2>2. CASE DefinesName
    BY <2>2 DEF DefinesName, DefineName, typeVars, Inv, TypeOK, TablesTypeOK
  <2>3. CASE DefinesType
    BY <2>3 DEF DefinesType, DefineType, nameVars, Inv, TypeOK, TablesTypeOK
  <2>4. CASE EntersScope
    <3>1. nameMap \in [Scopes -> [Idents -> Name \cup {NoName}]] /\ nScopes \in 1 .. MaxScopes
      BY <1>1 DEF Inv, TypeOK, TablesTypeOK, Scopes
    <3>2. typeNameMap' = typeNameMap
      BY <2>4 DEF EntersScope, typeVars
    <3>3. PICK names : nameMap' = [nameMap EXCEPT ![nScopes + 1] = names]
      BY <2>4 DEF EntersScope, AttachScope, NextScope
    <3> QED BY <3>1, <3>2, <3>3, BoundsAssumption DEF Scopes
  <2>5. CASE LeavesScope
    BY <2>5 DEF LeavesScope, nameVars, typeVars
  <2> QED BY <1>1, <2>1, <2>2, <2>3, <2>4, <2>5, StepKinds
<1> QED BY <1>1, InvHolds, PTL DEF Spec, OnlyCurrentScopeChanges

(***************************************************************************)
(* Every caller of EnterScope meets the precondition its comment states.   *)
(***************************************************************************)
THEOREM EnterScopeIsCalledBelow == Spec => EnterScopePrecondition
<1>1. ASSUME Inv, [Next]_vars
      PROVE  currentScope' # currentScope =>
                 \/ currentScope' = parent[currentScope]
                 \/ /\ currentScope' > nScopes
                    /\ path'[currentScope'] \ {currentScope'} \subseteq path[currentScope]
  <2>1. CASE EntersScope
    <3>1. PICK p \in {currentScope, parent[currentScope]} \cap path[currentScope],
               names \in [Idents -> Name \cup {NoName}] :
              path[p] \subseteq path[currentScope] /\ AttachScope(p, names)
      BY <2>1 DEF EntersScope
    <3>2. nScopes \in 1 .. MaxScopes /\ path \in [Scopes -> SUBSET Scopes]
      BY <1>1 DEF Inv, TypeOK, TablesTypeOK, Scopes
    <3>3. /\ nScopes < MaxScopes
          /\ path' = [path EXCEPT ![nScopes + 1] = path[p] \cup {nScopes + 1}]
      BY <3>1 DEF AttachScope, NextScope
    <3>4. currentScope' = nScopes + 1
      BY <2>1 DEF EntersScope, NextScope
    <3>5. path'[nScopes + 1] = path[p] \cup {nScopes + 1}
      BY <3>2, <3>3, BoundsAssumption DEF Scopes
    <3> QED BY <3>1, <3>2, <3>4, <3>5
  <2> QED BY <1>1, <2>1, StepKinds
          DEF KeepsTables, DefinesName, DefinesType, LeavesScope, tableVars
<1> QED BY <1>1, InvHolds, PTL DEF Spec, EnterScopePrecondition

-----------------------------------------------------------------------------
(* Recorded uses.                                                          *)

\* A use still means what it meant, or a later declaration took its identifier.
Settled(u) ==
    LookupName(u.scope, u.ident) # u.name =>
        \E a \in path[u.scope] :
            nameMap[a][u.ident] # NoName /\ nameMap[a][u.ident].serial > u.clock

(***************************************************************************)
(* A lookup depends on the tables it visits, and on no other.              *)
(***************************************************************************)
LEMMA LookupNameKept ==
    ASSUME TablesTypeOK, NEW s \in Scopes, NEW x \in Idents, path'[s] = path[s],
           \A a \in path[s] : nameMap'[a][x] = nameMap[a][x]
    PROVE  LookupName(s, x)' = LookupName(s, x)
<1> DEFINE D == {a \in path[s] : nameMap[a][x] # NoName}
<1>1. {a \in path'[s] : nameMap'[a][x] # NoName} = D
  OBVIOUS
<1>2. D # {} => Innermost(D) \in D
  BY LookupNameFinds DEF Defining
<1>3. LookupName(s, x) = IF D = {} THEN NoName ELSE nameMap[Innermost(D)][x]
  BY DEF LookupName, Defining
<1>4. LookupName(s, x)' = IF D = {} THEN NoName ELSE nameMap'[Innermost(D)][x]
  BY <1>1 DEF LookupName, Defining
<1> HIDE DEF D
<1>5. D \subseteq path[s]
  BY DEF D
<1> QED BY <1>2, <1>3, <1>4, <1>5

\* A use stays settled whatever is declared, opened or closed after it.
LEMMA SettledStays ==
    ASSUME Inv, [Next]_vars, NEW u \in Occurrence,
           u.scope <= nScopes, u.clock <= nNames, Settled(u)
    PROVE  Settled(u)'
<1>1. /\ TablesTypeOK /\ u.scope \in Scopes /\ u.ident \in Idents
      /\ u.scope \in 1 .. nScopes /\ path[u.scope] \subseteq 1 .. u.scope
  BY DEF Inv, TypeOK, TablesTypeOK, Occurrence, PathsWellFormed, Scopes
<1>2. ASSUME path'[u.scope] = path[u.scope],
             \A a \in path[u.scope] : nameMap'[a][u.ident] = nameMap[a][u.ident]
      PROVE  Settled(u)'
  <2>1. LookupName(u.scope, u.ident)' = LookupName(u.scope, u.ident)
    BY <1>1, <1>2, LookupNameKept
  <2> QED BY <1>2, <2>1 DEF Settled
<1>3. CASE KeepsTables \/ DefinesType \/ LeavesScope
  BY <1>2, <1>3 DEF KeepsTables, DefinesType, LeavesScope, tableVars, scopeVars, nameVars
<1>4. CASE DefinesName
  <2>1. PICK x \in Idents, t \in TypeIds : DefineName(currentScope, x, t)
    BY <1>4 DEF DefinesName
  <2>2. /\ path' = path /\ nNames \in 0 .. MaxNames /\ currentScope \in Scopes
        /\ nameMap \in [Scopes -> [Idents -> Name \cup {NoName}]]
        /\ path \in [Scopes -> SUBSET Scopes]
    BY <1>1, <1>4 DEF DefinesName, scopeVars, TablesTypeOK
  <2> DEFINE new == NewName(nNames + 1, x, t, FALSE)
  <2>3. nameMap' = [nameMap EXCEPT ![currentScope][x] = new]
    BY <2>1 DEF DefineName
  <2>4. new # NoName /\ new.serial = nNames + 1
    <3>1. new \in Name
      BY <1>1, <2>1, <2>2, DefineNameType
    <3> QED BY <3>1, IdentsAssumption DEF NewName
  <2> HIDE DEF new
  <2>5. CASE u.ident = x /\ currentScope \in path[u.scope]
    <3>1. nameMap'[currentScope][u.ident] = new
      BY <2>2, <2>3, <2>5
    <3>2. new.serial > u.clock
      BY <2>2, <2>4 DEF Occurrence
    <3> QED BY <2>2, <2>4, <2>5, <3>1, <3>2 DEF Settled
  <2>6. CASE ~(u.ident = x /\ currentScope \in path[u.scope])
    <3>1. \A a \in path[u.scope] : nameMap'[a][u.ident] = nameMap[a][u.ident]
      BY <1>1, <2>2, <2>3, <2>6
    <3> QED BY <1>2, <2>2, <3>1
  <2> QED BY <2>5, <2>6
<1>5. CASE EntersScope
  <2>1. PICK p, names : AttachScope(p, names)
    BY <1>5 DEF EntersScope
  <2>2. /\ path' = [path EXCEPT ![nScopes + 1] = path[p] \cup {nScopes + 1}]
        /\ nameMap' = [nameMap EXCEPT ![nScopes + 1] = names]
    BY <2>1 DEF AttachScope, NextScope
  <2>3. /\ nScopes \in 1 .. MaxScopes /\ path \in [Scopes -> SUBSET Scopes]
        /\ nameMap \in [Scopes -> [Idents -> Name \cup {NoName}]]
    BY <1>1 DEF TablesTypeOK, Scopes
  <2>4. path'[u.scope] = path[u.scope]
    BY <1>1, <2>2, <2>3
  <2>5. \A a \in path[u.scope] : nameMap'[a] = nameMap[a]
    BY <1>1, <2>2, <2>3
  <2> QED BY <1>2, <2>4, <2>5
<1> QED BY <1>3, <1>4, <1>5, StepKinds

\* A use that the current scope resolves before a step is settled after it.
LEMMA UseIsSettled ==
    ASSUME Inv, [Next]_vars, NEW X \in SUBSET Idents,
           NEW u \in {UseOf(x, currentScope) : x \in X}
    PROVE  Settled(u)'
<1>1. PICK x \in X : u = UseOf(x, currentScope)
  OBVIOUS
<1>2. /\ TablesTypeOK /\ currentScope \in Scopes /\ x \in Idents /\ nNames \in 0 .. MaxNames
      /\ currentScope \in 1 .. nScopes
  BY EnteredBelow DEF Inv, TypeOK, TablesTypeOK
<1>3. LookupName(currentScope, x) \in Name \cup {NoName}
  BY <1>2, LookupNameFinds
<1>4. u = [ident |-> x, name |-> LookupName(currentScope, x), scope |-> currentScope, clock |-> nNames]
  BY <1>1 DEF UseOf
<1>5. u \in Occurrence /\ u.scope <= nScopes /\ u.clock <= nNames
  BY <1>2, <1>3, <1>4 DEF Occurrence
<1>6. Settled(u)
  BY <1>4 DEF Settled
<1> QED BY <1>5, <1>6, SettledStays

(***************************************************************************)
(* A while condition is traced in the enclosing scope and generated in the *)
(* scope of the body, which is empty when it is traced.                    *)
(***************************************************************************)
LEMMA ConditionIsSettled ==
    ASSUME Inv, NEW X \in SUBSET Idents, EnterInnerScope(EmptyNames),
           NEW u \in {UseOf(x, NextScope) : x \in X}
    PROVE  Settled(u)'
<1>1. PICK x \in X : u = UseOf(x, NextScope)
  OBVIOUS
<1>2. /\ TablesTypeOK /\ currentScope \in 1 .. nScopes /\ currentScope \in Scopes /\ x \in Idents
      /\ path[currentScope] \subseteq 1 .. currentScope
  BY EnteredBelow DEF Inv, TypeOK, TablesTypeOK, PathsWellFormed
<1>3. /\ u.scope = nScopes + 1 /\ u.ident = x /\ u.name = LookupName(currentScope, x)
  BY <1>1 DEF UseOf, NextScope
<1>4. /\ path' = [path EXCEPT ![nScopes + 1] = path[currentScope] \cup {nScopes + 1}]
      /\ nameMap' = [nameMap EXCEPT ![nScopes + 1] = EmptyNames]
      /\ nScopes < MaxScopes
  BY DEF EnterInnerScope, AttachScope, NextScope
<1>5. /\ nScopes \in 1 .. MaxScopes /\ path \in [Scopes -> SUBSET Scopes]
      /\ nameMap \in [Scopes -> [Idents -> Name \cup {NoName}]]
  BY <1>2 DEF TablesTypeOK, Scopes
<1>6. path'[nScopes + 1] = path[currentScope] \cup {nScopes + 1}
  BY <1>4, <1>5, BoundsAssumption DEF Scopes
<1>7. \A a \in path[currentScope] : nameMap'[a] = nameMap[a]
  BY <1>2, <1>4, <1>5
<1>8. nameMap'[nScopes + 1][x] = NoName
  BY <1>2, <1>4, <1>5, BoundsAssumption DEF Scopes, EmptyNames
<1> DEFINE D == {a \in path[currentScope] : nameMap[a][x] # NoName}
<1>9. {a \in path'[nScopes + 1] : nameMap'[a][x] # NoName} = D
  BY <1>6, <1>7, <1>8
<1>10. D # {} => Innermost(D) \in D
  BY <1>2, LookupNameFinds DEF Defining
<1>11. LookupName(currentScope, x) = IF D = {} THEN NoName ELSE nameMap[Innermost(D)][x]
  BY DEF LookupName, Defining
<1>12. LookupName(u.scope, u.ident)' = IF D = {} THEN NoName ELSE nameMap'[Innermost(D)][x]
  BY <1>3, <1>9 DEF LookupName, Defining
<1>13. D \subseteq path[currentScope]
  OBVIOUS
<1> HIDE DEF D
<1>14. LookupName(u.scope, u.ident)' = u.name
  BY <1>3, <1>7, <1>10, <1>11, <1>12, <1>13
<1> QED BY <1>14 DEF Settled

\* The counter of a for loop is the innermost declaration of its identifier.
LEMMA CounterIsSettled ==
    ASSUME Inv, NEW x \in Idents, NEW counter \in Name,
           EnterInnerScope([EmptyNames EXCEPT ![x] = counter]),
           NEW u, u = [ident |-> x, name |-> counter, scope |-> NextScope, clock |-> nNames + 1]
    PROVE  Settled(u)'
<1>1. /\ TablesTypeOK /\ currentScope \in 1 .. nScopes
      /\ path[currentScope] \subseteq 1 .. currentScope
  BY EnteredBelow DEF Inv, TypeOK, PathsWellFormed
<1>2. u.scope = nScopes + 1 /\ u.ident = x /\ u.name = counter
  BY DEF NextScope
<1>3. /\ path' = [path EXCEPT ![nScopes + 1] = path[currentScope] \cup {nScopes + 1}]
      /\ nameMap' = [nameMap EXCEPT ![nScopes + 1] = [EmptyNames EXCEPT ![x] = counter]]
      /\ nScopes < MaxScopes
  BY DEF EnterInnerScope, AttachScope, NextScope
<1>4. /\ nScopes \in 1 .. MaxScopes /\ path \in [Scopes -> SUBSET Scopes]
      /\ nameMap \in [Scopes -> [Idents -> Name \cup {NoName}]]
  BY <1>1 DEF TablesTypeOK, Scopes
<1>5. path'[nScopes + 1] = path[currentScope] \cup {nScopes + 1}
  BY <1>3, <1>4, BoundsAssumption DEF Scopes
<1>6. nameMap'[nScopes + 1][x] = counter /\ counter # NoName
  BY <1>3, <1>4, BoundsAssumption, IdentsAssumption DEF Scopes, EmptyNames
<1> DEFINE D == {a \in path'[nScopes + 1] : nameMap'[a][x] # NoName}
<1>7. nScopes + 1 \in D /\ D \in SUBSET (1 .. nScopes + 1)
  BY <1>1, <1>4, <1>5, <1>6
<1>8. LookupName(u.scope, u.ident)' = IF D = {} THEN NoName ELSE nameMap'[Innermost(D)][x]
  BY <1>2 DEF LookupName, Defining
<1> HIDE DEF D
<1>9. Innermost(D) = nScopes + 1
  <2>1. nScopes + 1 \in Nat /\ D # {}
    BY <1>4, <1>7
  <2>2. Innermost(D) \in D /\ \A t \in D : t <= Innermost(D)
    BY <1>7, <2>1, InnermostIsGreatest
  <2>3. Innermost(D) \in 1 .. nScopes + 1 /\ nScopes + 1 <= Innermost(D)
    BY <1>7, <2>2, Zenon
  <2> QED BY <1>4, <2>3
<1>10. LookupName(u.scope, u.ident)' = u.name
  BY <1>2, <1>6, <1>7, <1>8, <1>9
<1> QED BY <1>10 DEF Settled

\* Every use that a step records is settled after it.
LEMMA NewUsesAreSettled ==
    ASSUME Inv, [Next]_vars, NEW u \in uses' \ uses
    PROVE  Settled(u)'
<1>1. ASSUME NEW X \in SUBSET Idents, RecordUses(X, currentScope)
      PROVE  Settled(u)'
  BY <1>1, UseIsSettled DEF RecordUses
<1>2. ASSUME uses' = uses
      PROVE  FALSE
  BY <1>2
<1>3. ASSUME NEW x \in Declared, NEW T \in TypeIdents, NEW e \in Exprs, DeclareTypedVariable(x, T, e)
      PROVE  Settled(u)'
  <2>1. PICK y \in Reads(e) : u = UseOf(y, currentScope)'
    BY <1>3 DEF DeclareTypedVariable, AbortProcess, SkipNode
  <2>2. u.scope = currentScope' /\ u.ident = y /\ u.name = LookupName(currentScope, y)'
    BY <2>1 DEF UseOf
  <2>3. LookupName(u.scope, u.ident)' = u.name
    BY <2>2 DEF LookupName, Defining
  <2> QED BY <2>3 DEF Settled
<1>4. ASSUME NEW x \in Declared, NEW e \in Exprs, DeclareInferredVariable(x, e)
      PROVE  Settled(u)'
  <2>1. Reads(e) \in SUBSET Idents
    BY ProgramAssumption
  <2>2. uses' = uses \/ RecordUses(Reads(e), currentScope)
    BY <1>4 DEF DeclareInferredVariable, AbortProcess, SkipNode
  <2> QED BY <1>1, <1>2, <2>1, <2>2
<1>5. ASSUME NEW outcomes, NEW X \in SUBSET Idents, SimpleStatement(outcomes, X)
      PROVE  Settled(u)'
  <2>1. uses' = uses \/ RecordUses(X, currentScope)
    BY <1>5 DEF SimpleStatement, AbortProcess, SkipNode
  <2> QED BY <1>1, <1>2, <2>1
<1>6. ASSUME NEW e \in Exprs, OpenIf(e)
      PROVE  Settled(u)'
  <2>1. Reads(e) \in SUBSET Idents
    BY ProgramAssumption
  <2>2. uses' = uses \/ RecordUses(Reads(e), currentScope)
    BY <1>6 DEF OpenIf, BlockStatement, AbortProcess, SkipNode
  <2> QED BY <1>1, <1>2, <2>1, <2>2
<1>7. ASSUME NEW e \in Exprs, OpenWhile(e)
      PROVE  Settled(u)'
  <2>1. Reads(e) \in SUBSET Idents
    BY ProgramAssumption
  <2>2. uses' = uses \/ (RecordUses(Reads(e), NextScope) /\ EnterInnerScope(EmptyNames))
    BY <1>7 DEF OpenWhile, OpenBody, BlockStatement, AbortProcess, SkipNode
  <2>3. ASSUME RecordUses(Reads(e), NextScope), EnterInnerScope(EmptyNames)
        PROVE  Settled(u)'
    BY <2>1, <2>3, ConditionIsSettled DEF RecordUses
  <2> QED BY <1>2, <2>2, <2>3
<1>8. ASSUME NEW x \in Declared, NEW lo \in Exprs, NEW hi \in Exprs, OpenFor(x, lo, hi)
      PROVE  Settled(u)'
  <2> DEFINE counter == NewName(nNames + 1, x, INT, FALSE)
             counterUse == [ident |-> x, name |-> counter, scope |-> NextScope, clock |-> nNames + 1]
             X == Reads(lo) \cup Reads(hi)
  <2>1. X \in SUBSET Idents /\ x \in Idents
    BY ProgramAssumption
  <2>2. \/ uses' = uses
        \/ /\ nNames < MaxNames
           /\ EnterInnerScope([EmptyNames EXCEPT ![x] = counter])
           /\ uses' = uses \cup {counterUse} \cup {UseOf(y, currentScope) : y \in X}
    BY <1>8 DEF OpenFor, OpenBody, BlockStatement, AbortProcess, SkipNode
  <2>3. ASSUME nNames < MaxNames,
               EnterInnerScope([EmptyNames EXCEPT ![x] = counter]),
               u = counterUse
        PROVE  Settled(u)'
    <3>1. nNames + 1 \in 1 .. MaxNames /\ INT \in TypeIds
      BY <2>3, BoundsAssumption DEF Inv, TypeOK, TablesTypeOK, TypeIds, Natives
    <3>2. counter \in Name
      BY <2>1, <3>1 DEF NewName, Name
    <3> HIDE DEF counter
    <3> QED BY <2>1, <2>3, <3>2, CounterIsSettled
  <2>4. ASSUME u \in {UseOf(y, currentScope) : y \in X}
        PROVE  Settled(u)'
    BY <2>1, <2>4, UseIsSettled
  <2> HIDE DEF counterUse, X
  <2> QED BY <1>2, <2>2, <2>3, <2>4
<1>9. CASE Declaration
  BY <1>3, <1>4, <1>9
     DEF Declaration, DeclareGlobalVariable, DeclareType, AbortProcess, SkipNode
<1>10. CASE Statement
  <2>1. \A x \in Declared, e \in Exprs : {x} \cup Reads(e) \in SUBSET Idents /\ Reads(e) \in SUBSET Idents
    BY ProgramAssumption
  <2>2. \A e \in Exprs : Reads(e) \in SUBSET Idents
    BY ProgramAssumption
  <2> QED BY <1>5, <1>6, <1>7, <1>8, <1>10, <2>1, <2>2 DEF Statement, Assign, CallStatement, Return
<1>11. CASE RoutineDeclaration \/ OpenElse \/ CloseBody \/ EndProgram \/ UNCHANGED vars
  BY <1>11 DEF RoutineDeclaration, OpenRoutine, AbortProcess, OpenElse, CloseBody, EndProgram, vars
<1> QED BY <1>9, <1>10, <1>11 DEF Next

(***************************************************************************)
(* What code generation finds for an identifier of a valid node is what    *)
(* the semantic pass found, unless a scope it looks through was given a    *)
(* declaration of the identifier after the node.                           *)
(***************************************************************************)
THEOREM RebindingNeedsALaterDeclaration == Spec => []OnlyLaterDeclarationsRebind
<1> DEFINE AllSettled == \A u \in uses : Settled(u)
<1>1. Init => AllSettled
  BY DEF Init
<1>2. ASSUME Inv, AllSettled, [Next]_vars
      PROVE  AllSettled'
  <2> SUFFICES ASSUME NEW u \in uses' PROVE Settled(u)'
    OBVIOUS
  <2>1. CASE u \in uses
    BY <1>2, <2>1, SettledStays DEF Inv, TypeOK, UsesKnown
  <2>2. CASE u \notin uses
    BY <1>2, <2>2, NewUsesAreSettled
  <2> QED BY <2>1, <2>2
<1>3. AllSettled => OnlyLaterDeclarationsRebind
  BY DEF Settled, OnlyLaterDeclarationsRebind
<1> HIDE DEF AllSettled
<1> QED BY <1>1, <1>2, <1>3, InvHolds, PTL DEF Spec
=============================================================================

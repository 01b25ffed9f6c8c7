-------------------------- MODULE SymbolTableProofs -------------------------
(***************************************************************************)
(* The tables of names and types of the semantic pass, for any program.    *)
(*                                                                         *)
(* The scope tree implements a lexical environment: the walk over the      *)
(* parent tables finds the innermost declaration (LookupsWalkTheParents),  *)
(* and each step of the semantic pass is a step of LexicalEnv or leaves it *)
(* alone (ImplementsLexicalEnv).                                           *)
(*                                                                         *)
(* What the type table of a scope holds is visible and complete there, and *)
(* routines are of types that every caller can look up.  NativeBaseExists  *)
(* and RoutinesWellFormed are not inductive: that a type has a native base *)
(* follows from its parts being declared before it and visible from its    *)
(* scope, which in turn needs that scopes nest and that no type id is      *)
(* given out twice.  TypesInv says all of that.                            *)
(***************************************************************************)
EXTENDS SemanticPassProofs

(***************************************************************************)
(* The scope tree: every scope but the global one has a parent that was    *)
(* created before it, and a lookup goes through the scope and then through *)
(* the scopes of its parent.                                               *)
(***************************************************************************)
TreeWellFormed ==
    /\ parent[Global] = 0 /\ path[Global] = {Global}
    /\ \A s \in 2 .. nScopes : /\ parent[s] \in 1 .. s - 1
                               /\ path[s] = path[parent[s]] \cup {s}
    /\ \A s \in Scopes : s > nScopes => parent[s] = 0

\* InitSemanticContext creates the root.
LEMMA InitTree == Init => TreeWellFormed
  BY BoundsAssumption DEF Init, InitTables, TreeWellFormed, Global, Scopes

\* A scope enters the tree as a leaf.
LEMMA NextKeepsTree ==
    ASSUME Inv, TreeWellFormed, [Next]_vars
    PROVE  TreeWellFormed'
<1>1. CASE UNCHANGED scopeVars
  BY <1>1 DEF TreeWellFormed, scopeVars
<1>2. CASE EntersScope
  <2>1. PICK p, names : p \in {currentScope, parent[currentScope]} \cap path[currentScope] /\ AttachScope(p, names)
    BY <1>2 DEF EntersScope
  <2>2. /\ nScopes < MaxScopes /\ nScopes' = nScopes + 1
        /\ parent' = [parent EXCEPT ![nScopes + 1] = p]
        /\ path' = [path EXCEPT ![nScopes + 1] = path[p] \cup {nScopes + 1}]
    BY <2>1 DEF AttachScope, NextScope
  <2>3. p \in 1 .. nScopes
    <3>1. currentScope \in 1 .. nScopes /\ path[currentScope] \subseteq 1 .. currentScope
      BY EnteredBelow DEF Inv, PathsWellFormed
    <3>2. p \in path[currentScope] /\ nScopes \in Nat
      BY <2>1 DEF Inv, TypeOK, TablesTypeOK, Scopes
    <3>3. p \in 1 .. currentScope
      BY <3>1, <3>2
    <3> QED BY <3>1, <3>2, <3>3
  <2>4. /\ nScopes \in 1 .. MaxScopes /\ MaxScopes \in Nat
        /\ parent \in [1 .. MaxScopes -> 0 .. MaxScopes]
        /\ path \in [1 .. MaxScopes -> SUBSET (1 .. MaxScopes)]
    BY BoundsAssumption DEF Inv, TypeOK, TablesTypeOK, Scopes
  <2>5. /\ parent'[nScopes + 1] = p
        /\ path'[nScopes + 1] = path[p] \cup {nScopes + 1}
        /\ \A s \in Scopes : s # nScopes + 1 => parent'[s] = parent[s] /\ path'[s] = path[s]
    BY <2>2, <2>4 DEF Scopes
  <2>6. parent'[Global] = 0 /\ path'[Global] = {Global}
    BY <2>4, <2>5 DEF Global, Scopes, TreeWellFormed
  <2>7. ASSUME NEW s \in 2 .. nScopes'
        PROVE  parent'[s] \in 1 .. s - 1 /\ path'[s] = path'[parent'[s]] \cup {s}
    <3>1. CASE s = nScopes + 1
      <4>1. path'[p] = path[p]
        BY <2>3, <2>4, <2>5 DEF Scopes
      <4> QED BY <2>3, <2>4, <2>5, <3>1, <4>1
    <3>2. CASE s # nScopes + 1
      <4>1. s \in 2 .. nScopes /\ s \in Scopes
        BY <2>2, <2>4, <3>2 DEF Scopes
      <4>2. parent[s] \in 1 .. s - 1 /\ path[s] = path[parent[s]] \cup {s}
        BY <4>1 DEF TreeWellFormed
      <4>3. parent[s] \in Scopes /\ parent[s] # nScopes + 1
        BY <2>4, <4>1, <4>2 DEF Scopes
      <4> QED BY <2>5, <3>2, <4>1, <4>2, <4>3
    <3> QED BY <3>1, <3>2
  <2>8. \A s \in Scopes : s > nScopes' => parent'[s] = 0
    BY <2>2, <2>4, <2>5 DEF TreeWellFormed, Scopes
  <2> QED BY <2>6, <2>7, <2>8 DEF TreeWellFormed
<1> QED BY <1>1, <1>2, StepKinds DEF KeepsTables, DefinesName, DefinesType, LeavesScope, tableVars

(***************************************************************************)
(* A lookup tries the table of the scope and, on a miss, that of the       *)
(* parent.                                                                 *)
(***************************************************************************)
LEMMA LookupNameUnrolled ==
    ASSUME TablesTypeOK, PathsWellFormed, TreeWellFormed, NEW s \in 1 .. nScopes, NEW x \in Idents
    PROVE  LookupName(s, x) = IF nameMap[s][x] # NoName THEN nameMap[s][x]
                              ELSE IF parent[s] = 0 THEN NoName
                              ELSE LookupName(parent[s], x)
<1>1. /\ nScopes \in 1 .. MaxScopes /\ MaxScopes \in Nat /\ s \in Nat
  BY BoundsAssumption DEF TablesTypeOK, Scopes
<1>2. CASE nameMap[s][x] # NoName
  <2>1. s \in Defining(s, x) /\ Defining(s, x) \in SUBSET (1 .. s)
    BY <1>2 DEF Defining, PathsWellFormed
  <2> DEFINE D == Defining(s, x)
  <2> HIDE DEF D
  <2>2. Innermost(D) \in D /\ \A t \in D : t <= Innermost(D)
    BY <1>1, <2>1, InnermostIsGreatest DEF D
  <2>3. Innermost(D) = s
    <3>1. Innermost(D) \in 1 .. s /\ s <= Innermost(D)
      BY <2>1, <2>2, Zenon DEF D
    <3> QED BY <1>1, <3>1
  <2>4. LookupName(s, x) = nameMap[Innermost(D)][x]
    BY <2>1 DEF LookupName, D
  <2> QED BY <1>2, <2>3, <2>4
<1>3. CASE nameMap[s][x] = NoName
  <2>1. CASE s = 1
    <3>1. parent[s] = 0 /\ Defining(s, x) = {}
      BY <1>3, <2>1 DEF TreeWellFormed, Global, Defining
    <3> QED BY <1>3, <3>1 DEF LookupName
  <2>2. CASE s # 1
    <3>1. parent[s] \in 1 .. s - 1 /\ path[s] = path[parent[s]] \cup {s}
      BY <1>1, <2>2 DEF TreeWellFormed
    <3>2. Defining(s, x) = Defining(parent[s], x)
      BY <1>3, <3>1 DEF Defining
    <3> QED BY <1>1, <1>3, <3>1, <3>2 DEF LookupName
  <2> QED BY <2>1, <2>2
<1> QED BY <1>2, <1>3

\* The same of the next state.
LEMMA LookupNameUnrolledNext ==
    TablesTypeOK' /\ PathsWellFormed' /\ TreeWellFormed' =>
        \A s \in 1 .. nScopes', x \in Idents :
            LookupName(s, x)' = IF nameMap'[s][x] # NoName THEN nameMap'[s][x]
                                ELSE IF parent'[s] = 0 THEN NoName
                                ELSE LookupName(parent[s], x)'
<1>1. TablesTypeOK /\ PathsWellFormed /\ TreeWellFormed =>
          \A s \in 1 .. nScopes, x \in Idents :
              LookupName(s, x) = IF nameMap[s][x] # NoName THEN nameMap[s][x]
                                 ELSE IF parent[s] = 0 THEN NoName
                                 ELSE LookupName(parent[s], x)
  BY LookupNameUnrolled
<1>2. (TablesTypeOK /\ PathsWellFormed /\ TreeWellFormed =>
           \A s \in 1 .. nScopes, x \in Idents :
               LookupName(s, x) = IF nameMap[s][x] # NoName THEN nameMap[s][x]
                                  ELSE IF parent[s] = 0 THEN NoName
                                  ELSE LookupName(parent[s], x))'
  BY <1>1, PTL
<1> QED BY <1>2

\* One level of the recursion of lookupName, g standing for the recursive calls.
WalkStep(g, a, x) ==
    IF nameMap[a][x] # NoName THEN nameMap[a][x]
    ELSE IF parent[a] = 0 THEN NoName
    ELSE g[parent[a]]

(***************************************************************************)
(* The recursion has one solution on the scopes of the tree, whatever      *)
(* function solves it: a lowest scope where two solutions differ would     *)
(* have a parent where they differ.                                        *)
(***************************************************************************)
LEMMA WalkIsUnique ==
    ASSUME TablesTypeOK, PathsWellFormed, TreeWellFormed, NEW x \in Idents,
           NEW g, \A a \in Scopes : g[a] = WalkStep(g, a, x)
    PROVE  \A s \in 1 .. nScopes : g[s] = LookupName(s, x)
<1> DEFINE R == OpToRel(<, Nat)
           T == {s \in 1 .. nScopes : g[s] # LookupName(s, x)}
<1>1. T \subseteq Nat
  OBVIOUS
<1>2. ASSUME T # {} PROVE FALSE
  <2>1. PICK s \in T : \A e \in T : ~(<<e, s>> \in R)
    <3> HIDE DEF R, T
    <3> QED BY <1>1, <1>2, NatLessThanWellFounded, WFMin DEF R
  <2>2. \A e \in T : ~(e < s)
    BY <1>1, <2>1 DEF OpToRel
  <2>3. s \in 1 .. nScopes /\ s \in Scopes /\ g[s] # LookupName(s, x)
    BY BoundsAssumption DEF TablesTypeOK, Scopes
  <2>4. g[s] = WalkStep(g, s, x)
    BY <2>3
  <2>5. parent[s] # 0 => parent[s] \in 1 .. s - 1
    BY <2>3 DEF TreeWellFormed, Global
  <2>6. parent[s] # 0 => g[parent[s]] = LookupName(parent[s], x)
    <3> SUFFICES ASSUME parent[s] # 0 PROVE g[parent[s]] = LookupName(parent[s], x)
      OBVIOUS
    <3>1. parent[s] \in 1 .. nScopes /\ parent[s] < s
      BY <2>3, <2>5 DEF TablesTypeOK, Scopes
    <3>2. parent[s] \notin T
      <4> HIDE DEF T
      <4> QED BY <2>2, <3>1
    <3> QED BY <3>1, <3>2
  <2> HIDE DEF T
  <2> QED BY <2>3, <2>4, <2>6, LookupNameUnrolled DEF WalkStep
<1> QED BY <1>2

(***************************************************************************)
(* The lookups themselves solve the recursion, so that it has a solution.  *)
(***************************************************************************)
LEMMA WalkExists ==
    ASSUME TablesTypeOK, PathsWellFormed, TreeWellFormed, NEW x \in Idents
    PROVE  \E g : g = [a \in Scopes |-> WalkStep(g, a, x)]
<1> DEFINE g == [a \in Scopes |-> IF a <= nScopes THEN LookupName(a, x) ELSE nameMap[a][x]]
<1>1. ASSUME NEW a \in Scopes PROVE g[a] = WalkStep(g, a, x)
  <2>1. CASE a <= nScopes
    <3>1. a \in 1 .. nScopes
      BY <2>1 DEF TablesTypeOK, Scopes
    <3>2. parent[a] # 0 => parent[a] \in Scopes /\ parent[a] <= nScopes
      BY <3>1, BoundsAssumption DEF TreeWellFormed, Global, TablesTypeOK, Scopes
    <3> QED BY <2>1, <3>1, <3>2, LookupNameUnrolled DEF WalkStep
  <2>2. CASE ~(a <= nScopes)
    <3>1. parent[a] = 0
      BY <2>2 DEF TreeWellFormed, TablesTypeOK, Scopes
    <3> QED BY <2>2, <3>1 DEF WalkStep
  <2> QED BY <2>1, <2>2
<1>2. g = [a \in Scopes |-> g[a]]
  OBVIOUS
<1> HIDE DEF g
<1>3. g = [a \in Scopes |-> WalkStep(g, a, x)]
  BY <1>1, <1>2
<1> QED BY <1>3

(***************************************************************************)
(* What a lookup means, the innermost of the enclosing declarations, is    *)
(* what the code's recursion over the parent tables computes.              *)
(***************************************************************************)
THEOREM LookupsWalkTheParents == Spec => []LookupIsParentWalk
<1>1. ASSUME Inv, TreeWellFormed
      PROVE  LookupIsParentWalk
  <2> SUFFICES ASSUME NEW s \in 1 .. nScopes, NEW x \in Idents
               PROVE  LookupName(s, x) = ParentWalk(s, x)
    BY DEF LookupIsParentWalk
  <2>1. TablesTypeOK /\ PathsWellFormed
    BY <1>1 DEF Inv, TypeOK
  <2> DEFINE W == CHOOSE g : g = [a \in Scopes |-> WalkStep(g, a, x)]
  <2>2. W = [a \in Scopes |-> WalkStep(W, a, x)]
    BY <1>1, <2>1, WalkExists
  <2>3. ParentWalk(s, x) = W[s]
    BY DEF ParentWalk, WalkStep
  <2> HIDE DEF W
  <2>4. \A a \in Scopes : W[a] = WalkStep(W, a, x)
    BY <2>2
  <2> QED BY <1>1, <2>1, <2>3, <2>4, WalkIsUnique
<1>2. Inv /\ TreeWellFormed /\ [Next]_vars => TreeWellFormed'
  BY NextKeepsTree
<1> QED BY <1>1, <1>2, InitTree, InvHolds, PTL DEF Spec

-----------------------------------------------------------------------------
(* The frames of the environment are the name tables of the open bodies.   *)


\* Among the open bodies, the scope of an inner one was created later.
LEMMA BodiesIncrease ==
    ASSUME Inv, NEW j \in 0 .. Len(stack), NEW i \in 0 .. j
    PROVE  /\ BodyScope(stack, i) <= BodyScope(stack, j)
           /\ i # j => BodyScope(stack, i) < BodyScope(stack, j)
<1>1. ASSUME NEW k \in 0 .. Len(stack), NEW l \in 0 .. k
      PROVE  BodyScope(stack, l) \in 1 .. BodyScope(stack, k)
  <2>1. /\ path[BodyScope(stack, k)] = {BodyScope(stack, m) : m \in 0 .. k}
        /\ BodyScope(stack, k) \in 1 .. nScopes
    BY DEF Inv, OpenBodies
  <2>2. path[BodyScope(stack, k)] \subseteq 1 .. BodyScope(stack, k)
    BY <2>1 DEF Inv, PathsWellFormed
  <2> QED BY <2>1, <2>2
<1>2. Len(stack) \in Nat /\ \A k \in 0 .. Len(stack) : BodyScope(stack, k) \in Nat
  BY DEF Inv, OpenBodies, TypeOK
<1>3. BodyScope(stack, i) <= BodyScope(stack, j)
  BY <1>1, <1>2
<1>4. ASSUME i # j PROVE BodyScope(stack, i) < BodyScope(stack, j)
  <2>1. i \in 0 .. j - 1 /\ j - 1 \in 0 .. Len(stack) /\ j \in 1 .. Len(stack) /\ i \in 0 .. Len(stack)
    BY <1>2, <1>4
  <2>2. BodyScope(stack, j - 1) < BodyScope(stack, j)
    BY <2>1 DEF Inv, OpenBodies
  <2>3. BodyScope(stack, i) \in 1 .. BodyScope(stack, j - 1)
    BY <1>1, <2>1
  <2> QED BY <1>2, <2>1, <2>2, <2>3
<1> QED BY <1>3, <1>4

(***************************************************************************)
(* The open frames, the program's own first.                               *)
(***************************************************************************)
LEMMA FramesOfBodies ==
    ASSUME Inv
    PROVE  /\ Len(stack) \in Nat
           /\ OpenFrames \in Seq([Idents -> Name \cup {NoName}])
           /\ Len(OpenFrames) = Len(stack) + 1
           /\ \A i \in 1 .. Len(stack) + 1 : OpenFrames[i] = nameMap[BodyScope(stack, i - 1)]
           /\ OpenFrames[Len(stack) + 1] = nameMap[currentScope]
<1>1. Len(stack) \in Nat
  BY DEF Inv, TypeOK
<1>2. \A i \in 1 .. Len(stack) + 1 : /\ BodyScope(stack, i - 1) \in Scopes
                                     /\ nameMap[BodyScope(stack, i - 1)] \in [Idents -> Name \cup {NoName}]
  <2> SUFFICES ASSUME NEW i \in 1 .. Len(stack) + 1 PROVE BodyScope(stack, i - 1) \in Scopes
    BY DEF Inv, TypeOK, TablesTypeOK
  <2>1. i - 1 \in 0 .. Len(stack)
    BY <1>1
  <2>2. BodyScope(stack, i - 1) \in 1 .. nScopes
    BY <2>1 DEF Inv, OpenBodies
  <2> QED BY <2>2, BoundsAssumption DEF Inv, TypeOK, TablesTypeOK, Scopes
<1>3. OpenFrames = [i \in 1 .. Len(stack) + 1 |-> nameMap[BodyScope(stack, i - 1)]]
  BY DEF OpenFrames
<1>4. OpenFrames[Len(stack) + 1] = nameMap[currentScope]
  BY <1>1, <1>3 DEF Inv, OpenBodies
<1> QED BY <1>1, <1>2, <1>3, <1>4

\* The same of the next state.
LEMMA FramesNext ==
    Inv' => /\ OpenFrames' \in Seq([Idents -> Name \cup {NoName}])
            /\ Len(OpenFrames') = Len(stack') + 1
            /\ \A i \in 1 .. Len(stack') + 1 : OpenFrames'[i] = nameMap'[BodyScope(stack', i - 1)]
<1>1. Inv => /\ OpenFrames \in Seq([Idents -> Name \cup {NoName}])
             /\ Len(OpenFrames) = Len(stack) + 1
             /\ \A i \in 1 .. Len(stack) + 1 : OpenFrames[i] = nameMap[BodyScope(stack, i - 1)]
  BY FramesOfBodies
<1>2. (Inv => /\ OpenFrames \in Seq([Idents -> Name \cup {NoName}])
              /\ Len(OpenFrames) = Len(stack) + 1
              /\ \A i \in 1 .. Len(stack) + 1 : OpenFrames[i] = nameMap[BodyScope(stack, i - 1)])'
  BY <1>1, PTL
<1> QED BY <1>2 DEF BodyScope

(***************************************************************************)
(* An identifier means the same in the frames as a lookup from the current *)
(* scope finds.                                                            *)
(***************************************************************************)
LEMMA FramesAnswer ==
    ASSUME Inv, NEW x \in Idents
    PROVE  Env!Binding(OpenFrames, x) = LookupName(currentScope, x)
<1> DEFINE n == Len(stack)
           B(i) == BodyScope(stack, i - 1)
           having == {i \in 1 .. n + 1 : nameMap[B(i)][x] # NoName}
           D == Defining(currentScope, x)
<1>1. /\ TablesTypeOK /\ currentScope \in Scopes /\ n \in Nat
      /\ path[currentScope] = {BodyScope(stack, i) : i \in 0 .. n}
  <2>1. n \in 0 .. n
    BY DEF Inv, TypeOK
  <2> QED BY <2>1 DEF Inv, TypeOK, TablesTypeOK, OpenBodies
<1>2. path[currentScope] = {B(i) : i \in 1 .. n + 1}
  <2>1. \A i \in 0 .. n : i + 1 \in 1 .. n + 1 /\ (i + 1) - 1 = i
    BY <1>1
  <2>2. \A i \in 1 .. n + 1 : i - 1 \in 0 .. n
    BY <1>1
  <2> QED BY <1>1, <2>1, <2>2
<1>3. D = {B(i) : i \in having}
  BY <1>2 DEF Defining
<1>4. Env!Binding(OpenFrames, x) = IF having = {} THEN NoName ELSE OpenFrames[Innermost(having)][x]
  <2> DEFINE H == {i \in 1 .. Len(OpenFrames) : OpenFrames[i][x] # NoName}
  <2>1. H = having
    BY FramesOfBodies
  <2>2. Env!Binding(OpenFrames, x) = IF H = {} THEN NoName ELSE OpenFrames[Innermost(H)][x]
    BY DEF Env!Binding, Innermost
  <2> HIDE DEF H, having
  <2> QED BY <2>1, <2>2
<1>5. CASE having = {}
  BY <1>3, <1>4, <1>5 DEF LookupName
<1>6. CASE having # {}
  <2> DEFINE top == Innermost(having)
  <2>1. n + 1 \in Nat /\ having \in SUBSET (1 .. n + 1)
    BY <1>1
  <2>2. top \in having /\ \A i \in having : i <= top
    BY <1>6, <2>1, InnermostIsGreatest
  <2>3. top \in 1 .. n + 1
    BY <2>1, <2>2
  <2>4. \A i \in having : B(i) <= B(top)
    <3> SUFFICES ASSUME NEW i \in having PROVE B(i) <= B(top)
      OBVIOUS
    <3> HIDE DEF top, having
    <3>1. i \in 1 .. n + 1 /\ i <= top
      BY <2>1, <2>2
    <3>2. top - 1 \in 0 .. n /\ i - 1 \in 0 .. top - 1
      BY <1>1, <2>3, <3>1
    <3> QED BY <3>2, BodiesIncrease
  <2>5. D # {} /\ Innermost(D) \in D /\ \A a \in D : a <= Innermost(D)
    <3>1. Defining(currentScope, x) # {}
      <4> HIDE DEF having
      <4> QED BY <1>3, <1>6
    <3> QED BY <1>1, <3>1, LookupNameFinds
  <2>6. Innermost(D) = B(top)
    <3>1. B(top) \in D /\ Innermost(D) \in D
      BY <1>3, <2>2, <2>5
    <3>2. B(top) <= Innermost(D) /\ Innermost(D) <= B(top)
      <4> HIDE DEF top, having, D
      <4> QED BY <1>3, <2>4, <2>5, <3>1
    <3>3. D \subseteq Nat
      BY <1>1 DEF Defining, TablesTypeOK, Scopes
    <3>4. B(top) \in Nat /\ Innermost(D) \in Nat
      BY <3>1, <3>3, Zenon
    <3>5. \A a, b \in Nat : a <= b /\ b <= a => a = b
      OBVIOUS
    <3> HIDE DEF top, having, D, B
    <3> QED BY <3>2, <3>4, <3>5
  <2>7. OpenFrames[top] = nameMap[B(top)]
    BY <2>3, FramesOfBodies
  <2> HIDE DEF top, having, B
  <2> QED BY <1>4, <1>6, <2>5, <2>6, <2>7 DEF LookupName, top
<1> QED BY <1>5, <1>6

\* The same of the next state.
LEMMA FramesAnswerNext ==
    Inv' => \A x \in Idents : Env!Binding(OpenFrames, x)' = LookupName(currentScope, x)'
<1>1. Inv => \A x \in Idents : Env!Binding(OpenFrames, x) = LookupName(currentScope, x)
  BY FramesAnswer
<1>2. (Inv => \A x \in Idents : Env!Binding(OpenFrames, x) = LookupName(currentScope, x))'
  BY <1>1, PTL
<1> QED BY <1>2

-----------------------------------------------------------------------------
(* What a step does to the frames.                                         *)

\* Nothing, when it leaves the bodies and the name tables alone.
LEMMA SameFrames ==
    ASSUME UNCHANGED <<nameMap, stack>>
    PROVE  OpenFrames' = OpenFrames
  BY DEF OpenFrames, BodyScope

\* Opening a body pushes the names it starts with.
LEMMA PushedFrame ==
    ASSUME Inv, Inv', NEW kind \in BodyKinds, NEW names \in [Idents -> Name \cup {NoName}],
           EnterInnerScope(names),
           stack' = Append(stack, [kind |-> kind, scope |-> NextScope])
    PROVE  OpenFrames' = Append(OpenFrames, names)
<1> DEFINE n == Len(stack)
<1>1. /\ n \in Nat /\ stack \in Seq(Frame)
      /\ nScopes \in 1 .. MaxScopes /\ MaxScopes \in Nat /\ nScopes + 1 \in Scopes
      /\ nameMap \in [Scopes -> [Idents -> Name \cup {NoName}]]
      /\ nameMap' = [nameMap EXCEPT ![nScopes + 1] = names]
  BY BoundsAssumption DEF Inv, TypeOK, TablesTypeOK, Scopes, EnterInnerScope, AttachScope, NextScope
<1>2. /\ Len(stack') = n + 1
      /\ \A k \in 0 .. n : BodyScope(stack', k) = BodyScope(stack, k)
      /\ BodyScope(stack', n + 1) = nScopes + 1
  BY <1>1 DEF BodyScope, NextScope
<1>3. /\ \A k \in 0 .. n : BodyScope(stack, k) \in 1 .. nScopes
  BY DEF Inv, OpenBodies
<1>4. \A k \in 0 .. n : nameMap'[BodyScope(stack', k)] = nameMap[BodyScope(stack, k)]
  BY <1>1, <1>2, <1>3 DEF Scopes
<1>5. nameMap'[BodyScope(stack', n + 1)] = names
  BY <1>1, <1>2
<1>6. /\ OpenFrames \in Seq([Idents -> Name \cup {NoName}]) /\ Len(OpenFrames) = n + 1
      /\ \A i \in 1 .. n + 1 : OpenFrames[i] = nameMap[BodyScope(stack, i - 1)]
  BY FramesOfBodies
<1>7. /\ OpenFrames' \in Seq([Idents -> Name \cup {NoName}]) /\ Len(OpenFrames') = n + 2
      /\ \A i \in 1 .. n + 2 : OpenFrames'[i] = nameMap'[BodyScope(stack', i - 1)]
  <2>1. Len(stack') + 1 = n + 2
    BY <1>1, <1>2
  <2> QED BY <2>1, FramesNext
<1> HIDE DEF n
<1> DEFINE pushed == Append(OpenFrames, names)
<1>8. pushed \in Seq([Idents -> Name \cup {NoName}]) /\ Len(pushed) = n + 2
  BY <1>1, <1>6
<1>9. ASSUME NEW i \in 1 .. Len(OpenFrames') PROVE OpenFrames'[i] = pushed[i]
  <2>1. CASE i = n + 2
    <3>1. i - 1 = n + 1 /\ i \in 1 .. n + 2 /\ i = Len(OpenFrames) + 1
      BY <1>1, <1>6, <1>7, <2>1
    <3>2. pushed[i] = names
      BY <1>6, <3>1
    <3>3. OpenFrames'[i] = nameMap'[BodyScope(stack', i - 1)]
      BY <1>7, <3>1
    <3> QED BY <1>5, <3>1, <3>2, <3>3
  <2>2. CASE i # n + 2
    <3>1. i - 1 \in 0 .. n /\ i \in 1 .. n + 1 /\ i \in 1 .. n + 2
      BY <1>1, <1>7, <2>2
    <3>2. OpenFrames'[i] = nameMap'[BodyScope(stack', i - 1)]
      BY <1>7, <3>1
    <3>3. nameMap'[BodyScope(stack', i - 1)] = nameMap[BodyScope(stack, i - 1)]
      BY <1>4, <3>1
    <3>4. OpenFrames[i] = nameMap[BodyScope(stack, i - 1)]
      BY <1>6, <3>1
    <3>5. pushed[i] = OpenFrames[i]
      BY <1>6, <3>1
    <3> QED BY <3>2, <3>3, <3>4, <3>5
  <2> QED BY <2>1, <2>2
<1> HIDE DEF pushed
<1>10. OpenFrames' = pushed
  BY <1>7, <1>8, <1>9, SeqEqual
<1> QED BY <1>10 DEF pushed

\* Leaving the innermost body pops its frame.
LEMMA PoppedFrame ==
    ASSUME Inv, Inv', stack # <<>>, UNCHANGED nameMap,
           stack' = SubSeq(stack, 1, Len(stack) - 1)
    PROVE  /\ Len(OpenFrames) > 1
           /\ OpenFrames' = SubSeq(OpenFrames, 1, Len(OpenFrames) - 1)
<1> DEFINE n == Len(stack)
<1>1. n \in Nat \ {0} /\ stack \in Seq(Frame)
  BY EmptySeq DEF Inv, TypeOK
<1> DEFINE m == n - 1
<1>2. m \in Int /\ m \in Nat /\ 1 \in Int /\ \A i \in 1 .. m : stack[i] \in Frame
  BY <1>1
<1>3. Len(stack') = m /\ \A i \in 1 .. m : stack'[i] = stack[i]
  <2> HIDE DEF m
  <2>1. /\ Len(SubSeq(stack, 1, m)) = IF 1 <= m THEN m - 1 + 1 ELSE 0
        /\ \A i \in 1 .. m - 1 + 1 : SubSeq(stack, 1, m)[i] = stack[1 + i - 1]
    BY <1>2, SubSeqProperties
  <2>2. stack' = SubSeq(stack, 1, m)
    BY DEF m
  <2> QED BY <1>2, <2>1, <2>2
<1>4. /\ OpenFrames \in Seq([Idents -> Name \cup {NoName}]) /\ Len(OpenFrames) = n + 1
      /\ \A i \in 1 .. n + 1 : OpenFrames[i] = nameMap[BodyScope(stack, i - 1)]
  BY FramesOfBodies
<1>5. /\ OpenFrames' \in Seq([Idents -> Name \cup {NoName}]) /\ Len(OpenFrames') = n
      /\ \A i \in 1 .. n : OpenFrames'[i] = nameMap[BodyScope(stack', i - 1)]
  <2>1. Len(stack') + 1 = n
    BY <1>1, <1>3
  <2> QED BY <2>1, FramesNext
<1> HIDE DEF n
<1> DEFINE popped == SubSeq(OpenFrames, 1, n)
<1>6. /\ popped \in Seq([Idents -> Name \cup {NoName}]) /\ Len(popped) = n
      /\ \A i \in 1 .. n : popped[i] = OpenFrames[i]
  <2>1. 1 \in Int /\ n \in Int /\ \A i \in 1 .. n : OpenFrames[i] \in [Idents -> Name \cup {NoName}]
    BY <1>1, <1>4
  <2>2. /\ popped \in Seq([Idents -> Name \cup {NoName}])
        /\ Len(popped) = IF 1 <= n THEN n - 1 + 1 ELSE 0
        /\ \A i \in 1 .. n - 1 + 1 : popped[i] = OpenFrames[1 + i - 1]
    BY <2>1, SubSeqProperties
  <2> HIDE DEF popped
  <2> QED BY <1>1, <2>2
<1>7. ASSUME NEW i \in 1 .. Len(OpenFrames') PROVE OpenFrames'[i] = popped[i]
  <2>1. i \in 1 .. n /\ i \in 1 .. n + 1
    BY <1>1, <1>5
  <2>2. BodyScope(stack', i - 1) = BodyScope(stack, i - 1)
    BY <1>1, <1>3, <2>1 DEF BodyScope
  <2> HIDE DEF popped
  <2> QED BY <1>4, <1>5, <1>6, <2>1, <2>2
<1> HIDE DEF popped
<1>8. OpenFrames' = popped
  BY <1>5, <1>6, <1>7, SeqEqual
<1>9. Len(OpenFrames) - 1 = n /\ Len(OpenFrames) > 1
  BY <1>1, <1>4
<1> QED BY <1>8, <1>9 DEF popped

\* A false body starts with no names in place of those of the true body.
LEMMA ReplacedFrame ==
    ASSUME Inv, Inv', stack # <<>>, AttachScope(parent[currentScope], EmptyNames),
           NEW kind \in BodyKinds,
           stack' = [stack EXCEPT ![Len(stack)] = [kind |-> kind, scope |-> NextScope]]
    PROVE  /\ Len(OpenFrames) > 1
           /\ OpenFrames' = [OpenFrames EXCEPT ![Len(OpenFrames)] = EmptyNames]
<1> DEFINE n == Len(stack)
<1>1. n \in Nat \ {0} /\ stack \in Seq(Frame)
      /\ nScopes \in 1 .. MaxScopes /\ MaxScopes \in Nat /\ nScopes + 1 \in Scopes
      /\ nameMap \in [Scopes -> [Idents -> Name \cup {NoName}]]
      /\ nameMap' = [nameMap EXCEPT ![nScopes + 1] = EmptyNames]
  BY EmptySeq, BoundsAssumption DEF Inv, TypeOK, TablesTypeOK, Scopes, AttachScope, NextScope
<1>2. /\ Len(stack') = n
      /\ \A k \in 0 .. n - 1 : BodyScope(stack', k) = BodyScope(stack, k)
      /\ BodyScope(stack', n) = nScopes + 1
  BY <1>1 DEF BodyScope, NextScope
<1>3. \A k \in 0 .. n : BodyScope(stack, k) \in 1 .. nScopes
  BY DEF Inv, OpenBodies
<1>4. ASSUME NEW k \in 0 .. n - 1
      PROVE  nameMap'[BodyScope(stack', k)] = nameMap[BodyScope(stack, k)]
  <2>1. k \in 0 .. n
    BY <1>1
  <2>2. BodyScope(stack, k) \in 1 .. nScopes
    BY <1>3, <2>1
  <2>3. BodyScope(stack', k) = BodyScope(stack, k)
    BY <1>2
  <2>4. BodyScope(stack, k) \in Scopes /\ BodyScope(stack, k) # nScopes + 1
    BY <1>1, <2>2 DEF Scopes
  <2> QED BY <1>1, <2>3, <2>4
<1>5. nameMap'[BodyScope(stack', n)] = EmptyNames
  BY <1>1, <1>2
<1>6. /\ OpenFrames \in Seq([Idents -> Name \cup {NoName}]) /\ Len(OpenFrames) = n + 1
      /\ \A i \in 1 .. n + 1 : OpenFrames[i] = nameMap[BodyScope(stack, i - 1)]
  BY FramesOfBodies
<1>7. /\ OpenFrames' \in Seq([Idents -> Name \cup {NoName}]) /\ Len(OpenFrames') = n + 1
      /\ \A i \in 1 .. n + 1 : OpenFrames'[i] = nameMap'[BodyScope(stack', i - 1)]
  BY <1>2, FramesNext
<1>8. n + 1 \in 1 .. Len(OpenFrames) /\ Len(OpenFrames) > 1
      /\ EmptyNames \in [Idents -> Name \cup {NoName}]
  BY <1>1, <1>6 DEF EmptyNames
<1> HIDE DEF n
<1> DEFINE replaced == [OpenFrames EXCEPT ![n + 1] = EmptyNames]
<1>9. /\ replaced \in Seq([Idents -> Name \cup {NoName}]) /\ Len(replaced) = n + 1
      /\ \A i \in 1 .. n + 1 : replaced[i] = IF i = n + 1 THEN EmptyNames ELSE OpenFrames[i]
  BY <1>6, <1>8, ExceptSeq
<1>10. ASSUME NEW i \in 1 .. Len(OpenFrames') PROVE OpenFrames'[i] = replaced[i]
  <2> HIDE DEF replaced
  <2>1. i \in 1 .. n + 1
    BY <1>7
  <2>2. CASE i = n + 1
    <3>1. i - 1 = n
      BY <1>1, <2>2
    <3>2. OpenFrames'[i] = nameMap'[BodyScope(stack', i - 1)]
      BY <1>7, <2>1, <3>1
    <3> QED BY <1>5, <1>9, <2>1, <2>2, <3>1, <3>2
  <2>3. CASE i # n + 1
    <3>1. i - 1 \in 0 .. n - 1
      BY <1>1, <2>1, <2>3
    <3> QED BY <1>4, <1>6, <1>7, <1>9, <2>1, <2>3, <3>1
  <2> QED BY <2>2, <2>3
<1> HIDE DEF replaced
<1>11. OpenFrames' = replaced
  BY <1>6, <1>7, <1>9, <1>10, SeqEqual
<1> QED BY <1>6, <1>8, <1>11 DEF replaced

\* A declaration binds its identifier in the innermost frame.
LEMMA BoundFrame ==
    ASSUME Inv, Inv', NEW x \in Idents, NEW new \in Name,
           nameMap' = [nameMap EXCEPT ![currentScope][x] = new], UNCHANGED stack
    PROVE  OpenFrames' = [OpenFrames EXCEPT ![Len(OpenFrames)][x] = new]
<1> DEFINE n == Len(stack)
           F == [OpenFrames EXCEPT ![n + 1][x] = new]
<1>1. /\ n \in Nat /\ OpenFrames \in Seq([Idents -> Name \cup {NoName}]) /\ Len(OpenFrames) = n + 1
      /\ \A i \in 1 .. n + 1 : OpenFrames[i] = nameMap[BodyScope(stack, i - 1)]
      /\ OpenFrames[n + 1] = nameMap[currentScope]
  BY FramesOfBodies
<1>2. currentScope = BodyScope(stack, n) /\ currentScope \in Scopes
      /\ nameMap \in [Scopes -> [Idents -> Name \cup {NoName}]]
  BY DEF Inv, OpenBodies, TypeOK, TablesTypeOK
<1>3. /\ OpenFrames' \in Seq([Idents -> Name \cup {NoName}]) /\ Len(OpenFrames') = n + 1
      /\ \A i \in 1 .. n + 1 : OpenFrames'[i] = nameMap'[BodyScope(stack, i - 1)]
  BY FramesNext
<1> HIDE DEF n
<1>4. ASSUME NEW i \in 1 .. n + 1
      PROVE  nameMap'[BodyScope(stack, i - 1)]
               = IF i = n + 1 THEN [OpenFrames[n + 1] EXCEPT ![x] = new] ELSE OpenFrames[i]
  <2>1. CASE i = n + 1
    <3>1. BodyScope(stack, i - 1) = currentScope
      BY <1>1, <1>2, <2>1
    <3> QED BY <1>1, <1>2, <2>1, <3>1
  <2>2. CASE i # n + 1
    <3>1. i - 1 \in 0 .. n /\ n \in 0 .. n /\ i - 1 # n
      BY <1>1, <2>2
    <3>2. BodyScope(stack, i - 1) < BodyScope(stack, n)
      BY <3>1, BodiesIncrease DEF n
    <3>3. BodyScope(stack, i - 1) \in Scopes /\ BodyScope(stack, i - 1) # currentScope
      <4>1. BodyScope(stack, i - 1) \in 1 .. nScopes /\ BodyScope(stack, n) \in 1 .. nScopes
        BY <3>1 DEF Inv, OpenBodies, n
      <4>2. nScopes \in 1 .. MaxScopes /\ MaxScopes \in Nat
        BY BoundsAssumption DEF Inv, TypeOK, TablesTypeOK, Scopes
      <4> QED BY <1>2, <3>2, <4>1, <4>2 DEF Scopes
    <3> QED BY <1>1, <1>2, <2>2, <3>3
  <2> QED BY <2>1, <2>2
<1> DEFINE frame == [OpenFrames[n + 1] EXCEPT ![x] = new]
           bound == [OpenFrames EXCEPT ![n + 1] = frame]
<1>5. n + 1 \in 1 .. Len(OpenFrames) /\ frame \in [Idents -> Name \cup {NoName}]
  BY <1>1
<1> HIDE DEF frame
<1>6. /\ bound \in Seq([Idents -> Name \cup {NoName}]) /\ Len(bound) = n + 1
      /\ \A i \in 1 .. n + 1 : bound[i] = IF i = n + 1 THEN frame ELSE OpenFrames[i]
  BY <1>1, <1>5, ExceptSeq
<1> HIDE DEF bound
<1>7. \A i \in 1 .. Len(OpenFrames') : OpenFrames'[i] = bound[i]
  BY <1>3, <1>4, <1>6 DEF frame
<1>8. OpenFrames' = bound
  BY <1>3, <1>6, <1>7, SeqEqual
<1> QED BY <1>1, <1>8 DEF bound, frame

-----------------------------------------------------------------------------
(* The simulation.                                                         *)

\* What a step records are answers of the environment before or after it.
LEMMA StepAsks ==
    ASSUME Inv, Inv', uses \subseteq uses',
           \A u \in uses' \ uses :
               \/ u.name = LookupName(currentScope, u.ident)
               \/ u.name = LookupName(currentScope, u.ident)'
    PROVE  Env!Asked
<1>1. Resolved \subseteq Resolved'
  BY DEF Resolved
<1>2. ASSUME NEW a \in Resolved' \ Resolved
      PROVE  /\ a.ident \in Idents
             /\ \/ a = [ident |-> a.ident, name |-> Env!Binding(OpenFrames, a.ident)]
                \/ a = [ident |-> a.ident, name |-> Env!Binding(OpenFrames, a.ident)']
  <2>1. PICK u \in uses' : a = [ident |-> u.ident, name |-> u.name]
    BY DEF Resolved
  <2>2. u \notin uses
    BY <2>1 DEF Resolved
  <2>3. u \in Occurrence
    BY DEF Inv, TypeOK
  <2>4. u.ident \in Idents /\ a.ident = u.ident /\ a.name = u.name
    BY <2>1, <2>3 DEF Occurrence
  <2>5. Env!Binding(OpenFrames, u.ident) = LookupName(currentScope, u.ident)
    BY <2>4, FramesAnswer
  <2>6. Env!Binding(OpenFrames, u.ident)' = LookupName(currentScope, u.ident)'
    BY <2>4, FramesAnswerNext
  <2> QED BY <2>1, <2>2, <2>4, <2>5, <2>6
<1> QED BY <1>1, <1>2 DEF Env!Asked, Env!Answer

\* The scope that is current after a step exists then.
LEMMA NextIsEntered == Inv' => currentScope' \in 1 .. nScopes'
<1>1. Inv => currentScope \in 1 .. nScopes
  BY EnteredBelow
<1>2. (Inv => currentScope \in 1 .. nScopes)'
  BY <1>1, PTL
<1> QED BY <1>2

\* A step that leaves the bodies, the names and the recorded uses alone.
LEMMA StutterSimulated ==
    ASSUME UNCHANGED <<nameMap, stack, uses>>
    PROVE  UNCHANGED <<OpenFrames, Resolved>>
  BY SameFrames DEF Resolved

\* Opening a body below the innermost one.
LEMMA PushSimulated ==
    ASSUME Inv, Inv', NEW kind \in BodyKinds, NEW names \in [Idents -> Name \cup {NoName}],
           EnterInnerScope(names),
           stack' = Append(stack, [kind |-> kind, scope |-> NextScope]), Env!Asked
    PROVE  Env!Push
<1>1. OpenFrames' = Append(OpenFrames, names)
  BY PushedFrame
<1>2. OpenFrames \in Seq([Idents -> Name \cup {NoName}])
  BY FramesOfBodies
<1>3. Len(OpenFrames') = Len(OpenFrames) + 1 /\ OpenFrames'[Len(OpenFrames')] = names
  BY <1>1, <1>2
<1> QED BY <1>1, <1>3 DEF Env!Push, Env!Frame

\* Declaring a variable.
LEMMA BindSimulated ==
    ASSUME Inv, Inv', NEW x \in Idents, NEW t \in TypeIds, DefineName(currentScope, x, t),
           UNCHANGED stack, Env!Asked
    PROVE  Env!Bind
<1> DEFINE new == NewName(nNames + 1, x, t, FALSE)
<1>1. new \in Name
  BY DefineNameType DEF Inv, TypeOK, TablesTypeOK
<1>2. nameMap' = [nameMap EXCEPT ![currentScope][x] = new]
  BY DEF DefineName
<1> HIDE DEF new
<1>3. OpenFrames' = [OpenFrames EXCEPT ![Len(OpenFrames)][x] = new]
  BY <1>1, <1>2, BoundFrame
<1>4. /\ OpenFrames \in Seq([Idents -> Name \cup {NoName}])
      /\ Len(OpenFrames) \in 1 .. Len(OpenFrames)
  BY FramesOfBodies
<1>5. OpenFrames'[Len(OpenFrames)][x] = new
  BY <1>3, <1>4
<1> QED BY <1>1, <1>3, <1>5 DEF Env!Bind

(***************************************************************************)
(* Every step of the pass is a step of the environment, or none.           *)
(***************************************************************************)
LEMMA StepSimulated ==
    ASSUME Inv, Inv', TreeWellFormed', [Next]_vars
    PROVE  [Env!Next]_<<OpenFrames, Resolved>>
<1> DEFINE Goal == [Env!Next]_<<OpenFrames, Resolved>>
<1>1. ASSUME UNCHANGED <<nameMap, stack, uses>> PROVE Goal
  BY <1>1, StutterSimulated
<1>2. ASSUME AbortProcess \/ SkipNode PROVE Goal
  BY <1>1, <1>2 DEF AbortProcess, SkipNode, tableVars, nameVars
<1>3. ASSUME NEW X, RecordUses(X, currentScope) PROVE Env!Asked
  BY <1>3, StepAsks DEF RecordUses, UseOf
<1>4. ASSUME uses' = uses PROVE Env!Asked
  BY <1>4, StepAsks
<1>5. EmptyNames \in [Idents -> Name \cup {NoName}]
  BY DEF EmptyNames
<1>6. ASSUME NEW x \in Declared, NEW T \in TypeIdents, NEW e \in Exprs, DeclareTypedVariable(x, T, e)
      PROVE  Goal
  <2>1. CASE LookupType(currentScope, T) = NoTypeId
    BY <1>2, <1>6, <2>1 DEF DeclareTypedVariable
  <2>2. CASE LookupType(currentScope, T) # NoTypeId
    <3>1. x \in Idents /\ LookupType(currentScope, T) \in TypeIds
      BY <2>2, ProgramAssumption, LookupTypeFinds DEF Inv, TypeOK, TablesTypeOK
    <3>2. /\ DefineName(currentScope, x, LookupType(currentScope, T)) /\ UNCHANGED stack
          /\ currentScope' = currentScope
          /\ uses' = uses \cup {UseOf(y, currentScope)' : y \in Reads(e)}
      BY <1>6, <2>2 DEF DeclareTypedVariable
    <3>3. Env!Asked
      <4>1. ASSUME NEW u \in uses' \ uses PROVE u.name = LookupName(currentScope, u.ident)'
        <5>1. PICK y \in Reads(e) : u = UseOf(y, currentScope)'
          BY <3>2
        <5>2. u.ident = y /\ u.name = LookupName(currentScope, y)'
          BY <5>1 DEF UseOf
        <5> QED BY <5>2 DEF LookupName, Defining
      <4> QED BY <3>2, <4>1, StepAsks
    <3> QED BY <3>1, <3>2, <3>3, BindSimulated DEF Env!Next
  <2> QED BY <2>1, <2>2
<1>7. ASSUME NEW x \in Declared, NEW e \in Exprs, DeclareInferredVariable(x, e)
      PROVE  Goal
  <2>1. PICK t : \/ AbortProcess \/ SkipNode
                 \/ /\ TypeIsVisible(currentScope, t)
                    /\ DefineName(currentScope, x, t)
                    /\ RecordUses(Reads(e), currentScope)
                    /\ UNCHANGED stack
    BY <1>7 DEF DeclareInferredVariable
  <2>2. x \in Idents
    BY ProgramAssumption
  <2> QED BY <1>2, <1>3, <2>1, <2>2, BindSimulated DEF Env!Next, TypeIsVisible
<1>8. ASSUME NEW def \in TypeDefs, DeclareType(def) PROVE Goal
  BY <1>1, <1>2, <1>8 DEF DeclareType, nameVars
<1>9. ASSUME NEW outcomes, NEW X, SimpleStatement(outcomes, X) PROVE Goal
  <2>1. \/ AbortProcess \/ SkipNode
        \/ RecordUses(X, currentScope) /\ UNCHANGED <<tableVars, stack>>
    BY <1>9 DEF SimpleStatement
  <2> QED BY <1>2, <1>3, <2>1, SameFrames DEF Env!Next, Env!Ask, tableVars, nameVars
<1>10. ASSUME NEW e \in Exprs, OpenIf(e) \/ OpenWhile(e) PROVE Goal
  <2>1. \/ AbortProcess \/ SkipNode
        \/ \E kind \in {"then", "while"}, s \in {currentScope, NextScope} :
              /\ EnterInnerScope(EmptyNames)
              /\ stack' = Append(stack, [kind |-> kind, scope |-> NextScope])
              /\ RecordUses(Reads(e), s)
    BY <1>10 DEF OpenIf, OpenWhile, BlockStatement, OpenBody
  <2>2. ASSUME NEW s, RecordUses(Reads(e), s) PROVE Env!Asked
    BY <2>2, StepAsks DEF RecordUses, UseOf
  <2> QED BY <1>2, <1>5, <2>1, <2>2, PushSimulated DEF Env!Next, BodyKinds
<1>11. ASSUME NEW x \in Declared, NEW lo \in Exprs, NEW hi \in Exprs, OpenFor(x, lo, hi)
       PROVE  Goal
  <2> DEFINE counter == NewName(nNames + 1, x, INT, FALSE)
             counterUse == [ident |-> x, name |-> counter, scope |-> NextScope, clock |-> nNames + 1]
             names == [EmptyNames EXCEPT ![x] = counter]
  <2>1. \/ AbortProcess \/ SkipNode
        \/ /\ nNames < MaxNames
           /\ EnterInnerScope(names)
           /\ stack' = Append(stack, [kind |-> "for", scope |-> NextScope])
           /\ uses' = uses \cup {counterUse}
                           \cup {UseOf(y, currentScope) : y \in Reads(lo) \cup Reads(hi)}
    BY <1>11 DEF OpenFor, BlockStatement, OpenBody
  <2>2. ASSUME nNames < MaxNames,
               EnterInnerScope(names),
               stack' = Append(stack, [kind |-> "for", scope |-> NextScope]),
               uses' = uses \cup {counterUse}
                            \cup {UseOf(y, currentScope) : y \in Reads(lo) \cup Reads(hi)}
        PROVE  Goal
    <3>1. x \in Idents /\ nNames + 1 \in 1 .. MaxNames /\ INT \in TypeIds
      BY <2>2, ProgramAssumption, BoundsAssumption DEF Inv, TypeOK, TablesTypeOK, TypeIds, Natives
    <3>2. counter \in Name /\ counter # NoName
      <4>1. counter \in Name
        BY <3>1 DEF NewName, Name
      <4> QED BY <4>1, IdentsAssumption
    <3>3. counterUse.ident = x /\ counterUse.name = counter
      OBVIOUS
    <3> HIDE DEF counter, counterUse
    <3>4. names \in [Idents -> Name \cup {NoName}] /\ names[x] = counter
      BY <1>5, <3>1, <3>2
    <3>5. LookupName(currentScope, x)' = counter
      <4>1. currentScope' \in 1 .. nScopes' /\ TablesTypeOK' /\ PathsWellFormed'
        BY NextIsEntered DEF Inv, TypeOK
      <4>2. nameMap'[currentScope'][x] = counter
        <5>1. /\ nScopes \in 1 .. MaxScopes /\ MaxScopes \in Nat /\ nScopes < MaxScopes
              /\ nameMap \in [Scopes -> [Idents -> Name \cup {NoName}]]
              /\ nameMap' = [nameMap EXCEPT ![nScopes + 1] = names]
              /\ currentScope' = nScopes + 1
          BY <2>2, BoundsAssumption
             DEF Inv, TypeOK, TablesTypeOK, Scopes, EnterInnerScope, AttachScope, NextScope
        <5>2. nScopes + 1 \in Scopes
          BY <5>1 DEF Scopes
        <5> QED BY <3>4, <5>1, <5>2
      <4> QED BY <3>1, <3>2, <4>1, <4>2, LookupNameUnrolledNext
    <3>6. Env!Asked
      <4>1. ASSUME NEW u \in uses' \ uses
            PROVE  \/ u.name = LookupName(currentScope, u.ident)
                   \/ u.name = LookupName(currentScope, u.ident)'
        BY <2>2, <3>3, <3>5 DEF UseOf
      <4> QED BY <2>2, <4>1, StepAsks
    <3> HIDE DEF names
    <3> QED BY <2>2, <3>4, <3>6, PushSimulated DEF Env!Next, BodyKinds
  <2> HIDE DEF counterUse, names
  <2> QED BY <1>2, <2>1, <2>2
<1>12. ASSUME NEW f \in Routines, NEW params \in ParamLists, NEW R \in TypeIdents \cup {NoIdent},
              OpenRoutine(f, params, R)
       PROVE  Goal
  <2>1. \/ AbortProcess
        \/ /\ \A i \in DOMAIN params : LookupType(Global, params[i].type) # NoTypeId
           /\ nNames + Len(params) <= MaxNames
           /\ EnterInnerScope(ParamNames(params))
           /\ stack = <<>>
           /\ stack' = <<[kind |-> "routine", scope |-> NextScope]>>
           /\ uses' = uses
    BY <1>12 DEF OpenRoutine, InRoutine
  <2>2. params \in Seq(Param)
    BY ProgramAssumption
  <2>3. /\ \A i \in DOMAIN params : LookupType(Global, params[i].type) # NoTypeId
        /\ nNames + Len(params) <= MaxNames
        => ParamNames(params) \in [Idents -> Name \cup {NoName}]
    BY <2>2, ParamNamesType DEF Inv
  <2>4. stack = <<>> => Append(stack, [kind |-> "routine", scope |-> NextScope])
                          = <<[kind |-> "routine", scope |-> NextScope]>>
    OBVIOUS
  <2> QED BY <1>2, <1>4, <2>1, <2>3, <2>4, PushSimulated DEF Env!Next, BodyKinds
<1>13. ASSUME OpenElse PROVE Goal
  <2>1. /\ stack # <<>> /\ AttachScope(parent[currentScope], EmptyNames)
        /\ stack' = [stack EXCEPT ![Len(stack)] = [kind |-> "else", scope |-> NextScope]]
        /\ uses' = uses
    BY <1>13 DEF OpenElse, InRoutine
  <2>2. /\ Len(OpenFrames) > 1
        /\ OpenFrames' = [OpenFrames EXCEPT ![Len(OpenFrames)] = EmptyNames]
    BY <2>1, ReplacedFrame DEF BodyKinds
  <2> QED BY <2>1, <2>2 DEF Env!Next, Env!Replace, Env!EmptyFrame, EmptyNames, Resolved
<1>14. ASSUME CloseBody PROVE Goal
  <2>1. /\ stack # <<>> /\ UNCHANGED <<nameMap, uses>>
        /\ stack' = SubSeq(stack, 1, Len(stack) - 1)
    BY <1>14 DEF CloseBody, InRoutine, nameVars
  <2> QED BY <2>1, PoppedFrame DEF Env!Next, Env!Pop, Resolved
<1>15. ASSUME EndProgram \/ UNCHANGED vars PROVE Goal
  BY <1>1, <1>15 DEF EndProgram, vars, tableVars, nameVars
<1> HIDE DEF Goal
<1>16. Declaration => Goal
  BY <1>2, <1>6, <1>7, <1>8 DEF Declaration, DeclareGlobalVariable
<1>17. Statement => Goal
  BY <1>9, <1>10, <1>11 DEF Statement, Assign, CallStatement, Return
<1>18. RoutineDeclaration => Goal
  BY <1>12 DEF RoutineDeclaration
<1>19. Goal
  BY <1>13, <1>14, <1>15, <1>16, <1>17, <1>18 DEF Next
<1> QED BY <1>19 DEF Goal

(***************************************************************************)
(* The scope tree with its parent walk implements a lexical environment:   *)
(* what a name means never depends on a body that is closed.               *)
(***************************************************************************)
THEOREM ImplementsLexicalEnv == Spec => IsLexicalEnv
<1>1. Init => Env!Init
  <2> SUFFICES ASSUME Init PROVE Env!Init
    OBVIOUS
  <2>1. stack = <<>> /\ uses = {} /\ nameMap[Global] = EmptyNames
    BY BoundsAssumption DEF Init, InitTables, Global, Scopes
  <2>2. OpenFrames = <<EmptyNames>>
    <3>1. OpenFrames = [i \in 1 .. 1 |-> nameMap[BodyScope(stack, i - 1)]]
      BY <2>1 DEF OpenFrames
    <3>2. nameMap[BodyScope(stack, 1 - 1)] = EmptyNames
      BY <2>1 DEF BodyScope
    <3> QED BY <3>1, <3>2
  <2>3. Resolved = {}
    BY <2>1 DEF Resolved
  <2> QED BY <2>2, <2>3 DEF Env!Init, Env!EmptyFrame, EmptyNames
<1>2. Inv /\ TreeWellFormed /\ [Next]_vars => TreeWellFormed'
  BY NextKeepsTree
<1>3. Inv /\ Inv' /\ TreeWellFormed' /\ [Next]_vars => [Env!Next]_<<OpenFrames, Resolved>>
  BY StepSimulated
<1> QED BY <1>1, <1>2, <1>3, InitTree, InvHolds, PTL DEF Spec, IsLexicalEnv, Env!Spec

-----------------------------------------------------------------------------
(* Types.                                                                  *)

(***************************************************************************)
(* The scopes a lookup visits from an enclosing scope are visited from the *)
(* scopes inside it too, and the global scope from all of them.            *)
(***************************************************************************)
PathsNested ==
    /\ path[Global] = {Global}
    /\ \A c \in 1 .. nScopes : Global \in path[c] /\ \A s \in path[c] : path[s] \subseteq path[c]

(***************************************************************************)
(* A type is built of types that were declared before it and that its own  *)
(* scope can see; the ids that were not given out are free.                *)
(***************************************************************************)
TypesWellFormed ==
    /\ \A t \in Natives : types[t] # NoType /\ types[t].scope = Global
    /\ \A t \in UserTypes : t >= FirstTypeId + nTypes => types[t] = NoType
    /\ \A t \in TypeIds : types[t] # NoType =>
          /\ types[t].scope \in 1 .. nScopes
          /\ types[t].kind \notin {"native", "record"} => types[t].parts # {}
          /\ \A u \in types[t].parts : u < t /\ TypeIsVisible(types[t].scope, u)

(***************************************************************************)
(* What a scope's tables hold is visible from that scope.                  *)
(***************************************************************************)
TablesHoldTypes ==
    /\ \A s \in 1 .. nScopes, x \in Idents :
          /\ typeNameMap[s][x] # NoTypeId => TypeIsVisible(s, typeNameMap[s][x])
          /\ nameMap[s][x] # NoName => TypeIsVisible(s, nameMap[s][x].type)
    /\ \A s \in Scopes : s > nScopes => typeNameMap[s] = EmptyTypes

RoutinesKnown ==
    \A f \in Idents : LET func == funcMap[f] IN func # NoFunc =>
       /\ func.scope # 0 => func.scope \in 2 .. nScopes /\ parent[func.scope] = Global
       /\ \A i \in DOMAIN func.params : TypeIsVisible(Global, func.params[i])

(***************************************************************************)
(* The outermost open body is that of the current routine, and never gives *)
(* way to a false body.                                                    *)
(***************************************************************************)
InCurrentRoutine ==
    InRoutine => stack[1].kind = "routine" /\ currentFunction.scope = stack[1].scope

TablesInv == PathsNested /\ TypesWellFormed /\ TablesHoldTypes
TypesInv == TablesInv /\ RoutinesKnown /\ InCurrentRoutine

-----------------------------------------------------------------------------
(* What is visible.                                                        *)

\* A type that is visible from a scope is visible from every scope inside it.
LEMMA VisibleInside ==
    ASSUME PathsNested, NEW c \in 1 .. nScopes, NEW s \in path[c], NEW t, TypeIsVisible(s, t)
    PROVE  TypeIsVisible(c, t)
  BY DEF PathsNested, TypeIsVisible

\* The native types are visible everywhere.
LEMMA NativesAreVisible ==
    ASSUME PathsNested, TypesWellFormed, NEW s \in 1 .. nScopes, NEW t \in Natives
    PROVE  TypeIsVisible(s, t)
  BY DEF PathsNested, TypesWellFormed, TypeIsVisible, TypeIds

\* A type that a lookup by identifier finds is found by its id as well.
LEMMA LookupTypeIsVisible ==
    ASSUME Inv, TablesInv, NEW s \in 1 .. nScopes, NEW x \in Idents, LookupType(s, x) # NoTypeId
    PROVE  TypeIsVisible(s, LookupType(s, x))
<1> DEFINE D == DefiningType(s, x)
<1>1. D # {} /\ LookupType(s, x) = typeNameMap[Innermost(D)][x]
  BY DEF LookupType
<1>2. /\ path[s] \subseteq 1 .. s /\ nScopes \in 1 .. MaxScopes /\ MaxScopes \in Nat
  BY BoundsAssumption DEF Inv, PathsWellFormed, TypeOK, TablesTypeOK, Scopes
<1>3. D \in SUBSET (1 .. nScopes) /\ D \subseteq path[s] /\ nScopes \in Nat
  BY <1>2 DEF DefiningType
<1>4. \A a \in D : typeNameMap[a][x] # NoTypeId
  BY DEF DefiningType
<1> HIDE DEF D
<1>5. Innermost(D) \in D
  BY <1>1, <1>3, InnermostIsGreatest
<1>6. TypeIsVisible(Innermost(D), typeNameMap[Innermost(D)][x])
  BY <1>3, <1>4, <1>5 DEF TablesInv, TablesHoldTypes
<1> QED BY <1>1, <1>3, <1>5, <1>6, VisibleInside DEF TablesInv

\* TypeIsVisible of the next state's tables, for a scope and a type of this state.
VisibleNext(s, t) == t \in TypeIds /\ types'[t] # NoType /\ types'[t].scope \in path'[s]

VisibleStays == \A s \in 1 .. nScopes, t \in TypeIds : TypeIsVisible(s, t) => VisibleNext(s, t)

-----------------------------------------------------------------------------
(* What a step does to the tables.                                         *)

\* InitSemanticContext starts with the native types and the routine printInt.
LEMMA InitTypes == Init => TypesInv
<1> SUFFICES ASSUME Init PROVE TypesInv
  OBVIOUS
<1>1. /\ nScopes = 1 /\ Global = 1 /\ Global \in Scopes /\ path[Global] = {Global}
      /\ nTypes = 0 /\ Natives \subseteq TypeIds
  BY BoundsAssumption DEF Init, InitTables, Global, Scopes, TypeIds
<1>2. PathsNested
  BY <1>1 DEF PathsNested
<1>3. \A t \in Natives : types[t] = [kind |-> "native", scope |-> Global, parts |-> {}]
  BY <1>1 DEF Init, InitTables
<1>4. \A t \in Natives : types[t] # NoType /\ types[t].scope = Global
  BY <1>3 DEF NoType
<1>5. \A t \in TypeIds : t \notin Natives => types[t] = NoType
  BY DEF Init, InitTables
<1>6. UserTypes \cap Natives = {}
  BY BoundsAssumption DEF UserTypes, FirstTypeId, Natives, VOID, BOOL, INT, FLOAT
<1>7. TypesWellFormed
  <2>1. \A t \in UserTypes : types[t] = NoType
    BY <1>5, <1>6 DEF TypeIds
  <2>2. ASSUME NEW t \in TypeIds, types[t] # NoType
        PROVE  types[t].kind = "native" /\ types[t].scope = Global /\ types[t].parts = {}
    BY <1>3, <1>5, <2>2
  <2> QED BY <1>1, <1>4, <2>1, <2>2 DEF TypesWellFormed
<1>8. TablesHoldTypes
  <2>1. \A x \in Idents : typeNameMap[Global][x] # NoTypeId => typeNameMap[Global][x] \in Natives
    BY <1>1 DEF Init, InitTables
  <2>2. \A s \in 1 .. nScopes : s = Global
    BY <1>1
  <2>3. \A x \in Idents : nameMap[Global][x] = NoName
    BY <1>1 DEF Init, InitTables, EmptyNames
  <2>4. \A s \in Scopes : s > nScopes => typeNameMap[s] = EmptyTypes
    BY <1>1 DEF Init, InitTables
  <2>5. \A t \in Natives : TypeIsVisible(Global, t)
    BY <1>1, <1>2, <1>7, NativesAreVisible
  <2> QED BY <2>1, <2>2, <2>3, <2>4, <2>5 DEF TablesHoldTypes
<1>9. RoutinesKnown
  <2>1. \A f \in Idents : funcMap[f] # NoFunc => funcMap[f] = [scope |-> 0, params |-> <<INT>>, ret |-> VOID]
    BY DEF Init, InitTables
  <2>2. TypeIsVisible(Global, INT)
    BY <1>1, <1>2, <1>7, NativesAreVisible DEF Natives
  <2> QED BY <2>1, <2>2 DEF RoutinesKnown
<1>10. InCurrentRoutine
  BY DEF Init, InCurrentRoutine, InRoutine
<1> QED BY <1>2, <1>7, <1>8, <1>9, <1>10 DEF TypesInv, TablesInv

\* Nothing.
LEMMA TablesKept ==
    ASSUME TablesInv, UNCHANGED <<scopeVars, nameVars, typeVars>>
    PROVE  TablesInv' /\ VisibleStays
<1>1. /\ nScopes' = nScopes /\ path' = path /\ nameMap' = nameMap
      /\ nTypes' = nTypes /\ typeNameMap' = typeNameMap /\ types' = types
  BY DEF scopeVars, nameVars, typeVars
<1> QED BY <1>1 DEF TablesInv, PathsNested, TypesWellFormed, TablesHoldTypes, TypeIsVisible, VisibleStays, VisibleNext

\* A variable of a visible type is defined in the current scope.
LEMMA NameDefined ==
    ASSUME Inv, TablesInv, NEW x \in Idents, NEW t \in TypeIds,
           DefineName(currentScope, x, t), TypeIsVisible(currentScope, t),
           UNCHANGED <<scopeVars, typeVars>>
    PROVE  TablesInv' /\ VisibleStays
<1> DEFINE new == NewName(nNames + 1, x, t, FALSE)
<1>1. /\ nScopes' = nScopes /\ path' = path
      /\ nTypes' = nTypes /\ typeNameMap' = typeNameMap /\ types' = types
  BY DEF scopeVars, typeVars
<1>2. nameMap' = [nameMap EXCEPT ![currentScope][x] = new] /\ new.type = t
  BY DEF DefineName, NewName
<1>3. nameMap \in [Scopes -> [Idents -> Name \cup {NoName}]]
  BY DEF Inv, TypeOK, TablesTypeOK
<1>4. VisibleStays /\ PathsNested' /\ TypesWellFormed'
  BY <1>1 DEF TablesInv, PathsNested, TypesWellFormed, TypeIsVisible, VisibleStays, VisibleNext
<1> HIDE DEF new
<1>5. ASSUME NEW s \in 1 .. nScopes, NEW y \in Idents, nameMap'[s][y] # NoName
      PROVE  TypeIsVisible(s, nameMap'[s][y].type)
  <2>1. s \in Scopes
    BY BoundsAssumption DEF Inv, TypeOK, TablesTypeOK, Scopes
  <2>2. CASE s = currentScope /\ y = x
    BY <1>2, <1>3, <2>1, <2>2
  <2>3. CASE ~(s = currentScope /\ y = x)
    <3>1. nameMap'[s][y] = nameMap[s][y]
      BY <1>2, <1>3, <2>1, <2>3
    <3> QED BY <1>5, <3>1 DEF TablesInv, TablesHoldTypes
  <2> QED BY <2>2, <2>3
<1>6. TablesHoldTypes'
  BY <1>1, <1>5 DEF TablesInv, TablesHoldTypes, TypeIsVisible
<1> QED BY <1>4, <1>6 DEF TablesInv

\* A type of visible parts is defined in the current scope.
LEMMA TypeDefined ==
    ASSUME Inv, TablesInv, NEW x \in Idents, NEW kind \in TypeKinds, NEW parts \in SUBSET TypeIds,
           DefineType(currentScope, x, kind, parts),
           \A u \in parts : TypeIsVisible(currentScope, u),
           kind # "record" => parts # {},
           UNCHANGED <<scopeVars, nameVars>>
    PROVE  TablesInv' /\ VisibleStays
<1> DEFINE id == FirstTypeId + nTypes
           new == [kind |-> kind, scope |-> currentScope, parts |-> parts]
<1>1. /\ nScopes' = nScopes /\ path' = path /\ nameMap' = nameMap
      /\ nTypes \in Nat /\ nTypes < MaxTypes /\ MaxTypes \in Nat /\ nTypes' = nTypes + 1
      /\ typeNameMap' = [typeNameMap EXCEPT ![currentScope][x] = id]
      /\ types' = [types EXCEPT ![id] = new]
  BY BoundsAssumption DEF DefineType, scopeVars, nameVars, Inv, TypeOK, TablesTypeOK
<1>2. /\ typeNameMap \in [Scopes -> [Idents -> TypeIds \cup {NoTypeId}]]
      /\ types \in [TypeIds -> Type \cup {NoType}] /\ currentScope \in Scopes
      /\ currentScope \in 1 .. nScopes /\ currentScope \in path[currentScope]
      /\ nScopes \in 1 .. MaxScopes /\ MaxScopes \in Nat
  BY EnteredBelow, BoundsAssumption DEF Inv, TypeOK, TablesTypeOK, Scopes
<1>3. id \in UserTypes /\ id \in TypeIds /\ id \notin Natives /\ types[id] = NoType
  <2>1. id \in UserTypes /\ id \notin Natives
    BY <1>1 DEF UserTypes, FirstTypeId, Natives, VOID, BOOL, INT, FLOAT
  <2> QED BY <1>1, <2>1 DEF TypeIds, TablesInv, TypesWellFormed, UserTypes, FirstTypeId
<1>4. new # NoType
  BY DEF NoType, TypeKinds
<1>5. \A t \in TypeIds : types[t] # NoType => t < id /\ t # id
  <2> SUFFICES ASSUME NEW t \in TypeIds, types[t] # NoType PROVE t < id /\ t # id
    OBVIOUS
  <2>1. CASE t \in Natives
    BY <1>1, <2>1 DEF Natives, FirstTypeId, VOID, BOOL, INT, FLOAT
  <2>2. CASE t \in UserTypes
    <3>1. ~(t >= id)
      BY <2>2 DEF TablesInv, TypesWellFormed
    <3> QED BY <1>1, <2>2, <3>1 DEF UserTypes, FirstTypeId
  <2> QED BY <2>1, <2>2 DEF TypeIds
<1> HIDE DEF new, id
<1>6. types'[id] = new /\ \A t \in TypeIds : t # id => types'[t] = types[t]
  BY <1>1, <1>2, <1>3
<1>7. VisibleStays
  BY <1>1, <1>5, <1>6 DEF VisibleStays, VisibleNext, TypeIsVisible
<1>8. VisibleNext(currentScope, id)
  <2>1. new.scope = currentScope
    BY DEF new
  <2>2. id \in TypeIds /\ types'[id] # NoType /\ types'[id].scope \in path'[currentScope]
    BY <1>1, <1>2, <1>3, <1>4, <1>6, <2>1
  <2> QED BY <2>2 DEF VisibleNext
<1>9. PathsNested'
  BY <1>1 DEF TablesInv, PathsNested
<1>10. TypesWellFormed'
  <2>1. \A t \in Natives : types'[t] # NoType /\ types'[t].scope = Global
    BY <1>3, <1>6 DEF TablesInv, TypesWellFormed, TypeIds
  <2>2. \A t \in UserTypes : t >= FirstTypeId + nTypes' => types'[t] = NoType
    BY <1>1, <1>6 DEF TablesInv, TypesWellFormed, TypeIds, UserTypes, FirstTypeId, id
  <2>3. ASSUME NEW t \in TypeIds, types'[t] # NoType, t # id
        PROVE  /\ types'[t].scope \in 1 .. nScopes'
               /\ types'[t].kind \notin {"native", "record"} => types'[t].parts # {}
               /\ \A u \in types'[t].parts : u < t /\ VisibleNext(types'[t].scope, u)
    <3>1. types'[t] = types[t] /\ types[t].scope \in 1 .. nScopes
      BY <1>6, <2>3 DEF TablesInv, TypesWellFormed
    <3>2. \A u \in types[t].parts : u \in TypeIds /\ u < t /\ TypeIsVisible(types[t].scope, u)
      BY <2>3, <3>1 DEF TablesInv, TypesWellFormed, TypeIsVisible
    <3>3. types[t].kind \notin {"native", "record"} => types[t].parts # {}
      BY <2>3, <3>1 DEF TablesInv, TypesWellFormed
    <3>4. \A u \in types[t].parts : u < t /\ VisibleNext(types[t].scope, u)
      BY <1>7, <3>1, <3>2 DEF VisibleStays
    <3> QED BY <1>1, <3>1, <3>3, <3>4
  <2>4. /\ types'[id].scope \in 1 .. nScopes'
        /\ types'[id].kind \notin {"native", "record"} => types'[id].parts # {}
        /\ \A u \in types'[id].parts : u < id /\ VisibleNext(types'[id].scope, u)
    <3>1. new.scope = currentScope /\ new.kind = kind /\ new.parts = parts
      BY DEF new
    <3>2. \A u \in parts : u < id /\ TypeIsVisible(currentScope, u)
      BY <1>5 DEF TypeIsVisible
    <3>3. \A u \in parts : u \in TypeIds /\ types'[u] = types[u]
      BY <1>5, <1>6, <3>2 DEF TypeIsVisible
    <3>4. types'[id].scope = currentScope
      BY <1>6, <3>1
    <3>5. \A u \in parts : VisibleNext(types'[id].scope, u)
      <4> SUFFICES ASSUME NEW u \in parts
                   PROVE  /\ u \in TypeIds /\ types'[u] # NoType
                          /\ types'[u].scope \in path'[currentScope]
        BY <3>4 DEF VisibleNext
      <4> QED BY <1>1, <3>2, <3>3 DEF TypeIsVisible
    <3> QED BY <1>1, <1>2, <1>6, <3>1, <3>2, <3>5
  <2> QED BY <2>1, <2>2, <2>3, <2>4 DEF TypesWellFormed, TypeIsVisible, VisibleNext
<1>11. TablesHoldTypes'
  <2>1. ASSUME NEW s \in 1 .. nScopes, NEW y \in Idents, typeNameMap'[s][y] # NoTypeId
        PROVE  VisibleNext(s, typeNameMap'[s][y])
    <3>1. s \in Scopes
      BY <1>2 DEF Scopes
    <3>2. CASE s = currentScope /\ y = x
      <4>1. typeNameMap'[s][y] = id
        BY <1>1, <1>2, <3>1, <3>2
      <4> QED BY <1>8, <3>2, <4>1
    <3>3. CASE ~(s = currentScope /\ y = x)
      <4>1. typeNameMap'[s][y] = typeNameMap[s][y]
        BY <1>1, <1>2, <3>1, <3>3
      <4>2. TypeIsVisible(s, typeNameMap[s][y])
        BY <2>1, <4>1 DEF TablesInv, TablesHoldTypes
      <4> DEFINE t == typeNameMap[s][y]
      <4>3. t \in TypeIds /\ TypeIsVisible(s, t)
        BY <4>2 DEF TypeIsVisible
      <4> HIDE DEF t
      <4>4. VisibleNext(s, t)
        BY <1>7, <4>3 DEF VisibleStays
      <4> QED BY <4>1, <4>4 DEF t
    <3> QED BY <3>2, <3>3
  <2>2. ASSUME NEW s \in 1 .. nScopes, NEW y \in Idents, nameMap'[s][y] # NoName
        PROVE  VisibleNext(s, nameMap'[s][y].type)
    <3> DEFINE t == nameMap[s][y].type
    <3>1. TypeIsVisible(s, t)
      BY <1>1, <2>2 DEF TablesInv, TablesHoldTypes
    <3>2. t \in TypeIds
      BY <3>1 DEF TypeIsVisible
    <3> HIDE DEF t
    <3>3. VisibleNext(s, t)
      BY <1>7, <3>1, <3>2 DEF VisibleStays
    <3> QED BY <1>1, <3>3 DEF t
  <2>3. \A s \in Scopes : s > nScopes' => typeNameMap'[s] = EmptyTypes
    BY <1>1, <1>2 DEF TablesInv, TablesHoldTypes
  <2> QED BY <1>1, <2>1, <2>2, <2>3 DEF TablesHoldTypes, TypeIsVisible, VisibleNext
<1> QED BY <1>7, <1>9, <1>10, <1>11 DEF TablesInv

\* A scope is created whose names are of types that are visible everywhere.
LEMMA ScopeCreated ==
    ASSUME Inv, TablesInv, NEW p \in 1 .. nScopes, NEW names \in [Idents -> Name \cup {NoName}],
           \A x \in Idents : names[x] # NoName => TypeIsVisible(Global, names[x].type),
           AttachScope(p, names), UNCHANGED typeVars
    PROVE  /\ TablesInv' /\ VisibleStays
           /\ \A s \in 1 .. nScopes : parent'[s] = parent[s]
           /\ parent'[nScopes + 1] = p
<1> DEFINE c == nScopes + 1
<1>1. /\ nTypes' = nTypes /\ typeNameMap' = typeNameMap /\ types' = types
      /\ nScopes < MaxScopes /\ nScopes' = c
      /\ parent' = [parent EXCEPT ![c] = p]
      /\ path' = [path EXCEPT ![c] = path[p] \cup {c}]
      /\ nameMap' = [nameMap EXCEPT ![c] = names]
  BY DEF AttachScope, NextScope, typeVars
<1>2. /\ nScopes \in 1 .. MaxScopes /\ MaxScopes \in Nat
      /\ parent \in [Scopes -> 0 .. MaxScopes] /\ path \in [Scopes -> SUBSET Scopes]
      /\ nameMap \in [Scopes -> [Idents -> Name \cup {NoName}]]
  BY BoundsAssumption DEF Inv, TypeOK, TablesTypeOK, Scopes
<1>3. c \in Scopes /\ c \notin 1 .. nScopes /\ 1 .. nScopes' = (1 .. nScopes) \cup {c}
      /\ 1 .. nScopes \subseteq Scopes /\ Global \in 1 .. nScopes
  BY <1>1, <1>2 DEF Scopes, Global
<1> HIDE DEF c
<1>4. /\ \A s \in 1 .. nScopes : /\ parent'[s] = parent[s] /\ path'[s] = path[s]
                                 /\ nameMap'[s] = nameMap[s]
      /\ parent'[c] = p /\ path'[c] = path[p] \cup {c} /\ nameMap'[c] = names
  BY <1>1, <1>2, <1>3
<1>5. \A s \in 1 .. nScopes : path[s] \subseteq 1 .. nScopes
  <2>1. \A s \in 1 .. nScopes : path[s] \subseteq 1 .. s
    BY DEF Inv, PathsWellFormed
  <2> QED BY <1>2, <2>1
<1>6. PathsNested'
  <2>1. path'[Global] = {Global}
    BY <1>3, <1>4 DEF TablesInv, PathsNested
  <2>2. ASSUME NEW d \in 1 .. nScopes', NEW s \in path'[d] PROVE path'[s] \subseteq path'[d]
    <3>1. CASE d \in 1 .. nScopes
      <4>1. s \in path[d] /\ s \in 1 .. nScopes
        BY <1>4, <1>5, <2>2, <3>1
      <4>2. path[s] \subseteq path[d]
        BY <3>1, <4>1 DEF TablesInv, PathsNested
      <4> QED BY <1>4, <3>1, <4>1, <4>2
    <3>2. CASE d = c
      <4>1. CASE s = c
        BY <3>2, <4>1
      <4>2. CASE s # c
        <5>1. s \in path[p] /\ s \in 1 .. nScopes
          BY <1>4, <1>5, <2>2, <3>2, <4>2
        <5>2. path[s] \subseteq path[p]
          BY <5>1 DEF TablesInv, PathsNested
        <5> QED BY <1>4, <3>2, <5>1, <5>2
      <4> QED BY <4>1, <4>2
    <3> QED BY <1>3, <3>1, <3>2
  <2>3. ASSUME NEW d \in 1 .. nScopes' PROVE Global \in path'[d]
    <3>1. \A s \in 1 .. nScopes : Global \in path[s]
      BY DEF TablesInv, PathsNested
    <3> QED BY <1>3, <1>4, <3>1
  <2> QED BY <2>1, <2>2, <2>3 DEF PathsNested
<1>7. VisibleStays
  BY <1>1, <1>4 DEF VisibleStays, VisibleNext, TypeIsVisible
<1>8. TypesWellFormed'
  <2>1. ASSUME NEW t \in TypeIds, types[t] # NoType
        PROVE  /\ types[t].scope \in 1 .. nScopes'
               /\ types[t].kind \notin {"native", "record"} => types[t].parts # {}
               /\ \A u \in types[t].parts : u < t /\ VisibleNext(types[t].scope, u)
    <3>1. /\ types[t].scope \in 1 .. nScopes
          /\ types[t].kind \notin {"native", "record"} => types[t].parts # {}
          /\ \A u \in types[t].parts : u \in TypeIds /\ u < t /\ TypeIsVisible(types[t].scope, u)
      BY <2>1 DEF TablesInv, TypesWellFormed, TypeIsVisible
    <3> QED BY <1>3, <1>7, <3>1 DEF VisibleStays
  <2>2. /\ \A t \in Natives : types[t] # NoType /\ types[t].scope = Global
        /\ \A t \in UserTypes : t >= FirstTypeId + nTypes => types[t] = NoType
    BY DEF TablesInv, TypesWellFormed
  <2> QED BY <1>1, <2>1, <2>2 DEF TypesWellFormed, TypeIsVisible, VisibleNext
<1>9. TablesHoldTypes'
  <2>1. ASSUME NEW s \in 1 .. nScopes', NEW x \in Idents, typeNameMap[s][x] # NoTypeId
        PROVE  VisibleNext(s, typeNameMap[s][x])
    <3>1. CASE s = c
      <4>1. typeNameMap[c] = EmptyTypes
        BY <1>1, <1>2, <1>3 DEF TablesInv, TablesHoldTypes, c
      <4> QED BY <2>1, <3>1, <4>1 DEF EmptyTypes
    <3>2. CASE s \in 1 .. nScopes
      <4>1. TypeIsVisible(s, typeNameMap[s][x])
        BY <2>1, <3>2 DEF TablesInv, TablesHoldTypes
      <4> QED BY <1>7, <3>2, <4>1 DEF VisibleStays, TypeIsVisible
    <3> QED BY <1>3, <3>1, <3>2
  <2>2. ASSUME NEW s \in 1 .. nScopes', NEW x \in Idents, nameMap'[s][x] # NoName
        PROVE  VisibleNext(s, nameMap'[s][x].type)
    <3>1. CASE s = c
      <4>1. TypeIsVisible(Global, names[x].type)
        BY <1>4, <2>2, <3>1
      <4>2. /\ names[x].type \in TypeIds /\ types[names[x].type] # NoType
            /\ types[names[x].type].scope = Global
        BY <4>1 DEF TypeIsVisible, TablesInv, PathsNested
      <4>3. Global \in path'[c]
        BY <1>3, <1>6 DEF PathsNested
      <4> QED BY <1>1, <1>4, <3>1, <4>2, <4>3 DEF VisibleNext
    <3>2. CASE s \in 1 .. nScopes
      <4>1. nameMap'[s][x] = nameMap[s][x]
        BY <1>4, <3>2
      <4>2. TypeIsVisible(s, nameMap[s][x].type)
        BY <2>2, <3>2, <4>1 DEF TablesInv, TablesHoldTypes
      <4> QED BY <1>7, <3>2, <4>1, <4>2 DEF VisibleStays, TypeIsVisible
    <3> QED BY <1>3, <3>1, <3>2
  <2>3. \A s \in Scopes : s > nScopes' => typeNameMap[s] = EmptyTypes
    BY <1>1, <1>2 DEF TablesInv, TablesHoldTypes, c, Scopes
  <2> QED BY <1>1, <2>1, <2>2, <2>3 DEF TablesHoldTypes, TypeIsVisible, VisibleNext
<1> QED BY <1>4, <1>6, <1>7, <1>8, <1>9 DEF TablesInv, c

\* The routines that were declared before a step are as good after it.
LEMMA RoutinesKept ==
    ASSUME Inv, RoutinesKnown, VisibleStays, UNCHANGED funcMap, nScopes' \in Nat, nScopes <= nScopes',
           \A s \in 1 .. nScopes : parent'[s] = parent[s]
    PROVE  RoutinesKnown'
<1>1. nScopes \in Nat /\ Global \in 1 .. nScopes
  BY DEF Inv, TypeOK, TablesTypeOK, Scopes, Global
<1>2. ASSUME NEW f \in Idents, funcMap[f] # NoFunc
      PROVE  /\ funcMap[f].scope # 0 => /\ funcMap[f].scope \in 2 .. nScopes'
                                        /\ parent'[funcMap[f].scope] = Global
             /\ \A i \in DOMAIN funcMap[f].params : VisibleNext(Global, funcMap[f].params[i])
  <2>1. /\ funcMap[f].scope # 0 => /\ funcMap[f].scope \in 2 .. nScopes
                                   /\ parent[funcMap[f].scope] = Global
        /\ \A i \in DOMAIN funcMap[f].params : TypeIsVisible(Global, funcMap[f].params[i])
    BY <1>2 DEF RoutinesKnown
  <2>2. \A i \in DOMAIN funcMap[f].params : VisibleNext(Global, funcMap[f].params[i])
    BY <1>1, <2>1 DEF VisibleStays, TypeIsVisible
  <2> QED BY <1>1, <2>1, <2>2
<1> QED BY <1>2 DEF RoutinesKnown, TypeIsVisible, VisibleNext

-----------------------------------------------------------------------------
(* Every step keeps the invariant.                                         *)

\* A step that leaves the scopes and the routine alone, once its tables are known to be good.
LEMMA SameRoutine ==
    ASSUME Inv, TypesInv, TablesInv', VisibleStays,
           UNCHANGED <<scopeVars, funcMap, stack, currentFunction>>
    PROVE  TypesInv'
<1>1. nScopes' = nScopes /\ parent' = parent /\ nScopes \in Nat
  BY DEF scopeVars, Inv, TypeOK, TablesTypeOK, Scopes
<1>2. RoutinesKnown'
  BY <1>1, RoutinesKept DEF TypesInv
<1> QED BY <1>2 DEF TypesInv, InCurrentRoutine, InRoutine

\* A step that changes no table and no body.
LEMMA QuietKeepsTypes ==
    ASSUME Inv, TypesInv, UNCHANGED <<tableVars, stack, currentFunction>>
    PROVE  TypesInv'
<1>1. UNCHANGED <<scopeVars, nameVars, typeVars>>
  BY DEF tableVars
<1> QED BY <1>1, TablesKept, SameRoutine DEF TypesInv, tableVars

\* The process ends, or a node is skipped.
LEMMA AbortKeepsTypes == ASSUME Inv, TypesInv, AbortProcess \/ SkipNode PROVE TypesInv'
  BY QuietKeepsTypes DEF AbortProcess, SkipNode

\* The type of a declaration was found from the scope that it is declared in.
LEMMA DeclareTypedVariableKeepsTypes ==
    ASSUME Inv, TypesInv, NEW x \in Declared, NEW T \in TypeIdents, NEW e \in Exprs,
           DeclareTypedVariable(x, T, e)
    PROVE  TypesInv'
<1> DEFINE t == LookupType(currentScope, T)
<1>1. x \in Idents /\ T \in Idents /\ currentScope \in 1 .. nScopes
  BY ProgramAssumption, EnteredBelow
<1>2. CASE t = NoTypeId
  BY <1>2, AbortKeepsTypes DEF DeclareTypedVariable
<1>3. CASE t # NoTypeId
  <2>1. TypeIsVisible(currentScope, t)
    BY <1>1, <1>3, LookupTypeIsVisible DEF TypesInv
  <2>2. /\ DefineName(currentScope, x, t)
        /\ UNCHANGED <<scopeVars, typeVars, funcMap, stack, currentFunction>>
    BY <1>3 DEF DeclareTypedVariable
  <2> HIDE DEF t
  <2>3. TablesInv' /\ VisibleStays
    BY <1>1, <2>1, <2>2, NameDefined DEF TypesInv, TypeIsVisible
  <2> QED BY <2>2, <2>3, SameRoutine
<1> QED BY <1>2, <1>3

\* An inferred type is looked up by its id before it is used.
LEMMA DeclareInferredVariableKeepsTypes ==
    ASSUME Inv, TypesInv, NEW x \in Declared, NEW e \in Exprs, DeclareInferredVariable(x, e)
    PROVE  TypesInv'
<1>1. x \in Idents
  BY ProgramAssumption
<1>2. PICK t : \/ AbortProcess \/ SkipNode
               \/ /\ TypeIsVisible(currentScope, t)
                  /\ DefineName(currentScope, x, t)
                  /\ UNCHANGED <<scopeVars, typeVars, funcMap, stack, currentFunction>>
  BY DEF DeclareInferredVariable
<1>3. CASE /\ TypeIsVisible(currentScope, t)
           /\ DefineName(currentScope, x, t)
           /\ UNCHANGED <<scopeVars, typeVars, funcMap, stack, currentFunction>>
  <2>1. TablesInv' /\ VisibleStays
    BY <1>1, <1>3, NameDefined DEF TypesInv, TypeIsVisible
  <2> QED BY <1>3, <2>1, SameRoutine
<1> QED BY <1>2, <1>3, AbortKeepsTypes

\* The parts of a type were found from its scope, and before it got its id.
LEMMA DeclareTypeKeepsTypes ==
    ASSUME Inv, TypesInv, NEW def \in TypeDefs, DeclareType(def)
    PROVE  TypesInv'
<1> DEFINE parts == {LookupType(currentScope, y) : y \in def.parts}
<1>1. /\ def.ident \in Idents /\ def.kind \in TypeKinds /\ def.parts \subseteq Idents
      /\ def.kind # "record" => def.parts # {}
      /\ currentScope \in 1 .. nScopes
  BY ProgramAssumption, EnteredBelow DEF TypeDef
<1>2. CASE AbortProcess \/ SkipNode
  BY <1>2, AbortKeepsTypes
<1>3. CASE ~(AbortProcess \/ SkipNode)
  <2>1. /\ NoTypeId \notin parts
        /\ DefineType(currentScope, def.ident, def.kind, parts)
        /\ UNCHANGED <<scopeVars, nameVars, funcMap, stack, currentFunction>>
    BY <1>3 DEF DeclareType
  <2>2. \A u \in parts : TypeIsVisible(currentScope, u)
    <3> SUFFICES ASSUME NEW y \in def.parts PROVE TypeIsVisible(currentScope, LookupType(currentScope, y))
      OBVIOUS
    <3>1. y \in Idents /\ LookupType(currentScope, y) # NoTypeId
      BY <1>1, <2>1
    <3> QED BY <1>1, <3>1, LookupTypeIsVisible DEF TypesInv
  <2>3. def.kind # "record" => parts # {}
    BY <1>1
  <2> HIDE DEF parts
  <2>4. parts \in SUBSET TypeIds
    BY <2>2 DEF TypeIsVisible
  <2>5. TablesInv' /\ VisibleStays
    BY <1>1, <2>1, <2>2, <2>3, <2>4, TypeDefined DEF TypesInv
  <2> QED BY <2>1, <2>5, SameRoutine
<1> QED BY <1>2, <1>3

\* A body below the innermost one.
LEMMA OpenKeepsTypes ==
    ASSUME Inv, Inv', TypesInv, stack # <<>>, NEW kind \in BodyKinds,
           NEW names \in [Idents -> Name \cup {NoName}],
           \A x \in Idents : names[x] # NoName => TypeIsVisible(Global, names[x].type),
           EnterInnerScope(names),
           stack' = Append(stack, [kind |-> kind, scope |-> NextScope]),
           UNCHANGED <<typeVars, funcMap, currentFunction>>
    PROVE  TypesInv'
<1>1. /\ AttachScope(currentScope, names) /\ currentScope \in 1 .. nScopes
      /\ nScopes' = nScopes + 1 /\ nScopes \in Nat
  BY EnteredBelow DEF EnterInnerScope, AttachScope, NextScope, Inv, TypeOK, TablesTypeOK, Scopes
<1>2. TablesInv' /\ VisibleStays /\ \A s \in 1 .. nScopes : parent'[s] = parent[s]
  BY <1>1, ScopeCreated DEF TypesInv
<1>3. RoutinesKnown'
  BY <1>1, <1>2, RoutinesKept DEF TypesInv
<1>4. stack' # <<>> /\ stack'[1] = stack[1]
  BY EmptySeq DEF Inv, TypeOK
<1> QED BY <1>2, <1>3, <1>4 DEF TypesInv, InCurrentRoutine, InRoutine

\* The counter of a for loop is an int, which every scope can see.
LEMMA OpenForKeepsTypes ==
    ASSUME Inv, Inv', TypesInv, NEW x \in Declared, NEW lo \in Exprs, NEW hi \in Exprs,
           OpenFor(x, lo, hi)
    PROVE  TypesInv'
<1> DEFINE counter == NewName(nNames + 1, x, INT, FALSE)
           names == [EmptyNames EXCEPT ![x] = counter]
<1>1. \/ AbortProcess \/ SkipNode
      \/ /\ nNames < MaxNames /\ stack # <<>>
         /\ EnterInnerScope(names)
         /\ stack' = Append(stack, [kind |-> "for", scope |-> NextScope])
         /\ UNCHANGED <<typeVars, funcMap, currentFunction>>
  BY DEF OpenFor, BlockStatement, OpenBody, InRoutine
<1>2. ASSUME nNames < MaxNames
      PROVE  /\ names \in [Idents -> Name \cup {NoName}]
             /\ \A y \in Idents : names[y] # NoName => TypeIsVisible(Global, names[y].type)
  <2>1. x \in Idents /\ nNames + 1 \in 1 .. MaxNames /\ INT \in TypeIds /\ INT \in Natives
    BY <1>2, ProgramAssumption, BoundsAssumption DEF Inv, TypeOK, TablesTypeOK, TypeIds, Natives
  <2>2. counter \in Name /\ counter.type = INT
    BY <2>1 DEF NewName, Name
  <2>3. Global \in 1 .. nScopes
    BY DEF Inv, TypeOK, TablesTypeOK, Scopes, Global
  <2>4. TypeIsVisible(Global, INT)
    BY <2>1, <2>3, NativesAreVisible DEF TypesInv, TablesInv
  <2> HIDE DEF counter
  <2> QED BY <2>1, <2>2, <2>4 DEF EmptyNames
<1> HIDE DEF names
<1> QED BY <1>1, <1>2, AbortKeepsTypes, OpenKeepsTypes DEF BodyKinds

\* A false body replaces the true body of its statement, never a routine.
LEMMA OpenElseKeepsTypes ==
    ASSUME Inv, Inv', TypesInv, OpenElse
    PROVE  TypesInv'
<1>1. /\ stack # <<>> /\ AttachScope(parent[currentScope], EmptyNames)
      /\ stack[Len(stack)].kind = "then"
      /\ stack' = [stack EXCEPT ![Len(stack)] = [kind |-> "else", scope |-> NextScope]]
      /\ UNCHANGED <<typeVars, funcMap, currentFunction>>
  BY DEF OpenElse, InRoutine, Top
<1>2. parent[currentScope] \in 1 .. nScopes
  <2>1. parent[currentScope] \in path[currentScope] /\ currentScope \in 1 .. nScopes
    BY <1>1, EnteredBelow, EnteredBeside
  <2>2. path[currentScope] \subseteq 1 .. currentScope /\ nScopes \in Nat
    BY <2>1 DEF Inv, PathsWellFormed, TypeOK, TablesTypeOK, Scopes
  <2>3. parent[currentScope] \in 1 .. currentScope
    BY <2>1, <2>2
  <2> QED BY <2>1, <2>2, <2>3
<1>3. /\ EmptyNames \in [Idents -> Name \cup {NoName}]
      /\ \A x \in Idents : EmptyNames[x] = NoName
      /\ nScopes' = nScopes + 1 /\ nScopes \in Nat
  BY <1>1 DEF EmptyNames, AttachScope, NextScope, Inv, TypeOK, TablesTypeOK, Scopes
<1>4. TablesInv' /\ VisibleStays /\ \A s \in 1 .. nScopes : parent'[s] = parent[s]
  BY <1>1, <1>2, <1>3, ScopeCreated DEF TypesInv
<1>5. RoutinesKnown'
  BY <1>1, <1>3, <1>4, RoutinesKept DEF TypesInv
<1>6. stack'[1] = stack[1]
  <2>1. stack \in Seq(Frame) /\ Len(stack) \in Nat \ {0}
    BY <1>1, EmptySeq DEF Inv, TypeOK
  <2>2. stack[1].kind = "routine"
    BY <1>1 DEF TypesInv, InCurrentRoutine, InRoutine
  <2>3. Len(stack) # 1
    BY <1>1, <2>2
  <2> QED BY <1>1, <2>1, <2>3
<1> QED BY <1>1, <1>4, <1>5, <1>6 DEF TypesInv, InCurrentRoutine, InRoutine

\* Leaving a body leaves the routine current that it is part of.
LEMMA CloseBodyKeepsTypes ==
    ASSUME Inv, Inv', TypesInv, CloseBody
    PROVE  TypesInv'
<1>1. /\ stack # <<>> /\ UNCHANGED <<scopeVars, nameVars, typeVars, funcMap, currentFunction>>
      /\ stack' = SubSeq(stack, 1, Len(stack) - 1)
  BY DEF CloseBody, InRoutine
<1>2. TablesInv' /\ VisibleStays
  BY <1>1, TablesKept DEF TypesInv
<1>3. nScopes' = nScopes /\ parent' = parent /\ nScopes \in Nat
  BY <1>1 DEF scopeVars, Inv, TypeOK, TablesTypeOK, Scopes
<1>4. RoutinesKnown'
  BY <1>1, <1>2, <1>3, RoutinesKept DEF TypesInv
<1>5. stack' # <<>> => stack'[1] = stack[1]
  <2> DEFINE m == Len(stack) - 1
  <2>1. /\ stack \in Seq(Frame) /\ m \in Int /\ m \in Nat /\ 1 \in Int
        /\ \A i \in 1 .. m : stack[i] \in Frame
    BY <1>1, EmptySeq DEF Inv, TypeOK
  <2>2. stack' = SubSeq(stack, 1, m)
    BY <1>1
  <2> HIDE DEF m
  <2>3. /\ SubSeq(stack, 1, m) \in Seq(Frame)
        /\ Len(SubSeq(stack, 1, m)) = IF 1 <= m THEN m - 1 + 1 ELSE 0
        /\ \A i \in 1 .. m - 1 + 1 : SubSeq(stack, 1, m)[i] = stack[1 + i - 1]
    BY <2>1, SubSeqProperties
  <2> QED BY <2>1, <2>2, <2>3
<1> QED BY <1>1, <1>2, <1>4, <1>5 DEF TypesInv, InCurrentRoutine, InRoutine

\* A routine gets a scope below the global one, and parameters of global types.
LEMMA OpenRoutineKeepsTypes ==
    ASSUME Inv, Inv', TypesInv, NEW f \in Routines, NEW params \in ParamLists,
           NEW R \in TypeIdents \cup {NoIdent}, OpenRoutine(f, params, R)
    PROVE  TypesInv'
<1> DEFINE paramTypes == [i \in DOMAIN params |-> LookupType(Global, params[i].type)]
           ret == IF R = NoIdent THEN VOID ELSE LookupType(Global, R)
           func == [scope |-> NextScope, params |-> paramTypes, ret |-> ret]
           names == ParamNames(params)
<1>1. /\ params \in Seq(Param) /\ f \in Idents /\ Global \in 1 .. nScopes
      /\ nScopes \in Nat /\ funcMap \in [Idents -> Func \cup {NoFunc}]
  BY ProgramAssumption DEF Inv, TypeOK, TablesTypeOK, Scopes, Global
<1>2. \/ AbortProcess
      \/ /\ \A i \in DOMAIN params : LookupType(Global, params[i].type) # NoTypeId
         /\ stack = <<>>
         /\ nNames + Len(params) <= MaxNames
         /\ EnterInnerScope(names)
         /\ funcMap' = [funcMap EXCEPT ![f] = func]
         /\ currentFunction' = func
         /\ stack' = <<[kind |-> "routine", scope |-> NextScope]>>
         /\ UNCHANGED typeVars
  BY DEF OpenRoutine, InRoutine
<1>3. ASSUME \A i \in DOMAIN params : LookupType(Global, params[i].type) # NoTypeId,
             stack = <<>>,
             nNames + Len(params) <= MaxNames,
             EnterInnerScope(names),
             funcMap' = [funcMap EXCEPT ![f] = func],
             currentFunction' = func,
             stack' = <<[kind |-> "routine", scope |-> NextScope]>>,
             UNCHANGED typeVars
      PROVE  TypesInv'
  <2>1. names \in [Idents -> Name \cup {NoName}]
    BY <1>1, <1>3, ParamNamesType DEF Inv
  <2>2. \A i \in DOMAIN params : TypeIsVisible(Global, LookupType(Global, params[i].type))
    <3> SUFFICES ASSUME NEW i \in DOMAIN params
                 PROVE  TypeIsVisible(Global, LookupType(Global, params[i].type))
      OBVIOUS
    <3>1. params[i] \in Param
      BY <1>1
    <3>2. params[i].type \in Idents
      BY <3>1 DEF Param
    <3> QED BY <1>1, <1>3, <3>2, LookupTypeIsVisible DEF TypesInv
  <2>3. ASSUME NEW x \in Idents, names[x] # NoName
        PROVE  TypeIsVisible(Global, names[x].type)
    <3> DEFINE at == {i \in DOMAIN params : params[i].ident = x}
    <3>1. /\ at # {}
          /\ names[x] = NewName(nNames + Innermost(at), x,
                                LookupType(Global, params[Innermost(at)].type), TRUE)
      BY <2>3 DEF ParamNames
    <3>2. at \in SUBSET (1 .. Len(params)) /\ Len(params) \in Nat
      BY <1>1
    <3>3. at \subseteq DOMAIN params
      OBVIOUS
    <3> HIDE DEF at, names
    <3>4. Innermost(at) \in at
      BY <3>1, <3>2, InnermostIsGreatest
    <3>5. names[x].type = LookupType(Global, params[Innermost(at)].type)
      BY <3>1 DEF NewName
    <3> QED BY <2>2, <3>3, <3>4, <3>5
  <2> HIDE DEF names
  <2>4. currentScope = Global
    BY <1>3 DEF Inv, OpenBodies, BodyScope
  <2>5. AttachScope(Global, names) /\ nScopes' = nScopes + 1 /\ NextScope = nScopes + 1
    BY <1>3, <2>4 DEF EnterInnerScope, AttachScope, NextScope
  <2>6. /\ TablesInv' /\ VisibleStays /\ parent'[nScopes + 1] = Global
        /\ \A s \in 1 .. nScopes : parent'[s] = parent[s]
    BY <1>1, <1>3, <2>1, <2>3, <2>5, ScopeCreated DEF TypesInv
  <2>7. func.scope = nScopes + 1 /\ func.params = paramTypes
    BY <2>5
  <2>8. \A i \in DOMAIN paramTypes : VisibleNext(Global, paramTypes[i])
    BY <1>1, <2>2, <2>6 DEF VisibleStays, TypeIsVisible
  <2> HIDE DEF func, paramTypes
  <2>9. ASSUME NEW g \in Idents, funcMap'[g] # NoFunc
        PROVE  /\ funcMap'[g].scope # 0 => /\ funcMap'[g].scope \in 2 .. nScopes'
                                           /\ parent'[funcMap'[g].scope] = Global
               /\ \A i \in DOMAIN funcMap'[g].params : VisibleNext(Global, funcMap'[g].params[i])
    <3>1. CASE g = f
      <4>1. funcMap'[g] = func
        BY <1>1, <1>3, <3>1
      <4>2. nScopes + 1 \in 2 .. nScopes'
        BY <1>1, <2>5
      <4> QED BY <2>6, <2>7, <2>8, <4>1, <4>2
    <3>2. CASE g # f
      <4>1. funcMap'[g] = funcMap[g]
        BY <1>1, <1>3, <3>2
      <4>2. /\ funcMap[g].scope # 0 => /\ funcMap[g].scope \in 2 .. nScopes
                                       /\ parent[funcMap[g].scope] = Global
            /\ \A i \in DOMAIN funcMap[g].params : TypeIsVisible(Global, funcMap[g].params[i])
        BY <2>9, <4>1 DEF TypesInv, RoutinesKnown
      <4>3. \A i \in DOMAIN funcMap[g].params : VisibleNext(Global, funcMap[g].params[i])
        BY <1>1, <2>6, <4>2 DEF VisibleStays, TypeIsVisible
      <4> QED BY <1>1, <2>5, <2>6, <4>1, <4>2, <4>3
    <3> QED BY <3>1, <3>2
  <2>10. RoutinesKnown'
    BY <2>9 DEF RoutinesKnown, TypeIsVisible, VisibleNext
  <2>11. InCurrentRoutine'
    BY <1>3, <2>5, <2>7 DEF InCurrentRoutine
  <2> QED BY <2>6, <2>10, <2>11 DEF TypesInv
<1> QED BY <1>2, <1>3, AbortKeepsTypes

\* Every step keeps the invariant.
LEMMA NextKeepsTypes == Inv /\ Inv' /\ TypesInv /\ [Next]_vars => TypesInv'
<1> SUFFICES ASSUME Inv, Inv', TypesInv, [Next]_vars PROVE TypesInv'
  OBVIOUS
<1>1. CASE Declaration
  BY <1>1, AbortKeepsTypes, DeclareTypedVariableKeepsTypes, DeclareInferredVariableKeepsTypes,
     DeclareTypeKeepsTypes DEF Declaration, DeclareGlobalVariable
<1>2. ASSUME NEW outcomes, NEW X, SimpleStatement(outcomes, X) PROVE TypesInv'
  BY <1>2, AbortKeepsTypes, QuietKeepsTypes DEF SimpleStatement
<1>3. ASSUME NEW e \in Exprs, OpenIf(e) \/ OpenWhile(e) PROVE TypesInv'
  <2>1. \/ AbortProcess \/ SkipNode
        \/ \E kind \in {"then", "while"} :
              /\ stack # <<>> /\ EnterInnerScope(EmptyNames)
              /\ stack' = Append(stack, [kind |-> kind, scope |-> NextScope])
              /\ UNCHANGED <<typeVars, funcMap, currentFunction>>
    BY <1>3 DEF OpenIf, OpenWhile, BlockStatement, OpenBody, InRoutine
  <2>2. /\ EmptyNames \in [Idents -> Name \cup {NoName}]
        /\ \A x \in Idents : EmptyNames[x] = NoName
    BY DEF EmptyNames
  <2> QED BY <2>1, <2>2, AbortKeepsTypes, OpenKeepsTypes DEF BodyKinds
<1>4. CASE Statement
  BY <1>2, <1>3, <1>4, OpenForKeepsTypes DEF Statement, Assign, CallStatement, Return
<1>5. CASE RoutineDeclaration
  BY <1>5, OpenRoutineKeepsTypes DEF RoutineDeclaration
<1>6. CASE EndProgram \/ UNCHANGED vars
  BY <1>6, QuietKeepsTypes DEF EndProgram, vars
<1> QED BY <1>1, <1>4, <1>5, <1>6, OpenElseKeepsTypes, CloseBodyKeepsTypes DEF Next

\* The invariant holds of every program.
LEMMA TypesInvHolds == Spec => []TypesInv
<1> QED BY InitTypes, NextKeepsTypes, InvHolds, PTL DEF Spec

(***************************************************************************)
(* A return statement is checked against the routine whose body it is in,  *)
(* and every routine a call can reach has a scope directly inside the      *)
(* global one and parameter types that a caller anywhere can look up.      *)
(***************************************************************************)
THEOREM RoutinesAreWellFormed == Spec => []RoutinesWellFormed
<1>1. TypesInv => RoutinesWellFormed
  BY DEF TypesInv, RoutinesKnown, InCurrentRoutine, RoutinesWellFormed
<1> QED BY <1>1, TypesInvHolds, PTL

-----------------------------------------------------------------------------
(* The walk over the base types.                                           *)

\* One level of the recursion of FindNativeBaseType, g standing for the recursive calls.
BaseStep(g, s, u) ==
    IF ~TypeIsVisible(s, u) THEN UnknownType
    ELSE CASE types[u].kind = "record" -> -1
           [] types[u].kind = "native" -> u
           [] OTHER -> g[CHOOSE b \in types[u].parts : TRUE]

BaseResults == TypeIds \cup {-1, UnknownType}

\* The base of a type that the walk meets is met earlier and can be seen as well.
LEMMA BaseIsBelow ==
    ASSUME TablesInv, NEW s \in 1 .. nScopes, NEW u \in TypeIds, TypeIsVisible(s, u),
           types[u].kind \notin {"native", "record"}
    PROVE  LET b == CHOOSE b \in types[u].parts : TRUE IN
           b \in TypeIds /\ b < u /\ TypeIsVisible(s, b)
<1> DEFINE b == CHOOSE b \in types[u].parts : TRUE
<1>1. types[u] # NoType /\ types[u].scope \in path[s]
  BY DEF TypeIsVisible
<1>2. b \in types[u].parts
  BY <1>1 DEF TablesInv, TypesWellFormed
<1>3. b < u /\ TypeIsVisible(types[u].scope, b)
  BY <1>1, <1>2 DEF TablesInv, TypesWellFormed
<1> HIDE DEF b
<1>4. TypeIsVisible(s, b)
  BY <1>1, <1>3, VisibleInside DEF TablesInv
<1> QED BY <1>3, <1>4 DEF b, TypeIsVisible

(***************************************************************************)
(* The recursion has a solution: one for the types below n extends to the  *)
(* n-th, because the walk only goes to earlier types.                      *)
(***************************************************************************)
LEMMA BaseWalkExists ==
    ASSUME TablesInv, NEW s \in 1 .. nScopes
    PROVE  \E g : g = [u \in TypeIds |-> BaseStep(g, s, u)]
<1> DEFINE Solves(g, n) == \A u \in TypeIds : u < n => g[u] = BaseStep(g, s, u)
           R == OpToRel(<, Nat)
           T == {n \in Nat : ~\E g \in [TypeIds -> BaseResults] : Solves(g, n)}
<1>1. TypeIds \subseteq Nat
  BY BoundsAssumption DEF TypeIds, Natives, VOID, BOOL, INT, FLOAT, UserTypes, FirstTypeId
<1>2. ASSUME T # {} PROVE FALSE
  <2>1. PICK n \in T : \A m \in T : ~(<<m, n>> \in R)
    <3>1. T \subseteq Nat
      OBVIOUS
    <3> HIDE DEF R, T
    <3> QED BY <1>2, <3>1, NatLessThanWellFounded, WFMin DEF R
  <2>2. \A m \in T : ~(m < n)
    <3>1. T \subseteq Nat
      OBVIOUS
    <3> HIDE DEF T
    <3> QED BY <2>1, <3>1 DEF OpToRel
  <2>3. n # 0
    <3>1. [u \in TypeIds |-> -1] \in [TypeIds -> BaseResults]
      BY DEF BaseResults
    <3>2. Solves([u \in TypeIds |-> -1], 0)
      BY <1>1
    <3>3. 0 \notin T
      BY <3>1, <3>2
    <3> QED BY <3>3
  <2> DEFINE v == n - 1
  <2>4. v \in Nat /\ v < n /\ n = v + 1
    BY <2>3
  <2>5. v \notin T
    <3> HIDE DEF T, v
    <3> QED BY <2>2, <2>4
  <2>6. PICK f \in [TypeIds -> BaseResults] : Solves(f, v)
    BY <2>4, <2>5
  <2> DEFINE g == [f EXCEPT ![v] = BaseStep(f, s, v)]
  <2> HIDE DEF v
  <2>7. ASSUME NEW u \in TypeIds PROVE BaseStep(f, s, u) \in BaseResults
    <3>1. CASE ~TypeIsVisible(s, u)
      BY <3>1 DEF BaseStep, BaseResults
    <3>2. CASE TypeIsVisible(s, u) /\ types[u].kind \in {"native", "record"}
      BY <3>2 DEF BaseStep, BaseResults
    <3>3. CASE TypeIsVisible(s, u) /\ types[u].kind \notin {"native", "record"}
      BY <3>3, BaseIsBelow DEF BaseStep
    <3> QED BY <3>1, <3>2, <3>3
  <2>8. g \in [TypeIds -> BaseResults]
    BY <2>7
  <2>9. ASSUME NEW u \in TypeIds, u < n PROVE g[u] = BaseStep(g, s, u)
    <3>1. g[u] = BaseStep(f, s, u)
      BY <1>1, <2>4, <2>6, <2>9
    <3>2. BaseStep(g, s, u) = BaseStep(f, s, u)
      <4>1. CASE ~(TypeIsVisible(s, u) /\ types[u].kind \notin {"native", "record"})
        BY <4>1 DEF BaseStep
      <4>2. CASE TypeIsVisible(s, u) /\ types[u].kind \notin {"native", "record"}
        <5> DEFINE b == CHOOSE b \in types[u].parts : TRUE
        <5>1. b \in TypeIds /\ b < u
          BY <4>2, BaseIsBelow
        <5> HIDE DEF b
        <5>2. b # v
          BY <1>1, <2>4, <2>9, <5>1
        <5>3. g[b] = f[b]
          BY <5>1, <5>2
        <5> HIDE DEF g
        <5> QED BY <4>2, <5>3 DEF BaseStep, b
      <4> QED BY <4>1, <4>2
    <3> QED BY <3>1, <3>2
  <2> HIDE DEF g
  <2>10. n \notin T
    BY <2>8, <2>9
  <2> QED BY <2>10
<1> DEFINE top == FirstTypeId + MaxTypes
<1>3. top \in Nat /\ \A u \in TypeIds : u < top
  BY BoundsAssumption DEF TypeIds, Natives, VOID, BOOL, INT, FLOAT, UserTypes, FirstTypeId
<1> HIDE DEF top
<1>4. PICK g \in [TypeIds -> BaseResults] : Solves(g, top)
  BY <1>2, <1>3
<1>5. g = [u \in TypeIds |-> BaseStep(g, s, u)]
  BY <1>3, <1>4
<1> QED BY <1>5

(***************************************************************************)
(* No solution meets the logic error: of the visible types that it is      *)
(* reported for, the earliest would have a base that it is reported for.   *)
(***************************************************************************)
LEMMA BaseIsFound ==
    ASSUME TablesInv, NEW s \in 1 .. nScopes, NEW g, \A u \in TypeIds : g[u] = BaseStep(g, s, u),
           NEW t \in TypeIds, TypeIsVisible(s, t)
    PROVE  g[t] # UnknownType
<1> DEFINE R == OpToRel(<, Nat)
           T == {u \in TypeIds : TypeIsVisible(s, u) /\ g[u] = UnknownType}
<1>1. TypeIds \subseteq Nat
  BY BoundsAssumption DEF TypeIds, Natives, VOID, BOOL, INT, FLOAT, UserTypes, FirstTypeId
<1>2. ASSUME T # {} PROVE FALSE
  <2>1. PICK u \in T : \A m \in T : ~(<<m, u>> \in R)
    <3>1. T \subseteq Nat
      BY <1>1
    <3> HIDE DEF R, T
    <3> QED BY <1>2, <3>1, NatLessThanWellFounded, WFMin DEF R
  <2>2. \A m \in T : ~(m < u)
    <3>1. T \subseteq Nat
      BY <1>1
    <3> HIDE DEF T
    <3> QED BY <2>1, <3>1 DEF OpToRel
  <2>3. u \in TypeIds /\ TypeIsVisible(s, u) /\ BaseStep(g, s, u) = UnknownType /\ u \in Nat
    BY <1>1
  <2>4. CASE types[u].kind \in {"native", "record"}
    BY <2>3, <2>4 DEF BaseStep, UnknownType
  <2>5. CASE types[u].kind \notin {"native", "record"}
    <3> DEFINE b == CHOOSE b \in types[u].parts : TRUE
    <3>1. b \in TypeIds /\ b < u /\ TypeIsVisible(s, b)
      BY <2>3, <2>5, BaseIsBelow
    <3>2. g[b] = UnknownType
      BY <2>3, <2>5 DEF BaseStep
    <3> HIDE DEF b
    <3>3. b \in T
      BY <3>1, <3>2
    <3> HIDE DEF T
    <3> QED BY <2>2, <3>1, <3>3
  <2> QED BY <2>4, <2>5
<1> QED BY <1>2

(***************************************************************************)
(* A type that a scope's tables hold is complete there: the walk over its  *)
(* base types by id, started in that scope or in any scope inside it,      *)
(* never meets the "logic error" of FindNativeBaseType.                    *)
(***************************************************************************)
THEOREM EveryTypeHasANativeBase == Spec => []NativeBaseExists
<1>1. ASSUME Inv, TypesInv PROVE NativeBaseExists
  <2> SUFFICES ASSUME NEW s \in 1 .. nScopes, NEW t \in TypesInTables(s),
                      NEW inner \in 1 .. nScopes, s \in path[inner]
               PROVE  FindNativeBaseType(inner, t) # UnknownType
    BY DEF NativeBaseExists
  <2>1. TypeIsVisible(s, t)
    BY <1>1 DEF TypesInTables, TypesInv, TablesInv, TablesHoldTypes
  <2>2. TypeIsVisible(inner, t) /\ t \in TypeIds
    BY <1>1, <2>1, VisibleInside DEF TypesInv, TablesInv, TypeIsVisible
  <2> DEFINE W == CHOOSE g : g = [u \in TypeIds |-> BaseStep(g, inner, u)]
  <2>3. W = [u \in TypeIds |-> BaseStep(W, inner, u)]
    BY <1>1, BaseWalkExists DEF TypesInv
  <2>4. FindNativeBaseType(inner, t) = W[t]
    BY <2>2 DEF FindNativeBaseType, BaseStep
  <2> HIDE DEF W
  <2>5. \A u \in TypeIds : W[u] = BaseStep(W, inner, u)
    BY <2>3
  <2> QED BY <1>1, <2>2, <2>4, <2>5, BaseIsFound DEF TypesInv
<1> QED BY <1>1, InvHolds, TypesInvHolds, PTL
=============================================================================

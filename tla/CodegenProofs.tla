---------------------------- MODULE CodegenProofs ----------------------------
(***************************************************************************)
(* What Codegen does with blocks, values and names, for every routine that *)
(* the parser can build and the semantic pass lets through.                *)
(***************************************************************************)
EXTENDS Codegen, TLAPS, SequenceTheorems, NaturalsInduction, WellFoundedInduction

(***************************************************************************)
(* Induction over the natural numbers, for a set of them.                  *)
(***************************************************************************)
LEMMA InductionOverASet ==
    ASSUME NEW S \in SUBSET Nat, 0 \in S, \A k \in S : k + 1 \in S
    PROVE  S = Nat
<1> DEFINE T == Nat \ S
           R == OpToRel(<, Nat)
<1> SUFFICES ASSUME T # {} PROVE FALSE
  OBVIOUS
<1>1. PICK k \in T : \A e \in T : ~(<<e, k>> \in R)
  <2>1. T \subseteq Nat
    OBVIOUS
  <2> HIDE DEF R, T
  <2> QED BY <2>1, NatLessThanWellFounded, WFMin DEF R
<1>2. k \in Nat /\ k \notin S /\ \A e \in T : ~(e < k)
  BY <1>1 DEF OpToRel
<1>3. k - 1 \in Nat /\ k - 1 < k /\ (k - 1) + 1 = k
  BY <1>2
<1>4. k - 1 \in S
  BY <1>2, <1>3
<1> QED BY <1>2, <1>3, <1>4

(***************************************************************************)
(* A bounded set of numbers has a least and a greatest element.            *)
(***************************************************************************)
LEMMA MaxIsGreatest ==
    ASSUME NEW n \in Nat, NEW S \in SUBSET (0..n), S # {}
    PROVE  Max(S) \in S /\ Max(S) \in 0..n /\ \A j \in S : j <= Max(S)
<1> DEFINE U == {u \in Nat : \A j \in S : j <= u}
           R == OpToRel(<, Nat)
<1>1. n \in U
  OBVIOUS
<1>2. PICK u \in U : \A e \in U : ~(<<e, u>> \in R)
  <2>1. U \subseteq Nat /\ U # {}
    BY <1>1
  <2> HIDE DEF R, U
  <2> QED BY <2>1, NatLessThanWellFounded, WFMin DEF R
<1>3. \A e \in U : ~(e < u)
  BY <1>2 DEF OpToRel
<1>4. u \in S
  <2> SUFFICES ASSUME u \notin S PROVE FALSE
    OBVIOUS
  <2>1. u \in Nat /\ \A j \in S : j \in Nat /\ j <= u /\ j # u
    OBVIOUS
  <2>2. u - 1 \in Nat /\ u - 1 < u /\ \A j \in S : j <= u - 1
    <3>1. PICK j \in S : TRUE
      OBVIOUS
    <3> QED BY <2>1, <3>1
  <2> QED BY <1>3, <2>2
<1>5. \E x \in S : \A y \in S : x >= y
  BY <1>4
<1> QED BY <1>5 DEF Max

\* The same for Min, of any set of naturals that is not empty.
LEMMA MinIsLeast ==
    ASSUME NEW S \in SUBSET Nat, S # {}
    PROVE  Min(S) \in S /\ \A j \in S : Min(S) <= j
<1> DEFINE R == OpToRel(<, Nat)
<1>1. PICK u \in S : \A e \in S : ~(<<e, u>> \in R)
  <2> HIDE DEF R
  <2> QED BY NatLessThanWellFounded, WFMin DEF R
<1>2. \A e \in S : ~(e < u)
  BY <1>1 DEF OpToRel
<1>3. \A e \in S : u <= e
  BY <1>2
<1>4. \E x \in S : \A y \in S : x =< y
  BY <1>3
<1> QED BY <1>4 DEF Min

-----------------------------------------------------------------------------
(* Sequences and functions.                                                *)

\* One level of the recursion of Those.
ThoseStep(f, names, S, k) ==
    IF k = 0 THEN <<>> ELSE IF names[k] \in S THEN Append(f[k - 1], names[k]) ELSE f[k - 1]

\* The whole recursion, as a function.
ThoseUpTo(names, S) == CHOOSE f : f = [k \in 0..Len(names) |-> ThoseStep(f, names, S, k)]

\* Those is the last level of its recursion.
LEMMA ThoseIsLast ==
    ASSUME NEW names, NEW S
    PROVE  Those(names, S) = ThoseUpTo(names, S)[Len(names)]
  BY DEF Those, ThoseUpTo, ThoseStep

\* The recursion of Those has a solution.
LEMMA ThoseExist ==
    ASSUME NEW T, NEW names \in Seq(T), NEW S
    PROVE  ThoseUpTo(names, S) =
               [k \in 0..Len(names) |-> ThoseStep(ThoseUpTo(names, S), names, S, k)]
<1> DEFINE Can(k) == \E f : f = [i \in 0..k |-> ThoseStep(f, names, S, i)]
           K == {k \in Nat : Can(k)}
<1>1. ASSUME NEW k \in Nat, Can(k)
      PROVE  Can(k + 1)
  <2>1. PICK f : f = [i \in 0..k |-> ThoseStep(f, names, S, i)]
    BY <1>1
  <2> DEFINE g == [i \in 0..(k + 1) |-> ThoseStep(f, names, S, i)]
  <2>2. ASSUME NEW i \in 0..(k + 1)
        PROVE  ThoseStep(f, names, S, i) = ThoseStep(g, names, S, i)
    <3>1. CASE i = 0
      BY <3>1 DEF ThoseStep
    <3>2. CASE i # 0
      <4>1. i - 1 \in 0..k /\ i - 1 \in 0..(k + 1)
        BY <3>2
      <4>2. f[i - 1] = ThoseStep(f, names, S, i - 1)
        BY <2>1, <4>1
      <4>3. g[i - 1] = ThoseStep(f, names, S, i - 1)
        BY <4>1
      <4>4. f[i - 1] = g[i - 1]
        BY <4>2, <4>3
      <4> HIDE DEF g
      <4> QED BY <4>4 DEF ThoseStep
    <3> QED BY <3>1, <3>2
  <2>3. g = [i \in 0..(k + 1) |-> ThoseStep(g, names, S, i)]
    BY <2>2
  <2> HIDE DEF g
  <2> QED BY <2>3
<1>2. Can(0)
  <2> DEFINE g == [i \in 0..0 |-> <<>>]
  <2>1. \A i \in 0..0 : ThoseStep(g, names, S, i) = <<>>
    BY DEF ThoseStep
  <2>2. g = [i \in 0..0 |-> ThoseStep(g, names, S, i)]
    BY <2>1
  <2> HIDE DEF g
  <2> QED BY <2>2
<1>3. K = Nat
  <2>1. 0 \in K /\ \A k \in K : k + 1 \in K
    <3> HIDE DEF Can
    <3> QED BY <1>1, <1>2
  <2>2. K \in SUBSET Nat
    OBVIOUS
  <2> HIDE DEF K
  <2> QED BY <2>1, <2>2, InductionOverASet
<1>4. Can(Len(names))
  <2>1. Len(names) \in K
    BY <1>3
  <2> HIDE DEF Can
  <2> QED BY <2>1
<1> QED BY <1>4 DEF ThoseUpTo

(***************************************************************************)
(* Those are the elements of a sequence that are in the set, and no others.*)
(***************************************************************************)
LEMMA ThoseAreIn ==
    ASSUME NEW T, NEW names \in Seq(T), NEW S
    PROVE  /\ Those(names, S) \in Seq(T)
           /\ ToSet(Those(names, S)) = ToSet(names) \cap S
<1> DEFINE f == ThoseUpTo(names, S)
           Right(k) == /\ f[k] \in Seq(T)
                       /\ ToSet(f[k]) = {names[i] : i \in 1..k} \cap S
           K == {k \in Nat : k <= Len(names) => Right(k)}
<1>1. \A k \in 0..Len(names) : f[k] = ThoseStep(f, names, S, k)
  BY ThoseExist
<1>2. Len(names) \in Nat /\ \A i \in 1..Len(names) : names[i] \in T
  OBVIOUS
<1> HIDE DEF f
<1>3. Right(0)
  <2>1. f[0] = <<>>
    BY <1>1, <1>2 DEF ThoseStep
  <2>2. ToSet(<<>>) = {}
    BY DEF ToSet
  <2> QED BY <2>1, <2>2
<1>4. ASSUME NEW k \in Nat, k <= Len(names) => Right(k), k + 1 <= Len(names)
      PROVE  Right(k + 1)
  <2>1. Right(k) /\ k + 1 \in 0..Len(names) /\ k + 1 \in 1..Len(names) /\ (k + 1) - 1 = k /\ k + 1 # 0
    BY <1>2, <1>4
  <2>2. f[k + 1] = IF names[k + 1] \in S THEN Append(f[k], names[k + 1]) ELSE f[k]
    BY <1>1, <2>1 DEF ThoseStep
  <2>3. {names[i] : i \in 1..(k + 1)} = {names[i] : i \in 1..k} \cup {names[k + 1]}
    OBVIOUS
  <2>4. names[k + 1] \in T
    BY <1>2, <2>1
  <2>5. ToSet(Append(f[k], names[k + 1])) = ToSet(f[k]) \cup {names[k + 1]}
    <3>1. f[k] \in Seq(T)
      BY <2>1
    <3> DEFINE s == f[k]
               e == names[k + 1]
    <3>2. s \in Seq(T) /\ e \in T
      BY <3>1, <2>4
    <3> HIDE DEF s, e
    <3>3. /\ DOMAIN Append(s, e) = 1..(Len(s) + 1) /\ DOMAIN s = 1..Len(s) /\ Len(s) \in Nat
          /\ \A i \in 1..Len(s) : Append(s, e)[i] = s[i]
          /\ Append(s, e)[Len(s) + 1] = e
      BY <3>2
    <3>4. ToSet(Append(s, e)) = ToSet(s) \cup {e}
      BY <3>3 DEF ToSet
    <3> QED BY <3>4 DEF s, e
  <2>6. CASE names[k + 1] \in S
    BY <2>1, <2>2, <2>3, <2>4, <2>5, <2>6
  <2>7. CASE names[k + 1] \notin S
    BY <2>1, <2>2, <2>3, <2>7
  <2> QED BY <2>6, <2>7
<1>5. K = Nat
  <2>1. 0 \in K /\ \A k \in K : k + 1 \in K
    <3> HIDE DEF Right
    <3> QED BY <1>2, <1>3, <1>4
  <2>2. K \in SUBSET Nat
    OBVIOUS
  <2> HIDE DEF K
  <2> QED BY <2>1, <2>2, InductionOverASet
<1>6. Right(Len(names))
  <2>1. Len(names) \in K
    BY <1>2, <1>5
  <2> HIDE DEF Right
  <2> QED BY <1>2, <2>1
<1>7. ToSet(names) = {names[i] : i \in 1..Len(names)}
  BY DEF ToSet
<1> QED BY <1>6, <1>7, ThoseIsLast DEF f

-----------------------------------------------------------------------------
(* The tree of bodies and the tables.                                      *)

\* The numbers of the bodies; the first is the routine's own.
Bodies(P) == DOMAIN P.bodies

\* What WellFormed says of the tree: a body comes after its parent, and only the
\* routine's own has none.
LEMMA BodiesOfARoutine ==
    ASSUME NEW P, WellFormed(P)
    PROVE  /\ Len(P.bodies) \in Nat \ {0} /\ Bodies(P) = 1..Len(P.bodies) /\ 1 \in Bodies(P)
           /\ \A b \in Bodies(P) :
                 /\ P.bodies[b].parent \in 0..(b - 1) /\ (P.bodies[b].parent = 0 <=> b = 1)
                 /\ P.bodies[b].parent # 0 => P.bodies[b].parent \in Bodies(P)
                 /\ P.bodies[b].counter \in Idents \cup {NoIdent}
                 /\ Nodes(P, b) \in Seq(NodeRecord)
                 /\ Len(Nodes(P, b)) \in Nat /\ DOMAIN Nodes(P, b) = 1..Len(Nodes(P, b))
<1>1. P.bodies \in Seq(BodyRecord) /\ P.bodies # <<>> /\ P.bodies[1].parent = 0
  BY DEF WellFormed
<1>2. Len(P.bodies) \in Nat \ {0} /\ Bodies(P) = 1..Len(P.bodies) /\ 1 \in Bodies(P)
  BY <1>1 DEF Bodies
<1>3. ASSUME NEW b \in Bodies(P)
      PROVE  /\ P.bodies[b] \in BodyRecord
             /\ P.bodies[b].parent \in 0..(b - 1) /\ (P.bodies[b].parent = 0 <=> b = 1)
             /\ P.bodies[b].parent # 0 => P.bodies[b].parent \in Bodies(P)
  <2>1. P.bodies[b] \in BodyRecord
    BY <1>1, <1>2
  <2>2. b # 1 => P.bodies[b].parent \in 1..(b - 1)
    BY DEF WellFormed, Bodies
  <2> QED BY <1>1, <1>2, <2>1, <2>2
<1>4. ASSUME NEW b \in Bodies(P)
      PROVE  /\ P.bodies[b].counter \in Idents \cup {NoIdent}
             /\ Nodes(P, b) \in Seq(NodeRecord)
             /\ Len(Nodes(P, b)) \in Nat /\ DOMAIN Nodes(P, b) = 1..Len(Nodes(P, b))
  <2>1. P.bodies[b] \in BodyRecord
    BY <1>3
  <2>2. P.bodies[b].counter \in Idents \cup {NoIdent} /\ P.bodies[b].nodes \in Seq(NodeRecord)
    BY <2>1 DEF BodyRecord
  <2> QED BY <2>2 DEF Nodes
<1> QED BY <1>2, <1>3, <1>4

\* One level of the recursion of Path.
PathStep(P, f, s) == {s} \cup IF P.bodies[s].parent = 0 THEN {} ELSE f[P.bodies[s].parent]
PathsUpTo(P, b) == CHOOSE f : f = [s \in 1..b |-> PathStep(P, f, s)]

\* Path is the last level of its recursion.
LEMMA PathIsLast == ASSUME NEW P, NEW b PROVE Path(P, b) = PathsUpTo(P, b)[b]
  BY DEF Path, PathsUpTo, PathStep

\* Of one body: its number, its nodes and its parent are those of a routine.
LEMMA ABody ==
    ASSUME NEW P, WellFormed(P), NEW b \in Bodies(P)
    PROVE  /\ b \in Nat /\ b # 0 /\ Len(Nodes(P, b)) \in Nat
           /\ P.bodies[b].parent # 0 =>
                 P.bodies[b].parent \in 1..(b - 1) /\ P.bodies[b].parent \in Bodies(P)
<1>1. Bodies(P) = 1..Len(P.bodies) /\ Len(P.bodies) \in Nat /\ Len(Nodes(P, b)) \in Nat
  BY BodiesOfARoutine
<1>2. b \in Nat /\ b # 0
  BY <1>1
<1>3. P.bodies[b].parent # 0 =>
          P.bodies[b].parent \in 1..(b - 1) /\ P.bodies[b].parent \in Bodies(P)
  <2> DEFINE p == P.bodies[b].parent
  <2>1. p \in 0..(b - 1) /\ (p # 0 => p \in Bodies(P))
    BY BodiesOfARoutine
  <2> HIDE DEF p
  <2>2. p # 0 => p \in 1..(b - 1) /\ p \in Bodies(P)
    BY <1>2, <2>1
  <2> QED BY <2>2 DEF p
<1> QED BY <1>1, <1>2, <1>3

(***************************************************************************)
(* The paths up to a body can be told from the routine's own body on.      *)
(***************************************************************************)
LEMMA PathsExist ==
    ASSUME NEW P, WellFormed(P), NEW b \in Bodies(P)
    PROVE  PathsUpTo(P, b) = [s \in 1..b |-> PathStep(P, PathsUpTo(P, b), s)]
<1> DEFINE Can(k) == \E f : f = [s \in 1..k |-> PathStep(P, f, s)]
           K == {k \in Nat : k <= Len(P.bodies) => Can(k)}
<1>0. /\ Len(P.bodies) \in Nat /\ Bodies(P) = 1..Len(P.bodies)
      /\ \A s \in Bodies(P) : P.bodies[s].parent \in 0..(s - 1)
  BY BodiesOfARoutine
<1>1. ASSUME NEW k \in Nat, Can(k), k + 1 <= Len(P.bodies)
      PROVE  Can(k + 1)
  <2>1. PICK f : f = [s \in 1..k |-> PathStep(P, f, s)]
    BY <1>1
  <2> DEFINE g == [s \in 1..(k + 1) |-> PathStep(P, f, s)]
  <2>2. ASSUME NEW s \in 1..(k + 1)
        PROVE  PathStep(P, f, s) = PathStep(P, g, s)
    <3> DEFINE p == P.bodies[s].parent
    <3>0. s \in Bodies(P)
      BY <1>0, <1>1
    <3>1. p \in 0..(s - 1)
      BY <1>0, <3>0
    <3> HIDE DEF p
    <3>2. CASE p = 0
      BY <3>2 DEF PathStep, p
    <3>3. CASE p # 0
      <4>1. p \in 1..k /\ p \in 1..(k + 1)
        BY <3>1, <3>3
      <4>2. f[p] = PathStep(P, f, p)
        BY <2>1, <4>1
      <4>3. g[p] = PathStep(P, f, p)
        BY <4>1
      <4>4. f[p] = g[p]
        BY <4>2, <4>3
      <4> HIDE DEF g
      <4> QED BY <4>4 DEF PathStep, p
    <3> QED BY <3>2, <3>3
  <2>3. g = [s \in 1..(k + 1) |-> PathStep(P, g, s)]
    BY <2>2
  <2> HIDE DEF g
  <2> QED BY <2>3
<1>2. Can(0)
  <2> DEFINE g == [s \in 1..0 |-> {}]
  <2>1. \A s \in 1..0 : PathStep(P, g, s) = {}
    OBVIOUS
  <2>2. g = [s \in 1..0 |-> PathStep(P, g, s)]
    BY <2>1
  <2> HIDE DEF g
  <2> QED BY <2>2
<1>3. K = Nat
  <2>1. 0 \in K /\ \A k \in K : k + 1 \in K
    <3> HIDE DEF Can
    <3> QED BY <1>0, <1>1, <1>2
  <2>2. K \in SUBSET Nat
    OBVIOUS
  <2> HIDE DEF K
  <2> QED BY <2>1, <2>2, InductionOverASet
<1>4. Can(b)
  <2>1. b \in K /\ b <= Len(P.bodies)
    BY <1>0, <1>3
  <2> HIDE DEF Can
  <2> QED BY <2>1
<1> QED BY <1>4 DEF PathsUpTo

(***************************************************************************)
(* The path from a body is the body and the path from its parent.          *)
(***************************************************************************)
LEMMA PathGoesUp ==
    ASSUME NEW P, WellFormed(P), NEW b \in Bodies(P)
    PROVE  Path(P, b) = {b} \cup IF P.bodies[b].parent = 0 THEN {} ELSE Path(P, P.bodies[b].parent)
<1> DEFINE p == P.bodies[b].parent
<1>0. b \in 1..b /\ b \in Nat /\ p \in 0..(b - 1) /\ (p # 0 => p \in Bodies(P)) /\ b <= Len(P.bodies)
      /\ Len(P.bodies) \in Nat /\ Bodies(P) = 1..Len(P.bodies)
      /\ \A s \in Bodies(P) : P.bodies[s].parent \in 0..(s - 1)
  BY BodiesOfARoutine
<1>1. Path(P, b) = PathStep(P, PathsUpTo(P, b), b)
  BY <1>0, PathIsLast, PathsExist
<1>2. CASE p = 0
  BY <1>1, <1>2 DEF PathStep
<1>3. CASE p # 0
  <2> DEFINE f == PathsUpTo(P, b)
             g == PathsUpTo(P, p)
             K == {k \in Nat : \A s \in 1..k : s <= p => f[s] = g[s]}
  <2>1. /\ \A s \in 1..b : f[s] = PathStep(P, f, s)
        /\ \A s \in 1..p : g[s] = PathStep(P, g, s)
    <3>1. f = [s \in 1..b |-> PathStep(P, f, s)]
      BY PathsExist
    <3>2. g = [s \in 1..p |-> PathStep(P, g, s)]
      BY <1>0, <1>3, PathsExist
    <3> HIDE DEF f, g
    <3> QED BY <3>1, <3>2
  <2> HIDE DEF f, g
  <2>2. ASSUME NEW k \in K PROVE k + 1 \in K
    <3> SUFFICES ASSUME k + 1 <= p PROVE f[k + 1] = g[k + 1]
      BY <1>0
    <3>1. f[k + 1] = PathStep(P, f, k + 1) /\ g[k + 1] = PathStep(P, g, k + 1)
      BY <1>0, <2>1
    <3>2. P.bodies[k + 1].parent \in 0..k
      BY <1>0
    <3>3. ASSUME P.bodies[k + 1].parent # 0
          PROVE  f[P.bodies[k + 1].parent] = g[P.bodies[k + 1].parent]
      <4> DEFINE q == P.bodies[k + 1].parent
      <4>1. q \in 1..k /\ q <= k
        BY <3>2, <3>3
      <4>2. p \in Nat /\ k \in Nat
        BY <1>0
      <4>3. q <= p
        <5> HIDE DEF p, q
        <5> QED BY <4>1, <4>2
      <4> HIDE DEF q
      <4>4. f[q] = g[q]
        BY <4>1, <4>3
      <4> QED BY <4>4 DEF q
    <3> QED BY <3>1, <3>3 DEF PathStep
  <2>3. K = Nat
    <3>1. 0 \in K /\ K \in SUBSET Nat
      OBVIOUS
    <3> HIDE DEF K
    <3> QED BY <2>2, <3>1, InductionOverASet
  <2>4. f[p] = g[p]
    <3>1. p \in 1..p /\ p <= p /\ p \in K
      <4>1. p \in Nat \ {0}
        BY <1>0, <1>3
      <4> HIDE DEF p, K
      <4> QED BY <2>3, <4>1
    <3> HIDE DEF p
    <3> QED BY <3>1
  <2>5. Path(P, p) = g[p]
    BY PathIsLast DEF g
  <2> QED BY <1>1, <1>3, <2>4, <2>5 DEF PathStep, f
<1> QED BY <1>2, <1>3

(***************************************************************************)
(* The path from a body holds bodies around it, each the path of which     *)
(* belongs to it.                                                          *)
(***************************************************************************)
LEMMA PathIsAround ==
    ASSUME NEW P, WellFormed(P)
    PROVE  \A b \in Bodies(P) : /\ b \in Path(P, b) /\ Path(P, b) \subseteq 1..b
                                /\ Path(P, b) \subseteq Bodies(P)
<1> DEFINE K == {k \in Nat : \A b \in 1..k : b \in Bodies(P) => Path(P, b) \subseteq 1..b}
<1>0. /\ Len(P.bodies) \in Nat /\ Bodies(P) = 1..Len(P.bodies)
      /\ \A s \in Bodies(P) : P.bodies[s].parent \in 0..(s - 1)
  BY BodiesOfARoutine
<1>1. ASSUME NEW k \in K PROVE k + 1 \in K
  <2> SUFFICES ASSUME k + 1 \in Bodies(P) PROVE Path(P, k + 1) \subseteq 1..(k + 1)
    BY <1>0
  <2>1. CASE P.bodies[k + 1].parent = 0
    BY <2>1, PathGoesUp
  <2>2. CASE P.bodies[k + 1].parent # 0
    <3>1. P.bodies[k + 1].parent \in 1..k /\ P.bodies[k + 1].parent \in Bodies(P)
      BY <1>0, <2>2
    <3>2. Path(P, P.bodies[k + 1].parent) \subseteq 1..k
      BY <1>0, <3>1
    <3> QED BY <2>2, <3>2, PathGoesUp
  <2> QED BY <2>1, <2>2
<1>2. K = Nat
  <2>1. 0 \in K /\ K \in SUBSET Nat
    OBVIOUS
  <2> HIDE DEF K
  <2> QED BY <1>1, <2>1, InductionOverASet
<1>3. ASSUME NEW b \in Bodies(P) PROVE Path(P, b) \subseteq 1..b
  BY <1>0, <1>2
<1>4. ASSUME NEW b \in Bodies(P) PROVE b \in Path(P, b)
  BY PathGoesUp
<1> QED BY <1>0, <1>3, <1>4

\* A Name as a table holds it.
Declared(P, name) ==
    /\ name.scope \in Bodies(P) /\ name.at \in 0..Len(Nodes(P, name.scope))
    /\ Declares(P, name.scope, name.at, name.ident)
    /\ name = Name(name.scope, name.at, name.ident)

\* A name tells where it was declared, and a name of a body is not NoName.
LEMMA NamesHaveScopes ==
    \A b, n, x : /\ Name(b, n, x).scope = b /\ Name(b, n, x).at = n /\ Name(b, n, x).ident = x
                 /\ b # 0 => Name(b, n, x) # NoName
                 /\ DOMAIN Name(b, n, x) = {"scope", "at", "ident"}
<1> SUFFICES ASSUME NEW b, NEW n, NEW x
             PROVE  /\ Name(b, n, x).scope = b /\ Name(b, n, x).at = n /\ Name(b, n, x).ident = x
                    /\ b # 0 => Name(b, n, x) # NoName
                    /\ DOMAIN Name(b, n, x) = {"scope", "at", "ident"}
  OBVIOUS
<1>1. Name(b, n, x).scope = b /\ Name(b, n, x).at = n /\ Name(b, n, x).ident = x
  BY DEF Name
<1>2. NoName.scope = 0
  BY DEF NoName, Name
<1>3. DOMAIN Name(b, n, x) = {"scope", "at", "ident"}
  BY DEF Name
<1> QED BY <1>1, <1>2, <1>3

(***************************************************************************)
(* A table holds the last declaration of an identifier, if there is one.   *)
(***************************************************************************)
LEMMA TableHoldsTheLast ==
    ASSUME NEW P, WellFormed(P), NEW b \in Bodies(P), NEW x
    PROVE  LET entry == TableEntry(P, b, x) IN
           /\ (\E n \in 0..Len(Nodes(P, b)) : Declares(P, b, n, x)) => entry # NoName
           /\ entry # NoName =>
                 /\ Declared(P, entry) /\ entry.scope = b /\ entry.ident = x
                 /\ \A n \in 0..Len(Nodes(P, b)) : Declares(P, b, n, x) => n <= entry.at
<1> DEFINE at == {n \in 0..Len(Nodes(P, b)) : Declares(P, b, n, x)}
<1>1. TableEntry(P, b, x) = IF at = {} THEN NoName ELSE Name(b, Max(at), x)
  BY DEF TableEntry
<1>2. Len(Nodes(P, b)) \in Nat /\ b # 0 /\ b \in Bodies(P)
  BY BodiesOfARoutine
<1>3. CASE at = {}
  BY <1>1, <1>3
<1>4. CASE at # {}
  <2>1. Max(at) \in at /\ \A n \in at : n <= Max(at)
    <3>1. at \in SUBSET (0..Len(Nodes(P, b)))
      OBVIOUS
    <3> HIDE DEF at
    <3> QED BY <1>2, <1>4, <3>1, MaxIsGreatest
  <2> DEFINE m == Max(at)
             entry == Name(b, m, x)
  <2>2. m \in 0..Len(Nodes(P, b)) /\ Declares(P, b, m, x) /\ \A n \in at : n <= m
    BY <2>1
  <2>3. TableEntry(P, b, x) = entry
    BY <1>1, <1>4
  <2> HIDE DEF m
  <2>4. entry.scope = b /\ entry.at = m /\ entry.ident = x /\ entry # NoName
    BY <1>2, NamesHaveScopes
  <2> QED BY <1>2, <2>2, <2>3, <2>4 DEF Declared
<1> QED BY <1>3, <1>4

\* The scopes on the path from b whose table has x.
Found(P, b, x) == {s \in Path(P, b) : TableEntry(P, s, x) # NoName}

\* A lookup gives the entry of the innermost table on the path that has one.
LEMMA LookupIsInnermost ==
    ASSUME NEW P, WellFormed(P), NEW b \in Bodies(P), NEW x
    PROVE  /\ Found(P, b, x) = {} => LookupName(P, b, x) = NoName
           /\ Found(P, b, x) # {} =>
                 /\ Max(Found(P, b, x)) \in Found(P, b, x)
                 /\ Max(Found(P, b, x)) \in Bodies(P)
                 /\ \A s \in Found(P, b, x) : s <= Max(Found(P, b, x))
                 /\ LookupName(P, b, x) = TableEntry(P, Max(Found(P, b, x)), x)
<1>1. LookupName(P, b, x) = IF Found(P, b, x) = {} THEN NoName
                            ELSE TableEntry(P, Max(Found(P, b, x)), x)
  BY DEF LookupName, Found
<1>2. Found(P, b, x) \in SUBSET (0..b) /\ Found(P, b, x) \subseteq Bodies(P)
  BY PathIsAround DEF Found
<1>3. b \in Nat
  BY BodiesOfARoutine
<1> QED BY <1>1, <1>2, <1>3, MaxIsGreatest

(***************************************************************************)
(* A lookup that finds something finds the entry of a table on the path.   *)
(***************************************************************************)
LEMMA LookupFinds ==
    ASSUME NEW P, WellFormed(P), NEW b \in Bodies(P), NEW x
    PROVE  LET name == LookupName(P, b, x) IN
           /\ name # NoName =>
                 /\ Declared(P, name) /\ name.ident = x
                 /\ name.scope \in Path(P, b) /\ name = TableEntry(P, name.scope, x)
           /\ (\E s \in Path(P, b) : TableEntry(P, s, x) # NoName) => name # NoName
<1>1. Found(P, b, x) = {} => LookupName(P, b, x) = NoName
  BY LookupIsInnermost
<1>2. ASSUME Found(P, b, x) # {}
      PROVE  LET name == LookupName(P, b, x) IN
             /\ name # NoName /\ Declared(P, name) /\ name.ident = x
             /\ name.scope \in Path(P, b) /\ name = TableEntry(P, name.scope, x)
  <2> DEFINE m == Max(Found(P, b, x))
  <2>1. m \in Found(P, b, x) /\ m \in Bodies(P) /\ LookupName(P, b, x) = TableEntry(P, m, x)
    BY <1>2, LookupIsInnermost
  <2> HIDE DEF m
  <2>2. TableEntry(P, m, x) # NoName /\ m \in Path(P, b)
    BY <2>1 DEF Found
  <2>3. LET entry == TableEntry(P, m, x) IN Declared(P, entry) /\ entry.scope = m /\ entry.ident = x
    BY <2>1, <2>2, TableHoldsTheLast
  <2> QED BY <2>1, <2>2, <2>3
<1> QED BY <1>1, <1>2 DEF Found

(***************************************************************************)
(* A lookup takes what the body declares, and goes on in the parent.       *)
(***************************************************************************)
LEMMA LookupGoesUp ==
    ASSUME NEW P, WellFormed(P), NEW b \in Bodies(P), NEW x
    PROVE  /\ TableEntry(P, b, x) # NoName => LookupName(P, b, x) = TableEntry(P, b, x)
           /\ TableEntry(P, b, x) = NoName /\ P.bodies[b].parent = 0 => LookupName(P, b, x) = NoName
           /\ TableEntry(P, b, x) = NoName /\ P.bodies[b].parent # 0 =>
                  LookupName(P, b, x) = LookupName(P, P.bodies[b].parent, x)
<1>0. b \in Path(P, b) /\ Path(P, b) \subseteq 1..b /\ b \in Nat
  BY PathIsAround, BodiesOfARoutine
<1>1. ASSUME TableEntry(P, b, x) # NoName
      PROVE  LookupName(P, b, x) = TableEntry(P, b, x)
  <2> DEFINE m == Max(Found(P, b, x))
  <2>1. b \in Found(P, b, x)
    BY <1>0, <1>1 DEF Found
  <2>2. m \in Found(P, b, x) /\ b <= m /\ LookupName(P, b, x) = TableEntry(P, m, x)
    BY <2>1, LookupIsInnermost
  <2>3. m \in 1..b
    BY <1>0, <2>2 DEF Found
  <2>4. m = b
    <3> HIDE DEF m
    <3> QED BY <1>0, <2>2, <2>3
  <2> QED BY <2>2, <2>4
<1>2. ASSUME TableEntry(P, b, x) = NoName, P.bodies[b].parent = 0
      PROVE  LookupName(P, b, x) = NoName
  <2>1. Path(P, b) = {b}
    BY <1>2, PathGoesUp
  <2> QED BY <1>2, <2>1, LookupIsInnermost DEF Found
<1>3. ASSUME TableEntry(P, b, x) = NoName, P.bodies[b].parent # 0
      PROVE  LookupName(P, b, x) = LookupName(P, P.bodies[b].parent, x)
  <2>1. Path(P, b) = {b} \cup Path(P, P.bodies[b].parent)
    BY <1>3, PathGoesUp
  <2>2. Found(P, b, x) = Found(P, P.bodies[b].parent, x)
    BY <1>3, <2>1 DEF Found
  <2> QED BY <2>2 DEF LookupName, Found
<1> QED BY <1>1, <1>2, <1>3

(***************************************************************************)
(* A name that a body finds and does not declare is found by its parent.   *)
(***************************************************************************)
LEMMA FoundAround ==
    ASSUME NEW P, WellFormed(P), NEW b \in Bodies(P), NEW name,
           name.scope \in Path(P, b) \ {b}, LookupName(P, b, name.ident) = name
    PROVE  /\ P.bodies[b].parent \in Bodies(P) /\ Declared(P, name)
           /\ LookupName(P, P.bodies[b].parent, name.ident) = name
           /\ name.scope \in Path(P, P.bodies[b].parent)
           /\ TableEntry(P, b, name.ident) = NoName
           /\ (TableEntry(P, P.bodies[b].parent, name.ident) = NoName
               => name.scope # P.bodies[b].parent)
<1> DEFINE x == name.ident
           p == P.bodies[b].parent
<1>1. name.scope # 0 /\ name.scope # b
  BY PathIsAround, BodiesOfARoutine
<1>2. name # NoName
  BY <1>1 DEF NoName, Name
<1>3. Declared(P, name) /\ name = TableEntry(P, name.scope, x)
  BY <1>2, LookupFinds
<1>4. TableEntry(P, b, x) = NoName
  <2> SUFFICES ASSUME TableEntry(P, b, x) # NoName PROVE FALSE
    OBVIOUS
  <2>1. name = TableEntry(P, b, x)
    BY LookupGoesUp
  <2> QED BY <1>1, <2>1, TableHoldsTheLast
<1>5. p # 0
  BY <1>2, <1>4, LookupGoesUp
<1>6. p \in Bodies(P) /\ LookupName(P, p, x) = name
  BY <1>4, <1>5, LookupGoesUp, BodiesOfARoutine
<1>7. name.scope \in Path(P, p)
  BY <1>5, PathGoesUp
<1> QED BY <1>2, <1>3, <1>4, <1>6, <1>7

\* The body below s on the path from b, and the first node of s that comes too
\* late for node n of b.
Below(P, b, s) == Min({c \in Path(P, b) : c > s})
NextAt(P, b, n, s) ==
    IF s = b THEN IF Nodes(P, b)[n].typed THEN n + 1 ELSE n ELSE P.bodies[Below(P, b, s)].at

(***************************************************************************)
(* Every body on a path but the last one is the parent of the one below.   *)
(***************************************************************************)
LEMMA PathIsAChain ==
    ASSUME NEW P, WellFormed(P), NEW b \in Bodies(P), NEW s \in Path(P, b), s # b
    PROVE  /\ Below(P, b, s) \in Path(P, b) /\ Below(P, b, s) \in Bodies(P) \ {1}
           /\ P.bodies[Below(P, b, s)].parent = s
<1> DEFINE Chain(c) == \A r \in Path(P, c) \ {c} : /\ Below(P, c, r) \in Path(P, c)
                                                   /\ P.bodies[Below(P, c, r)].parent = r
           K == {k \in Nat : \A c \in 1..k : c \in Bodies(P) => Chain(c)}
<1>0. Bodies(P) = 1..Len(P.bodies) /\ Len(P.bodies) \in Nat /\ 1 \in Bodies(P)
  BY BodiesOfARoutine
<1>1. ASSUME NEW c \in Bodies(P), \A d \in 1..(c - 1) : d \in Bodies(P) => Chain(d)
      PROVE  Chain(c)
  <2> SUFFICES ASSUME NEW r \in Path(P, c) \ {c}
               PROVE  Below(P, c, r) \in Path(P, c) /\ P.bodies[Below(P, c, r)].parent = r
    OBVIOUS
  <2> DEFINE p == P.bodies[c].parent
             A == {d \in Path(P, c) : d > r}
             B == {d \in Path(P, p) : d > r}
  <2>1. p # 0
    <3>1. Path(P, c) = {c} \cup IF p = 0 THEN {} ELSE Path(P, p)
      BY PathGoesUp
    <3> HIDE DEF p
    <3>2. p = 0 => r \in {c} /\ r # c
      BY <3>1
    <3> QED BY <3>2
  <2>2. p \in 1..(c - 1) /\ p \in Bodies(P) /\ c \in Nat
    BY <2>1, ABody
  <2>3. Path(P, c) = {c} \cup Path(P, p) /\ r \in Path(P, p) /\ Path(P, p) \subseteq 1..p /\ p \in Path(P, p)
    <3>1. Path(P, c) = {c} \cup IF p = 0 THEN {} ELSE Path(P, p)
      BY PathGoesUp
    <3>2. Path(P, p) \subseteq 1..p /\ p \in Path(P, p)
      BY <2>2, PathIsAround
    <3> QED BY <2>1, <3>1, <3>2
  <2> HIDE DEF p
  <2>4. CASE r = p
    <3>1. A = {c}
      BY <2>2, <2>3, <2>4
    <3>2. Min(A) = c
      <4>1. A \in SUBSET Nat /\ A # {}
        BY <2>2, <3>1
      <4> HIDE DEF A
      <4> QED BY <3>1, <4>1, MinIsLeast
    <3> QED BY <2>3, <2>4, <3>2 DEF Below, p
  <2>5. CASE r # p
    <3>1. A = B \cup {c} /\ p \in B /\ B \subseteq 1..p /\ r \in Nat /\ r < p
      BY <2>2, <2>3, <2>5
    <3>2. Min(B) \in B /\ (\A j \in B : Min(B) <= j) /\ Min(A) \in A /\ \A j \in A : Min(A) <= j
      <4>1. A \in SUBSET Nat /\ B \in SUBSET Nat /\ A # {} /\ B # {}
        BY <2>2, <3>1
      <4> HIDE DEF A, B
      <4> QED BY <4>1, MinIsLeast
    <3>3. Min(A) = Min(B)
      <4> DEFINE a == Min(A)
                 e == Min(B)
      <4>1. a \in A /\ e \in B /\ a <= e /\ (a \in B => e <= a) /\ e \in 1..p
        BY <3>1, <3>2
      <4>2. a # c
        <5> HIDE DEF a, e
        <5> QED BY <2>2, <4>1
      <4>3. a \in B
        BY <3>1, <4>1, <4>2
      <4>4. a \in Nat /\ e \in Nat /\ a <= e /\ e <= a
        BY <3>1, <4>1, <4>3
      <4> HIDE DEF a, e
      <4>5. a = e
        BY <4>4
      <4> QED BY <4>5 DEF a, e
    <3>4. Below(P, p, r) = Min(B) /\ Below(P, c, r) = Min(A)
      BY DEF Below
    <3>5. Chain(p)
      BY <1>1, <2>2
    <3>6. Below(P, p, r) \in Path(P, p) /\ P.bodies[Below(P, p, r)].parent = r
      BY <2>3, <2>5, <3>5
    <3> QED BY <2>3, <3>3, <3>4, <3>6
  <2> QED BY <2>4, <2>5
<1>2. K = Nat
  <2>1. K \in SUBSET Nat
    OBVIOUS
  <2>2. 0 \in K
    OBVIOUS
  <2>3. \A k \in K : k + 1 \in K
    <3> HIDE DEF Chain
    <3> SUFFICES ASSUME NEW k \in K, k + 1 \in Bodies(P) PROVE Chain(k + 1)
      OBVIOUS
    <3>1. \A d \in 1..((k + 1) - 1) : d \in Bodies(P) => Chain(d)
      OBVIOUS
    <3> QED BY <1>1, <3>1
  <2> HIDE DEF K
  <2> QED BY <2>1, <2>2, <2>3, InductionOverASet
<1>3. Chain(b)
  <2> HIDE DEF Chain
  <2>1. b \in Nat /\ b \in 1..b
    BY <1>0
  <2>2. b \in K
    BY <1>2, <2>1
  <2> QED BY <2>1, <2>2
<1>4. Below(P, b, s) \in Path(P, b) /\ P.bodies[Below(P, b, s)].parent = s
  BY <1>3
<1>5. s # 0 /\ Below(P, b, s) \in Bodies(P)
  BY <1>4, PathIsAround
<1>6. Below(P, b, s) # 1
  BY <1>4, <1>5, BodiesOfARoutine
<1> QED BY <1>4, <1>5, <1>6

(***************************************************************************)
(* What the semantic pass found is the last declaration that comes before  *)
(* the node in a body around it.                                           *)
(***************************************************************************)
LEMMA WhatIsResolved ==
    ASSUME NEW P, WellFormed(P), NEW b \in Bodies(P), NEW n \in 1..Len(Nodes(P, b)), NEW x,
           Resolve(P, b, n, x) # NoName
    PROVE  \E s \in Path(P, b), k \in Nat :
              /\ k <= Len(Nodes(P, s)) /\ k < NextAt(P, b, n, s) /\ Declares(P, s, k, x)
              /\ Resolve(P, b, n, x) = Name(s, k, x)
              /\ \A j \in 0..(NextAt(P, b, n, s) - 1) : Declares(P, s, j, x) => j <= k
<1> DEFINE declared(s) == {k \in 0..(NextAt(P, b, n, s) - 1) : Declares(P, s, k, x)}
           found == {s \in Path(P, b) : declared(s) # {}}
<1>1. Resolve(P, b, n, x) = IF found = {} THEN NoName
                            ELSE Name(Max(found), Max(declared(Max(found))), x)
  BY DEF Resolve, NextAt, Below
<1>2. found # {}
  BY <1>1
<1>3. Max(found) \in found
  <2>1. found \in SUBSET (0..b) /\ b \in Nat
    BY PathIsAround, BodiesOfARoutine
  <2> HIDE DEF found
  <2> QED BY <1>2, <2>1, MaxIsGreatest
<1> DEFINE s == Max(found)
           next == NextAt(P, b, n, s)
<1>4. s \in Path(P, b) /\ declared(s) # {} /\ s \in Bodies(P)
  BY <1>3, PathIsAround
<1>5. Resolve(P, b, n, x) = Name(s, Max(declared(s)), x)
  BY <1>1, <1>2
<1> HIDE DEF s
<1>6. next \in Nat /\ next <= Len(Nodes(P, s)) + 1
  <2>1. CASE s = b
    BY <2>1, BodiesOfARoutine DEF NextAt
  <2>2. CASE s # b
    <3>1. Below(P, b, s) \in Bodies(P) \ {1} /\ P.bodies[Below(P, b, s)].parent = s
      BY <1>4, <2>2, PathIsAChain
    <3>2. P.bodies[Below(P, b, s)].at \in DOMAIN Nodes(P, s)
      BY <3>1 DEF WellFormed, Bodies
    <3>3. DOMAIN Nodes(P, s) = 1..Len(Nodes(P, s)) /\ Len(Nodes(P, s)) \in Nat
      BY <1>4, BodiesOfARoutine
    <3> QED BY <2>2, <3>2, <3>3 DEF NextAt
  <2> QED BY <2>1, <2>2
<1>7. Max(declared(s)) \in declared(s) /\ \A j \in declared(s) : j <= Max(declared(s))
  <2> DEFINE D == declared(s)
  <2>1. D \in SUBSET (0..next) /\ D # {}
    BY <1>4, <1>6
  <2> HIDE DEF D, next
  <2>2. Max(D) \in D /\ \A j \in D : j <= Max(D)
    BY <1>6, <2>1, MaxIsGreatest
  <2> QED BY <2>2 DEF D
<1> DEFINE k == Max(declared(s))
<1>8. k \in 0..(next - 1) /\ Declares(P, s, k, x)
      /\ \A j \in 0..(next - 1) : Declares(P, s, j, x) => j <= k
  BY <1>7
<1>9. Resolve(P, b, n, x) = Name(s, k, x)
  BY <1>5
<1> HIDE DEF k, declared
<1>10. Len(Nodes(P, s)) \in Nat
  BY <1>4, BodiesOfARoutine
<1>11. k \in Nat /\ k <= Len(Nodes(P, s)) /\ k < next
  <2> HIDE DEF next
  <2> QED BY <1>6, <1>8, <1>10
<1> QED BY <1>4, <1>8, <1>9, <1>11

\* What the pass resolves is in the finished tables, under some declaration.
LEMMA ResolvedIsFound ==
    ASSUME NEW P, WellFormed(P), NEW b \in Bodies(P), NEW n \in 1..Len(Nodes(P, b)), NEW x,
           Resolve(P, b, n, x) # NoName
    PROVE  LookupName(P, b, x) # NoName
<1>1. PICK s \in Path(P, b), k \in Nat : k <= Len(Nodes(P, s)) /\ Declares(P, s, k, x)
  BY WhatIsResolved
<1>2. s \in Bodies(P) /\ Len(Nodes(P, s)) \in Nat
  BY PathIsAround, BodiesOfARoutine
<1>3. k \in 0..Len(Nodes(P, s))
  BY <1>1, <1>2
<1>4. TableEntry(P, s, x) # NoName
  BY <1>1, <1>2, <1>3, TableHoldsTheLast
<1> QED BY <1>4, LookupFinds

-----------------------------------------------------------------------------
(* Values, instructions and blocks.                                        *)

\* The values there are with i phi nodes and a additions.
ValueRecord == [kind : ValueKinds, of : Consts \cup Idents \cup {""}, n : Nat]
Values(i, a) == {v \in ValueRecord : /\ v.kind = "phi" => v.n \in 1..i
                                     /\ v.kind = "add" => v.n \in 1..a}

\* The instructions and operands of phi nodes there are with n blocks.
Opcodes == {"br", "condbr", "phi", "add", "call", "ret"}
Instrs(i, a, n) == [op : Opcodes, id : Nat, of : Values(i, a), to : Seq(1..n)]
Operands(i, a, n) == Values(i, a) \X (0..n)

\* There are more values with more phi nodes and additions.
LEMMA ThereAreMoreValues ==
    ASSUME NEW i \in Nat, NEW j \in Nat, i <= j, NEW a \in Nat, NEW c \in Nat, a <= c
    PROVE  Values(i, a) \subseteq Values(j, c)
  BY DEF Values

\* What there is with some blocks, phi nodes and additions is there with more.
LEMMA ThereIsMore ==
    ASSUME NEW i \in Nat, NEW j \in Nat, i <= j, NEW a \in Nat, NEW c \in Nat, a <= c,
           NEW n \in Nat, NEW m \in Nat, n <= m
    PROVE  /\ Instrs(i, a, n) \subseteq Instrs(j, c, m)
           /\ Operands(i, a, n) \subseteq Operands(j, c, m)
           /\ Seq(Instrs(i, a, n)) \subseteq Seq(Instrs(j, c, m))
<1>1. Values(i, a) \subseteq Values(j, c)
  BY ThereAreMoreValues
<1>2. ASSUME NEW S, NEW T, S \subseteq T
      PROVE  Seq(S) \subseteq Seq(T)
  BY <1>2, SeqMonotonic
<1>3. Seq(1..n) \subseteq Seq(1..m)
  <2>1. 1..n \subseteq 1..m
    OBVIOUS
  <2> QED BY <1>2, <2>1
<1>4. Instrs(i, a, n) \subseteq Instrs(j, c, m)
  BY <1>1, <1>3 DEF Instrs
<1>5. Operands(i, a, n) \subseteq Operands(j, c, m)
  <2>1. 0..n \subseteq 0..m
    OBVIOUS
  <2> QED BY <1>1, <2>1 DEF Operands
<1> QED BY <1>2, <1>4, <1>5

\* The same for all the code and all the operands there are.
LEMMA CodeStillFits ==
    ASSUME NEW i \in Nat, NEW j \in Nat, i <= j, NEW a \in Nat, NEW c \in Nat, a <= c,
           NEW n \in Nat, NEW m \in Nat, n <= m
    PROVE  /\ Seq(Seq(Instrs(i, a, n))) \subseteq Seq(Seq(Instrs(j, c, m)))
           /\ Seq(Seq(Operands(i, a, n))) \subseteq Seq(Seq(Operands(j, c, m)))
<1> DEFINE I == Instrs(i, a, n)
           J == Instrs(j, c, m)
           O == Operands(i, a, n)
           Q == Operands(j, c, m)
<1>1. I \subseteq J /\ O \subseteq Q
  BY ThereIsMore
<1> HIDE DEF I, J, O, Q
<1>2. Seq(I) \subseteq Seq(J) /\ Seq(O) \subseteq Seq(Q)
  BY <1>1, SeqMonotonic
<1>3. Seq(Seq(I)) \subseteq Seq(Seq(J)) /\ Seq(Seq(O)) \subseteq Seq(Seq(Q))
  BY <1>2, SeqMonotonic
<1> QED BY <1>3 DEF I, J, O, Q

\* The values the generator makes are values, and none of them is Null.
LEMMA MadeValues ==
    ASSUME NEW i \in Nat, NEW a \in Nat
    PROVE  /\ Null \in Values(i, a)
           /\ \A c \in Consts : Literal(c) \in Values(i, a) \ {Null}
           /\ \A x \in Idents : Arg(x) \in Values(i, a) \ {Null}
           /\ \A k \in 1..i : Phi(k) \in Values(i, a) \ {Null}
           /\ \A k \in 1..a : Sum(k) \in Values(i, a) \ {Null}
           /\ One \in Values(i, a) \ {Null}
           /\ \A v \in Values(i, a) \ {Null} : v.kind = "const" =>
                 [v EXCEPT !.n = @ + 1] \in Values(i, a) \ {Null}
<1>1. ASSUME NEW kind \in ValueKinds, NEW of \in Consts \cup Idents \cup {""}, NEW n \in Nat,
             kind = "phi" => n \in 1..i, kind = "add" => n \in 1..a
      PROVE  Value(kind, of, n) \in Values(i, a) /\ Value(kind, of, n).kind = kind
  <2>1. Value(kind, of, n) \in ValueRecord
    BY DEF Value, ValueRecord
  <2>2. Value(kind, of, n).kind = kind /\ Value(kind, of, n).n = n
    BY DEF Value
  <2> QED BY <1>1, <2>1, <2>2 DEF Values
<1>2. Null \in Values(i, a) /\ Null.kind = "null"
  <2>1. "null" \in ValueKinds /\ "" \in Consts \cup Idents \cup {""} /\ 0 \in Nat
        /\ "null" # "phi" /\ "null" # "add"
    BY DEF ValueKinds
  <2> QED BY <2>1, <1>1 DEF Null
<1>3. ASSUME NEW v, NEW kind \in {"const", "arg", "phi", "add"},
             NEW of \in Consts \cup Idents \cup {""}, NEW n \in Nat, v = Value(kind, of, n),
             kind = "phi" => n \in 1..i, kind = "add" => n \in 1..a
      PROVE  v \in Values(i, a) \ {Null}
  <2>1. kind \in ValueKinds /\ kind # "null"
    BY DEF ValueKinds
  <2>2. v \in Values(i, a) /\ v.kind = kind
    BY <1>1, <1>3, <2>1
  <2> QED BY <1>2, <2>1, <2>2
<1>4. \A c \in Consts : Literal(c) \in Values(i, a) \ {Null}
  BY <1>3 DEF Literal
<1>5. \A x \in Idents : Arg(x) \in Values(i, a) \ {Null}
  BY <1>3 DEF Arg
<1>6. ASSUME NEW k \in 1..i PROVE Phi(k) \in Values(i, a) \ {Null}
  <2>1. k \in Nat /\ "phi" # "add" /\ "" \in Consts \cup Idents \cup {""} /\ Phi(k) = Value("phi", "", k)
    BY DEF Phi
  <2> QED BY <2>1, <1>3
<1>7. ASSUME NEW k \in 1..a PROVE Sum(k) \in Values(i, a) \ {Null}
  <2>1. k \in Nat /\ "phi" # "add" /\ "" \in Consts \cup Idents \cup {""} /\ Sum(k) = Value("add", "", k)
    BY DEF Sum
  <2> QED BY <2>1, <1>3
<1>8. One \in Values(i, a) \ {Null}
  BY <1>3 DEF One
<1>9. ASSUME NEW v \in Values(i, a) \ {Null}, v.kind = "const"
      PROVE  [v EXCEPT !.n = @ + 1] \in Values(i, a) \ {Null}
  <2> DEFINE w == [v EXCEPT !.n = v.n + 1]
  <2>1. v \in ValueRecord /\ v.n \in Nat
    BY DEF Values, ValueRecord
  <2>2. v.n + 1 \in Nat
    BY <2>1
  <2>3. w \in ValueRecord
    BY <2>1, <2>2 DEF ValueRecord
  <2>4. w.kind = "const"
    BY <1>9, <2>1 DEF ValueRecord
  <2> HIDE DEF w
  <2>5. w \in Values(i, a) /\ w # Null
    BY <1>2, <2>3, <2>4 DEF Values
  <2> QED BY <2>5 DEF w
<1> QED BY <1>2, <1>4, <1>5, <1>6, <1>7, <1>8, <1>9

\* What LLVM asks of a block, said of one block.
Leading(code) == \A i \in 2..Len(code) : code[i].op = "phi" => code[i - 1].op = "phi"
OnlyPhis(code) == \A i \in 1..Len(code) : code[i].op = "phi"
NoPhis(code) == \A i \in 1..Len(code) : code[i].op # "phi"

\* AppendTo lengthens one block, or none at block 0, and leaves the others.
LEMMA Inserted ==
    ASSUME NEW I, NEW bs \in Seq(Seq(I)), NEW b \in 0..Len(bs), NEW code \in Seq(I)
    PROVE  /\ AppendTo(bs, b, code) \in Seq(Seq(I)) /\ Len(AppendTo(bs, b, code)) = Len(bs)
           /\ \A c \in 1..Len(bs) :
                 AppendTo(bs, b, code)[c] = IF c = b THEN bs[c] \o code ELSE bs[c]
<1>0. Len(bs) \in Nat /\ \A c \in 1..Len(bs) : bs[c] \in Seq(I)
  OBVIOUS
<1>1. CASE b = 0
  BY <1>0, <1>1 DEF AppendTo
<1>2. CASE b # 0
  <2>1. b \in 1..Len(bs) /\ bs[b] \in Seq(I)
    BY <1>0, <1>2
  <2>2. bs[b] \o code \in Seq(I)
    BY <2>1
  <2>3. AppendTo(bs, b, code) = [bs EXCEPT ![b] = bs[b] \o code]
    BY <1>2 DEF AppendTo
  <2> QED BY <2>1, <2>2, <2>3, ExceptSeq
<1> QED BY <1>1, <1>2

\* AppendTo makes no blocks.
LEMMA LengthIsKept ==
    ASSUME NEW I, NEW bs \in Seq(Seq(I)), NEW b \in 0..Len(bs), NEW code \in Seq(I)
    PROVE  Len(AppendTo(bs, b, code)) = Len(bs)
  BY Inserted

\* NewBlocks adds empty blocks after those there are.
LEMMA Created ==
    ASSUME NEW I, NEW bs \in Seq(Seq(I)), NEW n \in Nat
    PROVE  /\ NewBlocks(bs, n) \in Seq(Seq(I)) /\ Len(NewBlocks(bs, n)) = Len(bs) + n
           /\ \A c \in 1..Len(bs) : NewBlocks(bs, n)[c] = bs[c]
           /\ \A c \in Len(bs) + 1..Len(bs) + n : NewBlocks(bs, n)[c] = <<>>
<1> DEFINE new == [k \in 1..n |-> <<>>]
<1>1. new \in Seq(Seq(I)) /\ Len(new) = n /\ \A k \in 1..n : new[k] = <<>>
  <2>1. new \in [1..n -> Seq(I)]
    BY EmptySeq
  <2>2. new \in Seq(Seq(I))
    <3> HIDE DEF new
    <3> QED BY <2>1, SeqDef
  <2> QED BY <2>2
<1>2. NewBlocks(bs, n) = bs \o new
  BY DEF NewBlocks
<1> HIDE DEF new
<1>3. /\ bs \o new \in Seq(Seq(I)) /\ Len(bs \o new) = Len(bs) + Len(new) /\ Len(bs) \in Nat
      /\ \A c \in 1..Len(bs) : (bs \o new)[c] = bs[c]
  <2> DEFINE T == Seq(I)
  <2>1. bs \in Seq(T) /\ new \in Seq(T)
    BY <1>1
  <2> HIDE DEF T
  <2>2. /\ bs \o new \in Seq(T) /\ Len(bs \o new) = Len(bs) + Len(new) /\ Len(bs) \in Nat
        /\ \A c \in 1..Len(bs) : (bs \o new)[c] = bs[c]
    BY <2>1, ConcatProperties
  <2> QED BY <2>2 DEF T
<1>4. ASSUME NEW c \in Len(bs) + 1..Len(bs) + n
      PROVE  (bs \o new)[c] = <<>>
  <2>1. (bs \o new)[c] = new[c - Len(bs)] /\ c - Len(bs) \in 1..n
    BY <1>1, <1>3
  <2> QED BY <1>1, <2>1
<1> QED BY <1>1, <1>2, <1>3, <1>4

\* Nothing but phi nodes comes before phi nodes.
LEMMA PhisAreLed ==
    ASSUME NEW I, NEW s \in Seq(I), NEW code \in Seq(I)
    PROVE  /\ Leading(s) /\ NoPhis(code) => Leading(s \o code)
           /\ OnlyPhis(s) /\ OnlyPhis(code) => OnlyPhis(s \o code)
           /\ OnlyPhis(s) => Leading(s)
<1>1. /\ Len(s) \in Nat /\ Len(code) \in Nat /\ Len(s \o code) = Len(s) + Len(code)
      /\ \A i \in 1..Len(s) : (s \o code)[i] = s[i]
      /\ \A i \in Len(s) + 1..Len(s) + Len(code) :
            (s \o code)[i] = code[i - Len(s)] /\ i - Len(s) \in 1..Len(code)
  BY ConcatProperties
<1> DEFINE t == s \o code
<1> HIDE DEF t
<1>2. ASSUME Leading(s), NoPhis(code), NEW i \in 2..Len(t), t[i].op = "phi"
      PROVE  t[i - 1].op = "phi"
  <2>1. i <= Len(s)
    BY <1>1, <1>2 DEF NoPhis, t
  <2>2. t[i] = s[i] /\ t[i - 1] = s[i - 1] /\ i \in 2..Len(s)
    BY <1>1, <1>2, <2>1 DEF t
  <2> QED BY <1>2, <2>2 DEF Leading
<1>3. ASSUME OnlyPhis(s), OnlyPhis(code), NEW i \in 1..Len(t)
      PROVE  t[i].op = "phi"
  BY <1>1, <1>3 DEF OnlyPhis, t
<1>4. OnlyPhis(s) => Leading(s)
  BY <1>1 DEF OnlyPhis, Leading
<1>5. Leading(s) /\ NoPhis(code) => Leading(t)
  BY <1>2 DEF Leading
<1>6. OnlyPhis(s) /\ OnlyPhis(code) => OnlyPhis(t)
  BY <1>3 DEF OnlyPhis
<1> QED BY <1>4, <1>5, <1>6 DEF t

\* What a step may do to the blocks: only those of W get other instructions
\* than phi nodes, and phi nodes lead in all of them.
Writes(old, new, W) ==
    /\ Len(old) <= Len(new)
    /\ \A c \in 1..Len(new) : Leading(new[c])
    /\ \A c \in 1..Len(new) \ W : (c <= Len(old) => OnlyPhis(old[c])) => OnlyPhis(new[c])

\* Phi nodes lead in every block.
LeadIn(bs) == \A c \in 1..Len(bs) : Leading(bs[c])

\* Other instructions than phi nodes go to the end of one block.
LEMMA CodeIsWritten ==
    ASSUME NEW I, NEW bs \in Seq(Seq(I)), LeadIn(bs), NEW b \in 0..Len(bs),
           NEW code \in Seq(I), NoPhis(code)
    PROVE  Writes(bs, AppendTo(bs, b, code), {b})
<1> DEFINE new == AppendTo(bs, b, code)
<1>1. /\ Len(new) = Len(bs) /\ Len(bs) \in Nat
      /\ \A c \in 1..Len(bs) : bs[c] \in Seq(I) /\ new[c] = IF c = b THEN bs[c] \o code ELSE bs[c]
  <2>1. Len(new) = Len(bs)
    BY LengthIsKept
  <2>2. \A c \in 1..Len(bs) : new[c] = IF c = b THEN bs[c] \o code ELSE bs[c]
    BY Inserted
  <2>3. Len(bs) \in Nat /\ \A c \in 1..Len(bs) : bs[c] \in Seq(I)
    OBVIOUS
  <2> QED BY <2>1, <2>2, <2>3
<1> HIDE DEF new
<1>2. ASSUME NEW c \in 1..Len(bs) PROVE Leading(new[c])
  BY <1>1, PhisAreLed DEF LeadIn
<1> QED BY <1>1, <1>2 DEF Writes, new

\* Phi nodes put into a block that has only phi nodes leave it so.
LEMMA PhisAreWritten ==
    ASSUME NEW I, NEW bs \in Seq(Seq(I)), LeadIn(bs), NEW b \in 1..Len(bs), OnlyPhis(bs[b]),
           NEW code \in Seq(I), OnlyPhis(code)
    PROVE  Writes(bs, AppendTo(bs, b, code), {})
<1> DEFINE new == AppendTo(bs, b, code)
<1>0. b \in 0..Len(bs)
  OBVIOUS
<1>1. /\ Len(new) = Len(bs) /\ new \in Seq(Seq(I))
      /\ \A c \in 1..Len(bs) : new[c] = IF c = b THEN bs[c] \o code ELSE bs[c]
  BY <1>0, Inserted
<1> HIDE DEF new
<1>4. Len(bs) \in Nat /\ \A c \in 1..Len(bs) : bs[c] \in Seq(I) /\ new[c] \in Seq(I)
  BY <1>1
<1>2. OnlyPhis(new[b])
  BY <1>1, <1>4, PhisAreLed
<1>3. ASSUME NEW c \in 1..Len(bs) PROVE Leading(new[c])
  <2>1. CASE c = b
    BY <1>2, <1>4, <2>1, PhisAreLed
  <2>2. CASE c # b
    BY <1>1, <2>2 DEF LeadIn
  <2> QED BY <2>1, <2>2
<1>5. ASSUME NEW c \in 1..Len(bs), OnlyPhis(bs[c]) PROVE OnlyPhis(new[c])
  BY <1>1, <1>2, <1>5
<1>6. Writes(bs, new, {})
  BY <1>1, <1>3, <1>4, <1>5 DEF Writes
<1> QED BY <1>6 DEF new

\* Making blocks writes to none.
LEMMA BlocksAreMade ==
    ASSUME NEW I, NEW bs \in Seq(Seq(I)), LeadIn(bs), NEW n \in Nat
    PROVE  Writes(bs, NewBlocks(bs, n), {})
<1> DEFINE new == NewBlocks(bs, n)
<1>0. Len(bs) \in Nat
  OBVIOUS
<1>1. /\ Len(new) = Len(bs) + n
      /\ \A c \in 1..Len(bs) : new[c] = bs[c]
      /\ \A c \in Len(bs) + 1..Len(bs) + n : new[c] = <<>>
  BY Created
<1> HIDE DEF new
<1>2. Leading(<<>>) /\ OnlyPhis(<<>>)
  BY DEF Leading, OnlyPhis
<1>3. ASSUME NEW c \in 1..Len(new)
      PROVE  Leading(new[c]) /\ ((c <= Len(bs) => OnlyPhis(bs[c])) => OnlyPhis(new[c]))
  <2>1. CASE c <= Len(bs)
    BY <1>1, <2>1 DEF LeadIn
  <2>2. CASE ~(c <= Len(bs))
    <3>1. c \in Len(bs) + 1..Len(bs) + n
      BY <1>0, <1>1, <2>2
    <3> QED BY <1>1, <1>2, <3>1
  <2> QED BY <2>1, <2>2
<1> QED BY <1>0, <1>1, <1>3 DEF Writes, new

\* What two steps write is what either writes.
LEMMA WritesInARow ==
    ASSUME NEW r, NEW s, NEW t, Len(r) \in Nat, Len(s) \in Nat, Len(t) \in Nat, NEW V, NEW W,
           Writes(r, s, V), Writes(s, t, W)
    PROVE  Writes(r, t, V \cup W)
<1>1. Len(r) <= Len(t) /\ \A c \in 1..Len(t) : Leading(t[c])
  BY DEF Writes
<1>2. ASSUME NEW c \in 1..Len(t) \ (V \cup W), c <= Len(r) => OnlyPhis(r[c])
      PROVE  OnlyPhis(t[c])
  <2>1. c <= Len(s) => OnlyPhis(s[c])
    BY <1>2 DEF Writes
  <2> QED BY <2>1 DEF Writes
<1> QED BY <1>1, <1>2 DEF Writes

-----------------------------------------------------------------------------
(* Values of names.                                                        *)

\* Over has the keys of both functions, and the values of either.
LEMMA OverHasBoth ==
    ASSUME NEW V, NEW new, NEW old, new \in [DOMAIN new -> V], old \in [DOMAIN old -> V]
    PROVE  /\ DOMAIN Over(new, old) = DOMAIN new \cup DOMAIN old
           /\ Over(new, old) \in [DOMAIN Over(new, old) -> V]
  BY DEF Over

\* A function of one key.
LEMMA OneValue ==
    ASSUME NEW V, NEW key, NEW v \in V
    PROVE  /\ DOMAIN [k \in {key} |-> v] = {key}
           /\ [k \in {key} |-> v] \in [DOMAIN [k \in {key} |-> v] -> V]
  OBVIOUS

\* The elements of a concatenation are those of both sequences.
LEMMA ElementsOfBoth ==
    ASSUME NEW T, NEW r \in Seq(T), NEW s \in Seq(T)
    PROVE  ToSet(r \o s) = ToSet(r) \cup ToSet(s)
<1>1. /\ r \o s \in Seq(T) /\ Len(r \o s) = Len(r) + Len(s) /\ Len(r) \in Nat /\ Len(s) \in Nat
      /\ \A k \in 1..Len(r) : (r \o s)[k] = r[k]
      /\ \A k \in Len(r) + 1..Len(r) + Len(s) : (r \o s)[k] = s[k - Len(r)]
  BY ConcatProperties
<1>2. /\ ToSet(r \o s) = {(r \o s)[k] : k \in 1..(Len(r) + Len(s))}
      /\ ToSet(r) = {r[k] : k \in 1..Len(r)} /\ ToSet(s) = {s[k] : k \in 1..Len(s)}
  <2>1. DOMAIN (r \o s) = 1..(Len(r) + Len(s)) /\ DOMAIN r = 1..Len(r) /\ DOMAIN s = 1..Len(s)
    BY <1>1
  <2> QED BY <2>1 DEF ToSet
<1>3. ASSUME NEW k \in 1..(Len(r) + Len(s))
      PROVE  (r \o s)[k] \in ToSet(r) \cup ToSet(s)
  <2>1. CASE k <= Len(r)
    BY <1>1, <1>2, <2>1
  <2>2. CASE ~(k <= Len(r))
    <3>1. k \in Len(r) + 1..Len(r) + Len(s) /\ k - Len(r) \in 1..Len(s)
      BY <1>1, <2>2
    <3> QED BY <1>1, <1>2, <3>1
  <2> QED BY <2>1, <2>2
<1>4. ASSUME NEW k \in 1..Len(r) PROVE r[k] \in ToSet(r \o s)
  BY <1>1, <1>2
<1>5. ASSUME NEW k \in 1..Len(s) PROVE s[k] \in ToSet(r \o s)
  <2>1. Len(r) + k \in Len(r) + 1..Len(r) + Len(s) /\ (Len(r) + k) - Len(r) = k
        /\ Len(r) + k \in 1..(Len(r) + Len(s))
    BY <1>1
  <2> QED BY <1>1, <1>2, <2>1
<1> QED BY <1>2, <1>3, <1>4, <1>5

-----------------------------------------------------------------------------
(* The stack of bodies.                                                    *)

\* Names and frames, without what they must say of the routine.
NameRecord == [scope : Nat, at : Nat, ident : Idents \cup {NoIdent}]
FrameRecord == [body : Nat, at : Nat, kind : FrameKinds, begin : Nat, first : Nat, other : Nat,
                end : Nat, tail : Nat, lo : ValueRecord, names : Seq(NameRecord), phis : Nat]

\* A name of a body around s that s finds.
ComesFromAround(P, s, name) ==
    name.scope \in Path(P, s) \ {s} /\ LookupName(P, s, name.ident) = name

\* The blocks a frame has made for later, and those it refers to.
Pending(f) ==
    (IF f.kind = "routine" THEN {} ELSE {f.end})
    \cup (IF f.kind \in {"stub", "condition", "forStub"} THEN {f.first} ELSE {})
    \cup (IF f.kind \in {"true", "stub", "condition"} THEN {f.other} ELSE {})
Referred(f) ==
    Pending(f) \cup (IF f.kind \in {"while", "for"} THEN {f.first} ELSE {})
               \cup (IF f.kind = "while" THEN {f.other} ELSE {})

\* The kinds of frames of while and for loops, and those with known operands.
Loops == {"stub", "condition", "while"}
ForLoops == {"forStub", "for"}
Learned == {"condition", "while", "for"}

\* Frame f is that of a body of statement st.
Generates(f, st) ==
    /\ st.valid /\ f.kind # "routine"
    /\ f.kind = "true" => st.op = "if" /\ f.body = st.then /\ (st.else = 0 <=> f.other = f.end)
    /\ f.kind = "false" => st.op = "if" /\ f.body = st.else /\ st.else # 0
    /\ f.kind \in Loops => st.op = "while" /\ f.body = st.then
    /\ f.kind \in ForLoops => st.op = "for" /\ f.body = st.then

(***************************************************************************)
(* A frame fits routine P with n blocks, i phi nodes and a additions, when *)
(* D are the names that have values.                                       *)
(***************************************************************************)
FitsIn(f, P, n, i, a, D) ==
    /\ f.body \in Bodies(P) /\ f.at \in 1..(Len(Nodes(P, f.body)) + 1)
    /\ f.lo \in Values(i, a)
    /\ {f.begin, f.tail, f.first, f.other} \subseteq 0..n /\ Referred(f) \subseteq 1..n
    /\ f.kind \in {"stub", "condition"} => f.first # f.other /\ f.first # f.end /\ f.other # f.end
    /\ f.kind = "forStub" => f.first # f.end
    /\ f.kind \in Learned =>
          /\ \A name \in ToSet(f.names) : ComesFromAround(P, f.body, name) /\ <<name, f.body>> \in D
          /\ f.phis + Len(f.names) <= i
    /\ f.kind = "for" => f.phis + Len(f.names) < i

\* The node that a frame is at.
NodeOf(P, f) == Nodes(P, f.body)[f.at]

\* Every frame fits and is that of a body of the statement the one below is at.
FramesIn(st, P, n, i, a, D) ==
    /\ \A k \in 1..Len(st) : FitsIn(st[k], P, n, i, a, D)
    /\ st[1].kind = "routine" /\ st[1].body = 1
    /\ \A k \in 1..Len(st) - 1 :
          st[k].at <= Len(Nodes(P, st[k].body)) /\ Generates(st[k + 1], NodeOf(P, st[k]))

\* No two frames wait for a block, and only phi nodes are in it yet.
ApartIn(st, cur, bs) ==
    /\ \A j, k \in 1..Len(st) : j # k => Pending(st[j]) \cap Pending(st[k]) = {}
    /\ \A k \in 1..Len(st) : cur \notin Pending(st[k])
    /\ \A k \in 1..Len(st) : \A b \in Pending(st[k]) : OnlyPhis(bs[b])

\* The names a frame has declared have values in its scope.
HasValues(f, P, D) ==
    /\ \A k \in 1..(f.at - 1) : LET n == Nodes(P, f.body)[k] IN
          n.op = "var" /\ n.valid => <<Name(f.body, k, n.ident), f.body>> \in D
    /\ LET x == P.bodies[f.body].counter IN
          x # NoIdent => <<LookupName(P, f.body, x), f.body>> \in D

\* What the stack, the insertion point and the blocks have to do with each other.
StackInv(st, P, bs, cur, i, a, D) ==
    /\ FramesIn(st, P, Len(bs), i, a, D) /\ ApartIn(st, cur, bs) /\ LeadIn(bs)
    /\ \A k \in 1..Len(st) : HasValues(st[k], P, D)

(***************************************************************************)
(* A frame still fits when there are more blocks, phi nodes and values.    *)
(***************************************************************************)
LEMMA FrameStillFits ==
    ASSUME NEW P, NEW n \in Nat, NEW m \in Nat, n <= m, NEW i \in Nat, NEW j \in Nat, i <= j,
           NEW a \in Nat, NEW c \in Nat, a <= c, NEW D, NEW E, D \subseteq E
    PROVE  \A f : f \in FrameRecord /\ FitsIn(f, P, n, i, a, D) => FitsIn(f, P, m, j, c, E)
<1> SUFFICES ASSUME NEW f, f \in FrameRecord, FitsIn(f, P, n, i, a, D)
             PROVE  FitsIn(f, P, m, j, c, E)
  OBVIOUS
<1>1. f.lo \in Values(j, c)
  <2>1. f.lo \in Values(i, a)
    BY DEF FitsIn
  <2> QED BY <2>1, ThereAreMoreValues
<1>2. {f.begin, f.tail, f.first, f.other} \subseteq 0..m /\ Referred(f) \subseteq 1..m
  <2>1. {f.begin, f.tail, f.first, f.other} \subseteq 0..n /\ Referred(f) \subseteq 1..n
    BY DEF FitsIn
  <2>2. 0..n \subseteq 0..m /\ 1..n \subseteq 1..m
    OBVIOUS
  <2> QED BY <2>1, <2>2
<1>3. f.phis \in Nat /\ Len(f.names) \in Nat
  BY DEF FrameRecord
<1>4. f.kind \in Learned =>
          /\ \A name \in ToSet(f.names) : ComesFromAround(P, f.body, name) /\ <<name, f.body>> \in E
          /\ f.phis + Len(f.names) <= j
  BY <1>3 DEF FitsIn
<1>5. f.kind = "for" => f.phis + Len(f.names) < j
  BY <1>3 DEF FitsIn
<1> QED BY <1>1, <1>2, <1>4, <1>5 DEF FitsIn

\* Moving on to another node changes nothing else of a frame.
LEMMA FrameMoves ==
    ASSUME NEW f \in FrameRecord, NEW at \in Nat
    PROVE  LET g == [f EXCEPT !.at = at] IN
           /\ g \in FrameRecord /\ g.at = at
           /\ g.body = f.body /\ g.kind = f.kind /\ g.begin = f.begin /\ g.first = f.first
           /\ g.other = f.other /\ g.end = f.end /\ g.tail = f.tail /\ g.lo = f.lo
           /\ g.names = f.names /\ g.phis = f.phis
           /\ Pending(g) = Pending(f) /\ Referred(g) = Referred(f)
           /\ \A st : Generates(f, st) <=> Generates(g, st)
<1> DEFINE g == [f EXCEPT !.at = at]
<1>1. /\ g \in FrameRecord /\ g.at = at
      /\ g.body = f.body /\ g.kind = f.kind /\ g.begin = f.begin /\ g.first = f.first
      /\ g.other = f.other /\ g.end = f.end /\ g.tail = f.tail /\ g.lo = f.lo
      /\ g.names = f.names /\ g.phis = f.phis
  BY DEF FrameRecord
<1> HIDE DEF g
<1>2. Pending(g) = Pending(f)
  BY <1>1 DEF Pending
<1>3. Referred(g) = Referred(f)
  BY <1>1, <1>2 DEF Referred
<1>4. \A st : Generates(f, st) <=> Generates(g, st)
  BY <1>1 DEF Generates
<1> QED BY <1>1, <1>2, <1>3, <1>4 DEF g

(***************************************************************************)
(* The top frame changes: it waits for no more blocks than before.         *)
(***************************************************************************)
LEMMA TopChanges ==
    ASSUME NEW P, NEW st \in Seq(FrameRecord), st # <<>>, NEW f \in FrameRecord,
           NEW bs, NEW cs, Len(bs) \in Nat, Len(cs) \in Nat, NEW cur, NEW ins,
           NEW i \in Nat, NEW j \in Nat, i <= j, NEW a \in Nat, NEW c \in Nat, a <= c,
           NEW D, NEW E, D \subseteq E, NEW W,
           StackInv(st, P, bs, cur, i, a, D), Writes(bs, cs, W),
           W \subseteq {cur} \cup Pending(st[Len(st)]), W \cap Pending(f) = {},
           ins \in {cur} \cup Pending(st[Len(st)]), ins \notin Pending(f),
           Pending(f) \subseteq Pending(st[Len(st)]),
           FitsIn(f, P, Len(cs), j, c, E), HasValues(f, P, E),
           Len(st) = 1 => f.kind = "routine" /\ f.body = 1,
           Len(st) > 1 => Generates(f, NodeOf(P, st[Len(st) - 1]))
    PROVE  LET new == [st EXCEPT ![Len(st)] = f] IN
           new \in Seq(FrameRecord) /\ new # <<>> /\ StackInv(new, P, cs, ins, j, c, E)
<1> DEFINE new == [st EXCEPT ![Len(st)] = f]
           top == Len(st)
<1>1. /\ new \in Seq(FrameRecord) /\ Len(new) = top /\ top \in Nat /\ top > 0 /\ new # <<>>
      /\ \A k \in 1..top - 1 : new[k] = st[k]
      /\ new[top] = f
  BY ExceptSeq
<1>2. \A k \in 1..top : st[k] \in FrameRecord
  OBVIOUS
<1> HIDE DEF new, top
<1>3. Len(bs) <= Len(cs)
  BY DEF Writes
<1>4. /\ \A k \in 1..top : FitsIn(st[k], P, Len(bs), i, a, D) /\ HasValues(st[k], P, D)
      /\ st[1].kind = "routine" /\ st[1].body = 1
      /\ \A k \in 1..top - 1 :
            st[k].at <= Len(Nodes(P, st[k].body)) /\ Generates(st[k + 1], NodeOf(P, st[k]))
      /\ ApartIn(st, cur, bs) /\ LeadIn(bs)
  BY DEF StackInv, FramesIn, top
<1>5. ASSUME NEW k \in 1..top
      PROVE  FitsIn(new[k], P, Len(cs), j, c, E) /\ HasValues(new[k], P, E)
  <2>1. CASE k = top
    BY <1>1, <2>1
  <2>2. CASE k # top
    <3>1. k \in 1..top - 1 /\ st[k] \in FrameRecord
      BY <1>1, <1>2, <2>2
    <3>2. FitsIn(st[k], P, Len(cs), j, c, E)
      BY <1>3, <1>4, <3>1, FrameStillFits
    <3>3. HasValues(st[k], P, E)
      BY <1>4, <3>1 DEF HasValues
    <3> QED BY <1>1, <3>1, <3>2, <3>3
  <2> QED BY <2>1, <2>2
<1>6. new[1].kind = "routine" /\ new[1].body = 1
  <2>1. CASE top = 1
    BY <1>1, <2>1 DEF top
  <2>2. CASE top # 1
    BY <1>1, <1>4, <2>2
  <2> QED BY <2>1, <2>2
<1>7. ASSUME NEW k \in 1..top - 1
      PROVE  new[k].at <= Len(Nodes(P, new[k].body)) /\ Generates(new[k + 1], NodeOf(P, new[k]))
  <2>1. new[k] = st[k] /\ Generates(st[k + 1], NodeOf(P, st[k])) /\ st[k].at <= Len(Nodes(P, st[k].body))
    BY <1>1, <1>4
  <2>2. Generates(new[k + 1], NodeOf(P, st[k]))
    <3>1. CASE k + 1 = top
      <4>1. top > 1 /\ top - 1 = k
        BY <1>1, <3>1
      <4>2. Generates(f, NodeOf(P, st[k]))
        BY <4>1 DEF top
      <4> QED BY <1>1, <3>1, <4>2
    <3>2. CASE k + 1 # top
      <4>1. k + 1 \in 1..top - 1
        BY <1>1, <3>2
      <4> QED BY <1>1, <2>1, <4>1
    <3> QED BY <3>1, <3>2
  <2> QED BY <2>1, <2>2
<1>8. FramesIn(new, P, Len(cs), j, c, E)
  BY <1>1, <1>5, <1>6, <1>7 DEF FramesIn
<1>9. ASSUME NEW k \in 1..top
      PROVE  Pending(new[k]) \subseteq Pending(st[k]) /\ Pending(st[k]) \subseteq 1..Len(bs)
  <2>1. Pending(st[k]) \subseteq 1..Len(bs)
    BY <1>4 DEF FitsIn, Referred
  <2>2. CASE k = top
    BY <1>1, <2>1, <2>2 DEF top
  <2>3. CASE k # top
    BY <1>1, <2>1, <2>3
  <2> QED BY <2>2, <2>3
<1>10. \A k, l \in 1..top : k # l => Pending(st[k]) \cap Pending(st[l]) = {}
  BY <1>4 DEF ApartIn, top
<1>11. \A k \in 1..top : cur \notin Pending(st[k]) /\ \A b \in Pending(st[k]) : OnlyPhis(bs[b])
  BY <1>4 DEF ApartIn, top
<1>12. ASSUME NEW k \in 1..top
       PROVE  ins \notin Pending(new[k]) /\ W \cap Pending(new[k]) = {}
  <2>1. CASE k = top
    BY <1>1, <2>1
  <2>2. CASE k # top
    <3>0. k \in 1..top - 1 /\ top \in 1..top
      BY <1>1, <2>2
    <3>1. new[k] = st[k] /\ Pending(st[k]) \cap Pending(st[top]) = {} /\ cur \notin Pending(st[k])
      BY <1>1, <1>10, <1>11, <2>2, <3>0
    <3> QED BY <3>1 DEF top
  <2> QED BY <2>1, <2>2
<1>13. ASSUME NEW k \in 1..top, NEW b \in Pending(new[k])
       PROVE  OnlyPhis(cs[b])
  <2>0. b \in Pending(st[k]) /\ b \in 1..Len(bs)
    BY <1>9
  <2>1. b \in 1..Len(cs) /\ OnlyPhis(bs[b])
    BY <1>3, <1>11, <2>0
  <2>2. b \notin W
    BY <1>12
  <2> QED BY <2>1, <2>2 DEF Writes
<1>14. ApartIn(new, ins, cs)
  <2>1. \A k, l \in 1..top : k # l => Pending(new[k]) \cap Pending(new[l]) = {}
    BY <1>9, <1>10
  <2> QED BY <1>1, <1>12, <1>13, <2>1 DEF ApartIn
<1>15. LeadIn(cs)
  BY DEF Writes, LeadIn
<1>16. StackInv(new, P, cs, ins, j, c, E)
  BY <1>1, <1>5, <1>8, <1>14, <1>15 DEF StackInv
<1> QED BY <1>1, <1>16 DEF new

\* A sequence with one more element at its end.
LEMMA OneMore ==
    ASSUME NEW T, NEW s \in Seq(T), s # <<>>, NEW e \in T
    PROVE  LET new == Append(s, e) IN
           /\ new \in Seq(T) /\ Len(new) = Len(s) + 1 /\ Len(s) \in Nat /\ Len(s) > 0 /\ new # <<>>
           /\ \A k \in 1..Len(s) : new[k] = s[k]
           /\ new[Len(s) + 1] = e
  BY AppendProperties

(***************************************************************************)
(* A statement begins to generate a body: the frame for it waits only for  *)
(* blocks that have just been made.                                        *)
(***************************************************************************)
LEMMA BodyIsCalled ==
    ASSUME NEW P, NEW st \in Seq(FrameRecord), st # <<>>, NEW f \in FrameRecord,
           NEW bs, NEW cs, Len(bs) \in Nat, Len(cs) \in Nat, NEW cur \in 0..Len(bs), NEW ins,
           NEW i \in Nat, NEW j \in Nat, i <= j, NEW a \in Nat, NEW c \in Nat, a <= c,
           NEW D, NEW E, D \subseteq E,
           StackInv(st, P, bs, cur, i, a, D), Writes(bs, cs, {cur}),
           Pending(f) \subseteq Len(bs) + 1..Len(cs),
           ins \in {0} \cup (Len(bs) + 1..Len(cs)), ins \notin Pending(f),
           st[Len(st)].at <= Len(Nodes(P, st[Len(st)].body)),
           Generates(f, NodeOf(P, st[Len(st)])),
           FitsIn(f, P, Len(cs), j, c, E), HasValues(f, P, E)
    PROVE  LET new == Append(st, f) IN
           new \in Seq(FrameRecord) /\ new # <<>> /\ StackInv(new, P, cs, ins, j, c, E)
<1> DEFINE new == Append(st, f)
           top == Len(st)
<1>1. /\ new \in Seq(FrameRecord) /\ Len(new) = top + 1 /\ top \in Nat /\ top > 0 /\ new # <<>>
      /\ \A k \in 1..top : new[k] = st[k]
      /\ new[top + 1] = f
  BY OneMore
<1>2. \A k \in 1..top : st[k] \in FrameRecord
  OBVIOUS
<1> HIDE DEF new, top
<1>3. Len(bs) <= Len(cs)
  BY DEF Writes
<1>4. /\ \A k \in 1..top : FitsIn(st[k], P, Len(bs), i, a, D) /\ HasValues(st[k], P, D)
      /\ st[1].kind = "routine" /\ st[1].body = 1
      /\ \A k \in 1..top - 1 :
            st[k].at <= Len(Nodes(P, st[k].body)) /\ Generates(st[k + 1], NodeOf(P, st[k]))
  BY DEF StackInv, FramesIn, top
<1>5. ASSUME NEW k \in 1..top + 1
      PROVE  FitsIn(new[k], P, Len(cs), j, c, E) /\ HasValues(new[k], P, E)
  <2>1. CASE k = top + 1
    BY <1>1, <2>1
  <2>2. CASE k # top + 1
    <3>0. top \in Nat
      BY <1>1
    <3>1. k \in 1..top /\ st[k] \in FrameRecord
      BY <1>2, <2>2, <3>0
    <3>2. FitsIn(st[k], P, Len(cs), j, c, E)
      BY <1>3, <1>4, <3>1, FrameStillFits
    <3>3. HasValues(st[k], P, E)
      BY <1>4, <3>1 DEF HasValues
    <3> QED BY <1>1, <3>1, <3>2, <3>3
  <2> QED BY <2>1, <2>2
<1>6. new[1].kind = "routine" /\ new[1].body = 1
  BY <1>1, <1>4
<1>7. ASSUME NEW k \in 1..top
      PROVE  new[k].at <= Len(Nodes(P, new[k].body)) /\ Generates(new[k + 1], NodeOf(P, new[k]))
  <2>1. CASE k = top
    <3>1. new[k] = st[top] /\ new[k + 1] = f
      BY <1>1, <2>1
    <3> QED BY <3>1 DEF top
  <2>2. CASE k # top
    <3>0. top \in Nat
      BY <1>1
    <3>1. k \in 1..top - 1 /\ k + 1 \in 1..top
      BY <2>2, <3>0
    <3> QED BY <1>1, <1>4, <3>1
  <2> QED BY <2>1, <2>2
<1>8. FramesIn(new, P, Len(cs), j, c, E)
  <2>1. (top + 1) - 1 = top
    BY <1>1
  <2> QED BY <1>1, <1>5, <1>6, <1>7, <2>1 DEF FramesIn
<1>9. ASSUME NEW k \in 1..top
      PROVE  /\ new[k] = st[k] /\ Pending(st[k]) \subseteq 1..Len(bs) /\ cur \notin Pending(st[k])
             /\ \A b \in Pending(st[k]) : OnlyPhis(bs[b])
             /\ \A l \in 1..top : k # l => Pending(st[k]) \cap Pending(st[l]) = {}
  <2>1. Pending(st[k]) \subseteq 1..Len(bs)
    BY <1>4 DEF FitsIn, Referred
  <2> QED BY <1>1, <2>1 DEF StackInv, ApartIn, top
<1>10. Pending(f) \cap 1..Len(bs) = {} /\ cur \notin Pending(f) /\ ins \notin 1..Len(bs)
  OBVIOUS
<1>11. ASSUME NEW k \in 1..top + 1
       PROVE  /\ ins \notin Pending(new[k])
              /\ \A b \in Pending(new[k]) : OnlyPhis(cs[b])
              /\ \A l \in 1..top + 1 : k # l => Pending(new[k]) \cap Pending(new[l]) = {}
  <2>1. CASE k = top + 1
    <3>1. new[k] = f
      BY <1>1, <2>1
    <3>2. ASSUME NEW b \in Pending(f) PROVE OnlyPhis(cs[b])
      <4>1. b \in 1..Len(cs) \ {cur} /\ ~(b <= Len(bs))
        BY <1>10
      <4> QED BY <4>1 DEF Writes
    <3>3. ASSUME NEW l \in 1..top + 1, l # k PROVE Pending(f) \cap Pending(new[l]) = {}
      <4>1. l \in 1..top
        BY <1>1, <2>1, <3>3
      <4> QED BY <1>9, <1>10, <4>1
    <3> QED BY <3>1, <3>2, <3>3
  <2>2. CASE k # top + 1
    <3>1. k \in 1..top
      BY <1>1, <2>2
    <3>2. new[k] = st[k] /\ ins \notin Pending(st[k])
      BY <1>9, <1>10, <3>1
    <3>3. ASSUME NEW b \in Pending(st[k]) PROVE OnlyPhis(cs[b])
      <4>1. b \in 1..Len(bs) /\ b # cur /\ OnlyPhis(bs[b])
        BY <1>9, <3>1
      <4>2. b \in 1..Len(cs) \ {cur}
        BY <1>3, <4>1
      <4> QED BY <4>1, <4>2 DEF Writes
    <3>4. ASSUME NEW l \in 1..top + 1, l # k PROVE Pending(st[k]) \cap Pending(new[l]) = {}
      <4>1. CASE l = top + 1
        BY <1>1, <1>9, <1>10, <3>1, <4>1
      <4>2. CASE l # top + 1
        <5>1. l \in 1..top
          BY <1>1, <4>2
        <5> QED BY <1>9, <3>1, <3>4, <5>1
      <4> QED BY <4>1, <4>2
    <3> QED BY <3>2, <3>3, <3>4
  <2> QED BY <2>1, <2>2
<1>12. ApartIn(new, ins, cs)
  BY <1>1, <1>11 DEF ApartIn
<1>13. LeadIn(cs)
  BY DEF Writes, LeadIn
<1>14. StackInv(new, P, cs, ins, j, c, E)
  BY <1>1, <1>5, <1>8, <1>12, <1>13 DEF StackInv
<1> QED BY <1>1, <1>14 DEF new

(***************************************************************************)
(* The last body of a statement has been generated: what follows goes into *)
(* a block that only its frame waited for.                                 *)
(***************************************************************************)
LEMMA BodyIsLeft ==
    ASSUME NEW P, WellFormed(P), NEW st \in Seq(FrameRecord), Len(st) > 1,
           NEW bs, NEW cs, Len(bs) \in Nat, Len(cs) \in Nat, NEW cur, NEW ins,
           NEW i \in Nat, NEW j \in Nat, i <= j, NEW a \in Nat, NEW c \in Nat, a <= c,
           NEW D, NEW E, D \subseteq E,
           StackInv(st, P, bs, cur, i, a, D), Writes(bs, cs, {cur}),
           ins \in Pending(st[Len(st)])
    PROVE  LET new == [Front(st) EXCEPT ![Len(st) - 1].at = @ + 1] IN
           new \in Seq(FrameRecord) /\ new # <<>> /\ StackInv(new, P, cs, ins, j, c, E)
<1> DEFINE top == Len(st) - 1
           front == Front(st)
           g == [front[top] EXCEPT !.at = front[top].at + 1]
           new == [front EXCEPT ![top] = g]
<1>1. /\ front \in Seq(FrameRecord) /\ Len(front) = top /\ top \in Nat /\ top > 0 /\ Len(st) = top + 1
      /\ \A k \in 1..top : front[k] = st[k]
  <2>1. /\ Len(st) - 1 \in Int /\ 1 \in Int /\ Len(st) \in Nat /\ Len(st) - 1 >= 1
        /\ \A k \in 1..Len(st) - 1 : st[k] \in FrameRecord
    OBVIOUS
  <2> HIDE DEF front, top
  <2>2. /\ SubSeq(st, 1, Len(st) - 1) \in Seq(FrameRecord)
        /\ Len(SubSeq(st, 1, Len(st) - 1)) = Len(st) - 1
        /\ \A k \in 1..Len(st) - 1 : SubSeq(st, 1, Len(st) - 1)[k] = st[k]
    BY <2>1, SubSeqProperties
  <2>3. front = SubSeq(st, 1, Len(st) - 1) /\ top = Len(st) - 1
    BY DEF front, top, Front
  <2> QED BY <2>1, <2>2, <2>3
<1>2. \A k \in 1..Len(st) : st[k] \in FrameRecord
  OBVIOUS
<1>3. [front EXCEPT ![top].at = @ + 1] = new
  OBVIOUS
<1>4. front[top] = st[top] /\ st[top] \in FrameRecord /\ st[top].at \in Nat /\ st[top].at + 1 \in Nat
  <2> HIDE DEF front, top
  <2>1. top \in 1..top /\ top \in 1..Len(st)
    BY <1>1
  <2>2. front[top] = st[top] /\ st[top] \in FrameRecord
    BY <1>1, <1>2, <2>1
  <2>3. st[top].at \in Nat
    BY <2>2 DEF FrameRecord
  <2> QED BY <2>2, <2>3
<1>5. /\ g \in FrameRecord /\ g.at = st[top].at + 1
      /\ g.body = st[top].body /\ g.kind = st[top].kind /\ Pending(g) = Pending(st[top])
      /\ Referred(g) = Referred(st[top])
      /\ \A s : Generates(st[top], s) => Generates(g, s)
      /\ g.begin = st[top].begin /\ g.first = st[top].first /\ g.other = st[top].other
      /\ g.end = st[top].end /\ g.tail = st[top].tail /\ g.lo = st[top].lo
      /\ g.names = st[top].names /\ g.phis = st[top].phis
  BY <1>4, FrameMoves
<1> HIDE DEF front, g
<1>6. /\ new \in Seq(FrameRecord) /\ Len(new) = top /\ new # <<>>
      /\ \A k \in 1..top - 1 : new[k] = st[k]
      /\ new[top] = g
  BY <1>1, <1>5, ExceptSeq
<1> HIDE DEF new, top
<1>7. Len(bs) <= Len(cs)
  BY DEF Writes
<1>8. /\ \A k \in 1..top + 1 : FitsIn(st[k], P, Len(bs), i, a, D) /\ HasValues(st[k], P, D)
      /\ st[1].kind = "routine" /\ st[1].body = 1
      /\ \A k \in 1..top :
            st[k].at <= Len(Nodes(P, st[k].body)) /\ Generates(st[k + 1], NodeOf(P, st[k]))
  <2>1. Len(st) - 1 = top
    BY <1>1
  <2> QED BY <1>1, <2>1 DEF StackInv, FramesIn
<1>9. FitsIn(st[top], P, Len(cs), j, c, E) /\ st[top].body \in Bodies(P)
  <2>1. FitsIn(st[top], P, Len(bs), i, a, D)
    BY <1>1, <1>8
  <2>2. FitsIn(st[top], P, Len(cs), j, c, E)
    BY <1>4, <1>7, <2>1, FrameStillFits
  <2> QED BY <2>1, <2>2 DEF FitsIn
<1>10. FitsIn(g, P, Len(cs), j, c, E)
  <2>1. g.at \in 1..(Len(Nodes(P, g.body)) + 1)
    <3>1. Len(Nodes(P, st[top].body)) \in Nat
      BY <1>9, BodiesOfARoutine
    <3>2. top \in 1..top
      BY <1>1
    <3>3. st[top].at <= Len(Nodes(P, st[top].body))
      BY <1>8, <3>2
    <3> DEFINE h == st[top].at
               n == Len(Nodes(P, st[top].body))
    <3>4. h \in Nat /\ n \in Nat /\ h <= n
      BY <1>4, <3>1, <3>3
    <3>5. g.at = h + 1 /\ Len(Nodes(P, g.body)) = n
      BY <1>5
    <3> HIDE DEF h, n
    <3> QED BY <3>4, <3>5
  <2> QED BY <1>5, <1>9, <2>1 DEF FitsIn
<1>11. HasValues(g, P, E)
  <2>1. HasValues(st[top], P, D) /\ Generates(st[top + 1], NodeOf(P, st[top]))
        /\ st[top + 1].kind \in FrameKinds
    <3>1. top \in 1..top /\ top \in 1..top + 1 /\ top + 1 \in 1..Len(st)
      BY <1>1
    <3>2. st[top + 1] \in FrameRecord
      BY <1>2, <3>1
    <3>3. st[top + 1].kind \in FrameKinds
      BY <3>2 DEF FrameRecord
    <3> QED BY <1>8, <3>1, <3>3
  <2>2. NodeOf(P, st[top]).op # "var"
    BY <2>1 DEF Generates, FrameKinds, Loops, ForLoops
  <2>3. ASSUME NEW k \in 1..(g.at - 1), Nodes(P, g.body)[k].op = "var", Nodes(P, g.body)[k].valid
        PROVE  <<Name(g.body, k, Nodes(P, g.body)[k].ident), g.body>> \in E
    <3>1. k # st[top].at
      BY <1>5, <2>2, <2>3 DEF NodeOf
    <3>2. k \in 1..(st[top].at - 1)
      <4> DEFINE h == st[top].at
      <4>1. k \in 1..(h + 1) - 1
        BY <1>5
      <4>2. h \in Nat /\ k # h
        BY <1>4, <3>1
      <4> HIDE DEF h
      <4>3. k \in 1..(h - 1)
        BY <4>1, <4>2
      <4> QED BY <4>3 DEF h
    <3> QED BY <1>5, <2>1, <2>3, <3>2 DEF HasValues
  <2>4. LET x == P.bodies[g.body].counter IN
           x # NoIdent => <<LookupName(P, g.body, x), g.body>> \in E
    BY <1>5, <2>1 DEF HasValues
  <2> QED BY <2>3, <2>4 DEF HasValues
<1>12. ASSUME NEW k \in 1..top
       PROVE  FitsIn(new[k], P, Len(cs), j, c, E) /\ HasValues(new[k], P, E)
  <2>1. CASE k = top
    BY <1>6, <1>10, <1>11, <2>1
  <2>2. CASE k # top
    <3>1. k \in 1..top - 1 /\ st[k] \in FrameRecord /\ k \in 1..top + 1
      BY <1>1, <1>2, <2>2
    <3>2. FitsIn(st[k], P, Len(cs), j, c, E)
      BY <1>7, <1>8, <3>1, FrameStillFits
    <3>3. HasValues(st[k], P, E)
      BY <1>8, <3>1 DEF HasValues
    <3> QED BY <1>6, <3>1, <3>2, <3>3
  <2> QED BY <2>1, <2>2
<1>13. new[1].kind = "routine" /\ new[1].body = 1
  <2>1. CASE top = 1
    BY <1>5, <1>6, <1>8, <2>1
  <2>2. CASE top # 1
    BY <1>1, <1>6, <1>8, <2>2
  <2> QED BY <2>1, <2>2
<1>14. ASSUME NEW k \in 1..top - 1
       PROVE  new[k].at <= Len(Nodes(P, new[k].body)) /\ Generates(new[k + 1], NodeOf(P, new[k]))
  <2>1. new[k] = st[k] /\ k \in 1..top /\ k + 1 \in 1..top
    BY <1>1, <1>6
  <2>2. CASE k + 1 = top
    BY <1>5, <1>6, <1>8, <2>1, <2>2
  <2>3. CASE k + 1 # top
    <3>1. k + 1 \in 1..top - 1
      BY <1>1, <2>1, <2>3
    <3> QED BY <1>6, <1>8, <2>1, <3>1
  <2> QED BY <2>2, <2>3
<1>15. FramesIn(new, P, Len(cs), j, c, E)
  BY <1>6, <1>12, <1>13, <1>14 DEF FramesIn
<1>16. ASSUME NEW k \in 1..top
       PROVE  /\ Pending(new[k]) = Pending(st[k]) /\ Pending(st[k]) \subseteq 1..Len(bs)
              /\ cur \notin Pending(st[k]) /\ ins \notin Pending(st[k])
              /\ \A b \in Pending(st[k]) : OnlyPhis(bs[b])
              /\ \A l \in 1..top : k # l => Pending(st[k]) \cap Pending(st[l]) = {}
  <2>1. k \in 1..Len(st) /\ Len(st) \in 1..Len(st) /\ k # Len(st) /\ 1..top \subseteq 1..Len(st)
    BY <1>1
  <2>2. Pending(st[k]) \subseteq 1..Len(bs)
    BY <1>1, <1>8, <2>1 DEF FitsIn, Referred
  <2>3. Pending(new[k]) = Pending(st[k])
    <3>1. CASE k = top
      BY <1>5, <1>6, <3>1
    <3>2. CASE k # top
      BY <1>1, <1>6, <3>2
    <3> QED BY <3>1, <3>2
  <2>4. Pending(st[k]) \cap Pending(st[Len(st)]) = {}
    BY <2>1 DEF StackInv, ApartIn
  <2> QED BY <2>1, <2>2, <2>3, <2>4 DEF StackInv, ApartIn
<1>17. ASSUME NEW k \in 1..top, NEW b \in Pending(new[k]) PROVE OnlyPhis(cs[b])
  <2>1. b \in 1..Len(bs) /\ b # cur /\ OnlyPhis(bs[b])
    BY <1>16
  <2>2. b \in 1..Len(cs) \ {cur}
    BY <1>7, <2>1
  <2> QED BY <2>1, <2>2 DEF Writes
<1>18. ApartIn(new, ins, cs)
  BY <1>6, <1>16, <1>17 DEF ApartIn
<1>19. LeadIn(cs)
  BY DEF Writes, LeadIn
<1>20. StackInv(new, P, cs, ins, j, c, E)
  BY <1>6, <1>12, <1>15, <1>18, <1>19 DEF StackInv
<1> QED BY <1>3, <1>6, <1>20 DEF new, front, top

-----------------------------------------------------------------------------
(* The inductive invariant.                                                *)

\* Values v are those of declared names, and none of them is missing.
ValuesIn(P, v, i, a) ==
    /\ v \in [DOMAIN v -> Values(i, a) \ {Null}]
    /\ \A key \in DOMAIN v : Declared(P, key[1]) /\ key[2] \in Bodies(P)

\* What falls through a scope comes from around it and has a value in it.
NamesIn(P, ft, D) ==
    /\ ft \in [Bodies(P) -> Seq(NameRecord)]
    /\ \A s \in Bodies(P) : \A name \in ToSet(ft[s]) :
          ComesFromAround(P, s, name) /\ <<name, s>> \in D

\* What the steps keep, said of the variables as parameters.
Holds(P, bs, inc, a, cur, v, ft, st) ==
    /\ P \in Programs /\ Accepted(P) /\ a \in Nat
    /\ bs \in Seq(Seq(Instrs(Len(inc), a, Len(bs))))
    /\ inc \in Seq(Seq(Operands(Len(inc), a, Len(bs))))
    /\ cur \in 0..Len(bs)
    /\ ValuesIn(P, v, Len(inc), a) /\ NamesIn(P, ft, DOMAIN v)
    /\ st \in Seq(FrameRecord) /\ st # <<>>
    /\ StackInv(st, P, bs, cur, Len(inc), a, DOMAIN v)

\* Codegen's state: the merge of names is not where it stops.
Inv ==
    /\ Holds(program, blocks, incoming, adds, current, valueOf, fallthrough, stack)
    /\ status \in Statuses \ {"join"}

\* The parts of the invariant, and what they say of the frame on top.
LEMMA WhatHolds ==
    ASSUME Inv
    PROVE  /\ program \in Programs /\ WellFormed(program) /\ Accepted(program) /\ adds \in Nat
           /\ Len(incoming) \in Nat /\ Len(blocks) \in Nat
           /\ blocks \in Seq(Seq(Instrs(Len(incoming), adds, Len(blocks)))) /\ LeadIn(blocks)
           /\ incoming \in Seq(Seq(Operands(Len(incoming), adds, Len(blocks))))
           /\ current \in 0..Len(blocks)
           /\ ValuesIn(program, valueOf, Len(incoming), adds)
           /\ NamesIn(program, fallthrough, DOMAIN valueOf)
           /\ stack \in Seq(FrameRecord) /\ stack # <<>> /\ Len(stack) \in Nat \ {0}
           /\ StackInv(stack, program, blocks, current, Len(incoming), adds, DOMAIN valueOf)
           /\ Top \in FrameRecord /\ scope \in Bodies(program) /\ Top.at \in Nat
           /\ FitsIn(Top, program, Len(blocks), Len(incoming), adds, DOMAIN valueOf)
           /\ HasValues(Top, program, DOMAIN valueOf)
<1>1. /\ program \in Programs /\ WellFormed(program) /\ Accepted(program) /\ adds \in Nat
      /\ current \in 0..Len(blocks)
      /\ ValuesIn(program, valueOf, Len(incoming), adds)
      /\ NamesIn(program, fallthrough, DOMAIN valueOf)
      /\ stack \in Seq(FrameRecord) /\ stack # <<>>
      /\ StackInv(stack, program, blocks, current, Len(incoming), adds, DOMAIN valueOf)
  BY ProgramsAssumption DEF Inv, Holds
<1>2. blocks \in Seq(Seq(Instrs(Len(incoming), adds, Len(blocks)))) /\ Len(blocks) \in Nat
      /\ LeadIn(blocks)
  BY <1>1 DEF Inv, Holds, StackInv
<1>3. incoming \in Seq(Seq(Operands(Len(incoming), adds, Len(blocks)))) /\ Len(incoming) \in Nat
  BY DEF Inv, Holds
<1>4. Len(stack) \in Nat \ {0} /\ Len(stack) \in 1..Len(stack) /\ Top \in FrameRecord
  BY <1>1 DEF Top
<1>5. /\ FitsIn(Top, program, Len(blocks), Len(incoming), adds, DOMAIN valueOf)
      /\ HasValues(Top, program, DOMAIN valueOf)
  BY <1>1, <1>4 DEF StackInv, FramesIn, Top
<1>6. scope \in Bodies(program) /\ Top.at \in Nat
  BY <1>4, <1>5 DEF FitsIn, scope, FrameRecord
<1> QED BY <1>1, <1>2, <1>3, <1>4, <1>5, <1>6

-----------------------------------------------------------------------------
(* What code generation reads.                                             *)

\* What is looked up in valueOf is a value, and Null only for a key it has not.
LEMMA ValuesAreThere ==
    ASSUME Inv, NEW name, NEW s
    PROVE  /\ Get(name, s) \in Values(Len(incoming), adds)
           /\ <<name, s>> \in DOMAIN valueOf => Get(name, s) \in Values(Len(incoming), adds) \ {Null}
           /\ Get(name, s) # Null => <<name, s>> \in DOMAIN valueOf
<1>1. ValuesIn(program, valueOf, Len(incoming), adds) /\ Null \in Values(Len(incoming), adds)
  BY WhatHolds, MadeValues
<1>2. CASE <<name, s>> \in DOMAIN valueOf
  <2>1. Get(name, s) = valueOf[<<name, s>>]
    BY <1>2 DEF Get
  <2> QED BY <1>1, <1>2, <2>1 DEF ValuesIn
<1>3. CASE <<name, s>> \notin DOMAIN valueOf
  BY <1>1, <1>3 DEF Get
<1> QED BY <1>2, <1>3

\* A read gives a value, or Null.
LEMMA WhatIsRead ==
    ASSUME Inv, NEW s, NEW x \in Idents
    PROVE  ReadName(s, x) \in Values(Len(incoming), adds)
<1> DEFINE name == LookupName(program, s, x)
           known == {t \in Path(program, s) : Get(name, t) # Null}
<1>1. ReadName(s, x) = IF IsParameter(program, name) THEN Arg(x)
                       ELSE IF known = {} THEN Null ELSE Get(name, Max(known))
  BY DEF ReadName
<1> HIDE DEF name, known
<1>2. /\ Null \in Values(Len(incoming), adds) /\ Arg(x) \in Values(Len(incoming), adds)
      /\ Get(name, Max(known)) \in Values(Len(incoming), adds)
  BY WhatHolds, MadeValues, ValuesAreThere
<1> QED BY <1>1, <1>2

\* One instruction, as the code that is put into a block.
LEMMA OneInstruction ==
    ASSUME NEW i, NEW a, NEW n, NEW op \in Opcodes \ {"phi"}, NEW id \in Nat,
           NEW of \in Values(i, a), NEW to \in Seq(1..n)
    PROVE  /\ <<Instruction(op, id, of, to)>> \in Seq(Instrs(i, a, n))
           /\ NoPhis(<<Instruction(op, id, of, to)>>)
<1>1. Instruction(op, id, of, to) \in Instrs(i, a, n) /\ Instruction(op, id, of, to).op = op
  BY DEF Instruction, Instrs
<1> QED BY <1>1 DEF NoPhis

(***************************************************************************)
(* The value of an expression that can be read, and the code that makes it *)
(***************************************************************************)
LEMMA WhatIsGenerated ==
    ASSUME Inv, NEW s, NEW e \in Expressions, ~Unread(s, e), NEW n \in Nat
    PROVE  /\ adds + Len(CodeOf(s, e)) \in Nat /\ adds <= adds + Len(CodeOf(s, e))
           /\ ValueIn(s, e) \in Values(Len(incoming), adds + Len(CodeOf(s, e))) \ {Null}
           /\ CodeOf(s, e) \in Seq(Instrs(Len(incoming), adds + Len(CodeOf(s, e)), n))
           /\ NoPhis(CodeOf(s, e))
<1> DEFINE i == Len(incoming)
           v == ReadName(s, e.of)
<1>1. adds \in Nat /\ i \in Nat
  BY WhatHolds
<1>2. \/ e.op = "const" /\ e.of \in Consts
      \/ e.op \in {"var", "next"} /\ e.of \in Idents
  BY DEF Expressions, ConstOf, ValueOfVar, NextOf
<1>3. CASE e.op = "const"
  <2>1. CodeOf(s, e) = <<>> /\ ValueIn(s, e) = Literal(e.of) /\ e.of \in Consts
    BY <1>2, <1>3 DEF CodeOf, ValueIn
  <2>2. Literal(e.of) \in Values(i, adds) \ {Null}
    BY <1>1, <2>1, MadeValues
  <2>3. NoPhis(<<>>) /\ <<>> \in Seq(Instrs(i, adds, n))
    BY DEF NoPhis
  <2> QED BY <1>1, <2>1, <2>2, <2>3
<1>4. CASE e.op \in {"var", "next"}
  <2>1. e.of \in Idents /\ v \in Values(i, adds) /\ v # Null
    BY <1>2, <1>4, WhatIsRead DEF Unread
  <2> HIDE DEF v
  <2>2. CASE e.op = "var"
    <3>1. CodeOf(s, e) = <<>> /\ ValueIn(s, e) = v
      BY <2>2 DEF CodeOf, ValueIn, v
    <3>2. NoPhis(<<>>) /\ <<>> \in Seq(Instrs(i, adds, n))
      BY DEF NoPhis
    <3> QED BY <1>1, <2>1, <3>1, <3>2
  <2>3. CASE e.op = "next" /\ v.kind = "const"
    <3>1. CodeOf(s, e) = <<>> /\ ValueIn(s, e) = [v EXCEPT !.n = @ + 1]
      BY <2>3 DEF CodeOf, ValueIn, v
    <3>2. [v EXCEPT !.n = @ + 1] \in Values(i, adds) \ {Null}
      BY <1>1, <2>1, <2>3, MadeValues
    <3>3. NoPhis(<<>>) /\ <<>> \in Seq(Instrs(i, adds, n))
      BY DEF NoPhis
    <3> QED BY <1>1, <3>1, <3>2, <3>3
  <2>4. CASE e.op = "next" /\ v.kind # "const"
    <3> DEFINE code == <<Instruction("add", adds + 1, v, <<>>)>>
    <3>1. CodeOf(s, e) = code /\ ValueIn(s, e) = Sum(adds + 1) /\ Len(code) = 1
      BY <2>4 DEF CodeOf, ValueIn, v
    <3>2. Sum(adds + 1) \in Values(i, adds + 1) \ {Null}
      BY <1>1, MadeValues
    <3>3. v \in Values(i, adds + 1)
      BY <1>1, <2>1 DEF Values
    <3>4. code \in Seq(Instrs(i, adds + 1, n)) /\ NoPhis(code)
      <4>1. "add" \in Opcodes \ {"phi"} /\ adds + 1 \in Nat /\ <<>> \in Seq(1..n)
        BY <1>1 DEF Opcodes
      <4> QED BY <3>3, <4>1, OneInstruction
    <3> HIDE DEF code
    <3> QED BY <1>1, <3>1, <3>2, <3>4
  <2> QED BY <1>4, <2>2, <2>3, <2>4
<1> QED BY <1>2, <1>3, <1>4

(***************************************************************************)
(* An expression and what uses it are written into one block.              *)
(***************************************************************************)
LEMMA ExpressionIsInserted ==
    ASSUME Inv, NEW s, NEW e \in Expressions, NEW bs, Len(bs) \in Nat,
           bs \in Seq(Seq(Instrs(Len(incoming), adds, Len(bs)))), LeadIn(bs),
           NEW b \in 0..Len(bs), NEW code, Insert(bs, b, s, e, code), NoPhis(code),
           ValueIn(s, e) \in Values(Len(incoming), adds') \ {Null}
               => code \in Seq(Instrs(Len(incoming), adds', Len(bs)))
    PROVE  /\ adds' \in Nat /\ adds <= adds'
           /\ ValueIn(s, e) \in Values(Len(incoming), adds') \ {Null}
           /\ Len(blocks') = Len(bs) /\ Writes(bs, blocks', {b})
           /\ blocks' \in Seq(Seq(Instrs(Len(incoming), adds', Len(blocks'))))
<1> DEFINE made == CodeOf(s, e)
           I == Instrs(Len(incoming), adds', Len(bs))
<1>1. ~Unread(s, e) /\ adds' = adds + Len(made) /\ blocks' = AppendTo(bs, b, made \o code)
  BY DEF Insert
<1>2. /\ adds' \in Nat /\ adds <= adds' /\ ValueIn(s, e) \in Values(Len(incoming), adds') \ {Null}
      /\ made \in Seq(I) /\ NoPhis(made)
  BY <1>1, WhatIsGenerated
<1>3. code \in Seq(I)
  BY <1>2
<1>4. bs \in Seq(Seq(I))
  <2> DEFINE j == Len(incoming)
             n == Len(bs)
             c == adds'
  <2>1. /\ bs \in Seq(Seq(Instrs(j, adds, n))) /\ n \in Nat /\ n <= n
        /\ j \in Nat /\ j <= j /\ adds \in Nat /\ c \in Nat /\ adds <= c
    BY <1>2, WhatHolds
  <2> HIDE DEF j, n, c
  <2>2. Seq(Seq(Instrs(j, adds, n))) \subseteq Seq(Seq(Instrs(j, c, n)))
    BY <2>1, CodeStillFits
  <2> QED BY <2>1, <2>2 DEF j, n, c
<1> HIDE DEF made, I
<1>5. made \o code \in Seq(I) /\ NoPhis(made \o code)
  <2>1. /\ made \o code \in Seq(I) /\ Len(made \o code) = Len(made) + Len(code)
        /\ Len(made) \in Nat /\ Len(code) \in Nat
        /\ \A k \in 1..Len(made) : (made \o code)[k] = made[k]
        /\ \A k \in Len(made) + 1..Len(made) + Len(code) :
              (made \o code)[k] = code[k - Len(made)] /\ k - Len(made) \in 1..Len(code)
    BY <1>2, <1>3, ConcatProperties
  <2>2. ASSUME NEW k \in 1..Len(made \o code) PROVE (made \o code)[k].op # "phi"
    <3>1. CASE k <= Len(made)
      BY <1>2, <2>1, <3>1 DEF NoPhis
    <3>2. CASE ~(k <= Len(made))
      <4>1. k \in Len(made) + 1..Len(made) + Len(code)
        BY <2>1, <3>2
      <4>2. (made \o code)[k] = code[k - Len(made)] /\ k - Len(made) \in 1..Len(code)
        BY <2>1, <4>1
      <4> QED BY <4>2 DEF NoPhis
    <3> QED BY <3>1, <3>2
  <2> QED BY <2>1, <2>2 DEF NoPhis
<1>6. Len(blocks') = Len(bs) /\ blocks' \in Seq(Seq(I)) /\ Writes(bs, blocks', {b})
  <2> DEFINE all == made \o code
  <2>1. all \in Seq(I) /\ NoPhis(all) /\ blocks' = AppendTo(bs, b, all)
    BY <1>1, <1>5
  <2> HIDE DEF all
  <2>2. Len(AppendTo(bs, b, all)) = Len(bs)
    BY <1>4, <2>1, Inserted
  <2>3. AppendTo(bs, b, all) \in Seq(Seq(I))
    BY <1>4, <2>1, Inserted
  <2>4. Writes(bs, AppendTo(bs, b, all), {b})
    BY <1>4, <2>1, CodeIsWritten
  <2> QED BY <2>1, <2>2, <2>3, <2>4
<1> QED BY <1>2, <1>6 DEF I

-----------------------------------------------------------------------------
(* The node that is generated, and the statement that a body belongs to.   *)

\* What WellFormed says of one statement.
LEMMA NodesOfARoutine ==
    ASSUME NEW P, WellFormed(P), NEW b \in Bodies(P), NEW n \in 1..Len(Nodes(P, b))
    PROVE  LET st == Nodes(P, b)[n] IN
           /\ st \in NodeRecord /\ st.e \in Expressions
           /\ <<b, n>> \in Sites(P) /\ NodeAt(P, <<b, n>>) = st
           /\ st.valid => <<b, n>> \in ValidSites(P)
           /\ st.op \in {"var", "assign"} => st.ident \in Idents
           /\ st.typed => st.op = "var"
           /\ st.op \in {"if", "while", "for"} => st.then # 0
           /\ \A c \in Parts(st) :
                 /\ c \in Bodies(P) \ {1} /\ P.bodies[c].parent = b /\ P.bodies[c].at = n
                 /\ st.op # "for" => P.bodies[c].counter = NoIdent
<1> DEFINE st == Nodes(P, b)[n]
<1>1. /\ Nodes(P, b) \in Seq(NodeRecord) /\ DOMAIN Nodes(P, b) = 1..Len(Nodes(P, b))
      /\ Bodies(P) = DOMAIN P.bodies
  BY BodiesOfARoutine DEF Bodies
<1>2. st \in NodeRecord /\ st.e \in Expressions
  <2>1. st \in NodeRecord
    BY <1>1
  <2> HIDE DEF st
  <2>2. st.e \in Expressions
    BY <2>1 DEF NodeRecord
  <2> QED BY <2>1, <2>2
<1>3. <<b, n>> \in Sites(P) /\ NodeAt(P, <<b, n>>) = st
  <2>1. <<b, n>> \in {b} \X DOMAIN Nodes(P, b)
    BY <1>1
  <2>2. <<b, n>>[1] = b /\ <<b, n>>[2] = n
    OBVIOUS
  <2> QED BY <1>1, <2>1, <2>2 DEF Sites, NodeAt
<1> HIDE DEF st
<1>4. /\ st.op \in {"var", "assign"} => st.ident \in Idents
      /\ st.typed => st.op = "var"
      /\ st.op \in {"if", "while", "for"} => st.then # 0
      /\ \A c \in Parts(st) : c \in Bodies(P) \ {1} /\ <<P.bodies[c].parent, P.bodies[c].at>> = <<b, n>>
  BY <1>1, <1>3 DEF WellFormed
<1>5. ASSUME NEW c \in Parts(st), st.op # "for" PROVE P.bodies[c].counter = NoIdent
  BY <1>1, <1>3, <1>4, <1>5 DEF WellFormed
<1>6. st.valid => <<b, n>> \in ValidSites(P)
  BY <1>3 DEF ValidSites
<1> QED BY <1>2, <1>3, <1>4, <1>5, <1>6 DEF st

\* The same of the statement the frame on top is at.
LEMMA TheNode ==
    ASSUME Inv, Top.at <= Len(Nodes(program, scope))
    PROVE  /\ Top.at \in 1..Len(Nodes(program, scope)) /\ NodeOf(program, Top) = node
           /\ node \in NodeRecord /\ node.e \in Expressions
           /\ node.valid => <<scope, Top.at>> \in ValidSites(program)
           /\ NodeAt(program, <<scope, Top.at>>) = node
           /\ node.op \in {"var", "assign"} => node.ident \in Idents
           /\ node.typed => node.op = "var"
           /\ node.op \in {"if", "while", "for"} => node.then # 0
           /\ \A c \in Parts(node) :
                 /\ c \in Bodies(program) \ {1} /\ program.bodies[c].parent = scope
                 /\ program.bodies[c].at = Top.at
                 /\ node.op # "for" => program.bodies[c].counter = NoIdent
<1>1. /\ scope \in Bodies(program) /\ WellFormed(program) /\ Top.at \in Nat
      /\ FitsIn(Top, program, Len(blocks), Len(incoming), adds, DOMAIN valueOf)
  BY WhatHolds
<1>2. Top.at \in 1..Len(Nodes(program, scope))
  <2>1. Top.at >= 1 /\ Len(Nodes(program, scope)) \in Nat
    BY <1>1, BodiesOfARoutine DEF FitsIn
  <2> QED BY <1>1, <2>1
<1>3. node = Nodes(program, scope)[Top.at] /\ NodeOf(program, Top) = node
  BY DEF node, NodeOf, scope
<1> QED BY <1>1, <1>2, <1>3, NodesOfARoutine

\* The same of the statement whose body the frame on top is.
LEMMA TheStatement ==
    ASSUME Inv, Top.kind # "routine"
    PROVE  /\ Len(stack) > 1 /\ Caller \in FrameRecord /\ outer \in Bodies(program)
           /\ Caller.at \in 1..Len(Nodes(program, outer)) /\ NodeOf(program, Caller) = Statement
           /\ Statement \in NodeRecord /\ Statement.e \in Expressions
           /\ Statement.valid /\ <<outer, Caller.at>> \in ValidSites(program)
           /\ NodeAt(program, <<outer, Caller.at>>) = Statement
           /\ Generates(Top, Statement) /\ scope \in Parts(Statement)
           /\ \A c \in Parts(Statement) :
                 /\ c \in Bodies(program) \ {1} /\ program.bodies[c].parent = outer
                 /\ program.bodies[c].at = Caller.at
                 /\ Statement.op # "for" => program.bodies[c].counter = NoIdent
<1>1. /\ scope \in Bodies(program) /\ WellFormed(program) /\ stack \in Seq(FrameRecord)
      /\ Len(stack) \in Nat \ {0} /\ Top \in FrameRecord
      /\ FramesIn(stack, program, Len(blocks), Len(incoming), adds, DOMAIN valueOf)
  BY WhatHolds DEF StackInv
<1>2. Len(stack) > 1
  BY <1>1 DEF FramesIn, Top
<1> DEFINE k == Len(stack) - 1
<1>3. /\ k \in 1..Len(stack) - 1 /\ k \in 1..Len(stack) /\ k + 1 = Len(stack)
      /\ Caller = stack[k] /\ Top = stack[k + 1]
  BY <1>1, <1>2 DEF Caller, Top
<1>4. Caller \in FrameRecord /\ Caller.at \in Nat
  <2>1. Caller \in FrameRecord
    BY <1>1, <1>3
  <2> QED BY <2>1 DEF FrameRecord
<1>5. /\ FitsIn(Caller, program, Len(blocks), Len(incoming), adds, DOMAIN valueOf)
      /\ Caller.at <= Len(Nodes(program, Caller.body)) /\ Generates(Top, NodeOf(program, Caller))
  BY <1>1, <1>3 DEF FramesIn
<1>6. outer \in Bodies(program) /\ Caller.at \in 1..Len(Nodes(program, outer))
  <2>1. outer \in Bodies(program) /\ Caller.at >= 1 /\ Caller.at <= Len(Nodes(program, outer))
    BY <1>5 DEF FitsIn, outer
  <2>2. Len(Nodes(program, outer)) \in Nat
    BY <1>1, <2>1, BodiesOfARoutine
  <2> QED BY <1>4, <2>1, <2>2
<1>7. Statement = Nodes(program, outer)[Caller.at] /\ NodeOf(program, Caller) = Statement
  BY DEF Statement, NodeOf, outer
<1>8. Generates(Top, Statement) /\ Statement.valid
  BY <1>5, <1>7 DEF Generates
<1>9. scope \in Parts(Statement)
  <2>1. Top.kind \in FrameKinds
    BY <1>1 DEF FrameRecord
  <2>2. scope # 0
    BY <1>1, BodiesOfARoutine
  <2> QED BY <1>8, <2>1, <2>2 DEF Generates, FrameKinds, Loops, ForLoops, Parts, scope
<1> QED BY <1>1, <1>2, <1>4, <1>6, <1>7, <1>8, <1>9, NodesOfARoutine

\* A name that a valid node uses is found, unless the node declares it with its type.
LEMMA UsedNamesAreFound ==
    ASSUME NEW P, WellFormed(P), Accepted(P), NEW b \in Bodies(P), NEW n \in 1..Len(Nodes(P, b)),
           Nodes(P, b)[n].valid, ~Nodes(P, b)[n].typed, NEW x \in Uses(Nodes(P, b)[n])
    PROVE  Resolve(P, b, n, x) # NoName /\ LookupName(P, b, x) # NoName
<1>1. <<b, n>> \in ValidSites(P) /\ NodeAt(P, <<b, n>>) = Nodes(P, b)[n]
  BY NodesOfARoutine
<1>2. Resolve(P, <<b, n>>[1], <<b, n>>[2], x) # NoName
  BY <1>1 DEF Accepted
<1> QED BY <1>2, ResolvedIsFound

-----------------------------------------------------------------------------
(* Steps that generate a node and go on to the next one.                   *)

\* The stack after a statement that has no body.
LEMMA NodeIsDone ==
    ASSUME Inv, Top.at <= Len(Nodes(program, scope)), NextNode,
           NEW bs, Len(bs) \in Nat, Writes(blocks, bs, {current}),
           NEW a \in Nat, adds <= a, NEW D, DOMAIN valueOf \subseteq D,
           node.op = "var" /\ node.valid => <<Name(scope, Top.at, node.ident), scope>> \in D
    PROVE  /\ stack' \in Seq(FrameRecord) /\ stack' # <<>>
           /\ StackInv(stack', program, bs, current, Len(incoming), a, D)
<1> DEFINE f == [Top EXCEPT !.at = Top.at + 1]
           top == Len(stack)
<1>1. /\ WellFormed(program) /\ stack \in Seq(FrameRecord) /\ stack # <<>> /\ top \in Nat \ {0}
      /\ StackInv(stack, program, blocks, current, Len(incoming), adds, DOMAIN valueOf)
      /\ Top \in FrameRecord /\ scope \in Bodies(program) /\ Top.at \in Nat
      /\ FitsIn(Top, program, Len(blocks), Len(incoming), adds, DOMAIN valueOf)
      /\ HasValues(Top, program, DOMAIN valueOf)
      /\ Len(incoming) \in Nat /\ adds \in Nat /\ Len(blocks) \in Nat
  BY WhatHolds
<1>2. Top.at \in 1..Len(Nodes(program, scope)) /\ Len(Nodes(program, scope)) \in Nat
  BY <1>1, TheNode, BodiesOfARoutine
<1>3. stack' = [stack EXCEPT ![top] = f]
  BY DEF NextNode, Top
<1>4. /\ f \in FrameRecord /\ f.at = Top.at + 1 /\ f.body = Top.body /\ f.kind = Top.kind
      /\ f.begin = Top.begin /\ f.first = Top.first /\ f.other = Top.other /\ f.end = Top.end
      /\ f.tail = Top.tail /\ f.lo = Top.lo /\ f.names = Top.names /\ f.phis = Top.phis
      /\ Pending(f) = Pending(Top) /\ Referred(f) = Referred(Top)
      /\ \A s : Generates(Top, s) => Generates(f, s)
  <2>1. Top \in FrameRecord /\ Top.at + 1 \in Nat
    BY <1>1
  <2>2. /\ f \in FrameRecord /\ f.at = Top.at + 1 /\ f.body = Top.body /\ f.kind = Top.kind
        /\ f.begin = Top.begin /\ f.first = Top.first /\ f.other = Top.other /\ f.end = Top.end
        /\ f.tail = Top.tail /\ f.lo = Top.lo /\ f.names = Top.names /\ f.phis = Top.phis
    BY <2>1, FrameMoves
  <2>3. /\ Pending(f) = Pending(Top) /\ Referred(f) = Referred(Top)
        /\ \A s : Generates(Top, s) => Generates(f, s)
    BY <2>1, FrameMoves
  <2> QED BY <2>2, <2>3
<1> HIDE DEF f
<1>5. FitsIn(f, program, Len(bs), Len(incoming), a, D)
  <2>1. Len(blocks) <= Len(bs)
    BY DEF Writes
  <2>2. FitsIn(Top, program, Len(bs), Len(incoming), a, D)
    BY <1>1, <2>1, FrameStillFits
  <2>3. f.at \in 1..(Len(Nodes(program, f.body)) + 1)
    BY <1>1, <1>2, <1>4 DEF scope
  <2> QED BY <1>4, <2>2, <2>3 DEF FitsIn
<1>6. HasValues(f, program, D)
  <2>1. ASSUME NEW k \in 1..(f.at - 1), Nodes(program, f.body)[k].op = "var",
               Nodes(program, f.body)[k].valid
        PROVE  <<Name(f.body, k, Nodes(program, f.body)[k].ident), f.body>> \in D
    <3>1. CASE k = Top.at
      BY <1>4, <2>1, <3>1 DEF node, scope
    <3>2. CASE k # Top.at
      <4> DEFINE h == Top.at
      <4>0. h \in Nat /\ k \in 1..(h + 1) - 1 /\ k # h
        BY <1>1, <1>4, <3>2
      <4> HIDE DEF h
      <4>2. k \in 1..(h - 1)
        BY <4>0
      <4>1. k \in 1..(Top.at - 1)
        BY <4>2 DEF h
      <4> QED BY <1>1, <1>4, <2>1, <4>1 DEF HasValues
    <3> QED BY <3>1, <3>2
  <2>2. LET x == program.bodies[f.body].counter IN
           x # NoIdent => <<LookupName(program, f.body, x), f.body>> \in D
    BY <1>1, <1>4 DEF HasValues
  <2> QED BY <2>1, <2>2 DEF HasValues
<1>7. FramesIn(stack, program, Len(blocks), Len(incoming), adds, DOMAIN valueOf)
      /\ ApartIn(stack, current, blocks)
  BY <1>1 DEF StackInv
<1>8. /\ top = 1 => f.kind = "routine" /\ f.body = 1
      /\ top > 1 => Generates(f, NodeOf(program, stack[top - 1]))
  <2>1. CASE top = 1
    <3>1. Top.kind = "routine" /\ Top.body = 1
      BY <1>7, <2>1 DEF FramesIn, Top
    <3> QED BY <1>4, <2>1, <3>1
  <2>2. CASE top # 1
    <3>0. top \in Nat \ {0}
      <4> HIDE DEF top
      <4> QED BY <1>1
    <3>1. top - 1 \in 1..top - 1 /\ (top - 1) + 1 = top
      <4> HIDE DEF top
      <4> QED BY <2>2, <3>0
    <3>2. Generates(stack[top], NodeOf(program, stack[top - 1]))
      BY <1>7, <3>1 DEF FramesIn
    <3> QED BY <1>4, <2>2, <3>2 DEF Top
  <2> QED BY <1>1, <2>1, <2>2
<1>9. current \notin Pending(stack[top])
  BY <1>1, <1>7 DEF ApartIn
<1>10. LET new == [stack EXCEPT ![top] = f] IN
       new \in Seq(FrameRecord) /\ new # <<>> /\ StackInv(new, program, bs, current, Len(incoming), a, D)
  <2>1. Pending(f) = Pending(stack[top]) /\ {current} \cap Pending(f) = {} /\ current \notin Pending(f)
    BY <1>4, <1>9 DEF Top
  <2>2. /\ {current} \subseteq {current} \cup Pending(stack[Len(stack)])
        /\ current \in {current} \cup Pending(stack[Len(stack)])
        /\ Pending(f) \subseteq Pending(stack[Len(stack)])
        /\ Len(incoming) <= Len(incoming)
    BY <1>1, <2>1
  <2> QED BY <1>1, <1>4, <1>5, <1>6, <1>8, <2>1, <2>2, TopChanges
<1> QED BY <1>3, <1>10

\* A name of a table is a record of a scope, a place and an identifier.
LEMMA DeclaredNamesAreRecords ==
    ASSUME NEW P, WellFormed(P), NEW name, Declared(P, name)
    PROVE  name \in NameRecord
<1> DEFINE b == name.scope
           n == name.at
           x == name.ident
<1>1. /\ b \in Bodies(P) /\ n \in 0..Len(Nodes(P, b)) /\ Declares(P, b, n, x)
      /\ name = [scope |-> b, at |-> n, ident |-> x]
  BY DEF Declared, Name
<1> HIDE DEF b, n, x
<1>2. b \in Nat /\ n \in Nat
  BY <1>1, BodiesOfARoutine
<1>3. x \in Idents \cup {NoIdent}
  <2>1. CASE n = 0
    <3>1. x = P.bodies[b].counter \/ x \in P.params
      BY <1>1, <2>1 DEF Declares
    <3>2. P.bodies[b].counter \in Idents \cup {NoIdent} /\ P.params \subseteq Idents
      BY <1>1, BodiesOfARoutine DEF WellFormed
    <3> QED BY <3>1, <3>2
  <2>2. CASE n # 0
    <3>1. Nodes(P, b)[n].op = "var" /\ Nodes(P, b)[n].ident = x /\ n \in 1..Len(Nodes(P, b))
      BY <1>1, <1>2, <2>2, BodiesOfARoutine DEF Declares
    <3> QED BY <1>1, <3>1, NodesOfARoutine
  <2> QED BY <2>1, <2>2
<1> QED BY <1>1, <1>2, <1>3 DEF NameRecord

\* The elements of a sequence with one more at its end.
LEMMA ElementsWithOneMore ==
    ASSUME NEW T, NEW s \in Seq(T), NEW t \in T
    PROVE  Append(s, t) \in Seq(T) /\ ToSet(Append(s, t)) = ToSet(s) \cup {t}
<1>1. /\ Append(s, t) = s \o <<t>> /\ <<t>> \in Seq(T) /\ ToSet(<<t>>) = {t}
      /\ Append(s, t) \in Seq(T)
  <2>1. Append(s, t) \in Seq(T) /\ <<t>> \in Seq(T)
    OBVIOUS
  <2>2. Append(s, t) = s \o <<t>>
    BY AppendIsConcat
  <2>3. ToSet(<<t>>) = {t}
    BY DEF ToSet
  <2> QED BY <2>1, <2>2, <2>3
<1> DEFINE one == <<t>>
<1> HIDE DEF one
<1>2. one \in Seq(T) /\ ToSet(one) = {t} /\ Append(s, t) = s \o one
  BY <1>1 DEF one
<1> QED BY <1>1, <1>2, ElementsOfBoth

\* What was there is still there when there are more blocks, phi nodes and additions.
LEMMA OldPartsStillFit ==
    ASSUME Inv, NEW i \in Nat, Len(incoming) <= i, NEW a \in Nat, adds <= a,
           NEW n \in Nat, Len(blocks) <= n
    PROVE  /\ incoming \in Seq(Seq(Operands(i, a, n)))
           /\ blocks \in Seq(Seq(Instrs(i, a, n)))
           /\ ValuesIn(program, valueOf, i, a)
<1>1. /\ adds \in Nat /\ Len(incoming) \in Nat /\ Len(blocks) \in Nat
      /\ blocks \in Seq(Seq(Instrs(Len(incoming), adds, Len(blocks))))
      /\ incoming \in Seq(Seq(Operands(Len(incoming), adds, Len(blocks))))
      /\ ValuesIn(program, valueOf, Len(incoming), adds)
  BY WhatHolds
<1>2. /\ Values(Len(incoming), adds) \subseteq Values(i, a)
      /\ \A s : s \in Seq(Seq(Instrs(Len(incoming), adds, Len(blocks))))
                 => s \in Seq(Seq(Instrs(i, a, n)))
      /\ \A s : s \in Seq(Seq(Operands(Len(incoming), adds, Len(blocks))))
                 => s \in Seq(Seq(Operands(i, a, n)))
  <2> DEFINE j == Len(incoming)
             m == Len(blocks)
  <2>0. j \in Nat /\ j <= i /\ adds \in Nat /\ m \in Nat /\ m <= n
    BY <1>1
  <2> HIDE DEF j, m
  <2>1. Values(j, adds) \subseteq Values(i, a)
    BY <2>0, ThereAreMoreValues
  <2>2. Seq(Seq(Instrs(j, adds, m))) \subseteq Seq(Seq(Instrs(i, a, n)))
    BY <2>0, CodeStillFits
  <2>3. Seq(Seq(Operands(j, adds, m))) \subseteq Seq(Seq(Operands(i, a, n)))
    BY <2>0, CodeStillFits
  <2> QED BY <2>1, <2>2, <2>3 DEF j, m
<1>3. incoming \in Seq(Seq(Operands(i, a, n))) /\ blocks \in Seq(Seq(Instrs(i, a, n)))
  BY <1>1, <1>2
<1>4. ValuesIn(program, valueOf, i, a)
  <2>1. valueOf \in [DOMAIN valueOf -> Values(i, a) \ {Null}]
    BY <1>1, <1>2 DEF ValuesIn
  <2> QED BY <1>1, <2>1 DEF ValuesIn
<1> QED BY <1>3, <1>4

\* The values in particular.
LEMMA ValuesStillFit ==
    ASSUME Inv, NEW i \in Nat, Len(incoming) <= i, NEW a \in Nat, adds <= a
    PROVE  ValuesIn(program, valueOf, i, a)
<1>1. Len(blocks) \in Nat /\ Len(blocks) <= Len(blocks)
  BY WhatHolds
<1> QED BY <1>1, OldPartsStillFit

\* Values put over values are values.
LEMMA ValuesAreAdded ==
    ASSUME NEW P, NEW i, NEW a, NEW new, NEW old, ValuesIn(P, new, i, a), ValuesIn(P, old, i, a)
    PROVE  /\ ValuesIn(P, Over(new, old), i, a)
           /\ DOMAIN Over(new, old) = DOMAIN new \cup DOMAIN old
<1> DEFINE V == Values(i, a) \ {Null}
<1>1. new \in [DOMAIN new -> V] /\ old \in [DOMAIN old -> V]
  BY DEF ValuesIn
<1> HIDE DEF V
<1>2. /\ DOMAIN Over(new, old) = DOMAIN new \cup DOMAIN old
      /\ Over(new, old) \in [DOMAIN Over(new, old) -> V]
  BY <1>1, OverHasBoth
<1>3. \A key \in DOMAIN Over(new, old) : Declared(P, key[1]) /\ key[2] \in Bodies(P)
  BY <1>2 DEF ValuesIn
<1> QED BY <1>2, <1>3 DEF ValuesIn, V

\* The same for one value, set by SetValue.
LEMMA OneValueIsAdded ==
    ASSUME NEW i, NEW a, NEW name, Declared(program, name), NEW s \in Bodies(program),
           NEW v \in Values(i, a) \ {Null}
    PROVE  /\ ValuesIn(program, [key \in {<<name, s>>} |-> v], i, a)
           /\ ValuesIn(program, valueOf, i, a) =>
                 /\ ValuesIn(program, SetValue(name, s, v), i, a)
                 /\ DOMAIN SetValue(name, s, v) = {<<name, s>>} \cup DOMAIN valueOf
<1> DEFINE new == [key \in {<<name, s>>} |-> v]
<1>1. DOMAIN new = {<<name, s>>} /\ new \in [DOMAIN new -> Values(i, a) \ {Null}]
  BY OneValue
<1> HIDE DEF new
<1>2. \A key \in DOMAIN new : Declared(program, key[1]) /\ key[2] \in Bodies(program)
  BY <1>1
<1>3. ValuesIn(program, new, i, a)
  BY <1>1, <1>2 DEF ValuesIn
<1>4. SetValue(name, s, v) = Over(new, valueOf)
  BY DEF SetValue, new
<1>5. ASSUME ValuesIn(program, valueOf, i, a)
      PROVE  /\ ValuesIn(program, Over(new, valueOf), i, a)
             /\ DOMAIN Over(new, valueOf) = DOMAIN new \cup DOMAIN valueOf
  <2> DEFINE old == valueOf
  <2>1. ValuesIn(program, new, i, a) /\ ValuesIn(program, old, i, a)
    BY <1>3, <1>5
  <2> HIDE DEF old
  <2>2. ValuesIn(program, Over(new, old), i, a)
    BY <2>1, ValuesAreAdded
  <2>3. DOMAIN Over(new, old) = DOMAIN new \cup DOMAIN old
    BY DEF Over
  <2> QED BY <2>2, <2>3 DEF old
<1> QED BY <1>1, <1>3, <1>4, <1>5 DEF new

\* Names that fall through keep their values when there are more values.
LEMMA NamesStay ==
    ASSUME NEW P, NEW ft, NEW D, NEW E, D \subseteq E, NamesIn(P, ft, D)
    PROVE  NamesIn(P, ft, E)
  BY DEF NamesIn

\* A step that leaves the blocks alone writes to none.
LEMMA NothingIsWritten == ASSUME NEW bs, LeadIn(bs), Len(bs) \in Nat, NEW W PROVE Writes(bs, bs, W)
  BY DEF Writes, LeadIn

\* A step that finishes a statement without a body keeps the invariant, when it
\* writes to the current block only.
LEMMA AfterANode ==
    ASSUME Inv, Top.at <= Len(Nodes(program, scope)), NextNode,
           program' = program, incoming' = incoming, current' = current, status' = status,
           adds' \in Nat, adds <= adds', Len(blocks') = Len(blocks), Writes(blocks, blocks', {current}),
           blocks' \in Seq(Seq(Instrs(Len(incoming), adds', Len(blocks')))),
           ValuesIn(program, valueOf', Len(incoming), adds'),
           NamesIn(program, fallthrough', DOMAIN valueOf'),
           DOMAIN valueOf \subseteq DOMAIN valueOf',
           node.op = "var" /\ node.valid => <<Name(scope, Top.at, node.ident), scope>> \in DOMAIN valueOf'
    PROVE  Inv'
<1>1. /\ program \in Programs /\ Accepted(program) /\ current \in 0..Len(blocks)
      /\ Len(incoming) \in Nat /\ Len(blocks) \in Nat /\ status \in Statuses \ {"join"}
  BY WhatHolds DEF Inv
<1>2. incoming \in Seq(Seq(Operands(Len(incoming), adds', Len(blocks))))
  <2> DEFINE n == Len(blocks)
             i == Len(incoming)
             a == adds'
  <2>1. n \in Nat /\ n <= n /\ i \in Nat /\ i <= i /\ a \in Nat /\ adds <= a
    BY <1>1
  <2> HIDE DEF a
  <2>2. incoming \in Seq(Seq(Operands(i, a, n)))
    BY <2>1, OldPartsStillFit
  <2> QED BY <2>2 DEF a
<1>3. /\ stack' \in Seq(FrameRecord) /\ stack' # <<>>
      /\ StackInv(stack', program, blocks', current, Len(incoming), adds', DOMAIN valueOf')
  BY <1>1, NodeIsDone
<1>4. Holds(program, blocks', incoming, adds', current, valueOf', fallthrough', stack')
  BY <1>1, <1>2, <1>3 DEF Holds
<1> QED BY <1>1, <1>4 DEF Inv

\* Passing over a statement the semantic pass rejected keeps the invariant.
LEMMA SkipInvalidNodeKeepsInv == Inv /\ SkipInvalidNode => Inv'
<1> SUFFICES ASSUME Inv, SkipInvalidNode PROVE Inv'
  OBVIOUS
<1>1. /\ Top.at <= Len(Nodes(program, scope)) /\ ~node.valid /\ NextNode
      /\ program' = program /\ blocks' = blocks /\ incoming' = incoming /\ adds' = adds
      /\ current' = current /\ valueOf' = valueOf /\ fallthrough' = fallthrough /\ status' = status
  BY DEF SkipInvalidNode
<1>2. /\ adds \in Nat /\ Writes(blocks, blocks, {current})
      /\ blocks \in Seq(Seq(Instrs(Len(incoming), adds, Len(blocks))))
      /\ ValuesIn(program, valueOf, Len(incoming), adds)
      /\ NamesIn(program, fallthrough, DOMAIN valueOf)
  BY WhatHolds, NothingIsWritten
<1> QED BY <1>1, <1>2, AfterANode

\* What the nodes without bodies have in common.
LEMMA AfterAnExpression ==
    ASSUME Inv, Top.at <= Len(Nodes(program, scope)), NEW code, NoPhis(code),
           Insert(blocks, current, scope, node.e, code),
           ValueIn(scope, node.e) \in Values(Len(incoming), adds') \ {Null}
               => code \in Seq(Instrs(Len(incoming), adds', Len(blocks)))
    PROVE  /\ adds' \in Nat /\ adds <= adds' /\ Len(blocks') = Len(blocks)
           /\ Writes(blocks, blocks', {current})
           /\ blocks' \in Seq(Seq(Instrs(Len(incoming), adds', Len(blocks'))))
           /\ ValuesIn(program, valueOf, Len(incoming), adds')
           /\ ValueIn(scope, node.e) \in Values(Len(incoming), adds') \ {Null}
<1>1. /\ blocks \in Seq(Seq(Instrs(Len(incoming), adds, Len(blocks)))) /\ LeadIn(blocks)
      /\ Len(blocks) \in Nat /\ current \in 0..Len(blocks) /\ node.e \in Expressions
      /\ Len(incoming) \in Nat
  BY WhatHolds, TheNode
<1>2. /\ adds' \in Nat /\ adds <= adds' /\ Len(blocks') = Len(blocks)
      /\ Writes(blocks, blocks', {current})
      /\ blocks' \in Seq(Seq(Instrs(Len(incoming), adds', Len(blocks'))))
      /\ ValueIn(scope, node.e) \in Values(Len(incoming), adds') \ {Null}
  BY <1>1, ExpressionIsInserted
<1>3. ValuesIn(program, valueOf, Len(incoming), adds')
  BY <1>1, <1>2, OldPartsStillFit
<1> QED BY <1>2, <1>3

\* No instructions at all, as code.
LEMMA NoCode == \A I : <<>> \in Seq(I) /\ NoPhis(<<>>)
  BY DEF NoPhis

\* A declaration keeps the invariant: its name has a value from then on.
LEMMA GenerateVariableKeepsInv == Inv /\ GenerateVariable => Inv'
<1> SUFFICES ASSUME Inv, GenerateVariable PROVE Inv'
  OBVIOUS
<1> DEFINE name == Name(scope, Top.at, node.ident)
<1>1. /\ Top.at <= Len(Nodes(program, scope)) /\ node.valid /\ node.op = "var" /\ NextNode
      /\ Insert(blocks, current, scope, node.e, <<>>)
      /\ valueOf' = SetValue(name, scope, ValueIn(scope, node.e))
      /\ program' = program /\ incoming' = incoming /\ current' = current
      /\ fallthrough' = fallthrough /\ status' = status
  BY DEF GenerateVariable, AtNode
<1>2. /\ adds' \in Nat /\ adds <= adds' /\ Len(blocks') = Len(blocks)
      /\ Writes(blocks, blocks', {current})
      /\ blocks' \in Seq(Seq(Instrs(Len(incoming), adds', Len(blocks'))))
      /\ ValuesIn(program, valueOf, Len(incoming), adds')
      /\ ValueIn(scope, node.e) \in Values(Len(incoming), adds') \ {Null}
  BY <1>1, NoCode, AfterAnExpression
<1>3. Declared(program, name) /\ scope \in Bodies(program)
  <2>1. Top.at \in 1..Len(Nodes(program, scope)) /\ scope \in Bodies(program)
    BY <1>1, TheNode, WhatHolds
  <2>2. name.scope = scope /\ name.at = Top.at /\ name.ident = node.ident
    BY NamesHaveScopes
  <2>3. Declares(program, scope, Top.at, node.ident)
    BY <1>1, <2>1 DEF Declares, node
  <2> HIDE DEF name
  <2>4. Top.at \in 0..Len(Nodes(program, scope))
    BY <2>1
  <2> QED BY <2>1, <2>2, <2>3, <2>4 DEF Declared, name
<1>4. /\ ValuesIn(program, valueOf', Len(incoming), adds')
      /\ DOMAIN valueOf' = {<<name, scope>>} \cup DOMAIN valueOf
  <2> DEFINE v == ValueIn(scope, node.e)
  <2> HIDE DEF name, v
  <2>1. v \in Values(Len(incoming), adds') \ {Null} /\ valueOf' = SetValue(name, scope, v)
    BY <1>1, <1>2 DEF v
  <2>2. ValuesIn(program, SetValue(name, scope, v), Len(incoming), adds')
    BY <1>2, <1>3, <2>1, OneValueIsAdded
  <2>3. DOMAIN SetValue(name, scope, v) = {<<name, scope>>} \cup DOMAIN valueOf
    BY DEF SetValue, Over
  <2> QED BY <2>1, <2>2, <2>3
<1>5. NamesIn(program, fallthrough', DOMAIN valueOf')
  BY <1>1, <1>4, WhatHolds, NamesStay
<1> QED BY <1>1, <1>2, <1>4, <1>5, AfterANode

\* A call keeps the invariant.
LEMMA GenerateCallKeepsInv == Inv /\ GenerateCall => Inv'
<1> SUFFICES ASSUME Inv, GenerateCall PROVE Inv'
  OBVIOUS
<1> DEFINE code == <<Instruction("call", 0, ValueIn(scope, node.e), <<>>)>>
<1>1. /\ Top.at <= Len(Nodes(program, scope)) /\ node.valid /\ node.op = "print" /\ NextNode
      /\ Insert(blocks, current, scope, node.e, code)
      /\ program' = program /\ incoming' = incoming /\ current' = current /\ valueOf' = valueOf
      /\ fallthrough' = fallthrough /\ status' = status
  BY DEF GenerateCall, AtNode
<1>2. /\ NoPhis(code)
      /\ ValueIn(scope, node.e) \in Values(Len(incoming), adds') \ {Null}
            => code \in Seq(Instrs(Len(incoming), adds', Len(blocks)))
  <2>1. "call" \in Opcodes \ {"phi"} /\ 0 \in Nat /\ <<>> \in Seq(1..Len(blocks))
    BY DEF Opcodes
  <2>2. NoPhis(code)
    BY DEF NoPhis, Instruction
  <2> QED BY <2>1, <2>2, OneInstruction
<1> HIDE DEF code
<1>3. /\ adds' \in Nat /\ adds <= adds' /\ Len(blocks') = Len(blocks)
      /\ Writes(blocks, blocks', {current})
      /\ blocks' \in Seq(Seq(Instrs(Len(incoming), adds', Len(blocks'))))
      /\ ValuesIn(program, valueOf, Len(incoming), adds')
  BY <1>1, <1>2, AfterAnExpression
<1>4. NamesIn(program, fallthrough', DOMAIN valueOf')
  BY <1>1, WhatHolds
<1> QED BY <1>1, <1>3, <1>4, AfterANode

\* A return keeps the invariant.
LEMMA GenerateReturnStatementKeepsInv == Inv /\ GenerateReturnStatement => Inv'
<1> SUFFICES ASSUME Inv, GenerateReturnStatement PROVE Inv'
  OBVIOUS
<1> DEFINE code == <<Instruction("ret", 0, ValueIn(scope, node.e), <<>>)>>
<1>1. /\ Top.at <= Len(Nodes(program, scope)) /\ node.valid /\ node.op = "return" /\ NextNode
      /\ Insert(blocks, current, scope, node.e, code)
      /\ program' = program /\ incoming' = incoming /\ current' = current /\ valueOf' = valueOf
      /\ fallthrough' = fallthrough /\ status' = status
  BY DEF GenerateReturnStatement, AtNode
<1>2. /\ NoPhis(code)
      /\ ValueIn(scope, node.e) \in Values(Len(incoming), adds') \ {Null}
            => code \in Seq(Instrs(Len(incoming), adds', Len(blocks)))
  <2>1. "ret" \in Opcodes \ {"phi"} /\ 0 \in Nat /\ <<>> \in Seq(1..Len(blocks))
    BY DEF Opcodes
  <2>2. NoPhis(code)
    BY DEF NoPhis, Instruction
  <2> QED BY <2>1, <2>2, OneInstruction
<1> HIDE DEF code
<1>3. /\ adds' \in Nat /\ adds <= adds' /\ Len(blocks') = Len(blocks)
      /\ Writes(blocks, blocks', {current})
      /\ blocks' \in Seq(Seq(Instrs(Len(incoming), adds', Len(blocks'))))
      /\ ValuesIn(program, valueOf, Len(incoming), adds')
  BY <1>1, <1>2, AfterAnExpression
<1>4. NamesIn(program, fallthrough', DOMAIN valueOf')
  BY <1>1, WhatHolds
<1> QED BY <1>1, <1>3, <1>4, AfterANode

\* An assignment keeps the invariant: a name from around falls through the scope.
LEMMA InsertLLVMAssignmentKeepsInv == Inv /\ InsertLLVMAssignment => Inv'
<1> SUFFICES ASSUME Inv, InsertLLVMAssignment PROVE Inv'
  OBVIOUS
<1> DEFINE name == LookupName(program, scope, node.ident)
<1>1. /\ Top.at <= Len(Nodes(program, scope)) /\ node.valid /\ node.op = "assign" /\ NextNode
      /\ Insert(blocks, current, scope, node.e, <<>>)
      /\ valueOf' = SetValue(name, scope, ValueIn(scope, node.e))
      /\ fallthrough' = IF name.scope = scope THEN fallthrough
                        ELSE [fallthrough EXCEPT ![scope] = Append(fallthrough[scope], name)]
      /\ program' = program /\ incoming' = incoming /\ current' = current /\ status' = status
  BY DEF InsertLLVMAssignment, AtNode
<1>2. /\ adds' \in Nat /\ adds <= adds' /\ Len(blocks') = Len(blocks)
      /\ Writes(blocks, blocks', {current})
      /\ blocks' \in Seq(Seq(Instrs(Len(incoming), adds', Len(blocks'))))
      /\ ValuesIn(program, valueOf, Len(incoming), adds')
      /\ ValueIn(scope, node.e) \in Values(Len(incoming), adds') \ {Null}
  BY <1>1, NoCode, AfterAnExpression
<1>3. /\ scope \in Bodies(program) /\ WellFormed(program) /\ Accepted(program)
      /\ NamesIn(program, fallthrough, DOMAIN valueOf)
  BY WhatHolds
<1>4. name # NoName
  <2>1. ~node.typed /\ node.ident \in Uses(node) /\ Top.at \in 1..Len(Nodes(program, scope))
    BY <1>1, TheNode DEF Uses
  <2>2. node = Nodes(program, scope)[Top.at]
    BY DEF node
  <2> QED BY <1>1, <1>3, <2>1, <2>2, UsedNamesAreFound
<1>5. /\ Declared(program, name) /\ name.ident = node.ident /\ name.scope \in Path(program, scope)
  BY <1>3, <1>4, LookupFinds
<1>6. LookupName(program, scope, name.ident) = name
  BY <1>5
<1> HIDE DEF name
<1>7. /\ ValuesIn(program, valueOf', Len(incoming), adds')
      /\ DOMAIN valueOf' = {<<name, scope>>} \cup DOMAIN valueOf
  <2> DEFINE v == ValueIn(scope, node.e)
  <2> HIDE DEF v
  <2>1. v \in Values(Len(incoming), adds') \ {Null} /\ valueOf' = SetValue(name, scope, v)
    BY <1>1, <1>2 DEF v
  <2>2. ValuesIn(program, SetValue(name, scope, v), Len(incoming), adds')
    BY <1>2, <1>3, <1>5, <2>1, OneValueIsAdded
  <2>3. DOMAIN SetValue(name, scope, v) = {<<name, scope>>} \cup DOMAIN valueOf
    BY DEF SetValue, Over
  <2> QED BY <2>1, <2>2, <2>3
<1>8. NamesIn(program, fallthrough, DOMAIN valueOf')
  BY <1>3, <1>7, NamesStay
<1>9. NamesIn(program, fallthrough', DOMAIN valueOf')
  <2>1. CASE name.scope = scope
    BY <1>1, <1>8, <2>1
  <2>2. CASE name.scope # scope
    <3>1. fallthrough' = [fallthrough EXCEPT ![scope] = Append(fallthrough[scope], name)]
      BY <1>1, <2>2
    <3>2. /\ fallthrough \in [Bodies(program) -> Seq(NameRecord)]
          /\ ComesFromAround(program, scope, name) /\ <<name, scope>> \in DOMAIN valueOf'
      BY <1>5, <1>6, <1>7, <1>8, <2>2 DEF NamesIn, ComesFromAround
    <3>3. name \in NameRecord
      BY <1>3, <1>5, DeclaredNamesAreRecords
    <3>4. /\ Append(fallthrough[scope], name) \in Seq(NameRecord)
          /\ ToSet(Append(fallthrough[scope], name)) = ToSet(fallthrough[scope]) \cup {name}
      BY <1>3, <3>2, <3>3, ElementsWithOneMore
    <3>5. fallthrough' \in [Bodies(program) -> Seq(NameRecord)]
      BY <3>1, <3>2, <3>4
    <3>6. ASSUME NEW s \in Bodies(program), NEW other \in ToSet(fallthrough'[s])
          PROVE  ComesFromAround(program, s, other) /\ <<other, s>> \in DOMAIN valueOf'
      <4>1. CASE s = scope
        <5>1. other \in ToSet(fallthrough[scope]) \cup {name}
          BY <1>3, <3>1, <3>2, <3>4, <3>6, <4>1
        <5> QED BY <1>3, <1>8, <3>2, <4>1, <5>1 DEF NamesIn
      <4>2. CASE s # scope
        <5>1. fallthrough'[s] = fallthrough[s]
          BY <3>1, <3>2, <4>2
        <5> QED BY <1>8, <3>6, <5>1 DEF NamesIn
      <4> QED BY <4>1, <4>2
    <3> QED BY <3>5, <3>6 DEF NamesIn
  <2> QED BY <2>1, <2>2
<1>10. node.op # "var"
  BY <1>1
<1> QED BY <1>1, <1>2, <1>7, <1>9, <1>10, AfterANode

-----------------------------------------------------------------------------
(* What the statements with bodies do with the names that fall through.    *)

\* Names that scope s finds and that have values in it: those a body inside s left.
Reach(P, s, names, D) ==
    \A name \in ToSet(names) : /\ Declared(P, name) /\ name.scope \in Path(P, s)
                               /\ LookupName(P, s, name.ident) = name
                               /\ <<name, s>> \in D

\* FallThrough adds only names from around the scope that have values in it.
LEMMA NamesFallThrough ==
    ASSUME WellFormed(program), NEW D, NamesIn(program, fallthrough, D),
           NEW s \in Bodies(program), NEW names \in Seq(NameRecord), Reach(program, s, names, D)
    PROVE  NamesIn(program, FallThrough(s, names), D)
<1> DEFINE S == {name \in ToSet(names) : TableEntry(program, s, name.ident) = NoName}
           more == Those(names, S)
           all == fallthrough[s] \o more
<1>1. more \in Seq(NameRecord) /\ ToSet(more) \subseteq S
  BY ThoseAreIn
<1>2. fallthrough \in [Bodies(program) -> Seq(NameRecord)] /\ fallthrough[s] \in Seq(NameRecord)
  BY DEF NamesIn
<1>3. FallThrough(s, names) = [fallthrough EXCEPT ![s] = all]
  BY DEF FallThrough
<1> HIDE DEF more
<1>4. all \in Seq(NameRecord) /\ ToSet(all) = ToSet(fallthrough[s]) \cup ToSet(more)
  BY <1>1, <1>2, ElementsOfBoth
<1>5. ASSUME NEW name \in S
      PROVE  ComesFromAround(program, s, name) /\ <<name, s>> \in D
  <2>1. /\ Declared(program, name) /\ name.scope \in Path(program, s) /\ <<name, s>> \in D
        /\ LookupName(program, s, name.ident) = name /\ TableEntry(program, s, name.ident) = NoName
    BY DEF Reach
  <2>2. name # NoName
    <3>1. name.scope # 0
      BY <2>1, BodiesOfARoutine DEF Declared
    <3> QED BY <3>1 DEF NoName, Name
  <2>3. name = TableEntry(program, name.scope, name.ident)
    BY <2>1, <2>2, LookupFinds
  <2> QED BY <2>1, <2>2, <2>3 DEF ComesFromAround
<1> HIDE DEF all, S
<1>6. FallThrough(s, names) \in [Bodies(program) -> Seq(NameRecord)]
  BY <1>2, <1>3, <1>4
<1>7. ASSUME NEW t \in Bodies(program), NEW name \in ToSet(FallThrough(s, names)[t])
      PROVE  ComesFromAround(program, t, name) /\ <<name, t>> \in D
  <2>1. CASE t = s
    <3>1. name \in ToSet(fallthrough[s]) \cup S
      BY <1>1, <1>2, <1>3, <1>4, <1>7, <2>1
    <3> QED BY <1>5, <2>1, <3>1 DEF NamesIn
  <2>2. CASE t # s
    <3>1. name \in ToSet(fallthrough[t])
      BY <1>2, <1>3, <1>7, <2>2
    <3> QED BY <3>1 DEF NamesIn
  <2> QED BY <2>1, <2>2
<1> QED BY <1>6, <1>7 DEF NamesIn

\* SetValues gives one value to every name, in one scope.
LEMMA NamesAreSet ==
    ASSUME NEW i, NEW a, NEW s \in Bodies(program), NEW names,
           \A name \in ToSet(names) :
               Declared(program, name) /\ LookupName(program, s, name.ident) = name,
           NEW values, values \in [ToSet(names) -> Values(i, a) \ {Null}]
    PROVE  /\ ValuesIn(program, SetValues(s, names, values), i, a)
           /\ DOMAIN SetValues(s, names, values) = {<<name, s>> : name \in ToSet(names)}
<1> DEFINE K == {<<NameToFall(s, name), s>> : name \in ToSet(names)}
           new == [key \in K |-> values[CHOOSE name \in ToSet(names) : NameToFall(s, name) = key[1]]]
           V == Values(i, a) \ {Null}
<1>1. SetValues(s, names, values) = new
  BY DEF SetValues
<1>2. \A name \in ToSet(names) : NameToFall(s, name) = name
  BY DEF NameToFall
<1>3. K = {<<name, s>> : name \in ToSet(names)}
  BY <1>2
<1>4. ASSUME NEW key \in K
      PROVE  /\ values[CHOOSE name \in ToSet(names) : NameToFall(s, name) = key[1]] \in V
             /\ Declared(program, key[1]) /\ key[2] \in Bodies(program)
  <2>1. PICK name \in ToSet(names) : key = <<name, s>>
    BY <1>3
  <2>2. key[1] = name /\ key[2] = s /\ NameToFall(s, name) = key[1]
    BY <1>2, <2>1
  <2>3. (CHOOSE n \in ToSet(names) : NameToFall(s, n) = key[1]) \in ToSet(names)
    BY <2>2
  <2> QED BY <2>2, <2>3
<1> HIDE DEF K
<1>5. new \in [K -> V] /\ DOMAIN new = K
  BY <1>4
<1>6. ValuesIn(program, new, i, a)
  BY <1>4, <1>5 DEF ValuesIn
<1> QED BY <1>1, <1>3, <1>5, <1>6

\* The phi nodes of names are values once there are that many.
LEMMA PhisOfNames ==
    ASSUME NEW names \in Seq(NameRecord), NEW from \in Nat, NEW i \in Nat, NEW a \in Nat,
           from + Len(names) <= i
    PROVE  /\ \A name \in ToSet(names) : PhiOf(names, from, name) \in Values(i, a) \ {Null}
           /\ PhisOf(names, from) \in [ToSet(names) -> Values(i, a) \ {Null}]
<1>1. ASSUME NEW name \in ToSet(names)
      PROVE  PhiOf(names, from, name) \in Values(i, a) \ {Null}
  <2> DEFINE K == {k \in DOMAIN names : names[k] = name}
  <2>1. Len(names) \in Nat /\ DOMAIN names = 1..Len(names)
    OBVIOUS
  <2>2. K \subseteq 0..Len(names) /\ K # {}
    <3>1. \E k \in DOMAIN names : names[k] = name
      BY <1>1 DEF ToSet
    <3>2. K \subseteq 1..Len(names)
      BY <2>1
    <3>3. 1..Len(names) \subseteq 0..Len(names)
      BY <2>1
    <3> QED BY <3>1, <3>2, <3>3
  <2>3. PhiOf(names, from, name) = Phi(from + Max(K))
    BY DEF PhiOf
  <2>5. K \subseteq 1..Len(names)
    BY <2>1
  <2> HIDE DEF K
  <2>4. Max(K) \in K
    BY <2>1, <2>2, MaxIsGreatest
  <2>6. from + Max(K) \in 1..i
    <3> DEFINE m == Max(K)
    <3>1. m \in 1..Len(names)
      BY <2>4, <2>5
    <3> HIDE DEF m
    <3>2. from + m \in 1..i
      BY <2>1, <3>1
    <3> QED BY <3>2 DEF m
  <2> QED BY <2>3, <2>6, MadeValues
<1> QED BY <1>1 DEF PhisOf

\* The values names have in a scope, as ValuesOf collects them.
LEMMA ValuesOfNames ==
    ASSUME Inv, NEW names, NEW s, \A name \in ToSet(names) : <<name, s>> \in DOMAIN valueOf,
           NEW i \in Nat, Len(incoming) <= i, NEW a \in Nat, adds <= a
    PROVE  ValuesOf(names, s) \in [ToSet(names) -> Values(i, a) \ {Null}]
<1>1. Values(Len(incoming), adds) \subseteq Values(i, a)
  BY WhatHolds DEF Values
<1>2. \A name \in ToSet(names) : Get(name, s) \in Values(i, a) \ {Null}
  BY <1>1, ValuesAreThere
<1> QED BY <1>2 DEF ValuesOf

\* A row of phi nodes is code, and has nothing else in it.
LEMMA PhiNodesAreInstructions ==
    ASSUME NEW i \in Nat, NEW a \in Nat, NEW n \in Nat, NEW from \in Nat, NEW k \in Nat
    PROVE  PhiNodes(from, k) \in Seq(Instrs(i, a, n)) /\ OnlyPhis(PhiNodes(from, k))
<1>1. ASSUME NEW j \in 1..k
      PROVE  /\ Instruction("phi", from + j, Null, <<>>) \in Instrs(i, a, n)
             /\ Instruction("phi", from + j, Null, <<>>).op = "phi"
  <2>1. Null \in Values(i, a) /\ <<>> \in Seq(1..n) /\ "phi" \in Opcodes /\ from + j \in Nat
    BY MadeValues DEF Opcodes
  <2> QED BY <2>1 DEF Instruction, Instrs
<1> DEFINE code == [j \in 1..k |-> Instruction("phi", from + j, Null, <<>>)]
<1>2. code \in [1..k -> Instrs(i, a, n)] /\ Len(code) = k
  <2>1. code \in [1..k -> Instrs(i, a, n)]
    BY <1>1
  <2> HIDE DEF code
  <2> QED BY <2>1, SeqDef
<1>3. OnlyPhis(code)
  BY <1>1, <1>2 DEF OnlyPhis
<1>4. PhiNodes(from, k) = code
  BY DEF PhiNodes
<1> HIDE DEF code
<1>5. code \in Seq(Instrs(i, a, n))
  BY <1>2, SeqDef
<1> QED BY <1>3, <1>4, <1>5

(***************************************************************************)
(* What falls through a body of a statement is known around the statement. *)
(***************************************************************************)
LEMMA NamesOfABody ==
    ASSUME Inv, Top.kind # "routine", NEW c \in Parts(Statement), NEW name,
           ComesFromAround(program, c, name)
    PROVE  /\ Declared(program, name) /\ name.scope \in Path(program, outer)
           /\ LookupName(program, outer, name.ident) = name
           /\ LookupName(program, c, name.ident) = name /\ name.scope \in Path(program, c)
<1>1. c \in Bodies(program) /\ program.bodies[c].parent = outer /\ WellFormed(program)
  BY WhatHolds, TheStatement
<1> QED BY <1>1, FoundAround DEF ComesFromAround

-----------------------------------------------------------------------------
(* Steps that begin a body.                                                *)

\* The frame of body c at its beginning.
BodyFrame(c, kind, begin, first, other, end, lo) ==
    [body |-> c, at |-> 1, kind |-> kind, begin |-> begin, first |-> first, other |-> other,
     end |-> end, tail |-> 0, lo |-> lo, names |-> <<>>, phis |-> 0]

\* What such a frame is made of.
MayBegin(P, c, kind, n, i, a, D, begin, first, other, end, lo) ==
    /\ WellFormed(P) /\ c \in Bodies(P) /\ kind \in {"true", "stub", "forStub"}
    /\ n \in Nat /\ i \in Nat /\ a \in Nat /\ lo \in Values(i, a)
    /\ begin \in 0..n /\ first \in 1..n /\ other \in 0..n /\ end \in 1..n
    /\ first # end /\ first # other
    /\ kind # "forStub" => other # 0
    /\ kind = "stub" => other # end
    /\ P.bodies[c].counter # NoIdent => <<LookupName(P, c, P.bodies[c].counter), c>> \in D

\* A frame made of such parts fits, and waits for the blocks it was given.
LEMMA BodyFrameFits ==
    ASSUME NEW P, NEW c, NEW kind, NEW n, NEW i, NEW a, NEW D, NEW begin, NEW first, NEW other,
           NEW end, NEW lo, MayBegin(P, c, kind, n, i, a, D, begin, first, other, end, lo)
    PROVE  LET f == BodyFrame(c, kind, begin, first, other, end, lo) IN
           /\ f \in FrameRecord /\ f.body = c /\ f.kind = kind /\ f.other = other /\ f.end = end
           /\ Pending(f) \subseteq {first, other, end} \ {0} /\ end \in Pending(f)
           /\ kind = "true" => first \notin Pending(f)
           /\ FitsIn(f, P, n, i, a, D) /\ HasValues(f, P, D)
<1> DEFINE f == BodyFrame(c, kind, begin, first, other, end, lo)
<1>0. /\ WellFormed(P) /\ c \in Bodies(P) /\ kind \in {"true", "stub", "forStub"}
      /\ n \in Nat /\ i \in Nat /\ a \in Nat /\ lo \in Values(i, a)
      /\ begin \in 0..n /\ first \in 1..n /\ other \in 0..n /\ end \in 1..n
      /\ first # end /\ first # other
      /\ kind # "forStub" => other # 0
      /\ kind = "stub" => other # end
      /\ P.bodies[c].counter # NoIdent => <<LookupName(P, c, P.bodies[c].counter), c>> \in D
  BY DEF MayBegin
<1>1. /\ f.body = c /\ f.at = 1 /\ f.kind = kind /\ f.begin = begin /\ f.first = first
      /\ f.other = other /\ f.end = end /\ f.tail = 0 /\ f.lo = lo /\ f.names = <<>> /\ f.phis = 0
  BY DEF BodyFrame
<1>2. f \in FrameRecord
  <2>1. /\ c \in Nat /\ kind \in FrameKinds /\ begin \in Nat /\ first \in Nat /\ other \in Nat
        /\ end \in Nat /\ lo \in ValueRecord /\ <<>> \in Seq(NameRecord) /\ 0 \in Nat /\ 1 \in Nat
    <3>1. c \in Nat
      BY <1>0, ABody
    <3>2. kind \in FrameKinds
      BY <1>0 DEF FrameKinds
    <3>3. begin \in Nat /\ first \in Nat /\ other \in Nat /\ end \in Nat
      BY <1>0
    <3>4. lo \in ValueRecord
      BY <1>0 DEF Values
    <3>5. <<>> \in Seq(NameRecord)
      BY EmptySeq
    <3> QED BY <3>1, <3>2, <3>3, <3>4, <3>5
  <2> QED BY <2>1 DEF BodyFrame, FrameRecord
<1> HIDE DEF f
<1>3. /\ Pending(f) \subseteq {first, other, end} \ {0} /\ end \in Pending(f)
      /\ kind = "true" => first \notin Pending(f)
  BY <1>0, <1>1 DEF Pending
<1>4. Referred(f) \subseteq 1..n
  <2>1. Referred(f) = Pending(f)
    BY <1>0, <1>1 DEF Referred
  <2> QED BY <1>0, <1>3, <2>1
<1>5. FitsIn(f, P, n, i, a, D)
  <2>1. f.at \in 1..(Len(Nodes(P, f.body)) + 1)
    BY <1>0, <1>1, BodiesOfARoutine
  <2>2. {f.begin, f.tail, f.first, f.other} \subseteq 0..n
    BY <1>0, <1>1
  <2>3. f.kind \notin Learned /\ f.kind # "for"
    BY <1>0, <1>1 DEF Learned
  <2>4. f.kind \in {"stub", "condition"} => f.first # f.other /\ f.first # f.end /\ f.other # f.end
    BY <1>0, <1>1
  <2> QED BY <1>0, <1>1, <1>4, <2>1, <2>2, <2>3, <2>4 DEF FitsIn
<1>6. HasValues(f, P, D)
  <2>1. 1..(f.at - 1) = {}
    BY <1>0, <1>1
  <2> QED BY <1>0, <1>1, <2>1 DEF HasValues
<1> QED BY <1>1, <1>2, <1>3, <1>5, <1>6 DEF f

\* The frames that the statements make.
FrameOfIf(c, first, end, other) ==
    [Frame(c, "true") EXCEPT !.first = first, !.end = end, !.other = other]
FrameOfWhile(c, first, other, end) ==
    [Frame(c, "stub") EXCEPT !.first = first, !.other = other, !.end = end]
FrameOfFor(c, first, end, lo) ==
    [Frame(c, "forStub") EXCEPT !.first = first, !.end = end, !.lo = lo]

\* The frames of the three statements are such frames.
LEMMA FramesOfBodies ==
    ASSUME NEW c, NEW first, NEW other, NEW end, NEW lo
    PROVE  /\ FrameOfIf(c, first, end, other) = BodyFrame(c, "true", current, first, other, end, Null)
           /\ FrameOfWhile(c, first, other, end)
                  = BodyFrame(c, "stub", current, first, other, end, Null)
           /\ FrameOfFor(c, first, end, lo) = BodyFrame(c, "forStub", current, first, 0, end, lo)
<1>1. FrameOfIf(c, first, end, other) = BodyFrame(c, "true", current, first, other, end, Null)
  <2> DEFINE F == Frame(c, "true")
             G == [F EXCEPT !.first = first]
             H == [G EXCEPT !.end = end]
             J == [H EXCEPT !.other = other]
  <2>1. F = BodyFrame(c, "true", current, 0, 0, 0, Null)
    BY DEF Frame, BodyFrame
  <2> HIDE DEF F
  <2>2. G = BodyFrame(c, "true", current, first, 0, 0, Null)
    BY <2>1 DEF BodyFrame
  <2> HIDE DEF G
  <2>3. H = BodyFrame(c, "true", current, first, 0, end, Null)
    BY <2>2 DEF BodyFrame
  <2> HIDE DEF H
  <2>4. J = BodyFrame(c, "true", current, first, other, end, Null)
    BY <2>3 DEF BodyFrame
  <2> QED BY <2>4 DEF F, G, H, J, FrameOfIf
<1>2. FrameOfWhile(c, first, other, end) = BodyFrame(c, "stub", current, first, other, end, Null)
  <2> DEFINE F == Frame(c, "stub")
             G == [F EXCEPT !.first = first]
             H == [G EXCEPT !.other = other]
             J == [H EXCEPT !.end = end]
  <2>1. F = BodyFrame(c, "stub", current, 0, 0, 0, Null)
    BY DEF Frame, BodyFrame
  <2> HIDE DEF F
  <2>2. G = BodyFrame(c, "stub", current, first, 0, 0, Null)
    BY <2>1 DEF BodyFrame
  <2> HIDE DEF G
  <2>3. H = BodyFrame(c, "stub", current, first, other, 0, Null)
    BY <2>2 DEF BodyFrame
  <2> HIDE DEF H
  <2>4. J = BodyFrame(c, "stub", current, first, other, end, Null)
    BY <2>3 DEF BodyFrame
  <2> QED BY <2>4 DEF F, G, H, J, FrameOfWhile
<1>3. FrameOfFor(c, first, end, lo) = BodyFrame(c, "forStub", current, first, 0, end, lo)
  <2> DEFINE F == Frame(c, "forStub")
             G == [F EXCEPT !.first = first]
             H == [G EXCEPT !.end = end]
             J == [H EXCEPT !.lo = lo]
  <2>1. F = BodyFrame(c, "forStub", current, 0, 0, 0, Null)
    BY DEF Frame, BodyFrame
  <2> HIDE DEF F
  <2>2. G = BodyFrame(c, "forStub", current, first, 0, 0, Null)
    BY <2>1 DEF BodyFrame
  <2> HIDE DEF G
  <2>3. H = BodyFrame(c, "forStub", current, first, 0, end, Null)
    BY <2>2 DEF BodyFrame
  <2> HIDE DEF H
  <2>4. J = BodyFrame(c, "forStub", current, first, 0, end, lo)
    BY <2>3 DEF BodyFrame
  <2> QED BY <2>4 DEF F, G, H, J, FrameOfFor
<1> QED BY <1>1, <1>2, <1>3

\* The blocks of the routine with new ones made at the end.
LEMMA BlocksBegin ==
    ASSUME Inv, NEW count \in Nat
    PROVE  LET bs == NewBlocks(blocks, count) IN
           /\ Len(bs) = Len(blocks) + count /\ Len(bs) \in Nat /\ current \in 0..Len(bs)
           /\ bs \in Seq(Seq(Instrs(Len(incoming), adds, Len(bs))))
           /\ LeadIn(bs) /\ Writes(blocks, bs, {})
<1> DEFINE bs == NewBlocks(blocks, count)
           n == Len(blocks) + count
           I == Instrs(Len(incoming), adds, n)
<1>1. /\ Len(blocks) \in Nat /\ LeadIn(blocks) /\ current \in 0..Len(blocks)
      /\ Len(incoming) \in Nat /\ adds \in Nat
  BY WhatHolds
<1>2. blocks \in Seq(Seq(I))
  <2>1. n \in Nat /\ Len(blocks) <= n
    BY <1>1
  <2> QED BY <1>1, <2>1, OldPartsStillFit
<1> HIDE DEF I
<1>3. Len(bs) = n
  BY <1>2, Created
<1>4. bs \in Seq(Seq(I))
  BY <1>2, Created
<1>5. Writes(blocks, bs, {})
  BY <1>1, <1>2, BlocksAreMade
<1> HIDE DEF bs
<1>6. LeadIn(bs)
  BY <1>5 DEF Writes, LeadIn
<1> QED BY <1>1, <1>3, <1>4, <1>5, <1>6 DEF bs, I

\* A step that begins a body keeps the invariant, when its frame waits for the
\* blocks the step has made.
LEMMA AfterACall ==
    ASSUME Inv, Top.at <= Len(Nodes(program, scope)), NEW f \in FrameRecord, stack' = Append(stack, f),
           program' = program, incoming' = incoming, fallthrough' = fallthrough, status' = status,
           adds' \in Nat, adds <= adds', Writes(blocks, blocks', {current}),
           blocks' \in Seq(Seq(Instrs(Len(incoming), adds', Len(blocks')))),
           ValuesIn(program, valueOf', Len(incoming), adds'), DOMAIN valueOf \subseteq DOMAIN valueOf',
           Pending(f) \subseteq Len(blocks) + 1..Len(blocks'),
           current' \in {0} \cup (Len(blocks) + 1..Len(blocks')), current' \notin Pending(f),
           Generates(f, node),
           FitsIn(f, program, Len(blocks'), Len(incoming), adds', DOMAIN valueOf'),
           HasValues(f, program, DOMAIN valueOf')
    PROVE  Inv'
<1>1. /\ program \in Programs /\ Accepted(program) /\ status \in Statuses \ {"join"}
      /\ Len(incoming) \in Nat /\ Len(blocks) \in Nat /\ adds \in Nat /\ current \in 0..Len(blocks)
      /\ stack \in Seq(FrameRecord) /\ stack # <<>>
      /\ StackInv(stack, program, blocks, current, Len(incoming), adds, DOMAIN valueOf)
      /\ NamesIn(program, fallthrough, DOMAIN valueOf)
  BY WhatHolds DEF Inv
<1>2. Len(blocks') \in Nat /\ Len(blocks) <= Len(blocks')
  BY DEF Writes
<1>3. incoming \in Seq(Seq(Operands(Len(incoming), adds', Len(blocks'))))
  <2> DEFINE n == Len(blocks')
             a == adds'
  <2>1. n \in Nat /\ Len(blocks) <= n /\ a \in Nat /\ adds <= a /\ Len(incoming) <= Len(incoming)
    BY <1>1, <1>2
  <2> HIDE DEF n, a
  <2>2. incoming \in Seq(Seq(Operands(Len(incoming), a, n)))
    BY <1>1, <2>1, OldPartsStillFit
  <2> QED BY <2>2 DEF n, a
<1>4. NamesIn(program, fallthrough, DOMAIN valueOf')
  BY <1>1, NamesStay
<1>5. current' \in 0..Len(blocks')
  BY <1>1, <1>2
<1>6. /\ Top = stack[Len(stack)] /\ NodeOf(program, Top) = node /\ scope = Top.body
  BY TheNode DEF Top, scope
<1>7. LET new == Append(stack, f) IN
      /\ new \in Seq(FrameRecord) /\ new # <<>>
      /\ StackInv(new, program, blocks', current', Len(incoming), adds', DOMAIN valueOf')
  <2> DEFINE bs == blocks
             cs == blocks'
             ins == current'
             i == Len(incoming)
             a == adds
             c == adds'
             D == DOMAIN valueOf
             E == DOMAIN valueOf'
  <2>1. /\ Len(bs) \in Nat /\ Len(cs) \in Nat /\ current \in 0..Len(bs) /\ i \in Nat /\ i <= i
        /\ a \in Nat /\ c \in Nat /\ a <= c /\ D \subseteq E
        /\ stack \in Seq(FrameRecord) /\ stack # <<>>
        /\ StackInv(stack, program, bs, current, i, a, D) /\ Writes(bs, cs, {current})
        /\ Pending(f) \subseteq Len(bs) + 1..Len(cs)
        /\ ins \in {0} \cup (Len(bs) + 1..Len(cs)) /\ ins \notin Pending(f)
        /\ stack[Len(stack)].at <= Len(Nodes(program, stack[Len(stack)].body))
        /\ Generates(f, NodeOf(program, stack[Len(stack)]))
        /\ FitsIn(f, program, Len(cs), i, c, E) /\ HasValues(f, program, E)
    <3>1. /\ Len(bs) \in Nat /\ Len(cs) \in Nat /\ current \in 0..Len(bs)
          /\ i \in Nat /\ i <= i /\ a \in Nat
      BY <1>1, <1>2
    <3>2. /\ stack \in Seq(FrameRecord) /\ stack # <<>>
          /\ StackInv(stack, program, bs, current, i, a, D)
      BY <1>1
    <3>3. /\ stack[Len(stack)].at <= Len(Nodes(program, stack[Len(stack)].body))
          /\ Generates(f, NodeOf(program, stack[Len(stack)]))
      BY <1>6
    <3> QED BY <3>1, <3>2, <3>3
  <2> HIDE DEF bs, cs, ins, i, a, c, D, E
  <2>2. LET new == Append(stack, f) IN
        new \in Seq(FrameRecord) /\ new # <<>> /\ StackInv(new, program, cs, ins, i, c, E)
    BY <2>1, BodyIsCalled
  <2> QED BY <2>2 DEF cs, ins, i, c, E
<1>8. Holds(program, blocks', incoming, adds', current', valueOf', fallthrough, stack')
  BY <1>1, <1>3, <1>4, <1>5, <1>7 DEF Holds
<1> QED BY <1>1, <1>8 DEF Inv

\* The condition of an if statement and its branch keep the invariant.
LEMMA BeginIfKeepsInv == Inv /\ BeginIf => Inv'
<1> SUFFICES ASSUME Inv, BeginIf PROVE Inv'
  OBVIOUS
<1> DEFINE n == Len(blocks)
           true == n + 1
           end == n + 2
           count == IF node.else = 0 THEN 2 ELSE 3
           no == IF node.else = 0 THEN end ELSE n + 3
           bs == NewBlocks(blocks, count)
           code == <<CondBr(ValueIn(scope, node.e), true, no)>>
           f == BodyFrame(node.then, "true", current, true, no, end, Null)
<1>1. /\ Top.at <= Len(Nodes(program, scope)) /\ node.valid /\ node.op = "if"
      /\ Insert(bs, current, scope, node.e, code)
      /\ stack' = Append(stack, FrameOfIf(node.then, true, end, no))
      /\ current' = true
      /\ program' = program /\ incoming' = incoming /\ valueOf' = valueOf
      /\ fallthrough' = fallthrough /\ status' = status
  BY DEF BeginIf, AtNode, Call, NewBlock, FrameOfIf
<1>3. /\ n \in Nat /\ Len(incoming) \in Nat /\ adds \in Nat /\ current \in 0..n
      /\ WellFormed(program) /\ scope \in Bodies(program) /\ node.e \in Expressions
      /\ NamesIn(program, fallthrough, DOMAIN valueOf)
  BY <1>1, WhatHolds, TheNode
<1>4. count \in Nat /\ true \in 1..(n + count) /\ end \in 1..(n + count) /\ no \in 1..(n + count)
      /\ true # end /\ true # no /\ {end, no} \subseteq n + 1..(n + count) /\ true \in n + 1..(n + count)
  BY <1>3
<1>5. node.else = 0 <=> no = end
  BY <1>3
<1> HIDE DEF n, true, end, count, no, bs
<1>2. FrameOfIf(node.then, true, end, no) = f
  BY FramesOfBodies
<1> HIDE DEF f
<1>6. /\ Len(bs) = n + count /\ Len(bs) \in Nat /\ current \in 0..Len(bs)
      /\ bs \in Seq(Seq(Instrs(Len(incoming), adds, Len(bs)))) /\ LeadIn(bs)
      /\ Writes(blocks, bs, {})
  BY <1>4, BlocksBegin DEF bs, n
<1>7. /\ NoPhis(code)
      /\ ValueIn(scope, node.e) \in Values(Len(incoming), adds') \ {Null}
            => code \in Seq(Instrs(Len(incoming), adds', Len(bs)))
  <2>1. "condbr" \in Opcodes \ {"phi"} /\ 0 \in Nat /\ <<true, no>> \in Seq(1..Len(bs))
    BY <1>4, <1>6 DEF Opcodes
  <2>2. NoPhis(code)
    BY DEF NoPhis, CondBr, Instruction
  <2>3. code = <<Instruction("condbr", 0, ValueIn(scope, node.e), <<true, no>>)>>
    BY DEF CondBr
  <2> QED BY <2>1, <2>2, <2>3, OneInstruction
<1> HIDE DEF code
<1>8. /\ adds' \in Nat /\ adds <= adds' /\ Len(blocks') = Len(bs) /\ Writes(bs, blocks', {current})
      /\ blocks' \in Seq(Seq(Instrs(Len(incoming), adds', Len(blocks'))))
  BY <1>1, <1>3, <1>6, <1>7, ExpressionIsInserted
<1>9. Writes(blocks, blocks', {current})
  <2>1. Writes(blocks, blocks', {} \cup {current})
    BY <1>3, <1>6, <1>8, WritesInARow DEF n
  <2>2. {} \cup {current} = {current}
    OBVIOUS
  <2> QED BY <2>1, <2>2
<1>10. ValuesIn(program, valueOf, Len(incoming), adds')
  BY <1>3, <1>8, OldPartsStillFit DEF n
<1>11. node.then \in Parts(node) /\ node.then \in Bodies(program)
       /\ program.bodies[node.then].counter = NoIdent
  <2>1. node.then # 0
    BY <1>1, TheNode
  <2>2. node.then \in Parts(node)
    BY <2>1 DEF Parts
  <2> QED BY <1>1, <2>2, TheNode
<1>12. Null \in Values(Len(incoming), adds')
  BY <1>3, <1>8, MadeValues
<1>13. /\ f \in FrameRecord /\ f.body = node.then /\ f.kind = "true" /\ f.other = no /\ f.end = end
       /\ Pending(f) \subseteq {true, no, end} \ {0} /\ true \notin Pending(f)
       /\ FitsIn(f, program, Len(blocks'), Len(incoming), adds', DOMAIN valueOf)
       /\ HasValues(f, program, DOMAIN valueOf)
  <2> DEFINE m == Len(blocks')
             D == DOMAIN valueOf
             a == adds'
             i == Len(incoming)
             c == node.then
             P == program
             kind == "true"
             g == BodyFrame(c, kind, current, true, no, end, Null)
  <2>1. MayBegin(P, c, kind, m, i, a, D, current, true, no, end, Null)
    <3>1. WellFormed(P) /\ c \in Bodies(P) /\ i \in Nat /\ a \in Nat /\ Null \in Values(i, a)
      BY <1>3, <1>8, <1>11, <1>12
    <3>2. m = n + count /\ m \in Nat /\ n \in Nat /\ current \in 0..m
      BY <1>3, <1>6, <1>8
    <3>3. true \in 1..m /\ end \in 1..m /\ no \in 1..m /\ true # end /\ true # no
      BY <1>4, <3>2
    <3>4. no \in 0..m /\ no # 0 /\ P.bodies[c].counter = NoIdent
      BY <1>11, <3>2, <3>3
    <3> HIDE DEF m, D, a, i, c, P
    <3> QED BY <3>1, <3>2, <3>3, <3>4 DEF MayBegin
  <2> HIDE DEF m, D, a, i, c, P, kind
  <2>2. /\ g \in FrameRecord /\ g.body = c /\ g.kind = kind /\ g.other = no /\ g.end = end
        /\ Pending(g) \subseteq {true, no, end} \ {0} /\ (kind = "true" => true \notin Pending(g))
        /\ FitsIn(g, P, m, i, a, D) /\ HasValues(g, P, D)
    BY <2>1, BodyFrameFits
  <2> QED BY <2>2 DEF m, D, a, i, f, c, P, kind
<1>14. Generates(f, node)
  BY <1>1, <1>5, <1>13 DEF Generates, Loops, ForLoops
<1>15. /\ Pending(f) \subseteq Len(blocks) + 1..Len(blocks')
       /\ current' \in {0} \cup (Len(blocks) + 1..Len(blocks')) /\ current' \notin Pending(f)
  <2>1. Pending(f) \subseteq {no, end}
    BY <1>13
  <2> QED BY <1>1, <1>4, <1>6, <1>8, <1>13, <2>1 DEF n
<1>16. stack' = Append(stack, f)
  BY <1>1, <1>2
<1> QED BY <1>1, <1>8, <1>9, <1>10, <1>13, <1>14, <1>15, <1>16, AfterACall

\* Code without phi nodes, put at the end of one block of the routine.
LEMMA CodeIsAppended ==
    ASSUME NEW i, NEW a, NEW bs, Len(bs) \in Nat, bs \in Seq(Seq(Instrs(i, a, Len(bs)))), LeadIn(bs),
           NEW b \in 0..Len(bs), NEW code \in Seq(Instrs(i, a, Len(bs))), NoPhis(code)
    PROVE  /\ Len(AppendTo(bs, b, code)) = Len(bs)
           /\ AppendTo(bs, b, code) \in Seq(Seq(Instrs(i, a, Len(AppendTo(bs, b, code)))))
           /\ Writes(bs, AppendTo(bs, b, code), {b})
<1> DEFINE I == Instrs(i, a, Len(bs))
<1>1. bs \in Seq(Seq(I)) /\ code \in Seq(I)
  OBVIOUS
<1> HIDE DEF I
<1>2. Len(AppendTo(bs, b, code)) = Len(bs)
  BY <1>1, Inserted
<1>3. AppendTo(bs, b, code) \in Seq(Seq(I))
  BY <1>1, Inserted
<1>4. Writes(bs, AppendTo(bs, b, code), {b})
  BY <1>1, CodeIsWritten
<1> QED BY <1>2, <1>3, <1>4 DEF I

\* A branch to one block, as code.
LEMMA OneBranch ==
    ASSUME NEW i \in Nat, NEW a \in Nat, NEW n \in Nat, NEW to \in 1..n
    PROVE  <<Br(to)>> \in Seq(Instrs(i, a, n)) /\ NoPhis(<<Br(to)>>)
<1>1. "br" \in Opcodes \ {"phi"} /\ 0 \in Nat /\ Null \in Values(i, a) /\ <<to>> \in Seq(1..n)
  BY MadeValues DEF Opcodes
<1>2. <<Instruction("br", 0, Null, <<to>>)>> \in Seq(Instrs(i, a, n))
      /\ NoPhis(<<Instruction("br", 0, Null, <<to>>)>>)
  BY <1>1, OneInstruction
<1> QED BY <1>2 DEF Br

\* The counter of a for loop is found in its body.
LEMMA CountersAreDeclared ==
    ASSUME NEW P, WellFormed(P), NEW b \in Bodies(P)
    PROVE  Declared(P, LookupName(P, b, P.bodies[b].counter))
<1> DEFINE x == P.bodies[b].counter
<1>1. Declares(P, b, 0, x) /\ 0 \in 0..Len(Nodes(P, b))
  BY BodiesOfARoutine DEF Declares
<1> HIDE DEF x
<1>2. TableEntry(P, b, x) # NoName /\ Declared(P, TableEntry(P, b, x))
  BY <1>1, TableHoldsTheLast
<1> QED BY <1>2, LookupGoesUp DEF x

\* The stub of a while loop begins and keeps the invariant.
LEMMA BeginWhileKeepsInv == Inv /\ BeginWhile => Inv'
<1> SUFFICES ASSUME Inv, BeginWhile PROVE Inv'
  OBVIOUS
<1> DEFINE n == Len(blocks)
           expression == n + 1
           body == n + 2
           end == n + 3
           bs == NewBlocks(blocks, 3)
           code == <<Br(expression)>>
           f == BodyFrame(node.then, "stub", current, body, expression, end, Null)
<1>1. /\ Top.at <= Len(Nodes(program, scope)) /\ node.valid /\ node.op = "while"
      /\ blocks' = AppendTo(bs, current, code)
      /\ stack' = Append(stack, FrameOfWhile(node.then, body, expression, end))
      /\ current' = 0
      /\ program' = program /\ incoming' = incoming /\ valueOf' = valueOf /\ adds' = adds
      /\ fallthrough' = fallthrough /\ status' = status
  BY DEF BeginWhile, AtNode, Call, NewBlock, StubPoint, FrameOfWhile
<1>3. /\ n \in Nat /\ Len(incoming) \in Nat /\ adds \in Nat /\ current \in 0..n
      /\ WellFormed(program) /\ scope \in Bodies(program) /\ node.e \in Expressions
      /\ ValuesIn(program, valueOf, Len(incoming), adds)
  BY <1>1, WhatHolds, TheNode
<1>4. /\ expression \in 1..(n + 3) /\ body \in 1..(n + 3) /\ end \in 1..(n + 3)
      /\ {expression, body, end} \subseteq n + 1..(n + 3)
      /\ body # end /\ body # expression /\ expression # end
  BY <1>3
<1> HIDE DEF n, expression, body, end, bs
<1>5. FrameOfWhile(node.then, body, expression, end) = f
  BY FramesOfBodies
<1> HIDE DEF f
<1>6. /\ Len(bs) = n + 3 /\ Len(bs) \in Nat /\ current \in 0..Len(bs)
      /\ bs \in Seq(Seq(Instrs(Len(incoming), adds, Len(bs)))) /\ LeadIn(bs)
      /\ Writes(blocks, bs, {})
  BY BlocksBegin DEF bs, n
<1>7. code \in Seq(Instrs(Len(incoming), adds, Len(bs))) /\ NoPhis(code)
  BY <1>3, <1>4, <1>6, OneBranch
<1> HIDE DEF code
<1>8. /\ Len(blocks') = Len(bs) /\ Writes(bs, blocks', {current})
      /\ blocks' \in Seq(Seq(Instrs(Len(incoming), adds, Len(blocks'))))
  BY <1>1, <1>6, <1>7, CodeIsAppended
<1>9. Writes(blocks, blocks', {current})
  <2>1. Writes(blocks, blocks', {} \cup {current})
    BY <1>3, <1>6, <1>8, WritesInARow DEF n
  <2>2. {} \cup {current} = {current}
    OBVIOUS
  <2> QED BY <2>1, <2>2
<1>11. node.then \in Parts(node) /\ node.then \in Bodies(program)
       /\ program.bodies[node.then].counter = NoIdent
  <2>1. node.then # 0
    BY <1>1, TheNode
  <2>2. node.then \in Parts(node)
    BY <2>1 DEF Parts
  <2> QED BY <1>1, <2>2, TheNode
<1>12. Null \in Values(Len(incoming), adds)
  BY <1>3, MadeValues
<1>13. /\ f \in FrameRecord /\ f.body = node.then /\ f.kind = "stub"
       /\ Pending(f) \subseteq {body, expression, end} \ {0}
       /\ FitsIn(f, program, Len(blocks'), Len(incoming), adds, DOMAIN valueOf)
       /\ HasValues(f, program, DOMAIN valueOf)
  <2> DEFINE m == Len(blocks')
             D == DOMAIN valueOf
             i == Len(incoming)
             c == node.then
             P == program
             kind == "stub"
             g == BodyFrame(c, kind, current, body, expression, end, Null)
  <2>1. MayBegin(P, c, kind, m, i, adds, D, current, body, expression, end, Null)
    BY <1>3, <1>4, <1>6, <1>8, <1>11, <1>12 DEF MayBegin
  <2> HIDE DEF m, D, i, c, P, kind
  <2>2. /\ g \in FrameRecord /\ g.body = c /\ g.kind = kind
        /\ Pending(g) \subseteq {body, expression, end} \ {0}
        /\ FitsIn(g, P, m, i, adds, D) /\ HasValues(g, P, D)
    BY <2>1, BodyFrameFits
  <2> QED BY <2>2 DEF m, D, i, f, c, P, kind
<1>14. Generates(f, node)
  BY <1>1, <1>13 DEF Generates, Loops, ForLoops
<1>15. /\ Pending(f) \subseteq Len(blocks) + 1..Len(blocks')
       /\ current' \in {0} \cup (Len(blocks) + 1..Len(blocks')) /\ current' \notin Pending(f)
  <2>1. Pending(f) \subseteq {body, expression, end} /\ 0 \notin Pending(f)
    BY <1>13
  <2> QED BY <1>1, <1>4, <1>6, <1>8, <2>1 DEF n
<1>16. stack' = Append(stack, f) /\ adds <= adds
  BY <1>1, <1>3, <1>5
<1> QED BY <1>1, <1>3, <1>8, <1>9, <1>13, <1>14, <1>15, <1>16, AfterACall

\* The stub of a for loop begins and keeps the invariant.
LEMMA BeginForKeepsInv == Inv /\ BeginFor => Inv'
<1> SUFFICES ASSUME Inv, BeginFor PROVE Inv'
  OBVIOUS
<1> DEFINE n == Len(blocks)
           body == n + 1
           end == n + 2
           bs == NewBlocks(blocks, 2)
           code == <<Br(body)>>
           lo == ValueIn(scope, node.e)
           then == node.then
           name == CounterName(then)
           f == BodyFrame(then, "forStub", current, body, 0, end, lo)
<1>1. /\ Top.at <= Len(Nodes(program, scope)) /\ node.valid /\ node.op = "for"
      /\ Insert(bs, current, scope, node.e, code)
      /\ stack' = Append(stack, FrameOfFor(then, body, end, lo))
      /\ current' = 0 /\ valueOf' = SetValue(name, then, One)
      /\ program' = program /\ incoming' = incoming
      /\ fallthrough' = fallthrough /\ status' = status
  BY DEF BeginFor, AtNode, Call, NewBlock, StubPoint, FrameOfFor
<1>3. /\ n \in Nat /\ Len(incoming) \in Nat /\ adds \in Nat /\ current \in 0..n
      /\ WellFormed(program) /\ scope \in Bodies(program) /\ node.e \in Expressions
  BY <1>1, WhatHolds, TheNode
<1>4. /\ body \in 1..(n + 2) /\ end \in 1..(n + 2)
      /\ {body, end} \subseteq n + 1..(n + 2) /\ body # end /\ body # 0
  BY <1>3
<1> HIDE DEF n, body, end, bs, name, then
<1>5. FrameOfFor(then, body, end, lo) = f
  BY FramesOfBodies
<1> HIDE DEF f
<1>6. /\ Len(bs) = n + 2 /\ Len(bs) \in Nat /\ current \in 0..Len(bs)
      /\ bs \in Seq(Seq(Instrs(Len(incoming), adds, Len(bs)))) /\ LeadIn(bs)
      /\ Writes(blocks, bs, {})
  BY BlocksBegin DEF bs, n
<1>7. /\ NoPhis(code)
      /\ lo \in Values(Len(incoming), adds') \ {Null}
            => code \in Seq(Instrs(Len(incoming), adds', Len(bs)))
  <2>1. adds + Len(CodeOf(scope, node.e)) \in Nat /\ adds' = adds + Len(CodeOf(scope, node.e))
    BY <1>1, <1>3, WhatIsGenerated DEF Insert
  <2> DEFINE a == adds'
  <2>2. a \in Nat
    BY <2>1
  <2> HIDE DEF a
  <2>3. NoPhis(code) /\ code \in Seq(Instrs(Len(incoming), a, Len(bs)))
    BY <1>3, <1>4, <1>6, <2>2, OneBranch
  <2> QED BY <2>3 DEF a
<1> HIDE DEF code
<1>8. /\ adds' \in Nat /\ adds <= adds' /\ Len(blocks') = Len(bs) /\ Writes(bs, blocks', {current})
      /\ blocks' \in Seq(Seq(Instrs(Len(incoming), adds', Len(blocks'))))
      /\ lo \in Values(Len(incoming), adds')
  BY <1>1, <1>3, <1>6, <1>7, ExpressionIsInserted
<1>9. Writes(blocks, blocks', {current})
  <2>1. Writes(blocks, blocks', {} \cup {current})
    BY <1>3, <1>6, <1>8, WritesInARow DEF n
  <2>2. {} \cup {current} = {current}
    OBVIOUS
  <2> QED BY <2>1, <2>2
<1>10. then \in Parts(node) /\ then \in Bodies(program)
  <2>1. then # 0
    BY <1>1, TheNode DEF then
  <2>2. then \in Parts(node)
    BY <2>1 DEF Parts, then
  <2> QED BY <1>1, <2>2, TheNode
<1>11. /\ ValuesIn(program, valueOf', Len(incoming), adds')
       /\ DOMAIN valueOf' = {<<name, then>>} \cup DOMAIN valueOf
  <2>1. Declared(program, name)
    BY <1>3, <1>10, CountersAreDeclared DEF name, CounterName
  <2>2. One \in Values(Len(incoming), adds') \ {Null}
    BY <1>3, <1>8, MadeValues
  <2>3. ValuesIn(program, valueOf, Len(incoming), adds')
    BY <1>3, <1>8, OldPartsStillFit DEF n
  <2>4. ValuesIn(program, SetValue(name, then, One), Len(incoming), adds')
    BY <1>10, <2>1, <2>2, <2>3, OneValueIsAdded
  <2>5. DOMAIN SetValue(name, then, One) = {<<name, then>>} \cup DOMAIN valueOf
    BY DEF SetValue, Over
  <2> QED BY <1>1, <2>4, <2>5
<1> HIDE DEF lo
<1>13. /\ f \in FrameRecord /\ f.body = then /\ f.kind = "forStub"
       /\ Pending(f) \subseteq {body, 0, end} \ {0}
       /\ FitsIn(f, program, Len(blocks'), Len(incoming), adds', DOMAIN valueOf')
       /\ HasValues(f, program, DOMAIN valueOf')
  <2> DEFINE m == Len(blocks')
             D == DOMAIN valueOf'
             i == Len(incoming)
             a == adds'
             P == program
             kind == "forStub"
             g == BodyFrame(then, kind, current, body, 0, end, lo)
  <2>0. <<LookupName(P, then, P.bodies[then].counter), then>> \in D
    BY <1>11 DEF name, CounterName
  <2>1. MayBegin(P, then, kind, m, i, a, D, current, body, 0, end, lo)
    BY <1>3, <1>4, <1>6, <1>8, <1>10, <2>0 DEF MayBegin
  <2> HIDE DEF m, D, i, a, P, kind
  <2>2. /\ g \in FrameRecord /\ g.body = then /\ g.kind = kind
        /\ Pending(g) \subseteq {body, 0, end} \ {0}
        /\ FitsIn(g, P, m, i, a, D) /\ HasValues(g, P, D)
    BY <2>1, BodyFrameFits
  <2> QED BY <2>2 DEF m, D, i, a, f, P, kind
<1>14. Generates(f, node)
  BY <1>1, <1>13 DEF Generates, Loops, ForLoops, then
<1>15. /\ Pending(f) \subseteq Len(blocks) + 1..Len(blocks')
       /\ current' \in {0} \cup (Len(blocks) + 1..Len(blocks')) /\ current' \notin Pending(f)
  <2>1. Pending(f) \subseteq {body, end} /\ 0 \notin Pending(f)
    BY <1>13
  <2> QED BY <1>1, <1>4, <1>6, <1>8, <2>1 DEF n
<1>16. stack' = Append(stack, f) /\ DOMAIN valueOf \subseteq DOMAIN valueOf'
  BY <1>1, <1>5, <1>11
<1> QED BY <1>1, <1>8, <1>9, <1>11, <1>13, <1>14, <1>15, <1>16, AfterACall

-----------------------------------------------------------------------------
(* Steps that go on with a statement: another body, or the same one again. *)

\* A step that goes on with another body of the same statement, or with the same
\* body again, keeps the invariant, when it writes to the current block and those
\* the frame was waiting for.
LEMMA AfterAgain ==
    ASSUME Inv, Top.kind # "routine", NEW f \in FrameRecord, stack' = [stack EXCEPT ![Len(stack)] = f],
           program' = program, status' = status, Len(incoming') \in Nat, Len(incoming) <= Len(incoming'),
           adds' \in Nat, adds <= adds', NEW W, Writes(blocks, blocks', W),
           W \subseteq {current} \cup Pending(Top), W \cap Pending(f) = {},
           current' \in {current} \cup Pending(Top), current' \notin Pending(f),
           Pending(f) \subseteq Pending(Top), Generates(f, Statement),
           blocks' \in Seq(Seq(Instrs(Len(incoming'), adds', Len(blocks')))),
           incoming' \in Seq(Seq(Operands(Len(incoming'), adds', Len(blocks')))),
           ValuesIn(program, valueOf', Len(incoming'), adds'), DOMAIN valueOf \subseteq DOMAIN valueOf',
           NamesIn(program, fallthrough', DOMAIN valueOf'),
           FitsIn(f, program, Len(blocks'), Len(incoming'), adds', DOMAIN valueOf'),
           HasValues(f, program, DOMAIN valueOf')
    PROVE  Inv'
<1>1. /\ program \in Programs /\ Accepted(program) /\ status \in Statuses \ {"join"}
      /\ Len(incoming) \in Nat /\ Len(blocks) \in Nat /\ adds \in Nat /\ current \in 0..Len(blocks)
      /\ stack \in Seq(FrameRecord) /\ stack # <<>> /\ Len(stack) \in Nat
      /\ StackInv(stack, program, blocks, current, Len(incoming), adds, DOMAIN valueOf)
      /\ FitsIn(Top, program, Len(blocks), Len(incoming), adds, DOMAIN valueOf)
  BY WhatHolds DEF Inv
<1>2. Len(blocks') \in Nat /\ Len(blocks) <= Len(blocks')
  BY DEF Writes
<1>3. current' \in 0..Len(blocks')
  <2>1. Pending(Top) \subseteq 1..Len(blocks)
    BY <1>1 DEF FitsIn, Referred
  <2> QED BY <1>1, <1>2, <2>1
<1>4. Len(stack) > 1 /\ NodeOf(program, stack[Len(stack) - 1]) = Statement /\ Top = stack[Len(stack)]
  BY TheStatement DEF Caller, Top
<1>5. LET new == [stack EXCEPT ![Len(stack)] = f] IN
      /\ new \in Seq(FrameRecord) /\ new # <<>>
      /\ StackInv(new, program, blocks', current', Len(incoming'), adds', DOMAIN valueOf')
  <2> DEFINE bs == blocks
             cs == blocks'
             ins == current'
             i == Len(incoming)
             j == Len(incoming')
             a == adds
             c == adds'
             D == DOMAIN valueOf
             E == DOMAIN valueOf'
             new == [stack EXCEPT ![Len(stack)] = f]
  <2>1. /\ Len(bs) \in Nat /\ Len(cs) \in Nat /\ i \in Nat /\ j \in Nat /\ i <= j
        /\ a \in Nat /\ c \in Nat /\ a <= c /\ D \subseteq E
        /\ stack \in Seq(FrameRecord) /\ stack # <<>>
        /\ StackInv(stack, program, bs, current, i, a, D) /\ Writes(bs, cs, W)
        /\ W \subseteq {current} \cup Pending(stack[Len(stack)]) /\ W \cap Pending(f) = {}
        /\ ins \in {current} \cup Pending(stack[Len(stack)]) /\ ins \notin Pending(f)
        /\ Pending(f) \subseteq Pending(stack[Len(stack)])
        /\ FitsIn(f, program, Len(cs), j, c, E) /\ HasValues(f, program, E)
    BY <1>1, <1>2, <1>4
  <2>2. /\ Len(stack) = 1 => f.kind = "routine" /\ f.body = 1
        /\ Len(stack) > 1 => Generates(f, NodeOf(program, stack[Len(stack) - 1]))
    BY <1>1, <1>4
  <2> HIDE DEF bs, cs, ins, i, j, a, c, D, E
  <2>3. new \in Seq(FrameRecord) /\ new # <<>>
    BY <2>1, <2>2, TopChanges
  <2>4. StackInv(new, program, cs, ins, j, c, E)
    BY <2>1, <2>2, TopChanges
  <2> QED BY <2>3, <2>4 DEF cs, ins, j, c, E
<1>6. Holds(program, blocks', incoming', adds', current', valueOf', fallthrough', stack')
  BY <1>1, <1>3, <1>5 DEF Holds
<1> QED BY <1>1, <1>6 DEF Inv

\* The end of the first branch, and the beginning of the other, keep the invariant.
LEMMA BeginElseKeepsInv == Inv /\ BeginElse => Inv'
<1> SUFFICES ASSUME Inv, BeginElse PROVE Inv'
  OBVIOUS
<1> DEFINE f == [Top EXCEPT !.body = Statement.else, !.at = 1, !.kind = "false", !.tail = current]
           code == <<Br(Top.end)>>
<1>1. /\ Top.kind = "true" /\ Statement.else # 0
      /\ blocks' = AppendTo(blocks, current, code)
      /\ stack' = [stack EXCEPT ![Len(stack)] = f] /\ current' = Top.other
      /\ program' = program /\ incoming' = incoming /\ valueOf' = valueOf /\ adds' = adds
      /\ fallthrough' = fallthrough /\ status' = status
  BY DEF BeginElse, AtEnd, Again, GetInsertBlock
<1>2. /\ Len(blocks) \in Nat /\ Len(incoming) \in Nat /\ adds \in Nat /\ current \in 0..Len(blocks)
      /\ WellFormed(program) /\ Top \in FrameRecord /\ LeadIn(blocks)
      /\ blocks \in Seq(Seq(Instrs(Len(incoming), adds, Len(blocks))))
      /\ ValuesIn(program, valueOf, Len(incoming), adds)
      /\ NamesIn(program, fallthrough, DOMAIN valueOf)
      /\ FitsIn(Top, program, Len(blocks), Len(incoming), adds, DOMAIN valueOf)
  BY WhatHolds
<1>3. /\ Generates(Top, Statement) /\ Statement.op = "if" /\ Statement.valid
      /\ Top.other # Top.end
  BY <1>1, TheStatement DEF Generates
<1>4. /\ Statement.else \in Parts(Statement) /\ Statement.else \in Bodies(program)
      /\ program.bodies[Statement.else].counter = NoIdent
  <2>1. Statement.else \in Parts(Statement)
    BY <1>1 DEF Parts
  <2> QED BY <1>1, <1>3, <2>1, TheStatement
<1>5. Pending(Top) = {Top.end, Top.other} /\ Top.end \in 1..Len(blocks) /\ Top.other \in 1..Len(blocks)
  <2>1. Pending(Top) = {Top.end, Top.other}
    BY <1>1 DEF Pending
  <2> QED BY <1>2, <2>1 DEF FitsIn, Referred
<1>6. /\ f \in FrameRecord /\ f.body = Statement.else /\ f.at = 1 /\ f.kind = "false" /\ f.tail = current
      /\ f.begin = Top.begin /\ f.first = Top.first /\ f.other = Top.other /\ f.end = Top.end
      /\ f.lo = Top.lo
  <2>1. Statement.else \in Nat /\ 1 \in Nat /\ "false" \in FrameKinds /\ current \in Nat
    <3>1. Statement.else \in Nat
      BY <1>2, <1>4, ABody
    <3>2. "false" \in FrameKinds
      BY DEF FrameKinds
    <3> QED BY <1>2, <3>1, <3>2
  <2> QED BY <1>2, <2>1 DEF FrameRecord
<1> HIDE DEF f
<1>7. Pending(f) = {Top.end} /\ Referred(f) = {Top.end}
  <2>1. Pending(f) = {Top.end}
    BY <1>6 DEF Pending
  <2> QED BY <1>6, <2>1 DEF Referred
<1>8. code \in Seq(Instrs(Len(incoming), adds, Len(blocks))) /\ NoPhis(code)
  BY <1>2, <1>5, OneBranch
<1> HIDE DEF code
<1>9. /\ Len(blocks') = Len(blocks) /\ Writes(blocks, blocks', {current})
      /\ blocks' \in Seq(Seq(Instrs(Len(incoming), adds, Len(blocks'))))
  <2> DEFINE bs == AppendTo(blocks, current, code)
  <2>1. Len(bs) = Len(blocks)
    <3> DEFINE I == Instrs(Len(incoming), adds, Len(blocks))
    <3>1. blocks \in Seq(Seq(I)) /\ code \in Seq(I) /\ current \in 0..Len(blocks)
      BY <1>2, <1>8
    <3> HIDE DEF I
    <3> QED BY <3>1, LengthIsKept
  <2>2. bs \in Seq(Seq(Instrs(Len(incoming), adds, Len(bs))))
    BY <1>2, <1>8, CodeIsAppended
  <2>3. Writes(blocks, bs, {current})
    BY <1>2, <1>8, CodeIsAppended
  <2> QED BY <1>1, <2>1, <2>2, <2>3
<1>10. incoming \in Seq(Seq(Operands(Len(incoming), adds, Len(blocks'))))
  BY <1>9, WhatHolds
<1>11. FitsIn(f, program, Len(blocks'), Len(incoming), adds, DOMAIN valueOf)
  <2>1. f.at \in 1..(Len(Nodes(program, f.body)) + 1)
    BY <1>2, <1>4, <1>6, BodiesOfARoutine
  <2>2. f.kind \notin Learned /\ f.kind \notin {"stub", "condition", "forStub", "for"}
    BY <1>6 DEF Learned
  <2>3. f.lo \in Values(Len(incoming), adds) /\ {f.begin, f.tail, f.first, f.other} \subseteq 0..Len(blocks')
    BY <1>2, <1>6, <1>9 DEF FitsIn
  <2>4. f.body \in Bodies(program) /\ Referred(f) \subseteq 1..Len(blocks')
    BY <1>4, <1>5, <1>6, <1>7, <1>9
  <2> QED BY <2>1, <2>2, <2>3, <2>4 DEF FitsIn
<1>12. HasValues(f, program, DOMAIN valueOf)
  <2>1. 1..(f.at - 1) = {}
    BY <1>6
  <2> QED BY <1>4, <1>6, <2>1 DEF HasValues
<1>13. Generates(f, Statement)
  BY <1>1, <1>3, <1>6 DEF Generates, Loops, ForLoops
<1>14. current \notin Pending(Top)
  BY WhatHolds DEF StackInv, ApartIn, Top
<1>15. /\ {current} \subseteq {current} \cup Pending(Top) /\ {current} \cap Pending(f) = {}
       /\ current' \in {current} \cup Pending(Top) /\ current' \notin Pending(f)
       /\ Pending(f) \subseteq Pending(Top) /\ Top.kind # "routine"
       /\ Len(incoming) <= Len(incoming) /\ adds <= adds
  BY <1>1, <1>2, <1>3, <1>5, <1>7, <1>14
<1> QED BY <1>1, <1>2, <1>6, <1>9, <1>10, <1>11, <1>12, <1>13, <1>15, AfterAgain

\* The condition of a while loop, made after its phi nodes, keeps the invariant.
LEMMA ConditionOfWhileKeepsInv == Inv /\ ConditionOfWhile => Inv'
<1> SUFFICES ASSUME Inv, ConditionOfWhile PROVE Inv'
  OBVIOUS
<1> DEFINE f == [Top EXCEPT !.kind = "while", !.at = 1]
           e == Statement.e
           code == <<CondBr(ValueIn(scope, e), Top.first, Top.end)>>
<1>1. /\ Top.kind = "condition" /\ Insert(blocks, Top.other, scope, e, code)
      /\ stack' = [stack EXCEPT ![Len(stack)] = f] /\ current' = Top.first
      /\ program' = program /\ incoming' = incoming /\ valueOf' = valueOf
      /\ fallthrough' = fallthrough /\ status' = status
  BY DEF ConditionOfWhile, AtEnd, Again
<1>2. /\ Len(blocks) \in Nat /\ Len(incoming) \in Nat /\ adds \in Nat
      /\ WellFormed(program) /\ Top \in FrameRecord /\ LeadIn(blocks) /\ scope \in Bodies(program)
      /\ blocks \in Seq(Seq(Instrs(Len(incoming), adds, Len(blocks))))
      /\ NamesIn(program, fallthrough, DOMAIN valueOf)
      /\ FitsIn(Top, program, Len(blocks), Len(incoming), adds, DOMAIN valueOf)
      /\ HasValues(Top, program, DOMAIN valueOf) /\ Top.at \in Nat
  BY WhatHolds
<1>3. Generates(Top, Statement) /\ e \in Expressions
  BY <1>1, TheStatement
<1> HIDE DEF e
<1>5. /\ Pending(Top) = {Top.end, Top.first, Top.other} /\ Pending(Top) \subseteq 1..Len(blocks)
      /\ Top.first # Top.end /\ Top.first # Top.other /\ Top.other # Top.end
  <2>1. Pending(Top) = {Top.end, Top.first, Top.other}
    BY <1>1 DEF Pending
  <2> QED BY <1>1, <1>2, <2>1 DEF FitsIn, Referred
<1>6. /\ f \in FrameRecord /\ f.body = Top.body /\ f.at = 1 /\ f.kind = "while"
      /\ f.begin = Top.begin /\ f.first = Top.first /\ f.other = Top.other /\ f.end = Top.end
      /\ f.lo = Top.lo /\ f.tail = Top.tail /\ f.names = Top.names /\ f.phis = Top.phis
  <2>1. 1 \in Nat /\ "while" \in FrameKinds
    BY DEF FrameKinds
  <2> QED BY <1>2, <2>1 DEF FrameRecord
<1> HIDE DEF f
<1>7. Pending(f) = {Top.end} /\ Referred(f) = {Top.end, Top.first, Top.other}
  <2>1. Pending(f) = {Top.end}
    BY <1>6 DEF Pending
  <2> QED BY <1>6, <2>1 DEF Referred
<1>8. /\ NoPhis(code)
      /\ ValueIn(scope, e) \in Values(Len(incoming), adds') \ {Null}
            => code \in Seq(Instrs(Len(incoming), adds', Len(blocks)))
  <2>1. "condbr" \in Opcodes \ {"phi"} /\ 0 \in Nat /\ <<Top.first, Top.end>> \in Seq(1..Len(blocks))
    BY <1>5 DEF Opcodes
  <2>2. NoPhis(code)
    BY DEF NoPhis, CondBr, Instruction
  <2>3. code = <<Instruction("condbr", 0, ValueIn(scope, e), <<Top.first, Top.end>>)>>
    BY DEF CondBr
  <2> QED BY <2>1, <2>2, <2>3, OneInstruction
<1> HIDE DEF code
<1>9. /\ adds' \in Nat /\ adds <= adds' /\ Len(blocks') = Len(blocks)
      /\ Writes(blocks, blocks', {Top.other})
      /\ blocks' \in Seq(Seq(Instrs(Len(incoming), adds', Len(blocks'))))
  <2>1. Top.other \in 0..Len(blocks)
    BY <1>2, <1>5
  <2> QED BY <1>1, <1>2, <1>3, <1>8, <2>1, ExpressionIsInserted
<1>10. /\ incoming \in Seq(Seq(Operands(Len(incoming), adds', Len(blocks))))
       /\ ValuesIn(program, valueOf, Len(incoming), adds')
  BY <1>2, <1>9, OldPartsStillFit
<1>11. FitsIn(f, program, Len(blocks'), Len(incoming), adds', DOMAIN valueOf)
  <2>0. FitsIn(Top, program, Len(blocks), Len(incoming), adds', DOMAIN valueOf)
    BY <1>2, <1>9, FrameStillFits
  <2>1. f.at \in 1..(Len(Nodes(program, f.body)) + 1)
    BY <1>2, <1>6, BodiesOfARoutine DEF scope
  <2>2. f.kind \notin {"stub", "condition", "forStub", "for"}
    BY <1>6
  <2>3. f.lo \in Values(Len(incoming), adds') /\ {f.begin, f.tail, f.first, f.other} \subseteq 0..Len(blocks')
    BY <1>6, <1>9, <2>0 DEF FitsIn
  <2>4. f.body \in Bodies(program) /\ Referred(f) \subseteq 1..Len(blocks')
    BY <1>2, <1>5, <1>6, <1>7, <1>9 DEF scope
  <2>5. /\ \A name \in ToSet(f.names) :
              ComesFromAround(program, f.body, name) /\ <<name, f.body>> \in DOMAIN valueOf
        /\ f.phis + Len(f.names) <= Len(incoming)
    BY <1>1, <1>6, <2>0 DEF FitsIn, Learned
  <2> QED BY <2>1, <2>2, <2>3, <2>4, <2>5 DEF FitsIn
<1>12. HasValues(f, program, DOMAIN valueOf)
  <2>1. 1..(f.at - 1) = {}
    BY <1>6
  <2> QED BY <1>2, <1>6, <2>1 DEF HasValues
<1>13. Generates(f, Statement)
  BY <1>1, <1>3, <1>6 DEF Generates, Loops, ForLoops
<1>15. /\ {Top.other} \subseteq {current} \cup Pending(Top) /\ {Top.other} \cap Pending(f) = {}
       /\ current' \in {current} \cup Pending(Top) /\ current' \notin Pending(f)
       /\ Pending(f) \subseteq Pending(Top) /\ Top.kind # "routine"
       /\ Len(incoming) <= Len(incoming)
  BY <1>1, <1>2, <1>5, <1>7
<1> QED BY <1>1, <1>2, <1>6, <1>9, <1>10, <1>11, <1>12, <1>13, <1>15, AfterAgain

-----------------------------------------------------------------------------
(* Phi nodes.                                                              *)

\* Operands of new phi nodes go after those of the phi nodes there are.
LEMMA PhisAreAppended ==
    ASSUME NEW T, NEW r \in Seq(T), NEW s \in Seq(T)
    PROVE  r \o s \in Seq(T) /\ Len(r \o s) = Len(r) + Len(s) /\ Len(r) \in Nat /\ Len(s) \in Nat
  BY ConcatProperties

\* One phi node for every name, with the operands that ops gives it.
LEMMA OperandsForNames ==
    ASSUME NEW names \in Seq(NameRecord), NEW T, NEW f, f \in [DOMAIN names -> T]
    PROVE  f \in Seq(T) /\ Len(f) = Len(names)
<1>1. DOMAIN names = 1..Len(names) /\ Len(names) \in Nat
  OBVIOUS
<1> QED BY <1>1, SeqDef

\* One operand of a phi node.
LEMMA OneOperand ==
    ASSUME NEW i, NEW a, NEW n, NEW v \in Values(i, a), NEW b \in 0..n
    PROVE  <<v, b>> \in Operands(i, a, n) /\ <<<<v, b>>>> \in Seq(Operands(i, a, n))
<1>1. <<v, b>> \in Operands(i, a, n)
  BY DEF Operands
<1> DEFINE o == <<v, b>>
<1> HIDE DEF o
<1>2. o \in Operands(i, a, n)
  BY <1>1 DEF o
<1>3. <<o>> \in Seq(Operands(i, a, n))
  BY <1>2
<1> QED BY <1>2, <1>3 DEF o

\* Both operands of a phi node.
LEMMA TwoOperands ==
    ASSUME NEW i, NEW a, NEW n, NEW v \in Values(i, a), NEW b \in 0..n,
           NEW w \in Values(i, a), NEW c \in 0..n
    PROVE  <<<<v, b>>, <<w, c>>>> \in Seq(Operands(i, a, n))
<1> DEFINE o == <<v, b>>
           p == <<w, c>>
<1>1. o \in Operands(i, a, n) /\ p \in Operands(i, a, n)
  BY DEF Operands
<1> HIDE DEF o, p
<1>2. <<o, p>> \in Seq(Operands(i, a, n))
  BY <1>1
<1> QED BY <1>2 DEF o, p

\* Phi nodes put into a block that has only phi nodes, when there are as many.
LEMMA PhisAreInserted ==
    ASSUME Inv, NEW i \in Nat, Len(incoming) <= i, NEW k \in Nat, NEW b \in 1..Len(blocks),
           OnlyPhis(blocks[b]),
           NEW bs, bs = AppendTo(blocks, b, PhiNodes(Len(incoming), k))
    PROVE  /\ Len(bs) = Len(blocks) /\ Writes(blocks, bs, {})
           /\ bs \in Seq(Seq(Instrs(i, adds, Len(bs))))
<1> DEFINE I == Instrs(i, adds, Len(blocks))
           code == PhiNodes(Len(incoming), k)
<1>1. /\ Len(blocks) \in Nat /\ Len(incoming) \in Nat /\ adds \in Nat /\ LeadIn(blocks)
      /\ b \in 0..Len(blocks)
  BY WhatHolds
<1>2. blocks \in Seq(Seq(I))
  BY <1>1, OldPartsStillFit
<1>3. code \in Seq(I) /\ OnlyPhis(code)
  BY <1>1, PhiNodesAreInstructions
<1> HIDE DEF I, code
<1>4. b \in 0..Len(blocks) /\ blocks \in Seq(Seq(I)) /\ code \in Seq(I)
  BY <1>1, <1>2, <1>3
<1>5. Len(AppendTo(blocks, b, code)) = Len(blocks) /\ AppendTo(blocks, b, code) \in Seq(Seq(I))
  BY <1>4, Inserted
<1>6. Writes(blocks, AppendTo(blocks, b, code), {})
  BY <1>1, <1>2, <1>3, PhisAreWritten
<1> QED BY <1>4, <1>5, <1>6 DEF I, code

\* The top frame waits for blocks that nothing but phi nodes is in.
LEMMA WhatTopWaitsFor ==
    ASSUME Inv
    PROVE  /\ Pending(Top) \subseteq 1..Len(blocks) /\ current \notin Pending(Top)
           /\ \A b \in Pending(Top) : OnlyPhis(blocks[b])
<1>1. /\ Len(stack) \in 1..Len(stack) /\ ApartIn(stack, current, blocks)
      /\ FitsIn(Top, program, Len(blocks), Len(incoming), adds, DOMAIN valueOf)
  BY WhatHolds DEF StackInv
<1>2. Pending(Top) \subseteq 1..Len(blocks)
  BY <1>1 DEF FitsIn, Referred
<1> QED BY <1>1, <1>2 DEF ApartIn, Top

\* The phi nodes that a while loop needs after its stub keep the invariant.
LEMMA PhisOfWhileKeepsInv == Inv /\ PhisOfWhile => Inv'
<1> SUFFICES ASSUME Inv, PhisOfWhile PROVE Inv'
  OBVIOUS
<1> DEFINE names == fallthrough[scope]
           from == Len(incoming)
           i == from + Len(names)
           ops == [k \in DOMAIN names |-> <<<<Get(names[k], outer), Top.begin>>>>]
           new == SetValues(scope, names, PhisOf(names, from))
           f == [Top EXCEPT !.kind = "condition", !.names = names, !.phis = from]
<1>1. /\ Top.kind = "stub" /\ incoming' = incoming \o ops /\ valueOf' = Over(new, valueOf)
      /\ blocks' = AppendTo(blocks, Top.other, PhiNodes(from, Len(names)))
      /\ stack' = [stack EXCEPT ![Len(stack)] = f]
      /\ program' = program /\ adds' = adds /\ current' = current
      /\ fallthrough' = fallthrough /\ status' = status
  BY DEF PhisOfWhile, AtEnd, Again
<1>2. /\ Len(blocks) \in Nat /\ from \in Nat /\ adds \in Nat
      /\ WellFormed(program) /\ Top \in FrameRecord /\ scope \in Bodies(program)
      /\ incoming \in Seq(Seq(Operands(from, adds, Len(blocks))))
      /\ NamesIn(program, fallthrough, DOMAIN valueOf)
      /\ FitsIn(Top, program, Len(blocks), from, adds, DOMAIN valueOf)
      /\ HasValues(Top, program, DOMAIN valueOf)
      /\ current \notin Pending(Top) /\ \A b \in Pending(Top) : OnlyPhis(blocks[b])
  BY WhatHolds, WhatTopWaitsFor
<1>3. Generates(Top, Statement) /\ scope \in Parts(Statement)
  BY <1>1, TheStatement
<1>4. /\ names \in Seq(NameRecord) /\ Len(names) \in Nat /\ i \in Nat /\ from <= i
      /\ \A name \in ToSet(names) :
            ComesFromAround(program, scope, name) /\ <<name, scope>> \in DOMAIN valueOf
  <2>1. names \in Seq(NameRecord)
    BY <1>2 DEF NamesIn
  <2>2. \A name \in ToSet(names) :
            ComesFromAround(program, scope, name) /\ <<name, scope>> \in DOMAIN valueOf
    BY <1>2 DEF NamesIn
  <2> HIDE DEF names
  <2> QED BY <1>2, <2>1, <2>2
<1>5. \A name \in ToSet(names) :
          Declared(program, name) /\ LookupName(program, scope, name.ident) = name
  BY <1>1, <1>3, <1>4, NamesOfABody
<1> HIDE DEF names, from
<1>6. /\ Pending(Top) = {Top.end, Top.first, Top.other} /\ Pending(Top) \subseteq 1..Len(blocks)
      /\ Top.first # Top.end /\ Top.first # Top.other /\ Top.other # Top.end
  <2>1. Pending(Top) = {Top.end, Top.first, Top.other}
    BY <1>1 DEF Pending
  <2> QED BY <1>1, <1>2, <2>1 DEF FitsIn, Referred
<1>7. /\ f \in FrameRecord /\ f.body = Top.body /\ f.at = Top.at /\ f.kind = "condition"
      /\ f.begin = Top.begin /\ f.first = Top.first /\ f.other = Top.other /\ f.end = Top.end
      /\ f.lo = Top.lo /\ f.tail = Top.tail /\ f.names = names /\ f.phis = from
  <2>1. "condition" \in FrameKinds
    BY DEF FrameKinds
  <2> QED BY <1>2, <1>4, <2>1 DEF FrameRecord
<1> HIDE DEF f
<1>8. Pending(f) = Pending(Top) /\ Referred(f) = Pending(Top)
  <2>1. Pending(f) = {Top.end, Top.first, Top.other}
    BY <1>7 DEF Pending
  <2> QED BY <1>6, <1>7, <2>1 DEF Referred
<1>9. /\ Len(blocks') = Len(blocks) /\ Writes(blocks, blocks', {})
      /\ blocks' \in Seq(Seq(Instrs(i, adds, Len(blocks'))))
  <2>1. Top.other \in 1..Len(blocks) /\ OnlyPhis(blocks[Top.other])
    BY <1>2, <1>6
  <2> DEFINE bs == blocks'
  <2>2. bs = AppendTo(blocks, Top.other, PhiNodes(Len(incoming), Len(names)))
    BY <1>1 DEF from
  <2> HIDE DEF bs
  <2>3. /\ Len(bs) = Len(blocks) /\ Writes(blocks, bs, {})
        /\ bs \in Seq(Seq(Instrs(i, adds, Len(bs))))
    BY <1>4, <2>1, <2>2, PhisAreInserted DEF from
  <2> QED BY <2>3 DEF bs
<1>10. Len(incoming') = i /\ incoming' \in Seq(Seq(Operands(i, adds, Len(blocks))))
  <2> DEFINE T == Seq(Operands(i, adds, Len(blocks)))
  <2>1. incoming \in Seq(T)
    <3> HIDE DEF i
    <3>1. i \in Nat /\ Len(incoming) <= i /\ adds <= adds /\ Len(blocks) <= Len(blocks)
      BY <1>2, <1>4 DEF from
    <3> QED BY <1>2, <3>1, OldPartsStillFit
  <2>2. ASSUME NEW k \in DOMAIN names PROVE <<<<Get(names[k], outer), Top.begin>>>> \in T
    <3>1. Get(names[k], outer) \in Values(i, adds)
      <4>1. Values(Len(incoming), adds) \subseteq Values(i, adds)
        BY <1>2, <1>4 DEF Values, from
      <4> QED BY <4>1, ValuesAreThere
    <3>2. Top.begin \in 0..Len(blocks)
      BY <1>2 DEF FitsIn
    <3> QED BY <3>1, <3>2, OneOperand
  <2> HIDE DEF T
  <2>3. ops \in [DOMAIN names -> T]
    BY <2>2
  <2> HIDE DEF ops
  <2>4. ops \in Seq(T) /\ Len(ops) = Len(names)
    BY <1>4, <2>3, OperandsForNames
  <2>5. incoming \o ops \in Seq(T) /\ Len(incoming \o ops) = from + Len(names)
    BY <2>1, <2>4, PhisAreAppended DEF from
  <2> QED BY <1>1, <2>5 DEF T
<1>11. ValuesIn(program, valueOf', i, adds) /\ DOMAIN valueOf \subseteq DOMAIN valueOf'
  <2>1. PhisOf(names, from) \in [ToSet(names) -> Values(i, adds) \ {Null}]
    <3>1. from + Len(names) <= i /\ i \in Nat
      BY <1>2, <1>4
    <3> HIDE DEF i
    <3> QED BY <1>2, <1>4, <3>1, PhisOfNames
  <2>2. ValuesIn(program, new, i, adds)
    BY <1>2, <1>5, <2>1, NamesAreSet
  <2>3. ValuesIn(program, valueOf, i, adds)
    <3>1. i \in Nat /\ Len(incoming) <= i /\ adds \in Nat /\ adds <= adds
      BY <1>2, <1>4 DEF from
    <3> HIDE DEF i
    <3> QED BY <3>1, ValuesStillFit
  <2> HIDE DEF new, i
  <2>4. ValuesIn(program, Over(new, valueOf), i, adds)
    BY <2>2, <2>3, ValuesAreAdded
  <2>5. DOMAIN valueOf \subseteq DOMAIN Over(new, valueOf)
    BY DEF Over
  <2> QED BY <1>1, <2>4, <2>5
<1>12. NamesIn(program, fallthrough', DOMAIN valueOf')
  BY <1>1, <1>2, <1>11, NamesStay
<1>13. FitsIn(f, program, Len(blocks'), Len(incoming'), adds', DOMAIN valueOf')
  <2>0. Values(from, adds) \subseteq Values(i, adds)
    BY <1>2, <1>4 DEF Values
  <2>1. f.body \in Bodies(program) /\ f.at \in 1..(Len(Nodes(program, f.body)) + 1)
    BY <1>2, <1>7 DEF FitsIn
  <2>2. f.lo \in Values(i, adds) /\ {f.begin, f.tail, f.first, f.other} \subseteq 0..Len(blocks')
    BY <1>2, <1>7, <1>9, <2>0 DEF FitsIn
  <2>3. Referred(f) \subseteq 1..Len(blocks')
    BY <1>6, <1>8, <1>9
  <2>4. /\ \A name \in ToSet(f.names) :
              ComesFromAround(program, f.body, name) /\ <<name, f.body>> \in DOMAIN valueOf'
        /\ f.phis + Len(f.names) <= i
    BY <1>2, <1>4, <1>7, <1>11 DEF scope
  <2>5. f.kind # "for" /\ f.kind # "forStub" /\ f.first # f.other /\ f.first # f.end /\ f.other # f.end
    BY <1>6, <1>7
  <2> QED BY <1>1, <1>10, <2>1, <2>2, <2>3, <2>4, <2>5 DEF FitsIn
<1>14. HasValues(f, program, DOMAIN valueOf')
  BY <1>2, <1>7, <1>11 DEF HasValues
<1>15. Generates(f, Statement)
  BY <1>1, <1>3, <1>7 DEF Generates, Loops, ForLoops
<1>16. /\ {} \subseteq {current} \cup Pending(Top) /\ {} \cap Pending(f) = {}
       /\ current' \in {current} \cup Pending(Top) /\ current' \notin Pending(f)
       /\ Pending(f) \subseteq Pending(Top) /\ Top.kind # "routine"
       /\ adds' \in Nat /\ adds <= adds' /\ Len(incoming') \in Nat /\ Len(incoming) <= Len(incoming')
  BY <1>1, <1>2, <1>4, <1>8, <1>10 DEF from
<1>17. /\ blocks' \in Seq(Seq(Instrs(Len(incoming'), adds', Len(blocks'))))
       /\ incoming' \in Seq(Seq(Operands(Len(incoming'), adds', Len(blocks'))))
       /\ ValuesIn(program, valueOf', Len(incoming'), adds')
  BY <1>1, <1>9, <1>10, <1>11
<1> QED BY <1>1, <1>7, <1>9, <1>11, <1>12, <1>13, <1>14, <1>15, <1>16, <1>17, AfterAgain

\* The phi nodes that a for loop needs after its stub keep the invariant.
LEMMA PhisOfForKeepsInv == Inv /\ PhisOfFor => Inv'
<1> SUFFICES ASSUME Inv, PhisOfFor PROVE Inv'
  OBVIOUS
<1> DEFINE names == fallthrough[scope]
           from == Len(incoming)
           i == from + Len(names) + 1
           ops == [k \in DOMAIN names |-> <<<<Get(names[k], outer), Top.begin>>,
                                            <<Get(names[k], scope), Top.first>>>>]
           last == <<<<<<Top.lo, Top.begin>>>>>>
           counter == CounterName(scope)
           own == [key \in {<<counter, scope>>} |-> Phi(i)]
           new == SetValues(scope, names, ValuesOf(names, scope))
           f == [Top EXCEPT !.kind = "for", !.at = 1, !.names = names, !.phis = from]
<1>1. /\ Top.kind = "forStub" /\ incoming' = (incoming \o ops) \o last
      /\ valueOf' = Over(own, Over(new, valueOf))
      /\ blocks' = AppendTo(blocks, Top.first, PhiNodes(from, Len(names) + 1))
      /\ stack' = [stack EXCEPT ![Len(stack)] = f] /\ current' = Top.first
      /\ program' = program /\ adds' = adds
      /\ fallthrough' = FallThrough(scope, names) /\ status' = status
  BY DEF PhisOfFor, AtEnd, Again
<1>2. /\ Len(blocks) \in Nat /\ from \in Nat /\ adds \in Nat
      /\ WellFormed(program) /\ Top \in FrameRecord /\ scope \in Bodies(program)
      /\ incoming \in Seq(Seq(Operands(from, adds, Len(blocks))))
      /\ NamesIn(program, fallthrough, DOMAIN valueOf)
      /\ FitsIn(Top, program, Len(blocks), from, adds, DOMAIN valueOf)
      /\ HasValues(Top, program, DOMAIN valueOf)
      /\ Pending(Top) \subseteq 1..Len(blocks)
      /\ current \notin Pending(Top) /\ \A b \in Pending(Top) : OnlyPhis(blocks[b])
  BY WhatHolds, WhatTopWaitsFor
<1>3. Generates(Top, Statement) /\ scope \in Parts(Statement)
  BY <1>1, TheStatement
<1>4. /\ names \in Seq(NameRecord) /\ Len(names) \in Nat /\ i \in Nat /\ from <= i
      /\ from + Len(names) < i
      /\ \A name \in ToSet(names) :
            ComesFromAround(program, scope, name) /\ <<name, scope>> \in DOMAIN valueOf
  <2>1. names \in Seq(NameRecord)
    BY <1>2 DEF NamesIn
  <2>2. \A name \in ToSet(names) :
            ComesFromAround(program, scope, name) /\ <<name, scope>> \in DOMAIN valueOf
    BY <1>2 DEF NamesIn
  <2> HIDE DEF names
  <2> QED BY <1>2, <2>1, <2>2
<1>5. \A name \in ToSet(names) :
          /\ Declared(program, name) /\ LookupName(program, scope, name.ident) = name
          /\ name.scope \in Path(program, scope)
  BY <1>1, <1>3, <1>4, NamesOfABody
<1> HIDE DEF names, from
<1>6. Pending(Top) = {Top.end, Top.first} /\ Top.first # Top.end
  <2>1. Pending(Top) = {Top.end, Top.first}
    BY <1>1 DEF Pending
  <2> QED BY <1>1, <1>2, <2>1 DEF FitsIn
<1>7. /\ f \in FrameRecord /\ f.body = Top.body /\ f.at = 1 /\ f.kind = "for"
      /\ f.begin = Top.begin /\ f.first = Top.first /\ f.other = Top.other /\ f.end = Top.end
      /\ f.lo = Top.lo /\ f.tail = Top.tail /\ f.names = names /\ f.phis = from
  <2>1. "for" \in FrameKinds /\ 1 \in Nat
    BY DEF FrameKinds
  <2> QED BY <1>2, <1>4, <2>1 DEF FrameRecord
<1> HIDE DEF f
<1>8. Pending(f) = {Top.end} /\ Referred(f) = {Top.end, Top.first}
  <2>1. Pending(f) = {Top.end}
    BY <1>7 DEF Pending
  <2> QED BY <1>6, <1>7, <2>1 DEF Referred
<1>9. /\ Len(blocks') = Len(blocks) /\ Writes(blocks, blocks', {})
      /\ blocks' \in Seq(Seq(Instrs(i, adds, Len(blocks'))))
  <2>1. Top.first \in 1..Len(blocks) /\ OnlyPhis(blocks[Top.first])
    BY <1>2, <1>6
  <2> DEFINE bs == blocks'
             k == Len(names) + 1
  <2>2. bs = AppendTo(blocks, Top.first, PhiNodes(Len(incoming), k)) /\ k \in Nat
    BY <1>1, <1>4 DEF from
  <2> HIDE DEF bs, k, i
  <2>3. /\ Len(bs) = Len(blocks) /\ Writes(blocks, bs, {})
        /\ bs \in Seq(Seq(Instrs(i, adds, Len(bs))))
    BY <1>4, <2>1, <2>2, PhisAreInserted DEF from
  <2> QED BY <2>3 DEF bs
<1>0. Values(from, adds) \subseteq Values(i, adds)
  BY <1>2, <1>4 DEF Values
<1>10. Len(incoming') = i /\ incoming' \in Seq(Seq(Operands(i, adds, Len(blocks))))
  <2> DEFINE T == Seq(Operands(i, adds, Len(blocks)))
  <2>1. incoming \in Seq(T)
    <3> HIDE DEF i
    <3>1. i \in Nat /\ Len(incoming) <= i /\ adds <= adds /\ Len(blocks) <= Len(blocks)
      BY <1>2, <1>4 DEF from
    <3> QED BY <1>2, <3>1, OldPartsStillFit
  <2>0. Top.begin \in 0..Len(blocks) /\ Top.first \in 0..Len(blocks) /\ Top.lo \in Values(i, adds)
    BY <1>0, <1>2 DEF FitsIn
  <2>2. ASSUME NEW k \in DOMAIN names
        PROVE  <<<<Get(names[k], outer), Top.begin>>, <<Get(names[k], scope), Top.first>>>> \in T
    <3>1. Get(names[k], outer) \in Values(i, adds) /\ Get(names[k], scope) \in Values(i, adds)
      BY <1>0, ValuesAreThere DEF from
    <3> QED BY <2>0, <3>1, TwoOperands
  <2>3. <<<<Top.lo, Top.begin>>>> \in T
    BY <2>0, OneOperand
  <2> DEFINE o == <<<<Top.lo, Top.begin>>>>
  <2> HIDE DEF T
  <2>4. last \in Seq(T) /\ Len(last) = 1
    <3> HIDE DEF o
    <3>1. <<o>> \in Seq(T) /\ Len(<<o>>) = 1
      BY <2>3 DEF o
    <3>2. last = <<o>>
      BY DEF o
    <3> QED BY <3>1, <3>2
  <2>5. ops \in [DOMAIN names -> T]
    BY <2>2
  <2> HIDE DEF ops, last
  <2>6. ops \in Seq(T) /\ Len(ops) = Len(names)
    BY <1>4, <2>5, OperandsForNames
  <2> DEFINE most == incoming \o ops
  <2>7. most \in Seq(T) /\ Len(most) = from + Len(names)
    BY <2>1, <2>6, PhisAreAppended DEF from
  <2> HIDE DEF most
  <2>8. most \o last \in Seq(T) /\ Len(most \o last) = (from + Len(names)) + 1
    <3> DEFINE k == from + Len(names)
    <3>1. most \in Seq(T) /\ last \in Seq(T)
      BY <2>4, <2>7
    <3>2. Len(most) = k /\ Len(last) = 1
      BY <2>4, <2>7
    <3> HIDE DEF k
    <3>3. most \o last \in Seq(T) /\ Len(most \o last) = Len(most) + Len(last)
      BY <3>1, PhisAreAppended
    <3>4. Len(most \o last) = k + 1
      BY <3>2, <3>3
    <3> QED BY <3>3, <3>4 DEF k
  <2> QED BY <1>1, <2>8 DEF T, most
<1>11. /\ ValuesIn(program, valueOf', i, adds) /\ DOMAIN valueOf \subseteq DOMAIN valueOf'
       /\ <<counter, scope>> \in DOMAIN valueOf'
  <2>1. ValuesOf(names, scope) \in [ToSet(names) -> Values(i, adds) \ {Null}]
    <3> HIDE DEF i
    <3> QED BY <1>2, <1>4, ValuesOfNames DEF from
  <2>2. ValuesIn(program, new, i, adds)
    BY <1>2, <1>5, <2>1, NamesAreSet
  <2>3. ValuesIn(program, valueOf, i, adds)
    <3>1. i \in Nat /\ Len(incoming) <= i /\ adds \in Nat /\ adds <= adds
      BY <1>2, <1>4 DEF from
    <3> HIDE DEF i
    <3> QED BY <3>1, ValuesStillFit
  <2>4. Declared(program, counter)
    BY <1>2, CountersAreDeclared DEF CounterName
  <2>5. Phi(i) \in Values(i, adds) \ {Null}
    <3>1. i \in 1..i
      BY <1>2, <1>4
    <3> HIDE DEF i
    <3> QED BY <1>2, <1>4, <3>1, MadeValues
  <2> HIDE DEF new, i, counter
  <2>6. ValuesIn(program, Over(new, valueOf), i, adds)
    BY <2>2, <2>3, ValuesAreAdded
  <2>7. ValuesIn(program, own, i, adds)
    <3> DEFINE v == Phi(i)
               D == {<<counter, scope>>}
               w == [key \in D |-> v]
    <3>1. v \in Values(i, adds) \ {Null}
      BY <2>5
    <3> HIDE DEF v
    <3>2. DOMAIN w = D /\ w \in [D -> Values(i, adds) \ {Null}]
      BY <3>1
    <3>3. \A key \in D : Declared(program, key[1]) /\ key[2] \in Bodies(program)
      BY <1>2, <2>4
    <3> HIDE DEF w, D
    <3>4. ValuesIn(program, w, i, adds)
      BY <3>2, <3>3 DEF ValuesIn
    <3> QED BY <3>4 DEF w, v, D
  <2>8. DOMAIN own = {<<counter, scope>>}
    OBVIOUS
  <2> DEFINE less == Over(new, valueOf)
  <2>9. DOMAIN valueOf \subseteq DOMAIN less
    BY DEF Over
  <2> HIDE DEF own, less
  <2>10. ValuesIn(program, Over(own, less), i, adds)
    BY <2>6, <2>7, ValuesAreAdded DEF less
  <2>11. DOMAIN Over(own, less) = DOMAIN own \cup DOMAIN less
    BY DEF Over
  <2> QED BY <1>1, <2>8, <2>9, <2>10, <2>11 DEF less
<1>12. NamesIn(program, fallthrough', DOMAIN valueOf')
  <2> DEFINE D == DOMAIN valueOf'
  <2>1. NamesIn(program, fallthrough, D) /\ DOMAIN valueOf \subseteq D
    BY <1>2, <1>11, NamesStay
  <2> HIDE DEF D
  <2>2. Reach(program, scope, names, D)
    BY <1>4, <1>5, <2>1 DEF Reach
  <2>3. NamesIn(program, FallThrough(scope, names), D)
    BY <1>2, <1>4, <2>1, <2>2, NamesFallThrough
  <2> QED BY <1>1, <2>3 DEF D
<1>13. FitsIn(f, program, Len(blocks'), Len(incoming'), adds', DOMAIN valueOf')
  <2>1. f.body \in Bodies(program) /\ f.at \in 1..(Len(Nodes(program, f.body)) + 1)
    <3>1. Len(Nodes(program, scope)) \in Nat /\ f.body = scope
      BY <1>2, <1>7, BodiesOfARoutine DEF scope
    <3> QED BY <1>2, <1>7, <3>1
  <2>2. f.lo \in Values(i, adds) /\ {f.begin, f.tail, f.first, f.other} \subseteq 0..Len(blocks')
    BY <1>0, <1>2, <1>7, <1>9 DEF FitsIn
  <2>3. Referred(f) \subseteq 1..Len(blocks')
    BY <1>2, <1>6, <1>8, <1>9
  <2>4. /\ \A name \in ToSet(f.names) :
              ComesFromAround(program, f.body, name) /\ <<name, f.body>> \in DOMAIN valueOf'
        /\ f.phis + Len(f.names) <= i /\ f.phis + Len(f.names) < i
    <3>1. from + Len(names) <= i
      BY <1>2, <1>4
    <3> HIDE DEF i
    <3> QED BY <1>4, <1>7, <1>11, <3>1 DEF scope
  <2>5. f.kind \notin {"stub", "condition", "forStub"}
    BY <1>7
  <2> QED BY <1>1, <1>10, <2>1, <2>2, <2>3, <2>4, <2>5 DEF FitsIn
<1>14. HasValues(f, program, DOMAIN valueOf')
  <2>1. 1..(f.at - 1) = {} /\ f.body = scope
    BY <1>7 DEF scope
  <2>2. <<LookupName(program, scope, program.bodies[scope].counter), scope>> \in DOMAIN valueOf'
    BY <1>11 DEF CounterName
  <2> QED BY <2>1, <2>2 DEF HasValues
<1>15. Generates(f, Statement)
  BY <1>1, <1>3, <1>7 DEF Generates, Loops, ForLoops
<1>16. /\ {} \subseteq {current} \cup Pending(Top) /\ {} \cap Pending(f) = {}
       /\ current' \in {current} \cup Pending(Top) /\ current' \notin Pending(f)
       /\ Pending(f) \subseteq Pending(Top) /\ Top.kind # "routine"
       /\ adds' \in Nat /\ adds <= adds' /\ Len(incoming') \in Nat /\ Len(incoming) <= Len(incoming')
  BY <1>1, <1>2, <1>4, <1>6, <1>8, <1>10 DEF from
<1>17. /\ blocks' \in Seq(Seq(Instrs(Len(incoming'), adds', Len(blocks'))))
       /\ incoming' \in Seq(Seq(Operands(Len(incoming'), adds', Len(blocks'))))
       /\ ValuesIn(program, valueOf', Len(incoming'), adds')
  BY <1>1, <1>9, <1>10, <1>11
<1> QED BY <1>1, <1>7, <1>9, <1>11, <1>12, <1>13, <1>14, <1>15, <1>16, <1>17, AfterAgain


-----------------------------------------------------------------------------
(* Steps that return to the enclosing body.                                *)

\* The last body of a statement ends: code generation goes on in its last block.
LEMMA AfterReturn ==
    ASSUME Inv, Top.kind # "routine", ReturnToCaller, current' = Top.end,
           program' = program, status' = status, Len(incoming') \in Nat, Len(incoming) <= Len(incoming'),
           adds' \in Nat, adds <= adds', Len(blocks') = Len(blocks), Writes(blocks, blocks', {current}),
           blocks' \in Seq(Seq(Instrs(Len(incoming'), adds', Len(blocks')))),
           incoming' \in Seq(Seq(Operands(Len(incoming'), adds', Len(blocks')))),
           ValuesIn(program, valueOf', Len(incoming'), adds'), DOMAIN valueOf \subseteq DOMAIN valueOf',
           NamesIn(program, fallthrough', DOMAIN valueOf')
    PROVE  Inv'
<1>1. /\ program \in Programs /\ Accepted(program) /\ status \in Statuses \ {"join"}
      /\ WellFormed(program) /\ Len(incoming) \in Nat /\ Len(blocks) \in Nat /\ adds \in Nat
      /\ stack \in Seq(FrameRecord)
      /\ StackInv(stack, program, blocks, current, Len(incoming), adds, DOMAIN valueOf)
      /\ FitsIn(Top, program, Len(blocks), Len(incoming), adds, DOMAIN valueOf)
  BY WhatHolds DEF Inv
<1>2. Len(stack) > 1 /\ Top = stack[Len(stack)]
  BY TheStatement DEF Top
<1>3. Top.end \in Pending(Top) /\ Top.end \in 1..Len(blocks)
  <2>1. Top.end \in Pending(Top)
    BY DEF Pending
  <2> QED BY <1>1, <2>1 DEF FitsIn, Referred
<1>4. LET new == [Front(stack) EXCEPT ![Len(stack) - 1].at = @ + 1] IN
      /\ new \in Seq(FrameRecord) /\ new # <<>>
      /\ StackInv(new, program, blocks', Top.end, Len(incoming'), adds', DOMAIN valueOf')
  <2> DEFINE bs == blocks
             cs == blocks'
             ins == Top.end
             i == Len(incoming)
             j == Len(incoming')
             a == adds
             c == adds'
             D == DOMAIN valueOf
             E == DOMAIN valueOf'
             new == [Front(stack) EXCEPT ![Len(stack) - 1].at = @ + 1]
  <2>1. /\ Len(bs) \in Nat /\ Len(cs) \in Nat /\ i \in Nat /\ j \in Nat /\ i <= j
        /\ a \in Nat /\ c \in Nat /\ a <= c /\ D \subseteq E
        /\ stack \in Seq(FrameRecord) /\ Len(stack) > 1
        /\ StackInv(stack, program, bs, current, i, a, D) /\ Writes(bs, cs, {current})
        /\ ins \in Pending(stack[Len(stack)])
    BY <1>1, <1>2, <1>3
  <2> HIDE DEF bs, cs, ins, i, j, a, c, D, E
  <2>2. new \in Seq(FrameRecord) /\ new # <<>> /\ StackInv(new, program, cs, ins, j, c, E)
    BY <1>1, <2>1, BodyIsLeft
  <2> QED BY <2>2 DEF cs, ins, j, c, E
<1>5. /\ stack' \in Seq(FrameRecord) /\ stack' # <<>>
      /\ StackInv(stack', program, blocks', current', Len(incoming'), adds', DOMAIN valueOf')
  BY <1>4 DEF ReturnToCaller
<1>6. current' \in 0..Len(blocks')
  BY <1>1, <1>3
<1>7. Holds(program, blocks', incoming', adds', current', valueOf', fallthrough', stack')
  BY <1>1, <1>5, <1>6 DEF Holds
<1> QED BY <1>1, <1>7 DEF Inv

\* Names get the phi nodes that were made for them.
LEMMA PhisAreSet ==
    ASSUME NEW i \in Nat, NEW a \in Nat, NEW s \in Bodies(program),
           NEW names \in Seq(NameRecord), NEW from \in Nat, from + Len(names) <= i,
           \A name \in ToSet(names) :
               Declared(program, name) /\ LookupName(program, s, name.ident) = name,
           NEW vals, ValuesIn(program, vals, i, a),
           NEW v, v = Over(SetValues(s, names, PhisOf(names, from)), vals)
    PROVE  /\ ValuesIn(program, v, i, a) /\ DOMAIN vals \subseteq DOMAIN v
           /\ \A name \in ToSet(names) : <<name, s>> \in DOMAIN v
<1> DEFINE phis == PhisOf(names, from)
           new == SetValues(s, names, phis)
<1>1. phis \in [ToSet(names) -> Values(i, a) \ {Null}]
  BY PhisOfNames
<1> HIDE DEF phis
<1>2. ValuesIn(program, new, i, a) /\ DOMAIN new = {<<name, s>> : name \in ToSet(names)}
  <2>1. ValuesIn(program, new, i, a)
    BY <1>1, NamesAreSet
  <2>2. DOMAIN new = {<<NameToFall(s, name), s>> : name \in ToSet(names)}
    BY DEF SetValues
  <2>3. \A name \in ToSet(names) : NameToFall(s, name) = name
    BY DEF NameToFall
  <2> HIDE DEF new
  <2> QED BY <2>1, <2>2, <2>3
<1> HIDE DEF new
<1>3. ValuesIn(program, Over(new, vals), i, a)
  BY <1>2, ValuesAreAdded
<1>4. DOMAIN Over(new, vals) = DOMAIN new \cup DOMAIN vals
  BY DEF Over
<1>5. v = Over(new, vals)
  BY DEF new, phis
<1> QED BY <1>2, <1>3, <1>4, <1>5

\* A branch to the last block of a statement, and phi nodes there.
LEMMA BranchToPhis ==
    ASSUME Inv, Top.kind # "routine", NEW i \in Nat, Len(incoming) <= i, NEW k \in Nat, NEW bs,
           bs = AppendTo(AppendTo(blocks, current, <<Br(Top.end)>>), Top.end,
                         PhiNodes(Len(incoming), k))
    PROVE  /\ Len(bs) = Len(blocks) /\ Writes(blocks, bs, {current})
           /\ bs \in Seq(Seq(Instrs(i, adds, Len(bs))))
<1> DEFINE I == Instrs(i, adds, Len(blocks))
           b == Top.end
           code == <<Br(b)>>
           phis == PhiNodes(Len(incoming), k)
           cs == AppendTo(blocks, current, code)
<1>1. /\ Len(blocks) \in Nat /\ Len(incoming) \in Nat /\ adds \in Nat /\ LeadIn(blocks)
      /\ current \in 0..Len(blocks)
  BY WhatHolds
<1>2. b \in 1..Len(blocks) /\ b \in 0..Len(blocks) /\ b # current /\ OnlyPhis(blocks[b])
  <2>1. b \in Pending(Top)
    BY DEF Pending
  <2> QED BY <1>1, <2>1, WhatTopWaitsFor
<1>3. blocks \in Seq(Seq(I))
  BY <1>1, OldPartsStillFit
<1>4. code \in Seq(I) /\ NoPhis(code)
  BY <1>1, <1>2, OneBranch
<1>5. phis \in Seq(I) /\ OnlyPhis(phis)
  BY <1>1, PhiNodesAreInstructions
<1> HIDE DEF I, b, code, phis
<1>6. Len(cs) = Len(blocks)
  BY <1>1, <1>3, <1>4, Inserted
<1>7. cs \in Seq(Seq(I))
  BY <1>1, <1>3, <1>4, Inserted
<1>8. Writes(blocks, cs, {current})
  BY <1>1, <1>3, <1>4, CodeIsWritten
<1>9. bs = AppendTo(cs, b, phis)
  BY DEF b, code, phis
<1> HIDE DEF cs
<1>10. LeadIn(cs) /\ OnlyPhis(cs[b]) /\ b \in 1..Len(cs) /\ b \in 0..Len(cs)
  BY <1>2, <1>6, <1>8 DEF Writes, LeadIn
<1>11. Len(bs) = Len(cs)
  BY <1>5, <1>7, <1>9, <1>10, Inserted
<1>12. bs \in Seq(Seq(I))
  BY <1>5, <1>7, <1>9, <1>10, Inserted
<1>13. Writes(cs, bs, {})
  BY <1>5, <1>7, <1>9, <1>10, PhisAreWritten
<1>14. Writes(blocks, bs, {current} \cup {})
  BY <1>1, <1>6, <1>8, <1>11, <1>13, WritesInARow
<1>15. {current} \cup {} = {current}
  OBVIOUS
<1> QED BY <1>6, <1>11, <1>12, <1>14, <1>15 DEF I

\* Two scopes take what falls through them from two lists.
LEMMA NamesOfTwoScopes ==
    ASSUME NEW P, NEW D, NEW f, NEW g, NamesIn(P, f, D), NamesIn(P, g, D), NEW s \in Bodies(P)
    PROVE  NamesIn(P, [f EXCEPT ![s] = g[s]], D)
  BY DEF NamesIn

\* Phi nodes get another operand for every entry of names.
LEMMA OperandsAreAdded ==
    ASSUME NEW i, NEW a, NEW n, NEW names \in Seq(NameRecord), NEW from,
           NEW values, values \in [ToSet(names) -> Values(i, a)], NEW block \in 0..n,
           incoming \in Seq(Seq(Operands(i, a, n))),
           NEW new, new = AddOperands(names, from, values, block)
    PROVE  new \in Seq(Seq(Operands(i, a, n))) /\ Len(new) = Len(incoming)
<1> DEFINE O == Operands(i, a, n)
           own(p) == Those(names, {name \in ToSet(names) : PhiOf(names, from, name) = Phi(p)})
           more(p) == [k \in DOMAIN own(p) |-> <<values[own(p)[k]], block>>]
           all == [p \in DOMAIN incoming |-> incoming[p] \o more(p)]
<1>1. new = all
  BY DEF AddOperands
<1>2. ASSUME NEW p PROVE more(p) \in Seq(O)
  <2> DEFINE S == {name \in ToSet(names) : PhiOf(names, from, name) = Phi(p)}
             r == Those(names, S)
  <2>1. r \in Seq(NameRecord) /\ ToSet(r) = ToSet(names) \cap S
    BY ThoseAreIn
  <2> HIDE DEF S
  <2>2. r = own(p)
    BY DEF S
  <2> HIDE DEF r
  <2>3. ASSUME NEW k \in DOMAIN r PROVE <<values[r[k]], block>> \in O
    <3>1. r[k] \in ToSet(names)
      BY <2>1, <2>3 DEF ToSet
    <3> QED BY <3>1 DEF Operands
  <2> DEFINE m == [k \in DOMAIN r |-> <<values[r[k]], block>>]
  <2>4. m \in [DOMAIN r -> O]
    BY <2>3
  <2> HIDE DEF m, O
  <2>5. m \in Seq(O)
    BY <2>1, <2>4, OperandsForNames
  <2> QED BY <2>2, <2>5 DEF m
<1> HIDE DEF O, own
<1>3. incoming \in Seq(Seq(O)) /\ Len(incoming) \in Nat /\ DOMAIN incoming = 1..Len(incoming)
  <2>1. incoming \in Seq(Seq(O))
    BY DEF O
  <2> QED BY <2>1
<1>4. ASSUME NEW p \in 1..Len(incoming) PROVE incoming[p] \o more(p) \in Seq(O)
  <2>1. incoming[p] \in Seq(O) /\ more(p) \in Seq(O)
    BY <1>2, <1>3
  <2> HIDE DEF more
  <2> QED BY <2>1
<1> HIDE DEF more
<1>5. all \in [1..Len(incoming) -> Seq(O)]
  BY <1>3, <1>4
<1> HIDE DEF all
<1> DEFINE T == Seq(O)
           l == Len(incoming)
<1>6. all \in [1..l -> T] /\ l \in Nat
  BY <1>3, <1>5
<1> HIDE DEF T, l
<1>7. all \in Seq(T) /\ Len(all) = l
  BY <1>6, SeqDef
<1> QED BY <1>1, <1>7 DEF O, T, l

\* The names that a loop has learned, and where it goes on after it.
LEMMA WhatALoopKnows ==
    ASSUME Inv, Top.kind \in {"while", "for"}
    PROVE  /\ Top.names \in Seq(NameRecord) /\ Len(Top.names) \in Nat /\ Top.phis \in Nat
           /\ Top.phis + Len(Top.names) <= Len(incoming)
           /\ Top.kind = "for" => Top.phis + Len(Top.names) < Len(incoming)
           /\ Top.first \in 1..Len(blocks) /\ Top.end \in 1..Len(blocks)
           /\ Top.kind = "while" => Top.other \in 1..Len(blocks)
           /\ Top.kind # "routine" /\ scope \in Parts(Statement)
           /\ \A name \in ToSet(Top.names) :
                 /\ Declared(program, name) /\ <<name, scope>> \in DOMAIN valueOf
                 /\ name.scope \in Path(program, scope) /\ LookupName(program, scope, name.ident) = name
                 /\ name.scope \in Path(program, outer) /\ LookupName(program, outer, name.ident) = name
<1>1. /\ Top \in FrameRecord /\ scope \in Bodies(program)
      /\ FitsIn(Top, program, Len(blocks), Len(incoming), adds, DOMAIN valueOf)
  BY WhatHolds
<1>2. Top.kind # "routine" /\ scope \in Parts(Statement)
  BY TheStatement
<1>3. Top.names \in Seq(NameRecord) /\ Top.phis \in Nat
  BY <1>1 DEF FrameRecord
<1>4. Len(Top.names) \in Nat
  BY <1>3
<1>5. /\ Top.first \in Referred(Top) /\ Top.end \in Referred(Top)
      /\ Top.kind = "while" => Top.other \in Referred(Top)
  BY <1>2 DEF Referred, Pending
<1>6. Referred(Top) \subseteq 1..Len(blocks)
  BY <1>1 DEF FitsIn
<1>7. /\ \A name \in ToSet(Top.names) :
            ComesFromAround(program, scope, name) /\ <<name, scope>> \in DOMAIN valueOf
      /\ Top.phis + Len(Top.names) <= Len(incoming)
      /\ Top.kind = "for" => Top.phis + Len(Top.names) < Len(incoming)
  BY <1>1 DEF FitsIn, Learned, scope
<1>8. ASSUME NEW name \in ToSet(Top.names)
      PROVE  /\ Declared(program, name) /\ <<name, scope>> \in DOMAIN valueOf
             /\ name.scope \in Path(program, scope) /\ LookupName(program, scope, name.ident) = name
             /\ name.scope \in Path(program, outer) /\ LookupName(program, outer, name.ident) = name
  BY <1>2, <1>7, NamesOfABody
<1> QED BY <1>2, <1>3, <1>4, <1>5, <1>6, <1>7, <1>8

\* What the enclosing body takes over from a loop.
LEMMA LoopIsLeft ==
    ASSUME Inv, Top.kind \in {"while", "for"}, NEW vals, NEW falls,
           LeaveLoop(Top.names, Top.phis, vals, falls),
           NEW a \in Nat, ValuesIn(program, vals, Len(incoming), a), DOMAIN valueOf \subseteq DOMAIN vals,
           NamesIn(program, falls, DOMAIN vals)
    PROVE  /\ ValuesIn(program, valueOf', Len(incoming), a) /\ DOMAIN valueOf \subseteq DOMAIN valueOf'
           /\ NamesIn(program, fallthrough', DOMAIN valueOf')
           /\ current' = Top.end /\ ReturnToCaller
<1> DEFINE names == Top.names
           from == Top.phis
           D == DOMAIN valueOf'
           v == valueOf'
<1>1. /\ names \in Seq(NameRecord) /\ from \in Nat /\ from + Len(names) <= Len(incoming)
      /\ \A name \in ToSet(names) :
            /\ Declared(program, name) /\ name.scope \in Path(program, outer)
            /\ LookupName(program, outer, name.ident) = name
  BY WhatALoopKnows
<1>2. WellFormed(program) /\ outer \in Bodies(program) /\ Len(incoming) \in Nat
      /\ NamesIn(program, fallthrough, DOMAIN valueOf)
  BY WhatHolds, TheStatement
<1>3. /\ v = Over(SetValues(outer, names, PhisOf(names, from)), vals)
      /\ fallthrough' = [falls EXCEPT ![outer] = FallThrough(outer, names)[outer]]
      /\ current' = Top.end /\ ReturnToCaller
  BY DEF LeaveLoop
<1> HIDE DEF names, from, v
<1>4. /\ ValuesIn(program, v, Len(incoming), a) /\ DOMAIN vals \subseteq DOMAIN v
      /\ \A name \in ToSet(names) : <<name, outer>> \in DOMAIN v
  BY <1>1, <1>2, <1>3, PhisAreSet
<1>5. D = DOMAIN v
  BY DEF v
<1> HIDE DEF D
<1>6. NamesIn(program, falls, D) /\ NamesIn(program, fallthrough, D)
  BY <1>2, <1>4, <1>5, NamesStay
<1>7. Reach(program, outer, names, D)
  BY <1>1, <1>4, <1>5 DEF Reach
<1> DEFINE g == FallThrough(outer, names)
<1>8. NamesIn(program, g, D)
  BY <1>1, <1>2, <1>6, <1>7, NamesFallThrough
<1> HIDE DEF g
<1>9. NamesIn(program, [falls EXCEPT ![outer] = g[outer]], D)
  BY <1>2, <1>6, <1>8, NamesOfTwoScopes
<1> QED BY <1>3, <1>4, <1>5, <1>9 DEF v, D, g

\* A while loop keeps the invariant when its body has been generated.
LEMMA EndWhileKeepsInv == Inv /\ EndWhile => Inv'
<1> SUFFICES ASSUME Inv, EndWhile PROVE Inv'
  OBVIOUS
<1> DEFINE names == Top.names
           values == ValuesOf(names, scope)
           new == SetValues(scope, names, values)
           vals == Over(new, valueOf)
           falls == FallThrough(scope, names)
           code == <<Br(Top.other)>>
           i == Len(incoming)
           D == DOMAIN vals
<1>1. /\ Top.kind = "while"
      /\ incoming' = AddOperands(names, Top.phis, values, Top.first)
      /\ blocks' = AppendTo(blocks, current, code)
      /\ LeaveLoop(names, Top.phis, vals, falls)
      /\ program' = program /\ adds' = adds /\ status' = status
  BY DEF EndWhile, AtEnd
<1>2. /\ Len(blocks) \in Nat /\ i \in Nat /\ adds \in Nat /\ current \in 0..Len(blocks)
      /\ WellFormed(program) /\ scope \in Bodies(program) /\ LeadIn(blocks)
      /\ blocks \in Seq(Seq(Instrs(i, adds, Len(blocks))))
      /\ incoming \in Seq(Seq(Operands(i, adds, Len(blocks))))
      /\ ValuesIn(program, valueOf, i, adds) /\ NamesIn(program, fallthrough, DOMAIN valueOf)
  BY WhatHolds
<1>3. /\ names \in Seq(NameRecord) /\ Top.kind # "routine"
      /\ Top.first \in 0..Len(blocks) /\ Top.other \in 1..Len(blocks)
      /\ \A name \in ToSet(names) :
            /\ Declared(program, name) /\ <<name, scope>> \in DOMAIN valueOf
            /\ name.scope \in Path(program, scope) /\ LookupName(program, scope, name.ident) = name
  <2>1. Top.first \in 0..Len(blocks)
    BY <1>1, <1>2, WhatALoopKnows
  <2> QED BY <1>1, <2>1, WhatALoopKnows
<1>4. values \in [ToSet(names) -> Values(i, adds) \ {Null}]
  <2>1. i <= i /\ adds <= adds
    BY <1>2
  <2> HIDE DEF names
  <2> QED BY <1>2, <1>3, <2>1, ValuesOfNames DEF i
<1>5. ValuesIn(program, vals, i, adds) /\ DOMAIN valueOf \subseteq D
  <2> HIDE DEF names, values
  <2>1. ValuesIn(program, new, i, adds)
    BY <1>2, <1>3, <1>4, NamesAreSet
  <2> HIDE DEF new
  <2>2. ValuesIn(program, Over(new, valueOf), i, adds)
    BY <1>2, <2>1, ValuesAreAdded
  <2>3. DOMAIN Over(new, valueOf) = DOMAIN new \cup DOMAIN valueOf
    BY DEF Over
  <2> QED BY <2>2, <2>3
<1> HIDE DEF vals
<1>6. NamesIn(program, falls, D)
  <2> HIDE DEF D, names
  <2>1. NamesIn(program, fallthrough, D)
    BY <1>2, <1>5, NamesStay
  <2>2. Reach(program, scope, names, D)
    BY <1>3, <1>5 DEF Reach
  <2> QED BY <1>2, <1>3, <2>1, <2>2, NamesFallThrough
<1> HIDE DEF falls
<1>7. /\ ValuesIn(program, valueOf', i, adds) /\ DOMAIN valueOf \subseteq DOMAIN valueOf'
      /\ NamesIn(program, fallthrough', DOMAIN valueOf')
      /\ current' = Top.end /\ ReturnToCaller
  BY <1>1, <1>2, <1>5, <1>6, LoopIsLeft
<1>8. /\ incoming' \in Seq(Seq(Operands(i, adds, Len(blocks)))) /\ Len(incoming') = i
  <2>1. values \in [ToSet(names) -> Values(i, adds)]
    BY <1>4
  <2> HIDE DEF i, names, values
  <2> QED BY <1>1, <1>2, <1>3, <2>1, OperandsAreAdded DEF i
<1>9. /\ Len(blocks') = Len(blocks) /\ Writes(blocks, blocks', {current})
      /\ blocks' \in Seq(Seq(Instrs(i, adds, Len(blocks'))))
  <2>1. code \in Seq(Instrs(i, adds, Len(blocks))) /\ NoPhis(code)
    BY <1>2, <1>3, OneBranch
  <2> HIDE DEF i, code
  <2> DEFINE bs == AppendTo(blocks, current, code)
  <2>2. Len(bs) = Len(blocks)
    <3> DEFINE I == Instrs(i, adds, Len(blocks))
    <3>1. blocks \in Seq(Seq(I)) /\ code \in Seq(I) /\ current \in 0..Len(blocks)
      BY <1>2, <2>1
    <3> HIDE DEF I
    <3> QED BY <3>1, LengthIsKept
  <2>3. bs \in Seq(Seq(Instrs(i, adds, Len(bs))))
    BY <1>2, <2>1, CodeIsAppended
  <2>4. Writes(blocks, bs, {current})
    BY <1>2, <2>1, CodeIsAppended
  <2> QED BY <1>1, <2>2, <2>3, <2>4
<1>10. i <= Len(incoming') /\ Len(incoming') \in Nat /\ adds <= adds' /\ adds' \in Nat
  BY <1>1, <1>2, <1>8
<1>11. /\ blocks' \in Seq(Seq(Instrs(Len(incoming'), adds', Len(blocks'))))
       /\ incoming' \in Seq(Seq(Operands(Len(incoming'), adds', Len(blocks'))))
       /\ ValuesIn(program, valueOf', Len(incoming'), adds')
  BY <1>1, <1>7, <1>8, <1>9
<1> QED BY <1>1, <1>3, <1>7, <1>9, <1>10, <1>11, AfterReturn

\* A for loop keeps the invariant when its body has been generated.
LEMMA EndForKeepsInv == Inv /\ EndFor => Inv'
<1> SUFFICES ASSUME Inv, EndFor PROVE Inv'
  OBVIOUS
<1> DEFINE names == Top.names
           counter == Top.phis + Len(names) + 1
           step == Sum(adds + 1)
           add == Instruction("add", adds + 1, Phi(counter), <<>>)
           branch == CondBr(step, Top.end, Top.first)
           code == <<add, branch>>
           operand == <<step, Top.first>>
           i == Len(incoming)
           a == adds + 1
           n == Len(blocks)
<1>1. /\ Top.kind = "for"
      /\ incoming' = [incoming EXCEPT ![counter] = Append(incoming[counter], operand)]
      /\ blocks' = AppendTo(blocks, current, code)
      /\ LeaveLoop(names, Top.phis, valueOf, fallthrough)
      /\ program' = program /\ adds' = a /\ status' = status
  BY DEF EndFor, AtEnd
<1>2. /\ n \in Nat /\ i \in Nat /\ adds \in Nat /\ a \in Nat /\ adds <= a /\ current \in 0..n
      /\ LeadIn(blocks)
      /\ NamesIn(program, fallthrough, DOMAIN valueOf)
  BY WhatHolds
<1>3. /\ Top.kind # "routine" /\ counter \in 1..i
      /\ Top.first \in 1..n /\ Top.end \in 1..n /\ Top.first \in 0..n
  <2>1. /\ Top.kind # "routine" /\ Top.first \in 1..n /\ Top.end \in 1..n
        /\ Len(names) \in Nat /\ Top.phis \in Nat /\ Top.phis + Len(names) < i
    BY <1>1, WhatALoopKnows
  <2> HIDE DEF names, i, n
  <2>2. counter \in 1..i
    BY <1>2, <2>1
  <2> QED BY <1>2, <2>1, <2>2
<1>4. Phi(counter) \in Values(i, a) /\ step \in Values(i, a)
  <2>1. a \in 1..a
    BY <1>2
  <2> HIDE DEF counter, i, a
  <2>2. Phi(counter) \in Values(i, a) \ {Null} /\ Sum(a) \in Values(i, a) \ {Null}
    BY <1>2, <1>3, <2>1, MadeValues
  <2> QED BY <2>2 DEF a
<1>5. /\ blocks \in Seq(Seq(Instrs(i, a, n)))
      /\ incoming \in Seq(Seq(Operands(i, a, n))) /\ ValuesIn(program, valueOf, i, a)
  <2>1. i <= i /\ n <= n
    BY <1>2
  <2> HIDE DEF a
  <2>2. incoming \in Seq(Seq(Operands(i, a, n)))
    BY <1>2, <2>1, OldPartsStillFit
  <2>3. blocks \in Seq(Seq(Instrs(i, a, n)))
    BY <1>2, <2>1, OldPartsStillFit
  <2>4. ValuesIn(program, valueOf, i, a)
    BY <1>2, <2>1, OldPartsStillFit
  <2> QED BY <2>2, <2>3, <2>4
<1>6. code \in Seq(Instrs(i, a, n)) /\ NoPhis(code)
  <2>1. "add" \in Opcodes \ {"phi"} /\ "condbr" \in Opcodes \ {"phi"}
    BY DEF Opcodes
  <2>2. add \in Instrs(i, a, n) /\ add.op = "add"
    BY <1>2, <1>4, <2>1 DEF Instruction, Instrs
  <2>3. branch \in Instrs(i, a, n) /\ branch.op = "condbr"
    <3>1. <<Top.end, Top.first>> \in Seq(1..n)
      BY <1>3
    <3> QED BY <1>2, <1>4, <2>1, <3>1 DEF CondBr, Instruction, Instrs
  <2> HIDE DEF add, branch
  <2> QED BY <2>2, <2>3 DEF NoPhis
<1>7. /\ Len(blocks') = n /\ Writes(blocks, blocks', {current})
      /\ blocks' \in Seq(Seq(Instrs(i, a, Len(blocks'))))
  <2> DEFINE bs == AppendTo(blocks, current, code)
  <2> HIDE DEF i, a, code
  <2>1. Len(bs) = Len(blocks)
    <3> DEFINE I == Instrs(i, a, n)
    <3>1. blocks \in Seq(Seq(I)) /\ code \in Seq(I) /\ current \in 0..Len(blocks)
      BY <1>2, <1>5, <1>6
    <3> HIDE DEF I
    <3> QED BY <3>1, LengthIsKept
  <2>2. bs \in Seq(Seq(Instrs(i, a, Len(bs))))
    BY <1>2, <1>5, <1>6, CodeIsAppended
  <2>3. Writes(blocks, bs, {current})
    BY <1>2, <1>5, <1>6, CodeIsAppended
  <2> QED BY <1>1, <2>1, <2>2, <2>3
<1>8. incoming' \in Seq(Seq(Operands(i, a, n))) /\ Len(incoming') = i
  <2> DEFINE T == Operands(i, a, n)
             o == operand
  <2>1. o \in T
    BY <1>3, <1>4, OneOperand
  <2>2. incoming \in Seq(Seq(T))
    BY <1>5
  <2> HIDE DEF T, o, counter
  <2>3. incoming[counter] \in Seq(T) /\ counter \in 1..Len(incoming)
    BY <1>3, <2>2
  <2> DEFINE more == Append(incoming[counter], o)
             U == Seq(T)
  <2>4. more \in U
    BY <2>1, <2>3
  <2> HIDE DEF more, U
  <2>5. incoming \in Seq(U) /\ counter \in 1..Len(incoming)
    BY <2>2, <2>3 DEF U
  <2>6. [incoming EXCEPT ![counter] = more] \in Seq(U) /\ Len([incoming EXCEPT ![counter] = more]) = Len(incoming)
    BY <2>4, <2>5, ExceptSeq
  <2> QED BY <1>1, <2>6 DEF more, U, T, o
<1>9. /\ ValuesIn(program, valueOf', i, a) /\ DOMAIN valueOf \subseteq DOMAIN valueOf'
      /\ NamesIn(program, fallthrough', DOMAIN valueOf')
      /\ current' = Top.end /\ ReturnToCaller
  <2> HIDE DEF a
  <2> QED BY <1>1, <1>2, <1>5, LoopIsLeft
<1>10. i <= Len(incoming') /\ Len(incoming') \in Nat /\ adds <= adds' /\ adds' \in Nat
  BY <1>1, <1>2, <1>8
<1>11. /\ blocks' \in Seq(Seq(Instrs(Len(incoming'), adds', Len(blocks'))))
       /\ incoming' \in Seq(Seq(Operands(Len(incoming'), adds', Len(blocks'))))
       /\ ValuesIn(program, valueOf', Len(incoming'), adds')
  BY <1>1, <1>7, <1>8, <1>9
<1> QED BY <1>1, <1>3, <1>7, <1>9, <1>10, <1>11, AfterReturn

(***************************************************************************)
(* What falls through the branches of an if statement: the second loop of  *)
(* the merge adds nothing that the true branch has not changed.            *)
(***************************************************************************)
LEMMA NamesOfAJoin ==
    ASSUME Inv, Top.kind \in {"true", "false"}, NEW falseNames, NEW names,
           names = fallthrough[Statement.then] \o FalseOnly(fallthrough[Statement.then], falseNames)
    PROVE  /\ names \in Seq(NameRecord) /\ Len(names) \in Nat
           /\ \A name \in ToSet(names) :
                 /\ <<name, Statement.then>> \in DOMAIN valueOf /\ Declared(program, name)
                 /\ name.scope \in Path(program, outer) /\ LookupName(program, outer, name.ident) = name
<1> DEFINE t == fallthrough[Statement.then]
           S == {name \in ToSet(t) : name \notin ToSet(t)}
           more == Those(t, S)
<1>1. /\ Generates(Top, Statement) /\ Top.kind # "routine" /\ Statement \in NodeRecord
      /\ Statement.then # 0
      /\ NamesIn(program, fallthrough, DOMAIN valueOf)
  <2>1. Generates(Top, Statement) /\ Statement \in NodeRecord /\ Top.kind # "routine"
        /\ outer \in Bodies(program) /\ Caller.at \in 1..Len(Nodes(program, outer))
    BY TheStatement
  <2>2. Statement.op = "if"
    BY <2>1 DEF Generates
  <2>3. Statement.then # 0
    <3> DEFINE b == outer
               n == Caller.at
    <3>1. /\ b \in Bodies(program) /\ n \in 1..Len(Nodes(program, b)) /\ WellFormed(program)
          /\ Statement = Nodes(program, b)[n]
      BY <2>1, WhatHolds DEF Statement, outer
    <3> HIDE DEF b, n
    <3>2. Nodes(program, b)[n].op \in {"if", "while", "for"} => Nodes(program, b)[n].then # 0
      BY <3>1, NodesOfARoutine
    <3> QED BY <2>2, <3>1, <3>2
  <2> QED BY <2>1, <2>3, WhatHolds
<1>2. Statement.then \in Parts(Statement) /\ Statement.then \in Bodies(program)
  <2>1. Statement.then \in Parts(Statement)
    BY <1>1 DEF Parts
  <2> QED BY <1>1, <2>1, TheStatement
<1>3. t \in Seq(NameRecord)
      /\ \A name \in ToSet(t) : ComesFromAround(program, Statement.then, name)
                                /\ <<name, Statement.then>> \in DOMAIN valueOf
  BY <1>1, <1>2 DEF NamesIn
<1>4. names = t \o more
  BY DEF FalseOnly
<1> HIDE DEF t
<1>5. more \in Seq(NameRecord) /\ ToSet(more) = ToSet(t) \cap S
  BY <1>3, ThoseAreIn
<1> HIDE DEF S, more
<1>6. t \o more \in Seq(NameRecord) /\ ToSet(t \o more) = ToSet(t) \cup ToSet(more)
  BY <1>3, <1>5, ElementsOfBoth
<1>7. names \in Seq(NameRecord) /\ ToSet(names) \subseteq ToSet(t)
  BY <1>4, <1>5, <1>6
<1>8. Len(names) \in Nat
  BY <1>7, LenProperties
<1>9. ASSUME NEW name \in ToSet(names)
      PROVE  /\ <<name, Statement.then>> \in DOMAIN valueOf /\ Declared(program, name)
             /\ name.scope \in Path(program, outer) /\ LookupName(program, outer, name.ident) = name
  BY <1>1, <1>2, <1>3, <1>7, NamesOfABody
<1> QED BY <1>7, <1>8, <1>9

\* The operands of the phi nodes after an if statement are values and blocks there are.
LEMMA OperandsOfAJoin ==
    ASSUME Inv, NEW names \in Seq(NameRecord), NEW nTrue, NEW i \in Nat, Len(incoming) + Len(names) <= i,
           NEW endTrue \in 0..Len(blocks), NEW endFalse \in 0..Len(blocks),
           NEW ops, ops = JoinOperands(names, nTrue, endTrue, endFalse)
    PROVE  ops \in Seq(Seq(Operands(i, adds, Len(blocks)))) /\ Len(ops) = Len(names)
<1> DEFINE from == Len(incoming)
           n == Len(blocks)
           T == Seq(Operands(i, adds, n))
           trueScope == Statement.then
           falseScope == Statement.else
           inFalse == IF falseScope = 0 THEN {} ELSE ToSet(fallthrough[falseScope])
           parentValue(k) == IF names[k] \in {names[j] : j \in 1..(k - 1)}
                             THEN PhiOf(SubSeq(names, 1, k - 1), from, names[k])
                             ELSE Get(names[k], outer)
           operands(k) ==
               IF k > nTrue
               THEN <<<<parentValue(k), Top.begin>>, <<Get(names[k], falseScope), endFalse>>>>
               ELSE IF names[k] \in inFalse
               THEN <<<<Get(names[k], trueScope), endTrue>>, <<Get(names[k], falseScope), Top.other>>>>
               ELSE <<<<parentValue(k), Top.begin>>, <<Get(names[k], trueScope), endTrue>>>>
           f == [k \in DOMAIN names |-> operands(k)]
<1>1. ops = f
  BY DEF JoinOperands
<1>2. /\ from \in Nat /\ n \in Nat /\ adds \in Nat /\ Len(names) \in Nat /\ DOMAIN names = 1..Len(names)
      /\ Top.begin \in 0..n /\ Top.other \in 0..n
  BY WhatHolds DEF FitsIn
<1>3. ASSUME NEW name, NEW s PROVE Get(name, s) \in Values(i, adds)
  <2>1. Get(name, s) \in Values(from, adds)
    BY ValuesAreThere
  <2>2. from <= i
    BY <1>2
  <2> QED BY <1>2, <2>1, <2>2 DEF Values
<1>4. ASSUME NEW k \in DOMAIN names PROVE parentValue(k) \in Values(i, adds)
  <2>1. CASE names[k] \in {names[j] : j \in 1..(k - 1)}
    <3> DEFINE r == SubSeq(names, 1, k - 1)
    <3>1. /\ k \in 1..Len(names) /\ k - 1 \in Nat /\ k - 1 <= Len(names)
          /\ \A j \in 1..k - 1 : names[j] \in NameRecord
      BY <1>2
    <3>2. r \in Seq(NameRecord) /\ Len(r) = k - 1 /\ \A j \in 1..k - 1 : r[j] = names[j]
      <4>1. 1 \in Int /\ k - 1 \in Int /\ (1 <= k - 1 => 1 \in DOMAIN names /\ k - 1 \in DOMAIN names)
        BY <1>2, <3>1
      <4> QED BY <3>1, <4>1, SubSeqProperties
    <3> HIDE DEF r
    <3>3. names[k] \in ToSet(r)
      <4>1. PICK j \in 1..(k - 1) : names[k] = names[j]
        BY <2>1
      <4>2. j \in DOMAIN r /\ r[j] = names[k]
        BY <3>1, <3>2, <4>1
      <4> QED BY <4>2 DEF ToSet
    <3>4. from + Len(r) <= i
      BY <1>2, <3>1, <3>2
    <3>5. PhiOf(r, from, names[k]) \in Values(i, adds)
      <4> DEFINE name == names[k]
      <4>1. name \in ToSet(r)
        BY <3>3
      <4> HIDE DEF name
      <4>2. PhiOf(r, from, name) \in Values(i, adds) \ {Null}
        BY <1>2, <3>2, <3>4, <4>1, PhisOfNames
      <4> QED BY <4>2 DEF name
    <3> QED BY <2>1, <3>5 DEF r
  <2>2. CASE names[k] \notin {names[j] : j \in 1..(k - 1)}
    BY <1>3, <2>2
  <2> QED BY <2>1, <2>2
<1> HIDE DEF parentValue
<1>5. ASSUME NEW k \in DOMAIN names PROVE operands(k) \in T
  <2> DEFINE p == parentValue(k)
             v == Get(names[k], trueScope)
             w == Get(names[k], falseScope)
  <2>1. p \in Values(i, adds) /\ v \in Values(i, adds) /\ w \in Values(i, adds)
    BY <1>3, <1>4
  <2> HIDE DEF p, v, w, inFalse
  <2>2. <<<<p, Top.begin>>, <<w, endFalse>>>> \in T
    BY <1>2, <2>1, TwoOperands
  <2>3. <<<<v, endTrue>>, <<w, Top.other>>>> \in T
    BY <1>2, <2>1, TwoOperands
  <2>4. <<<<p, Top.begin>>, <<v, endTrue>>>> \in T
    BY <1>2, <2>1, TwoOperands
  <2> QED BY <2>2, <2>3, <2>4 DEF p, v, w
<1> HIDE DEF operands
<1>6. f \in [DOMAIN names -> T]
  BY <1>5
<1> HIDE DEF f, T
<1>7. f \in Seq(T) /\ Len(f) = Len(names)
  BY <1>6, OperandsForNames
<1> QED BY <1>1, <1>7 DEF T

\* The merge after an if statement keeps the invariant, and its assertions hold.
LEMMA JoinKeepsInv ==
    ASSUME Inv, Top.kind \in {"true", "false"}, NEW endTrue \in 0..Len(blocks),
           NEW endFalse \in 0..Len(blocks), Join(endTrue, endFalse)
    PROVE  Inv'
<1> DEFINE trueNames == fallthrough[Statement.then]
           falseNames == IF Statement.else = 0 THEN <<>> ELSE fallthrough[Statement.else]
           names == trueNames \o FalseOnly(trueNames, falseNames)
           from == Len(incoming)
           i == from + Len(names)
           ops == JoinOperands(names, Len(trueNames), endTrue, endFalse)
           bs == AppendTo(AppendTo(blocks, current, <<Br(Top.end)>>), Top.end,
                          PhiNodes(from, Len(names)))
           v == Over(SetValues(outer, names, PhisOf(names, from)), valueOf)
           D == DOMAIN v
           g == FallThrough(outer, names)
<1>1. /\ names \in Seq(NameRecord) /\ Len(names) \in Nat
      /\ \A name \in ToSet(names) :
            /\ <<name, Statement.then>> \in DOMAIN valueOf /\ Declared(program, name)
            /\ name.scope \in Path(program, outer) /\ LookupName(program, outer, name.ident) = name
  <2> DEFINE all == names
  <2> HIDE DEF falseNames
  <2>1. all = trueNames \o FalseOnly(trueNames, falseNames)
    OBVIOUS
  <2> HIDE DEF all
  <2>2. /\ all \in Seq(NameRecord) /\ Len(all) \in Nat
        /\ \A name \in ToSet(all) :
              /\ <<name, Statement.then>> \in DOMAIN valueOf /\ Declared(program, name)
              /\ name.scope \in Path(program, outer) /\ LookupName(program, outer, name.ident) = name
    BY <2>1, NamesOfAJoin
  <2> QED BY <2>2 DEF all
<1>2. ~ \E name \in ToSet(names) : \/ NameToFall(outer, name) # name
                                   \/ Statement.else # 0 /\ Get(name, Statement.then) = Null
  <2> HIDE DEF names
  <2> SUFFICES ASSUME NEW name \in ToSet(names)
               PROVE  NameToFall(outer, name) = name /\ Get(name, Statement.then) # Null
    OBVIOUS
  <2>1. Get(name, Statement.then) \in Values(Len(incoming), adds) \ {Null}
    BY <1>1, ValuesAreThere
  <2> QED BY <1>1, <2>1 DEF NameToFall
<1>3. /\ incoming' = incoming \o ops /\ blocks' = bs /\ valueOf' = v /\ fallthrough' = g
      /\ current' = Top.end /\ ReturnToCaller
      /\ program' = program /\ adds' = adds /\ status' = status
  <2>1. IF \E name \in ToSet(names) : \/ NameToFall(outer, name) # name
                                      \/ Statement.else # 0 /\ Get(name, Statement.then) = Null
        THEN Fail("join")
        ELSE /\ incoming' = incoming \o ops /\ blocks' = bs /\ valueOf' = v /\ fallthrough' = g
             /\ current' = Top.end /\ ReturnToCaller /\ UNCHANGED <<program, adds, status>>
    BY DEF Join
  <2> HIDE DEF names, ops, bs, v, g
  <2> QED BY <1>2, <2>1
<1>4. /\ from \in Nat /\ Len(blocks) \in Nat /\ adds \in Nat /\ WellFormed(program)
      /\ incoming \in Seq(Seq(Operands(from, adds, Len(blocks))))
      /\ NamesIn(program, fallthrough, DOMAIN valueOf)
      /\ Top.kind # "routine" /\ outer \in Bodies(program)
  BY WhatHolds, TheStatement
<1> HIDE DEF names
<1>5. i \in Nat /\ from <= i /\ from + Len(names) <= i
  BY <1>1, <1>4
<1> HIDE DEF i
<1>6. /\ Len(bs) = Len(blocks) /\ Writes(blocks, bs, {current})
      /\ bs \in Seq(Seq(Instrs(i, adds, Len(bs))))
  <2> DEFINE k == Len(names)
             cs == bs
  <2>1. cs = AppendTo(AppendTo(blocks, current, <<Br(Top.end)>>), Top.end, PhiNodes(Len(incoming), k))
        /\ k \in Nat /\ Len(incoming) <= i
    BY <1>1, <1>5
  <2> HIDE DEF cs, k
  <2>2. /\ Len(cs) = Len(blocks) /\ Writes(blocks, cs, {current})
        /\ cs \in Seq(Seq(Instrs(i, adds, Len(cs))))
    BY <1>4, <1>5, <2>1, BranchToPhis
  <2> QED BY <2>2 DEF cs
<1>7. Len(incoming') = i /\ incoming' \in Seq(Seq(Operands(i, adds, Len(blocks))))
  <2> DEFINE T == Seq(Operands(i, adds, Len(blocks)))
             k == Len(trueNames)
  <2>1. ops = JoinOperands(names, k, endTrue, endFalse)
    OBVIOUS
  <2> HIDE DEF k, ops
  <2>2. ops \in Seq(T) /\ Len(ops) = Len(names)
    BY <1>1, <1>5, <2>1, OperandsOfAJoin
  <2>3. incoming \in Seq(T)
    <3>1. adds <= adds /\ Len(blocks) <= Len(blocks)
      BY <1>4
    <3> QED BY <1>4, <1>5, <3>1, OldPartsStillFit
  <2> HIDE DEF T
  <2>4. incoming \o ops \in Seq(T) /\ Len(incoming \o ops) = from + Len(names)
    BY <2>2, <2>3, PhisAreAppended
  <2> QED BY <1>3, <2>4 DEF T, i
<1>8. /\ ValuesIn(program, v, i, adds) /\ DOMAIN valueOf \subseteq D
      /\ \A name \in ToSet(names) : <<name, outer>> \in D
  <2>1. ValuesIn(program, valueOf, i, adds)
    <3>1. adds <= adds /\ Len(blocks) <= Len(blocks)
      BY <1>4
    <3> QED BY <1>4, <1>5, <3>1, OldPartsStillFit
  <2> DEFINE w == v
  <2>2. w = Over(SetValues(outer, names, PhisOf(names, from)), valueOf)
    OBVIOUS
  <2> HIDE DEF w, from
  <2>3. /\ ValuesIn(program, w, i, adds) /\ DOMAIN valueOf \subseteq DOMAIN w
        /\ \A name \in ToSet(names) : <<name, outer>> \in DOMAIN w
    <3>1. \A name \in ToSet(names) :
              Declared(program, name) /\ LookupName(program, outer, name.ident) = name
      BY <1>1
    <3>2. names \in Seq(NameRecord) /\ from \in Nat /\ adds \in Nat /\ outer \in Bodies(program)
      BY <1>1, <1>4
    <3>3. ValuesIn(program, w, i, adds)
      BY <1>5, <2>1, <2>2, <3>1, <3>2, PhisAreSet
    <3>4. DOMAIN valueOf \subseteq DOMAIN w
      BY <2>2 DEF Over
    <3>5. \A name \in ToSet(names) : <<name, outer>> \in DOMAIN w
      BY <1>5, <2>1, <2>2, <3>1, <3>2, PhisAreSet
    <3> QED BY <3>3, <3>4, <3>5
  <2> QED BY <2>3 DEF w
<1> HIDE DEF v, D
<1>9. NamesIn(program, g, D)
  <2>1. NamesIn(program, fallthrough, D)
    BY <1>4, <1>8, NamesStay
  <2>2. Reach(program, outer, names, D)
    BY <1>1, <1>8 DEF Reach
  <2> QED BY <1>1, <1>4, <2>1, <2>2, NamesFallThrough
<1>10. Len(incoming') \in Nat /\ from <= Len(incoming') /\ adds' \in Nat /\ adds <= adds'
  BY <1>3, <1>4, <1>5, <1>7
<1> HIDE DEF bs, g
<1>11. /\ Len(blocks') = Len(blocks) /\ Writes(blocks, blocks', {current})
       /\ blocks' \in Seq(Seq(Instrs(Len(incoming'), adds', Len(blocks'))))
       /\ incoming' \in Seq(Seq(Operands(Len(incoming'), adds', Len(blocks'))))
  BY <1>3, <1>6, <1>7
<1>12. /\ ValuesIn(program, valueOf', Len(incoming'), adds') /\ DOMAIN valueOf \subseteq DOMAIN valueOf'
       /\ NamesIn(program, fallthrough', DOMAIN valueOf')
  BY <1>3, <1>7, <1>8, <1>9 DEF D
<1> QED BY <1>3, <1>4, <1>10, <1>11, <1>12, AfterReturn

\* The merge keeps the invariant after the last branch of an if statement.
LEMMA EndIfKeepsInv == Inv /\ EndIf => Inv'
<1> SUFFICES ASSUME Inv, EndIf PROVE Inv'
  OBVIOUS
<1>1. current \in 0..Len(blocks) /\ Top.tail \in 0..Len(blocks) /\ Len(blocks) \in Nat
  BY WhatHolds DEF FitsIn
<1>2. \/ Top.kind = "true" /\ Join(current, 0)
      \/ Top.kind = "false" /\ Join(Top.tail, current)
  BY DEF EndIf, AtEnd, GetInsertBlock
<1>3. 0 \in 0..Len(blocks)
  BY <1>1
<1> QED BY <1>1, <1>2, <1>3, JoinKeepsInv

-----------------------------------------------------------------------------
(* The end of a routine, and the invariant of all steps.                   *)

\* A read that finds nothing changes nothing else.
LEMMA ReadFailsKeepsInv == Inv /\ ReadFails => Inv'
<1> SUFFICES ASSUME Inv, ReadFails PROVE Inv'
  OBVIOUS
<1>1. /\ status' = "unread" /\ program' = program /\ blocks' = blocks /\ incoming' = incoming
      /\ adds' = adds /\ current' = current /\ valueOf' = valueOf
      /\ fallthrough' = fallthrough /\ stack' = stack
  BY DEF ReadFails, Fail
<1>2. Holds(program, blocks, incoming, adds, current, valueOf, fallthrough, stack)
  BY DEF Inv
<1>3. "unread" \in Statuses \ {"join"}
  BY DEF Statuses
<1> QED BY <1>1, <1>2, <1>3 DEF Inv

\* A routine that returns nothing ends with a return of its own.
LEMMA EndRoutineKeepsInv == Inv /\ EndRoutine => Inv'
<1> SUFFICES ASSUME Inv, EndRoutine PROVE Inv'
  OBVIOUS
<1> DEFINE code == <<Instruction("ret", 0, Null, <<>>)>>
           n == Len(blocks)
           i == Len(incoming)
<1>1. /\ status' = "generated" /\ program' = program /\ incoming' = incoming
      /\ adds' = adds /\ current' = current /\ valueOf' = valueOf
      /\ fallthrough' = fallthrough /\ stack' = stack
      /\ blocks' = IF program.void THEN AppendTo(blocks, current, code) ELSE blocks
  BY DEF EndRoutine
<1>2. /\ n \in Nat /\ i \in Nat /\ adds \in Nat /\ current \in 0..n /\ LeadIn(blocks)
      /\ blocks \in Seq(Seq(Instrs(i, adds, n)))
      /\ StackInv(stack, program, blocks, current, i, adds, DOMAIN valueOf)
  BY WhatHolds
<1>3. code \in Seq(Instrs(i, adds, n)) /\ NoPhis(code)
  <2>1. "ret" \in Opcodes \ {"phi"} /\ 0 \in Nat /\ Null \in Values(i, adds) /\ <<>> \in Seq(1..n)
    BY <1>2, MadeValues DEF Opcodes
  <2> QED BY <2>1, OneInstruction
<1> HIDE DEF code
<1>4. /\ Len(blocks') = n /\ Writes(blocks, blocks', {current})
      /\ blocks' \in Seq(Seq(Instrs(i, adds, Len(blocks'))))
  <2>1. CASE program.void
    <3> DEFINE bs == AppendTo(blocks, current, code)
    <3>1. Len(bs) = n
      <4> DEFINE I == Instrs(i, adds, n)
      <4>1. blocks \in Seq(Seq(I)) /\ code \in Seq(I) /\ current \in 0..Len(blocks)
        BY <1>2, <1>3
      <4> HIDE DEF I
      <4> QED BY <4>1, LengthIsKept
    <3>2. bs \in Seq(Seq(Instrs(i, adds, Len(bs))))
      BY <1>2, <1>3, CodeIsAppended
    <3>3. Writes(blocks, bs, {current})
      BY <1>2, <1>3, CodeIsAppended
    <3> QED BY <1>1, <2>1, <3>1, <3>2, <3>3
  <2>2. CASE ~program.void
    BY <1>1, <1>2, <2>2, NothingIsWritten
  <2> QED BY <2>1, <2>2
<1>5. StackInv(stack, program, blocks', current, i, adds, DOMAIN valueOf)
  <2> DEFINE bs == blocks'
  <2>1. Len(bs) = n /\ Writes(blocks, bs, {current})
    BY <1>4
  <2> HIDE DEF bs
  <2>2. ASSUME NEW k \in 1..Len(stack), NEW b \in Pending(stack[k])
        PROVE  OnlyPhis(bs[b])
    <3>1. b \in 1..n /\ b # current /\ OnlyPhis(blocks[b])
      BY <1>2, <2>2 DEF StackInv, FramesIn, ApartIn, FitsIn, Referred
    <3> QED BY <2>1, <3>1 DEF Writes
  <2>3. ApartIn(stack, current, bs)
    BY <1>2, <2>2 DEF StackInv, ApartIn
  <2>4. LeadIn(bs)
    BY <2>1 DEF Writes, LeadIn
  <2>5. StackInv(stack, program, bs, current, i, adds, DOMAIN valueOf)
    BY <1>2, <2>1, <2>3, <2>4 DEF StackInv
  <2> QED BY <2>5 DEF bs
<1>6. "generated" \in Statuses \ {"join"}
  BY DEF Statuses
<1>7. Holds(program, blocks', incoming, adds, current, valueOf, fallthrough, stack)
  BY <1>2, <1>4, <1>5 DEF Inv, Holds
<1> QED BY <1>1, <1>6, <1>7 DEF Inv

\* A routine begins with one empty block, in its own body, and no values.
LEMMA InvIsInitial == Init => Inv
<1> SUFFICES ASSUME Init PROVE Inv
  OBVIOUS
<1> DEFINE f == Frame(1, "routine")
           empty == <<>>
<1>1. /\ program \in Programs /\ Accepted(program) /\ blocks = <<empty>> /\ incoming = <<>>
      /\ adds = 0 /\ current = 1 /\ valueOf = <<>>
      /\ fallthrough = [b \in DOMAIN program.bodies |-> <<>>]
      /\ stack = <<f>> /\ status = "generating"
  BY DEF Init
<1>2. WellFormed(program) /\ 1 \in Bodies(program) /\ program.bodies[1].counter = NoIdent
      /\ Len(Nodes(program, 1)) \in Nat
  <2>1. WellFormed(program)
    BY <1>1, ProgramsAssumption
  <2> QED BY <2>1, BodiesOfARoutine DEF WellFormed
<1>3. empty \in Seq(Instrs(0, 0, 1)) /\ Len(empty) = 0 /\ OnlyPhis(empty) /\ Leading(empty)
  BY DEF OnlyPhis, Leading
<1> HIDE DEF empty
<1>4. /\ Len(blocks) = 1 /\ Len(incoming) = 0 /\ DOMAIN valueOf = {} /\ blocks[1] = empty
      /\ blocks \in Seq(Seq(Instrs(0, 0, 1))) /\ incoming \in Seq(Seq(Operands(0, 0, 1)))
  <2> DEFINE I == Seq(Instrs(0, 0, 1))
  <2>1. empty \in I
    BY <1>3
  <2> HIDE DEF I
  <2>2. <<empty>> \in Seq(I) /\ Len(<<empty>>) = 1 /\ <<empty>>[1] = empty
    BY <2>1
  <2> QED BY <1>1, <2>2 DEF I
<1>5. Null \in Values(0, 0) /\ Null \in ValueRecord
  BY MadeValues DEF Values
<1>6. /\ f \in FrameRecord /\ f.body = 1 /\ f.at = 1 /\ f.kind = "routine" /\ f.lo = Null
      /\ f.begin = 1 /\ f.tail = 0 /\ f.first = 0 /\ f.other = 0
  <2>1. f = [body |-> 1, at |-> 1, kind |-> "routine", begin |-> 1, first |-> 0, other |-> 0,
             end |-> 0, tail |-> 0, lo |-> Null, names |-> <<>>, phis |-> 0]
    BY <1>1 DEF Frame
  <2>2. "routine" \in FrameKinds /\ <<>> \in Seq(NameRecord)
    BY DEF FrameKinds
  <2> HIDE DEF f
  <2> QED BY <1>5, <2>1, <2>2 DEF FrameRecord
<1> HIDE DEF f
<1>7. Pending(f) = {} /\ Referred(f) = {}
  BY <1>6 DEF Pending, Referred
<1>8. FitsIn(f, program, 1, 0, 0, {})
  BY <1>2, <1>5, <1>6, <1>7 DEF FitsIn, Learned
<1>9. HasValues(f, program, {})
  <2>1. 1..(f.at - 1) = {}
    BY <1>6
  <2> QED BY <1>2, <1>6, <2>1 DEF HasValues
<1>10. stack \in Seq(FrameRecord) /\ stack # <<>> /\ Len(stack) = 1 /\ stack[1] = f
  BY <1>1, <1>6
<1>11. StackInv(stack, program, blocks, current, 0, 0, {})
  <2>1. FramesIn(stack, program, 1, 0, 0, {})
    BY <1>6, <1>8, <1>10 DEF FramesIn
  <2>2. ApartIn(stack, current, blocks)
    BY <1>7, <1>10 DEF ApartIn
  <2>3. LeadIn(blocks)
    BY <1>3, <1>4 DEF LeadIn
  <2>4. \A k \in 1..Len(stack) : HasValues(stack[k], program, {})
    BY <1>9, <1>10
  <2> QED BY <1>4, <2>1, <2>2, <2>3, <2>4 DEF StackInv
<1>12. ValuesIn(program, valueOf, 0, 0)
  BY <1>4 DEF ValuesIn
<1>13. NamesIn(program, fallthrough, {})
  <2>1. fallthrough \in [Bodies(program) -> Seq(NameRecord)]
        /\ \A s \in Bodies(program) : fallthrough[s] = <<>>
    BY <1>1 DEF Bodies
  <2>2. ToSet(<<>>) = {}
    BY DEF ToSet
  <2> QED BY <2>1, <2>2 DEF NamesIn
<1>14. current \in 0..Len(blocks) /\ adds \in Nat
  BY <1>1, <1>4
<1>15. Holds(program, blocks, incoming, adds, current, valueOf, fallthrough, stack)
  BY <1>1, <1>4, <1>10, <1>11, <1>12, <1>13, <1>14 DEF Holds
<1>16. status \in Statuses \ {"join"}
  BY <1>1 DEF Statuses
<1> QED BY <1>15, <1>16 DEF Inv

\* Every step of code generation keeps the invariant.
LEMMA NextKeepsInv == Inv /\ [Next]_vars => Inv'
<1> SUFFICES ASSUME Inv, [Next]_vars PROVE Inv'
  OBVIOUS
<1>1. CASE Next
  BY <1>1, SkipInvalidNodeKeepsInv, GenerateVariableKeepsInv, InsertLLVMAssignmentKeepsInv,
     GenerateCallKeepsInv, GenerateReturnStatementKeepsInv, BeginIfKeepsInv, BeginElseKeepsInv,
     EndIfKeepsInv, BeginWhileKeepsInv, PhisOfWhileKeepsInv, ConditionOfWhileKeepsInv,
     EndWhileKeepsInv, BeginForKeepsInv, PhisOfForKeepsInv, EndForKeepsInv,
     ReadFailsKeepsInv, EndRoutineKeepsInv
  DEF Next
<1>2. CASE UNCHANGED vars
  BY <1>2 DEF Inv, vars
<1> QED BY <1>1, <1>2

\* The invariant of code generation holds for every routine.
LEMMA InvHolds == Spec => []Inv
<1>1. Init => Inv
  BY InvIsInitial
<1>2. Inv /\ [Next]_vars => Inv'
  BY NextKeepsInv
<1> QED BY <1>1, <1>2, PTL DEF Spec

\* A name that comes from around a scope is one of a table.
LEMMA NamesFromAroundAreDeclared ==
    ASSUME NEW P, WellFormed(P), NEW s \in Bodies(P), NEW name, ComesFromAround(P, s, name)
    PROVE  Declared(P, name)
  BY FoundAround DEF ComesFromAround

\* The types are part of the invariant.
LEMMA InvGivesTypes == Inv => TypeOK
<1> SUFFICES ASSUME Inv PROVE TypeOK
  OBVIOUS
<1> DEFINE i == Len(incoming)
           n == Len(blocks)
<1>1. /\ n \in Nat /\ i \in Nat /\ adds \in Nat /\ WellFormed(program) /\ current \in 0..n
      /\ blocks \in Seq(Seq(Instrs(i, adds, n))) /\ incoming \in Seq(Seq(Operands(i, adds, n)))
      /\ ValuesIn(program, valueOf, i, adds) /\ NamesIn(program, fallthrough, DOMAIN valueOf)
      /\ stack \in Seq(FrameRecord) /\ stack # <<>>
      /\ StackInv(stack, program, blocks, current, i, adds, DOMAIN valueOf)
      /\ DOMAIN blocks = 1..n /\ DOMAIN incoming = 1..i /\ status \in Statuses
  BY WhatHolds DEF Inv
<1>2. Scopes = Bodies(program)
  BY DEF Scopes, Bodies
<1>3. ASSUME NEW v \in Values(i, adds) PROVE IsValue(v)
  <2>1. v \in [kind : ValueKinds, of : Consts \cup Idents \cup {""}, n : Nat]
        /\ (v.kind = "phi" => v.n \in 1..i) /\ (v.kind = "add" => v.n \in 1..adds)
    BY DEF Values, ValueRecord
  <2>2. DOMAIN v = {"kind", "of", "n"} /\ v.kind \in ValueKinds
    BY <2>1
  <2> QED BY <1>1, <2>1, <2>2 DEF IsValue
<1>4. ASSUME NEW name, Declared(program, name) PROVE IsName(name)
  <2>1. /\ name.scope \in Bodies(program) /\ name.at \in 0..Len(Nodes(program, name.scope))
        /\ Declares(program, name.scope, name.at, name.ident)
        /\ name = Name(name.scope, name.at, name.ident)
    BY <1>4 DEF Declared
  <2>2. DOMAIN name = {"scope", "at", "ident"}
    BY <2>1, NamesHaveScopes
  <2> QED BY <1>2, <2>1, <2>2 DEF IsName
<1>5. IsBlock(current) \/ current = 0
  BY <1>1 DEF IsBlock
<1>6. ASSUME NEW b \in DOMAIN blocks, NEW k \in DOMAIN blocks[b]
      PROVE  IsValue(blocks[b][k].of) /\ \A to \in ToSet(blocks[b][k].to) : IsBlock(to)
  <2> DEFINE I == Instrs(i, adds, n)
             code == blocks[b]
  <2>1. code \in Seq(I)
    BY <1>1, <1>6
  <2> HIDE DEF I, code
  <2>2. k \in DOMAIN code
    BY <1>6 DEF code
  <2>3. code[k] \in I
    BY <2>1, <2>2
  <2>4. code[k].of \in Values(i, adds) /\ code[k].to \in Seq(1..n)
    BY <2>3 DEF I, Instrs
  <2>5. \A to \in ToSet(code[k].to) : to \in 1..n
    BY <2>4 DEF ToSet
  <2> QED BY <1>1, <1>3, <2>4, <2>5 DEF IsBlock, code
<1>7. ASSUME NEW p \in DOMAIN incoming, NEW k \in DOMAIN incoming[p]
      PROVE  IsValue(incoming[p][k][1]) /\ (IsBlock(incoming[p][k][2]) \/ incoming[p][k][2] = 0)
  <2> DEFINE O == Operands(i, adds, n)
             ops == incoming[p]
  <2>1. ops \in Seq(O)
    BY <1>1, <1>7
  <2> HIDE DEF O, ops
  <2>2. k \in DOMAIN ops
    BY <1>7 DEF ops
  <2>3. ops[k] \in O
    BY <2>1, <2>2
  <2>4. ops[k][1] \in Values(i, adds) /\ ops[k][2] \in 0..n
    BY <2>3 DEF O, Operands
  <2> QED BY <1>1, <1>3, <2>4 DEF IsBlock, ops
<1>8. ASSUME NEW key \in DOMAIN valueOf
      PROVE  IsName(key[1]) /\ key[2] \in Scopes /\ IsValue(valueOf[key])
  <2>1. Declared(program, key[1]) /\ key[2] \in Bodies(program) /\ valueOf[key] \in Values(i, adds)
    BY <1>1, <1>8 DEF ValuesIn
  <2> QED BY <1>2, <1>3, <1>4, <2>1
<1>9. ASSUME NEW s \in Scopes, NEW name \in ToSet(fallthrough[s]) PROVE IsName(name)
  <2>1. ComesFromAround(program, s, name) /\ s \in Bodies(program)
    BY <1>1, <1>2, <1>9 DEF NamesIn
  <2> QED BY <1>1, <1>4, <2>1, NamesFromAroundAreDeclared
<1>10. ASSUME NEW f \in ToSet(stack)
       PROVE  /\ f.body \in Scopes /\ f.kind \in FrameKinds
              /\ f.at \in 1..(Len(Nodes(program, f.body)) + 1)
  <2>1. PICK k \in 1..Len(stack) : f = stack[k]
    BY <1>1 DEF ToSet
  <2>2. f \in FrameRecord /\ FitsIn(f, program, n, i, adds, DOMAIN valueOf)
    BY <1>1, <2>1 DEF StackInv, FramesIn
  <2> QED BY <1>2, <2>2 DEF FitsIn, FrameRecord
<1> QED BY <1>1, <1>5, <1>6, <1>7, <1>8, <1>9, <1>10 DEF TypeOK

(***************************************************************************)
(* GenerateScopeBody and the statements keep types: names that have values *)
(* are in the finished tables, values and branches refer to phi nodes,     *)
(* additions and blocks there are, also in the first pass over the body of *)
(* a loop, which has no insertion point.                                   *)
(***************************************************************************)
THEOREM CodegenTypes == Spec => []TypeOK
  BY InvHolds, InvGivesTypes, PTL

(***************************************************************************)
(* What falls through a scope is declared around it, is what the scope     *)
(* finds under its identifier and has a value in it, whatever the nesting  *)
(* of if statements and loops: what the merges of GenerateIfStatement,     *)
(* GenerateWhileLoop and GenerateForLoop take for granted.                 *)
(***************************************************************************)
THEOREM FallThroughStaysKnown == Spec => []FallThroughIsKnown
<1>1. Inv => FallThroughIsKnown
  <2> SUFFICES ASSUME Inv, NEW s \in Scopes, NEW name \in ToSet(fallthrough[s])
               PROVE  /\ name.scope \in Path(program, s) \ {s}
                      /\ LookupName(program, s, name.ident) = name
                      /\ Get(name, s) # Null
    BY DEF FallThroughIsKnown
  <2>1. ComesFromAround(program, s, name) /\ <<name, s>> \in DOMAIN valueOf
    BY WhatHolds DEF NamesIn, Scopes, Bodies
  <2>2. Get(name, s) \in Values(Len(incoming), adds) \ {Null}
    BY <2>1, ValuesAreThere
  <2> QED BY <2>1, <2>2 DEF ComesFromAround
<1> QED BY <1>1, InvHolds, PTL

(***************************************************************************)
(* The assertions of GenerateIfStatement on the names it merges never fail.*)
(***************************************************************************)
THEOREM MergesFindTheirNames == Spec => []JoinNeverFails
<1>1. Inv => JoinNeverFails
  BY DEF Inv, JoinNeverFails
<1> QED BY <1>1, InvHolds, PTL

(***************************************************************************)
(* The phi nodes of a block come first.  A block that is made before the   *)
(* code that leads to it gets its phi nodes while it has no other code.    *)
(***************************************************************************)
THEOREM PhiNodesComeFirst == Spec => []PhiNodesLead
<1>1. Inv => PhiNodesLead
  <2> SUFFICES ASSUME Inv PROVE PhiNodesLead
    OBVIOUS
  <2>1. LeadIn(blocks) /\ DOMAIN blocks = 1..Len(blocks)
    BY WhatHolds
  <2> QED BY <2>1 DEF LeadIn, Leading, PhiNodesLead
<1> QED BY <1>1, InvHolds, PTL

-----------------------------------------------------------------------------
(* Reads find values.                                                      *)

\* The body below s on the path to a body is the same on the path to its parent.
LEMMA BelowGoesUp ==
    ASSUME NEW P, WellFormed(P), NEW b \in Bodies(P), NEW p, p = P.bodies[b].parent, p # 0,
           NEW s \in Path(P, p)
    PROVE  Below(P, b, s) = IF s = p THEN b ELSE Below(P, p, s)
<1> DEFINE A == {c \in Path(P, b) : c > s}
           B == {c \in Path(P, p) : c > s}
<1>1. /\ p \in 1..(b - 1) /\ p \in Bodies(P) /\ b \in Nat /\ p \in Nat
      /\ Path(P, b) = {b} \cup Path(P, p)
      /\ Path(P, p) \subseteq 1..p /\ p \in Path(P, p)
  <2>1. /\ b \in Nat /\ P.bodies[b].parent \in 0..(b - 1)
        /\ P.bodies[b].parent # 0 => P.bodies[b].parent \in Bodies(P)
    BY BodiesOfARoutine
  <2>2. p \in 0..(b - 1) /\ p \in Bodies(P)
    BY <2>1
  <2>3. Path(P, b) = {b} \cup IF P.bodies[b].parent = 0 THEN {} ELSE Path(P, P.bodies[b].parent)
    BY PathGoesUp
  <2>4. Path(P, p) \subseteq 1..p /\ p \in Path(P, p)
    BY <2>2, PathIsAround
  <2> QED BY <2>1, <2>2, <2>3, <2>4
<1>2. Below(P, b, s) = Min(A) /\ Below(P, p, s) = Min(B)
  BY DEF Below
<1>3. CASE s = p
  <2>1. A = {b}
    BY <1>1, <1>3
  <2>2. A \subseteq Nat /\ A # {}
    BY <1>1, <2>1
  <2> HIDE DEF A
  <2>3. Min(A) \in A
    BY <2>2, MinIsLeast
  <2> QED BY <1>2, <1>3, <2>1, <2>3
<1>4. CASE s # p
  <2>1. /\ A \subseteq Nat /\ B \subseteq Nat /\ A = {b} \cup B /\ p \in B
        /\ \A c \in B : c < b
    BY <1>1, <1>4
  <2> HIDE DEF A, B
  <2>2. /\ Min(A) \in A /\ \A j \in A : Min(A) <= j
        /\ Min(B) \in B /\ \A j \in B : Min(B) <= j
    BY <2>1, MinIsLeast
  <2>3. Min(A) \in B
    BY <1>1, <2>1, <2>2
  <2> DEFINE m == Min(A)
             l == Min(B)
  <2>4. m \in Nat /\ l \in Nat /\ m <= l /\ l <= m
    BY <2>1, <2>2, <2>3
  <2> HIDE DEF m, l
  <2>5. m = l
    BY <2>4
  <2> QED BY <1>2, <1>4, <2>5 DEF m, l
<1> QED BY <1>3, <1>4

\* The bodies of a statement know the body the statement is in and its place in it.
LEMMA BodiesOfAStatement ==
    ASSUME NEW P, WellFormed(P), NEW b \in Bodies(P), NEW n \in 1..Len(Nodes(P, b)),
           NEW c \in Parts(Nodes(P, b)[n])
    PROVE  P.bodies[c].parent = b /\ P.bodies[c].at = n
<1> DEFINE st == Nodes(P, b)[n]
<1>1. /\ <<b, n>> \in Sites(P) /\ NodeAt(P, <<b, n>>) = st
  BY NodesOfARoutine
<1>2. c \in Parts(NodeAt(P, <<b, n>>))
  BY <1>1
<1> HIDE DEF st
<1>3. <<P.bodies[c].parent, P.bodies[c].at>> = <<b, n>>
  BY <1>1, <1>2 DEF WellFormed
<1> QED BY <1>3

(***************************************************************************)
(* The bodies around the one of a frame are those of frames below it on    *)
(* the stack, each at the statement that leads to it.                      *)
(***************************************************************************)
LEMMA BodiesAreOnTheStack ==
    ASSUME Inv, NEW k \in 1..Len(stack), NEW s \in Path(program, stack[k].body), s # stack[k].body
    PROVE  \E j \in 1..(k - 1) :
              /\ stack[j].body = s
              /\ stack[j].at = program.bodies[Below(program, stack[k].body, s)].at
<1> DEFINE At(l, r) == \E j \in 1..(l - 1) :
                           /\ stack[j].body = r
                           /\ stack[j].at = program.bodies[Below(program, stack[l].body, r)].at
           Right(l) == \A r \in Path(program, stack[l].body) : r # stack[l].body => At(l, r)
           K == {l \in Nat : l + 1 <= Len(stack) => Right(l + 1)}
<1>1. /\ WellFormed(program) /\ Len(stack) \in Nat /\ Len(stack) > 0 /\ stack \in Seq(FrameRecord)
      /\ \A l \in 1..Len(stack) :
            FitsIn(stack[l], program, Len(blocks), Len(incoming), adds, DOMAIN valueOf)
      /\ stack[1].body = 1
      /\ \A l \in 1..Len(stack) - 1 :
            /\ stack[l].at <= Len(Nodes(program, stack[l].body))
            /\ Generates(stack[l + 1], NodeOf(program, stack[l]))
  BY WhatHolds DEF StackInv, FramesIn
<1>2. Right(1)
  <2>1. Path(program, 1) = {1}
    <3>1. 1 \in Bodies(program) /\ program.bodies[1].parent = 0
      BY <1>1, BodiesOfARoutine
    <3> QED BY <1>1, <3>1, PathGoesUp
  <2> QED BY <1>1, <2>1
<1>3. ASSUME NEW l \in Nat, l > 0, l + 1 <= Len(stack), Right(l) PROVE Right(l + 1)
  <2> DEFINE b == stack[l + 1].body
             p == stack[l].body
  <2>1. l \in 1..Len(stack) /\ l + 1 \in 1..Len(stack) /\ l \in 1..Len(stack) - 1
    BY <1>1, <1>3
  <2>2. /\ stack[l + 1] \in FrameRecord /\ stack[l] \in FrameRecord
        /\ b \in Bodies(program) /\ p \in Bodies(program)
        /\ stack[l].at \in 1..Len(Nodes(program, p))
        /\ Generates(stack[l + 1], Nodes(program, p)[stack[l].at])
    <3>1. stack[l + 1] \in FrameRecord /\ stack[l] \in FrameRecord
      BY <1>1, <2>1
    <3>2. b \in Bodies(program) /\ p \in Bodies(program) /\ stack[l].at >= 1
      BY <1>1, <2>1 DEF FitsIn
    <3>3. stack[l].at \in Nat
      BY <3>1 DEF FrameRecord
    <3>4. Len(Nodes(program, p)) \in Nat /\ stack[l].at <= Len(Nodes(program, p))
      BY <1>1, <2>1, <3>2, BodiesOfARoutine
    <3> QED BY <1>1, <2>1, <3>1, <3>2, <3>3, <3>4 DEF NodeOf
  <2>3. b \in Parts(Nodes(program, p)[stack[l].at])
    <3>1. b # 0 /\ stack[l + 1].kind \in FrameKinds
      <4>1. b # 0
        <5> HIDE DEF b
        <5> QED BY <1>1, <2>2, BodiesOfARoutine
      <4> QED BY <2>2, <4>1 DEF FrameRecord
    <3> QED BY <2>2, <3>1 DEF Generates, FrameKinds, Loops, ForLoops, Parts
  <2>4. program.bodies[b].parent = p /\ program.bodies[b].at = stack[l].at
    <3> DEFINE n == stack[l].at
    <3>1. n \in 1..Len(Nodes(program, p)) /\ b \in Parts(Nodes(program, p)[n])
      BY <2>2, <2>3
    <3> HIDE DEF n, b, p
    <3>2. p \in Bodies(program)
      BY <2>2
    <3>3. \A c \in Parts(Nodes(program, p)[n]) :
              program.bodies[c].parent = p /\ program.bodies[c].at = n
      BY <1>1, <3>1, <3>2, BodiesOfAStatement
    <3>4. program.bodies[b].parent = p /\ program.bodies[b].at = n
      BY <3>1, <3>3
    <3> QED BY <3>4 DEF n
  <2>5. p # 0 /\ Path(program, b) = {b} \cup Path(program, p)
    <3>1. b \in Bodies(program) /\ p \in Bodies(program) /\ program.bodies[b].parent = p
      BY <2>2, <2>4
    <3> HIDE DEF b, p
    <3>2. p # 0
      BY <1>1, <3>1, BodiesOfARoutine
    <3>3. Path(program, b) = {b} \cup
              IF program.bodies[b].parent = 0 THEN {} ELSE Path(program, program.bodies[b].parent)
      BY <1>1, <3>1, PathGoesUp
    <3> QED BY <3>1, <3>2, <3>3
  <2>6. ASSUME NEW r \in Path(program, b), r # b PROVE At(l + 1, r)
    <3>1. r \in Path(program, p)
      BY <2>5, <2>6
    <3>2. Below(program, b, r) = IF r = p THEN b ELSE Below(program, p, r)
      <4>1. b \in Bodies(program) /\ p = program.bodies[b].parent /\ p # 0
        BY <2>2, <2>4, <2>5
      <4> HIDE DEF b, p
      <4> QED BY <1>1, <3>1, <4>1, BelowGoesUp
    <3>3. CASE r = p
      <4>1. l \in 1..((l + 1) - 1)
        BY <1>3
      <4> QED BY <2>4, <3>2, <3>3, <4>1
    <3>4. CASE r # p
      <4>1. PICK j \in 1..(l - 1) : /\ stack[j].body = r
                                    /\ stack[j].at = program.bodies[Below(program, p, r)].at
        BY <1>3, <3>1, <3>4
      <4>2. j \in 1..((l + 1) - 1)
        BY <1>3
      <4> QED BY <3>2, <3>4, <4>1, <4>2
    <3> QED BY <3>3, <3>4
  <2> QED BY <2>6
<1>4. K = Nat
  <2> HIDE DEF Right
  <2>1. 0 \in K
    BY <1>2
  <2>2. ASSUME NEW l \in K PROVE l + 1 \in K
    <3> SUFFICES ASSUME (l + 1) + 1 <= Len(stack) PROVE Right((l + 1) + 1)
      OBVIOUS
    <3>1. l + 1 \in Nat /\ l + 1 > 0 /\ l + 1 <= Len(stack)
      BY <1>1
    <3> QED BY <1>3, <3>1
  <2>3. K \in SUBSET Nat
    OBVIOUS
  <2> HIDE DEF K
  <2> QED BY <2>1, <2>2, <2>3, InductionOverASet
<1>5. Right(k)
  <2>1. k - 1 \in K /\ (k - 1) + 1 = k /\ k <= Len(stack)
    <3>1. k - 1 \in Nat /\ (k - 1) + 1 = k /\ k <= Len(stack)
      BY <1>1
    <3> HIDE DEF K
    <3> QED BY <1>4, <3>1
  <2> HIDE DEF Right
  <2> QED BY <2>1
<1> QED BY <1>5

(***************************************************************************)
(* What the semantic pass resolved at the node of a frame has its value    *)
(* there when the finished tables mean the same by it.                     *)
(***************************************************************************)
LEMMA ResolvedHasAValue ==
    ASSUME Inv, NEW k \in 1..Len(stack), NEW b, b = stack[k].body, NEW n, n = stack[k].at,
           n \in 1..Len(Nodes(program, b)), NEW x \in Idents, NEW name,
           Resolve(program, b, n, x) = name, name # NoName, LookupName(program, b, x) = name,
           Nodes(program, b)[n].typed => name # Name(b, n, x)
    PROVE  /\ name.scope \in Path(program, b)
           /\ IsParameter(program, name) \/ <<name, name.scope>> \in DOMAIN valueOf
<1>1. /\ WellFormed(program) /\ stack \in Seq(FrameRecord)
      /\ \A l \in 1..Len(stack) :
            /\ FitsIn(stack[l], program, Len(blocks), Len(incoming), adds, DOMAIN valueOf)
            /\ HasValues(stack[l], program, DOMAIN valueOf)
  BY WhatHolds DEF StackInv, FramesIn
<1>2. b \in Bodies(program)
  BY <1>1 DEF FitsIn
<1>3. PICK s \in Path(program, b) : \E m \in Nat :
          /\ m <= Len(Nodes(program, s)) /\ m < NextAt(program, b, n, s)
          /\ Declares(program, s, m, x) /\ name = Name(s, m, x)
  BY <1>1, <1>2, WhatIsResolved
<1>4. PICK m \in Nat : /\ m <= Len(Nodes(program, s)) /\ m < NextAt(program, b, n, s)
                       /\ Declares(program, s, m, x) /\ name = Name(s, m, x)
  BY <1>3
<1>5. name.scope = s /\ name.at = m /\ name.ident = x /\ s \in Bodies(program)
  BY <1>1, <1>2, <1>4, NamesHaveScopes, PathIsAround
<1>6. PICK j \in 1..Len(stack) : stack[j].body = s /\ m < stack[j].at
  <2>1. CASE s = b
    <3>1. n \in Nat
      BY <1>1, <1>2, BodiesOfARoutine
    <3>2. m < n
      <4>1. CASE Nodes(program, b)[n].typed
        <5>1. m < n + 1 /\ m # n
          BY <1>4, <2>1, <4>1 DEF NextAt
        <5> QED BY <3>1, <5>1
      <4>2. CASE ~Nodes(program, b)[n].typed
        BY <1>4, <2>1, <4>2 DEF NextAt
      <4> QED BY <4>1, <4>2
    <3> QED BY <2>1, <3>2
  <2>2. CASE s # b
    <3>1. PICK j \in 1..(k - 1) : /\ stack[j].body = s
                                  /\ stack[j].at = program.bodies[Below(program, b, s)].at
      BY <2>2, BodiesAreOnTheStack
    <3>2. j \in 1..Len(stack)
      BY <1>1, WhatHolds
    <3> QED BY <1>4, <2>2, <3>1, <3>2 DEF NextAt
  <2> QED BY <2>1, <2>2
<1>7. HasValues(stack[j], program, DOMAIN valueOf) /\ stack[j].at \in Nat /\ stack[j].body = s
  <2>1. stack[j] \in FrameRecord
    BY <1>1
  <2> QED BY <1>1, <1>6, <2>1 DEF FrameRecord
<1>8. CASE m = 0
  <2>1. x = program.bodies[s].counter \/ s = 1
    BY <1>4, <1>8 DEF Declares
  <2>2. CASE s = 1
    BY <1>5, <1>8, <2>2 DEF IsParameter
  <2>3. CASE x = program.bodies[s].counter
    <3>1. <<LookupName(program, s, x), s>> \in DOMAIN valueOf
      BY <1>7, <2>3, NoIdentAssumption DEF HasValues
    <3>2. name = TableEntry(program, s, x)
      BY <1>1, <1>2, <1>5, LookupFinds
    <3>3. LookupName(program, s, x) = name
      BY <1>1, <1>5, <3>2, LookupGoesUp
    <3> QED BY <1>5, <3>1, <3>3
  <2> QED BY <2>1, <2>2, <2>3
<1>9. CASE m # 0
  <2>1. /\ Nodes(program, s)[m].op = "var" /\ Nodes(program, s)[m].ident = x
        /\ Nodes(program, s)[m].valid
    BY <1>4, <1>9 DEF Declares
  <2>2. m \in 1..(stack[j].at - 1)
    BY <1>6, <1>7, <1>9
  <2>3. <<Name(s, m, x), s>> \in DOMAIN valueOf
    BY <1>7, <2>1, <2>2 DEF HasValues
  <2> QED BY <1>4, <1>5, <2>3
<1> QED BY <1>5, <1>8, <1>9

\* A name that has a value in its own scope is read in every scope that finds it.
LEMMA ValueIsRead ==
    ASSUME Inv, NEW s \in Bodies(program), NEW x, NEW name, LookupName(program, s, x) = name,
           name.scope \in Path(program, s),
           IsParameter(program, name) \/ <<name, name.scope>> \in DOMAIN valueOf
    PROVE  ReadName(s, x) # Null
<1> DEFINE known == {t \in Path(program, s) : Get(name, t) # Null}
<1>1. ReadName(s, x) = IF IsParameter(program, name) THEN Arg(x)
                       ELSE IF known = {} THEN Null ELSE Get(name, Max(known))
  BY DEF ReadName
<1>2. CASE IsParameter(program, name)
  <2>1. Arg(x).kind = "arg" /\ Null.kind = "null"
    BY DEF Arg, Null, Value
  <2>2. Arg(x) # Null
    BY <2>1
  <2> QED BY <1>1, <1>2, <2>2
<1>3. CASE ~IsParameter(program, name)
  <2>1. Get(name, name.scope) \in Values(Len(incoming), adds) \ {Null}
    BY <1>3, ValuesAreThere
  <2>2. name.scope \in known
    BY <2>1
  <2>3. known \in SUBSET (0..s) /\ s \in Nat
    BY WhatHolds, PathIsAround, BodiesOfARoutine
  <2>4. known # {}
    BY <2>2
  <2>5. \A t \in known : Get(name, t) # Null
    OBVIOUS
  <2> HIDE DEF known
  <2>6. Max(known) \in known
    BY <2>3, <2>4, MaxIsGreatest
  <2> QED BY <1>1, <1>3, <2>4, <2>5, <2>6
<1> QED BY <1>2, <1>3

\* What a settled and initialised routine uses is resolved, and found again.
LEMMA UsesAreSettled ==
    ASSUME Inv, Settled(program), Initialised(program), NEW b \in Bodies(program),
           NEW n \in 1..Len(Nodes(program, b)), NEW st, st = Nodes(program, b)[n], st.valid,
           NEW x \in Reads(st.e)
    PROVE  /\ Resolve(program, b, n, x) # NoName
           /\ LookupName(program, b, x) = Resolve(program, b, n, x)
           /\ st.op = "while" => LookupName(program, st.then, x) = Resolve(program, b, n, x)
           /\ st.typed => Resolve(program, b, n, x) # Name(b, n, x)
<1> DEFINE site == <<b, n>>
<1>1. site \in ValidSites(program) /\ NodeAt(program, site) = st /\ Accepted(program)
      /\ site[1] = b /\ site[2] = n /\ WellFormed(program)
  BY WhatHolds, NodesOfARoutine
<1>2. x \in Uses(st)
  BY DEF Uses
<1> HIDE DEF site
<1>3. /\ LookupName(program, b, x) = Resolve(program, b, n, x)
      /\ st.op = "while" => LookupName(program, st.then, x) = Resolve(program, b, n, x)
  BY <1>1, <1>2 DEF Settled
<1>4. st.typed => Resolve(program, b, n, x) \notin {NoName, Name(b, n, x)}
  BY <1>1 DEF Initialised
<1>5. ~st.typed => Resolve(program, b, n, x) # NoName
  BY <1>1, <1>2 DEF Accepted
<1> QED BY <1>3, <1>4, <1>5

\* In such a routine no read fails.
LEMMA ReadsDoNotFail ==
    ASSUME Inv, Settled(program), Initialised(program)
    PROVE  ~ReadFails
<1>0. WellFormed(program) /\ scope \in Bodies(program) /\ Len(stack) \in 1..Len(stack)
      /\ Len(stack) \in Nat
  BY WhatHolds
<1>1. ASSUME NEW op, AtNode(op), Unread(scope, node.e) PROVE FALSE
  <2> DEFINE x == node.e.of
             n == Top.at
             name == Resolve(program, scope, n, x)
  <2>1. /\ n \in 1..Len(Nodes(program, scope)) /\ node = Nodes(program, scope)[n] /\ node.valid
        /\ node.e \in Expressions
    BY <1>1, TheNode DEF AtNode, node
  <2>2. node.e.op # "const" /\ ReadName(scope, x) = Null
    BY <1>1 DEF Unread
  <2>3. x \in Reads(node.e) /\ x \in Idents
    BY <2>1, <2>2 DEF Reads, Expressions, ConstOf, ValueOfVar, NextOf
  <2>4. scope = stack[Len(stack)].body /\ n = stack[Len(stack)].at
    BY DEF scope, Top
  <2> HIDE DEF x, n
  <2>5. /\ name # NoName /\ LookupName(program, scope, x) = name
        /\ node.typed => name # Name(scope, n, x)
    BY <1>0, <2>1, <2>3, UsesAreSettled
  <2>6. /\ name.scope \in Path(program, scope)
        /\ IsParameter(program, name) \/ <<name, name.scope>> \in DOMAIN valueOf
    <3> DEFINE b == scope
    <3>1. b = stack[Len(stack)].body /\ b \in Bodies(program) /\ n \in 1..Len(Nodes(program, b))
          /\ node = Nodes(program, b)[n]
      BY <1>0, <2>1, <2>4
    <3>2. /\ name # NoName /\ LookupName(program, b, x) = name /\ Resolve(program, b, n, x) = name
          /\ Nodes(program, b)[n].typed => name # Name(b, n, x)
      BY <2>1, <2>5
    <3> HIDE DEF b, name
    <3>3. /\ name.scope \in Path(program, b)
          /\ IsParameter(program, name) \/ <<name, name.scope>> \in DOMAIN valueOf
      BY <1>0, <2>3, <2>4, <3>1, <3>2, ResolvedHasAValue
    <3> QED BY <3>3 DEF b
  <2> HIDE DEF name
  <2>7. ReadName(scope, x) # Null
    BY <1>0, <2>5, <2>6, ValueIsRead
  <2> QED BY <2>2, <2>7
<1>2. ASSUME AtEnd("condition"), Unread(scope, Statement.e) PROVE FALSE
  <2> DEFINE x == Statement.e.of
             n == Caller.at
             b == outer
             k == Len(stack) - 1
             name == Resolve(program, b, n, x)
  <2>1. /\ Len(stack) > 1 /\ b \in Bodies(program) /\ n \in 1..Len(Nodes(program, b))
        /\ Statement = Nodes(program, b)[n] /\ Statement.valid /\ Statement.e \in Expressions
        /\ Statement.op = "while" /\ Statement.then = scope
        /\ scope \in Bodies(program) /\ program.bodies[scope].parent = b
    <3>1. Top.kind = "condition"
      BY <1>2 DEF AtEnd
    <3>2. Generates(Top, Statement)
      BY <3>1, TheStatement
    <3>3. Statement.op = "while" /\ Statement.then = scope
      BY <3>1, <3>2 DEF Generates, Loops, scope
    <3> QED BY <1>0, <3>1, <3>3, TheStatement DEF Statement, outer
  <2>2. Statement.e.op # "const" /\ ReadName(scope, x) = Null
    BY <1>2 DEF Unread
  <2>3. x \in Reads(Statement.e) /\ x \in Idents
    BY <2>1, <2>2 DEF Reads, Expressions, ConstOf, ValueOfVar, NextOf
  <2>4. k \in 1..Len(stack) /\ b = stack[k].body /\ n = stack[k].at
    BY <1>0, <2>1 DEF outer, Caller
  <2> HIDE DEF x, n, b, k
  <2>5. /\ name # NoName /\ LookupName(program, b, x) = name /\ LookupName(program, scope, x) = name
        /\ Nodes(program, b)[n].typed => name # Name(b, n, x)
    BY <1>0, <2>1, <2>3, UsesAreSettled
  <2> HIDE DEF name
  <2>6. /\ name.scope \in Path(program, b)
        /\ IsParameter(program, name) \/ <<name, name.scope>> \in DOMAIN valueOf
    BY <2>1, <2>3, <2>4, <2>5, ResolvedHasAValue DEF name
  <2>7. name.scope \in Path(program, scope)
    <3>1. b # 0
      BY <1>0, <2>1, BodiesOfARoutine
    <3> QED BY <1>0, <2>1, <2>6, <3>1, PathGoesUp
  <2>8. ReadName(scope, x) # Null
    BY <1>0, <2>5, <2>6, <2>7, ValueIsRead
  <2> QED BY <2>2, <2>8
<1> QED BY <1>1, <1>2 DEF ReadFails

(***************************************************************************)
(* A variable that is read has a value in a scope around the place, if the *)
(* finished tables mean what the semantic pass found and no typed          *)
(* declaration reads what is not there: the search of InsertLLVMValues     *)
(* through the scopes ends before its assertion.                           *)
(***************************************************************************)
THEOREM ReadsOfSettledRoutines == Spec => []ReadsFindValues
<1>1. Init => ReadsFindValues
  BY DEF Init, ReadsFindValues
<1>2. Inv /\ ReadsFindValues /\ [Next]_vars => ReadsFindValues'
  <2> SUFFICES ASSUME Inv, ReadsFindValues, [Next]_vars, status' = "unread",
                      Settled(program'), Initialised(program')
               PROVE  FALSE
    BY DEF ReadsFindValues
  <2>1. CASE ReadFails
    <3>1. program' = program
      BY <2>1 DEF ReadFails, Fail
    <3> QED BY <2>1, <3>1, ReadsDoNotFail
  <2>2. CASE ~ReadFails
    <3>1. program' = program /\ (status' = status \/ status' # "unread")
      BY <2>2 DEF Next, vars, SkipInvalidNode, GenerateVariable, InsertLLVMAssignment, GenerateCall,
                  GenerateReturnStatement, BeginIf, BeginElse, EndIf, Join, Fail, BeginWhile,
                  PhisOfWhile, ConditionOfWhile, EndWhile, BeginFor, PhisOfFor, EndFor, EndRoutine
    <3> QED BY <3>1 DEF ReadsFindValues
  <2> QED BY <2>1, <2>2
<1> QED BY <1>1, <1>2, InvHolds, PTL DEF Spec
=============================================================================

------------------------------ MODULE Routines ------------------------------
(***************************************************************************)
(* A routine as code generation finds it: the tree of bodies that the      *)
(* semantic pass has accepted, and the name tables it has finished.        *)
(*                                                                         *)
(* A routine P is a record: P.bodies is a sequence of bodies, the first    *)
(* one is the routine's own, every other one comes after its parent;       *)
(* P.params are its parameters and P.void says that it returns nothing.    *)
(* A body has the body and the node it is part of (parent, at), the        *)
(* counter it declares if it belongs to a for loop, and its nodes.         *)
(* A body's index also stands for its scope.                               *)
(***************************************************************************)
EXTENDS Integers, Sequences, FiniteSets, FiniteSetsExt

CONSTANTS Idents,   \* identifiers of variables
          Consts,   \* literals
          NoIdent   \* the counter of a body that has none

ASSUME NoIdentAssumption == NoIdent \notin Idents

(***************************************************************************)
(* Expressions: a literal, a variable, or a variable plus one.             *)
(***************************************************************************)
ConstOf(c) == [op |-> "const", of |-> c]
ValueOfVar(x) == [op |-> "var", of |-> x]
NextOf(x) == [op |-> "next", of |-> x]

Expressions == {ConstOf(c) : c \in Consts} \cup
               {ValueOfVar(x) : x \in Idents} \cup {NextOf(x) : x \in Idents}

(***************************************************************************)
(* Nodes of a body.  The condition of an if or a while is a call of a      *)
(* boolean routine with the argument e; print is a call of any other       *)
(* routine.  The upper bound of a for loop is a literal.  A variable that  *)
(* is declared with its type (typed) is defined before its initial value   *)
(* is traced.  A skipped node is a declaration of x with an unknown type:  *)
(* the semantic pass marks it invalid and defines nothing.                 *)
(***************************************************************************)
Node(op, x, e, then, else) ==
    [op |-> op, ident |-> x, e |-> e, then |-> then, else |-> else,
     typed |-> FALSE, valid |-> TRUE]

Declare(x, e) == Node("var", x, e, 0, 0)
DeclareTyped(x, e) == [Declare(x, e) EXCEPT !.typed = TRUE]
Skipped(x) == [DeclareTyped(x, ValueOfVar(x)) EXCEPT !.valid = FALSE]
AssignTo(x, e) == Node("assign", x, e, 0, 0)
Show(e) == Node("print", NoIdent, e, 0, 0)
ReturnOf(e) == Node("return", NoIdent, e, 0, 0)
If(e, then, else) == Node("if", NoIdent, e, then, else)
While(e, body) == Node("while", NoIdent, e, body, 0)
For(lo, body) == Node("for", NoIdent, lo, body, 0)

Nodes(P, b) == P.bodies[b].nodes
Sites(P) == UNION {{b} \X DOMAIN Nodes(P, b) : b \in DOMAIN P.bodies}
NodeAt(P, site) == Nodes(P, site[1])[site[2]]

(***************************************************************************)
(* What the parser builds: a tree of bodies. The bodies of a statement are *)
(* no other statement's, they come after the body the statement is in, and *)
(* they know their place in it; only the body of a for has a counter.      *)
(***************************************************************************)
NodeKinds == {"var", "assign", "print", "return", "if", "while", "for"}
NodeRecord == [op : NodeKinds, ident : Idents \cup {NoIdent}, e : Expressions,
               then : Nat, else : Nat, typed : BOOLEAN, valid : BOOLEAN]
BodyRecord == [parent : Nat, at : Nat, counter : Idents \cup {NoIdent}, nodes : Seq(NodeRecord)]

Parts(node) == {node.then, node.else} \ {0}

WellFormed(P) ==
    /\ P.bodies \in Seq(BodyRecord) /\ P.bodies # <<>> /\ P.params \subseteq Idents
    /\ P.bodies[1].parent = 0 /\ P.bodies[1].counter = NoIdent
    /\ \A b \in DOMAIN P.bodies \ {1} :
          /\ P.bodies[b].parent \in 1..(b - 1)
          /\ P.bodies[b].at \in DOMAIN Nodes(P, P.bodies[b].parent)
          /\ P.bodies[b].counter # NoIdent =>
                 NodeAt(P, <<P.bodies[b].parent, P.bodies[b].at>>).op = "for"
    /\ \A site \in Sites(P) : LET node == NodeAt(P, site) IN
          /\ node.op \in {"var", "assign"} => node.ident \in Idents
          /\ node.typed => node.op = "var"
          /\ node.op \in {"if", "while", "for"} => node.then # 0
          /\ \A b \in Parts(node) :
                b \in DOMAIN P.bodies \ {1} /\ <<P.bodies[b].parent, P.bodies[b].at>> = site

-----------------------------------------------------------------------------
(* Scopes and the finished tables.                                         *)

\* The scopes a lookup visits from b: b and the scopes around it.
Path(P, b) ==
    LET path[s \in 1..b] ==
            {s} \cup IF P.bodies[s].parent = 0 THEN {} ELSE path[P.bodies[s].parent]
    IN path[b]

\* Whether x is declared by node n of b; 0 is the head of the body.
Declares(P, b, n, x) ==
    IF n = 0 THEN x = P.bodies[b].counter \/ (b = 1 /\ x \in P.params)
    ELSE LET node == Nodes(P, b)[n]
         IN node.op = "var" /\ node.ident = x /\ node.valid

\* A Name is the place of its declaration.
Name(b, n, x) == [scope |-> b, at |-> n, ident |-> x]
NoName == Name(0, 0, NoIdent)

\* nameMap of a finished body: of equal identifiers the last one stays.
TableEntry(P, b, x) ==
    LET at == {n \in 0..Len(Nodes(P, b)) : Declares(P, b, n, x)}
    IN IF at = {} THEN NoName ELSE Name(b, Max(at), x)

LookupName(P, b, x) ==
    LET found == {s \in Path(P, b) : TableEntry(P, s, x) # NoName}
    IN IF found = {} THEN NoName ELSE TableEntry(P, Max(found), x)

IsParameter(P, name) == name.scope = 1 /\ name.at = 0

-----------------------------------------------------------------------------
(* What the semantic pass resolved, when it stood at the node.             *)

\* The innermost scope with a declaration that comes before node n of b, or is n.
Resolve(P, b, n, x) ==
    LET path == Path(P, b)
        next(s) == IF s = b THEN IF Nodes(P, b)[n].typed THEN n + 1 ELSE n
                   ELSE P.bodies[Min({c \in path : c > s})].at
        declared(s) == {k \in 0..(next(s) - 1) : Declares(P, s, k, x)}
        found == {s \in path : declared(s) # {}}
    IN IF found = {} THEN NoName ELSE Name(Max(found), Max(declared(Max(found))), x)

Reads(e) == IF e.op = "const" THEN {} ELSE {e.of}
Uses(node) == Reads(node.e) \cup IF node.op = "assign" THEN {node.ident} ELSE {}

ValidSites(P) == {site \in Sites(P) : NodeAt(P, site).valid}

\* The pass marks a node that uses an undeclared name invalid; it ignores
\* what it finds in the initial value of a variable that has a type.
Accepted(P) ==
    \A site \in ValidSites(P) : \A x \in Uses(NodeAt(P, site)) :
        ~NodeAt(P, site).typed => Resolve(P, site[1], site[2], x) # NoName

(***************************************************************************)
(* No identifier means another Name in the finished tables, also not the   *)
(* condition of a while loop in the scope of its body.                     *)
(***************************************************************************)
Settled(P) ==
    \A site \in ValidSites(P) : \A x \in Uses(NodeAt(P, site)) :
        LET node == NodeAt(P, site)
            name == Resolve(P, site[1], site[2], x)
        IN /\ LookupName(P, site[1], x) = name
           /\ node.op = "while" => LookupName(P, node.then, x) = name

\* No variable is declared with an undeclared name, or with itself, for its value.
Initialised(P) ==
    \A site \in ValidSites(P) : NodeAt(P, site).typed =>
        \A x \in Reads(NodeAt(P, site).e) :
            Resolve(P, site[1], site[2], x) \notin {NoName, Name(site[1], site[2], x)}
=============================================================================

----------------------------- MODULE MCCodegen -----------------------------
(***************************************************************************)
(* Small routines for code generation, by shape: one statement with all    *)
(* bodies of up to two nodes, two statements in a row, a statement in      *)
(* another one, and straight code with parameters and declarations.        *)
(***************************************************************************)
EXTENDS CodeSemantics

CONSTANT Shapes

X == ValueOfVar("x")
SetX == AssignTo("x", ConstOf("c"))
Simple == {SetX, AssignTo("x", NextOf("x")), AssignTo("y", X), Show(X),
           Declare("x", ValueOfVar("y"))}
Single == (Simple \ {Show(X)}) \cup {ReturnOf(X)}
Short == {<<>>} \cup {<<n>> : n \in Simple}
Few == {<<>>, <<SetX>>, <<Show(X)>>}

MCBody(parent, at, counter, nodes) ==
    [parent |-> parent, at |-> at, counter |-> counter, nodes |-> nodes]

Kinds == {"then", "else", "while", "for"}
Width(kind) == IF kind = "else" THEN 2 ELSE 1

\* The statement whose bodies are b, b + 1, and these bodies.
StatementOf(kind, b) ==
    CASE kind = "then" -> If(X, b, 0)
      [] kind = "else" -> If(X, b, b + 1)
      [] kind = "while" -> While(X, b)
      [] kind = "for" -> For(X, b)
BodiesOf(kind, parent, at, contents) ==
    [k \in 1..Width(kind) |->
        MCBody(parent, at, IF kind = "for" THEN "i" ELSE NoIdent, contents[k])]
Contents(kind, S) == [1..Width(kind) -> S]

\* x and y are declared before the statements and printed after them.
RoutineOf(statements, bodies) ==
    [bodies |-> <<MCBody(0, 0, NoIdent,
                         <<Declare("x", ConstOf("a")), Declare("y", ConstOf("b"))>>
                         \o statements \o <<Show(X), Show(ValueOfVar("y"))>>)>> \o bodies,
     params |-> {}, void |-> TRUE]

OneOf(kind, S) ==
    {RoutineOf(<<StatementOf(kind, 2)>>, BodiesOf(kind, 1, 3, c)) : c \in Contents(kind, S)}

TwoOf(kind, kind2, S) ==
    {RoutineOf(<<StatementOf(kind, 2), StatementOf(kind2, 2 + Width(kind))>>,
               BodiesOf(kind, 1, 3, c[1]) \o BodiesOf(kind2, 1, 4, c[2])) :
        c \in Contents(kind, S) \X Contents(kind2, S)}

\* A statement in body w of another one, between the nodes before and after.
NestOf(kind, w, kind2, S) ==
    {RoutineOf(<<StatementOf(kind, 2)>>,
               BodiesOf(kind, 1, 3, [c[1] EXCEPT ![w] =
                            c[2] \o <<StatementOf(kind2, 2 + Width(kind))>> \o c[3]])
               \o BodiesOf(kind2, 1 + w, Len(c[2]) + 1, c[4])) :
        c \in {d \in Contents(kind, Few) : d[w] = <<>>} \X S \X Few \X Contents(kind2, Few)}

\* A variable of the statement is declared again after it.
LateOf(kind, S) ==
    {RoutineOf(<<StatementOf(kind, 2), Declare("x", ConstOf("c"))>>, BodiesOf(kind, 1, 3, c)) :
        c \in Contents(kind, S)}

\* Parameters, typed and skipped declarations, and redeclarations, with and
\* without a value to return.
StraightOf(param, S) ==
    {[bodies |-> <<MCBody(0, 0, NoIdent, nodes)>>, params |-> {param}, void |-> TRUE] : nodes \in S}
    \cup {[bodies |-> <<MCBody(0, 0, NoIdent, Append(nodes, ReturnOf(ValueOfVar(param))))>>,
           params |-> {param}, void |-> FALSE] : nodes \in S}

Declarations == {Declare("x", ConstOf("a")), Declare("x", NextOf("p")), DeclareTyped("x", X), Skipped("x"),
                 AssignTo("p", X), AssignTo("x", ValueOfVar("p")), Show(X)}

ShapeOf(shape) ==
    CASE shape = "one" -> UNION {OneOf(k, BoundedSeq(Single, 2)) : k \in Kinds}
                          \cup UNION {LateOf(k, Few) : k \in Kinds}
      [] shape = "two" -> UNION {TwoOf(k[1], k[2], Few) : k \in Kinds \X Kinds}
      [] shape = "nest" -> UNION {NestOf(k[1], 1, k[2], Short) : k \in Kinds \X Kinds}
                           \cup UNION {NestOf("else", 2, k, Short) : k \in Kinds}
      [] shape = "straight" -> StraightOf("p", BoundedSeq(Declarations, 4))
      [] shape = "branches" -> OneOf("else", BoundedSeq(Simple, 1))
      [] shape = "loops" -> OneOf("for", BoundedSeq(Simple, 1))

MCPrograms == UNION {ShapeOf(shape) : shape \in Shapes}
=============================================================================

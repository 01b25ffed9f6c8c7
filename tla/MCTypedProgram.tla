--------------------------- MODULE MCTypedProgram ---------------------------
(***************************************************************************)
(* Small programs for the types: expressions over native variables, types  *)
(* with parts used by a variable, and two declarations of types in a row.  *)
(***************************************************************************)
EXTENDS WellTypedPrograms

CONSTANT Shapes

Declare(name, def) == [name |-> name, def |-> def]
DeclareVar(name, def, init) == [name |-> name, def |-> def, init |-> init]
Statement(form, expr) == [form |-> form, expr |-> expr]
ProgramOf(globals, locals, header, vs, ss) ==
    [globals |-> globals, locals |-> locals, param |-> header[1], ret |-> header[2],
     vars |-> vs, statements |-> ss]
Assign(target, e) == Statement("expression", Binary("assign", target, e))

(***************************************************************************)
(* Expressions of two operators over int, float and bool.                  *)
(***************************************************************************)
NativeVars == <<DeclareVar("i", Native(INT), NoIndex), DeclareVar("f", Native(FLOAT), Const(FLOAT)),
                DeclareVar("b", Inferred, Const(BOOL))>>
Atoms == {Var("i"), Var("f"), Var("b"), Const(INT)}
Operators == Arithmetic \cup Logical \cup {"compare"}
Simple == {Binary(op, l, r) : op \in Operators, l \in Atoms, r \in Atoms}
Nested == Atoms \cup Simple \cup {Binary(op, l, r) : op \in Operators, l \in Simple, r \in Atoms \ {Const(INT)}}
             \cup {Call("f", e) : e \in Atoms \cup Simple}
NativeHeader == <<Native(INT), Native(FLOAT)>>

\* Sets of records, which TLC enumerates without comparing their elements.
Binaries(ops, ls, rs) == [kind: {"binary"}, op: ops, left: ls, right: rs, type: {NoType}]
Uses == UNION {[form: {"expression"}, expr: Binaries({"assign"}, {Var(x) : x \in {"i", "f", "b"}}, Nested)],
               [form: {"return", "if"}, expr: Nested],
               [form: {"expression"}, expr: [kind: {"call"}, func: {"printInt"}, arg: Nested, type: {NoType}]]}
Expressions2 == [globals: {<<>>}, locals: {<<>>}, param: {NativeHeader[1]}, ret: {NativeHeader[2]},
                 vars: {NativeVars}, statements: [1..1 -> Uses]]

(***************************************************************************)
(* Types.                                                                  *)
(***************************************************************************)
RecordOfOne(d) == RecordOf(<<Field("a", d)>>)
Basic == {Native(INT), Native(BOOL), Named("S"), Named("T")}
Definitions == Basic \cup {RecordOfOne(d) : d \in Basic} \cup {ArrayOf(Const(INT), d) : d \in Basic}
                  \cup {RecordOfOne(RecordOfOne(Native(FLOAT))), ArrayOf(Const(FLOAT), RecordOfOne(Native(INT))),
                        ArrayOf(Const(BOOL), Native(INT)), RecordOf(<<Field("b", Native(INT)), Field("a", Native(FLOAT))>>)}
First == {RecordOfOne(Native(FLOAT)), ArrayOf(Const(INT), Native(INT)), Native(INT), RecordOfOne(ArrayOf(Const(INT), Native(INT)))}
Paths == {Member("v", "a"), Element("v", Var("p")), Element("v", Const(FLOAT)), Element("v", Const(BOOL)),
          ElementMember("v", Const(INT), "a"), MemberElement("v", "a", Const(INT)),
          MemberElement("v", "a", Const(FLOAT)), Var("v")}
Values == {Const(INT), Var("p"), Var("v"), Member("v", "a")}
VarDefs == {Named("S"), Named("T"), RecordOfOne(Named("S")), ArrayOf(Const(INT), Native(INT))}
OneVar(d) == <<DeclareVar("v", d, NoIndex)>>
IntHeader == <<Native(INT), Native(INT)>>

\* Two types, global or local, and a variable of one of them.
TypePairs ==
    {ProgramOf(IF local THEN <<Declare("S", s)>> ELSE <<Declare("S", s), Declare(name, t)>>,
               IF local THEN <<Declare(name, t)>> ELSE <<>>, IntHeader, OneVar(d), <<Assign(path, Const(INT))>>) :
        local \in BOOLEAN, name \in {"S", "T"}, s \in First, t \in Definitions, d \in VarDefs, path \in Paths}

\* Values of types: as arguments, results, initial values and operands.
Headers == {<<Named("S"), Named("S")>>, <<Native(INT), Named("S")>>, <<Named("S"), Native(VOID)>>, <<Native(INT), Native(FLOAT)>>,
            <<Named("T"), Native(INT)>>}
Inits == {NoIndex, Var("p"), Const(INT), Call("f", Var("p"))}
TypeUses ==
    {ProgramOf(<<Declare("S", s), Declare("T", t)>>, <<>>, h, <<DeclareVar("v", d, init)>>, <<s1, s2>>) :
        s \in First, t \in {RecordOfOne(Named("S")), Named("S")}, h \in Headers,
        d \in {Inferred, Named("S"), Native(FLOAT)}, init \in Inits,
        s1 \in {Assign(Var("v"), Var("p")), Assign(Member("v", "a"), Const(INT)), Statement("expression", Call("f", Var("v")))},
        s2 \in {Statement("return", Var("v")), Statement("return", Const(INT)), Statement("if", Member("p", "a"))}}

ShapeOf(shape) ==
    CASE shape = "expressions" -> Expressions2
      [] shape = "pairs" -> TypePairs
      [] shape = "uses" -> {P \in TypeUses : \A i \in DOMAIN P.vars : P.vars[i].def = Inferred => P.vars[i].init # NoIndex}
MCPrograms == UNION {ShapeOf(shape) : shape \in Shapes}
=============================================================================

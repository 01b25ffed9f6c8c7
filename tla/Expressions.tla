----------------------------- MODULE Expressions ----------------------------
(***************************************************************************)
(* Expressions and the types that src/src/Types.cpp gives them: a trace    *)
(* returns the expression with a type on every node and the casts it       *)
(* inserted, or Abort where the program ends.  The relations, which        *)
(* nothing treats differently, are one operator: "compare".                *)
(***************************************************************************)
EXTENDS TypeTables

CONSTANT MaxDepth   \* how deep expressions nest, the casts in them included

ASSUME DepthAssumption == MaxDepth \in Nat

\* The source: type is filled in by the trace.
Const(t) == [kind |-> "const", native |-> t, type |-> NoType]
NoIndex == [kind |-> "none", type |-> NoType]
Link(ident, index) == [ident |-> ident, index |-> index]
Read(links) == [kind |-> "read", links |-> links, type |-> NoType]
Var(ident) == Read(<<Link(ident, NoIndex)>>)
Member(ident, member) == Read(<<Link(ident, NoIndex), Link(member, NoIndex)>>)
Element(ident, index) == Read(<<Link(ident, index)>>)
ElementMember(ident, index, member) == Read(<<Link(ident, index), Link(member, NoIndex)>>)
MemberElement(ident, member, index) == Read(<<Link(ident, NoIndex), Link(member, index)>>)
Binary(op, left, right) ==
    [kind |-> "binary", op |-> op, left |-> left, right |-> right, type |-> NoType]
Call(func, arg) == [kind |-> "call", func |-> func, arg |-> arg, type |-> NoType]

Cast(from, to, operand) ==
    [kind |-> "cast", from |-> from, operand |-> operand, type |-> to]
Abort == [kind |-> "abort", type |-> Aborted]

\* The expressions with at most n levels of operands, traced or not.
ExpressionsTo[n \in Nat] ==
    LET Parts == IF n = 0 THEN {} ELSE ExpressionsTo[n - 1]
        Links == [ident : STRING, index : Parts \cup {NoIndex}]
    IN {Abort}
       \cup [kind : {"const"}, native : Natives, type : Int]
       \cup [kind : {"read"}, links : Seq(Links), type : Int]
       \cup [kind : {"binary"}, op : STRING, left : Parts, right : Parts, type : Int]
       \cup [kind : {"call"}, func : STRING, arg : Parts, type : Int]
       \cup [kind : {"cast"}, from : Int, operand : Parts, type : Int]
Expression == ExpressionsTo[MaxDepth]

IsSimple(e) == Len(e.links) = 1 /\ e.links[1].index = NoIndex

Logical == {"and", "or", "xor"}
Arithmetic == {"add", "minus", "mul", "div", "mod"}

(***************************************************************************)
(* Casts.                                                                  *)
(***************************************************************************)
Casts == {<<BOOL, INT>>, <<BOOL, FLOAT>>, <<INT, FLOAT>>,
          <<FLOAT, INT>>, <<FLOAT, BOOL>>, <<INT, BOOL>>}

InsertTypeCast(child, source, target) ==
    IF <<source, target>> \in Casts THEN Cast(source, target, child) ELSE Abort

\* From the native base of the child's type; NoIndex where there is none to cast.
CastFromTraced(env, child, target) ==
    LET native == FindNativeBaseType(env.tables, env.scope, child.type) IN
    IF child.type = NoType \/ native = NoType THEN NoIndex
    ELSE InsertTypeCast(child, native, target)

(***************************************************************************)
(* Widening: the operands of a mixed operator and their common type.       *)
(***************************************************************************)
Operands(left, right, type) ==
    IF Abort \in {left, right} THEN [left |-> Abort, right |-> Abort, type |-> Aborted]
    ELSE [left |-> left, right |-> right, type |-> type]

\* The slip of casting the wider operand to the narrower one.
NarrowToLeft(env, left, right) ==
    LET l == FindNativeBaseType(env.tables, env.scope, left.type)
        r == FindNativeBaseType(env.tables, env.scope, right.type)
    IN CASE NoType \in {l, r} -> Operands(left, right, IF NoType \in {left.type, right.type} THEN Aborted ELSE NoType)
         [] NoType \notin {l, r} /\ l = r -> Operands(left, right, l)
         [] OTHER -> Operands(left, InsertTypeCast(right, r, l), l)

\* l and r are the native bases of the types of the operands.
Widened(left, l, right, r) ==
    CASE NoType \in {l, r} /\ NoType \in {left.type, right.type} -> Operands(Abort, Abort, Aborted)
      [] NoType \in {l, r} /\ NoType \notin {left.type, right.type} -> Operands(left, right, NoType)
      [] NoType \notin {l, r} /\ l = r -> Operands(left, right, l)
      [] {l, r} = {INT, FLOAT} \/ {l, r} = {BOOL, FLOAT} \/ {l, r} = {BOOL, INT} ->
             LET wide == IF FLOAT \in {l, r} THEN FLOAT ELSE INT IN
             Operands(IF l = wide THEN left ELSE InsertTypeCast(left, l, wide),
                      IF r = wide THEN right ELSE InsertTypeCast(right, r, wide), wide)
      [] OTHER -> Operands(Abort, Abort, Aborted)

ApplyTypeWidening(env, left, right) ==
    Widened(left, FindNativeBaseType(env.tables, env.scope, left.type),
            right, FindNativeBaseType(env.tables, env.scope, right.type))

(***************************************************************************)
(* The trace.  env has the tables, the scope, the types of the names in it *)
(* and the routines, and says whether a call without a value is allowed.   *)
(***************************************************************************)
TraceVariable(env, e) ==
    IF e.links[1].ident \in DOMAIN env.names THEN [e EXCEPT !.type = env.names[e.links[1].ident]] ELSE e

\* The cast of an index goes to the index of the whole primary, whichever link it is in.
IndexCast(env, links) ==
    IF links[1].index = NoIndex THEN Abort ELSE CastFromTraced(env, links[1].index, INT)

\* A path up to its i-th link, and from there up to the next one; type is what
\* it leads to, NoType if the index has none, Aborted where the program ends.
TraceLink(env, path, i, index) ==
    LET indexed == path.links[i].index # NoIndex
        untyped == indexed /\ index.type = NoType
        traced == [path.links EXCEPT ![i].index = index]
        cast == IF indexed /\ index.type \notin {INT, NoType, Aborted} THEN IndexCast(env, traced) ELSE NoIndex
        cooked == IF cast.kind = "cast" THEN [traced EXCEPT ![1].index = cast] ELSE traced
        element == IF path.type \notin DOMAIN env.tables.types THEN NoType
                   ELSE LookupTypeById(env.tables, env.scope, env.tables.types[path.type].base)
        whole == IF indexed THEN element ELSE path.type
        part == IF i = Len(path.links) THEN whole ELSE MemberType(env.tables, whole, path.links[i + 1].ident)
        fails == Abort \in {index, cast} \/ (~untyped /\ part = NoType)
    IN [links |-> cooked, type |-> IF fails THEN Aborted ELSE IF untyped THEN NoType ELSE part]

\* indices has what the indices of the links are traced to.
TracePath(env, e, indices) ==
    LET Walked[i \in 0 .. Len(e.links)] ==
            IF i = 0 THEN [links |-> e.links, type |-> env.names[e.links[1].ident]]
            ELSE IF Walked[i - 1].type \in {NoType, Aborted} THEN Walked[i - 1]
            ELSE TraceLink(env, Walked[i - 1], i, indices[i])
        PathOf(path) == IF path.type = Aborted THEN Abort ELSE [Read(path.links) EXCEPT !.type = path.type]
    IN IF e.links[1].ident \notin DOMAIN env.names THEN Abort ELSE PathOf(Walked[Len(e.links)])

\* The operands of the next two are traced.
TraceCall(env, e, arg) ==
    LET func == env.funcs[e.func]
        given == IF arg.type = func.param THEN arg ELSE CastFromTraced(env, arg, func.param)
    IN CASE e.func \notin DOMAIN env.funcs -> e
         [] e.func \in DOMAIN env.funcs /\ arg = Abort -> Abort
         [] e.func \in DOMAIN env.funcs /\ arg # Abort /\ (arg.type = NoType \/ given = NoIndex)
                -> [e EXCEPT !.arg = arg]
         [] OTHER -> CASE given = Abort -> Abort
                       [] given # Abort /\ func.ret = VOID /\ ~env.single -> [e EXCEPT !.arg = given]
                       [] OTHER -> [e EXCEPT !.arg = given, !.type = func.ret]

TraceBinary(env, e, left, right) ==
    LET same == left.type = right.type
        Assigned(value) == IF value = Abort THEN Abort ELSE [e EXCEPT !.left = left, !.right = value, !.type = left.type]
        Computed(both) ==
            IF both.type = Aborted THEN Abort
            ELSE [e EXCEPT !.left = both.left, !.right = both.right,
                           !.type = IF e.op \in Logical \cup {"compare"} THEN BOOL ELSE both.type]
    IN CASE Abort \in {left, right} -> Abort
         [] Abort \notin {left, right} /\ e.op = "assign" ->
                Assigned(IF same THEN right ELSE InsertTypeCast(right, right.type, left.type))
         [] OTHER -> Computed(IF same THEN Operands(left, right, left.type) ELSE ApplyTypeWidening(env, left, right))

\* What has a type keeps it.
RunTypeTrace(env, e) ==
    LET Trace[x \in Expression] ==
            CASE x.type # NoType -> x
              [] x.type = NoType /\ x.kind = "const" -> [x EXCEPT !.type = x.native]
              [] x.type = NoType /\ x.kind = "read" ->
                     IF IsSimple(x) THEN TraceVariable(env, x)
                     ELSE TracePath(env, x, [i \in DOMAIN x.links |-> IF x.links[i].index = NoIndex THEN NoIndex
                                                                     ELSE Trace[x.links[i].index]])
              [] x.type = NoType /\ x.kind = "call" -> TraceCall(env, x, Trace[x.arg])
              [] x.type = NoType /\ x.kind = "binary" -> TraceBinary(env, x, Trace[x.left], Trace[x.right])
    IN Trace[e]
=============================================================================

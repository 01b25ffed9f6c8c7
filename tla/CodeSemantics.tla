--------------------------- MODULE CodeSemantics ---------------------------
(***************************************************************************)
(* What a routine does and what the code generated for it does, as the     *)
(* calls, tests and returns an observer sees, and when LLVM accepts the    *)
(* code.  Conditions are answered by an oracle, a sequence of booleans;    *)
(* an execution is cut off where the oracle ends.  A for loop asks the     *)
(* oracle after each round whether to leave.                               *)
(***************************************************************************)
EXTENDS Codegen

CONSTANT OracleLength

Oracles == [1..OracleLength -> BOOLEAN]

\* A value at run time: a literal or an argument, and what was added to it.
Datum(of, plus) == <<of, plus>>
Event(kind, datum) == <<kind, datum>>

-----------------------------------------------------------------------------
(* The source.  An execution is [env, out, oracle, live]: the values of    *)
(* the variables by scope and identifier, the events so far, the answers   *)
(* left, and whether it goes on.                                           *)

Observe(s, kind, datum) == [s EXCEPT !.out = Append(@, Event(kind, datum))]

EvalSource(P, b, n, e, s) ==
    IF e.op = "const" THEN Datum(e.of, 0)
    ELSE LET v == s.env[<<Resolve(P, b, n, e.of).scope, e.of>>]
         IN IF e.op = "var" THEN v ELSE Datum(v[1], v[2] + 1)

SetVar(s, b, x, v) == [s EXCEPT !.env = <<b, x>> :> v @@ @]

\* Asks the oracle; without an answer the execution ends.
Decide(s, kind, datum) ==
    IF s.oracle = <<>> THEN [s EXCEPT !.live = FALSE]
    ELSE [Observe(s, kind, datum) EXCEPT !.oracle = Tail(@)]
Answer(s) == s.oracle # <<>> /\ Head(s.oracle)

RECURSIVE Exec(_, _, _, _), ExecWhile(_, _, _, _), ExecFor(_, _, _, _)

Exec(P, b, n, s) ==
    IF ~s.live \/ n > Len(Nodes(P, b)) THEN s
    ELSE
    LET nd == Nodes(P, b)[n]
        v == EvalSource(P, b, n, nd.e, s)
        next ==
            CASE ~nd.valid -> s
              [] nd.op = "var" -> SetVar(s, b, nd.ident, v)
              [] nd.op = "assign" -> SetVar(s, Resolve(P, b, n, nd.ident).scope, nd.ident, v)
              [] nd.op = "print" -> Observe(s, "call", v)
              [] nd.op = "return" -> [Observe(s, "return", v) EXCEPT !.live = FALSE]
              [] nd.op = "if" ->
                    IF Answer(s) THEN Exec(P, nd.then, 1, Decide(s, "test", v))
                    ELSE IF nd.else = 0 THEN Decide(s, "test", v)
                    ELSE Exec(P, nd.else, 1, Decide(s, "test", v))
              [] nd.op = "while" -> ExecWhile(P, b, n, s)
              [] nd.op = "for" -> ExecFor(P, b, n,
                    SetVar(s, nd.then, P.bodies[nd.then].counter, v))
    IN Exec(P, b, n + 1, next)

ExecWhile(P, b, n, s) ==
    LET nd == Nodes(P, b)[n]
        tested == Decide(s, "test", EvalSource(P, b, n, nd.e, s))
    IN IF s.live /\ Answer(s) THEN ExecWhile(P, b, n, Exec(P, nd.then, 1, tested))
       ELSE IF s.live THEN tested ELSE s

ExecFor(P, b, n, s) ==
    LET body == Nodes(P, b)[n].then
        i == P.bodies[body].counter
        round == Exec(P, body, 1, s)
        i1 == Datum(s.env[<<body, i>>][1], s.env[<<body, i>>][2] + 1)
        tested == Decide(round, "test", i1)
    IN IF ~round.live THEN round
       ELSE IF ~tested.live \/ Answer(round) THEN tested
       ELSE ExecFor(P, b, n, SetVar(tested, body, i, i1))

SourceTrace(P, oracle) ==
    LET s == Exec(P, 1, 1, [env |-> [key \in {1} \X P.params |-> Datum(key[2], 0)],
                            out |-> <<>>, oracle |-> oracle, live |-> TRUE])
    IN IF s.live THEN Append(s.out, Event("return", Datum("", 0))) ELSE s.out

-----------------------------------------------------------------------------
(* The code.                                                               *)

Lookup(env, v) ==
    CASE v.kind \in {"const", "arg"} -> Datum(v.of, v.n)
      [] v \in DOMAIN env -> env[v]
      [] OTHER -> Datum("undefined", 0)

RECURSIVE Run(_, _, _)

\* Instruction i of block b; s as in the source, with the block it came from.
Run(b, i, s) ==
    LET ins == blocks[b][i]
        v == Lookup(s.env, ins.of)
        phis == {k \in 1..Len(blocks[b]) : blocks[b][k].op = "phi"}
        operandOf(k) == CHOOSE o \in ToSet(incoming[blocks[b][k].id]) : o[2] = s.from
        afterPhis == [key \in {Phi(blocks[b][k].id) : k \in phis} |->
                        Lookup(s.env, operandOf(CHOOSE k \in phis :
                                                    Phi(blocks[b][k].id) = key)[1])] @@ s.env
        jump(t, to) == Run(to, 1, [t EXCEPT !.from = b])
    IN CASE ins.op = "phi" -> Run(b, Cardinality(phis) + 1, [s EXCEPT !.env = afterPhis])
         [] ins.op = "add" ->
                Run(b, i + 1, [s EXCEPT !.env = Sum(ins.id) :> Datum(v[1], v[2] + 1) @@ @])
         [] ins.op = "call" -> Run(b, i + 1, Observe(s, "call", v))
         [] ins.op = "br" -> jump(s, ins.to[1])
         [] ins.op = "condbr" ->
                IF s.oracle = <<>> THEN s.out
                ELSE jump(Decide(s, "test", v), IF Answer(s) THEN ins.to[1] ELSE ins.to[2])
         [] ins.op = "ret" -> Append(s.out, Event("return", IF ins.of = Null THEN Datum("", 0) ELSE v))

CodeTrace(oracle) ==
    Run(1, 1, [env |-> <<>>, out |-> <<>>, oracle |-> oracle, live |-> TRUE, from |-> 0])

-----------------------------------------------------------------------------
(* The verifier of LLVM.                                                   *)

IsTerminator(ins) == ins.op \in {"br", "condbr", "ret"}
Terminated(b) ==
    /\ blocks[b] # <<>>
    /\ \A i \in DOMAIN blocks[b] : IsTerminator(blocks[b][i]) <=> i = Len(blocks[b])

Successors(b) == ToSet(Last(blocks[b]).to)
Predecessors(b) == {p \in DOMAIN blocks : b \in Successors(p)}

\* The blocks reached from the entry by paths that avoid block d.
ReachedWithout(d) ==
    LET reached[n \in 0..Len(blocks)] ==
            IF n = 0 THEN {1} \ {d}
            ELSE LET before == reached[n - 1]
                 IN before \cup UNION {Successors(b) \ {d} : b \in before}
    IN reached[Len(blocks)]
Dominates(d, b) == b \notin ReachedWithout(d)

IsDefinition(ins, v) == ins.op = v.kind /\ ins.id = v.n

\* v is defined in every execution that reaches instruction i of block b.
Available(v, b, i) ==
    \/ v.kind \in {"const", "arg"}
    \/ \E d \in DOMAIN blocks : \E j \in DOMAIN blocks[d] :
          /\ IsDefinition(blocks[d][j], v)
          /\ IF d = b THEN j < i \/ b \notin ReachedWithout(0) ELSE Dominates(d, b)

PhiIsWellFormed(p, b) ==
    LET operands == incoming[p] IN
    /\ {operands[k][2] : k \in DOMAIN operands} = Predecessors(b)
    /\ Len(operands) = Cardinality(Predecessors(b))
    /\ \A k \in DOMAIN operands :
          LET from == operands[k][2] IN Available(operands[k][1], from, Len(blocks[from]) + 1)

VerifierAccepts ==
    /\ \A b \in DOMAIN blocks : Terminated(b)
    /\ \A b \in DOMAIN blocks : \A i \in DOMAIN blocks[b] :
          LET ins == blocks[b][i] IN
          IF ins.op = "phi" THEN PhiIsWellFormed(ins.id, b)
          ELSE \/ ins.op = "br"
               \/ ins.op = "ret" /\ ins.of = Null /\ program.void
               \/ Available(ins.of, b, i)

-----------------------------------------------------------------------------
(* The routines that code generation handles.                              *)

\* The body of the site lies in b.
Within(P, site, b) == b \in Path(P, site[1])
Assignments(P) == {site \in ValidSites(P) : NodeAt(P, site).op = "assign"}
Assigned(P, site) == Resolve(P, site[1], site[2], NodeAt(P, site).ident)

\* The names of scopes around b that the nodes of b change, or of node n of b only.
Changes(P, b) ==
    {name \in {Assigned(P, site) : site \in {t \in Assignments(P) : Within(P, t, b)}} :
        name.scope \in Path(P, b) \ {b}}
BodiesAt(P, b, n) == {c \in DOMAIN P.bodies : P.bodies[c].parent = b /\ P.bodies[c].at = n}
ChangedBy(P, b, n) ==
    UNION {Changes(P, c) : c \in BodiesAt(P, b, n)} \cup
    IF <<b, n>> \in Assignments(P) THEN {Assigned(P, <<b, n>>)} ELSE {}

IsStraight(P, b) == \A c \in DOMAIN P.bodies : P.bodies[c].parent # b
InnerBodies(P) == DOMAIN P.bodies \ {1}

\* No body changes a name of an outer scope with two of its nodes.
ChangesOnce(P) ==
    \A b \in InnerBodies(P) : \A name \in Changes(P, b) :
        Cardinality({n \in DOMAIN Nodes(P, b) : name \in ChangedBy(P, b, n)}) = 1

\* A name that keeps its value on one way through a statement is of the statement's scope.
ChangesOwnNames(P, site) ==
    LET nd == NodeAt(P, site)
        both == IF nd.op = "if" /\ nd.else # 0
                THEN Changes(P, nd.then) \cap Changes(P, nd.else) ELSE {}
    IN nd.op # "assign" =>
           \A name \in ChangedBy(P, site[1], site[2]) \ both : name.scope = site[1]

\* The two branches of an if change the same names.
BranchesAgree(P, site) ==
    LET nd == NodeAt(P, site) IN
    nd.op = "if" /\ nd.else # 0 => Changes(P, nd.then) = Changes(P, nd.else)

\* A false branch that changes a name ends in the block it begins in, and so does a loop.
OneBlock(P, site) ==
    LET nd == NodeAt(P, site) IN
    /\ nd.op = "if" /\ nd.else # 0 /\ Changes(P, nd.else) # {} => IsStraight(P, nd.else)
    /\ nd.op \in {"while", "for"} => IsStraight(P, nd.then)

ForChangesNothing(P, site) ==
    LET nd == NodeAt(P, site) IN nd.op = "for" => Changes(P, nd.then) = {}

\* Parameters and counters keep their values.
AssignsVariables(P) == \A site \in Assignments(P) : Assigned(P, site).at # 0

\* A routine returns at its end, and only there.
ReturnsAtEnd(P) ==
    \A site \in Sites(P) :
        NodeAt(P, site).op = "return" <=> (site = <<1, Len(Nodes(P, 1))>> /\ ~P.void)

HandledBut(P, Rule(_, _)) ==
    /\ Settled(P) /\ ChangesOnce(P) /\ AssignsVariables(P) /\ ReturnsAtEnd(P)
    /\ \A site \in Sites(P) : /\ ChangesOwnNames(P, site)
                              /\ OneBlock(P, site)
                              /\ Rule(P, site)

Handled(P) ==
    HandledBut(P, LAMBDA Q, site : BranchesAgree(Q, site) /\ ForChangesNothing(Q, site))

-----------------------------------------------------------------------------
SameBehaviour == \A oracle \in Oracles : CodeTrace(oracle) = SourceTrace(program, oracle)
Right == VerifierAccepts /\ SameBehaviour

(***************************************************************************)
(* The code of a routine that is handled is accepted by LLVM, and calls,   *)
(* tests and returns what the routine does, with every answer of the       *)
(* conditions.                                                             *)
(***************************************************************************)
HandledRoutinesAreRight == status = "generated" /\ Handled(program) => Right

(***************************************************************************)
(* The comments of Codegen.cpp:445 and 448 promise that names changed in   *)
(* the false branch only are handled: so is every routine that breaks no   *)
(* other rule.                                                             *)
(***************************************************************************)
FalseOnlyChangesAreKept ==
    LET onlyFalse(P, site) ==
            LET nd == NodeAt(P, site) IN
            nd.op = "if" /\ nd.else # 0 => Changes(P, nd.then) = {}
    IN status = "generated" /\
       HandledBut(program, LAMBDA Q, site : onlyFalse(Q, site) /\ ForChangesNothing(Q, site))
       => Right

(***************************************************************************)
(* The comments of Codegen.cpp:575 and 627 promise that the body of a for  *)
(* loop is traced for the names it changes, and that these change in the   *)
(* enclosing scope.                                                        *)
(***************************************************************************)
ForLoopChangesAreKept ==
    status = "generated" /\ HandledBut(program, BranchesAgree) => Right

(***************************************************************************)
(* Tests compile programs and expect llc-9 to accept the module            *)
(* (Test1.cpp:19): so is every routine whose names mean what they say.     *)
(***************************************************************************)
CodeIsAccepted == status = "generated" /\ Settled(program) => VerifierAccepts
=============================================================================

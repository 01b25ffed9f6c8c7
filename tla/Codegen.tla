------------------------------ MODULE Codegen ------------------------------
(***************************************************************************)
(* Code generation of one routine (Codegen.cpp, Operators.cpp): the blocks *)
(* and instructions it makes, the values it keeps for names, and the names *)
(* a body changed that are not its own (fall-through names).               *)
(*                                                                         *)
(* The C++ stack of GenerateScopeBody is stack; what follows a body in the *)
(* function that called it is the kind of its frame.  One step generates   *)
(* one node, or what follows the end of a body.                            *)
(***************************************************************************)
EXTENDS Routines, SequencesExt

CONSTANT Programs    \* the routines that may be compiled

ASSUME ProgramsAssumption == \A P \in Programs : WellFormed(P)

VARIABLES program,      \* the routine
          blocks,       \* its basic blocks, each a sequence of instructions
          incoming,     \* operands of the phi nodes, in the order they were made
          adds,         \* number of additions made
          current,      \* the builder's insertion block, 0 when it is cleared
          valueOf,      \* Name::llvmValueMap, by Name and scope
          fallthrough,  \* Scope::namesFallthroughList
          stack,        \* bodies that are being generated, innermost last
          status        \* "generating", "generated", or the assertion that failed

vars == <<program, blocks, incoming, adds, current, valueOf, fallthrough, stack, status>>

-----------------------------------------------------------------------------
(* LLVM: values, instructions and the builder.                             *)

\* A literal with what was added to it, an argument, or the n-th phi node or addition.
Value(kind, of, n) == [kind |-> kind, of |-> of, n |-> n]
Null == Value("null", "", 0)
Literal(c) == Value("const", c, 0)
Arg(x) == Value("arg", x, 0)
Phi(k) == Value("phi", "", k)
Sum(k) == Value("add", "", k)
One == Value("const", "", 1)

Instruction(op, id, of, to) == [op |-> op, id |-> id, of |-> of, to |-> to]
Br(to) == Instruction("br", 0, Null, <<to>>)
CondBr(of, yes, no) == Instruction("condbr", 0, of, <<yes, no>>)
PhiNodes(from, n) == [k \in 1..n |-> Instruction("phi", from + k, Null, <<>>)]

\* Instructions of a builder without insertion block are in no block.
AppendTo(bs, b, code) == IF b = 0 THEN bs ELSE [bs EXCEPT ![b] = @ \o code]
NewBlocks(bs, n) == bs \o [k \in 1..n |-> <<>>]
\* Mutant: block numbers that begin one too late.
NewBlockLate(k) == Len(blocks) + k + 1
NewBlock(k) == Len(blocks) + k

\* GetInsertBlock at the end of a body.  Mutant: the block the body began in.
FirstBlockOfBody == stack[Len(stack)].first
GetInsertBlock == current

\* Where the first pass over the body of a loop inserts: ClearInsertionPoint.
\* Mutant: the insertion point is not cleared.
StubPointInBody(body) == body
StubPoint(body) == 0

-----------------------------------------------------------------------------
(* Values of names.                                                        *)

\* The values new, and those of old for what new leaves alone.
Over(new, old) ==
    [key \in DOMAIN new \cup DOMAIN old |-> IF key \in DOMAIN new THEN new[key] ELSE old[key]]
SetValue(name, s, v) == Over([key \in {<<name, s>>} |-> v], valueOf)

Get(name, s) == IF <<name, s>> \in DOMAIN valueOf THEN valueOf[<<name, s>>] ELSE Null

\* Mutant: only the scope itself is searched.
ReadNameHere(s, x) ==
    LET name == LookupName(program, s, x)
    IN IF IsParameter(program, name) THEN Arg(x) ELSE Get(name, s)

\* A parameter is always its argument; another name is what the innermost scope has.
ReadName(s, x) ==
    LET name == LookupName(program, s, x)
        known == {t \in Path(program, s) : Get(name, t) # Null}
    IN IF IsParameter(program, name) THEN Arg(x)
       ELSE IF known = {} THEN Null ELSE Get(name, Max(known))

\* The builder folds the addition of literals.
ValueIn(s, e) ==
    IF e.op = "const" THEN Literal(e.of)
    ELSE LET v == ReadName(s, e.of) IN
         IF e.op = "var" THEN v
         ELSE IF v.kind = "const" THEN [v EXCEPT !.n = @ + 1] ELSE Sum(adds + 1)

CodeOf(s, e) ==
    IF e.op = "next" /\ ReadName(s, e.of).kind # "const"
    THEN <<Instruction("add", adds + 1, ReadName(s, e.of), <<>>)>> ELSE <<>>

\* There is no such Name, which is dereferenced, or the search through the
\* scopes ends without a value, which is an assertion.
Unread(s, e) == e.op # "const" /\ ReadName(s, e.of) = Null

\* Generates e in scope s, then code, in block b of bs.
Insert(bs, b, s, e, code) ==
    /\ ~Unread(s, e)
    /\ adds' = adds + Len(CodeOf(s, e))
    /\ blocks' = AppendTo(bs, b, CodeOf(s, e) \o code)

-----------------------------------------------------------------------------
Frame(body, kind) ==
    [body |-> body, at |-> 1, kind |-> kind, begin |-> current, first |-> 0, other |-> 0,
     end |-> 0, tail |-> 0, lo |-> Null, names |-> <<>>, phis |-> 0]

Top == stack[Len(stack)]
Caller == stack[Len(stack) - 1]
scope == Top.body                   \* bodyScope of GenerateScopeBody
node == Nodes(program, scope)[Top.at]

AtNode(op) ==
    /\ status = "generating"
    /\ Top.at <= Len(Nodes(program, scope))
    /\ node.valid /\ node.op = op

AtEnd(kind) ==
    /\ status = "generating"
    /\ Top.at > Len(Nodes(program, scope))
    /\ Top.kind = kind

\* The statement whose body has just been generated, and its scope.
Statement == Nodes(program, Caller.body)[Caller.at]
outer == Caller.body

NextNode == stack' = [stack EXCEPT ![Len(stack)].at = @ + 1]
Again(frame) == stack' = [stack EXCEPT ![Len(stack)] = frame]
Call(frame) == stack' = Append(stack, frame)
ReturnToCaller == stack' = [Front(stack) EXCEPT ![Len(stack) - 1].at = @ + 1]

Fail(assertion) ==
    /\ status' = assertion
    /\ UNCHANGED <<program, blocks, incoming, adds, current, valueOf, fallthrough, stack>>

-----------------------------------------------------------------------------
(* Nodes without bodies.                                                   *)

SkipInvalidNode ==
    /\ status = "generating"
    /\ Top.at <= Len(Nodes(program, scope)) /\ ~node.valid
    /\ NextNode
    /\ UNCHANGED <<program, blocks, incoming, adds, current, valueOf, fallthrough, status>>

GenerateVariable ==
    /\ AtNode("var")
    /\ Insert(blocks, current, scope, node.e, <<>>)
    /\ valueOf' = SetValue(Name(scope, Top.at, node.ident), scope, ValueIn(scope, node.e))
    /\ NextNode
    /\ UNCHANGED <<program, incoming, current, fallthrough, status>>

\* A name that is not the scope's own falls through, once for each assignment.
InsertLLVMAssignment ==
    LET name == LookupName(program, scope, node.ident) IN
    /\ AtNode("assign")
    /\ Insert(blocks, current, scope, node.e, <<>>)
    /\ valueOf' = SetValue(name, scope, ValueIn(scope, node.e))
    /\ fallthrough' = IF name.scope = scope THEN fallthrough
                      ELSE [fallthrough EXCEPT ![scope] = Append(@, name)]
    /\ NextNode
    /\ UNCHANGED <<program, incoming, current, status>>

GenerateCall ==
    /\ AtNode("print")
    /\ Insert(blocks, current, scope, node.e,
              <<Instruction("call", 0, ValueIn(scope, node.e), <<>>)>>)
    /\ NextNode
    /\ UNCHANGED <<program, incoming, current, valueOf, fallthrough, status>>

GenerateReturnStatement ==
    /\ AtNode("return")
    /\ Insert(blocks, current, scope, node.e,
              <<Instruction("ret", 0, ValueIn(scope, node.e), <<>>)>>)
    /\ NextNode
    /\ UNCHANGED <<program, incoming, current, valueOf, fallthrough, status>>

-----------------------------------------------------------------------------
(* What the statements with bodies do with the names that fall through.    *)

\* Mutant: the parents are not searched.
NameToFallHere(s, name) == TableEntry(program, s, name.ident)

\* The Name that scope s finds under the identifier of name.
NameToFall(s, name) == LookupName(program, s, name.ident)

\* The last of the phi nodes from + 1, from + 2, ... made for names that is for name.
PhiOf(names, from, name) == Phi(from + Max({k \in DOMAIN names : names[k] = name}))

\* Gives every one of names its value of values in scope s.
SetValues(s, names, values) ==
    [key \in {<<NameToFall(s, name), s>> : name \in ToSet(names)} |->
        values[CHOOSE name \in ToSet(names) : NameToFall(s, name) = key[1]]]

PhisOf(names, from) == [name \in ToSet(names) |-> PhiOf(names, from, name)]
ValuesOf(names, s) == [name \in ToSet(names) |-> Get(name, s)]

\* The entries of names that are in S, in their order.
Those(names, S) ==
    LET those[k \in 0..Len(names)] ==
            IF k = 0 THEN <<>>
            ELSE IF names[k] \in S THEN Append(those[k - 1], names[k]) ELSE those[k - 1]
    IN those[Len(names)]

\* Mutant: names of the scope fall through it.
FallThroughAll(s, names) == [fallthrough EXCEPT ![s] = @ \o names]

\* Names that are not declared in s fall through it as well.
FallThrough(s, names) ==
    [fallthrough EXCEPT ![s] =
        @ \o Those(names, {name \in ToSet(names) : TableEntry(program, s, name.ident) = NoName})]

-----------------------------------------------------------------------------
(* GenerateIfStatement.                                                    *)

BeginIf ==
    /\ AtNode("if")
    /\ LET true == NewBlock(1)
           end == NewBlock(2)
           false == NewBlock(3)
           count == IF node.else = 0 THEN 2 ELSE 3
           no == IF node.else = 0 THEN end ELSE false
       IN /\ Insert(NewBlocks(blocks, count), current, scope, node.e,
                    <<CondBr(ValueIn(scope, node.e), true, no)>>)
          /\ Call([Frame(node.then, "true")
                   EXCEPT !.first = true, !.end = end, !.other = no])
          /\ current' = true
    /\ UNCHANGED <<program, incoming, valueOf, fallthrough, status>>

BeginElse ==
    /\ AtEnd("true") /\ Statement.else # 0
    /\ blocks' = AppendTo(blocks, current, <<Br(Top.end)>>)
    /\ Again([Top EXCEPT !.body = Statement.else, !.at = 1, !.kind = "false", !.tail = GetInsertBlock])
    /\ current' = Top.other
    /\ UNCHANGED <<program, incoming, adds, valueOf, fallthrough, status>>

\* The names of the true branch that only the false branch has changed: the
\* second loop over trueCallbacksList, which looks for them in the wrong list.
FalseOnly(trueNames, falseNames) ==
    Those(trueNames, {name \in ToSet(trueNames) : name \notin ToSet(trueNames)})

(***************************************************************************)
(* A phi node for every entry of the true branch's list.  The value before *)
(* the statement is that of the enclosing scope itself, and the phi of an  *)
(* earlier entry for the same name has already replaced it.                *)
(***************************************************************************)
JoinOperands(names, nTrue, endTrue, endFalse) ==
    LET trueScope == Statement.then
        falseScope == Statement.else
        inFalse == IF falseScope = 0 THEN {} ELSE ToSet(fallthrough[falseScope])
        from == Len(incoming)
        parentValue(k) ==
            IF names[k] \in {names[j] : j \in 1..(k - 1)}
            THEN PhiOf(SubSeq(names, 1, k - 1), from, names[k]) ELSE Get(names[k], outer)
        operands(k) ==
            IF k > nTrue
            THEN <<<<parentValue(k), Top.begin>>, <<Get(names[k], falseScope), endFalse>>>>
            ELSE IF names[k] \in inFalse
            THEN <<<<Get(names[k], trueScope), endTrue>>,
                   <<Get(names[k], falseScope), Top.other>>>>
            ELSE <<<<parentValue(k), Top.begin>>, <<Get(names[k], trueScope), endTrue>>>>
    IN [k \in DOMAIN names |-> operands(k)]

Join(endTrue, endFalse) ==
    LET trueNames == fallthrough[Statement.then]
        falseNames == IF Statement.else = 0 THEN <<>> ELSE fallthrough[Statement.else]
        names == trueNames \o FalseOnly(trueNames, falseNames)
        from == Len(incoming)
    IN IF \E name \in ToSet(names) : \/ NameToFall(outer, name) # name
                                     \/ Statement.else # 0 /\ Get(name, Statement.then) = Null
       THEN Fail("join")
       ELSE /\ incoming' = incoming \o JoinOperands(names, Len(trueNames), endTrue, endFalse)
            /\ blocks' = AppendTo(AppendTo(blocks, current, <<Br(Top.end)>>),
                                  Top.end, PhiNodes(from, Len(names)))
            /\ valueOf' = Over(SetValues(outer, names, PhisOf(names, from)), valueOf)
            /\ fallthrough' = FallThrough(outer, names)
            /\ current' = Top.end
            /\ ReturnToCaller
            /\ UNCHANGED <<program, adds, status>>

EndIf ==
    \/ AtEnd("true") /\ Statement.else = 0 /\ Join(GetInsertBlock, 0)
    \/ AtEnd("false") /\ Join(Top.tail, GetInsertBlock)

-----------------------------------------------------------------------------
(* GenerateWhileLoop.                                                      *)

\* The body is first generated without insertion block, to learn what it changes.
BeginWhile ==
    /\ AtNode("while")
    /\ LET expression == NewBlock(1)
           body == NewBlock(2)
           end == NewBlock(3)
       IN /\ blocks' = AppendTo(NewBlocks(blocks, 3), current, <<Br(expression)>>)
          /\ Call([Frame(node.then, "stub")
                   EXCEPT !.first = body, !.other = expression, !.end = end])
          /\ current' = StubPoint(body)
    /\ UNCHANGED <<program, incoming, adds, valueOf, fallthrough, status>>

\* The phi nodes before the condition, which is read in the scope of the body.
PhisOfWhile ==
    LET names == fallthrough[scope]
        from == Len(incoming)
    IN /\ AtEnd("stub")
       /\ incoming' = incoming \o
              [k \in DOMAIN names |-> <<<<Get(names[k], outer), Top.begin>>>>]
       /\ valueOf' = Over(SetValues(scope, names, PhisOf(names, from)), valueOf)
       /\ blocks' = AppendTo(blocks, Top.other, PhiNodes(from, Len(names)))
       /\ Again([Top EXCEPT !.kind = "condition", !.names = names, !.phis = from])
       /\ UNCHANGED <<program, adds, current, fallthrough, status>>

ConditionOfWhile ==
    /\ AtEnd("condition")
    /\ Insert(blocks, Top.other, scope, Statement.e,
              <<CondBr(ValueIn(scope, Statement.e), Top.first, Top.end)>>)
    /\ Again([Top EXCEPT !.kind = "while", !.at = 1])
    /\ current' = Top.first
    /\ UNCHANGED <<program, incoming, valueOf, fallthrough, status>>

\* The value of a name after a loop is that of its phi node.
LeaveLoop(names, from, vals, falls) ==
    /\ valueOf' = Over(SetValues(outer, names, PhisOf(names, from)), vals)
    /\ fallthrough' =
          [falls EXCEPT ![outer] = FallThrough(outer, names)[outer]]
    /\ current' = Top.end
    /\ ReturnToCaller

\* The phi node of a name gets the same operand once for each entry of names.
AddOperands(names, from, values, block) ==
    [p \in DOMAIN incoming |->
        LET own == Those(names, {name \in ToSet(names) : PhiOf(names, from, name) = Phi(p)})
        IN incoming[p] \o [k \in DOMAIN own |-> <<values[own[k]], block>>]]

EndWhile ==
    /\ AtEnd("while")
    /\ incoming' = AddOperands(Top.names, Top.phis, ValuesOf(Top.names, scope), Top.first)
    /\ blocks' = AppendTo(blocks, current, <<Br(Top.other)>>)
    /\ LeaveLoop(Top.names, Top.phis,
                 Over(SetValues(scope, Top.names, ValuesOf(Top.names, scope)), valueOf),
                 FallThrough(scope, Top.names))
    /\ UNCHANGED <<program, adds, status>>

-----------------------------------------------------------------------------
(* GenerateForLoop.                                                        *)

CounterName(b) == LookupName(program, b, program.bodies[b].counter)

BeginFor ==
    /\ AtNode("for")
    /\ LET body == NewBlock(1)
           end == NewBlock(2)
       IN /\ Insert(NewBlocks(blocks, 2), current, scope, node.e, <<Br(body)>>)
          /\ Call([Frame(node.then, "forStub")
                   EXCEPT !.first = body, !.end = end, !.lo = ValueIn(scope, node.e)])
          /\ current' = StubPoint(body)
    /\ valueOf' = SetValue(CounterName(node.then), node.then, One)
    /\ UNCHANGED <<program, incoming, fallthrough, status>>

(***************************************************************************)
(* The phi nodes take the values that the first pass left in the scope of  *)
(* the body, and the second pass starts from these values.                 *)
(***************************************************************************)
PhisOfFor ==
    LET names == fallthrough[scope]
        from == Len(incoming)
        counterPhi == Phi(from + Len(names) + 1)
        operands(name) == <<<<Get(name, outer), Top.begin>>, <<Get(name, scope), Top.first>>>>
    IN /\ AtEnd("forStub")
       /\ incoming' = incoming \o [k \in DOMAIN names |-> operands(names[k])]
                               \o <<<<<<Top.lo, Top.begin>>>>>>
       /\ blocks' = AppendTo(blocks, Top.first, PhiNodes(from, Len(names) + 1))
       /\ valueOf' = Over([key \in {<<CounterName(scope), scope>>} |-> counterPhi],
                           Over(SetValues(scope, names, ValuesOf(names, scope)), valueOf))
       /\ fallthrough' = FallThrough(scope, names)
       /\ Again([Top EXCEPT !.kind = "for", !.at = 1, !.names = names, !.phis = from])
       /\ current' = Top.first
       /\ UNCHANGED <<program, adds, status>>

EndFor ==
    LET counter == Top.phis + Len(Top.names) + 1
        step == Sum(adds + 1)
    IN /\ AtEnd("for")
       /\ incoming' = [incoming EXCEPT ![counter] = Append(@, <<step, Top.first>>)]
       /\ blocks' = AppendTo(blocks, current,
                             <<Instruction("add", adds + 1, Phi(counter), <<>>),
                               CondBr(step, Top.end, Top.first)>>)
       /\ adds' = adds + 1
       /\ LeaveLoop(Top.names, Top.phis, valueOf, fallthrough)
       /\ UNCHANGED <<program, status>>

-----------------------------------------------------------------------------
\* Reading a name that is not there or has no value ends the process.
ReadFails ==
    /\ \/ \E op \in {"var", "assign", "print", "return", "if", "for"} :
             AtNode(op) /\ Unread(scope, node.e)
       \/ AtEnd("condition") /\ Unread(scope, Statement.e)
    /\ Fail("unread")

EndRoutine ==
    /\ AtEnd("routine")
    /\ blocks' = IF program.void
                 THEN AppendTo(blocks, current, <<Instruction("ret", 0, Null, <<>>)>>)
                 ELSE blocks
    /\ status' = "generated"
    /\ UNCHANGED <<program, incoming, adds, current, valueOf, fallthrough, stack>>

Init ==
    /\ program \in Programs /\ Accepted(program)
    /\ blocks = <<<<>>>>
    /\ incoming = <<>>
    /\ adds = 0
    /\ current = 1
    /\ valueOf = <<>>
    /\ fallthrough = [b \in DOMAIN program.bodies |-> <<>>]
    /\ stack = <<Frame(1, "routine")>>
    /\ status = "generating"

Next ==
    \/ SkipInvalidNode \/ GenerateVariable \/ InsertLLVMAssignment
    \/ GenerateCall \/ GenerateReturnStatement
    \/ BeginIf \/ BeginElse \/ EndIf
    \/ BeginWhile \/ PhisOfWhile \/ ConditionOfWhile \/ EndWhile
    \/ BeginFor \/ PhisOfFor \/ EndFor
    \/ ReadFails \/ EndRoutine

-----------------------------------------------------------------------------
Statuses == {"generating", "generated", "unread", "join"}
FrameKinds == {"routine", "true", "false", "stub", "condition", "while", "forStub", "for"}
ValueKinds == {"null", "const", "arg", "phi", "add"}

Scopes == DOMAIN program.bodies
IsName(name) ==
    /\ DOMAIN name = {"scope", "at", "ident"}
    /\ name.scope \in Scopes /\ name.at \in 0..Len(Nodes(program, name.scope))
    /\ Declares(program, name.scope, name.at, name.ident)
IsValue(v) ==
    /\ DOMAIN v = {"kind", "of", "n"} /\ v.kind \in ValueKinds
    /\ v.kind = "phi" => v.n \in DOMAIN incoming
    /\ v.kind = "add" => v.n \in 1..adds
IsBlock(b) == b \in DOMAIN blocks

\* Names, values and blocks that the generator keeps are ones that are there.
TypeOK ==
    /\ status \in Statuses /\ adds \in Nat
    /\ IsBlock(current) \/ current = 0
    /\ \A b \in DOMAIN blocks : \A i \in DOMAIN blocks[b] :
          /\ IsValue(blocks[b][i].of)
          /\ \A to \in ToSet(blocks[b][i].to) : IsBlock(to)
    /\ \A p \in DOMAIN incoming : \A k \in DOMAIN incoming[p] :
          IsValue(incoming[p][k][1]) /\ (IsBlock(incoming[p][k][2]) \/ incoming[p][k][2] = 0)
    /\ \A key \in DOMAIN valueOf :
          IsName(key[1]) /\ key[2] \in Scopes /\ IsValue(valueOf[key])
    /\ \A s \in Scopes : \A name \in ToSet(fallthrough[s]) : IsName(name)
    /\ stack # <<>> /\ \A f \in ToSet(stack) :
          /\ f.body \in Scopes /\ f.kind \in FrameKinds
          /\ f.at \in 1..(Len(Nodes(program, f.body)) + 1)

(***************************************************************************)
(* The names that fall through a scope are declared around it, are what    *)
(* its lookups find, and have a value in it: what the code that merges     *)
(* them takes for granted.                                                 *)
(***************************************************************************)
FallThroughIsKnown ==
    \A s \in Scopes : \A name \in ToSet(fallthrough[s]) :
        /\ name.scope \in Path(program, s) \ {s}
        /\ LookupName(program, s, name.ident) = name
        /\ Get(name, s) # Null

\* The assertions of GenerateIfStatement (Codegen.cpp:402 and 430) never fail.
JoinNeverFails == status # "join"

(***************************************************************************)
(* If the finished tables mean what the semantic pass found and no typed   *)
(* declaration reads what is not there, every variable that is read has a  *)
(* value: the assertion of Operators.cpp:401 does not fail.                *)
(***************************************************************************)
ReadsFindValues == status = "unread" => ~Settled(program) \/ ~Initialised(program)

\* The phi nodes of a block come before its other instructions, as LLVM requires.
PhiNodesLead ==
    \A b \in DOMAIN blocks : \A i \in 2..Len(blocks[b]) :
        blocks[b][i].op = "phi" => blocks[b][i - 1].op = "phi"

\* GenerateFunctionDeclaration runs to its end: nothing else runs in the process.
Spec == Init /\ [][Next]_vars
=============================================================================

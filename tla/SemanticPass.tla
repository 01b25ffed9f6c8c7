---------------------------- MODULE SemanticPass ----------------------------
(***************************************************************************)
(* RunSemanticPass (src/src/SemanticPass.cpp): the walk over the program   *)
(* that fills the symbol tables, traces types and marks the nodes code     *)
(* generation must skip.                                                   *)
(*                                                                         *)
(* The program is not fixed: at every point the environment supplies the   *)
(* next node of the tree, so a behaviour is the walk over one program.     *)
(* stack is the C++ call stack of ProcessBodyElements: the bodies that are *)
(* being walked, with the scope of each.                                   *)
(***************************************************************************)
EXTENDS TypeTrace

CONSTANTS
    Declared,    \* identifiers the program declares as variables
    Routines,    \* identifiers it declares as routines
    TypeIdents,  \* identifiers it writes where a type is expected
    NoIdent,     \* an absent return type
    Exprs,       \* expressions of the program
    TypeDefs,    \* its type declarations: identifier, form and part types
    ParamLists   \* parameter lists of its routines

Param == [ident : Idents, type : Idents]
\* An alias names one base type and an array one element type.
TypeDef == {def \in [ident : Idents, kind : TypeKinds \ {"native"}, parts : SUBSET Idents] :
               def.kind = "record" \/ \E y \in Idents : def.parts = {y}}
BodyKinds == {"routine", "then", "else", "for", "while"}

ASSUME ProgramAssumption ==
    /\ Declared \subseteq Idents
    /\ Routines \subseteq Idents
    /\ TypeIdents \subseteq Idents
    /\ \A e \in Exprs : Reads(e) \subseteq Idents
    /\ TypeDefs \subseteq TypeDef
    /\ ParamLists \subseteq Seq(Param)

VARIABLES
    stack,            \* the bodies being walked, the outermost first
    currentFunction,
    reported,         \* ReportSemanticError has been called
    status,           \* "running", "finished", or "aborted" (the process ended)
    uses              \* history: the variables that valid nodes refer to

vars == <<tableVars, stack, currentFunction, reported, status, uses>>

InRoutine == stack # <<>>
Walking == status = "running"

-----------------------------------------------------------------------------
(* What a node leaves behind.                                              *)

\* The slip of resolving in the global scope.
UseOfGlobal(x, s) ==
    [ident |-> x, name |-> LookupName(Global, x), scope |-> s, clock |-> nNames]

(***************************************************************************)
(* An occurrence of x that the tables resolve now, for code that is        *)
(* generated in scope s.  clock tells the declarations that came before.   *)
(***************************************************************************)
UseOf(x, s) ==
    [ident |-> x, name |-> LookupName(currentScope, x), scope |-> s, clock |-> nNames]

RecordUses(X, s) == uses' = uses \cup {UseOf(x, s) : x \in X}

\* ASSERT failure or null dereference: nothing runs after it.
AbortProcess ==
    /\ status' = "aborted"
    /\ UNCHANGED <<tableVars, stack, currentFunction, reported, uses>>

\* The node returned -1: an error is printed and code generation skips the node.
SkipNode ==
    /\ reported' = TRUE
    /\ UNCHANGED <<tableVars, stack, currentFunction, status, uses>>

-----------------------------------------------------------------------------
(* ProcessSimpleDeclaration.                                               *)

(***************************************************************************)
(* A variable of global scope: getOwnerScope of the global table is        *)
(* nullptr and NameTable::defineName dereferences it.                      *)
(***************************************************************************)
DeclareGlobalVariable ==
    /\ Walking /\ ~InRoutine
    /\ AbortProcess

(***************************************************************************)
(* var x : T is e.  The name is defined first and e is traced after it,    *)
(* its failure ignored; e is never cast to T.  var x : T gets a constant   *)
(* of its native type for e, which reads nothing and cannot fail.          *)
(***************************************************************************)
DeclareTypedVariable(x, T, e) ==
    /\ Walking /\ InRoutine
    /\ IF LookupType(currentScope, T) = NoTypeId
       THEN \E t \in RunTypeTrace(e, FALSE) : IF t = Abort THEN AbortProcess ELSE SkipNode
       ELSE /\ DefineName(currentScope, x, LookupType(currentScope, T))
            /\ UNCHANGED <<scopeVars, typeVars, funcMap, currentScope, stack, currentFunction>>
            /\ uses' = uses \cup {UseOf(y, currentScope)' : y \in Reads(e)}
            /\ \E t \in RunTypeTrace(e, FALSE)' :
                  /\ reported' = (reported \/ t = NoTypeId)
                  /\ status' = IF t = Abort THEN "aborted" ELSE status

(***************************************************************************)
(* var x is e: the type of e is the type of x.                             *)
(***************************************************************************)
DeclareInferredVariable(x, e) ==
    /\ Walking /\ InRoutine
    /\ \E t \in RunTypeTrace(e, FALSE) :
          \/ t = Abort /\ AbortProcess
          \/ t # Abort /\ ~TypeIsVisible(currentScope, t) /\ SkipNode
          \/ /\ TypeIsVisible(currentScope, t)
             /\ DefineName(currentScope, x, t)
             /\ RecordUses(Reads(e), currentScope)
             /\ UNCHANGED <<scopeVars, typeVars, funcMap, currentScope>>
             /\ UNCHANGED <<stack, currentFunction, reported, status>>

(***************************************************************************)
(* type T is ...  An unknown base type of an alias fails the declaration;  *)
(* an unknown element or member type is dereferenced.  The parser already  *)
(* asks a record of a body for its type id (Body::addNode): its members    *)
(* are then looked up in tables that hold no type but the native ones.     *)
(* The parts are types with names; anonymous ones, and the size of an      *)
(* array with its trace and cast, are in TypedProgram.                     *)
(***************************************************************************)
DeclareType(def) ==
    LET parts == {LookupType(currentScope, y) : y \in def.parts}
        tooEarly == /\ InRoutine /\ def.kind = "record"
                    /\ ~(def.parts \subseteq {Builtin[t] : t \in Natives})
    IN
    /\ Walking
    /\ \/ /\ tooEarly \/ (NoTypeId \in parts /\ def.kind # "alias")
          /\ AbortProcess
       \/ NoTypeId \in parts /\ def.kind = "alias" /\ SkipNode
       \/ /\ NoTypeId \notin parts /\ ~tooEarly
          /\ DefineType(currentScope, def.ident, def.kind, parts)
          /\ UNCHANGED <<scopeVars, nameVars, funcMap, currentScope>>
          /\ UNCHANGED <<stack, currentFunction, reported, status, uses>>

-----------------------------------------------------------------------------
(* ProcessRoutineDeclaration.                                              *)

\* The Names of a routine's parameters; of equal identifiers the last stays.
ParamNames(params) ==
    [x \in Idents |->
        LET at == {i \in DOMAIN params : params[i].ident = x} IN
        IF at = {} THEN NoName
        ELSE NewName(nNames + Innermost(at), x,
                     LookupType(Global, params[Innermost(at)].type), TRUE)]

(***************************************************************************)
(* The routine and its scope are created before the checks; a refused      *)
(* routine is a nullptr that the caller dereferences.                      *)
(***************************************************************************)
OpenRoutine(f, params, R) ==
    LET paramTypes == [i \in DOMAIN params |-> LookupType(Global, params[i].type)]
        func == [scope |-> NextScope, params |-> paramTypes,
                 ret |-> IF R = NoIdent THEN VOID ELSE LookupType(Global, R)]
        refused == \/ \E i \in DOMAIN params : paramTypes[i] = NoTypeId
                   \/ LookupType(Global, f) # NoTypeId
                   \/ LookupName(Global, f) # NoName
    IN
    /\ Walking /\ ~InRoutine
    /\ IF refused THEN AbortProcess
       ELSE /\ nNames + Len(params) <= MaxNames
            /\ nNames' = nNames + Len(params)
            /\ EnterInnerScope(ParamNames(params))
            /\ funcMap' = [funcMap EXCEPT ![f] = func]
            /\ currentFunction' = func
            /\ stack' = <<[kind |-> "routine", scope |-> NextScope]>>
            /\ reported' = (reported \/ func.ret = NoTypeId)
            /\ UNCHANGED <<typeVars, status, uses>>

-----------------------------------------------------------------------------
(* Statements.                                                             *)

\* A statement without a body: valid, skipped, or the end of the process.
SimpleStatement(outcomes, X) ==
    /\ Walking /\ InRoutine
    /\ \E t \in outcomes :
          \/ t = Abort /\ AbortProcess
          \/ t = NoTypeId /\ SkipNode
          \/ /\ t \notin {Abort, NoTypeId}
             /\ RecordUses(X, currentScope)
             /\ UNCHANGED <<tableVars, stack, currentFunction, reported, status>>

Assign(x, e) == SimpleStatement(AssignmentOutcomes(x, e), {x} \cup Reads(e))

\* ProcessExpressionStatement of a call, with isSingleCallStatement set.
CallStatement(e) == e.kind = "call" /\ SimpleStatement(RunTypeTrace(e, TRUE), Reads(e))

Return(e) == SimpleStatement(ReturnOutcomes(currentFunction.ret, e), Reads(e))

\* Create and enter the scope of a body of the statement being processed.
OpenBody(kind, names) ==
    /\ EnterInnerScope(names)
    /\ stack' = Append(stack, [kind |-> kind, scope |-> NextScope])
    /\ UNCHANGED <<typeVars, funcMap, currentFunction, reported, status>>

\* The outcomes of the operands that decide whether the body is walked at all.
BlockStatement(outcomes, body) ==
    /\ Walking /\ InRoutine
    /\ \E t \in outcomes :
          \/ t = Abort /\ AbortProcess
          \/ t = NoTypeId /\ SkipNode
          \/ t \notin {Abort, NoTypeId} /\ body

Condition(e) == {Coerce(t, BOOL) : t \in RunTypeTrace(e, FALSE)}
Bound(e) == {Coerce(t, INT) : t \in RunTypeTrace(e, FALSE)}

OpenIf(e) ==
    BlockStatement(Condition(e),
        /\ OpenBody("then", EmptyNames)
        /\ RecordUses(Reads(e), currentScope)
        /\ UNCHANGED nNames)

(***************************************************************************)
(* The condition is traced in the enclosing scope, but GenerateWhileLoop   *)
(* inserts it in the scope of the body.                                    *)
(***************************************************************************)
OpenWhile(e) ==
    BlockStatement(Condition(e),
        /\ OpenBody("while", EmptyNames)
        /\ RecordUses(Reads(e), NextScope)
        /\ UNCHANGED nNames)

(***************************************************************************)
(* The counter is a Name of the body's scope, which code generation looks  *)
(* up again by its identifier.  hi is not traced when lo fails.            *)
(***************************************************************************)
OpenFor(x, lo, hi) ==
    LET counter == NewName(nNames + 1, x, INT, FALSE)
        counterUse == [ident |-> x, name |-> counter, scope |-> NextScope, clock |-> nNames + 1]
    IN BlockStatement((Bound(lo) \cap {NoTypeId, Abort})
                         \cup (IF INT \in Bound(lo) THEN Bound(hi) ELSE {}),
           /\ nNames < MaxNames
           /\ nNames' = nNames + 1
           /\ OpenBody("for", [EmptyNames EXCEPT ![x] = counter])
           /\ uses' = uses \cup {counterUse}
                           \cup {UseOf(y, currentScope) : y \in Reads(lo) \cup Reads(hi)})

-----------------------------------------------------------------------------
Top == stack[Len(stack)]

\* The end of a body, when the statement has no other.
CloseBody ==
    /\ Walking /\ InRoutine
    /\ ExitCurrentScope
    /\ stack' = SubSeq(stack, 1, Len(stack) - 1)
    /\ UNCHANGED <<scopeVars, nameVars, typeVars, funcMap, currentFunction, reported, status, uses>>

\* The end of a true body that is followed by a false body.
OpenElse ==
    LET enclosing == parent[currentScope] IN
    /\ Walking /\ InRoutine /\ Top.kind = "then"
    /\ AttachScope(enclosing, EmptyNames)
    /\ currentScope' = NextScope
    /\ stack' = [stack EXCEPT ![Len(stack)] = [kind |-> "else", scope |-> NextScope]]
    /\ UNCHANGED <<nNames, typeVars, funcMap, currentFunction, reported, status, uses>>

EndProgram ==
    /\ Walking /\ ~InRoutine
    /\ status' = "finished"
    /\ UNCHANGED <<tableVars, stack, currentFunction, reported, uses>>

-----------------------------------------------------------------------------
Init ==
    /\ InitTables
    /\ stack = <<>>
    /\ currentFunction = NoFunc
    /\ reported = FALSE
    /\ status = "running"
    /\ uses = {}

Declaration ==
    \/ DeclareGlobalVariable
    \/ \E x \in Declared, T \in TypeIdents, e \in Exprs : DeclareTypedVariable(x, T, e)
    \/ \E x \in Declared, e \in Exprs : DeclareInferredVariable(x, e)
    \/ \E def \in TypeDefs : DeclareType(def)

RoutineDeclaration ==
    \E f \in Routines, params \in ParamLists, R \in TypeIdents \cup {NoIdent} :
        OpenRoutine(f, params, R)

Statement ==
    \/ \E x \in Declared, e \in Exprs : Assign(x, e)
    \/ \E e \in Exprs : CallStatement(e)
    \/ \E e \in Exprs : Return(e)
    \/ \E e \in Exprs : OpenIf(e)
    \/ \E e \in Exprs : OpenWhile(e)
    \/ \E x \in Declared, lo \in Exprs, hi \in Exprs : OpenFor(x, lo, hi)

Next == Declaration \/ RoutineDeclaration \/ Statement \/ OpenElse \/ CloseBody \/ EndProgram

Spec == Init /\ [][Next]_vars

-----------------------------------------------------------------------------
Frame == [kind : BodyKinds, scope : Scopes]
Occurrence == [ident : Idents, name : Name \cup {NoName}, scope : Scopes, clock : 0 .. MaxNames]

\* Every variable stays in its domain.
TypeOK ==
    /\ TablesTypeOK
    /\ stack \in Seq(Frame)
    /\ currentFunction \in Func \cup {NoFunc}
    /\ reported \in BOOLEAN
    /\ status \in {"running", "finished", "aborted"}
    /\ uses \in SUBSET Occurrence

\* The scope of the i-th of some open bodies, counting the program itself as body 0.
BodyScope(bodies, i) == IF i = 0 THEN Global ELSE bodies[i].scope

(***************************************************************************)
(* EnterScope and ExitCurrentScope stay paired on every way through the    *)
(* statements: the current scope is the scope of the innermost open body,  *)
(* and a lookup from it visits exactly the scopes of the open bodies, each *)
(* nested in the one before it.                                            *)
(***************************************************************************)
ScopeDiscipline ==
    /\ currentScope = BodyScope(stack, Len(stack))
    /\ path[currentScope] = {BodyScope(stack, i) : i \in 0 .. Len(stack)}
    /\ \A i \in 1 .. Len(stack) :
          /\ parent[stack[i].scope] = BodyScope(stack, i - 1)
          /\ BodyScope(stack, i - 1) < stack[i].scope

(***************************************************************************)
(* lookupName's recursion over the parent tables finds, from every scope,  *)
(* the declaration of the innermost enclosing scope that has one.          *)
(***************************************************************************)
LookupIsParentWalk ==
    \A s \in 1 .. nScopes, x \in Idents : LookupName(s, x) = ParentWalk(s, x)

\* The type ids that the tables of scope s hold.
TypesInTables(s) ==
    ({typeNameMap[s][x] : x \in Idents} \ {NoTypeId})
       \cup {n.type : n \in {nameMap[s][x] : x \in Idents} \ {NoName}}

(***************************************************************************)
(* A type that a scope's tables hold is complete there: the walk over its  *)
(* base types by id, started in that scope or in any scope inside it,      *)
(* never meets the "logic error" of FindNativeBaseType.                    *)
(***************************************************************************)
NativeBaseExists ==
    \A s \in 1 .. nScopes : \A t \in TypesInTables(s) :
        \A inner \in {c \in 1 .. nScopes : s \in path[c]} :
            FindNativeBaseType(inner, t) # UnknownType

(***************************************************************************)
(* A return statement is checked against the routine whose body it is in,  *)
(* and every routine a call can reach has a scope directly inside the      *)
(* global one and parameter types that a caller anywhere can look up.      *)
(***************************************************************************)
RoutinesWellFormed ==
    /\ InRoutine => currentFunction.scope = stack[1].scope
    /\ \A f \in Idents : LET func == funcMap[f] IN func # NoFunc =>
          /\ func.scope # 0 => parent[func.scope] = Global
          /\ \A i \in DOMAIN func.params : TypeIsVisible(Global, func.params[i])

(***************************************************************************)
(* Code generation resolves every identifier again, by name, against the   *)
(* finished tables.  It can reach another declaration than the one the     *)
(* semantic pass type-checked only when a scope it looks through gained a  *)
(* declaration of the identifier after the occurrence.                     *)
(***************************************************************************)
OnlyLaterDeclarationsRebind ==
    \A u \in uses : LookupName(u.scope, u.ident) # u.name =>
        \E a \in path[u.scope] :
            nameMap[a][u.ident] # NoName /\ nameMap[a][u.ident].serial > u.clock

(***************************************************************************)
(* The comment of ReportSemanticError: it prints the problem "and exits    *)
(* from the compiler with code 1".                                         *)
(***************************************************************************)
ReportedErrorExits == reported => status = "aborted"

(***************************************************************************)
(* The tables of a scope change only while it is the current scope: a body *)
(* that was walked is left to code generation as its walk left it.         *)
(***************************************************************************)
OnlyCurrentScopeChanges ==
    [][\A s \in 1 .. nScopes : s # currentScope =>
          nameMap'[s] = nameMap[s] /\ typeNameMap'[s] = typeNameMap[s]]_vars

(***************************************************************************)
(* The precondition EnterScope documents and does not check (the entered   *)
(* scope "should have current scope as one of ancestors"), for all its     *)
(* callers: the current scope changes to its parent, or to a scope that    *)
(* was just created below the open ones.                                   *)
(***************************************************************************)
EnterScopePrecondition ==
    [][currentScope' # currentScope =>
          \/ currentScope' = parent[currentScope]
          \/ /\ currentScope' > nScopes
             /\ path'[currentScope'] \ {currentScope'} \subseteq path[currentScope]]_vars

-----------------------------------------------------------------------------
(***************************************************************************)
(* The frames of the abstract environment are the name tables of the open  *)
(* bodies, and its answers what the pass resolved.                         *)
(***************************************************************************)
OpenFrames == [i \in 1 .. Len(stack) + 1 |-> nameMap[BodyScope(stack, i - 1)]]
Resolved == {[ident |-> u.ident, name |-> u.name] : u \in uses}

Env == INSTANCE LexicalEnv WITH Names <- Name, env <- OpenFrames, answers <- Resolved

(***************************************************************************)
(* The scope tree with its parent walk implements a lexical environment:   *)
(* what a name means never depends on a body that is closed.               *)
(***************************************************************************)
IsLexicalEnv == Env!Spec
=============================================================================

---------------------------- MODULE TypedProgram ----------------------------
(***************************************************************************)
(* The types of a program from the parser to LLVM: a program of types, a   *)
(* routine "f" with a parameter "p", its local types and variables and a   *)
(* few statements goes through what the parser already declares, the       *)
(* semantic pass (src/src/SemanticPass.cpp) and code generation            *)
(* (src/src/Codegen.cpp).  A position in the current list, at, makes one   *)
(* step of each of their loops one action, and so does the stack of calls  *)
(* of TypeTable::defineType for the types inside a type.                   *)
(***************************************************************************)
EXTENDS LlvmTypes, TypeDefinitions

CONSTANTS Programs,   \* the programs to compile
          Garbage     \* what an uninitialized int may hold

ASSUME GarbageAssumption == Garbage \subseteq Int /\ Garbage # {}

VARIABLES program, phase, at,
          defining,    \* the calls of defineType, innermost last
          tables,      \* the type tables and the list of user types
          names,       \* the type ids of the routine's names
          funcs,       \* the function table
          vars,        \* the traced variable declarations
          statements,  \* the traced statements
          gen          \* the LLVM types made so far

allVars == <<program, phase, at, defining, tables, names, funcs, vars, statements, gen>>

Lists == <<"parse", "globals", "routine", "locals", "vars", "statements",
           "types", "header", "values", "code">>
Ends == {"generated", "aborted", "stopped", "refused"}

Env(scope, single) == [tables |-> tables, scope |-> scope, names |-> names, funcs |-> funcs, single |-> single]
Inner == Env(Routine, FALSE)

Items(list, types) ==
    CASE list \in {"parse", "locals"} -> Len(program.locals)
      [] list = "globals" -> Len(program.globals)
      [] list \in {"vars", "values"} -> Len(program.vars)
      [] list \in {"statements", "code"} -> Len(program.statements)
      [] list = "types" -> Len(types.userTypes)
      [] list \in {"routine", "header"} -> 1

\* The next item, or the first one of the next list that has any.
Advance(types) ==
    LET current == CHOOSE i \in DOMAIN Lists : Lists[i] = phase
        later == {i \in DOMAIN Lists : i > current /\ Items(Lists[i], types) > 0}
    IN /\ UNCHANGED program
       /\ IF at < Items(phase, types) THEN at' = at + 1 /\ UNCHANGED phase
          ELSE /\ at' = 1
               /\ phase' = IF later = {} THEN "generated"
                           ELSE Lists[CHOOSE i \in later : \A j \in later : i <= j]

EndIn(end) == phase' = end /\ UNCHANGED <<program, at>>
Decide(aborts, types) == IF aborts THEN EndIn("aborted") ELSE Advance(types)

-----------------------------------------------------------------------------
(* Variables.                                                              *)

Skipped == [type |-> NoType, init |-> NoIndex, valid |-> FALSE]

\* The value of a variable that is declared without one, by its type.
DefaultValue(types, type) ==
    IF types.types[type].kind \notin {"native", "alias"} THEN NoIndex
    ELSE LET native == FindNativeBaseType(types, Routine, type) IN
         IF native \in {INT, BOOL, FLOAT} THEN Const(native) ELSE NoIndex

\* id is the type found for the variable, and early its initial value, traced
\* already if the type comes from it.
VariableFound(decl, early, types, id) ==
    LET type == LookupTypeById(types, Routine, id)
        named == IF type = NoType THEN names ELSE Extended(names, decl.name, type)
        value == IF type # NoType /\ early = NoIndex THEN DefaultValue(types, type) ELSE early
        init == IF value = NoIndex THEN NoIndex
                ELSE RunTypeTrace([Inner EXCEPT !.tables = types, !.names = named], value)
    IN /\ tables' = types
       /\ names' = named
       /\ vars' = Append(vars, IF type = NoType THEN Skipped
                               ELSE [type |-> type, init |-> init, valid |-> TRUE])
       /\ Decide(id = Aborted \/ init = Abort, types)
       /\ UNCHANGED <<funcs, statements, gen>>

-----------------------------------------------------------------------------
(* TypeTable::defineType, a call at a time.                                *)

Innermost == defining[Len(defining)]
CurrentScope == IF phase \in {"parse", "globals"} THEN Global ELSE Routine
Current == Env(CurrentScope, FALSE)

CallDefineType(name, def) ==
    /\ defining' = Append(defining, DefinitionOf(name, def))
    /\ UNCHANGED <<program, phase, at, names, funcs, vars, statements, gen>>
DefineGenerated(def) == tables' = Counted(tables) /\ CallDefineType(GeneratedName(tables), def)

\* A failed assertion or a null pointer in a call, whose tables nobody sees again.
Crash ==
    /\ defining' = <<>>
    /\ EndIn("aborted")
    /\ UNCHANGED <<tables, names, funcs, vars, statements, gen>>

\* A member has to have a type; the element of an array is used later.
PartFound(calls, types, id) ==
    IF id = NoType /\ calls[Len(calls)].def.form = "record" THEN Crash
    ELSE /\ defining' = [calls EXCEPT ![Len(calls)].parts = Append(@, id)]
         /\ tables' = types
         /\ UNCHANGED <<program, phase, at, names, funcs, vars, statements, gen>>

\* The innermost call gives its caller the type, and leaves these tables.
Return(types, id) ==
    LET callers == SubSeq(defining, 1, Len(defining) - 1)
        decl == program.vars[at]
    IN CASE callers # <<>> -> PartFound(callers, types, id)
         [] callers = <<>> /\ phase = "vars" -> defining' = <<>> /\ VariableFound(decl, decl.init, types, id)
         [] callers = <<>> /\ phase # "vars" ->
                /\ defining' = <<>>
                /\ tables' = types
                /\ Advance(types)
                /\ UNCHANGED <<names, funcs, vars, statements, gen>>

DefineAlias ==
    LET base == LookupType(tables, CurrentScope, Innermost.def.ident) IN
    /\ defining # <<>> /\ Innermost.def.form = "named"
    /\ IF base = NoType THEN Return(tables, NoType)
       ELSE Return(DefineTypeObject(tables, AliasType(Innermost, CurrentScope, base)), NewTypeId(tables))

NextPart == Parts(Innermost.def)[Len(Innermost.parts) + 1]
HasNextPart == defining # <<>> /\ Len(Innermost.parts) < Len(Parts(Innermost.def))

FindPart ==
    /\ HasNextPart /\ NextPart.form = "named"
    /\ PartFound(defining, tables, LookupType(tables, CurrentScope, NextPart.ident))

DefinePart ==
    /\ HasNextPart /\ NextPart.form # "named"
    /\ DefineGenerated(NextPart)

\* A size without a type refuses the array, whatever its element is.
DefineArray ==
    LET size == RunTypeTrace(Current, Innermost.def.size)
        cast == IF size.type = INT THEN NoIndex ELSE CastFromTraced(Current, size, INT)
    IN /\ defining # <<>> /\ Innermost.def.form = "array" /\ ~HasNextPart
       /\ CASE size.type = NoType -> Return(tables, NoType)
            [] size.type # NoType /\ (Abort \in {size, cast} \/ Innermost.parts[1] = NoType) -> Crash
            [] OTHER -> Return(ListType(tables, ArrayType(Innermost, CurrentScope, IF cast = NoIndex THEN size ELSE cast)),
                               NewTypeId(tables))

DefineRecord ==
    /\ defining # <<>> /\ Innermost.def.form = "record" /\ ~HasNextPart
    /\ Return(ListType(tables, RecordType(Innermost, CurrentScope)), NewTypeId(tables))

-----------------------------------------------------------------------------
(* Declarations.                                                           *)

\* While a routine is parsed, the types declared in it are asked for their ids
\* (obtainTypeId), which defines the records among them without their names.
ParseTypeDeclaration ==
    LET def == program.locals[at].def IN
    /\ phase = "parse" /\ defining = <<>>
    /\ IF def.form = "record" THEN DefineGenerated(def)
       ELSE Advance(tables) /\ UNCHANGED <<defining, tables, names, funcs, vars, statements, gen>>

DefineTypes(list, declarations) ==
    /\ phase = list /\ defining = <<>>
    /\ CallDefineType(Declared(declarations[at].name), declarations[at].def)
    /\ UNCHANGED tables
DefineGlobalType == DefineTypes("globals", program.globals)
DefineLocalType == DefineTypes("locals", program.locals)

\* A parameter of unknown type leaves a null function, which is used.
DefineRoutine ==
    LET param == LookupType(tables, Global, program.param.ident) IN
    /\ phase = "routine"
    /\ funcs' = Extended(funcs, "f", [param |-> param, ret |-> LookupType(tables, Global, program.ret.ident)])
    /\ names' = Extended(names, "p", param)
    /\ Decide(param = NoType, tables)
    /\ UNCHANGED <<defining, tables, vars, statements, gen>>

\* With a type, the name is defined before its initial value is traced; an
\* anonymous array has the id of void.
DefineVariable ==
    LET decl == program.vars[at]
        early == RunTypeTrace(Inner, decl.init)
        Found(init, id) == VariableFound(decl, init, tables, id) /\ UNCHANGED defining
    IN /\ phase = "vars" /\ defining = <<>>
       /\ \/ decl.def.form = "inferred" /\ Found(early, early.type)
          \/ decl.def.form = "named" /\ Found(decl.init, LookupType(tables, Routine, decl.def.ident))
          \/ decl.def.form = "array" /\ Found(decl.init, VOID)
          \/ decl.def.form = "record" /\ DefineGenerated(decl.def)

-----------------------------------------------------------------------------
(* Statements.                                                             *)

Traced(s, expr, valid) ==
    /\ statements' = Append(statements, [form |-> s.form, expr |-> expr, valid |-> valid])
    /\ Decide(expr = Abort, tables)
    /\ UNCHANGED <<defining, tables, names, funcs, vars, gen>>

ProcessExpressionStatement ==
    LET s == program.statements[at]
        e == RunTypeTrace(Env(Routine, s.expr.kind = "call"), s.expr)
    IN phase = "statements" /\ s.form = "expression" /\ Traced(s, e, e.type # NoType)

\* Only a cast to the very type of the routine counts.
ProcessReturnStatement ==
    LET s == program.statements[at]
        e == RunTypeTrace(Inner, s.expr)
        ret == funcs["f"].ret
        source == FindNativeBaseType(tables, Routine, e.type)
        target == FindNativeBaseType(tables, Routine, ret)
        cast == InsertTypeCast(e, source, target)
    IN /\ phase = "statements" /\ s.form = "return"
       /\ IF e = Abort \/ ret = VOID \/ source = target
          THEN Traced(s, e, ret # VOID /\ e.type # NoType)
          ELSE Traced(s, cast, cast.type = ret /\ e.type # NoType)

ProcessIfStatement ==
    LET s == program.statements[at]
        e == RunTypeTrace(Inner, s.expr)
        cast == CastFromTraced(Inner, e, BOOL)
    IN /\ phase = "statements" /\ s.form = "if"
       /\ IF e = Abort \/ e.type = BOOL THEN Traced(s, e, TRUE)
          ELSE Traced(s, IF cast = NoIndex THEN e ELSE cast, cast # NoIndex)

-----------------------------------------------------------------------------
(* Code generation.  An outcome that is broken ends it.                    *)

Nothing == Value(VOID)

Emit(outcome, new) ==
    /\ CASE outcome = Stopped -> EndIn("stopped")
         [] outcome = Refused -> EndIn("refused")
         [] OTHER -> Advance(tables)
    /\ gen' = new
    /\ UNCHANGED <<defining, tables, names, funcs, vars, statements>>

Allocation(fields, asked) == [fields |-> fields, asked |-> asked]

\* The size of an object is what was kept for its type, and that of a record is
\* never written; a buffer is counted by element, one byte for each.
Allocations(type, layout, garbage) ==
    IF type.kind = "record" THEN <<Allocation(layout, garbage)>>
    ELSE <<Allocation(layout, 4 + 8), Allocation(<<Load(layout[2])>>, 1)>>

GenerateType ==
    LET id == tables.userTypes[at]
        type == tables.types[id]
        layout == LayoutOf(tables, gen, type)
        laid == Unless(layout, Value(id))
        stores == ConstructorStores(Env(Global, FALSE), gen, type, layout)
    IN /\ phase = "types"
       /\ \E garbage \in Garbage :
             Emit(IF laid = Value(id) THEN Unless(stores, laid) ELSE laid,
                  [gen EXCEPT !.layouts = Extended(@, id, layout),
                              !.constructors = IF type.name \in DOMAIN @ THEN @ ELSE Extended(@, type.name, id),
                              !.allocations = IF laid = Value(id) THEN @ \o Allocations(type, layout, garbage) ELSE @])

\* A native base, or a pointer to the struct.
HeaderType(id) ==
    LET native == FindNativeBaseType(tables, Global, id) IN
    IF native = NoType THEN Pointer(TypesMap(gen, id))
    ELSE IF TypesMap(gen, native) = NoLlvm THEN Stopped ELSE TypesMap(gen, native)

GenerateFunctionDeclaration ==
    LET param == HeaderType(funcs["f"].param)
        ret == HeaderType(funcs["f"].ret)
    IN /\ phase = "header"
       /\ Emit(Unless(<<param, ret>>, Only(param # Value(VOID), ret)),
               [gen EXCEPT !.sigs = Extended(@, "f", [param |-> param, ret |-> ret]),
                           !.vals = Extended(@, "p", param)])

\* A call of the function with the constructor's name, whichever type it was made for.
GenerateVariable ==
    LET v == vars[at]
        ident == program.vars[at].name
        name == tables.types[v.type].name
        value == IF v.init # NoIndex THEN Generate(Inner, gen, v.init) ELSE Pointer(TypesMap(gen, v.type))
        made == IF v.init # NoIndex THEN NoType
                ELSE IF name \in DOMAIN gen.constructors THEN gen.constructors[name] ELSE Aborted
    IN /\ phase = "values"
       /\ IF ~v.valid THEN Emit(Nothing, gen)
          ELSE Emit(value, [gen EXCEPT !.vals = Extended(@, ident, value), !.made = Extended(@, ident, made)])

\* A parameter is read from the arguments, whatever is assigned to it; a
\* variable of its name takes its place.
IsParameter(ident) ==
    /\ ident = "p"
    /\ \A i \in DOMAIN vars : vars[i].valid => program.vars[i].name # ident

GenerateStatement ==
    LET s == statements[at]
        value == Generate(Inner, gen, s.expr)
        fits == CASE s.form = "return" -> value = gen.sigs["f"].ret
                  [] s.form = "if" -> value = Value(BOOL)
                  [] s.form = "expression" -> TRUE
        target == s.expr.left.links[1].ident
        isAssigned == /\ s.expr.kind = "binary" /\ s.expr.op = "assign"
                      /\ IsSimple(s.expr.left) /\ ~IsParameter(target)
    IN /\ phase = "code"
       /\ IF ~s.valid THEN Emit(Nothing, gen)
          ELSE Emit(Unless(<<value>>, Only(fits, value)),
                    IF isAssigned THEN [gen EXCEPT !.vals = Extended(@, target, value)] ELSE gen)

-----------------------------------------------------------------------------
Init ==
    /\ program \in Programs
    /\ at = 1
    /\ tables = InitBuiltinTypes
    /\ phase = IF program.locals # <<>> THEN "parse" ELSE IF program.globals # <<>> THEN "globals" ELSE "routine"
    /\ funcs = [f \in {"printInt"} |-> [param |-> INT, ret |-> VOID]]
    /\ defining = <<>> /\ names = <<>> /\ vars = <<>> /\ statements = <<>>
    /\ gen = [layouts |-> <<>>, constructors |-> <<>>, allocations |-> <<>>, made |-> <<>>, vals |-> <<>>,
              sigs |-> [f \in {"printInt"} |-> [param |-> Value(INT), ret |-> Value(VOID)]]]

Next == \/ ParseTypeDeclaration \/ DefineGlobalType \/ DefineRoutine \/ DefineLocalType \/ DefineVariable
        \/ DefineAlias \/ FindPart \/ DefinePart \/ DefineArray \/ DefineRecord
        \/ ProcessExpressionStatement \/ ProcessReturnStatement \/ ProcessIfStatement
        \/ GenerateType \/ GenerateFunctionDeclaration \/ GenerateVariable \/ GenerateStatement

Spec == Init /\ [][Next]_allVars

-----------------------------------------------------------------------------
(* The list of user types is an order in which they can be generated: the  *)
(* records and arrays among the parts of a type come before it, whatever   *)
(* was anonymous, local, or declared twice (Scope.cpp:350, 367, 398).      *)
PartsPrecedeWholes ==
    \A i \in DOMAIN tables.userTypes :
        LET type == tables.types[tables.userTypes[i]]
            parts == {type.base} \cup {type.members[k].type : k \in DOMAIN type.members}
        IN \A part \in {p \in parts \cap DOMAIN tables.types : ~IsPrimitive(tables, p)} :
               \E j \in 1 .. i - 1 : tables.userTypes[j] = part

SizeOf(t) == IF t.stars > 0 THEN 8 ELSE IF t = Value(BOOL) THEN 1 ELSE 4

\* Where the last of some fields ends, each at a multiple of its size.
EndOf(fields) ==
    LET Ending[k \in 0 .. Len(fields)] ==
            IF k = 0 THEN 0
            ELSE LET size == SizeOf(fields[k]) IN ((Ending[k - 1] + size - 1) \div size) * size + size
    IN Ending[Len(fields)]

=============================================================================

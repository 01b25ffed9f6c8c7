-------------------------- MODULE WellTypedPrograms -------------------------
(***************************************************************************)
(* What the compiler promises to the programs of the class of SourceTypes: *)
(* TypedProgram against the types that the author of a program reads.      *)
(***************************************************************************)
EXTENDS TypedProgram, SourceTypes

\* The LLVM type that a value of the source has.
Representation(d) ==
    LET id == LookupType(tables, Routine, d.ident) IN
    IF d \in NativeDefs THEN Value(id) ELSE Pointer(Value(id))

DeclaredTypes == SourceVars(program, Len(program.vars))

\* A traced expression computes each operation in the type the source gives it,
\* casts apart.
RECURSIVE ComputedAsWritten(_, _)
ComputedAsWritten(e, traced) ==
    LET value == IF traced.kind = "cast" THEN traced.operand ELSE traced
        type == SourceType(program, DeclaredTypes, e)
    IN /\ value.kind = e.kind
       /\ type.form = "named" => value.type = LookupType(tables, Routine, type.ident)
       /\ e.kind = "binary" => ComputedAsWritten(e.left, value.left) /\ ComputedAsWritten(e.right, value.right)
       /\ e.kind = "call" => ComputedAsWritten(e.arg, value.arg)

\* A program of the class is accepted with all its nodes, each operation is
\* computed in the type it has in the source, and LLVM accepts what is made of
\* it: no assertion fails, no instruction gets an operand of another type, every
\* variable holds a value of its own type, and what has no initial value is made
\* by the constructor of its own type (Types.cpp, Operators.cpp,
\* Codegen.cpp:126-352).
WellTypedIsGenerated ==
    phase \in Ends /\ WellTyped(program) =>
        /\ phase = "generated"
        /\ \A i \in DOMAIN vars : vars[i].valid
        /\ \A i \in DOMAIN statements :
               statements[i].valid /\ ComputedAsWritten(program.statements[i].expr, statements[i].expr)
        /\ \A i \in DOMAIN program.vars :
               LET x == program.vars[i].name
                   d == DeclaredTypes[x]
               IN /\ gen.vals[x] = IF d.form = "named" THEN Representation(d) ELSE Pointer(Value(names[x]))
                  /\ gen.made[x] \in {NoType, names[x]}
=============================================================================

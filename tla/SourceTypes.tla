----------------------------- MODULE SourceTypes -----------------------------
(***************************************************************************)
(* The types of a program as its author reads them, without ids, tables,   *)
(* casts or LLVM: the type of a value is the definition its declaration    *)
(* names, two named types are the same if the names are, int and float     *)
(* convert to each other and both to bool.  WellTyped is the class of      *)
(* programs whose code the compiler is claimed to get right; every rule of *)
(* it names something the compiler does not handle.                        *)
(***************************************************************************)
EXTENDS TypeDefinitions

Untyped == [form |-> "untyped"]

Native(id) == Named(NativeName(id))
Numbers == {Native(INT), Native(FLOAT)}
NativeDefs == Numbers \cup {Native(BOOL)}
Wider(l, r) == IF Native(FLOAT) \in {l, r} THEN Native(FLOAT) ELSE Native(INT)

Convertible(from, to) == (from = to /\ from.form = "named") \/ (from \in Numbers /\ to \in NativeDefs)

Declarations(P) == P.globals \o P.locals
Declares(declarations, d) == \E i \in DOMAIN declarations : d = Named(declarations[i].name)
Unfold(P, d) ==
    IF Declares(Declarations(P), d)
    THEN LET i == CHOOSE n \in DOMAIN Declarations(P) : d = Named(Declarations(P)[n].name)
         IN Declarations(P)[i].def
    ELSE d

RECURSIVE SourceType(_, _, _)

RECURSIVE LinkType(_, _, _, _, _)
LinkType(P, vars, links, i, d) ==
    LET index == SourceType(P, vars, links[i].index)
        whole == Unfold(P, d)
        \* An index that is cast must be the first one.
        indexed == whole.form = "array" /\ index \in (IF i = 1 THEN Numbers ELSE {Native(INT)})
        part == IF links[i].index = NoIndex THEN d ELSE IF indexed THEN whole.element ELSE Untyped
        fields == IF Unfold(P, part).form = "record" THEN Unfold(P, part).fields ELSE <<>>
        places == {k \in DOMAIN fields : fields[k].name = links[i + 1].ident}
    IN IF i = Len(links) THEN part
       ELSE IF places = {} THEN Untyped
       ELSE LinkType(P, vars, links, i + 1, fields[CHOOSE k \in places : TRUE].def)

SourceType(P, vars, e) ==
    CASE e.kind = "none" -> Untyped
      [] e.kind = "const" -> Native(e.native)
      [] e.kind = "read" -> IF e.links[1].ident \in DOMAIN vars
                            THEN LinkType(P, vars, e.links, 1, vars[e.links[1].ident]) ELSE Untyped
      [] e.kind = "call" ->
             LET sig == IF e.func = "f" THEN <<P.param, P.ret>> ELSE <<Native(INT), Native(VOID)>> IN
             IF Convertible(SourceType(P, vars, e.arg), sig[1]) THEN sig[2] ELSE Untyped
      [] e.kind = "binary" ->
             LET l == SourceType(P, vars, e.left)
                 r == SourceType(P, vars, e.right)
             IN CASE e.op = "assign" /\ Convertible(r, l) -> l
                  [] e.op \in {"add", "minus", "mul", "div"} /\ {l, r} \subseteq Numbers -> Wider(l, r)
                  [] e.op = "compare" /\ {l, r} \subseteq Numbers -> Native(BOOL)
                  [] e.op \in Logical \cup {"add", "mul"} /\ {l, r} = {Native(BOOL)} -> Native(BOOL)
                  [] OTHER -> Untyped

(***************************************************************************)
(* Declarations.                                                           *)
(***************************************************************************)
\* No aliases; parts are declared before the whole; a record has no bool members.
RECURSIVE WellFormed(_, _, _)
WellFormed(earlier, def, anonymous) ==
    LET PartIsKnown(d) == IF d.form = "named" THEN d \in NativeDefs \/ Declares(earlier, d)
                          ELSE anonymous /\ WellFormed(earlier, d, TRUE)
    IN CASE def.form = "record" -> \A i \in DOMAIN def.fields :
                                        PartIsKnown(def.fields[i].def) /\ def.fields[i].def # Native(BOOL)
         [] def.form = "array" -> def.size.kind = "const" /\ def.size.native \in {INT, FLOAT}
                                  /\ PartIsKnown(def.element)
         [] OTHER -> FALSE

WellDeclared(P) ==
    /\ \A i, j \in DOMAIN Declarations(P) : Declarations(P)[i].name = Declarations(P)[j].name => i = j
    /\ \A i \in DOMAIN P.globals : WellFormed(SubSeq(P.globals, 1, i - 1), P.globals[i].def, TRUE)
    \* The parts of a routine's type are native or global, those of its records native.
    /\ \A i \in DOMAIN P.locals :
           WellFormed(IF P.locals[i].def.form = "record" THEN <<>> ELSE P.globals, P.locals[i].def, FALSE)
    /\ \A d \in {P.param, P.ret} \ NativeDefs :
           (d = Native(VOID) /\ d # P.param) \/ (Declares(P.globals, d) /\ Unfold(P, d).form = "record")

\* The types of the parameter and the first n variables.
RECURSIVE SourceVars(_, _)
SourceVars(P, n) ==
    IF n = 0 THEN [x \in {"p"} |-> P.param]
    ELSE LET v == P.vars[n]
             before == SourceVars(P, n - 1)
         IN Extended(before, v.name, IF v.def = Inferred THEN SourceType(P, before, v.init) ELSE v.def)

\* A variable has the very type of its initial value.
WellInitialised(P, n) ==
    LET v == P.vars[n]
        type == SourceVars(P, n)[v.name]
        value == SourceType(P, SourceVars(P, n - 1), v.init)
    IN /\ type \in NativeDefs \/ Declares(Declarations(P), type)
             \/ (type.form = "record" /\ WellFormed(P.globals, type, FALSE))
       /\ v.init = NoIndex \/ (value = type /\ type.form = "named")

WellTypedStatement(P, s) ==
    LET type == SourceType(P, SourceVars(P, Len(P.vars)), s.expr) IN
    CASE s.form = "expression" -> type # Untyped
      [] s.form = "return" -> P.ret # Native(VOID) /\ Convertible(type, P.ret)
      [] s.form = "if" -> Convertible(type, Native(BOOL))

WellTyped(P) ==
    /\ WellDeclared(P)
    /\ \A n \in DOMAIN P.vars : WellInitialised(P, n)
    /\ \A n \in DOMAIN P.statements : WellTypedStatement(P, P.statements[n])
==============================================================================

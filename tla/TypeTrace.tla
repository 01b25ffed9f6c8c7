----------------------------- MODULE TypeTrace -----------------------------
(***************************************************************************)
(* Type tracing and implicit casts (src/src/Types.cpp) over the tables of  *)
(* Scopes.  Expressions are abstracted to what a statement can observe of  *)
(* them: a constant, a plain variable, and a call whose arguments are of   *)
(* those forms or calls without arguments.                                 *)
(*                                                                         *)
(* A trace yields a type id, NoTypeId when it fails, or Abort when the     *)
(* process ends in it: an ASSERT of Utils.h (exit code 220 in the Debug    *)
(* and Test builds) or a null dereference.                                 *)
(***************************************************************************)
EXTENDS Scopes

Abort == -220
UnknownType == -2        \* FindNativeBaseType: "lookup failed: logic error"

Const(t) == [kind |-> "const", type |-> t]
Use(x) == [kind |-> "use", ident |-> x]
Call(f, args) == [kind |-> "call", ident |-> f, args |-> args]

\* The variables an expression reads.
Reads(e) ==
    CASE e.kind = "const" -> {}
      [] e.kind = "use" -> {e.ident}
      [] e.kind = "call" -> {e.args[i].ident : i \in {j \in DOMAIN e.args : e.args[j].kind = "use"}}

(***************************************************************************)
(* FindNativeBaseType: the walk over base types, each looked up by id from *)
(* scope s.  Arrays walk to their element type, records have none.         *)
(***************************************************************************)
FindNativeBaseType(s, t) ==
    LET walk[u \in TypeIds] ==
            IF ~TypeIsVisible(s, u) THEN UnknownType
            ELSE CASE types[u].kind = "record" -> -1
                   [] types[u].kind = "native" -> u
                   [] OTHER -> walk[CHOOSE b \in types[u].parts : TRUE]
    IN IF t \in TypeIds THEN walk[t] ELSE UnknownType

(***************************************************************************)
(* InsertTypeCastExpression.  The six casts it knows; any other pair, an   *)
(* equal one included, reaches ASSERT_SHOULD_NOT_GO_HERE.                  *)
(***************************************************************************)
Casts == {<<BOOL, INT>>, <<BOOL, FLOAT>>, <<INT, FLOAT>>,
          <<FLOAT, INT>>, <<FLOAT, BOOL>>, <<INT, BOOL>>}

InsertTypeCast(source, target) == IF <<source, target>> \in Casts THEN target ELSE Abort

\* The overload that traces the child and casts from its native base type.
CastFromTraced(t, target) ==
    LET native == FindNativeBaseType(currentScope, t) IN
    IF t = NoTypeId \/ native = -1 THEN NoTypeId ELSE InsertTypeCast(native, target)

\* An operand that must have the type target: a condition or a range bound.
Coerce(t, target) == IF t \in {target, Abort} THEN t ELSE CastFromTraced(t, target)

-----------------------------------------------------------------------------
(* RunPrimaryTypeTrace.  single is the flag isSingleCallStatement.         *)

ReturnTypeOf(f, single) ==
    IF funcMap[f].ret = VOID /\ ~single THEN NoTypeId ELSE funcMap[f].ret

TraceAtom(e, single) ==
    CASE e.kind = "const" -> e.type
      [] e.kind = "use" -> LET n == LookupName(currentScope, e.ident)
                           IN IF n = NoName THEN NoTypeId ELSE n.type
      [] e.kind = "call" -> IF funcMap[e.ident] = NoFunc THEN NoTypeId
                            ELSE ReturnTypeOf(e.ident, single)

(***************************************************************************)
(* The outcomes of one argument.  The code indexes the parameter vector    *)
(* with the argument's position unchecked; past its end the parameter type *)
(* read is undefined: it may seem to match, fail the cast, or crash.       *)
(***************************************************************************)
ArgumentOutcomes(f, i, e, single) ==
    LET t == TraceAtom(e, single) IN
    IF t = NoTypeId THEN {NoTypeId}
    ELSE IF i > Len(funcMap[f].params) THEN {t, NoTypeId, Abort}
    ELSE {Coerce(t, funcMap[f].params[i])}

\* A call traces its arguments in order and stops at the first that fails.
CallOutcomes(f, args, single) ==
    LET bad == {NoTypeId, Abort}
        passes(i) == ArgumentOutcomes(f, i, args[i], single) \ bad # {}
        reached(i) == \A j \in 1 .. i - 1 : passes(j)
    IN (IF \A i \in DOMAIN args : passes(i) THEN {ReturnTypeOf(f, single)} ELSE {})
       \cup UNION {ArgumentOutcomes(f, i, args[i], single) \cap bad :
                      i \in {j \in DOMAIN args : reached(j)}}

RunTypeTrace(e, single) ==
    IF e.kind = "call" /\ funcMap[e.ident] # NoFunc
    THEN CallOutcomes(e.ident, e.args, single)
    ELSE {TraceAtom(e, single)}

\* RunBinaryTypeTrace of OP_ASSIGNMENT: the operands' type ids are compared as they are.
AssignmentOutcomes(x, e) ==
    LET target == TraceAtom(Use(x), FALSE) IN
    {IF t \in {target, Abort} THEN t ELSE InsertTypeCast(t, target) :
        t \in RunTypeTrace(e, FALSE)}

\* ProcessReturnStatement in a routine whose return type id is ret.
ReturnOutcomes(ret, e) ==
    LET target == FindNativeBaseType(currentScope, ret)
        outcome(t) ==
            LET source == FindNativeBaseType(currentScope, t)
                cast == InsertTypeCast(source, target)
            IN IF t = Abort THEN Abort
               ELSE IF ret = VOID THEN NoTypeId
               ELSE IF source = target THEN t
               ELSE IF cast \in {ret, Abort} THEN cast ELSE NoTypeId
    IN {outcome(t) : t \in RunTypeTrace(e, FALSE)}

=============================================================================

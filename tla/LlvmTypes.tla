------------------------------ MODULE LlvmTypes ------------------------------
(***************************************************************************)
(* What src/src/Operators.cpp and src/src/Codegen.cpp make of traced       *)
(* expressions and of types, seen through the LLVM types of the values:    *)
(* an instruction whose operands do not fit is Refused (by an assertion of *)
(* LLVM or by its verifier), and a failed assertion or a null pointer of   *)
(* the compiler itself is Stopped.                                         *)
(*                                                                         *)
(* gen has the layouts of the structs made so far, the types of the values *)
(* of variables, and the signatures of the functions.                      *)
(***************************************************************************)
EXTENDS Expressions

\* A native type or a struct, called by its type id, behind a number of pointers.
Value(id) == [of |-> id, stars |-> 0]
Stopped == Value(-20)
Refused == Value(-21)
NoLlvm == Value(-22)     \* a null llvm::Type
I8 == Value(-23)

TypesMap(gen, id) == IF id \in Natives \cup DOMAIN gen.layouts THEN Value(id) ELSE NoLlvm

\* An operand that is already broken breaks what is made of it.
Unless(operands, result) ==
    LET broken == {i \in DOMAIN operands : operands[i] \in {Stopped, Refused}} IN
    IF broken = {} THEN result ELSE operands[CHOOSE i \in broken : \A j \in broken : i <= j]
Only(condition, result) == IF condition THEN result ELSE Refused

(***************************************************************************)
(* Instructions of llvm::IRBuilder.                                        *)
(***************************************************************************)
Pointer(t) ==
    CASE t = NoLlvm -> Stopped
      [] t = Value(VOID) -> Refused
      [] OTHER -> Unless(<<t>>, [t EXCEPT !.stars = @ + 1])
Load(t) == Unless(<<t>>, Only(t.stars > 0, [t EXCEPT !.stars = @ - 1]))
StoreTo(pointer, value) == Unless(<<pointer, value>>, Only(Load(pointer) = value, value))
FieldPtr(gen, object, k) ==
    Unless(<<object>>, Only(object.stars = 1 /\ object.of \in DOMAIN gen.layouts
                                /\ k \in DOMAIN gen.layouts[object.of],
                            Pointer(gen.layouts[object.of][k])))
ElementPtr(buffer, index) ==
    Unless(<<buffer, index>>, Only(buffer.stars > 0 /\ index \in {Value(BOOL), Value(INT)}, buffer))
CallOf(sig, arg) == Unless(<<arg>>, Only(arg = sig.param, sig.ret))

(***************************************************************************)
(* Expressions.                                                            *)
(***************************************************************************)
\* The instructions there are for an operator, by the type of the expression.
Instruction(e, l, r) ==
    LET ints == l = r /\ l \in {Value(BOOL), Value(INT)}
        floats == l = r /\ l = Value(FLOAT)
    IN CASE e.type = INT /\ e.op \in {"add", "minus", "mul", "div"} -> Only(ints, l)
         [] e.type = FLOAT /\ e.op \in {"add", "minus", "mul", "div"} -> Only(floats, l)
         [] e.type = BOOL /\ e.op \in {"or", "add", "and", "mul", "xor"} -> Only(ints, l)
         [] e.type = BOOL /\ e.op = "compare" /\ e.left.type = INT -> Only(ints, Value(BOOL))
         [] e.type = BOOL /\ e.op = "compare" /\ e.left.type = FLOAT -> Only(floats, Value(BOOL))
         [] OTHER -> Stopped

\* A cast to the type a value has is no instruction.
CastInstruction(e, v) ==
    CASE e.type = INT /\ e.from = FLOAT -> Only(v \in {Value(FLOAT), Value(INT)}, Value(INT))
      [] e.type = FLOAT /\ e.from = INT -> Only(v.stars = 0 /\ v.of \in {BOOL, INT, FLOAT}, Value(FLOAT))
      [] e.type = BOOL /\ e.from = INT -> Only(v \in {Value(INT), Value(BOOL)}, Value(BOOL))
      [] e.type = BOOL /\ e.from = FLOAT -> Only(v \in {Value(FLOAT), Value(BOOL)}, Value(BOOL))
      [] OTHER -> Stopped

\* The buffer of an array is its second field.
ElementOf(gen, array, index) == ElementPtr(Load(FieldPtr(gen, array, 2)), index)

\* Where a link of a path leads: a pointer, the value of the object and its type.
Place(pointer, value, type) == [pointer |-> pointer, value |-> value, type |-> type]

\* The member that the link after this one names.
NextLink(env, gen, place, link, index, member) ==
    LET indexed == link.index # NoIndex
        object == IF indexed THEN Load(ElementOf(gen, place.value, index)) ELSE place.value
        part == IF indexed THEN LookupTypeById(env.tables, env.scope, env.tables.types[place.type].base)
                ELSE place.type
        fields == IF part = NoType THEN <<>> ELSE env.tables.types[part].members
        positions == {k \in DOMAIN fields : fields[k].name = member}
        k == CHOOSE n \in positions : TRUE
        pointer == FieldPtr(gen, object, k)
    IN IF place.value = Stopped \/ positions = {} \/ (~indexed /\ TypesMap(gen, place.type) = NoLlvm)
       THEN Place(Stopped, Stopped, NoType) ELSE Place(pointer, Load(pointer), fields[k].type)

\* indices has the values of the indices of the links.
AccessVector(env, gen, links, indices) ==
    LET first == links[1].ident
        last == Len(links)
        At[i \in DOMAIN links] ==
            IF i = 1 THEN Place(gen.vals[first], gen.vals[first], env.names[first])
            ELSE NextLink(env, gen, At[i - 1], links[i - 1], indices[i - 1], links[i].ident)
    IN IF first \notin DOMAIN gen.vals \cap DOMAIN env.names THEN Stopped
       ELSE IF links[last].index # NoIndex THEN ElementOf(gen, At[last].value, indices[last])
       ELSE At[last].pointer

ReadValue(env, gen, e, indices) ==
    IF IsSimple(e) THEN (IF e.links[1].ident \in DOMAIN gen.vals THEN gen.vals[e.links[1].ident] ELSE Stopped)
    ELSE Load(AccessVector(env, gen, e.links, indices))

\* The value that is stored, in a register or through a pointer.
Assignment(env, gen, target, indices, value) ==
    IF IsSimple(target) THEN value
    ELSE Unless(<<value>>, StoreTo(AccessVector(env, gen, target.links, indices), value))

Generate(env, gen, e) ==
    LET Of[x \in Expression] ==
            LET Indices(links) == [i \in DOMAIN links |-> IF links[i].index = NoIndex THEN NoLlvm
                                                          ELSE Of[links[i].index]]
            IN CASE x.kind = "const" -> IF x.type \in {BOOL, INT, FLOAT} THEN Value(x.type) ELSE Stopped
                 [] x.kind = "read" -> ReadValue(env, gen, x, Indices(x.links))
                 [] x.kind = "cast" -> Unless(<<Of[x.operand]>>, CastInstruction(x, Of[x.operand]))
                 [] x.kind = "call" -> IF x.func \in DOMAIN gen.sigs
                                       THEN CallOf(gen.sigs[x.func], Of[x.arg]) ELSE Stopped
                 [] x.kind = "binary" /\ x.op = "assign" ->
                        Assignment(env, gen, x.left, Indices(x.left.links), Of[x.right])
                 [] x.kind = "binary" /\ x.op # "assign" ->
                        Unless(<<Of[x.left], Of[x.right]>>, Instruction(x, Of[x.left], Of[x.right]))
    IN Of[e]

(***************************************************************************)
(* Types: GenerateType and GenerateSpecialFunctions.  The outcome of a     *)
(* type is the layout of its struct, or why there is none.                 *)
(***************************************************************************)
\* The i-th part, looked up from the global scope.
PartLayout(tables, gen, id) ==
    CASE LookupTypeById(tables, Global, id) = NoType -> Stopped
      [] OTHER -> IF ~IsPrimitive(tables, id) THEN Pointer(TypesMap(gen, id))
                  ELSE IF TypesMap(gen, id) = NoLlvm THEN Stopped
                  ELSE Only(id # VOID, TypesMap(gen, id))

ArrayLayout(tables, gen, element) ==
    LET part == IF LookupTypeById(tables, Global, element) = NoType THEN Stopped
                ELSE Pointer(TypesMap(gen, element))
    IN <<Value(INT), IF part = Stopped \/ IsPrimitive(tables, element) THEN part ELSE Pointer(part)>>

LayoutOf(tables, gen, type) ==
    IF type.kind = "record" THEN [k \in DOMAIN type.members |-> PartLayout(tables, gen, type.members[k].type)]
    ELSE ArrayLayout(tables, gen, type.base)

\* What the constructor stores in a member of that type: a bool is stored as i8.
InitialValue(gen, member) ==
    CASE member = BOOL -> I8
      [] member \in {INT, FLOAT} -> Value(member)
      [] OTHER -> Pointer(TypesMap(gen, member))

\* The buffer of an array, by the number of its element type.
BufferValue(gen, element) ==
    LET pointer == Pointer(TypesMap(gen, element)) IN
    IF element >= FirstUserId THEN Pointer(pointer) ELSE pointer

\* The stores of the constructor into a struct of that layout.
ConstructorStores(env, gen, type, layout) ==
    LET values == IF type.kind = "record"
                  THEN [k \in DOMAIN type.members |-> InitialValue(gen, type.members[k].type)]
                  ELSE <<Generate(env, gen, type.size), BufferValue(gen, type.base)>>
    IN [k \in DOMAIN values |-> StoreTo(Pointer(layout[k]), values[k])]
==============================================================================

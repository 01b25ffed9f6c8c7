----------------------------- MODULE LexicalEnv -----------------------------
(***************************************************************************)
(* What the scope tree promises the semantic pass: a lexical environment.  *)
(* It is a stack of frames, the program's own frame at the bottom, each    *)
(* binding identifiers; an identifier means its binding in the topmost     *)
(* frame that has one.  There are no tree, no parents and no tables: what  *)
(* is popped is gone.                                                      *)
(***************************************************************************)
EXTENDS Integers, Sequences

CONSTANTS Idents, Names, NoName

VARIABLES
    env,       \* the frames, the innermost last
    answers    \* what identifiers were told to mean

Frame == [Idents -> Names \cup {NoName}]
EmptyFrame == [x \in Idents |-> NoName]

Binding(frames, x) ==
    LET having == {i \in 1 .. Len(frames) : frames[i][x] # NoName} IN
    IF having = {} THEN NoName
    ELSE frames[CHOOSE i \in having : \A j \in having : j <= i][x]

Answer(frames, x) == [ident |-> x, name |-> Binding(frames, x)]

(***************************************************************************)
(* Identifiers may be looked up in a step, before or after it changes env. *)
(***************************************************************************)
Asked ==
    /\ answers \subseteq answers'
    /\ \A a \in answers' \ answers :
          a.ident \in Idents /\ a \in {Answer(env, a.ident), Answer(env, a.ident)'}

Init ==
    /\ env = <<EmptyFrame>>
    /\ answers = {}

Push ==
    /\ Len(env') = Len(env) + 1
    /\ env' = Append(env, env'[Len(env')])
    /\ env'[Len(env')] \in Frame
    /\ Asked

Pop ==
    /\ Len(env) > 1
    /\ env' = SubSeq(env, 1, Len(env) - 1)
    /\ UNCHANGED answers

\* A false body replaces the true body of the same statement.
Replace ==
    /\ Len(env) > 1
    /\ env' = [env EXCEPT ![Len(env)] = EmptyFrame]
    /\ UNCHANGED answers

Bind ==
    /\ \E x \in Idents :
          /\ env'[Len(env)][x] \in Names
          /\ env' = [env EXCEPT ![Len(env)][x] = env'[Len(env)][x]]
    /\ Asked

Ask == Asked /\ UNCHANGED env

Next == Push \/ Pop \/ Replace \/ Bind \/ Ask

Spec == Init /\ [][Next]_<<env, answers>>
=============================================================================

------------------------------- MODULE Lexer -------------------------------
(***************************************************************************)
(* The lexer (src/src/Lexer.cpp): GetToken reads the input one character   *)
(* at a time with one character of lookahead, which stays uncommitted      *)
(* until the next token takes it.  One step is one ReadChar and what       *)
(* GetToken's loop does with the character.                                *)
(*                                                                         *)
(* All of this state is global and is not reset between the compilations   *)
(* that one process runs; NextCompilation is SetLexerInput followed by the *)
(* parser's first call.                                                    *)
(***************************************************************************)
EXTENDS Integers, Sequences, FiniteSets

CONSTANTS
    Letters,          \* characters that may start an identifier
    Digits,
    Reserved,         \* the keys of symbolMap, as sequences of characters
    Inputs,           \* the files that the process may compile first
    LaterInputs,      \* the files that it may compile after another
    MaxCompilations   \* bound: compilations of one process

Blank == " "
NewLine == "nl"
Quote == "quote"
Dot == "."
Slash == "/"
EOF == "EOF"

Chars == Letters \cup Digits \cup UNION {{s[i] : i \in DOMAIN s} : s \in Reserved \cup Inputs \cup LaterInputs}

\* Names and files are texts.  A byte 255, which a char cannot tell from EOF, is in none.
ASSUME TextAssumption ==
    /\ Reserved \cup Inputs \cup LaterInputs \subseteq Seq(Chars)
    /\ EOF \notin Chars

ASSUME ReservedAssumption ==
    /\ Letters \cap Digits = {}
    /\ {<<Blank>>, <<NewLine>>, <<Quote>>, <<Dot>>, <<Slash>>} \subseteq Reserved
    /\ \A s \in Reserved : s # <<>> /\ s[1] \notin Digits
    /\ MaxCompilations \in Nat \ {0}

VARIABLES
    input, pos,                  \* the file and the characters read from it
    currentChar, committed,
    currentLine, currentPosition, lastWasNewLine,
    mode,                        \* where GetToken is
    currentString,
    spans,                       \* history: the pieces the input was cut into
    from, tokenLine, tokenPosition,
    compilations

readVars == <<pos, currentChar, currentLine, currentPosition, lastWasNewLine>>
tokenVars == <<from, tokenLine, tokenPosition>>
vars == <<input, readVars, committed, mode, currentString, spans, tokenVars, compilations>>

\* "spin" stands for the loop that keeps reading past the end of the input.
Modes == {"start", "loop", "comment", "string", "spin", "stopped", "exited"}

-----------------------------------------------------------------------------
IsDigit(c) == c \in Digits
IsGoodForStartIdentifier(c) == c \in Letters
IsGoodForIdentifier(c) == IsDigit(c) \/ IsGoodForStartIdentifier(c)
IsReserved(s) == s \in Reserved

HasDot(s) == \E i \in DOMAIN s : s[i] = Dot

\* The slip of counting a line when its line end is read.
ReadCharEagerLine ==
    IF ~committed THEN UNCHANGED readVars
    ELSE LET more == pos < Len(input)
             buffer == IF more THEN input[pos + 1] ELSE currentChar
         IN /\ pos' = IF more THEN pos + 1 ELSE pos
            /\ currentChar' = IF more THEN buffer ELSE EOF
            /\ currentLine' = IF buffer = NewLine THEN currentLine + 1 ELSE currentLine
            /\ currentPosition' = IF buffer = NewLine THEN 0 ELSE currentPosition + 1
            /\ lastWasNewLine' = (buffer = NewLine)

\* The slip of not looking at what fread returned.
ReadCharUnchecked ==
    IF ~committed THEN UNCHANGED readVars
    ELSE /\ pos' = pos + 1
         /\ currentChar' = IF pos < Len(input) THEN input[pos + 1] ELSE currentChar
         /\ currentLine' = IF lastWasNewLine THEN currentLine + 1 ELSE currentLine
         /\ currentPosition' = IF lastWasNewLine THEN 1 ELSE currentPosition + 1
         /\ lastWasNewLine' = (currentChar' = NewLine)

(***************************************************************************)
(* ReadChar.  At the end of the input fread leaves the buffer as it is, so *)
(* the test for a line end sees the previous character once more.          *)
(***************************************************************************)
ReadChar ==
    IF ~committed THEN UNCHANGED readVars
    ELSE LET more == pos < Len(input)
             buffer == IF more THEN input[pos + 1] ELSE currentChar
         IN /\ pos' = IF more THEN pos + 1 ELSE pos
            /\ currentChar' = IF more THEN buffer ELSE EOF
            /\ currentLine' = IF lastWasNewLine THEN currentLine + 1 ELSE currentLine
            /\ currentPosition' = IF lastWasNewLine THEN 1 ELSE currentPosition + 1
            /\ lastWasNewLine' = (buffer = NewLine)

\* Return a token (or skip a piece) without the character just read.
Return(type, lexeme) ==
    /\ spans' = Append(spans, [type |-> type, from |-> from, lexeme |-> lexeme,
                               line |-> tokenLine, position |-> tokenPosition])
    /\ mode' = "start"
    /\ committed' = FALSE
    /\ currentString' = <<>>
    /\ UNCHANGED <<input, tokenVars, compilations>>

\* Take the character just read into the current string.
Take(c, newMode) ==
    /\ currentString' = Append(currentString, c)
    /\ mode' = newMode
    /\ committed' = TRUE
    /\ UNCHANGED <<input, spans, tokenVars, compilations>>

\* The slip of a token that ends the input and leaves its last character pending.
StopPending(type, lexeme, start) ==
    /\ spans' = Append(spans, [type |-> type, from |-> start, lexeme |-> lexeme,
                               line |-> tokenLine', position |-> tokenPosition'])
    /\ mode' = "stopped"
    /\ committed' = FALSE
    /\ currentString' = <<>>
    /\ UNCHANGED <<input, compilations>>

\* A token the parser takes for the end of the input: -1, -2, or the string literal's 0.
Stop(type, lexeme, start) ==
    /\ spans' = Append(spans, [type |-> type, from |-> start, lexeme |-> lexeme,
                               line |-> tokenLine', position |-> tokenPosition'])
    /\ mode' = "stopped"
    /\ committed' = TRUE
    /\ currentString' = <<>>
    /\ UNCHANGED <<input, compilations>>

-----------------------------------------------------------------------------
(* GetToken up to its loop.                                                *)
StartToken ==
    /\ mode = "start"
    /\ ReadChar
    /\ tokenLine' = currentLine'
    /\ tokenPosition' = currentPosition'
    /\ from' = pos'
    /\ \/ /\ currentChar' = EOF
          /\ Stop("end", <<>>, pos' + 1)
       \/ /\ currentChar' # EOF
          /\ ~IsReserved(<<currentChar'>>) /\ ~IsGoodForIdentifier(currentChar')
          /\ Stop("error", <<currentChar'>>, pos')
       \/ /\ IsReserved(<<currentChar'>>) \/ IsGoodForIdentifier(currentChar')
          /\ currentString' = <<currentChar'>>
          /\ mode' = IF currentChar' = Quote THEN "string" ELSE "loop"
          /\ committed' = TRUE
          /\ UNCHANGED <<input, spans, compilations>>

First == currentString[1]

ScanIdentifier ==
    /\ mode = "loop" /\ IsGoodForStartIdentifier(First)
    /\ ReadChar
    /\ IF IsGoodForIdentifier(currentChar') THEN Take(currentChar', "loop")
       ELSE Return(IF IsReserved(currentString) THEN "reserved" ELSE "identifier", currentString)

\* The slip of forgetting that a dot was read.
ScanNumberDots ==
    /\ mode = "loop" /\ IsDigit(First)
    /\ ReadChar
    /\ IF IsDigit(currentChar') \/ currentChar' = Dot
       THEN Take(currentChar', "loop")
       ELSE Return(IF HasDot(currentString) THEN "real" ELSE "integer", currentString)

\* One dot is taken; what follows a second one is not part of the literal.
ScanNumber ==
    /\ mode = "loop" /\ IsDigit(First)
    /\ ReadChar
    /\ IF IsDigit(currentChar') \/ (currentChar' = Dot /\ ~HasDot(currentString))
       THEN Take(currentChar', "loop")
       ELSE Return(IF HasDot(currentString) THEN "real" ELSE "integer", currentString)

\* A blank is skipped by the recursive call in GetReserved.
ScanSymbol ==
    /\ mode = "loop" /\ ~IsGoodForIdentifier(First)
    /\ ReadChar
    /\ LET longer == Append(currentString, currentChar') IN
       IF IsReserved(longer) THEN Take(currentChar', "loop")
       ELSE IF longer = <<Slash, Slash>> THEN Take(currentChar', "comment")
       ELSE Return(IF currentString = <<Blank>> THEN "blank" ELSE "reserved", currentString)

\* Neither loop looks for the end of the input: it appends EOF for ever.
Spin ==
    /\ mode' = "spin"
    /\ committed' = TRUE
    /\ UNCHANGED <<input, currentString, spans, tokenVars, compilations>>

\* The slip of a comment whose end is not looked for.
ScanCommentToEnd ==
    /\ mode = "comment"
    /\ ReadChar
    /\ IF currentChar' = EOF THEN Spin ELSE Take(currentChar', "comment")

ScanComment ==
    /\ mode = "comment"
    /\ ReadChar
    /\ IF currentChar' = EOF THEN Spin
       ELSE IF currentChar' = NewLine THEN Return("comment", currentString)
       ELSE Take(currentChar', "comment")

ScanString ==
    /\ mode = "string"
    /\ ReadChar
    /\ IF currentChar' = EOF THEN Spin
       ELSE IF currentChar' # Quote THEN Take(currentChar', "string")
       ELSE /\ UNCHANGED tokenVars
            /\ Stop("string", Append(currentString, Quote), from)

\* yyerror: the parser does not accept what it was given, and the process exits.
ParsingError ==
    /\ mode \in {"start", "stopped"} /\ spans # <<>>
    /\ spans[Len(spans)].type \notin {"blank", "comment"}
    /\ mode' = "exited"
    /\ UNCHANGED <<input, readVars, committed, currentString, spans, tokenVars, compilations>>

NextCompilation ==
    /\ mode = "stopped" /\ compilations < MaxCompilations
    /\ compilations' = compilations + 1
    /\ input' \in LaterInputs
    /\ pos' = 0
    /\ mode' = "start"
    /\ spans' = <<>>
    /\ UNCHANGED <<currentChar, committed, currentLine, currentPosition, lastWasNewLine>>
    /\ UNCHANGED <<currentString, tokenVars>>

Init ==
    /\ input \in Inputs
    /\ pos = 0 /\ currentChar = "NUL" /\ committed = TRUE
    /\ currentLine = 1 /\ currentPosition = 0 /\ lastWasNewLine = FALSE
    /\ mode = "start" /\ currentString = <<>> /\ spans = <<>>
    /\ from = 0 /\ tokenLine = 0 /\ tokenPosition = 0
    /\ compilations = 1

GetToken ==
    StartToken \/ ScanIdentifier \/ ScanNumber \/ ScanSymbol \/ ScanComment \/ ScanString

Next == GetToken \/ ParsingError \/ NextCompilation

(***************************************************************************)
(* The parser asks for tokens until it is given one that ends the input.   *)
(***************************************************************************)
Spec == Init /\ [][Next]_vars /\ WF_vars(GetToken)

-----------------------------------------------------------------------------
(* Properties                                                              *)

Piece == [type : {"identifier", "reserved", "integer", "real", "string",
                  "blank", "comment", "end", "error"},
          from : Nat, lexeme : Seq(Chars), line : Nat, position : Nat]

(***************************************************************************)
(* Every variable has its type: what GetToken has read and returned is     *)
(* made of characters of the file.                                         *)
(***************************************************************************)
TypeOK ==
    /\ input \in Inputs \cup LaterInputs /\ pos \in 0 .. Len(input)
    /\ currentChar \in Chars \cup {EOF, "NUL"} /\ committed \in BOOLEAN
    /\ currentLine \in Nat /\ currentPosition \in Nat /\ lastWasNewLine \in BOOLEAN
    /\ mode \in Modes
    /\ currentString \in Seq(Chars)
    /\ spans \in Seq(Piece)
    /\ from \in Nat /\ tokenLine \in Nat /\ tokenPosition \in Nat
    /\ compilations \in 1 .. MaxCompilations

\* The characters GetToken has taken: those read, without the lookahead.
Consumed == IF committed \/ currentChar = EOF THEN pos ELSE pos - 1

\* The place after piece i.
After(i) == IF i = 0 THEN 1 ELSE spans[i].from + Len(spans[i].lexeme)

(***************************************************************************)
(* GetToken loses, repeats and invents no character, whatever is pending   *)
(* between two calls and whatever an earlier compilation left in the       *)
(* lexer's globals: the pieces follow one another and spell the file.      *)
(***************************************************************************)
Lossless ==
    /\ \A i \in DOMAIN spans :
          /\ spans[i].from = After(i - 1)
          /\ spans[i].lexeme = SubSeq(input, spans[i].from, After(i) - 1)
    /\ currentString = SubSeq(input, After(Len(spans)), Consumed)

IsWord(s) ==
    /\ s # <<>> /\ s[1] \in Letters
    /\ \A i \in DOMAIN s : s[i] \in Letters \cup Digits
IsNumber(s) ==
    /\ s # <<>> /\ s[1] \in Digits
    /\ \A i \in DOMAIN s : s[i] \in Digits \cup {Dot}
    /\ \A i, j \in DOMAIN s : s[i] = Dot /\ s[j] = Dot => i = j
IsSymbol(s) == s \in Reserved /\ ~IsWord(s)

\* The words of a class are cut where no longer one of the class is there.
Longest(InClass(_), piece) ==
    /\ InClass(piece.lexeme)
    /\ LET next == piece.from + Len(piece.lexeme) IN
       next <= Len(input) => ~InClass(Append(piece.lexeme, input[next]))

(***************************************************************************)
(* The pieces are the ones maximal munch gives: a word, number or symbol   *)
(* of the language that the next character does not extend, a word is      *)
(* reserved exactly when symbolMap has it, a number has at most one dot    *)
(* and is real exactly when it has one, and a comment runs to its line end.*)
(***************************************************************************)
LongestMatch ==
    \A i \in DOMAIN spans :
        LET p == spans[i] IN
        CASE p.type = "identifier" -> Longest(IsWord, p) /\ p.lexeme \notin Reserved
          [] p.type = "reserved" ->
                 /\ p.lexeme \in Reserved
                 /\ Longest(IsWord, p) \/ Longest(IsSymbol, p)
          [] p.type = "integer" -> Longest(IsNumber, p) /\ Dot \notin {p.lexeme[j] : j \in DOMAIN p.lexeme}
          [] p.type = "real" -> Longest(IsNumber, p) /\ Dot \in {p.lexeme[j] : j \in DOMAIN p.lexeme}
          [] p.type = "comment" ->
                 /\ SubSeq(p.lexeme, 1, 2) = <<Slash, Slash>>
                 /\ NewLine \notin {p.lexeme[j] : j \in DOMAIN p.lexeme}
                 /\ input[After(i)] = NewLine
          [] p.type = "string" ->
                 {j \in DOMAIN p.lexeme : p.lexeme[j] = Quote} = {1, Len(p.lexeme)}
          [] OTHER -> TRUE

(***************************************************************************)
(* In the first compilation the position kept with a token is where its    *)
(* first character stands: the line end belongs to the line it ends.       *)
(***************************************************************************)
LinesCounted ==
    compilations = 1 =>
        \A i \in DOMAIN spans :
            LET before == {j \in 1 .. spans[i].from - 1 : input[j] = NewLine} IN
            /\ spans[i].line = Cardinality(before) + 1
            /\ \/ before = {} /\ spans[i].position = spans[i].from
               \/ \E j \in before : /\ \A k \in before : k <= j
                                    /\ spans[i].position = spans[i].from - j

(***************************************************************************)
(* The file leaves no comment and no string open.  A string or a character *)
(* that starts nothing ends what is read of it.                            *)
(***************************************************************************)
Closed(s) ==
    LET At[n \in 0 .. Len(s)] ==
            IF n = 0 THEN "text"
            ELSE LET was == At[n - 1]  c == s[n] IN
                 CASE was = "string" -> IF c = Quote THEN "over" ELSE "string"
                   [] was = "comment" -> IF c = NewLine THEN "text" ELSE "comment"
                   [] was = "over" -> "over"
                   [] was = "slash" /\ c = Slash -> "comment"
                   [] OTHER -> CASE c = Quote -> "string"
                                 [] c = Slash -> "slash"
                                 [] <<c>> \in Reserved \/ IsGoodForIdentifier(c) -> "text"
                                 [] OTHER -> "over"
    IN At[Len(s)] \notin {"string", "comment"}

(***************************************************************************)
(* GetToken comes to the end of every file that leaves no comment and no   *)
(* string open, unless the parser rejects the file first.                  *)
(***************************************************************************)
Terminates == mode = "start" /\ Closed(input) ~> mode \in {"stopped", "exited"}

(***************************************************************************)
(* symbolMap's own claim (src/src/Lexer.cpp:30-78): every string it lists  *)
(* is a token.  So a file that starts with one, and goes on with a blank,  *)
(* has it for its first piece.                                             *)
(***************************************************************************)
EverySymbolIsRead ==
    \A s \in Reserved :
        /\ spans # <<>> /\ s \notin {<<Blank>>, <<Quote>>}
        /\ Len(input) > Len(s) /\ SubSeq(input, 1, Len(s) + 1) = Append(s, Blank)
        => spans[1].lexeme = s
=============================================================================

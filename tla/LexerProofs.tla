---------------------------- MODULE LexerProofs ----------------------------
(***************************************************************************)
(* Theorems of the lexer, for any alphabet, any table of reserved strings, *)
(* any files and any number of compilations: nothing of a file is lost,    *)
(* the pieces are those of maximal munch, and they stand where they say.   *)
(***************************************************************************)
EXTENDS Lexer, TLAPS, SequenceTheorems, FiniteSetTheorems

Scanning == {"loop", "comment", "string"}

\* What the next call of ReadChar finds: nothing is pending at the start of a
\* file, the last character taken is the last one read while GetToken loops,
\* and what is pending is the last character read, or the end of the file.
Reading ==
    /\ mode = "start" /\ committed => pos = 0 /\ spans = <<>>
    /\ mode \in Scanning => committed /\ pos > 0 /\ currentChar = input[pos]
    /\ ~committed => /\ mode \in {"start", "exited"}
                     /\ \/ currentChar = EOF /\ pos = Len(input)
                        \/ pos > 0 /\ currentChar = input[pos]

\* s stands in the text from place k on.
Spells(text, s, k) ==
    /\ k \in Nat \ {0} /\ k + Len(s) - 1 <= Len(text)
    /\ \A j \in 1 .. Len(s) : text[k + j - 1] = s[j]

\* The pieces and the current string cover what was read, without the lookahead.
Tiled ==
    /\ \A i \in 1 .. Len(spans) :
          spans[i].from = After(i - 1) /\ Spells(input, spans[i].lexeme, spans[i].from)
    /\ Spells(input, currentString, After(Len(spans)))
    /\ After(Len(spans)) + Len(currentString) = Consumed + 1
    /\ mode \in Scanning => currentString # <<>> /\ from = After(Len(spans))
    /\ mode \in {"start", "stopped"} => currentString = <<>>

IsComment(s) ==
    /\ Len(s) >= 2 /\ s[1] = Slash /\ s[2] = Slash
    /\ \A j \in 1 .. Len(s) : s[j] # NewLine

\* What the current string is a beginning of.
Words ==
    /\ mode = "loop" /\ First \in Letters => IsWord(currentString)
    /\ mode = "loop" /\ First \in Digits => IsNumber(currentString)
    /\ mode = "loop" /\ First \notin Letters \cup Digits => currentString \in Reserved
    /\ mode = "comment" => IsComment(currentString)
    /\ mode = "string" => \A j \in 1 .. Len(currentString) : currentString[j] = Quote <=> j = 1

\* LongestMatch, said of one piece: its class, and what follows it in the text.
InItsClass(p) ==
    /\ p.type = "identifier" => IsWord(p.lexeme) /\ p.lexeme \notin Reserved
    /\ p.type = "reserved" => p.lexeme \in Reserved
    /\ p.type = "integer" => IsNumber(p.lexeme) /\ ~HasDot(p.lexeme)
    /\ p.type = "real" => IsNumber(p.lexeme) /\ HasDot(p.lexeme)
    /\ p.type = "comment" => IsComment(p.lexeme)
    /\ p.type = "string" =>
           /\ Len(p.lexeme) > 1
           /\ \A j \in 1 .. Len(p.lexeme) : p.lexeme[j] = Quote <=> j \in {1, Len(p.lexeme)}

EndsWhereItMust(text, p) ==
    LET next == p.from + Len(p.lexeme) IN
    /\ next <= Len(text) =>
           /\ p.type \in {"identifier", "reserved"} /\ IsWord(p.lexeme) =>
                  ~IsWord(Append(p.lexeme, text[next]))
           /\ p.type = "reserved" /\ ~IsWord(p.lexeme) => Append(p.lexeme, text[next]) \notin Reserved
           /\ p.type \in {"integer", "real"} => ~IsNumber(Append(p.lexeme, text[next]))
    /\ p.type = "comment" => text[next] = NewLine

Munched(text, p) == InItsClass(p) /\ EndsWhereItMust(text, p)

AllMunched == \A i \in 1 .. Len(spans) : Munched(input, spans[i])

\* The place of the current character: the end of the file is behind the last one.
Place == IF currentChar = EOF THEN pos + 1 ELSE pos

LineEnds(text, k) == {j \in 1 .. k - 1 : text[j] = NewLine}

StandsAt(text, line, position, k) ==
    /\ line = Cardinality(LineEnds(text, k)) + 1
    /\ \/ LineEnds(text, k) = {} /\ position = k
       \/ \E j \in LineEnds(text, k) : /\ \A i \in LineEnds(text, k) : i <= j
                                       /\ position = k - j

\* The counters are those of the current character, and a token keeps them.
Counted ==
    /\ StandsAt(input, currentLine, currentPosition, Place)
    /\ currentChar # EOF => (lastWasNewLine <=> pos > 0 /\ input[pos] = NewLine)
    /\ mode = "start" /\ committed => currentChar # EOF
    /\ mode \in Scanning => StandsAt(input, tokenLine, tokenPosition, from)

PiecesCounted ==
    \A i \in 1 .. Len(spans) :
        StandsAt(input, spans[i].line, spans[i].position, spans[i].from)

Lines == compilations = 1 => Counted /\ PiecesCounted

LexInv == TypeOK /\ Reading /\ Tiled /\ Words /\ AllMunched /\ Lines

-----------------------------------------------------------------------------
(***************************************************************************)
(* A file is a text, and EOF is no character of it.                        *)
(***************************************************************************)
LEMMA InputIsText ==
    ASSUME TypeOK
    PROVE  /\ input \in Seq(Chars) /\ Len(input) \in Nat
           /\ \A i \in 1 .. Len(input) : input[i] \in Chars /\ input[i] # EOF
           /\ pos \in Nat /\ pos <= Len(input)
           /\ spans \in Seq(Piece) /\ Len(spans) \in Nat
           /\ currentString \in Seq(Chars) /\ Len(currentString) \in Nat
<1>1. input \in Seq(Chars)
  BY TextAssumption DEF TypeOK
<1>2. \A i \in 1 .. Len(input) : input[i] \in Chars
  BY <1>1
<1> QED BY <1>1, <1>2, TextAssumption DEF TypeOK

(***************************************************************************)
(* The place behind one that is not past the end is at most the end.       *)
(***************************************************************************)
LEMMA PlaceBehind ==
    ASSUME NEW n \in Nat, NEW m \in Nat, n <= m
    PROVE  n + 1 \in Nat \ {0} /\ n + 1 <= m + 1
OBVIOUS

(***************************************************************************)
(* ReadChar takes the next character of the file, or finds its end.        *)
(***************************************************************************)
LEMMA NextChar ==
    ASSUME TypeOK, committed, ReadChar
    PROVE  /\ \/ /\ pos < Len(input) /\ pos' = pos + 1
                 /\ currentChar' = input[pos + 1]
                 /\ currentChar' \in Chars /\ currentChar' # EOF
              \/ pos = Len(input) /\ pos' = pos /\ currentChar' = EOF
           /\ pos' \in 0 .. Len(input) /\ currentChar' \in Chars \cup {EOF, "NUL"}
           /\ currentLine' \in Nat /\ currentPosition' \in Nat /\ lastWasNewLine' \in BOOLEAN
<1>1. /\ Len(input) \in Nat /\ pos \in Nat /\ pos <= Len(input)
      /\ \A i \in 1 .. Len(input) : input[i] \in Chars /\ input[i] # EOF
      /\ currentLine \in Nat /\ currentPosition \in Nat /\ lastWasNewLine \in BOOLEAN
  BY InputIsText DEF TypeOK
<1>2. currentLine' \in Nat /\ currentPosition' \in Nat
  BY <1>1 DEF ReadChar
<1>3. lastWasNewLine' \in BOOLEAN
  BY DEF ReadChar
<1>4. CASE pos < Len(input)
  <2>1. pos' = pos + 1 /\ currentChar' = input[pos + 1]
    BY <1>4 DEF ReadChar
  <2> QED BY <1>1, <1>2, <1>3, <1>4, <2>1
<1>5. CASE ~(pos < Len(input))
  <2>1. pos' = pos /\ currentChar' = EOF
    BY <1>5 DEF ReadChar
  <2> QED BY <1>1, <1>2, <1>3, <1>5, <2>1
<1> QED BY <1>4, <1>5

(***************************************************************************)
(* A string of a class grows by a character.                               *)
(***************************************************************************)
LEMMA Grown ==
    ASSUME NEW S, NEW s \in Seq(S), NEW c \in S
    PROVE  /\ Append(s, c) \in Seq(S) /\ Append(s, c) # <<>>
           /\ Len(s) \in Nat /\ Len(Append(s, c)) = Len(s) + 1
           /\ \A j \in 1 .. Len(s) : Append(s, c)[j] = s[j]
           /\ Append(s, c)[Len(s) + 1] = c
           /\ s # <<>> => Len(s) >= 1 /\ Append(s, c)[1] = s[1]
<1>1. s # <<>> => Len(s) \in Nat \ {0}
  BY EmptySeq
<1> QED BY <1>1, AppendProperties

(***************************************************************************)
(* What stands in the text still does with the character that follows it.  *)
(***************************************************************************)
LEMMA SpellsMore ==
    ASSUME NEW text \in Seq(Chars), NEW s \in Seq(Chars), NEW k, Spells(text, s, k),
           k + Len(s) <= Len(text)
    PROVE  /\ Spells(text, Append(s, text[k + Len(s)]), k)
           /\ Append(s, text[k + Len(s)]) \in Seq(Chars)
<1> DEFINE c == text[k + Len(s)]
<1>1. k \in Nat \ {0} /\ Len(s) \in Nat /\ Len(text) \in Nat /\ k + Len(s) \in 1 .. Len(text)
  BY DEF Spells
<1>2. c \in Chars
  BY <1>1
<1>3. /\ Append(s, c) \in Seq(Chars) /\ Len(Append(s, c)) = Len(s) + 1
      /\ \A j \in 1 .. Len(s) : Append(s, c)[j] = s[j]
      /\ Append(s, c)[Len(s) + 1] = c
  BY <1>2, Grown
<1>4. ASSUME NEW j \in 1 .. Len(s) + 1 PROVE text[k + j - 1] = Append(s, c)[j]
  <2>1. CASE j \in 1 .. Len(s)
    BY <1>3, <2>1 DEF Spells
  <2>2. CASE j = Len(s) + 1
    <3>1. k + j - 1 = k + Len(s)
      BY <1>1, <2>2
    <3> QED BY <1>3, <2>2, <3>1
  <2> QED BY <1>1, <2>1, <2>2
<1> HIDE DEF c
<1>5. Spells(text, Append(s, c), k)
  BY <1>1, <1>3, <1>4 DEF Spells
<1> QED BY <1>3, <1>5 DEF c

(***************************************************************************)
(* The empty string stands everywhere, behind the text too.                *)
(***************************************************************************)
LEMMA NothingSpelled ==
    ASSUME NEW text, Len(text) \in Nat, NEW k \in Nat \ {0}, k <= Len(text) + 1
    PROVE  Spells(text, <<>>, k)
BY EmptySeq DEF Spells

(***************************************************************************)
(* What stands in the text is a part of it.                                *)
(***************************************************************************)
LEMMA SpelledPart ==
    ASSUME NEW text \in Seq(Chars), NEW s \in Seq(Chars), NEW k, Spells(text, s, k)
    PROVE  s = SubSeq(text, k, k + Len(s) - 1)
<1> DEFINE n == k + Len(s) - 1
<1>1. k \in Nat \ {0} /\ Len(s) \in Nat /\ n \in Int /\ n <= Len(text) /\ Len(text) \in Nat
  BY DEF Spells
<1>2. \A i \in k .. n : text[i] \in Chars
  BY <1>1
<1>3. /\ SubSeq(text, k, n) \in Seq(Chars)
      /\ Len(SubSeq(text, k, n)) = IF k <= n THEN n - k + 1 ELSE 0
      /\ \A i \in 1 .. n - k + 1 : SubSeq(text, k, n)[i] = text[k + i - 1]
  BY <1>1, <1>2, SubSeqProperties
<1>4. Len(SubSeq(text, k, n)) = Len(s) /\ n - k + 1 = Len(s)
  BY <1>1, <1>3
<1> HIDE DEF n
<1>5. \A i \in 1 .. Len(s) : s[i] = SubSeq(text, k, n)[i]
  BY <1>3, <1>4 DEF Spells
<1>6. s = SubSeq(text, k, n)
  BY <1>3, <1>4, <1>5, SeqEqual
<1> QED BY <1>6 DEF n

(***************************************************************************)
(* A new piece continues the pieces, and what is known of the earlier ones *)
(* stays.                                                                  *)
(***************************************************************************)
LEMMA PieceAdded ==
    ASSUME TypeOK, Tiled, AllMunched, NEW piece \in Piece,
           spans' = Append(spans, piece), input' = input,
           piece.from = After(Len(spans)), Spells(input, piece.lexeme, piece.from),
           Munched(input, piece)
    PROVE  /\ spans' \in Seq(Piece) /\ Len(spans') = Len(spans) + 1
           /\ After(Len(spans))' = piece.from + Len(piece.lexeme)
           /\ (\A i \in 1 .. Len(spans) :
                 spans[i].from = After(i - 1) /\ Spells(input, spans[i].lexeme, spans[i].from))'
           /\ AllMunched'
<1>1. spans \in Seq(Piece) /\ Len(spans) \in Nat
  BY InputIsText
<1>2. /\ spans' \in Seq(Piece) /\ Len(spans') = Len(spans) + 1
      /\ \A i \in 1 .. Len(spans) : spans'[i] = spans[i]
      /\ spans'[Len(spans) + 1] = piece
  BY <1>1, AppendProperties
<1>3. After(Len(spans))' = piece.from + Len(piece.lexeme)
  BY <1>1, <1>2 DEF After
<1>4. AllMunched'
  BY <1>1, <1>2 DEF AllMunched
<1>5. ASSUME NEW i \in 1 .. Len(spans') 
      PROVE  /\ spans'[i].from = IF i - 1 = 0 THEN 1 ELSE spans'[i - 1].from + Len(spans'[i - 1].lexeme)
             /\ Spells(input', spans'[i].lexeme, spans'[i].from)
  <2>1. CASE i = Len(spans) + 1
    BY <1>1, <1>2, <2>1 DEF After
  <2>2. CASE i \in 1 .. Len(spans)
    BY <1>1, <1>2, <2>2 DEF Tiled, After
  <2> QED BY <1>1, <1>2, <2>1, <2>2
<1>6. (\A i \in 1 .. Len(spans) :
          spans[i].from = After(i - 1) /\ Spells(input, spans[i].lexeme, spans[i].from))'
  BY <1>5 DEF After
<1> QED BY <1>2, <1>3, <1>4, <1>6

(***************************************************************************)
(* Behind a character that ends a line the next line begins, and behind    *)
(* any other one the line goes on.                                         *)
(***************************************************************************)
LEMMA NextPlace ==
    ASSUME NEW text, NEW line \in Nat, NEW position \in Nat, NEW k \in Nat,
           StandsAt(text, line, position, k)
    PROVE  /\ k > 0 /\ text[k] = NewLine => StandsAt(text, line + 1, 1, k + 1)
           /\ ~(k > 0 /\ text[k] = NewLine) => StandsAt(text, line, position + 1, k + 1)
<1> DEFINE before == LineEnds(text, k)
           after == LineEnds(text, k + 1)
<1>1. before \subseteq 1 .. k - 1 /\ IsFiniteSet(before)
  <2>1. before \subseteq 1 .. k - 1
    BY DEF LineEnds
  <2>2. IsFiniteSet(1 .. k - 1)
    BY FS_Interval
  <2> QED BY <2>1, <2>2, FS_Subset
<1>2. line = Cardinality(before) + 1 /\ Cardinality(before) \in Nat
  BY <1>1, FS_CardinalityType DEF StandsAt
<1>3. /\ before = {} => position = k
      /\ before # {} => \E j \in before : /\ \A i \in before : i <= j
                                          /\ position = k - j
  BY DEF StandsAt
<1>4. CASE k > 0 /\ text[k] = NewLine
  <2>1. after = before \cup {k}
    BY <1>4 DEF LineEnds
  <2>2. k \notin before
    BY <1>1
  <2> HIDE DEF before, after
  <2>3. Cardinality(after) = Cardinality(before) + 1
    BY <1>1, <2>1, <2>2, FS_AddElement
  <2>4. /\ k \in after /\ \A i \in after : i <= k
    BY <1>1, <2>1
  <2> QED BY <1>2, <1>4, <2>3, <2>4 DEF StandsAt, after
<1>5. CASE ~(k > 0 /\ text[k] = NewLine)
  <2>1. after = before
    BY <1>5 DEF LineEnds
  <2> HIDE DEF before, after
  <2>2. CASE before = {}
    BY <1>2, <1>3, <1>5, <2>1, <2>2 DEF StandsAt, after
  <2>3. CASE before # {}
    <3>1. PICK j \in before : (\A i \in before : i <= j) /\ position = k - j
      BY <1>3, <2>3
    <3>2. j \in Int /\ position + 1 = k + 1 - j
      BY <1>1, <3>1
    <3>3. j \in after /\ \A i \in after : i <= j
      BY <2>1, <3>1
    <3>4. line = Cardinality(after) + 1
      BY <1>2, <2>1
    <3>5. StandsAt(text, line, position + 1, k + 1)
      BY <3>2, <3>3, <3>4 DEF StandsAt, after
    <3> QED BY <1>5, <3>5
  <2> QED BY <2>2, <2>3
<1> QED BY <1>4, <1>5

(***************************************************************************)
(* ReadChar counts the character it leaves behind, and what it finds at    *)
(* the end of the file stands behind the last character.                   *)
(***************************************************************************)
LEMMA ReadCounts ==
    ASSUME TypeOK, Counted, committed, ReadChar, currentChar # EOF, input' = input
    PROVE  /\ StandsAt(input, currentLine, currentPosition, Place)'
           /\ currentChar' # EOF => (lastWasNewLine' <=> pos' > 0 /\ input[pos'] = NewLine)
<1>1. /\ pos \in Nat /\ currentLine \in Nat /\ currentPosition \in Nat
      /\ Place = pos /\ lastWasNewLine \in BOOLEAN
  BY InputIsText DEF TypeOK, Place
<1>2. StandsAt(input, currentLine, currentPosition, pos)
  BY <1>1 DEF Counted
<1>3. Place' = pos + 1
  BY NextChar DEF Place
<1>4. lastWasNewLine <=> pos > 0 /\ input[pos] = NewLine
  BY DEF Counted
<1>5. StandsAt(input, currentLine', currentPosition', pos + 1)
  <2>1. CASE lastWasNewLine
    <3>1. currentLine' = currentLine + 1 /\ currentPosition' = 1
      BY <2>1 DEF ReadChar
    <3> QED BY <1>1, <1>2, <1>4, <2>1, <3>1, NextPlace
  <2>2. CASE ~lastWasNewLine
    <3>1. currentLine' = currentLine /\ currentPosition' = currentPosition + 1
      BY <2>2 DEF ReadChar
    <3> QED BY <1>1, <1>2, <1>4, <2>2, <3>1, NextPlace
  <2> QED BY <2>1, <2>2
<1>6. StandsAt(input, currentLine, currentPosition, Place)'
  BY <1>3, <1>5
<1>7. currentChar' # EOF => (lastWasNewLine' <=> pos' > 0 /\ input[pos'] = NewLine)
  <2> SUFFICES ASSUME currentChar' # EOF
               PROVE  lastWasNewLine' <=> pos' > 0 /\ input[pos'] = NewLine
    OBVIOUS
  <2>1. pos < Len(input) /\ pos' = pos + 1 /\ currentChar' = input[pos + 1]
    BY NextChar
  <2>2. lastWasNewLine' <=> input[pos'] = NewLine
    <3>1. lastWasNewLine' = (input[pos + 1] = NewLine)
      BY <2>1 DEF ReadChar
    <3> QED BY <2>1, <3>1, Zenon
  <2>3. pos' > 0
    BY <1>1, <2>1
  <2> QED BY <2>2, <2>3
<1> QED BY <1>6, <1>7

-----------------------------------------------------------------------------
(* While GetToken loops.                                                   *)

(***************************************************************************)
(* In the loop of GetToken everything read has been taken, and ReadChar    *)
(* finds the character behind the current string.                          *)
(***************************************************************************)
LEMMA InTheLoop ==
    ASSUME LexInv, mode \in Scanning, ReadChar
    PROVE  /\ committed /\ pos \in Nat /\ currentChar # EOF
           /\ Consumed = pos /\ from = After(Len(spans)) /\ from \in Nat \ {0}
           /\ from + Len(currentString) = pos + 1 /\ Len(currentString) >= 1
           /\ Spells(input, currentString, from)
           /\ \/ /\ pos < Len(input) /\ pos' = pos + 1
                 /\ currentChar' = input[from + Len(currentString)]
                 /\ currentChar' \in Chars /\ currentChar' # EOF
              \/ pos = Len(input) /\ pos' = pos /\ currentChar' = EOF
<1>1. /\ committed /\ pos > 0 /\ currentChar = input[pos]
      /\ currentString # <<>> /\ from = After(Len(spans))
      /\ Spells(input, currentString, from) /\ from + Len(currentString) = Consumed + 1
  BY DEF LexInv, Reading, Tiled, Scanning
<1>2. /\ pos \in 1 .. Len(input) /\ Len(input) \in Nat /\ currentString \in Seq(Chars)
      /\ \A i \in 1 .. Len(input) : input[i] \in Chars /\ input[i] # EOF
  BY <1>1, InputIsText DEF LexInv
<1>3. Consumed = pos /\ currentChar # EOF /\ from \in Nat \ {0}
  BY <1>1, <1>2 DEF Consumed, Spells
<1>4. from + Len(currentString) = pos + 1 /\ Len(currentString) >= 1
  BY <1>1, <1>2, <1>3, EmptySeq
<1> QED BY <1>1, <1>2, <1>3, <1>4, NextChar DEF LexInv

(***************************************************************************)
(* The counters and the place of the token under way, after a step that    *)
(* reads a character of the same file in the loop.                         *)
(***************************************************************************)
LEMMA LoopCounts ==
    ASSUME LexInv, mode \in Scanning, ReadChar, compilations = 1,
           UNCHANGED <<input, tokenVars>>, mode' = "start" => committed' = FALSE
    PROVE  Counted'
<1>1. Counted /\ committed /\ currentChar # EOF
  BY InTheLoop DEF LexInv, Lines
<1>2. /\ StandsAt(input, currentLine, currentPosition, Place)'
      /\ currentChar' # EOF => (lastWasNewLine' <=> pos' > 0 /\ input[pos'] = NewLine)
  BY <1>1, ReadCounts DEF LexInv
<1>3. StandsAt(input, tokenLine, tokenPosition, from)'
  BY <1>1 DEF Counted, tokenVars
<1> QED BY <1>2, <1>3 DEF Counted

(***************************************************************************)
(* A character is taken into the current string: what the string is has to *)
(* be shown by the one that takes it.                                      *)
(***************************************************************************)
LEMMA TakeKeeps ==
    ASSUME LexInv, mode \in Scanning, ReadChar, currentChar' # EOF,
           NEW newMode \in Scanning, Take(currentChar', newMode), Words'
    PROVE  LexInv'
<1>1. /\ committed /\ pos < Len(input) /\ pos' = pos + 1 /\ pos \in Nat
      /\ currentChar' = input[from + Len(currentString)] /\ currentChar' \in Chars
      /\ from = After(Len(spans)) /\ from \in Nat \ {0}
      /\ from + Len(currentString) = pos + 1 /\ Spells(input, currentString, from)
  BY InTheLoop
<1>2. /\ currentString' = Append(currentString, currentChar') /\ mode' = newMode /\ committed' = TRUE
      /\ input' = input /\ spans' = spans /\ from' = from
      /\ tokenLine' = tokenLine /\ tokenPosition' = tokenPosition /\ compilations' = compilations
  BY DEF Take, tokenVars
<1>3. /\ input \in Seq(Chars) /\ Len(input) \in Nat
      /\ currentString \in Seq(Chars) /\ Len(currentString) \in Nat
  BY InputIsText DEF LexInv
<1>4. /\ Spells(input, currentString', from) /\ currentString' \in Seq(Chars)
      /\ Len(currentString') = Len(currentString) + 1 /\ currentString' # <<>>
  <2>1. from + Len(currentString) <= Len(input)
    BY <1>1, <1>3
  <2> QED BY <1>1, <1>2, <1>3, <2>1, SpellsMore, Grown
<1>5. TypeOK'
  <2>1. committed' \in BOOLEAN /\ mode' \in Modes
    BY <1>2 DEF Modes, Scanning
  <2> QED BY <1>1, <1>2, <1>4, <2>1, NextChar DEF LexInv, TypeOK
<1>6. Reading'
  <2>1. input'[pos'] = currentChar' /\ pos' > 0
    BY <1>1, <1>2
  <2> QED BY <1>2, <2>1 DEF Reading, Scanning
<1>7. Tiled'
  <2>1. After(Len(spans))' = from /\ Consumed' = pos + 1
    BY <1>1, <1>2 DEF After, Consumed
  <2>2. \A i \in 1 .. Len(spans) : spans[i].from = After(i - 1) /\ Spells(input, spans[i].lexeme, spans[i].from)
    BY DEF LexInv, Tiled
  <2>3. \A i \in 1 .. Len(spans') : spans'[i].from = After(i - 1)' /\ Spells(input', spans'[i].lexeme, spans'[i].from)
    BY <1>2, <2>2 DEF After
  <2>4. After(Len(spans))' + Len(currentString') = Consumed' + 1
    BY <1>1, <1>3, <1>4, <2>1
  <2> QED BY <1>2, <1>4, <2>1, <2>3, <2>4 DEF Tiled, Scanning
<1>8. AllMunched'
  BY <1>2 DEF LexInv, AllMunched
<1>9. Lines'
  <2> SUFFICES ASSUME compilations = 1
               PROVE  Counted' /\ PiecesCounted'
    BY <1>2 DEF Lines
  <2>1. Counted'
    BY <1>2, LoopCounts DEF tokenVars, Scanning
  <2> QED BY <1>2, <2>1 DEF LexInv, Lines, PiecesCounted
<1> QED BY <1>5, <1>6, <1>7, <1>8, <1>9 DEF LexInv

ReturnedTypes == {"identifier", "reserved", "integer", "real", "blank", "comment"}

\* The piece that a token or a skipped part of the file becomes.
PieceOf(type, lexeme, start, line, position) ==
    [type |-> type, from |-> start, lexeme |-> lexeme, line |-> line, position |-> position]

(***************************************************************************)
(* A token ends before the character just read, which stays pending: that  *)
(* it is what maximal munch gives has to be shown by the one who returns.  *)
(***************************************************************************)
LEMMA ReturnKeeps ==
    ASSUME LexInv, mode \in Scanning, ReadChar,
           NEW type \in ReturnedTypes, Return(type, currentString),
           Munched(input, PieceOf(type, currentString, from, tokenLine, tokenPosition))
    PROVE  LexInv'
<1> DEFINE piece == PieceOf(type, currentString, from, tokenLine, tokenPosition)
<1>1. /\ committed /\ pos \in Nat
      /\ from = After(Len(spans)) /\ from \in Nat \ {0}
      /\ from + Len(currentString) = pos + 1 /\ Spells(input, currentString, from)
      /\ \/ /\ pos < Len(input) /\ pos' = pos + 1
            /\ currentChar' = input[from + Len(currentString)]
            /\ currentChar' \in Chars /\ currentChar' # EOF
         \/ pos = Len(input) /\ pos' = pos /\ currentChar' = EOF
  BY InTheLoop
<1>2. /\ spans' = Append(spans, piece) /\ mode' = "start" /\ committed' = FALSE
      /\ currentString' = <<>> /\ input' = input /\ from' = from
      /\ tokenLine' = tokenLine /\ tokenPosition' = tokenPosition /\ compilations' = compilations
  BY DEF Return, tokenVars, PieceOf
<1>3. /\ piece \in Piece /\ piece.from = from /\ piece.lexeme = currentString
      /\ piece.line = tokenLine /\ piece.position = tokenPosition
  BY DEF LexInv, TypeOK, Piece, PieceOf, ReturnedTypes
<1>4. /\ input \in Seq(Chars) /\ Len(input) \in Nat /\ Len(spans) \in Nat /\ spans \in Seq(Piece)
      /\ Len(currentString) \in Nat
  BY InputIsText DEF LexInv
<1>5. Munched(input, piece)
  OBVIOUS
<1> HIDE DEF piece
<1>6. /\ spans' \in Seq(Piece) /\ Len(spans') = Len(spans) + 1
      /\ After(Len(spans))' = piece.from + Len(piece.lexeme)
      /\ (\A i \in 1 .. Len(spans) :
              spans[i].from = After(i - 1) /\ Spells(input, spans[i].lexeme, spans[i].from))'
      /\ AllMunched'
  BY <1>1, <1>2, <1>3, <1>5, PieceAdded DEF LexInv
<1>7. currentString' \in Seq(Chars) /\ Len(currentString') = 0
  BY <1>2, EmptySeq
<1>8. TypeOK'
  <2>1. mode' \in Modes /\ committed' \in BOOLEAN
    BY <1>2 DEF Modes
  <2> QED BY <1>1, <1>2, <1>6, <1>7, <2>1, NextChar DEF LexInv, TypeOK
<1>9. Reading'
  <2>1. \/ currentChar' = EOF /\ pos' = Len(input')
        \/ pos' > 0 /\ currentChar' = input'[pos']
    BY <1>1, <1>2
  <2> QED BY <1>2, <2>1 DEF Reading, Scanning
<1>10. Tiled'
  <2>1. Consumed' = pos
    BY <1>1, <1>2 DEF Consumed
  <2>2. After(Len(spans))' = pos + 1
    BY <1>1, <1>3, <1>6
  <2>3. pos + 1 + Len(currentString') = Consumed' + 1
    BY <1>1, <1>7, <2>1
  <2>4. Spells(input, currentString', pos + 1)
    <3>1. pos + 1 \in Nat \ {0} /\ pos + 1 <= Len(input) + 1
      BY <1>1, <1>4
    <3> QED BY <1>2, <1>4, <3>1, NothingSpelled
  <2> QED BY <1>2, <1>6, <2>2, <2>3, <2>4 DEF Tiled, Scanning
<1>11. Words'
  BY <1>2 DEF Words
<1>12. Lines'
  <2> SUFFICES ASSUME compilations = 1
               PROVE  Counted' /\ PiecesCounted'
    BY <1>2 DEF Lines
  <2>1. Counted'
    BY <1>2, LoopCounts DEF tokenVars
  <2>2. StandsAt(input, piece.line, piece.position, piece.from)
    BY <1>3 DEF LexInv, Lines, Counted
  <2>3. PiecesCounted
    BY DEF LexInv, Lines
  <2>4. ASSUME NEW i \in 1 .. Len(spans')
        PROVE  StandsAt(input', spans'[i].line, spans'[i].position, spans'[i].from)
    <3>1. spans'[i] = IF i = Len(spans) + 1 THEN piece ELSE spans[i]
      BY <1>2, <1>3, <1>4, <1>6, AppendProperties
    <3> QED BY <1>2, <1>4, <1>6, <2>2, <2>3, <3>1 DEF PiecesCounted
  <2> QED BY <2>1, <2>4 DEF PiecesCounted
<1> QED BY <1>6, <1>8, <1>9, <1>10, <1>11, <1>12 DEF LexInv

(***************************************************************************)
(* What follows the current string in the text is the character just read. *)
(***************************************************************************)
LEMMA FollowedByRead ==
    ASSUME LexInv, mode \in Scanning, ReadChar
    PROVE  /\ from + Len(currentString) <= Len(input) => input[from + Len(currentString)] = currentChar'
           /\ currentChar' # EOF => from + Len(currentString) <= Len(input) /\ currentChar' \in Chars
<1> QED BY InTheLoop, InputIsText DEF LexInv

(***************************************************************************)
(* An identifier, or a reserved word, takes letters and digits.            *)
(***************************************************************************)
LEMMA IdentifierKeeps ==
    ASSUME LexInv, ScanIdentifier
    PROVE  LexInv'
<1>1. /\ mode = "loop" /\ mode \in Scanning /\ First \in Letters /\ ReadChar
      /\ currentString \in Seq(Chars) /\ IsWord(currentString)
  BY InputIsText DEF ScanIdentifier, IsGoodForStartIdentifier, Scanning, LexInv, Words
<1>2. CASE IsGoodForIdentifier(currentChar')
  <2>1. /\ Take(currentChar', "loop") /\ "loop" \in Scanning
        /\ currentString' = Append(currentString, currentChar') /\ mode' = "loop"
        /\ currentChar' \in Letters \cup Digits
    BY <1>2 DEF ScanIdentifier, Take, Scanning, IsGoodForIdentifier, IsDigit, IsGoodForStartIdentifier
  <2>2. currentChar' # EOF /\ currentChar' \in Chars
    BY <2>1, TextAssumption DEF Chars
  <2>3. /\ currentString # <<>> /\ Len(currentString') = Len(currentString) + 1
        /\ \A j \in 1 .. Len(currentString) : currentString'[j] = currentString[j]
        /\ currentString'[Len(currentString) + 1] = currentChar'
        /\ currentString' # <<>> /\ currentString'[1] = currentString[1]
        /\ currentString' \in Seq(Chars) /\ Len(currentString) \in Nat
    BY <1>1, <2>1, <2>2, Grown DEF IsWord
  <2>4. \A j \in 1 .. Len(currentString') : currentString'[j] \in Letters \cup Digits
    BY <1>1, <2>1, <2>3 DEF IsWord
  <2>5. IsWord(currentString')
    BY <1>1, <2>3, <2>4 DEF IsWord
  <2>6. Words'
    <3>1. First' \in Letters
      BY <1>1, <2>3 DEF First
    <3> QED BY <2>1, <2>5, <3>1, ReservedAssumption DEF Words
  <2> QED BY <1>1, <2>1, <2>2, <2>6, TakeKeeps
<1>3. CASE ~IsGoodForIdentifier(currentChar')
  <2>1. PICK type \in {"reserved", "identifier"} :
           /\ Return(type, currentString) /\ (type = "reserved" <=> currentString \in Reserved)
    BY <1>3 DEF ScanIdentifier, IsReserved
  <2> DEFINE piece == PieceOf(type, currentString, from, tokenLine, tokenPosition)
  <2>2. piece.type = type /\ piece.lexeme = currentString /\ piece.from = from
    BY DEF PieceOf
  <2> HIDE DEF piece
  <2>3. InItsClass(piece)
    BY <1>1, <2>1, <2>2 DEF InItsClass
  <2>4. ASSUME from + Len(currentString) <= Len(input)
        PROVE  ~IsWord(Append(currentString, input[from + Len(currentString)]))
    <3>1. /\ input[from + Len(currentString)] = currentChar'
          /\ currentChar' \notin Letters \cup Digits
      BY <1>1, <1>3, <2>4, FollowedByRead DEF IsGoodForIdentifier, IsDigit, IsGoodForStartIdentifier
    <3>2. currentChar' \in Chars
      BY <1>1, <2>4, InTheLoop, InputIsText, FollowedByRead DEF LexInv
    <3>3. /\ Append(currentString, currentChar') \in Seq(Chars) /\ Len(currentString) \in Nat
          /\ Len(Append(currentString, currentChar')) = Len(currentString) + 1
          /\ Append(currentString, currentChar')[Len(currentString) + 1] = currentChar'
      BY <1>1, <3>2, Grown
    <3>4. Len(currentString) + 1 \in DOMAIN Append(currentString, currentChar')
      BY <3>3
    <3> QED BY <3>1, <3>3, <3>4 DEF IsWord
  <2>5. EndsWhereItMust(input, piece)
    BY <1>1, <2>1, <2>2, <2>4 DEF EndsWhereItMust
  <2>6. Munched(input, piece) /\ type \in ReturnedTypes
    BY <2>1, <2>3, <2>5 DEF Munched, ReturnedTypes
  <2> QED BY <1>1, <2>1, <2>6, ReturnKeeps DEF piece
<1> QED BY <1>2, <1>3

(***************************************************************************)
(* A number takes digits and one dot.                                      *)
(***************************************************************************)
LEMMA NumberKeeps ==
    ASSUME LexInv, ScanNumber
    PROVE  LexInv'
<1>1. /\ mode = "loop" /\ mode \in Scanning /\ First \in Digits /\ ReadChar
      /\ currentString \in Seq(Chars) /\ IsNumber(currentString)
      /\ Len(currentString) \in Nat /\ DOMAIN currentString = 1 .. Len(currentString)
  BY InputIsText DEF ScanNumber, IsDigit, Scanning, LexInv, Words
<1>2. CASE IsDigit(currentChar') \/ (currentChar' = Dot /\ ~HasDot(currentString))
  <2>1. /\ Take(currentChar', "loop") /\ "loop" \in Scanning
        /\ currentString' = Append(currentString, currentChar') /\ mode' = "loop"
        /\ currentChar' \in Digits \cup {Dot}
        /\ currentChar' = Dot => ~HasDot(currentString) \/ Dot \in Digits
    BY <1>2 DEF ScanNumber, Take, Scanning, IsDigit
  <2>2. <<Dot>> \in Reserved /\ <<Dot>>[1] = Dot
    BY ReservedAssumption
  <2>3. Dot \notin Digits /\ Dot # EOF
    BY <2>2, ReservedAssumption DEF Dot, EOF
  <2>4. currentChar' # EOF
    BY <2>1, <2>3, TextAssumption DEF Chars
  <2>5. currentChar' \in Chars
    BY <1>1, <2>4, FollowedByRead
  <2>6. /\ currentString # <<>> /\ Len(currentString') = Len(currentString) + 1
        /\ \A j \in 1 .. Len(currentString) : currentString'[j] = currentString[j]
        /\ currentString'[Len(currentString) + 1] = currentChar'
        /\ currentString' # <<>> /\ currentString'[1] = currentString[1]
        /\ currentString' \in Seq(Chars) /\ DOMAIN currentString' = 1 .. Len(currentString')
    BY <1>1, <2>1, <2>5, Grown DEF IsNumber
  <2>7. \A j \in 1 .. Len(currentString') : currentString'[j] \in Digits \cup {Dot}
    BY <1>1, <2>1, <2>6 DEF IsNumber
  <2>8. ASSUME NEW i \in 1 .. Len(currentString'), NEW j \in 1 .. Len(currentString'),
               currentString'[i] = Dot, currentString'[j] = Dot
        PROVE  i = j
    <3>1. CASE i \in 1 .. Len(currentString) /\ j \in 1 .. Len(currentString)
      BY <1>1, <2>6, <2>8, <3>1 DEF IsNumber
    <3>2. CASE i = Len(currentString) + 1 /\ j # i
      <4>1. j \in 1 .. Len(currentString) /\ currentChar' = Dot
        BY <1>1, <2>6, <2>8, <3>2
      <4> QED BY <1>1, <2>1, <2>3, <2>6, <2>8, <4>1 DEF HasDot
    <3>3. CASE j = Len(currentString) + 1 /\ j # i
      <4>1. i \in 1 .. Len(currentString) /\ currentChar' = Dot
        BY <1>1, <2>6, <2>8, <3>3
      <4> QED BY <1>1, <2>1, <2>3, <2>6, <2>8, <4>1 DEF HasDot
    <3> QED BY <1>1, <2>6, <3>1, <3>2, <3>3
  <2>9. IsNumber(currentString')
    BY <1>1, <2>6, <2>7, <2>8 DEF IsNumber
  <2>10. Words'
    <3>1. First' \in Digits
      BY <1>1, <2>6 DEF First
    <3> QED BY <2>1, <2>9, <3>1, ReservedAssumption DEF Words
  <2> QED BY <1>1, <2>1, <2>4, <2>10, TakeKeeps
<1>3. CASE ~(IsDigit(currentChar') \/ (currentChar' = Dot /\ ~HasDot(currentString)))
  <2>1. PICK type \in {"real", "integer"} :
           /\ Return(type, currentString) /\ (type = "real" <=> HasDot(currentString))
    BY <1>3 DEF ScanNumber
  <2> DEFINE piece == PieceOf(type, currentString, from, tokenLine, tokenPosition)
  <2>2. piece.type = type /\ piece.lexeme = currentString /\ piece.from = from
    BY DEF PieceOf
  <2> HIDE DEF piece
  <2>3. InItsClass(piece)
    BY <1>1, <2>1, <2>2 DEF InItsClass
  <2>4. ASSUME from + Len(currentString) <= Len(input)
        PROVE  ~IsNumber(Append(currentString, input[from + Len(currentString)]))
    <3>1. input[from + Len(currentString)] = currentChar'
      BY <1>1, <2>4, FollowedByRead
    <3>2. currentChar' \in Chars
      BY <1>1, <2>4, InTheLoop, InputIsText, FollowedByRead DEF LexInv
    <3> DEFINE longer == Append(currentString, currentChar')
    <3>3. /\ DOMAIN longer = 1 .. Len(currentString) + 1
          /\ longer[Len(currentString) + 1] = currentChar'
          /\ \A j \in 1 .. Len(currentString) : longer[j] = currentString[j]
      BY <1>1, <3>2, Grown
    <3> HIDE DEF longer
    <3>4. Len(currentString) + 1 \in DOMAIN longer
      BY <1>1, <3>3
    <3>5. ASSUME currentChar' \notin Digits \cup {Dot} PROVE ~IsNumber(longer)
      BY <3>3, <3>4, <3>5 DEF IsNumber
    <3>6. ASSUME currentChar' = Dot, HasDot(currentString) PROVE ~IsNumber(longer)
      <4>1. PICK j \in 1 .. Len(currentString) : currentString[j] = Dot
        BY <1>1, <3>6 DEF HasDot
      <4>2. j \in DOMAIN longer /\ longer[j] = Dot /\ j # Len(currentString) + 1
        BY <1>1, <3>3, <4>1
      <4> QED BY <3>3, <3>4, <3>6, <4>2 DEF IsNumber
    <3> QED BY <1>3, <3>1, <3>5, <3>6 DEF longer, IsDigit
  <2>5. EndsWhereItMust(input, piece)
    BY <1>1, <2>1, <2>2, <2>4 DEF EndsWhereItMust
  <2>6. Munched(input, piece) /\ type \in ReturnedTypes
    BY <2>1, <2>3, <2>5 DEF Munched, ReturnedTypes
  <2> QED BY <1>1, <2>1, <2>6, ReturnKeeps DEF piece
<1> QED BY <1>2, <1>3

(***************************************************************************)
(* A symbol grows as long as symbolMap has it, and two slashes begin a     *)
(* comment.                                                                *)
(***************************************************************************)
LEMMA SymbolKeeps ==
    ASSUME LexInv, ScanSymbol
    PROVE  LexInv'
<1> DEFINE longer == Append(currentString, currentChar')
<1>1. /\ mode = "loop" /\ mode \in Scanning /\ First \notin Letters \cup Digits /\ ReadChar
      /\ currentString \in Seq(Chars) /\ currentString \in Reserved
      /\ Len(currentString) >= 1 /\ Len(currentString) \in Nat /\ currentString # <<>>
  BY InputIsText, InTheLoop
  DEF ScanSymbol, IsGoodForIdentifier, IsDigit, IsGoodForStartIdentifier, Scanning, LexInv, Words, Tiled
<1>2. ~IsWord(currentString)
  BY <1>1 DEF IsWord, First
<1>3. CASE longer \in Reserved \/ longer = <<Slash, Slash>>
  <2>1. PICK newMode \in {"loop", "comment"} :
           /\ Take(currentChar', newMode)
           /\ newMode = "loop" => longer \in Reserved
           /\ newMode = "comment" => longer = <<Slash, Slash>>
    BY <1>3 DEF ScanSymbol, IsReserved
  <2>2. /\ newMode \in Scanning /\ mode' = newMode /\ currentString' = longer
    BY <2>1 DEF Take, Scanning
  <2>3. currentChar' # EOF
    <3>1. CASE currentChar' = EOF /\ longer \in Reserved
      <4>1. longer \in Seq(Chars) /\ currentString \in Seq(Chars \cup {EOF})
        BY <1>1, <3>1, TextAssumption, SeqMonotonic
      <4>2. Len(longer) = Len(currentString) + 1 /\ longer[Len(currentString) + 1] = EOF
        BY <1>1, <3>1, <4>1, AppendProperties
      <4>3. longer[Len(currentString) + 1] \in Chars
        BY <1>1, <4>1, <4>2
      <4> QED BY <4>2, <4>3, TextAssumption
    <3>2. CASE currentChar' = EOF /\ longer = <<Slash, Slash>>
      <4>1. currentString \in Seq(Chars \cup {EOF}) /\ EOF \in Chars \cup {EOF}
        BY <1>1, SeqMonotonic
      <4>2. Len(longer) = Len(currentString) + 1 /\ longer[Len(currentString) + 1] = EOF
        <5>1. longer = Append(currentString, EOF)
          BY <3>2
        <5> HIDE DEF longer
        <5> QED BY <4>1, <5>1, AppendProperties
      <4>3. \A j \in 1 .. Len(longer) : longer[j] = Slash
        BY <3>2
      <4> QED BY <1>1, <4>2, <4>3 DEF Slash, EOF
    <3> QED BY <1>3, <3>1, <3>2
  <2>4. currentChar' \in Chars
    BY <1>1, <2>3, FollowedByRead
  <2>5. currentString'[1] = currentString[1]
    BY <1>1, <2>2, <2>4, Grown
  <2> HIDE DEF longer
  <2>6. First' \notin Letters \cup Digits
    BY <1>1, <2>5 DEF First
  <2>7. newMode = "comment" => IsComment(currentString')
    BY <2>1, <2>2 DEF IsComment, Slash, NewLine
  <2>8. Words'
    BY <2>1, <2>2, <2>6, <2>7 DEF Words
  <2> QED BY <1>1, <2>1, <2>2, <2>3, <2>8, TakeKeeps
<1>4. CASE longer \notin Reserved /\ longer # <<Slash, Slash>>
  <2>1. PICK type \in {"blank", "reserved"} : Return(type, currentString)
    BY <1>4 DEF ScanSymbol, IsReserved
  <2> DEFINE piece == PieceOf(type, currentString, from, tokenLine, tokenPosition)
  <2>2. piece.type = type /\ piece.lexeme = currentString /\ piece.from = from
    BY DEF PieceOf
  <2> HIDE DEF piece
  <2>3. InItsClass(piece)
    BY <1>1, <2>1, <2>2 DEF InItsClass
  <2>4. from + Len(currentString) <= Len(input) =>
           Append(currentString, input[from + Len(currentString)]) \notin Reserved
    BY <1>1, <1>4, FollowedByRead
  <2>5. EndsWhereItMust(input, piece)
    BY <1>2, <2>1, <2>2, <2>4 DEF EndsWhereItMust
  <2>6. Munched(input, piece) /\ type \in ReturnedTypes
    BY <2>1, <2>3, <2>5 DEF Munched, ReturnedTypes
  <2> QED BY <1>1, <2>1, <2>6, ReturnKeeps DEF piece
<1> QED BY <1>3, <1>4

(***************************************************************************)
(* Past the end of the input a comment or a string changes nothing more.   *)
(***************************************************************************)
LEMMA SpinKeeps ==
    ASSUME LexInv, mode \in Scanning, ReadChar, currentChar' = EOF, Spin
    PROVE  LexInv'
<1>1. /\ committed /\ pos' = pos /\ pos \in Nat /\ Consumed = pos /\ pos' \in 0 .. Len(input)
      /\ input' = input /\ currentString' = currentString /\ spans' = spans /\ from' = from
      /\ tokenLine' = tokenLine /\ tokenPosition' = tokenPosition
      /\ compilations' = compilations /\ mode' = "spin" /\ committed' = TRUE
  <2>1. committed /\ pos' = pos /\ pos \in Nat /\ Consumed = pos
    BY InTheLoop, InputIsText DEF LexInv
  <2>2. pos' \in 0 .. Len(input)
    BY <2>1 DEF LexInv, TypeOK
  <2> QED BY <2>1, <2>2 DEF Spin, tokenVars
<1>2. TypeOK'
  <2>1. mode' \in Modes /\ committed' \in BOOLEAN
    BY <1>1 DEF Modes
  <2> QED BY <1>1, <2>1, NextChar DEF LexInv, TypeOK
<1>3. Reading' /\ Words'
  BY <1>1 DEF Reading, Words, Scanning
<1>4. Tiled'
  <2>1. Consumed' = Consumed /\ After(Len(spans))' = After(Len(spans))
    BY <1>1 DEF Consumed, After
  <2>2. \A i \in 1 .. Len(spans') : spans'[i].from = After(i - 1)' /\ Spells(input', spans'[i].lexeme, spans'[i].from)
    BY <1>1 DEF LexInv, Tiled, After
  <2> QED BY <1>1, <2>1, <2>2 DEF LexInv, Tiled, Scanning
<1>5. AllMunched'
  BY <1>1 DEF LexInv, AllMunched
<1>6. Lines'
  <2>1. compilations = 1 => Counted'
    BY <1>1, LoopCounts DEF tokenVars
  <2> QED BY <1>1, <2>1 DEF LexInv, Lines, PiecesCounted
<1> QED BY <1>2, <1>3, <1>4, <1>5, <1>6 DEF LexInv

(***************************************************************************)
(* A comment takes everything up to the end of its line.                   *)
(***************************************************************************)
LEMMA CommentKeeps ==
    ASSUME LexInv, ScanComment
    PROVE  LexInv'
<1>1. /\ mode = "comment" /\ mode \in Scanning /\ ReadChar
      /\ currentString \in Seq(Chars) /\ IsComment(currentString) /\ Len(currentString) \in Nat
  BY InputIsText DEF ScanComment, Scanning, LexInv, Words
<1>2. CASE currentChar' = EOF
  BY <1>1, <1>2, SpinKeeps DEF ScanComment
<1>3. CASE currentChar' # EOF /\ currentChar' # NewLine
  <2>1. /\ Take(currentChar', "comment") /\ "comment" \in Scanning /\ mode' = "comment"
        /\ currentString' = Append(currentString, currentChar')
    BY <1>3 DEF ScanComment, Take, Scanning
  <2>2. currentChar' \in Chars
    BY <1>1, <1>3, FollowedByRead
  <2>3. /\ Len(currentString') = Len(currentString) + 1
        /\ \A j \in 1 .. Len(currentString) : currentString'[j] = currentString[j]
        /\ currentString'[Len(currentString) + 1] = currentChar'
    BY <1>1, <2>1, <2>2, Grown
  <2>4. \A j \in 1 .. Len(currentString') : currentString'[j] # NewLine
    BY <1>1, <1>3, <2>3 DEF IsComment
  <2>5. IsComment(currentString')
    BY <1>1, <2>3, <2>4 DEF IsComment
  <2>6. Words'
    BY <2>1, <2>5 DEF Words
  <2> QED BY <1>1, <1>3, <2>1, <2>6, TakeKeeps
<1>4. CASE currentChar' # EOF /\ currentChar' = NewLine
  <2>1. Return("comment", currentString)
    BY <1>4 DEF ScanComment
  <2> DEFINE piece == PieceOf("comment", currentString, from, tokenLine, tokenPosition)
  <2>2. piece.type = "comment" /\ piece.lexeme = currentString /\ piece.from = from
    BY DEF PieceOf
  <2> HIDE DEF piece
  <2>3. InItsClass(piece)
    BY <1>1, <2>2 DEF InItsClass
  <2>4. input[from + Len(currentString)] = NewLine
    BY <1>1, <1>4, FollowedByRead
  <2>5. EndsWhereItMust(input, piece)
    BY <2>2, <2>4 DEF EndsWhereItMust
  <2>6. Munched(input, piece) /\ "comment" \in ReturnedTypes
    BY <2>3, <2>5 DEF Munched, ReturnedTypes
  <2> QED BY <1>1, <2>1, <2>6, ReturnKeeps DEF piece
<1> QED BY <1>2, <1>3, <1>4

-----------------------------------------------------------------------------
(* Where a token starts, and where the input ends.                         *)

\* The types of what ReadChar sets, and the counters it keeps.
ReadTypes ==
    /\ pos \in 0 .. Len(input) /\ currentChar \in Chars \cup {EOF, "NUL"}
    /\ currentLine \in Nat /\ currentPosition \in Nat /\ lastWasNewLine \in BOOLEAN

ReadCounted ==
    /\ StandsAt(input, currentLine, currentPosition, Place)
    /\ currentChar # EOF => (lastWasNewLine <=> pos > 0 /\ input[pos] = NewLine)

(***************************************************************************)
(* A call of ReadChar, with or without a pending character.                *)
(***************************************************************************)
LEMMA AnyRead ==
    ASSUME LexInv, mode \in Scanning \cup {"start"}, ReadChar, input' = input
    PROVE  ReadTypes' /\ (compilations = 1 => ReadCounted')
<1>1. CASE committed
  <2>1. ReadTypes'
    BY <1>1, NextChar DEF LexInv, ReadTypes
  <2>2. ASSUME compilations = 1 PROVE ReadCounted'
    <3>1. Counted /\ currentChar # EOF
      BY <1>1, <2>2, InTheLoop DEF LexInv, Lines, Counted
    <3> QED BY <1>1, <3>1, ReadCounts DEF LexInv, ReadCounted
  <2> QED BY <2>1, <2>2
<1>2. CASE ~committed
  <2>1. UNCHANGED readVars
    BY <1>2 DEF ReadChar
  <2>2. ReadTypes'
    BY <2>1 DEF LexInv, TypeOK, ReadTypes, readVars
  <2>3. ASSUME compilations = 1 PROVE ReadCounted'
    BY <2>1, <2>3 DEF LexInv, Lines, Counted, ReadCounted, Place, readVars
  <2> QED BY <2>2, <2>3
<1> QED BY <1>1, <1>2

(***************************************************************************)
(* A piece that ends what the parser reads of the file is committed with   *)
(* its last character.                                                     *)
(***************************************************************************)
LEMMA StopKeeps ==
    ASSUME LexInv, NEW type \in {"end", "error", "string"}, NEW lexeme \in Seq(Chars), NEW start \in Nat,
           Stop(type, lexeme, start), ReadTypes',
           start = After(Len(spans)), Spells(input, lexeme, start), start + Len(lexeme) = pos' + 1,
           from' \in Nat, tokenLine' \in Nat, tokenPosition' \in Nat,
           compilations = 1 => ReadCounted' /\ StandsAt(input, tokenLine', tokenPosition', start),
           Munched(input, PieceOf(type, lexeme, start, tokenLine', tokenPosition'))
    PROVE  LexInv'
<1> DEFINE piece == PieceOf(type, lexeme, start, tokenLine', tokenPosition')
<1>1. /\ spans' = Append(spans, piece) /\ mode' = "stopped" /\ committed' = TRUE
      /\ currentString' = <<>> /\ input' = input /\ compilations' = compilations
  BY DEF Stop, PieceOf
<1>2. /\ piece \in Piece /\ piece.from = start /\ piece.lexeme = lexeme
      /\ piece.line = tokenLine' /\ piece.position = tokenPosition'
  BY DEF Piece, PieceOf, Spells
<1>3. /\ input \in Seq(Chars) /\ Len(input) \in Nat /\ Len(spans) \in Nat /\ spans \in Seq(Piece)
      /\ Len(lexeme) \in Nat /\ start \in Nat \ {0} /\ pos' \in Nat /\ pos' <= Len(input)
  BY <1>1, InputIsText DEF LexInv, Spells, ReadTypes
<1>4. Munched(input, piece)
  OBVIOUS
<1> HIDE DEF piece
<1>0. pos' + 1 \in Nat \ {0} /\ pos' + 1 <= Len(input) + 1
  BY <1>3, PlaceBehind, Zenon
<1>5. /\ spans' \in Seq(Piece) /\ Len(spans') = Len(spans) + 1
      /\ After(Len(spans))' = piece.from + Len(piece.lexeme)
      /\ (\A i \in 1 .. Len(spans) :
              spans[i].from = After(i - 1) /\ Spells(input, spans[i].lexeme, spans[i].from))'
      /\ AllMunched'
  BY <1>1, <1>2, <1>4, PieceAdded DEF LexInv
<1>6. currentString' \in Seq(Chars) /\ Len(currentString') = 0
  BY <1>1, EmptySeq
<1>7. TypeOK'
  <2>1. mode' \in Modes /\ committed' \in BOOLEAN
    BY <1>1 DEF Modes
  <2> QED BY <1>1, <1>5, <1>6, <2>1 DEF LexInv, TypeOK, ReadTypes
<1>8. Reading' /\ Words'
  BY <1>1 DEF Reading, Words, Scanning
<1>9. Tiled'
  <2>1. Consumed' = pos'
    BY <1>1 DEF Consumed
  <2>2. After(Len(spans))' = pos' + 1
    BY <1>2, <1>5
  <2>3. pos' + 1 + Len(currentString') = Consumed' + 1
    BY <1>3, <1>6, <2>1
  <2>4. Spells(input, currentString', pos' + 1)
    BY <1>0, <1>1, <1>3, NothingSpelled
  <2> QED BY <1>1, <1>5, <2>2, <2>3, <2>4 DEF Tiled, Scanning
<1>10. Lines'
  <2> SUFFICES ASSUME compilations = 1
               PROVE  Counted' /\ PiecesCounted'
    BY <1>1 DEF Lines
  <2>1. Counted'
    BY <1>1 DEF Counted, ReadCounted, Scanning
  <2>2. PiecesCounted
    BY DEF LexInv, Lines
  <2>3. ASSUME NEW i \in 1 .. Len(spans')
        PROVE  StandsAt(input', spans'[i].line, spans'[i].position, spans'[i].from)
    <3>1. spans'[i] = IF i = Len(spans) + 1 THEN piece ELSE spans[i]
      BY <1>1, <1>2, <1>3, <1>5, AppendProperties, SMTT(30)
    <3>2. StandsAt(input, piece.line, piece.position, piece.from)
      BY <1>2
    <3> QED BY <1>1, <1>3, <1>5, <2>2, <3>1, <3>2, SMTT(30) DEF PiecesCounted
  <2> QED BY <2>1, <2>3 DEF PiecesCounted
<1> QED BY <1>5, <1>7, <1>8, <1>9, <1>10 DEF LexInv

(***************************************************************************)
(* A string takes everything up to the next quote, and its token is 0 for  *)
(* the parser: the end.                                                    *)
(***************************************************************************)
LEMMA StringKeeps ==
    ASSUME LexInv, ScanString
    PROVE  LexInv'
<1> DEFINE more == Append(currentString, currentChar')
<1>1. /\ mode = "string" /\ mode \in Scanning /\ ReadChar
      /\ currentString \in Seq(Chars) /\ Len(currentString) \in Nat /\ Len(currentString) >= 1
      /\ \A j \in 1 .. Len(currentString) : currentString[j] = Quote <=> j = 1
  BY InputIsText, InTheLoop DEF ScanString, Scanning, LexInv, Words
<1>2. CASE currentChar' = EOF
  BY <1>1, <1>2, SpinKeeps DEF ScanString
<1>3. ASSUME currentChar' # EOF
      PROVE  /\ Len(more) = Len(currentString) + 1 /\ more \in Seq(Chars)
             /\ \A j \in 1 .. Len(currentString) : more[j] = currentString[j]
             /\ more[Len(currentString) + 1] = currentChar'
  <2>1. currentChar' \in Chars
    BY <1>1, <1>3, FollowedByRead
  <2> QED BY <1>1, <2>1, Grown
<1>4. CASE currentChar' # EOF /\ currentChar' # Quote
  <2>1. /\ Take(currentChar', "string") /\ "string" \in Scanning /\ mode' = "string"
        /\ currentString' = more
    BY <1>4 DEF ScanString, Take, Scanning
  <2> HIDE DEF more
  <2>2. \A j \in 1 .. Len(currentString') : currentString'[j] = Quote <=> j = 1
    BY <1>1, <1>3, <1>4, <2>1
  <2>3. Words'
    BY <2>1, <2>2 DEF Words
  <2> QED BY <1>1, <1>4, <2>1, <2>3, TakeKeeps
<1>5. CASE currentChar' # EOF /\ currentChar' = Quote
  <2>1. /\ Stop("string", more, from) /\ input' = input
        /\ from' = from /\ tokenLine' = tokenLine /\ tokenPosition' = tokenPosition
    BY <1>5 DEF ScanString, Stop, tokenVars
  <2>2. /\ from = After(Len(spans)) /\ Spells(input, currentString, from) /\ from \in Nat \ {0}
        /\ from + Len(currentString) = pos + 1 /\ pos' = pos + 1 /\ pos < Len(input) /\ pos \in Nat
        /\ currentChar' = input[from + Len(currentString)]
    BY <1>1, <1>5, InTheLoop
  <2>3. Spells(input, more, from)
    <3>1. from + Len(currentString) <= Len(input) /\ input \in Seq(Chars)
      BY <2>2, InputIsText DEF LexInv
    <3> QED BY <1>1, <2>2, <3>1, SpellsMore
  <2> HIDE DEF more
  <2>4. from + Len(more) = pos' + 1 /\ more \in Seq(Chars)
    <3>1. Len(more) = Len(currentString) + 1 /\ more \in Seq(Chars)
      BY <1>3, <1>5
    <3>2. /\ from \in Nat /\ pos \in Nat /\ Len(currentString) \in Nat
          /\ from + Len(currentString) = pos + 1 /\ pos' = pos + 1
      BY <1>1, <2>2
    <3>3. from + (Len(currentString) + 1) = pos' + 1
      BY <3>2
    <3> QED BY <3>1, <3>3
  <2> DEFINE piece == PieceOf("string", more, from, tokenLine, tokenPosition)
  <2>5. piece.type = "string" /\ piece.lexeme = more
    BY DEF PieceOf
  <2>6. Munched(input, piece)
    <3> HIDE DEF piece
    <3>1. InItsClass(piece)
      BY <1>1, <1>3, <1>5, <2>5 DEF InItsClass
    <3>2. EndsWhereItMust(input, piece)
      BY <2>5 DEF EndsWhereItMust
    <3> QED BY <3>1, <3>2 DEF Munched
  <2>7. ReadTypes' /\ (compilations = 1 => ReadCounted')
    BY <1>1, <2>1, AnyRead
  <2>8. /\ from' \in Nat /\ tokenLine' \in Nat /\ tokenPosition' \in Nat
        /\ compilations = 1 => StandsAt(input, tokenLine', tokenPosition', from)
    BY <1>1, <2>1 DEF LexInv, TypeOK, Lines, Counted
  <2> QED BY <2>1, <2>2, <2>3, <2>4, <2>6, <2>7, <2>8, StopKeeps
<1> QED BY <1>2, <1>4, <1>5

(***************************************************************************)
(* The first character of a token follows the last piece, whether it was   *)
(* pending or is read now.                                                 *)
(***************************************************************************)
LEMMA FirstChar ==
    ASSUME LexInv, mode = "start", ReadChar
    PROVE  /\ pos' \in Nat /\ pos' <= Len(input)
           /\ \/ currentChar' = EOF /\ pos' = Len(input) /\ After(Len(spans)) = pos' + 1
              \/ /\ currentChar' # EOF /\ pos' > 0 /\ After(Len(spans)) = pos'
                 /\ currentChar' = input[pos'] /\ currentChar' \in Chars
<1>1. /\ pos \in Nat /\ pos <= Len(input) /\ Len(input) \in Nat
      /\ \A i \in 1 .. Len(input) : input[i] \in Chars /\ input[i] # EOF
      /\ Len(spans) \in Nat
  BY InputIsText DEF LexInv
<1>2. CASE committed
  <2>1. pos = 0 /\ spans = <<>> /\ After(Len(spans)) = 1
    BY <1>2 DEF LexInv, Reading, After
  <2> QED BY <1>1, <1>2, <2>1, NextChar DEF LexInv
<1>3. CASE ~committed
  <2>1. pos' = pos /\ currentChar' = currentChar
    BY <1>3 DEF ReadChar, readVars
  <2>2. currentString = <<>> /\ After(Len(spans)) + Len(currentString) = Consumed + 1
        /\ After(Len(spans)) \in Nat
    BY DEF LexInv, Tiled, Spells
  <2>3. After(Len(spans)) = Consumed + 1
    BY <2>2
  <2>4. CASE currentChar = EOF /\ pos = Len(input)
    BY <1>1, <2>1, <2>3, <2>4 DEF Consumed
  <2>5. CASE pos > 0 /\ currentChar = input[pos]
    <3>1. currentChar # EOF /\ currentChar \in Chars
      BY <1>1, <2>5
    <3>2. After(Len(spans)) = pos
      BY <1>1, <1>3, <2>3, <3>1 DEF Consumed
    <3> QED BY <1>1, <2>1, <2>5, <3>1, <3>2
  <2> QED BY <1>3, <2>4, <2>5 DEF LexInv, Reading
<1> QED BY <1>2, <1>3

(***************************************************************************)
(* GetToken up to its loop.                                                *)
(***************************************************************************)
LEMMA StartKeeps ==
    ASSUME LexInv, StartToken
    PROVE  LexInv'
<1>1. /\ mode = "start" /\ ReadChar /\ mode \in Scanning \cup {"start"} /\ input' = input
      /\ tokenLine' = currentLine' /\ tokenPosition' = currentPosition' /\ from' = pos'
  BY DEF StartToken, Stop
<1>2. ReadTypes' /\ (compilations = 1 => ReadCounted')
  BY <1>1, AnyRead
<1>3. /\ pos' \in Nat /\ pos' <= Len(input)
      /\ \/ currentChar' = EOF /\ pos' = Len(input) /\ After(Len(spans)) = pos' + 1
         \/ /\ currentChar' # EOF /\ pos' > 0 /\ After(Len(spans)) = pos'
            /\ currentChar' = input[pos'] /\ currentChar' \in Chars
  BY <1>1, FirstChar
<1>4. tokenLine' \in Nat /\ tokenPosition' \in Nat /\ from' \in Nat
  BY <1>1, <1>2, <1>3 DEF ReadTypes
<1>5. Len(input) \in Nat /\ input \in Seq(Chars) /\ Len(spans) \in Nat
  BY InputIsText DEF LexInv
<1>6. compilations = 1 => StandsAt(input, tokenLine', tokenPosition', Place')
  BY <1>1, <1>2 DEF ReadCounted
<1>7. CASE currentChar' = EOF /\ Stop("end", <<>>, pos' + 1)
  <2>1. After(Len(spans)) = pos' + 1 /\ Place' = pos' + 1
    BY <1>3, <1>7 DEF Place
  <2>2. Spells(input, <<>>, pos' + 1) /\ <<>> \in Seq(Chars) /\ pos' + 1 + Len(<<>>) = pos' + 1
        /\ pos' + 1 \in Nat
    <3>1. pos' + 1 \in Nat \ {0} /\ pos' + 1 <= Len(input) + 1
      BY <1>3, <1>5, PlaceBehind
    <3>2. Len(<<>>) = 0 /\ <<>> \in Seq(Chars)
      BY EmptySeq
    <3>3. Spells(input, <<>>, pos' + 1)
      BY <1>5, <3>1, NothingSpelled
    <3> QED BY <3>1, <3>2, <3>3
  <2>3. Munched(input, PieceOf("end", <<>>, pos' + 1, tokenLine', tokenPosition'))
    BY DEF Munched, InItsClass, EndsWhereItMust, PieceOf
  <2> QED BY <1>2, <1>4, <1>6, <1>7, <2>1, <2>2, <2>3, StopKeeps
<1> DEFINE c == currentChar'
<1>8. ASSUME c # EOF
      PROVE  /\ After(Len(spans)) = pos' /\ Place' = pos' /\ c = input[pos'] /\ c \in Chars /\ pos' > 0
             /\ <<c>> \in Seq(Chars) /\ Len(<<c>>) = 1 /\ <<c>>[1] = c
             /\ Spells(input, <<c>>, pos')
  <2>1. After(Len(spans)) = pos' /\ Place' = pos' /\ c = input[pos'] /\ c \in Chars /\ pos' > 0
    BY <1>3, <1>8 DEF Place
  <2>2. <<c>> \in Seq(Chars) /\ Len(<<c>>) = 1 /\ <<c>>[1] = c
    BY <2>1
  <2> HIDE DEF c
  <2>3. \A j \in 1 .. Len(<<c>>) : input[pos' + j - 1] = <<c>>[j]
    BY <1>3, <2>1, <2>2
  <2>4. pos' \in Nat \ {0} /\ pos' + Len(<<c>>) - 1 <= Len(input)
    BY <1>3, <1>5, <2>1, <2>2
  <2> QED BY <2>1, <2>2, <2>3, <2>4 DEF Spells
<1>9. CASE c # EOF /\ Stop("error", <<c>>, pos')
  <2>1. Munched(input, PieceOf("error", <<c>>, pos', tokenLine', tokenPosition'))
    BY DEF Munched, InItsClass, EndsWhereItMust, PieceOf
  <2>2. pos' + Len(<<c>>) = pos' + 1
    BY <1>8, <1>9
  <2> QED BY <1>2, <1>3, <1>4, <1>6, <1>8, <1>9, <2>1, <2>2, StopKeeps
<1>10. CASE /\ c # EOF
            /\ IsReserved(<<c>>) \/ IsGoodForIdentifier(c)
            /\ currentString' = <<c>>
            /\ mode' = IF c = Quote THEN "string" ELSE "loop"
            /\ committed' = TRUE
            /\ spans' = spans /\ compilations' = compilations
  <2>1. /\ After(Len(spans)) = pos' /\ Place' = pos' /\ c = input[pos'] /\ c \in Chars /\ pos' > 0
        /\ currentString' \in Seq(Chars) /\ Len(currentString') = 1 /\ currentString'[1] = c
        /\ Spells(input, currentString', pos') /\ currentString' # <<>>
    BY <1>8, <1>10, EmptySeq
  <2>2. /\ spans' = spans /\ compilations' = compilations /\ committed' = TRUE
        /\ mode' \in {"string", "loop"} /\ (mode' = "string" <=> c = Quote)
        /\ c \in Letters \cup Digits \/ currentString' \in Reserved
    BY <1>10 DEF IsReserved, IsGoodForIdentifier, IsDigit, IsGoodForStartIdentifier
  <2> HIDE DEF c
  <2>3. TypeOK'
    <3>1. mode' \in Modes /\ committed' \in BOOLEAN
      BY <2>2 DEF Modes
    <3> QED BY <1>1, <1>2, <1>4, <2>1, <2>2, <3>1 DEF LexInv, TypeOK, ReadTypes
  <2>4. Reading'
    BY <1>1, <2>1, <2>2 DEF Reading, Scanning, c
  <2>5. Tiled'
    <3>1. After(Len(spans))' = pos' /\ Consumed' = pos'
      BY <2>1, <2>2 DEF After, Consumed
    <3>2. \A i \in 1 .. Len(spans') : spans'[i].from = After(i - 1)' /\ Spells(input', spans'[i].lexeme, spans'[i].from)
      BY <1>1, <2>2 DEF LexInv, Tiled, After
    <3>3. After(Len(spans))' + Len(currentString') = Consumed' + 1
      BY <1>3, <2>1, <3>1
    <3> QED BY <1>1, <2>1, <2>2, <3>1, <3>2, <3>3 DEF Tiled, Scanning
  <2>6. Words'
    <3>1. First' = c /\ DOMAIN currentString' = {1} /\ currentString' # <<>>
      BY <2>1 DEF First
    <3>2. c \in Letters => IsWord(currentString')
      BY <2>1, <3>1 DEF IsWord
    <3>3. c \in Digits => IsNumber(currentString')
      BY <2>1, <3>1 DEF IsNumber
    <3>4. mode' = "string" => \A j \in 1 .. Len(currentString') : currentString'[j] = Quote <=> j = 1
      BY <2>1, <2>2
    <3> QED BY <2>2, <3>1, <3>2, <3>3, <3>4 DEF Words
  <2>7. AllMunched'
    BY <1>1, <2>2 DEF LexInv, AllMunched
  <2>8. Lines'
    <3> SUFFICES ASSUME compilations = 1
                 PROVE  Counted' /\ PiecesCounted'
      BY <2>2 DEF Lines
    <3>1. Counted'
      BY <1>1, <1>2, <1>6, <2>1, <2>2 DEF Counted, ReadCounted
    <3> QED BY <1>1, <2>2, <3>1 DEF LexInv, Lines, PiecesCounted
  <2> QED BY <2>3, <2>4, <2>5, <2>6, <2>7, <2>8 DEF LexInv
<1>11. IsReserved(<<c>>) \/ IsGoodForIdentifier(c) => c # EOF
  <2>1. <<EOF>> \notin Seq(Chars)
    BY TextAssumption
  <2> QED BY <2>1, TextAssumption DEF IsReserved, IsGoodForIdentifier, IsDigit, IsGoodForStartIdentifier, Chars
<1> QED BY <1>7, <1>9, <1>10, <1>11 DEF StartToken

(***************************************************************************)
(* The parser's exit leaves the lexer as it is.                            *)
(***************************************************************************)
LEMMA ErrorKeeps ==
    ASSUME LexInv, ParsingError
    PROVE  LexInv'
<1>1. /\ mode \in {"start", "stopped"} /\ mode' = "exited"
      /\ UNCHANGED <<input, pos, currentChar, currentLine, currentPosition, lastWasNewLine,
                     committed, currentString, spans, from, tokenLine, tokenPosition, compilations>>
  BY DEF ParsingError, readVars, tokenVars
<1>2. TypeOK'
  BY <1>1 DEF LexInv, TypeOK, Modes
<1>3. Reading' /\ Words'
  BY <1>1 DEF LexInv, Reading, Words, Scanning
<1>4. Tiled'
  <2>1. Consumed' = Consumed /\ After(Len(spans))' = After(Len(spans))
    BY <1>1 DEF Consumed, After
  <2>2. \A i \in 1 .. Len(spans') : spans'[i].from = After(i - 1)' /\ Spells(input', spans'[i].lexeme, spans'[i].from)
    BY <1>1 DEF LexInv, Tiled, After
  <2> QED BY <1>1, <2>1, <2>2 DEF LexInv, Tiled, Scanning
<1>5. AllMunched'
  BY <1>1 DEF LexInv, AllMunched
<1>6. Lines'
  BY <1>1 DEF LexInv, Lines, Counted, PiecesCounted, Place, Scanning
<1> QED BY <1>2, <1>3, <1>4, <1>5, <1>6 DEF LexInv

(***************************************************************************)
(* The next file starts with nothing pending, whatever the last character  *)
(* of the earlier one was.                                                 *)
(***************************************************************************)
LEMMA CompilationKeeps ==
    ASSUME LexInv, NextCompilation
    PROVE  LexInv'
<1>1. /\ mode = "stopped" /\ mode' = "start" /\ pos' = 0 /\ spans' = <<>> /\ input' \in LaterInputs
      /\ compilations < MaxCompilations /\ compilations' = compilations + 1
      /\ UNCHANGED <<currentChar, committed, currentLine, currentPosition, lastWasNewLine,
                     currentString, from, tokenLine, tokenPosition>>
  BY DEF NextCompilation, tokenVars
<1>2. committed /\ currentString = <<>>
  BY <1>1 DEF LexInv, Reading, Tiled, TypeOK
<1>3. /\ Len(input') \in Nat /\ input' \in Seq(Chars)
      /\ spans' \in Seq(Piece) /\ Len(spans') = 0 /\ Len(currentString') = 0
  BY <1>1, <1>2, TextAssumption, EmptySeq
<1>4. TypeOK'
  <2>1. compilations' \in 1 .. MaxCompilations /\ compilations' # 1
    BY <1>1, ReservedAssumption DEF LexInv, TypeOK
  <2>2. pos' \in 0 .. Len(input') /\ mode' \in Modes
    BY <1>1, <1>3 DEF Modes
  <2> QED BY <1>1, <1>3, <2>1, <2>2 DEF LexInv, TypeOK
<1>5. compilations' # 1
  BY <1>1 DEF LexInv, TypeOK
<1>6. Reading' /\ Words'
  BY <1>1, <1>2 DEF Reading, Words, Scanning
<1>7. Tiled'
  <2>1. After(Len(spans))' = 1 /\ Consumed' = 0
    BY <1>1, <1>2, <1>3 DEF After, Consumed
  <2>2. Spells(input', currentString', 1)
    BY <1>1, <1>2, <1>3, NothingSpelled
  <2> QED BY <1>1, <1>2, <1>3, <2>1, <2>2 DEF Tiled, Scanning
<1>8. AllMunched' /\ Lines'
  BY <1>3, <1>5 DEF AllMunched, Lines
<1> QED BY <1>4, <1>6, <1>7, <1>8 DEF LexInv

-----------------------------------------------------------------------------
(***************************************************************************)
(* A process starts with an unread file, in its first line.                *)
(***************************************************************************)
LEMMA InitLex ==
    ASSUME Init
    PROVE  LexInv
<1>1. /\ input \in Inputs /\ input \in Seq(Chars) /\ Len(input) \in Nat /\ pos = 0
      /\ currentChar = "NUL" /\ currentChar # EOF /\ committed = TRUE
      /\ currentLine = 1 /\ currentPosition = 0 /\ lastWasNewLine = FALSE
      /\ mode = "start" /\ currentString = <<>> /\ spans = <<>>
      /\ from = 0 /\ tokenLine = 0 /\ tokenPosition = 0 /\ compilations = 1
      /\ Len(spans) = 0 /\ Len(currentString) = 0
      /\ spans \in Seq(Piece) /\ currentString \in Seq(Chars)
  BY TextAssumption, EmptySeq DEF Init, EOF
<1>2. TypeOK
  <2>1. pos \in 0 .. Len(input) /\ compilations \in 1 .. MaxCompilations /\ mode \in Modes
    BY <1>1, ReservedAssumption DEF Modes
  <2> QED BY <1>1, <2>1 DEF TypeOK
<1>3. Reading /\ Words
  BY <1>1 DEF Reading, Words, Scanning
<1>4. Tiled
  <2>1. After(Len(spans)) = 1 /\ Consumed = 0
    BY <1>1 DEF After, Consumed
  <2>2. Spells(input, currentString, 1)
    BY <1>1, NothingSpelled
  <2> QED BY <1>1, <2>1, <2>2 DEF Tiled, Scanning
<1>5. AllMunched /\ PiecesCounted
  BY <1>1 DEF AllMunched, PiecesCounted
<1>6. Counted
  <2>1. LineEnds(input, 0) = {}
    BY DEF LineEnds
  <2>2. Place = 0 /\ Cardinality({}) = 0
    BY <1>1, FS_EmptySet DEF Place
  <2>3. StandsAt(input, 1, 0, 0)
    BY <2>1, <2>2 DEF StandsAt
  <2> QED BY <1>1, <2>2, <2>3 DEF Counted, Scanning
<1> QED BY <1>2, <1>3, <1>4, <1>5, <1>6 DEF LexInv, Lines

(***************************************************************************)
(* What is known of the lexer is an invariant.                             *)
(***************************************************************************)
LEMMA LexIsInvariant == Spec => []LexInv
<1>1. Init => LexInv
  BY InitLex
<1>2. LexInv /\ [Next]_vars => LexInv'
  <2>1. ASSUME LexInv, GetToken PROVE LexInv'
    BY <2>1, StartKeeps, IdentifierKeeps, NumberKeeps, SymbolKeeps, CommentKeeps, StringKeeps DEF GetToken
  <2>2. ASSUME LexInv, UNCHANGED vars PROVE LexInv'
    <3>1. UNCHANGED <<input, pos, currentChar, currentLine, currentPosition, lastWasNewLine, mode,
                      committed, currentString, spans, from, tokenLine, tokenPosition, compilations>>
      BY <2>2 DEF vars, readVars, tokenVars
    <3>2. TypeOK' /\ Reading' /\ Words' /\ AllMunched'
      BY <2>2, <3>1 DEF LexInv, TypeOK, Reading, Words, AllMunched, First
    <3>3. Tiled'
      <4>1. Consumed' = Consumed /\ After(Len(spans))' = After(Len(spans))
        BY <3>1 DEF Consumed, After
      <4>2. \A i \in 1 .. Len(spans') : spans'[i].from = After(i - 1)' /\ Spells(input', spans'[i].lexeme, spans'[i].from)
        BY <2>2, <3>1 DEF LexInv, Tiled, After
      <4> QED BY <2>2, <3>1, <4>1, <4>2 DEF LexInv, Tiled
    <3>4. Lines'
      BY <2>2, <3>1 DEF LexInv, Lines, Counted, PiecesCounted, Place
    <3> QED BY <3>2, <3>3, <3>4 DEF LexInv
  <2> QED BY <2>1, <2>2, ErrorKeeps, CompilationKeeps DEF Next
<1> QED BY <1>1, <1>2, PTL DEF Spec

(***************************************************************************)
(* Every variable of the lexer keeps its type; its pieces are made of      *)
(* characters of the file (Lexer.cpp:88-256).                              *)
(***************************************************************************)
THEOREM LexerTypes == Spec => []TypeOK
<1>1. LexInv => TypeOK
  BY DEF LexInv
<1> QED BY <1>1, LexIsInvariant, PTL

(***************************************************************************)
(* No character of a file is lost, repeated or invented by GetToken, for   *)
(* any file and whatever earlier compilations left behind                  *)
(* (Lexer.cpp:88-256).                                                     *)
(***************************************************************************)
THEOREM NothingIsLost == Spec => []Lossless
<1>1. ASSUME LexInv PROVE Lossless
  <2>1. /\ spans \in Seq(Piece) /\ DOMAIN spans = 1 .. Len(spans) /\ Len(spans) \in Nat
        /\ input \in Seq(Chars) /\ currentString \in Seq(Chars) /\ Len(currentString) \in Nat
        /\ pos \in Nat
    BY <1>1, InputIsText DEF LexInv
  <2>2. ASSUME NEW i \in 1 .. Len(spans)
        PROVE  /\ spans[i].from = After(i - 1)
               /\ spans[i].lexeme = SubSeq(input, spans[i].from, After(i) - 1)
    <3>1. spans[i] \in Piece
      BY <2>1
    <3>2. /\ spans[i].from = After(i - 1) /\ Spells(input, spans[i].lexeme, spans[i].from)
          /\ spans[i].lexeme \in Seq(Chars)
      BY <1>1, <3>1 DEF LexInv, Tiled, Piece
    <3>3. After(i) = spans[i].from + Len(spans[i].lexeme)
      BY DEF After
    <3>4. spans[i].lexeme = SubSeq(input, spans[i].from, spans[i].from + Len(spans[i].lexeme) - 1)
      BY <2>1, <3>2, SpelledPart
    <3>5. After(i) - 1 = spans[i].from + Len(spans[i].lexeme) - 1
      <4>1. spans[i].from \in Nat /\ Len(spans[i].lexeme) \in Nat
        BY <3>1, <3>2 DEF Piece
      <4> QED BY <3>3, <4>1
    <3> QED BY <3>2, <3>4, <3>5
  <2>3. currentString = SubSeq(input, After(Len(spans)), Consumed)
    <3>1. /\ Spells(input, currentString, After(Len(spans)))
          /\ After(Len(spans)) + Len(currentString) = Consumed + 1
      BY <1>1 DEF LexInv, Tiled
    <3>2. After(Len(spans)) \in Nat /\ Consumed \in Int
      BY <2>1, <3>1 DEF Spells, Consumed
    <3>3. After(Len(spans)) + Len(currentString) - 1 = Consumed
      BY <2>1, <3>1, <3>2
    <3> QED BY <2>1, <3>1, <3>3, SpelledPart
  <2> QED BY <2>1, <2>2, <2>3 DEF Lossless
<1> QED BY <1>1, LexIsInvariant, PTL

(***************************************************************************)
(* Every piece is what maximal munch gives: the longest of its class, and  *)
(* of the right class (Lexer.cpp:137-256).                                 *)
(***************************************************************************)
THEOREM PiecesAreLongest == Spec => []LongestMatch
<1>1. ASSUME LexInv PROVE LongestMatch
  <2>1. /\ spans \in Seq(Piece) /\ DOMAIN spans = 1 .. Len(spans) /\ Len(spans) \in Nat
    BY <1>1, InputIsText DEF LexInv
  <2> SUFFICES ASSUME NEW i \in 1 .. Len(spans)
               PROVE  LET p == spans[i] IN
                      CASE p.type = "identifier" -> Longest(IsWord, p) /\ p.lexeme \notin Reserved
                        [] p.type = "reserved" ->
                               /\ p.lexeme \in Reserved
                               /\ Longest(IsWord, p) \/ Longest(IsSymbol, p)
                        [] p.type = "integer" -> Longest(IsNumber, p) /\ Dot \notin {p.lexeme[j] : j \in DOMAIN p.lexeme}
                        [] p.type = "real" -> Longest(IsNumber, p) /\ Dot \in {p.lexeme[j] : j \in DOMAIN p.lexeme}
                        [] p.type = "comment" ->
                               /\ SubSeq(p.lexeme, 1, 2) = <<Slash, Slash>>
                               /\ NewLine \notin {p.lexeme[j] : j \in DOMAIN p.lexeme}
                               /\ input[After(i)] = NewLine
                        [] p.type = "string" ->
                               {j \in DOMAIN p.lexeme : p.lexeme[j] = Quote} = {1, Len(p.lexeme)}
                        [] OTHER -> TRUE
    BY <2>1 DEF LongestMatch
  <2> DEFINE p == spans[i]
             next == p.from + Len(p.lexeme)
  <2>2. p \in Piece /\ InItsClass(p) /\ EndsWhereItMust(input, p)
    BY <1>1, <2>1 DEF LexInv, AllMunched, Munched
  <2>3. p.lexeme \in Seq(Chars) /\ DOMAIN p.lexeme = 1 .. Len(p.lexeme) /\ Len(p.lexeme) \in Nat
    BY <2>2 DEF Piece
  <2>4. After(i) = next
    BY DEF After
  <2> HIDE DEF p
  <2>5. CASE p.type = "identifier"
    <3>1. Longest(IsWord, p) /\ p.lexeme \notin Reserved
      BY <2>2, <2>5 DEF InItsClass, EndsWhereItMust, Longest
    <3> QED BY <2>5, <3>1 DEF p
  <2>6. CASE p.type = "reserved"
    <3>1. p.lexeme \in Reserved
      BY <2>2, <2>6 DEF InItsClass
    <3>2. IsWord(p.lexeme) => Longest(IsWord, p)
      BY <2>2, <2>6 DEF EndsWhereItMust, Longest
    <3>3. ~IsWord(p.lexeme) => Longest(IsSymbol, p)
      BY <2>2, <2>6, <3>1 DEF EndsWhereItMust, Longest, IsSymbol
    <3> QED BY <2>6, <3>1, <3>2, <3>3 DEF p
  <2>7. ASSUME p.type \in {"integer", "real"}
        PROVE  /\ Longest(IsNumber, p)
               /\ p.type = "integer" => Dot \notin {p.lexeme[j] : j \in DOMAIN p.lexeme}
               /\ p.type = "real" => Dot \in {p.lexeme[j] : j \in DOMAIN p.lexeme}
    <3>1. Longest(IsNumber, p)
      BY <2>2, <2>7 DEF InItsClass, EndsWhereItMust, Longest
    <3>2. /\ p.type = "integer" => ~HasDot(p.lexeme)
          /\ p.type = "real" => HasDot(p.lexeme)
      BY <2>2 DEF InItsClass
    <3> QED BY <3>1, <3>2 DEF HasDot
  <2>8. CASE p.type = "integer"
    BY <2>7, <2>8 DEF p
  <2>9. CASE p.type = "real"
    BY <2>7, <2>9 DEF p
  <2>10. CASE p.type = "comment"
    <3>1. IsComment(p.lexeme) /\ input[next] = NewLine
      BY <2>2, <2>10 DEF InItsClass, EndsWhereItMust
    <3>2. Spells(p.lexeme, <<Slash, Slash>>, 1)
      <4>1. Len(<<Slash, Slash>>) = 2 /\ <<Slash, Slash>>[1] = Slash /\ <<Slash, Slash>>[2] = Slash
        OBVIOUS
      <4>2. \A j \in 1 .. 2 : 1 + j - 1 = j /\ (j = 1 \/ j = 2)
        OBVIOUS
      <4> QED BY <2>3, <3>1, <4>1, <4>2 DEF Spells, IsComment
    <3>3. <<Slash, Slash>> \in Seq(Chars)
      <4>1. p.lexeme[1] \in Chars /\ p.lexeme[1] = Slash
        BY <2>3, <3>1 DEF IsComment
      <4> QED BY <4>1
    <3>4. SubSeq(p.lexeme, 1, 2) = <<Slash, Slash>>
      <4>1. 1 + Len(<<Slash, Slash>>) - 1 = 2
        OBVIOUS
      <4> QED BY <2>3, <3>2, <3>3, <4>1, SpelledPart
    <3>5. NewLine \notin {p.lexeme[j] : j \in DOMAIN p.lexeme}
      BY <2>3, <3>1 DEF IsComment
    <3> QED BY <2>4, <2>10, <3>1, <3>4, <3>5 DEF p
  <2>11. CASE p.type = "string"
    <3>1. /\ Len(p.lexeme) > 1
          /\ \A j \in 1 .. Len(p.lexeme) : p.lexeme[j] = Quote <=> j \in {1, Len(p.lexeme)}
      BY <2>2, <2>11 DEF InItsClass
    <3>2. {j \in DOMAIN p.lexeme : p.lexeme[j] = Quote} = {1, Len(p.lexeme)}
      BY <2>3, <3>1
    <3> QED BY <2>11, <3>2 DEF p
  <2>12. CASE p.type \notin {"identifier", "reserved", "integer", "real", "comment", "string"}
    BY <2>12 DEF p
  <2> QED BY <2>5, <2>6, <2>8, <2>9, <2>10, <2>11, <2>12
<1> QED BY <1>1, LexIsInvariant, PTL

(***************************************************************************)
(* In the first compilation of a process a token keeps the line and the    *)
(* position of its first character (Lexer.cpp:88-110, 178-186).            *)
(***************************************************************************)
THEOREM PositionsAreRight == Spec => []LinesCounted
<1>1. ASSUME LexInv PROVE LinesCounted
  <2> SUFFICES ASSUME compilations = 1, NEW i \in DOMAIN spans
               PROVE  LET before == {j \in 1 .. spans[i].from - 1 : input[j] = NewLine} IN
                      /\ spans[i].line = Cardinality(before) + 1
                      /\ \/ before = {} /\ spans[i].position = spans[i].from
                         \/ \E j \in before : /\ \A k \in before : k <= j
                                              /\ spans[i].position = spans[i].from - j
    BY DEF LinesCounted
  <2>1. i \in 1 .. Len(spans)
    BY <1>1, InputIsText DEF LexInv
  <2>2. StandsAt(input, spans[i].line, spans[i].position, spans[i].from)
    BY <1>1, <2>1 DEF LexInv, Lines, PiecesCounted
  <2> QED BY <2>2 DEF StandsAt, LineEnds
<1> QED BY <1>1, LexIsInvariant, PTL
=============================================================================

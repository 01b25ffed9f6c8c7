---------------------------- MODULE DriverProofs ----------------------------
(***************************************************************************)
(* Theorems of the driver in a process that compiles as often as it likes: *)
(* the files a compilation reads and writes, and what is left of them for  *)
(* the next one, descriptors among them.  With the memory of the harness   *)
(* they say when a process of the test build may have undefined behaviour  *)
(* at all, and complete its type invariant.                                *)
(***************************************************************************)
EXTENDS HarnessProofs

InputOptions == {"--input", "-s"}
OutputOptions == {"--output", "-o"}
Standard == {Stdin, Stdout, Stderr}
FileNames == {"stdin", "stdout", "stderr", None} \cup STRING
Places == {"start", "middle", "end", "stream"}

\* The options with one argument among the words that were read.
OptionsRead(options) == {i \in OptionAt(argv) : i < word /\ argv[i] \in options}
Greatest(S) == CHOOSE i \in S : \A j \in S : j <= i

\* The words that are read one after the other, an option with its argument.
Words ==
    /\ argv \in Seq(STRING) /\ word \in Nat
    /\ word # Idle =>
        /\ word \in 1 .. Len(argv) + 1
        /\ word - 1 \in OptionAt(argv) => ArgsLength(argv[word - 1]) # 1
    /\ word # Idle =>
        \A i \in OptionAt(argv) : i < word /\ ArgsLength(argv[i]) = 1 => i + 1 < word

\* The standard descriptors stay open, and what else can be written is a target.
Files ==
    /\ outputFile \in (0 .. MaxDescriptors - 1) \ {Stdin, Stderr}
    /\ DOMAIN descriptors \subseteq 0 .. MaxDescriptors - 1
    /\ Standard \subseteq DOMAIN descriptors
    /\ descriptors \in [DOMAIN descriptors -> [file : FileNames, writable : BOOLEAN]]
    /\ lexerInput \in [file : FileNames, at : Places]
    /\ descriptors[Stdout] = File("stdout", TRUE)
    /\ \A d \in DOMAIN descriptors \ Standard :
           descriptors[d].writable => descriptors[d].file \in Targets

\* What the last of the options that were read has made of the globals.
LastInputOpened ==
    word # Idle /\ OptionsRead(InputOptions) # {} =>
        /\ lexerInput.file = argv[Greatest(OptionsRead(InputOptions)) + 1]
        /\ lexerInput.at \in {"start", "stream"}

LastOutputOpened ==
    /\ word # Idle /\ OptionsRead(OutputOptions) # {} =>
           /\ CanWrite
           /\ descriptors[outputFile].file = argv[Greatest(OptionsRead(OutputOptions)) + 1]
    /\ word = Idle \/ OptionsRead(OutputOptions) = {} =>
           outputFile = Stdout \/ ~CanWrite

\* An output that cannot be written was the target of a compilation.
StaleOutputs == ~CanWrite => \E i \in DOMAIN log : log[i].wrote \in Targets

Entries == [argv : Seq(STRING), read : [file : FileNames, at : Places], wrote : FileNames]

DriverInv ==
    /\ Words /\ Files /\ log \in Seq(Entries)
    /\ LastInputOpened /\ LastOutputOpened /\ StaleOutputs
    /\ NamedFilesAreUsed

(***************************************************************************)
(* Induction over the natural numbers, for a set of them.                  *)
(***************************************************************************)
LEMMA SetInduction ==
    ASSUME NEW S \in SUBSET Nat, 0 \in S, \A k \in S : k + 1 \in S
    PROVE  S = Nat
<1> DEFINE T == Nat \ S
           R == OpToRel(<, Nat)
<1> SUFFICES ASSUME T # {} PROVE FALSE
  OBVIOUS
<1>1. PICK k \in T : \A e \in T : ~(<<e, k>> \in R)
  <2>1. T \subseteq Nat
    OBVIOUS
  <2> HIDE DEF R, T
  <2> QED BY <2>1, NatLessThanWellFounded, WFMin DEF R
<1>2. k \in Nat /\ k \notin S /\ \A e \in T : ~(e < k)
  BY <1>1 DEF OpToRel
<1>3. k - 1 \in Nat /\ k - 1 < k /\ (k - 1) + 1 = k
  BY <1>2
<1>4. k - 1 \in S
  BY <1>2, <1>3
<1> QED BY <1>2, <1>3, <1>4

-----------------------------------------------------------------------------
(* Command lines.                                                          *)

\* Whether a word is an option, f telling it of the word before.
OptionStep(f, line, i) ==
    /\ i > 0 /\ line[i] \in Options
    /\ ~(f[i - 1] /\ ArgsLength(line[i - 1]) = 1)

(***************************************************************************)
(* The options of a command line can be told from its start, by induction  *)
(* over the length of a prefix.                                            *)
(***************************************************************************)
LEMMA OptionsExist ==
    ASSUME NEW line \in Seq(STRING)
    PROVE  \E f : f = [i \in 0 .. Len(line) |-> OptionStep(f, line, i)]
<1> DEFINE Can(k) == \E f : f = [i \in 0 .. k |-> OptionStep(f, line, i)]
           S == {k \in Nat : Can(k)}
<1>1. ASSUME NEW k \in Nat, Can(k)
      PROVE  Can(k + 1)
  <2>1. PICK f : f = [i \in 0 .. k |-> OptionStep(f, line, i)]
    BY <1>1
  <2> DEFINE g == [i \in 0 .. k + 1 |-> OptionStep(f, line, i)]
  <2>2. ASSUME NEW i \in 0 .. k + 1
        PROVE  OptionStep(f, line, i) = OptionStep(g, line, i)
    <3>1. CASE i = 0
      BY <3>1 DEF OptionStep
    <3>2. CASE i # 0
      <4>1. i - 1 \in 0 .. k /\ i - 1 \in 0 .. k + 1
        BY <3>2
      <4>2. f[i - 1] = OptionStep(f, line, i - 1)
        BY <2>1, <4>1
      <4>3. g[i - 1] = OptionStep(f, line, i - 1)
        BY <4>1
      <4>4. f[i - 1] = g[i - 1]
        BY <4>2, <4>3
      <4> HIDE DEF g
      <4> QED BY <4>4 DEF OptionStep
    <3> QED BY <3>1, <3>2
  <2>3. g = [i \in 0 .. k + 1 |-> OptionStep(g, line, i)]
    BY <2>2
  <2> HIDE DEF g
  <2> QED BY <2>3
<1>2. Can(0)
  <2> DEFINE g == [i \in 0 .. 0 |-> FALSE]
  <2>1. \A i \in 0 .. 0 : OptionStep(g, line, i) = FALSE
    BY DEF OptionStep
  <2>2. g = [i \in 0 .. 0 |-> OptionStep(g, line, i)]
    BY <2>1
  <2> HIDE DEF g
  <2> QED BY <2>2
<1>3. S = Nat
  <2>1. 0 \in S /\ \A k \in S : k + 1 \in S
    <3> HIDE DEF Can
    <3> QED BY <1>1, <1>2
  <2>2. S \in SUBSET Nat
    OBVIOUS
  <2> HIDE DEF S
  <2> QED BY <2>1, <2>2, SetInduction
<1>4. Len(line) \in S
  BY <1>3
<1> QED BY <1>4

(***************************************************************************)
(* A word is an option unless the option before it takes it.               *)
(***************************************************************************)
LEMMA OptionsOfALine ==
    ASSUME NEW line \in Seq(STRING)
    PROVE  /\ OptionAt(line) \subseteq DOMAIN line
           /\ \A i \in DOMAIN line :
                  i \in OptionAt(line) <=>
                      /\ line[i] \in Options
                      /\ ~(i - 1 \in OptionAt(line) /\ ArgsLength(line[i - 1]) = 1)
<1> DEFINE W == CHOOSE f : f = [i \in 0 .. Len(line) |-> OptionStep(f, line, i)]
<1>1. W = [i \in 0 .. Len(line) |-> OptionStep(W, line, i)]
  BY OptionsExist
<1>2. OptionAt(line) = {i \in DOMAIN line : W[i]}
  BY DEF OptionAt, OptionStep
<1> HIDE DEF W
<1>3. Len(line) \in Nat /\ DOMAIN line = 1 .. Len(line)
  OBVIOUS
<1>4. ASSUME NEW i \in DOMAIN line
      PROVE  i \in OptionAt(line) <=> OptionStep(W, line, i)
  BY <1>1, <1>2, <1>3
<1>5. ~W[0]
  <2>1. W[0] = OptionStep(W, line, 0)
    BY <1>1, <1>3
  <2> QED BY <2>1 DEF OptionStep
<1>6. ASSUME NEW i \in DOMAIN line
      PROVE  i - 1 \in OptionAt(line) <=> W[i - 1]
  <2>1. CASE i = 1
    BY <1>2, <1>3, <1>5, <2>1
  <2>2. CASE i # 1
    <3>1. i - 1 \in DOMAIN line
      BY <1>3, <2>2
    <3> QED BY <1>2, <3>1
  <2> QED BY <2>1, <2>2
<1>7. \A i \in DOMAIN line : i > 0
  BY <1>3
<1>8. OptionAt(line) \subseteq DOMAIN line
  BY <1>2
<1> QED BY <1>4, <1>6, <1>7, <1>8 DEF OptionStep

(***************************************************************************)
(* A set of words that is not empty has a last one.                        *)
(***************************************************************************)
LEMMA GreatestIsLast ==
    ASSUME NEW n \in Nat, NEW S \in SUBSET (1 .. n), S # {}
    PROVE  Greatest(S) \in S /\ \A j \in S : j <= Greatest(S)
<1> DEFINE U == {u \in Nat : \A j \in S : j <= u}
           R == OpToRel(<, Nat)
<1>1. n \in U
  OBVIOUS
<1>2. PICK u \in U : \A e \in U : ~(<<e, u>> \in R)
  <2>1. U \subseteq Nat /\ U # {}
    BY <1>1
  <2> HIDE DEF R, U
  <2> QED BY <2>1, NatLessThanWellFounded, WFMin DEF R
<1>3. \A e \in U : ~(e < u)
  BY <1>2 DEF OpToRel
<1>4. u \in S
  <2> SUFFICES ASSUME u \notin S PROVE FALSE
    OBVIOUS
  <2>1. u \in Nat /\ \A j \in S : j \in Nat /\ j > 0 /\ j <= u /\ j # u
    OBVIOUS
  <2>2. u - 1 \in Nat /\ u - 1 < u /\ \A j \in S : j <= u - 1
    <3>1. PICK j \in S : TRUE
      OBVIOUS
    <3> QED BY <2>1, <3>1
  <2> QED BY <1>3, <2>2
<1>5. \E i \in S : \A j \in S : j <= i
  BY <1>4
<1> QED BY <1>5 DEF Greatest

-----------------------------------------------------------------------------
(* Steps.                                                                  *)

DriverMoves ==
    \/ StartCompiler \/ SkipWord \/ ReadOption \/ CompileAndWrite
    \/ WriteFails

(***************************************************************************)
(* What a step of the process does to the variables of the driver.         *)
(***************************************************************************)
LEMMA WhatTheDriverDoes ==
    ASSUME [Next]_vars
    PROVE  DriverMoves \/ UNCHANGED driverVars
<1>1. CASE Operators
  BY <1>1 DEF Operators
<1>2. CASE InMain
  <2>1. CASE StaticInitializer \/ StaticInitialized \/ BadAllocEscapes \/ Main \/ NewList \/ ListMade
    BY <2>1 DEF StaticInitializer, StaticInitialized, BadAllocEscapes, Main, NewList, ListMade
  <2>2. CASE Callback \/ PrintResults \/ DeleteWarnings \/ WarningsDeleted \/ MainReturns
    BY <2>2 DEF Callback, PrintResults, DeleteWarnings, WarningsDeleted, MainReturns
  <2>3. CASE MapDestructor \/ StaticDestructor \/ StaticDeleted \/ ProcessExits
    BY <2>3 DEF MapDestructor, StaticDestructor, StaticDeleted, ProcessExits
  <2> QED BY <1>2, <2>1, <2>2, <2>3 DEF InMain
<1>3. CASE InTest
  <2>1. CASE New \/ NewReturns \/ Delete \/ DeleteReturns \/ Use
    BY <2>1 DEF New, NewReturns, Delete, DeleteReturns, Use
  <2>2. CASE \E how \in {"passed", "failed", "exception"} : FunctionEnds(how)
    BY <2>2 DEF FunctionEnds
  <2>3. CASE Compile \/ CompilerSteps \/ CompilerEndsProcess \/ CompilerReadsBehindArgv
    BY <2>3
    DEF Compile, CompilerSteps, CompilerEndsProcess, CompilerReadsBehindArgv, DriverMoves,
        OptionEndsProcess, CompilerExits, ReadsBehindArgv
  <2> QED BY <1>3, <2>1, <2>2, <2>3 DEF InTest
<1>4. CASE UNCHANGED vars
  BY <1>4 DEF vars
<1> QED BY <1>1, <1>2, <1>3, <1>4 DEF Next

(***************************************************************************)
(* fopen gives a descriptor that no file has.                              *)
(***************************************************************************)
LEMMA OpensAFile ==
    ASSUME Files, NEW file \in FileNames, NEW writable \in BOOLEAN, Unused # {}, Opens(file, writable)
    PROVE  /\ LeastUnused \in 0 .. MaxDescriptors - 1 /\ LeastUnused \notin DOMAIN descriptors
           /\ LeastUnused \notin Standard
           /\ DOMAIN descriptors' = DOMAIN descriptors \cup {LeastUnused}
           /\ descriptors'[LeastUnused] = File(file, writable)
           /\ \A d \in DOMAIN descriptors : descriptors'[d] = descriptors[d]
           /\ descriptors' \in [DOMAIN descriptors' -> [file : FileNames, writable : BOOLEAN]]
<1>1. LeastUnused \in Unused
  <2>1. Unused \in SUBSET Nat
    BY DriverAssumption DEF Unused
  <2>2. LeastUnused = First(Unused)
    BY DEF LeastUnused, First
  <2> HIDE DEF LeastUnused
  <2> QED BY <2>1, <2>2, FirstIsMember
<1>2. LeastUnused \in 0 .. MaxDescriptors - 1 /\ LeastUnused \notin DOMAIN descriptors
  BY <1>1 DEF Unused
<1>3. LeastUnused \notin Standard
  BY <1>2 DEF Files
<1>4. descriptors' = [d \in DOMAIN descriptors \cup {LeastUnused} |->
                          IF d = LeastUnused THEN File(file, writable) ELSE descriptors[d]]
  BY DEF Opens
<1> HIDE DEF LeastUnused
<1>5. /\ DOMAIN descriptors' = DOMAIN descriptors \cup {LeastUnused}
      /\ descriptors'[LeastUnused] = File(file, writable)
      /\ \A d \in DOMAIN descriptors : descriptors'[d] = descriptors[d]
  BY <1>2, <1>4
<1>6. File(file, writable) \in [file : FileNames, writable : BOOLEAN]
  BY DEF File
<1>7. descriptors' \in [DOMAIN descriptors' -> [file : FileNames, writable : BOOLEAN]]
  BY <1>4, <1>5, <1>6 DEF Files
<1> QED BY <1>2, <1>3, <1>5, <1>7

(***************************************************************************)
(* What ReadOption does with an option: the files it opens.                *)
(***************************************************************************)
InputRead(name) ==
    /\ UNCHANGED outputFile
    /\ lexerInput'.file = name /\ lexerInput'.at \in {"start", "stream"}
    /\ \/ name = "stdin" /\ descriptors' = descriptors
       \/ name \in Sources /\ Unused # {} /\ Opens(name, FALSE)

OutputRead(name) ==
    /\ UNCHANGED lexerInput
    /\ \/ name = "stdout" /\ outputFile' = Stdout /\ descriptors' = descriptors
       \/ name \in Targets /\ Unused # {} /\ Opens(name, TRUE) /\ outputFile' = LeastUnused

(***************************************************************************)
(* An option moves on by two words, the second is its argument.            *)
(***************************************************************************)
LEMMA WhatAnOptionDoes ==
    ASSUME Words, Files, ReadOption
    PROVE  /\ word \in 1 .. Len(argv) - 1 /\ word' = word + 2 /\ UNCHANGED <<argv, log>>
           /\ argv[word] \in Options /\ ArgsLength(argv[word]) = 1 /\ argv[word + 1] \in STRING
           /\ lexerInput' \in [file : FileNames, at : Places]
           /\ \/ argv[word] \in InputOptions /\ InputRead(argv[word + 1])
              \/ argv[word] \in OutputOptions /\ OutputRead(argv[word + 1])
              \/ /\ argv[word] \notin InputOptions \cup OutputOptions
                 /\ UNCHANGED <<descriptors, outputFile, lexerInput>>
<1>1. /\ word \in 1 .. Len(argv) - 1 /\ word' = word + 2 /\ UNCHANGED <<argv, log>>
      /\ argv[word] \in Options /\ ArgsLength(argv[word]) = 1 /\ Handle(argv[word], argv[word + 1])
  BY DEF ReadOption, Reading, ThisWord, Words
<1>2. argv[word + 1] \in STRING
  <2>1. Len(argv) \in Nat /\ word + 1 \in 1 .. Len(argv)
    BY <1>1 DEF Words
  <2> QED BY <2>1 DEF Words
<1>3. CASE argv[word] \in InputOptions /\ HandleOptionInput(argv[word + 1])
  <2>1. \E at \in {"start", "stream"} : lexerInput' = [file |-> argv[word + 1], at |-> at]
    BY <1>3 DEF HandleOptionInput, StdinInput
  <2>2. PICK at \in {"start", "stream"} : lexerInput' = [file |-> argv[word + 1], at |-> at]
    BY <2>1
  <2>3. /\ lexerInput'.file = argv[word + 1] /\ lexerInput'.at \in {"start", "stream"}
        /\ lexerInput' \in [file : FileNames, at : Places]
    BY <1>2, <2>2 DEF Places, FileNames
  <2> QED BY <1>1, <1>2, <1>3, <2>3 DEF HandleOptionInput, InputRead
<1>4. CASE argv[word] \in OutputOptions /\ HandleOptionOutput(argv[word + 1])
  BY <1>1, <1>2, <1>4 DEF HandleOptionOutput, OutputRead, Files
<1>5. CASE argv[word] \in {"--trace", "-t"} /\ HandleOptionTrace(argv[word + 1])
  BY <1>1, <1>2, <1>5 DEF HandleOptionTrace, Files, InputOptions, OutputOptions
<1> QED BY <1>1, <1>3, <1>4, <1>5 DEF Handle, InputOptions, OutputOptions

(***************************************************************************)
(* Reading on keeps the words: an argument is never read as an option.     *)
(***************************************************************************)
LEMMA NextKeepsWords ==
    ASSUME Words, Files, DriverMoves
    PROVE  Words'
<1>1. CASE StartCompiler
  <2>1. argv' \in Seq(STRING) /\ word' = 1
    BY <1>1, DriverAssumption DEF StartCompiler
  <2>2. Len(argv') \in Nat /\ 0 \notin OptionAt(argv') /\ \A i \in OptionAt(argv') : i \in Nat /\ i >= 1
    BY <2>1, OptionsOfALine
  <2> QED BY <2>1, <2>2 DEF Words
<1>2. CASE SkipWord
  <2>1. /\ word \in 1 .. Len(argv) /\ word' = word + 1 /\ argv' = argv /\ argv[word] \notin Options
        /\ Len(argv) \in Nat
    BY <1>2 DEF SkipWord, Reading, ThisWord, IsOption, Words
  <2>2. word \notin OptionAt(argv)
    BY <2>1, OptionsOfALine DEF Words
  <2>3. word' \in 1 .. Len(argv) + 1 /\ word' - 1 = word /\ word # Idle /\ word' \in Nat
    BY <2>1 DEF Idle
  <2>4. \A i \in OptionAt(argv) : i \in Nat /\ i # word
    BY <2>1, <2>2, OptionsOfALine DEF Words
  <2>5. \A i \in OptionAt(argv) : i < word' /\ ArgsLength(argv[i]) = 1 => i + 1 < word'
    BY <2>1, <2>3, <2>4 DEF Words
  <2> QED BY <2>1, <2>2, <2>3, <2>5 DEF Words
<1>3. CASE ReadOption
  <2>1. /\ word \in 1 .. Len(argv) - 1 /\ word' = word + 2 /\ argv' = argv
        /\ argv[word] \in Options /\ ArgsLength(argv[word]) = 1 /\ Len(argv) \in Nat
    BY <1>3, WhatAnOptionDoes DEF Words
  <2>2. word \in OptionAt(argv) /\ word + 1 \notin OptionAt(argv)
    <3>1. word \in DOMAIN argv /\ word + 1 \in DOMAIN argv /\ (word + 1) - 1 = word /\ word # Idle
      BY <2>1 DEF Words, Idle
    <3>2. word \in OptionAt(argv)
      BY <2>1, <3>1, OptionsOfALine DEF Words
    <3> QED BY <2>1, <3>1, <3>2, OptionsOfALine DEF Words
  <2>3. word' \in 1 .. Len(argv) + 1 /\ word' - 1 = word + 1 /\ word # Idle /\ word' \in Nat
    BY <2>1 DEF Idle
  <2>4. \A i \in OptionAt(argv) : i \in Nat /\ i # word + 1
    BY <2>1, <2>2, OptionsOfALine DEF Words
  <2>5. \A i \in OptionAt(argv) : i < word' /\ ArgsLength(argv[i]) = 1 => i + 1 < word'
    BY <2>1, <2>3, <2>4 DEF Words
  <2> QED BY <2>1, <2>2, <2>3, <2>5 DEF Words
<1>4. CASE CompileAndWrite \/ WriteFails
  <2>1. argv' = argv /\ (word' = Idle \/ word' = word)
    BY <1>4 DEF CompileAndWrite, WriteFails
  <2> QED BY <2>1 DEF Words, Idle
<1> QED BY <1>1, <1>2, <1>3, <1>4 DEF DriverMoves

(***************************************************************************)
(* A word that is read moves the options that were read on, by itself if   *)
(* it is an option.                                                        *)
(***************************************************************************)
LEMMA OptionsReadGrow ==
    ASSUME Words, Files, NEW options \in SUBSET Options
    PROVE  /\ OptionsRead(options) \in SUBSET (1 .. Len(argv)) /\ Len(argv) \in Nat
           /\ StartCompiler => OptionsRead(options)' = {}
           /\ SkipWord => OptionsRead(options)' = OptionsRead(options)
           /\ word \notin OptionsRead(options)
           /\ ReadOption /\ argv[word] \notin options => OptionsRead(options)' = OptionsRead(options)
           /\ ReadOption /\ argv[word] \in options =>
                  /\ OptionsRead(options)' = OptionsRead(options) \cup {word} /\ OptionsRead(options)' # {}
                  /\ Greatest(OptionsRead(options)') = word
<1>1. /\ Len(argv) \in Nat /\ DOMAIN argv = 1 .. Len(argv) /\ OptionAt(argv) \subseteq 1 .. Len(argv)
      /\ word \in Nat
  BY OptionsOfALine DEF Words
<1>2. ASSUME StartCompiler
      PROVE  OptionsRead(options)' = {}
  <2>1. argv' \in Seq(STRING) /\ word' = 1
    BY <1>2, DriverAssumption DEF StartCompiler
  <2>2. \A i \in OptionAt(argv') : i \in Nat /\ i >= 1
    BY <2>1, OptionsOfALine
  <2> QED BY <2>1, <2>2 DEF OptionsRead
<1>3. ASSUME SkipWord
      PROVE  OptionsRead(options)' = OptionsRead(options)
  <2>1. word' = word + 1 /\ argv' = argv /\ argv[word] \notin Options
    BY <1>3 DEF SkipWord, Reading, ThisWord, IsOption
  <2>2. \A i \in OptionAt(argv) : argv[i] \in options => i # word /\ i \in Nat
    BY <1>1, <2>1
  <2>3. \A i \in OptionAt(argv) : argv[i] \in options => (i < word' <=> i < word)
    BY <1>1, <2>1, <2>2
  <2> QED BY <2>1, <2>3 DEF OptionsRead
<1>4. ASSUME ReadOption
      PROVE  OptionsRead(options)' = OptionsRead(options) \cup (IF argv[word] \in options THEN {word} ELSE {})
  <2>1. /\ word \in 1 .. Len(argv) - 1 /\ word' = word + 2 /\ argv' = argv
        /\ argv[word] \in Options /\ ArgsLength(argv[word]) = 1
    BY <1>4, WhatAnOptionDoes
  <2>2. word \in OptionAt(argv) /\ word + 1 \notin OptionAt(argv)
    <3>1. word \in DOMAIN argv /\ word + 1 \in DOMAIN argv /\ (word + 1) - 1 = word /\ word # Idle
      BY <1>1, <2>1 DEF Idle
    <3>2. word \in OptionAt(argv)
      BY <2>1, <3>1, OptionsOfALine DEF Words
    <3> QED BY <2>1, <3>1, <3>2, OptionsOfALine DEF Words
  <2>3. \A i \in OptionAt(argv) : i < word' <=> i < word \/ i = word
    BY <1>1, <2>1, <2>2
  <2> QED BY <2>1, <2>2, <2>3 DEF OptionsRead
<1>5. OptionsRead(options) \in SUBSET (1 .. Len(argv)) /\ \A i \in OptionsRead(options) : i < word
  BY <1>1 DEF OptionsRead
<1>6. ASSUME ReadOption, argv[word] \in options
      PROVE  /\ OptionsRead(options)' = OptionsRead(options) \cup {word} /\ OptionsRead(options)' # {}
             /\ Greatest(OptionsRead(options)') = word
  <2>1. OptionsRead(options)' = OptionsRead(options) \cup {word} /\ word \in 1 .. Len(argv) - 1
    BY <1>4, <1>6, WhatAnOptionDoes
  <2> DEFINE S == OptionsRead(options)'
  <2>2. /\ S \in SUBSET (1 .. Len(argv)) /\ word \in S /\ \A i \in S : i <= word
        /\ \A i \in S : i \in Nat
    BY <1>1, <1>5, <2>1
  <2> HIDE DEF S
  <2>3. Greatest(S) \in S /\ \A j \in S : j <= Greatest(S)
    BY <1>1, <2>2, GreatestIsLast
  <2>4. Greatest(S) = word
    <3> DEFINE g == Greatest(S)
    <3>1. g \in S /\ word <= g /\ g <= word
      BY <2>2, <2>3
    <3>2. g \in Nat /\ word \in Nat
      BY <2>2, <3>1
    <3> HIDE DEF g
    <3>3. g = word
      BY <3>1, <3>2
    <3> QED BY <3>3 DEF g
  <2> QED BY <2>1, <2>4 DEF S
<1>7. word \notin OptionsRead(options)
  <2>1. ~(word < word)
    BY <1>1
  <2> QED BY <1>5, <2>1
<1>8. ASSUME ReadOption, argv[word] \notin options
      PROVE  OptionsRead(options)' = OptionsRead(options)
  BY <1>4, <1>8
<1> QED BY <1>1, <1>2, <1>3, <1>5, <1>6, <1>7, <1>8

(***************************************************************************)
(* A module is written through a descriptor that can be written, and only  *)
(* that one is closed.                                                     *)
(***************************************************************************)
LEMMA WhatWritingDoes ==
    ASSUME Words, Files, log \in Seq(Entries), CompileAndWrite
    PROVE  /\ word = Len(argv) + 1 /\ word' = Idle /\ UNCHANGED <<argv, outputFile>>
           /\ CanWrite
           /\ \E entry \in Entries :
                  /\ log' = Append(log, entry) /\ entry.argv = argv /\ entry.read = Input
                  /\ entry.wrote = descriptors[outputFile].file
           /\ CloseOutput
           /\ lexerInput' \in [file : FileNames, at : Places]
<1>1. /\ word = Len(argv) + 1 /\ word' = Idle /\ UNCHANGED <<argv, outputFile>> /\ CanWrite /\ CloseOutput
  BY DEF CompileAndWrite, AtEnd
<1>2. Input \in [file : FileNames, at : Places]
  <2>1. StdinInput \in [file : FileNames, at : Places]
    <3>1. "stdin" \in FileNames /\ "stream" \in Places
      BY DEF Places, FileNames
    <3> QED BY <3>1 DEF StdinInput
  <2>2. lexerInput \in [file : FileNames, at : Places]
    BY DEF Files
  <2> QED BY <2>1, <2>2 DEF Input
<1>3. descriptors[outputFile].file \in FileNames
  <2>1. descriptors[outputFile] \in [file : FileNames, writable : BOOLEAN]
    BY <1>1 DEF CanWrite, Files
  <2> QED BY <2>1
<1> DEFINE entry == [argv |-> argv, read |-> Input, wrote |-> descriptors[outputFile].file]
<1>4. entry \in Entries
  <2>1. \A a \in Seq(STRING), r \in [file : FileNames, at : Places], w \in FileNames :
            [argv |-> a, read |-> r, wrote |-> w] \in Entries
    BY DEF Entries
  <2> QED BY <1>2, <1>3, <2>1 DEF Words
<1>5. entry.argv = argv /\ entry.read = Input /\ entry.wrote = descriptors[outputFile].file
  OBVIOUS
<1>6. log' = Append(log, entry)
  BY DEF CompileAndWrite
<1>7. lexerInput' \in [file : FileNames, at : Places]
  <2>1. PICK at \in {"end", "middle", "stream"} : lexerInput' = [Input EXCEPT !.at = at]
    BY DEF CompileAndWrite
  <2>2. at \in Places
    BY DEF Places
  <2> HIDE DEF Input
  <2> QED BY <1>2, <2>1, <2>2
<1> HIDE DEF entry
<1> QED BY <1>1, <1>4, <1>5, <1>6, <1>7

(***************************************************************************)
(* The descriptor that is closed is not a standard one.                    *)
(***************************************************************************)
LEMMA WhatClosingDoes ==
    ASSUME Files, CloseOutput
    PROVE  /\ DOMAIN descriptors' = DOMAIN descriptors \ ({outputFile} \ {Stdout})
           /\ \A d \in DOMAIN descriptors' : descriptors'[d] = descriptors[d]
           /\ descriptors' \in [DOMAIN descriptors' -> [file : FileNames, writable : BOOLEAN]]
           /\ Standard \subseteq DOMAIN descriptors'
<1> DEFINE D == DOMAIN descriptors \ ({outputFile} \ {Stdout})
<1>1. descriptors' = [d \in D |-> descriptors[d]]
  BY DEF CloseOutput
<1>2. DOMAIN descriptors' = D /\ \A d \in D : descriptors'[d] = descriptors[d]
  BY <1>1
<1>3. \A d \in D : descriptors[d] \in [file : FileNames, writable : BOOLEAN]
  BY DEF Files
<1>4. Standard \subseteq D
  BY DEF Files, Standard
<1> HIDE DEF D
<1>5. descriptors' \in [D -> [file : FileNames, writable : BOOLEAN]]
  BY <1>1, <1>3
<1> QED BY <1>2, <1>4, <1>5 DEF D

(***************************************************************************)
(* The descriptors, whatever files are opened and closed.                  *)
(***************************************************************************)
LEMMA NextKeepsFiles ==
    ASSUME Words, Files, log \in Seq(Entries), DriverMoves
    PROVE  Files' /\ log' \in Seq(Entries)
<1>1. CASE StartCompiler \/ SkipWord
  BY <1>1 DEF StartCompiler, SkipWord, Files
<1>2. CASE ReadOption
  <2>1. /\ argv[word + 1] \in FileNames /\ log' = log
        /\ lexerInput' \in [file : FileNames, at : Places]
    BY <1>2, WhatAnOptionDoes DEF FileNames
  <2>2. CASE UNCHANGED descriptors /\ outputFile' \in {outputFile, Stdout}
    <3>1. Stdout \in (0 .. MaxDescriptors - 1) \ {Stdin, Stderr}
      BY DriverAssumption DEF Stdout, Stdin, Stderr
    <3>2. outputFile' \in (0 .. MaxDescriptors - 1) \ {Stdin, Stderr}
      BY <2>2, <3>1 DEF Files
    <3> QED BY <2>1, <2>2, <3>2 DEF Files
  <2>3. ASSUME NEW writable \in BOOLEAN, Unused # {}, Opens(argv[word + 1], writable),
               writable => argv[word + 1] \in Targets,
               outputFile' = outputFile \/ outputFile' = LeastUnused
        PROVE  Files'
    <3>1. /\ LeastUnused \in 0 .. MaxDescriptors - 1 /\ LeastUnused \notin DOMAIN descriptors
          /\ LeastUnused \notin Standard
          /\ DOMAIN descriptors' = DOMAIN descriptors \cup {LeastUnused}
          /\ descriptors'[LeastUnused] = File(argv[word + 1], writable)
          /\ \A d \in DOMAIN descriptors : descriptors'[d] = descriptors[d]
          /\ descriptors' \in [DOMAIN descriptors' -> [file : FileNames, writable : BOOLEAN]]
      BY <2>1, <2>3, OpensAFile
    <3>2. outputFile' \in (0 .. MaxDescriptors - 1) \ {Stdin, Stderr}
      BY <2>3, <3>1 DEF Files, Standard
    <3>3. DOMAIN descriptors' \subseteq 0 .. MaxDescriptors - 1 /\ Standard \subseteq DOMAIN descriptors'
      BY <3>1 DEF Files
    <3>4. descriptors'[Stdout] = File("stdout", TRUE)
      BY <3>1 DEF Files, Standard
    <3>5. File(argv[word + 1], writable).writable = writable
          /\ File(argv[word + 1], writable).file = argv[word + 1]
      BY DEF File
    <3>6. \A d \in DOMAIN descriptors' \ Standard :
              descriptors'[d].writable => descriptors'[d].file \in Targets
      BY <2>3, <3>1, <3>5 DEF Files
    <3> QED BY <2>1, <3>1, <3>2, <3>3, <3>4, <3>6 DEF Files
  <2>4. Files'
    <3>1. CASE InputRead(argv[word + 1])
      BY <2>2, <2>3, <3>1 DEF InputRead
    <3>2. CASE OutputRead(argv[word + 1])
      BY <2>2, <2>3, <3>2 DEF OutputRead
    <3>3. CASE UNCHANGED <<descriptors, outputFile, lexerInput>>
      BY <2>2, <3>3
    <3> QED BY <1>2, <3>1, <3>2, <3>3, WhatAnOptionDoes
  <2> QED BY <2>1, <2>4
<1>3. CASE CompileAndWrite
  <2>1. /\ outputFile' = outputFile /\ CloseOutput /\ log' \in Seq(Entries)
        /\ lexerInput' \in [file : FileNames, at : Places]
    BY <1>3, WhatWritingDoes
  <2> QED BY <2>1, WhatClosingDoes DEF Files, Standard
<1>4. CASE WriteFails
  <2>1. UNCHANGED <<outputFile, lexerInput, log>> /\ CloseOutput
    BY <1>4 DEF WriteFails
  <2> QED BY <2>1, WhatClosingDoes DEF Files, Standard
<1> QED BY <1>1, <1>2, <1>3, <1>4 DEF DriverMoves

(***************************************************************************)
(* At the end of its words, what a line names is what was read last.       *)
(***************************************************************************)
LEMMA NamedIsLastRead ==
    ASSUME Words, word = Len(argv) + 1, NEW options
    PROVE  Named(argv, options) = IF OptionsRead(options) = {} THEN None
                                  ELSE argv[Greatest(OptionsRead(options)) + 1]
<1>1. Len(argv) \in Nat /\ \A i \in OptionAt(argv) : i \in Nat /\ i < word
  BY OptionsOfALine DEF Words
<1>2. OptionsRead(options) = {i \in OptionAt(argv) : argv[i] \in options}
  BY <1>1 DEF OptionsRead
<1> QED BY <1>2 DEF Named, Greatest

(***************************************************************************)
(* Opening the input leaves the output alone; an output that was opened    *)
(* can be written.                                                         *)
(***************************************************************************)
LEMMA WhatOpeningDoes ==
    ASSUME Files, NEW name \in STRING
    PROVE  /\ InputRead(name) => /\ CanWrite' <=> CanWrite
                                 /\ CanWrite => descriptors'[outputFile'].file = descriptors[outputFile].file
           /\ OutputRead(name) => CanWrite' /\ descriptors'[outputFile'].file = name
<1>0. /\ name \in FileNames
      /\ \A writable : File(name, writable).writable = writable /\ File(name, writable).file = name
  BY DEF FileNames, File
<1>1. ASSUME InputRead(name)
      PROVE  /\ CanWrite' <=> CanWrite
             /\ CanWrite => descriptors'[outputFile'].file = descriptors[outputFile].file
  <2>1. CASE descriptors' = descriptors
    BY <1>1, <2>1 DEF InputRead, CanWrite
  <2>2. CASE Unused # {} /\ Opens(name, FALSE)
    <3>1. /\ LeastUnused \notin DOMAIN descriptors
          /\ DOMAIN descriptors' = DOMAIN descriptors \cup {LeastUnused}
          /\ descriptors'[LeastUnused] = File(name, FALSE)
          /\ \A d \in DOMAIN descriptors : descriptors'[d] = descriptors[d]
      BY <1>0, <2>2, OpensAFile
    <3>2. outputFile' = outputFile
      BY <1>1 DEF InputRead
    <3>3. CASE outputFile \in DOMAIN descriptors
      BY <3>1, <3>2, <3>3 DEF CanWrite
    <3>4. CASE outputFile \notin DOMAIN descriptors
      <4>1. ~CanWrite
        BY <3>4 DEF CanWrite
      <4>2. outputFile = LeastUnused => ~descriptors'[outputFile'].writable
        BY <1>0, <3>1, <3>2
      <4> QED BY <3>1, <3>2, <3>4, <4>1, <4>2 DEF CanWrite
    <3> QED BY <3>3, <3>4
  <2> QED BY <1>1, <2>1, <2>2 DEF InputRead
<1>2. ASSUME OutputRead(name)
      PROVE  CanWrite' /\ descriptors'[outputFile'].file = name
  <2>1. CASE name = "stdout" /\ outputFile' = Stdout /\ descriptors' = descriptors
    <3>1. File("stdout", TRUE).writable /\ File("stdout", TRUE).file = "stdout"
      BY DEF File
    <3> QED BY <2>1, <3>1 DEF CanWrite, Files, Standard
  <2>2. CASE Unused # {} /\ Opens(name, TRUE) /\ outputFile' = LeastUnused
    <3>1. /\ DOMAIN descriptors' = DOMAIN descriptors \cup {LeastUnused}
          /\ descriptors'[LeastUnused] = File(name, TRUE)
      BY <1>0, <2>2, OpensAFile
    <3> QED BY <1>0, <2>2, <3>1 DEF CanWrite
  <2> QED BY <1>2, <2>1, <2>2 DEF OutputRead
<1> QED BY <1>1, <1>2

(***************************************************************************)
(* What a compilation leaves of its output.                                *)
(***************************************************************************)
LEMMA OutputIsClosed ==
    ASSUME Files, CloseOutput, outputFile' = outputFile
    PROVE  /\ outputFile = Stdout => CanWrite'
           /\ outputFile # Stdout => ~CanWrite'
           /\ CanWrite' => CanWrite
           /\ CanWrite /\ outputFile # Stdout => descriptors[outputFile].file \in Targets
<1>1. /\ DOMAIN descriptors' = DOMAIN descriptors \ ({outputFile} \ {Stdout})
      /\ \A d \in DOMAIN descriptors' : descriptors'[d] = descriptors[d]
      /\ Standard \subseteq DOMAIN descriptors'
  BY WhatClosingDoes
<1>2. File("stdout", TRUE).writable
  BY DEF File
<1>3. outputFile = Stdout => CanWrite'
  BY <1>1, <1>2 DEF CanWrite, Files, Standard
<1>4. outputFile # Stdout => ~CanWrite'
  BY <1>1 DEF CanWrite
<1>5. CanWrite' => CanWrite
  BY <1>1 DEF CanWrite
<1>6. CanWrite /\ outputFile # Stdout => descriptors[outputFile].file \in Targets
  BY DEF CanWrite, Files, Standard
<1> QED BY <1>3, <1>4, <1>5, <1>6

(***************************************************************************)
(* The last input that was read is the input.                              *)
(***************************************************************************)
LEMMA NextKeepsInput ==
    ASSUME Words, Files, log \in Seq(Entries), LastInputOpened, DriverMoves
    PROVE  LastInputOpened'
<1> DEFINE O == OptionsRead(InputOptions)
<1>0. InputOptions \in SUBSET Options /\ InputOptions \cap OutputOptions = {}
  BY DEF InputOptions, OutputOptions, Options
<1>1. CASE StartCompiler
  BY <1>0, <1>1, OptionsReadGrow DEF LastInputOpened
<1>2. CASE SkipWord
  <2>1. O' = O /\ UNCHANGED <<argv, lexerInput>> /\ word # Idle
    BY <1>0, <1>2, OptionsReadGrow DEF SkipWord, Reading, Idle, Words
  <2> QED BY <2>1 DEF LastInputOpened
<1>3. CASE ReadOption
  <2>1. argv' = argv /\ word # Idle /\ argv[word + 1] \in STRING
    BY <1>3, WhatAnOptionDoes DEF Idle
  <2>2. CASE argv[word] \in InputOptions /\ InputRead(argv[word + 1])
    <3>1. O' # {} /\ Greatest(O') = word
      BY <1>0, <1>3, <2>2, OptionsReadGrow
    <3> QED BY <2>1, <2>2, <3>1 DEF LastInputOpened, InputRead
  <2>3. CASE argv[word] \notin InputOptions /\ lexerInput' = lexerInput
    <3>1. O' = O
      BY <1>0, <1>3, <2>3, OptionsReadGrow
    <3> QED BY <2>1, <2>3, <3>1 DEF LastInputOpened
  <2>4. \/ argv[word] \in InputOptions /\ InputRead(argv[word + 1])
        \/ argv[word] \notin InputOptions /\ lexerInput' = lexerInput
    BY <1>0, <1>3, WhatAnOptionDoes DEF OutputRead
  <2> QED BY <2>2, <2>3, <2>4
<1>4. CASE CompileAndWrite
  BY <1>4 DEF CompileAndWrite, LastInputOpened
<1>5. CASE WriteFails
  <2>1. UNCHANGED <<argv, word, lexerInput>>
    BY <1>5 DEF WriteFails
  <2> QED BY <2>1 DEF LastInputOpened, OptionsRead
<1> QED BY <1>1, <1>2, <1>3, <1>4, <1>5 DEF DriverMoves

(***************************************************************************)
(* The last output that was read is the output, and it can be written.     *)
(***************************************************************************)
LEMMA NextKeepsOutput ==
    ASSUME Words, Files, log \in Seq(Entries), LastOutputOpened, DriverMoves
    PROVE  LastOutputOpened'
<1> DEFINE O == OptionsRead(OutputOptions)
<1>0. OutputOptions \in SUBSET Options /\ InputOptions \cap OutputOptions = {}
  BY DEF InputOptions, OutputOptions, Options
<1>1. CASE StartCompiler
  <2>1. O' = {} /\ word = Idle /\ UNCHANGED <<descriptors, outputFile>>
    BY <1>0, <1>1, OptionsReadGrow DEF StartCompiler
  <2> QED BY <2>1 DEF LastOutputOpened, CanWrite
<1>2. CASE SkipWord
  <2>1. O' = O /\ UNCHANGED <<argv, descriptors, outputFile>> /\ word # Idle /\ word' # Idle
    BY <1>0, <1>2, OptionsReadGrow DEF SkipWord, Reading, Idle, Words
  <2> QED BY <2>1 DEF LastOutputOpened, CanWrite
<1>3. CASE ReadOption
  <2>1. argv' = argv /\ word # Idle /\ word' # Idle /\ argv[word + 1] \in STRING
    BY <1>3, WhatAnOptionDoes DEF Idle
  <2>2. CASE argv[word] \in OutputOptions /\ OutputRead(argv[word + 1])
    <3>1. O' # {} /\ Greatest(O') = word
      BY <1>0, <1>3, <2>2, OptionsReadGrow
    <3>2. CanWrite' /\ descriptors'[outputFile'].file = argv[word + 1]
      BY <2>1, <2>2, WhatOpeningDoes
    <3> QED BY <2>1, <2>2, <3>1, <3>2 DEF LastOutputOpened
  <2>3. ASSUME argv[word] \notin OutputOptions, outputFile' = outputFile, CanWrite' <=> CanWrite,
               CanWrite => descriptors'[outputFile'].file = descriptors[outputFile].file
        PROVE  LastOutputOpened'
    <3>1. O' = O
      BY <1>0, <1>3, <2>3, OptionsReadGrow
    <3> QED BY <2>1, <2>3, <3>1 DEF LastOutputOpened
  <2>4. CASE argv[word] \in InputOptions /\ InputRead(argv[word + 1])
    <3>1. argv[word] \notin OutputOptions /\ outputFile' = outputFile
      BY <1>0, <2>4 DEF InputRead
    <3> QED BY <2>1, <2>3, <2>4, <3>1, WhatOpeningDoes
  <2>5. CASE argv[word] \notin OutputOptions /\ UNCHANGED <<descriptors, outputFile>>
    BY <2>3, <2>5 DEF CanWrite
  <2> QED BY <1>3, <2>2, <2>4, <2>5, WhatAnOptionDoes
<1>4. CASE CompileAndWrite
  <2>1. word' = Idle /\ outputFile' = outputFile /\ CloseOutput
    BY <1>4, WhatWritingDoes
  <2> QED BY <2>1, OutputIsClosed DEF LastOutputOpened
<1>5. CASE WriteFails
  <2>1. UNCHANGED <<argv, word, outputFile>> /\ CloseOutput /\ ~CanWrite /\ word # Idle
    BY <1>5 DEF WriteFails, AtEnd, Words, Idle
  <2>2. ~CanWrite' /\ O' = O
    BY <2>1, OutputIsClosed DEF OptionsRead
  <2> QED BY <2>1, <2>2 DEF LastOutputOpened
<1> QED BY <1>1, <1>2, <1>3, <1>4, <1>5 DEF DriverMoves

(***************************************************************************)
(* What the compilations before this one wrote.                            *)
(***************************************************************************)
LEMMA NextKeepsLog ==
    ASSUME Words, Files, log \in Seq(Entries), DriverMoves
    PROVE  /\ \/ log' = log
              \/ CompileAndWrite /\ log' \in Seq(Entries) /\ Len(log') = Len(log) + 1
                 /\ log'[Len(log')].argv = argv /\ log'[Len(log')].read = Input
                 /\ log'[Len(log')].wrote = descriptors[outputFile].file
           /\ Len(log) \in Nat
           /\ \A i \in DOMAIN log : i \in DOMAIN log' /\ log'[i] = log[i]
           /\ \A i \in DOMAIN log' : i \in DOMAIN log \/ i = Len(log')
<1>1. CASE StartCompiler \/ SkipWord \/ ReadOption \/ WriteFails
  BY <1>1 DEF StartCompiler, SkipWord, ReadOption, WriteFails
<1>2. CASE CompileAndWrite
  <2>1. PICK entry \in Entries :
            /\ log' = Append(log, entry) /\ entry.argv = argv /\ entry.read = Input
            /\ entry.wrote = descriptors[outputFile].file
    BY <1>2, WhatWritingDoes
  <2>2. /\ log' \in Seq(Entries) /\ Len(log') = Len(log) + 1 /\ Len(log) \in Nat
        /\ DOMAIN log = 1 .. Len(log) /\ DOMAIN log' = 1 .. Len(log) + 1
        /\ log'[Len(log) + 1] = entry
        /\ \A i \in 1 .. Len(log) : log'[i] = log[i]
    BY <2>1, AppendProperties
  <2>3. /\ Len(log') = Len(log) + 1 /\ log'[Len(log')] = entry /\ log' \in Seq(Entries)
    BY <2>2
  <2>4. /\ \A i \in DOMAIN log : i \in DOMAIN log' /\ log'[i] = log[i]
        /\ \A i \in DOMAIN log' : i \in DOMAIN log \/ i = Len(log')
    BY <2>2
  <2> QED BY <1>2, <2>1, <2>2, <2>3, <2>4
<1> QED BY <1>1, <1>2 DEF DriverMoves

(***************************************************************************)
(* An output that cannot be written has been written before.               *)
(***************************************************************************)
LEMMA NextKeepsStale ==
    ASSUME Words, Files, log \in Seq(Entries), StaleOutputs, DriverMoves
    PROVE  StaleOutputs'
<1>1. CASE ~CanWrite
  BY <1>1, NextKeepsLog DEF StaleOutputs
<1>2. CASE CanWrite
  <2>1. CASE StartCompiler \/ SkipWord
    BY <1>2, <2>1 DEF StartCompiler, SkipWord, CanWrite, StaleOutputs
  <2>2. CASE ReadOption
    <3>1. CanWrite'
      <4>1. argv[word + 1] \in STRING
        BY <2>2, WhatAnOptionDoes
      <4>2. UNCHANGED <<descriptors, outputFile>> => CanWrite'
        BY <1>2 DEF CanWrite
      <4> QED BY <1>2, <2>2, <4>1, <4>2, WhatAnOptionDoes, WhatOpeningDoes
    <3> QED BY <3>1 DEF StaleOutputs
  <2>3. CASE CompileAndWrite
    <3>1. outputFile' = outputFile /\ CloseOutput
      BY <2>3, WhatWritingDoes
    <3>2. CASE outputFile = Stdout
      BY <3>1, <3>2, OutputIsClosed DEF StaleOutputs
    <3>3. CASE outputFile # Stdout
      <4>1. descriptors[outputFile].file \in Targets
        BY <1>2, <3>1, <3>3, OutputIsClosed
      <4>2. \E entry \in Entries : log' = Append(log, entry) /\ entry.wrote \in Targets
        BY <2>3, <4>1, WhatWritingDoes
      <4>3. PICK entry \in Entries : log' = Append(log, entry) /\ entry.wrote \in Targets
        BY <4>2
      <4>4. Len(log) + 1 \in DOMAIN log' /\ log'[Len(log) + 1] = entry
        BY <4>3, AppendProperties
      <4> QED BY <4>3, <4>4 DEF StaleOutputs
    <3> QED BY <3>2, <3>3
  <2>4. CASE WriteFails
    BY <1>2, <2>4 DEF WriteFails
  <2> QED BY <2>1, <2>2, <2>3, <2>4 DEF DriverMoves
<1> QED BY <1>1, <1>2

(***************************************************************************)
(* A compilation that ends has read and written what its line names.       *)
(***************************************************************************)
LEMMA NextKeepsNamed ==
    ASSUME DriverInv, DriverMoves
    PROVE  NamedFilesAreUsed'
<1>0. /\ Words /\ Files /\ log \in Seq(Entries) /\ LastInputOpened /\ LastOutputOpened
      /\ NamedFilesAreUsed
  BY DEF DriverInv
<1> SUFFICES ASSUME NEW i \in DOMAIN log'
             PROVE  /\ NamedInput(log'[i].argv) # None =>
                           /\ log'[i].read.file = NamedInput(log'[i].argv)
                           /\ log'[i].read.at \in {"start", "stream"}
                    /\ NamedOutput(log'[i].argv) # None => log'[i].wrote = NamedOutput(log'[i].argv)
  BY DEF NamedFilesAreUsed
<1>1. CASE i \in DOMAIN log
  BY <1>0, <1>1, NextKeepsLog DEF NamedFilesAreUsed
<1>2. CASE i \notin DOMAIN log
  <2>1. /\ i = Len(log') /\ CompileAndWrite
        /\ log'[i].argv = argv /\ log'[i].read = Input
        /\ log'[i].wrote = descriptors[outputFile].file
    BY <1>0, <1>2, NextKeepsLog
  <2>2. word = Len(argv) + 1 /\ word # Idle
    <3>1. word = Len(argv) + 1
      BY <1>0, <2>1, WhatWritingDoes
    <3> QED BY <1>0, <3>1 DEF Words, Idle
  <2>3. ASSUME NamedInput(argv) # None
        PROVE  Input.file = NamedInput(argv) /\ Input.at \in {"start", "stream"}
    <3>1. /\ OptionsRead(InputOptions) # {}
          /\ NamedInput(argv) = argv[Greatest(OptionsRead(InputOptions)) + 1]
      BY <1>0, <2>2, <2>3, NamedIsLastRead DEF NamedInput, InputOptions
    <3>2. lexerInput.file = NamedInput(argv) /\ lexerInput.at \in {"start", "stream"}
      BY <1>0, <2>2, <3>1 DEF LastInputOpened
    <3>3. Input = lexerInput
      BY <2>3, <3>2 DEF Input
    <3> QED BY <3>2, <3>3
  <2>4. ASSUME NamedOutput(argv) # None
        PROVE  descriptors[outputFile].file = NamedOutput(argv)
    <3>1. /\ OptionsRead(OutputOptions) # {}
          /\ NamedOutput(argv) = argv[Greatest(OptionsRead(OutputOptions)) + 1]
      BY <1>0, <2>2, <2>4, NamedIsLastRead DEF NamedOutput, OutputOptions
    <3> QED BY <1>0, <2>2, <3>1 DEF LastOutputOpened
  <2> QED BY <2>1, <2>3, <2>4
<1> QED BY <1>1, <1>2

(***************************************************************************)
(* A process starts with the standard descriptors and an empty line.       *)
(***************************************************************************)
LEMMA InitDriverInv ==
    ASSUME Init
    PROVE  DriverInv
<1>1. /\ argv = <<>> /\ word = Idle /\ outputFile = Stdout /\ log = <<>>
      /\ lexerInput = [file |-> None, at |-> "start"]
      /\ descriptors = [d \in Standard |->
                            IF d = Stdin THEN File("stdin", FALSE)
                            ELSE File(IF d = Stdout THEN "stdout" ELSE "stderr", TRUE)]
  BY DEF Init, InitDriver, Standard
<1>2. /\ File("stdin", FALSE) \in [file : FileNames, writable : BOOLEAN]
      /\ File("stdout", TRUE) \in [file : FileNames, writable : BOOLEAN]
      /\ File("stderr", TRUE) \in [file : FileNames, writable : BOOLEAN]
  BY DEF File, FileNames
<1>3. DOMAIN descriptors = Standard
  BY <1>1
<1>4. /\ descriptors[Stdin] = File("stdin", FALSE) /\ descriptors[Stdout] = File("stdout", TRUE)
      /\ descriptors[Stderr] = File("stderr", TRUE)
  BY <1>1 DEF Standard, Stdin, Stdout, Stderr
<1>5. descriptors \in [DOMAIN descriptors -> [file : FileNames, writable : BOOLEAN]]
  <2>1. \A d \in Standard : descriptors[d] \in [file : FileNames, writable : BOOLEAN]
    BY <1>2, <1>4 DEF Standard
  <2>2. descriptors = [d \in Standard |-> descriptors[d]]
    BY <1>1, <1>3
  <2> QED BY <1>3, <2>1, <2>2
<1>6. lexerInput \in [file : FileNames, at : Places]
  <2>1. None \in FileNames /\ "start" \in Places
    BY DEF FileNames, Places
  <2> QED BY <1>1, <2>1
<1>7. Files
  <2>1. Stdout \in (0 .. MaxDescriptors - 1) \ {Stdin, Stderr} /\ Standard \subseteq 0 .. MaxDescriptors - 1
    BY DriverAssumption DEF Stdout, Stdin, Stderr, Standard
  <2> QED BY <1>1, <1>3, <1>4, <1>5, <1>6, <2>1 DEF Files
<1>8. CanWrite
  <2>1. File("stdout", TRUE).writable
    BY DEF File
  <2> QED BY <1>1, <1>3, <1>4, <2>1 DEF CanWrite, Standard
<1>9. Words /\ log \in Seq(Entries)
  BY <1>1 DEF Words, Idle
<1>10. LastInputOpened /\ LastOutputOpened /\ StaleOutputs /\ NamedFilesAreUsed
  BY <1>1, <1>8 DEF LastInputOpened, LastOutputOpened, StaleOutputs, NamedFilesAreUsed, Idle
<1> QED BY <1>7, <1>9, <1>10 DEF DriverInv

(***************************************************************************)
(* What is known of the driver is an invariant of the process.             *)
(***************************************************************************)
LEMMA DriverIsInvariant == Spec => []DriverInv
<1>1. DriverInv /\ [Next]_vars => DriverInv'
  <2> SUFFICES ASSUME DriverInv, [Next]_vars PROVE DriverInv'
    OBVIOUS
  <2>1. CASE DriverMoves
    BY <2>1, NextKeepsWords, NextKeepsFiles, NextKeepsInput, NextKeepsOutput, NextKeepsStale, NextKeepsNamed
    DEF DriverInv
  <2>2. CASE UNCHANGED driverVars
    BY <2>2
    DEF driverVars, DriverInv, Words, Files, LastInputOpened, LastOutputOpened, StaleOutputs,
        NamedFilesAreUsed, OptionsRead, CanWrite
  <2> QED BY <2>1, <2>2, WhatTheDriverDoes
<1>2. Init => DriverInv
  BY InitDriverInv
<1> QED BY <1>1, <1>2, PTL DEF Spec

(***************************************************************************)
(* Whatever compilations came before in the process, one that names its    *)
(* files reads the last input it names from the start and writes into the  *)
(* last output it names (Main.cpp:48-110, 200-213).                        *)
(***************************************************************************)
THEOREM CompilationsUseTheirFiles == Spec => []NamedFilesAreUsed
<1>1. DriverInv => NamedFilesAreUsed
  BY DEF DriverInv
<1> QED BY <1>1, DriverIsInvariant, PTL

(***************************************************************************)
(* A module that cannot be written was to go to an output an earlier       *)
(* compilation of the process named and closed (Main.cpp:95-110, 200-213). *)
(***************************************************************************)
THEOREM OnlyStaleOutputsFail == Spec => []WritesNeedAnOutput
<1>1. DriverInv => WritesNeedAnOutput
  <2> SUFFICES ASSUME DriverInv, AtEnd, ~CanWrite
               PROVE  NamedOutput(argv) = None /\ \E i \in DOMAIN log : log[i].wrote \in Targets
    BY DEF WritesNeedAnOutput
  <2>1. word = Len(argv) + 1 /\ word # Idle /\ Words
    BY DEF AtEnd, DriverInv, Words, Idle
  <2>2. OptionsRead(OutputOptions) = {}
    BY <2>1 DEF DriverInv, LastOutputOpened
  <2>3. NamedOutput(argv) = None
    BY <2>1, <2>2, NamedIsLastRead DEF NamedOutput, OutputOptions
  <2> QED BY <2>3 DEF DriverInv, StaleOutputs
<1> QED BY <1>1, DriverIsInvariant, PTL

-----------------------------------------------------------------------------
(* Undefined behaviour.                                                    *)

Leaked == \E b \in DOMAIN given \ freed : given[b] # NoTest
OptionIsLast == word = Len(argv) /\ word \in OptionAt(argv)

(***************************************************************************)
(* A process that has ended does nothing any more.                         *)
(***************************************************************************)
LEMMA NothingAfterTheEnd ==
    ASSUME LockInv, MemoryInv, phase \in Ended, [Next]_vars
    PROVE  UNCHANGED vars
<1>1. calls = <<>> /\ \A o : ~In(o)
  BY PhaseOfCalls DEF MemoryInv, Ended, In
<1>2. phase \notin Phases \ Ended
  OBVIOUS
<1>3. ~Operators
  BY <1>1
  DEF Operators, Allocator, AskForNode, Recording, Reporting, GiveNodeBack, Record, RecordFails, Erase,
      Warn, NodeMissing, Clear, Report, ReportDone, Attach, Detach
<1>4. ~InMain
  BY <1>2
  DEF Phases, Ended, InMain, Running, StaticInitializer, StaticInitialized, BadAllocEscapes, Main, NewList,
      ListMade, Callback, PrintResults, DeleteWarnings, WarningsDeleted, MainReturns, MapDestructor,
      StaticDestructor, StaticDeleted, ProcessExits
<1>5. ~InTest
  BY <1>2
  DEF Phases, Ended, InTest, Running, TestRuns, Does, New, NewReturns, Delete, DeleteReturns, Use,
      FunctionEnds, Compile, CompilerSteps, CompilerEndsProcess, CompilerReadsBehindArgv
<1> QED BY <1>3, <1>4, <1>5 DEF Next

(***************************************************************************)
(* A block that a test or a static object still names and that is freed    *)
(* was freed by the report of the leaks of a test.                         *)
(***************************************************************************)
LEMMA FreedBehindItsOwner ==
    ASSUME MemoryInv, phase \notin Ended, NEW b \in held \cup kept, heap[b] = "freed"
    PROVE  Leaked
<1>1. b \in DOMAIN given \ freed
  BY DEF MemoryInv, HeldIsGiven
<1>2. given[b] # NoTest
  BY DEF MemoryInv, HeldIsGiven, Living, Unfreed
<1> QED BY <1>1, <1>2 DEF Leaked

(***************************************************************************)
(* The containers and the harness never touch memory that is freed.        *)
(***************************************************************************)
LEMMA ContainersAreDefined ==
    ASSUME LockInv, MapInv, Marching, MemoryInv, phase \notin Ended, Operators
    PROVE  phase' # "undefined"
<1>1. phase # "undefined"
  BY DEF Ended
<1>2. ASSUME NEW b \in Blocks, heap[b] # "freed", DeallocateManaged("object", b)
      PROVE  phase' = phase
  BY <1>2 DEF DeallocateManaged, Undefined
<1>3. CASE AskForNode
  BY <1>1, <1>3 DEF AskForNode, AllocateManaged
<1>4. CASE GiveNodeBack
  <2>1. CASE In("erase") /\ DeallocateManaged("object", testAllocations[Top.block])
    <3>1. testAllocations[Top.block] \in MapNodes
      BY <2>1 DEF LockInv, CallsFit, MapNodes
    <3>2. MapNodes \subseteq Blocks /\ Unfreed(MapNodes)
      BY DEF MemoryInv, Apart, Nodes, Living
    <3> QED BY <1>1, <1>2, <2>1, <3>1, <3>2 DEF Unfreed
  <2>2. CASE /\ In("clear") /\ DOMAIN testAllocations # {}
             /\ DeallocateManaged("object", testAllocations[First(DOMAIN testAllocations)])
    <3>1. First(DOMAIN testAllocations) \in DOMAIN testAllocations
      <4>1. DOMAIN testAllocations \in SUBSET Nat
        BY NothingComes DEF LockInv, NodesAreObjects
      <4> QED BY <2>2, <4>1, FirstIsMember
    <3>2. testAllocations[First(DOMAIN testAllocations)] \in MapNodes
      BY <3>1 DEF MapNodes
    <3>3. MapNodes \subseteq Blocks /\ Unfreed(MapNodes)
      BY DEF MemoryInv, Apart, Nodes, Living
    <3> QED BY <1>1, <1>2, <2>2, <3>2, <3>3 DEF Unfreed
  <2>3. CASE In("detach") /\ DeallocateManaged("object", callbackNode)
    <3>1. phase = "detach"
      BY <2>3 DEF LockInv, CallsFit
    <3>2. callbackNode \in Blocks
      BY <3>1 DEF LockInv, NodesAreObjects, AttachedPhases, IsNode
    <3>3. heap[callbackNode] # "freed"
      BY <3>1, <3>2, NothingComes DEF MemoryInv, Living, Unfreed, Ended
    <3> QED BY <1>1, <1>2, <2>3, <3>2, <3>3
  <2> QED BY <1>4, <2>1, <2>2, <2>3 DEF GiveNodeBack
<1>5. CASE Report
  <2>1. First(Top.left) \in Top.left
    <3>1. Top.left \in SUBSET Nat /\ Top.left # {}
      BY <1>5, NothingComes DEF Report, MemoryInv, Recorded, LockInv, NodesAreObjects
    <3> QED BY <3>1, FirstIsMember
  <2>2. heap[First(Top.left)] # "freed"
    BY <1>5, <2>1 DEF Report, MemoryInv, Living, Unfreed
  <2> QED BY <1>1, <1>5, <2>2 DEF Report
<1>6. CASE Record \/ RecordFails \/ Erase \/ Warn \/ NodeMissing
  BY <1>1, <1>6 DEF Record, RecordFails, Erase, Warn, NodeMissing, Terminate, Stop
<1>7. CASE Clear \/ ReportDone \/ Attach \/ Detach
  BY <1>1, <1>7 DEF Clear, ReportDone, NextTest, Attach, Detach
<1> QED BY <1>3, <1>4, <1>5, <1>6, <1>7 DEF Operators, Allocator

(***************************************************************************)
(* main, the tests and the static objects: undefined behaviour needs a     *)
(* block that a test left, or an option without its argument.              *)
(***************************************************************************)
LEMMA UndefinedHasACause ==
    ASSUME LockInv, MapInv, Marching, MemoryInv, Words, phase \notin Ended, InMain \/ InTest,
           phase' = "undefined"
    PROVE  (Leaked \/ OptionIsLast) /\ UNCHANGED <<given, freed, word, argv>>
<1>0. /\ phase # "undefined"
      /\ \A p : Running(p) => phase = p /\ calls = <<>> /\ returned = Nothing
  BY DEF Ended, Running, ProgramRuns
<1>1. CASE InMain
  <2>1. CASE StaticInitializer \/ NewList
    BY <1>0, <2>1 DEF StaticInitializer, NewList, AllocateManaged
  <2>2. CASE BadAllocEscapes
    BY <2>2 DEF BadAllocEscapes, Terminate, Stop
  <2>3. CASE Callback
    BY <1>0, <2>3 DEF Callback, ProgramCalls
  <2>4. CASE StaticInitialized \/ Main \/ ListMade \/ PrintResults \/ WarningsDeleted
    BY <1>0, <2>4 DEF StaticInitialized, Main, ListMade, PrintResults, WarningsDeleted
  <2>5. CASE MainReturns \/ StaticDeleted \/ ProcessExits
    BY <1>0, <2>5 DEF MainReturns, StaticDeleted, ProcessExits
  <2>6. CASE DeleteWarnings
    <3> DEFINE nodes == {n \in {w.node : w \in warnings[currentTest]} : heap[n] # "freed"}
    <3>1. /\ phase = "cleanup" /\ calls = <<>> /\ returned = Nothing /\ currentTest # NoTest
          /\ DeallocateManaged("object", IF nodes = {} THEN lists[currentTest] ELSE First(nodes))
      BY <1>0, <2>6 DEF DeleteWarnings
    <3>2. heap[lists[currentTest]] # "freed"
      BY <3>1 DEF MemoryInv, Living
    <3>3. nodes # {} => heap[First(nodes)] # "freed"
      <4>1. currentTest \in Tests
        BY <3>1 DEF Marching
      <4>2. nodes \subseteq WarningNodes
        BY <4>1 DEF WarningNodes
      <4>3. WarningNodes \subseteq Nat
        BY NothingComes DEF MemoryInv, ListsMade, IsNode
      <4>4. nodes \in SUBSET Nat /\ \A n \in nodes : heap[n] # "freed"
        BY <4>2, <4>3
      <4> HIDE DEF nodes
      <4> QED BY <4>4, FirstIsMember
    <3> HIDE DEF nodes
    <3> QED BY <1>0, <3>1, <3>2, <3>3 DEF DeallocateManaged, Undefined
  <2>7. CASE MapDestructor
    <3>1. /\ phase = "statics" /\ DOMAIN testAllocations # {}
          /\ UNCHANGED <<given, freed, word, argv>>
      BY <1>0, <2>7 DEF MapDestructor, driverVars, programVars
    <3>2. DOMAIN testAllocations \subseteq OfTests(DOMAIN given) \ freed
      BY <3>1 DEF MemoryInv, Recorded, Early, Ended
    <3> QED BY <3>1, <3>2 DEF OfTests, Leaked
  <2>8. CASE StaticDestructor
    <3> DEFINE b == First(kept)
    <3>1. /\ kept # {} /\ UNCHANGED <<given, freed, word, argv>>
          /\ \E kind \in Kinds : DeallocateManaged(kind, b)
      BY <2>8 DEF StaticDestructor, driverVars
    <3>2. b \in kept
      <4>1. kept \in SUBSET Nat
        BY NothingComes DEF MemoryInv, HeldIsGiven, MapInv, GivenToEarlier
      <4> QED BY <3>1, <4>1, FirstIsMember
    <3> HIDE DEF b
    <3>3. heap[b] = "freed"
      BY <1>0, <3>1 DEF DeallocateManaged
    <3> QED BY <3>1, <3>2, <3>3, FreedBehindItsOwner
  <2> QED BY <1>1, <2>1, <2>2, <2>3, <2>4, <2>5, <2>6, <2>7, <2>8 DEF InMain
<1>2. CASE InTest
  <2>1. CASE New
    BY <1>0, <2>1 DEF New, AllocateManaged
  <2>2. CASE NewReturns \/ DeleteReturns \/ Compile \/ CompilerSteps \/ CompilerEndsProcess
    BY <1>0, <2>2 DEF NewReturns, DeleteReturns, Compile, CompilerSteps, CompilerEndsProcess, ByCompiler
  <2>3. CASE \E how \in {"passed", "failed", "exception"} : FunctionEnds(how)
    BY <2>3 DEF FunctionEnds, TestEnds
  <2>4. CASE Delete
    <3>1. PICK b \in held \cup kept, kind \in Kinds :
              /\ DeallocateManaged(kind, b)
              /\ freed' = IF kind = heap[b] /\ ~recurseLock /\ given[b] = currentTest
                          THEN freed \cup {b} ELSE freed
      BY <2>4 DEF Delete
    <3>2. heap[b] = "freed"
      BY <1>0, <3>1 DEF DeallocateManaged
    <3>3. UNCHANGED <<given, freed, word, argv>>
      BY <2>4, <3>1, <3>2 DEF Delete, driverVars, Kinds
    <3> QED BY <3>2, <3>3, FreedBehindItsOwner
  <2>5. CASE Use
    <3>1. PICK b \in kept : heap[b] = "freed"
      BY <2>5 DEF Use
    <3> QED BY <2>5, <3>1, FreedBehindItsOwner DEF Use, driverVars, programVars
  <2>6. CASE CompilerReadsBehindArgv
    <3>1. /\ word \in 1 .. Len(argv) /\ argv[word] \in Options /\ word = Len(argv)
          /\ UNCHANGED <<given, freed, word, argv>>
      BY <2>6 DEF CompilerReadsBehindArgv, ReadsBehindArgv, Reading, ThisWord, driverVars, programVars
    <3>2. word # Idle /\ word \in DOMAIN argv
      BY <3>1 DEF Idle, Words
    <3>3. word \in OptionAt(argv)
      BY <3>1, <3>2, OptionsOfALine DEF Words
    <3> QED BY <3>1, <3>3 DEF OptionIsLast
  <2> QED BY <1>2, <2>1, <2>2, <2>3, <2>4, <2>5, <2>6 DEF InTest
<1> QED BY <1>1, <1>2

(***************************************************************************)
(* A test build whose tests free what they allocate, and whose command     *)
(* lines give every option its argument, has no undefined behaviour,       *)
(* whichever calls of malloc fail and however blocks are deleted           *)
(* (TracingAllocator.cpp:62-87, 206-259, Main.cpp:48-77).                  *)
(***************************************************************************)
THEOREM UndefinedOnlyByLeaks == Spec => []UndefinedNeedsALeak
<1>1. Init => UndefinedNeedsALeak
  BY DEF Init, InitHarness, UndefinedNeedsALeak
<1>2. /\ LockInv /\ MapInv /\ Marching /\ MemoryInv /\ DriverInv /\ UndefinedNeedsALeak
      /\ [Next]_vars
      => UndefinedNeedsALeak'
  <2> SUFFICES ASSUME LockInv, MapInv, Marching, MemoryInv, DriverInv, UndefinedNeedsALeak,
                      [Next]_vars, phase' = "undefined"
               PROVE  UndefinedNeedsALeak'
    BY DEF UndefinedNeedsALeak
  <2>1. CASE UNCHANGED vars
    <3>1. UNCHANGED <<phase, given, freed, word, argv>>
      BY <2>1 DEF vars, programVars, driverVars
    <3> QED BY <3>1 DEF UndefinedNeedsALeak
  <2>2. CASE phase \in Ended
    BY <2>1, <2>2, NothingAfterTheEnd
  <2>3. CASE phase \notin Ended /\ (InMain \/ InTest)
    <3>1. (Leaked \/ OptionIsLast) /\ UNCHANGED <<given, freed, word, argv>>
      BY <2>3, UndefinedHasACause DEF DriverInv
    <3> QED BY <3>1 DEF UndefinedNeedsALeak, Leaked, OptionIsLast
  <2>4. CASE phase \notin Ended /\ Operators
    BY <2>4, ContainersAreDefined
  <2> QED BY <2>1, <2>2, <2>3, <2>4 DEF Next
<1> QED BY <1>1, <1>2, MemoryIsInvariant, DriverIsInvariant, PTL DEF Spec

-----------------------------------------------------------------------------
(* Types.                                                                  *)

\* What the other invariants leave to say of the types.
Shapes ==
    /\ stlInitialized \in BOOLEAN
    /\ returned \in Blocks \cup {Void, BadAlloc, Nothing}
    /\ calls # <<>> => Top.block \in Blocks \cup {NoBlock}
    /\ blind \subseteq Tests

(***************************************************************************)
(* The operators return what they should, and begin with the block they    *)
(* were asked for or about.                                                *)
(***************************************************************************)
LEMMA OperatorsKeepShapes ==
    ASSUME LockInv, Shapes, blind' = blind,
           \/ \E kind \in Kinds : AllocateManaged(kind)
           \/ \E kind \in Kinds, b \in Blocks : DeallocateManaged(kind, b)
    PROVE  Shapes'
<1>0. heap \in Seq(Marks)
  BY DEF LockInv, NodesAreObjects
<1>1. ASSUME NEW kind \in Kinds, AllocateManaged(kind)
      PROVE  Shapes'
  <2>0. stlInitialized' = stlInitialized /\ Tests' = Tests
    BY <1>1 DEF AllocateManaged, harnessVars, Tests
  <2>1. CASE returned' = BadAlloc /\ UNCHANGED <<heap, recurseLock, calls>>
    BY <2>0, <2>1 DEF Shapes, Blocks, Top
  <2>2. CASE heap' = Append(heap, kind)
    <3>1. Blocks' = Blocks \cup {Len(heap')}
      BY <1>0, <2>2, NewBlock
    <3>2. CASE returned' = Len(heap') /\ UNCHANGED calls
      BY <2>0, <3>1, <3>2 DEF Shapes, Top
    <3>3. CASE calls = <<>> /\ Begin("record", Len(heap'), {}) /\ UNCHANGED returned
      <4>1. Top'.block = Len(heap')
        BY <3>3, FrameBegun
      <4> QED BY <2>0, <3>1, <3>3, <4>1 DEF Shapes
    <3>4. recurseLock \/ calls = <<>>
      BY DEF LockInv, OneCall
    <3> QED BY <1>1, <2>2, <3>2, <3>3, <3>4 DEF AllocateManaged
  <2> QED BY <1>1, <2>1, <2>2 DEF AllocateManaged
<1>2. ASSUME NEW kind \in Kinds, NEW b \in Blocks, DeallocateManaged(kind, b)
      PROVE  Shapes'
  <2>1. CASE Undefined
    BY <2>1 DEF Undefined, Stop, harnessVars, Shapes, Blocks, Tests
  <2>2. CASE ~Undefined
    <3>0. stlInitialized' = stlInitialized /\ Tests' = Tests /\ Blocks' = Blocks
      <4>1. heap' = heap \/ Free(b)
        BY <1>2, <2>2 DEF DeallocateManaged
      <4>2. Blocks' = Blocks
        BY <1>0, <4>1, FreedBlock DEF Blocks
      <4> QED BY <1>2, <2>2, <4>2 DEF DeallocateManaged, harnessVars, Tests
    <3>1. CASE returned' = Void /\ UNCHANGED calls
      BY <3>0, <3>1 DEF Shapes, Top
    <3>2. ASSUME NEW op, Begin(op, b, {}), UNCHANGED returned
          PROVE  Shapes'
      <4>1. PICK s : calls' = <<Frame(op, b, {})>> \o s /\ s = calls /\ Len(s) \in Nat /\ s \in Seq({Top})
        <5>1. calls = <<>> \/ \E f : calls = <<f>> /\ f = Top
          BY DEF LockInv, OneCall, Top
        <5>2. calls \in Seq({Top})
          <6>1. CASE calls = <<>>
            BY <6>1
          <6>2. ASSUME NEW f, calls = <<f>>, f = Top
                PROVE  calls \in Seq({Top})
            <7>1. \A x : <<x>> \in Seq({x})
              OBVIOUS
            <7> QED BY <6>2, <7>1
          <6> QED BY <5>1, <6>1, <6>2
        <5>3. Len(calls) \in Nat
          BY <5>2
        <5> QED BY <3>2, <5>2, <5>3 DEF Begin
      <4>2. Top' = Frame(op, b, {})
        BY <4>1 DEF Top
      <4>3. Top'.block = b
        BY <4>2 DEF Frame
      <4> QED BY <3>0, <3>2, <4>3 DEF Shapes
    <3> QED BY <1>2, <2>2, <3>1, <3>2 DEF DeallocateManaged
  <2> QED BY <2>1, <2>2
<1> QED BY <1>1, <1>2

(***************************************************************************)
(* A step of a container operation.                                        *)
(***************************************************************************)
LEMMA AllocatorKeepsShapes ==
    ASSUME LockInv, MapInv, Marching, MemoryInv, Shapes, Operators
    PROVE  Shapes'
<1>0. blind' = blind /\ heap \in Seq(Marks)
  BY DEF Operators, programVars, LockInv, NodesAreObjects
<1>1. CASE AskForNode
  BY <1>0, <1>1, OperatorsKeepShapes DEF AskForNode, Kinds
<1>2. CASE GiveNodeBack
  <2>1. \E b \in Blocks : DeallocateManaged("object", b)
    BY <1>2, NodeIsGivenBack DEF IsNode
  <2> QED BY <1>0, <2>1, OperatorsKeepShapes DEF Kinds
<1>3. CASE Record
  <2>1. calls' = <<>> /\ returned' \in Blocks /\ heap' = heap /\ UNCHANGED harnessVars
    <3>1. Top.block \in Blocks /\ calls # <<>> /\ calls' = Tail(calls)
      BY <1>3 DEF Record, LockInv, CallsFit, In, Finish
    <3> QED BY <1>3, <3>1, LastFrame DEF Record
  <2> QED BY <1>0, <2>1 DEF Shapes, harnessVars, Blocks, Tests
<1>4. CASE RecordFails
  <2>1. calls' = <<>>
    BY <1>4, LastFrame DEF RecordFails, In
  <2> QED BY <1>0, <1>4, <2>1 DEF RecordFails, Shapes, harnessVars, Blocks, Tests
<1>5. CASE Erase
  <2>1. calls' = <<>>
    BY <1>5, LastFrame DEF Erase, In, Finish
  <2>2. Blocks' = Blocks
    BY <1>0, <1>5, FreedBlock DEF Erase
  <2> QED BY <1>0, <1>5, <2>1, <2>2 DEF Erase, Shapes, harnessVars, Tests
<1>6. CASE Warn
  <2>1. calls' = <<>>
    BY <1>6, LastFrame DEF Warn, In, Finish
  <2> QED BY <1>0, <1>6, <2>1 DEF Warn, Shapes, Blocks, Tests
<1>7. CASE NodeMissing
  BY <1>0, <1>7 DEF NodeMissing, Terminate, Stop, harnessVars, Shapes, Blocks, Tests
<1>8. CASE Clear
  <2>1. calls' = calls \/ calls' = <<>>
    BY <1>8, LastFrame DEF Clear, In, Finish
  <2>2. returned' = Nothing
    BY <1>8 DEF Clear
  <2> QED BY <1>0, <1>8, <2>1, <2>2 DEF Clear, Shapes, harnessVars, Blocks, Tests, Top
<1>9. CASE Report
  <2>1. CASE Undefined
    BY <1>0, <2>1 DEF Undefined, Stop, harnessVars, Shapes, Blocks, Tests
  <2>2. CASE ~Undefined
    <3>1. /\ Free(First(Top.left)) /\ returned' = Nothing
          /\ calls' = <<[Top EXCEPT !.left = @ \ {First(Top.left)}]>> \o Tail(calls)
          /\ UNCHANGED <<queue, stlInitialized>>
      BY <1>9, <2>2 DEF Report
    <3>2. Blocks' = Blocks
      BY <1>0, <3>1, FreedBlock
    <3>3. Top'.block = Top.block
      <4>1. PICK f : f = Frame(Top.op, Top.block, Top.left) /\ calls = <<f>>
        BY <1>9 DEF Report, In, LockInv, OneCall
      <4>2. Top = f /\ Tail(calls) = <<>>
        BY <4>1 DEF Top
      <4>3. Top' = [Top EXCEPT !.left = @ \ {First(Top.left)}]
        BY <3>1, <4>2 DEF Top
      <4> QED BY <4>1, <4>2, <4>3 DEF Frame
    <3> QED BY <1>0, <1>9, <3>1, <3>2, <3>3 DEF Report, In, Shapes, Tests
  <2> QED BY <2>1, <2>2
<1>10. CASE ReportDone \/ Attach \/ Detach
  <2>1. calls' = <<>> /\ returned' = Nothing /\ UNCHANGED <<heap, stlInitialized, queue>>
    BY <1>10, LastFrame DEF ReportDone, Attach, Detach, In, Finish
  <2> QED BY <1>0, <2>1 DEF Shapes, Blocks, Tests
<1> QED BY <1>1, <1>2, <1>3, <1>4, <1>5, <1>6, <1>7, <1>8, <1>9, <1>10 DEF Operators, Allocator

(***************************************************************************)
(* A step of main, of a test or of the compiler.                           *)
(***************************************************************************)
LEMMA ProgramKeepsShapes ==
    ASSUME LockInv, MapInv, Marching, MemoryInv, Shapes, InMain \/ InTest
    PROVE  Shapes'
<1>0. /\ heap \in Seq(Marks) /\ Blocks \subseteq Nat
      /\ held \cup kept \subseteq Blocks
      /\ \A p : Running(p) => phase = p /\ calls = <<>> /\ returned = Nothing
  BY NothingComes
  DEF LockInv, NodesAreObjects, MemoryInv, HeldIsGiven, MapInv, GivenToEarlier, Running, ProgramRuns
<1>1. CASE StaticInitializer \/ NewList \/ New
  <2>1. blind' = blind /\ \E kind \in Kinds : AllocateManaged(kind)
    BY <1>1 DEF StaticInitializer, NewList, New, programVars, Kinds
  <2> QED BY <2>1, OperatorsKeepShapes
<1>2. CASE StaticDestructor \/ Delete
  <2>1. CASE StaticDestructor
    <3>1. First(kept) \in Blocks
      <4>1. kept # {}
        BY <2>1 DEF StaticDestructor
      <4> QED BY <1>0, <4>1, FirstIsMember
    <3> QED BY <2>1, <3>1, OperatorsKeepShapes DEF StaticDestructor
  <2>2. CASE Delete
    BY <1>0, <2>2, OperatorsKeepShapes DEF Delete
  <2> QED BY <1>2, <2>1, <2>2
<1>3. CASE DeleteWarnings
  <2> DEFINE nodes == {n \in {w.node : w \in warnings[currentTest]} : heap[n] # "freed"}
  <2>1. /\ phase = "cleanup" /\ currentTest # NoTest /\ blind' = blind
        /\ DeallocateManaged("object", IF nodes = {} THEN lists[currentTest] ELSE First(nodes))
    BY <1>0, <1>3 DEF DeleteWarnings, programVars
  <2>2. currentTest \in Tests
    BY <2>1 DEF Marching
  <2>3. lists[currentTest] \in Blocks
    <3>1. lists[currentTest] # NoBlock /\ lists \in [Tests -> Blocks \cup {NoBlock}]
      BY <2>1, <2>2 DEF MemoryInv, ListsMade, Ended
    <3> QED BY <2>2, <3>1
  <2>4. nodes # {} => First(nodes) \in Blocks
    <3>1. nodes \subseteq WarningNodes
      BY <2>2 DEF WarningNodes
    <3>2. WarningNodes \subseteq Blocks
      BY DEF MemoryInv, ListsMade, IsNode
    <3> HIDE DEF nodes
    <3> QED BY <1>0, <3>1, <3>2, FirstIsMember
  <2> HIDE DEF nodes
  <2> QED BY <2>1, <2>3, <2>4, OperatorsKeepShapes DEF Kinds
<1>4. CASE BadAllocEscapes \/ MapDestructor \/ Use \/ CompilerReadsBehindArgv
  <2>1. (Undefined \/ Terminate) /\ blind' = blind
    BY <1>4 DEF BadAllocEscapes, MapDestructor, Use, CompilerReadsBehindArgv, programVars
  <2> QED BY <2>1 DEF Undefined, Terminate, Stop, harnessVars, Shapes, Blocks, Tests
<1>5. CASE StaticInitialized \/ WarningsDeleted \/ StaticDeleted \/ DeleteReturns
  <2>1. UNCHANGED <<heap, calls, stlInitialized, queue, blind>> /\ returned' = Nothing
    BY <1>5 DEF StaticInitialized, WarningsDeleted, StaticDeleted, DeleteReturns, programVars, harnessVars
  <2> QED BY <2>1 DEF Shapes, Blocks, Tests, Top
<1>6. CASE Main \/ ListMade
  <2>1. UNCHANGED <<heap, calls, queue, blind>> /\ returned' \in {returned, Nothing}
        /\ stlInitialized' \in {stlInitialized, TRUE}
    BY <1>6 DEF Main, ListMade, programVars, allocVars
  <2> QED BY <2>1 DEF Shapes, Blocks, Tests, Top
<1>7. CASE Callback
  <2>1. PICK op, left : /\ calls = <<>> /\ Begin(op, NoBlock, left)
                        /\ UNCHANGED <<heap, returned, stlInitialized, queue, blind>>
    BY <1>7 DEF Callback, ProgramCalls, ProgramRuns, harnessVars, programVars
  <2>2. Top'.block = NoBlock
    BY <2>1, FrameBegun
  <2> QED BY <2>1, <2>2 DEF Shapes, Blocks, Tests
<1>8. CASE \/ PrintResults \/ MainReturns \/ ProcessExits \/ Compile \/ CompilerSteps \/ CompilerEndsProcess
           \/ \E how \in {"passed", "failed", "exception"} : FunctionEnds(how)
  <2>1. UNCHANGED <<heap, calls, returned, stlInitialized, queue, blind>>
    BY <1>8
    DEF PrintResults, MainReturns, ProcessExits, Compile, CompilerSteps, CompilerEndsProcess, FunctionEnds,
        ByCompiler, harnessVars, allocVars, programVars
  <2> QED BY <2>1 DEF Shapes, Blocks, Tests, Top
<1>9. CASE NewReturns
  <2>1. UNCHANGED <<heap, calls, stlInitialized, queue>> /\ returned' = Nothing
        /\ phase = "body" /\ blind' \in {blind, blind \cup {currentTest}}
    BY <1>9 DEF NewReturns, harnessVars
  <2>2. currentTest \in Tests
    BY <2>1 DEF Marching
  <2> QED BY <2>1, <2>2 DEF Shapes, Blocks, Tests, Top
<1> QED BY <1>1, <1>2, <1>3, <1>4, <1>5, <1>6, <1>7, <1>8, <1>9 DEF InMain, InTest

(***************************************************************************)
(* Every variable of a process of the test build has its type, whatever    *)
(* its tests and its command lines are (Testing.cpp:87-143,                *)
(* TracingAllocator.cpp:62-259, Main.cpp:48-213).                          *)
(***************************************************************************)
THEOREM ProcessTypes == Spec => []TypeOK
<1>1. Init => Shapes
  BY DEF Init, InitHarness, InitAllocator, Shapes, Nothing
<1>2. LockInv /\ MapInv /\ Marching /\ MemoryInv /\ Shapes /\ [Next]_vars => Shapes'
  <2>1. UNCHANGED vars /\ Shapes => Shapes'
    BY DEF vars, harnessVars, allocVars, programVars, Shapes, Blocks, Tests, Top
  <2> QED BY <2>1, AllocatorKeepsShapes, ProgramKeepsShapes DEF Next
<1>3. LockInv /\ MapInv /\ Marching /\ Counting /\ MemoryInv /\ DriverInv /\ Shapes => TypeOK
  <2> SUFFICES ASSUME LockInv, MapInv, Marching, Counting, MemoryInv, DriverInv, Shapes
               PROVE  TypeOK
    OBVIOUS
  <2>1. /\ queue \in Queues /\ phase \in Phases /\ stlInitialized \in BOOLEAN
        /\ currentTest \in Tests \cup {NoTest} /\ results \in [Tests -> {0, 1}]
        /\ blind \subseteq Tests
    BY DEF Marching, Counting, Shapes
  <2>2. heap \in Seq(Kinds \cup {"freed"}) /\ recurseLock \in BOOLEAN
    BY DEF LockInv, OneCall, NodesAreObjects, Marks
  <2>3. /\ DOMAIN testAllocations \subseteq Blocks
        /\ \A b \in DOMAIN testAllocations : testAllocations[b] \in Blocks
    BY DEF LockInv, NodesAreObjects, IsNode
  <2>4. \A i \in DOMAIN calls : calls[i].block \in Blocks \cup {NoBlock}
    <3>1. CASE calls = <<>>
      BY <3>1
    <3>2. CASE calls # <<>>
      <4>1. PICK f : calls = <<f>>
        BY <3>2 DEF LockInv, OneCall
      <4>2. Top = f /\ \A i \in DOMAIN calls : calls[i] = f
        BY <4>1 DEF Top
      <4> QED BY <3>2, <4>2 DEF Shapes
    <3> QED BY <3>1, <3>2
  <2>5. returned \in Blocks \cup {Void, BadAlloc, Nothing}
    BY DEF Shapes
  <2>6. callbackNode \in Blocks \cup {NoBlock}
    BY DEF MemoryInv, Apart, Nodes
  <2>7. /\ held \cup kept \cup freed \subseteq DOMAIN given /\ DOMAIN given \subseteq Blocks
        /\ lists \in [Tests -> Blocks \cup {NoBlock}]
    BY DEF MemoryInv, HeldIsGiven, ListsMade, MapInv, GivenToEarlier
  <2>8. outputFile \in 0 .. MaxDescriptors - 1 /\ DOMAIN descriptors \subseteq 0 .. MaxDescriptors - 1
    BY DEF DriverInv, Files
  <2> QED BY <2>1, <2>2, <2>3, <2>4, <2>5, <2>6, <2>7, <2>8 DEF TypeOK, Blocks
<1> QED
  BY <1>1, <1>2, <1>3, MemoryIsInvariant, CountingIsInvariant, DriverIsInvariant, PTL DEF Spec

-----------------------------------------------------------------------------
(* Descriptors.                                                            *)

\* The files that the options read by now have opened, and those a line opens.
Opened(options, S) == {i \in OptionsRead(options) : argv[i + 1] \in S}
FilesNamed(line, options, S) == {i \in OptionAt(line) : line[i] \in options /\ line[i + 1] \in S}

\* What a compilation leaves open, and all the compilations of a log.
Spared(line) ==
    Cardinality(FilesNamed(line, InputOptions, Sources))
    + Cardinality(FilesNamed(line, OutputOptions, Targets))
    - (IF NamedOutput(line) \in Targets THEN 1 ELSE 0)
SpareStep(f, l, i) == IF i = 0 THEN 0 ELSE f[i - 1] + Spared(l[i].argv)
SpareTotals(l) == CHOOSE f : f = [i \in 0 .. Len(l) |-> SpareStep(f, l, i)]
SpareTotal(l) == SpareTotals(l)[Len(l)]

\* A compiler that runs has opened what its options named, over what was left.
Accounted ==
    /\ word # Idle => phase \in {"body", "statics"} \cup Ended
    /\ word = Idle => Cardinality(DOMAIN descriptors) = 3 + SpareTotal(log)
    /\ word # Idle /\ phase = "body" =>
           Cardinality(DOMAIN descriptors) =
               3 + SpareTotal(log) + Cardinality(Opened(InputOptions, Sources))
               + Cardinality(Opened(OutputOptions, Targets))

(***************************************************************************)
(* A compilation spares a number of descriptors.                           *)
(***************************************************************************)
LEMMA SparedIsANumber ==
    ASSUME NEW line \in Seq(STRING)
    PROVE  Spared(line) \in Int
<1>1. ASSUME NEW options, NEW S
      PROVE  Cardinality(FilesNamed(line, options, S)) \in Nat
  <2>1. Len(line) \in Int /\ DOMAIN line = 1 .. Len(line)
    OBVIOUS
  <2>2. FilesNamed(line, options, S) \subseteq 1 .. Len(line)
    BY <2>1, OptionsOfALine DEF FilesNamed
  <2>3. IsFiniteSet(1 .. Len(line))
    BY <2>1, FS_Interval
  <2> QED BY <2>2, <2>3, FS_Subset, FS_CardinalityType
<1>2. /\ Cardinality(FilesNamed(line, InputOptions, Sources)) \in Nat
      /\ Cardinality(FilesNamed(line, OutputOptions, Targets)) \in Nat
  BY <1>1
<1> QED BY <1>2 DEF Spared

(***************************************************************************)
(* The sum over a log is well defined.                                     *)
(***************************************************************************)
LEMMA SpareTotalsExist ==
    ASSUME NEW l \in Seq(Entries)
    PROVE  /\ SpareTotals(l) = [i \in 0 .. Len(l) |-> SpareStep(SpareTotals(l), l, i)]
           /\ \A k \in 0 .. Len(l) : SpareTotals(l)[k] \in Int
<1> DEFINE Can(k) == \E f : f = [i \in 0 .. k |-> SpareStep(f, l, i)]
           S == {k \in Nat : Can(k)}
<1>0. Len(l) \in Nat
  OBVIOUS
<1>1. ASSUME NEW k \in Nat, Can(k)
      PROVE  Can(k + 1)
  <2>1. PICK f : f = [i \in 0 .. k |-> SpareStep(f, l, i)]
    BY <1>1
  <2> DEFINE g == [i \in 0 .. k + 1 |-> SpareStep(f, l, i)]
  <2>2. ASSUME NEW i \in 0 .. k + 1
        PROVE  SpareStep(f, l, i) = SpareStep(g, l, i)
    <3>1. CASE i = 0
      BY <3>1 DEF SpareStep
    <3>2. CASE i # 0
      <4>1. i - 1 \in 0 .. k /\ i - 1 \in 0 .. k + 1
        BY <3>2
      <4>2. f[i - 1] = SpareStep(f, l, i - 1)
        BY <2>1, <4>1
      <4>3. g[i - 1] = SpareStep(f, l, i - 1)
        BY <4>1
      <4>4. f[i - 1] = g[i - 1]
        BY <4>2, <4>3
      <4> HIDE DEF g
      <4> QED BY <4>4 DEF SpareStep
    <3> QED BY <3>1, <3>2
  <2>3. g = [i \in 0 .. k + 1 |-> SpareStep(g, l, i)]
    BY <2>2
  <2> HIDE DEF g
  <2> QED BY <2>3
<1>2. Can(0)
  <2> DEFINE g == [i \in 0 .. 0 |-> 0]
  <2>1. \A i \in 0 .. 0 : SpareStep(g, l, i) = 0
    BY DEF SpareStep
  <2>2. g = [i \in 0 .. 0 |-> SpareStep(g, l, i)]
    BY <2>1
  <2> HIDE DEF g
  <2> QED BY <2>2
<1>3. S = Nat
  <2>1. 0 \in S /\ \A k \in S : k + 1 \in S
    <3> HIDE DEF Can
    <3> QED BY <1>1, <1>2
  <2>2. S \in SUBSET Nat
    OBVIOUS
  <2> HIDE DEF S
  <2> QED BY <2>1, <2>2, SetInduction
<1>4. \E f : f = [i \in 0 .. Len(l) |-> SpareStep(f, l, i)]
  <2>1. Len(l) \in S
    BY <1>0, <1>3
  <2> QED BY <2>1
<1>5. SpareTotals(l) = [i \in 0 .. Len(l) |-> SpareStep(SpareTotals(l), l, i)]
  BY <1>4 DEF SpareTotals
<1> DEFINE N == {k \in Nat : k \in 0 .. Len(l) => SpareTotals(l)[k] \in Int}
<1>6. ASSUME NEW k \in N
      PROVE  k + 1 \in N
  <2> SUFFICES ASSUME k + 1 \in 0 .. Len(l) PROVE SpareTotals(l)[k + 1] \in Int
    OBVIOUS
  <2>1. k \in Nat /\ k \in 0 .. Len(l) /\ k + 1 \in 1 .. Len(l)
    BY <1>0
  <2>2. SpareTotals(l)[k] \in Int
    BY <2>1
  <2>3. SpareTotals(l)[k + 1] = SpareStep(SpareTotals(l), l, k + 1)
    BY <1>5
  <2>4. l[k + 1].argv \in Seq(STRING)
    <3>1. l[k + 1] \in Entries
      BY <2>1
    <3> QED BY <3>1 DEF Entries
  <2>5. SpareTotals(l)[k + 1] = SpareTotals(l)[k] + Spared(l[k + 1].argv)
    BY <2>1, <2>3 DEF SpareStep
  <2>6. Spared(l[k + 1].argv) \in Int
    BY <2>4, SparedIsANumber
  <2> HIDE DEF N
  <2> QED BY <2>2, <2>5, <2>6
<1>7. 0 \in N
  <2>1. SpareTotals(l)[0] = SpareStep(SpareTotals(l), l, 0)
    BY <1>0, <1>5
  <2> QED BY <2>1 DEF SpareStep
<1>8. N = Nat
  <2>1. N \in SUBSET Nat /\ \A k \in N : k + 1 \in N
    BY <1>6
  <2> HIDE DEF N
  <2> QED BY <1>7, <2>1, SetInduction
<1>9. \A k \in 0 .. Len(l) : SpareTotals(l)[k] \in Int
  BY <1>8
<1> QED BY <1>5, <1>9

(***************************************************************************)
(* The descriptors that the compilations of a log spare are a number.      *)
(***************************************************************************)
LEMMA SpareTotalIsANumber ==
    ASSUME NEW l \in Seq(Entries)
    PROVE  SpareTotal(l) \in Int
<1>1. Len(l) \in 0 .. Len(l)
  OBVIOUS
<1> QED BY <1>1, SpareTotalsExist DEF SpareTotal

(***************************************************************************)
(* One compilation more adds what it spares.                               *)
(***************************************************************************)
LEMMA SpareTotalGrows ==
    ASSUME NEW l \in Seq(Entries), NEW entry \in Entries
    PROVE  /\ SpareTotal(l) \in Int
           /\ SpareTotal(Append(l, entry)) = SpareTotal(l) + Spared(entry.argv)
<1> DEFINE m == Append(l, entry)
           n == Len(l)
           f == SpareTotals(l)
           g == SpareTotals(m)
           S == {k \in Nat : k \in 0 .. n => f[k] = g[k]}
<1>1. /\ m \in Seq(Entries) /\ Len(m) = n + 1 /\ n \in Nat /\ m[n + 1] = entry
      /\ \A i \in 1 .. n : m[i] = l[i]
  BY AppendProperties
<1> HIDE DEF m
<1>2. f = [i \in 0 .. n |-> SpareStep(f, l, i)] /\ f[n] \in Int
  <2>1. n \in 0 .. n
    BY <1>1
  <2> QED BY <2>1, SpareTotalsExist
<1>3. g = [i \in 0 .. n + 1 |-> SpareStep(g, m, i)]
  <2>1. g = [i \in 0 .. Len(m) |-> SpareStep(g, m, i)]
    BY <1>1, SpareTotalsExist
  <2> QED BY <1>1, <2>1
<1> HIDE DEF f, g
<1>4. ASSUME NEW k \in S
      PROVE  k + 1 \in S
  <2> SUFFICES ASSUME k + 1 \in 0 .. n PROVE f[k + 1] = g[k + 1]
    OBVIOUS
  <2>1. k \in Nat /\ k \in 0 .. n /\ k + 1 \in 1 .. n /\ k + 1 \in 0 .. n + 1 /\ k + 1 # 0 /\ (k + 1) - 1 = k
    BY <1>1
  <2>2. f[k] = g[k]
    BY <2>1
  <2>3. f[k + 1] = SpareStep(f, l, k + 1) /\ g[k + 1] = SpareStep(g, m, k + 1)
    BY <1>2, <1>3, <2>1
  <2>4. m[k + 1] = l[k + 1]
    BY <1>1, <2>1
  <2> QED BY <2>1, <2>2, <2>3, <2>4 DEF SpareStep
<1>5. 0 \in S
  <2>1. 0 \in 0 .. n /\ 0 \in 0 .. n + 1
    BY <1>1
  <2>2. f[0] = SpareStep(f, l, 0) /\ g[0] = SpareStep(g, m, 0)
    BY <1>2, <1>3, <2>1
  <2> QED BY <2>2 DEF SpareStep
<1>6. S = Nat
  <2>1. S \in SUBSET Nat /\ \A k \in S : k + 1 \in S
    BY <1>4
  <2> HIDE DEF S
  <2> QED BY <1>5, <2>1, SetInduction
<1>7. f[n] = g[n]
  <2>1. n \in S /\ n \in 0 .. n
    BY <1>1, <1>6
  <2> QED BY <2>1
<1>8. g[n + 1] = g[n] + Spared(entry.argv)
  <2>1. n + 1 \in 0 .. n + 1 /\ n + 1 # 0 /\ (n + 1) - 1 = n
    BY <1>1
  <2>2. g[n + 1] = SpareStep(g, m, n + 1)
    BY <1>3, <2>1
  <2> QED BY <1>1, <2>1, <2>2 DEF SpareStep
<1> QED BY <1>1, <1>2, <1>7, <1>8 DEF SpareTotal, f, g, m

(***************************************************************************)
(* An option that is read opens its argument or does not.                  *)
(***************************************************************************)
LEMMA OpenedGrows ==
    ASSUME Words, Files, NEW options \in SUBSET Options, NEW S
    PROVE  /\ Cardinality(Opened(options, S)) \in Nat
           /\ StartCompiler => Opened(options, S)' = {}
           /\ SkipWord => Opened(options, S)' = Opened(options, S)
           /\ ReadOption /\ ~(argv[word] \in options /\ argv[word + 1] \in S) =>
                  Opened(options, S)' = Opened(options, S)
           /\ ReadOption /\ argv[word] \in options /\ argv[word + 1] \in S =>
                  Cardinality(Opened(options, S)') = Cardinality(Opened(options, S)) + 1
<1> DEFINE O == OptionsRead(options)
<1>1. /\ O \in SUBSET (1 .. Len(argv)) /\ Len(argv) \in Int /\ word \notin O
      /\ StartCompiler => O' = {}
      /\ SkipWord => O' = O
      /\ ReadOption /\ argv[word] \notin options => O' = O
      /\ ReadOption /\ argv[word] \in options => O' = O \cup {word}
  BY OptionsReadGrow
<1>2. /\ Opened(options, S) = {i \in O : argv[i + 1] \in S}
      /\ Opened(options, S)' = {i \in O' : argv'[i + 1] \in S}
  BY DEF Opened
<1>3. ReadOption \/ SkipWord => argv' = argv
  BY DEF ReadOption, SkipWord
<1> HIDE DEF O
<1>4. IsFiniteSet(Opened(options, S)) /\ Cardinality(Opened(options, S)) \in Nat
  <2>1. IsFiniteSet(1 .. Len(argv))
    BY <1>1, FS_Interval
  <2>2. Opened(options, S) \in SUBSET (1 .. Len(argv))
    BY <1>1, <1>2
  <2> QED BY <2>1, <2>2, FS_Subset, FS_CardinalityType
<1>5. ASSUME ReadOption, argv[word] \in options, argv[word + 1] \in S
      PROVE  Cardinality(Opened(options, S)') = Cardinality(Opened(options, S)) + 1
  <2>1. Opened(options, S)' = Opened(options, S) \cup {word} /\ word \notin Opened(options, S)
    BY <1>1, <1>2, <1>3, <1>5
  <2> QED BY <1>4, <2>1, FS_AddElement
<1>6. StartCompiler => Opened(options, S)' = {}
  BY <1>1, <1>2
<1>7. SkipWord => Opened(options, S)' = Opened(options, S)
  BY <1>1, <1>2, <1>3
<1>8. ASSUME ReadOption, ~(argv[word] \in options /\ argv[word + 1] \in S)
      PROVE  Opened(options, S)' = Opened(options, S)
  BY <1>1, <1>2, <1>3, <1>8
<1> QED BY <1>4, <1>5, <1>6, <1>7, <1>8

(***************************************************************************)
(* A compilation closes a file exactly if its line names one.              *)
(***************************************************************************)
LEMMA OutputIsNamed ==
    ASSUME DriverInv, CompileAndWrite
    PROVE  /\ outputFile # Stdout <=> NamedOutput(argv) \in Targets
           /\ outputFile \in DOMAIN descriptors
<1>0. Words /\ Files /\ log \in Seq(Entries) /\ LastOutputOpened /\ Targets \subseteq STRING /\ None \notin STRING
  BY DriverAssumption DEF DriverInv
<1>1. word = Len(argv) + 1 /\ word # Idle /\ CanWrite /\ outputFile' = outputFile /\ CloseOutput
  <2>1. word = Len(argv) + 1 /\ CanWrite /\ outputFile' = outputFile /\ CloseOutput
    BY <1>0, WhatWritingDoes
  <2> QED BY <1>0, <2>1 DEF Words, Idle
<1>2. CASE OptionsRead(OutputOptions) = {}
  <2>1. NamedOutput(argv) = None
    BY <1>0, <1>1, <1>2, NamedIsLastRead DEF NamedOutput, OutputOptions
  <2>2. outputFile = Stdout
    BY <1>0, <1>1, <1>2 DEF LastOutputOpened
  <2> QED BY <1>0, <1>1, <2>1, <2>2 DEF CanWrite
<1>3. CASE OptionsRead(OutputOptions) # {}
  <2>1. NamedOutput(argv) = argv[Greatest(OptionsRead(OutputOptions)) + 1]
    BY <1>0, <1>1, <1>3, NamedIsLastRead DEF NamedOutput, OutputOptions
  <2>2. descriptors[outputFile].file = NamedOutput(argv)
    BY <1>0, <1>1, <1>3, <2>1 DEF LastOutputOpened
  <2>3. outputFile # Stdout => NamedOutput(argv) \in Targets
    BY <1>0, <1>1, <2>2, OutputIsClosed
  <2>4. outputFile = Stdout => NamedOutput(argv) = "stdout"
    BY <1>0, <2>2 DEF Files, File
  <2>5. "stdout" \notin Targets
    BY DriverAssumption
  <2> QED BY <1>1, <2>3, <2>4, <2>5 DEF CanWrite
<1> QED BY <1>2, <1>3

(***************************************************************************)
(* The compiler runs in the body of a test.                                *)
(***************************************************************************)
LEMMA DriverRunsInBody ==
    ASSUME [Next]_vars
    PROVE  \/ UNCHANGED driverVars
           \/ /\ phase = "body" /\ phase' = "body"
              /\ StartCompiler \/ SkipWord \/ ReadOption \/ CompileAndWrite
           \/ phase = "body" /\ phase' = "statics" /\ WriteFails
<1>1. CASE Operators
  BY <1>1 DEF Operators
<1>2. CASE InMain
  BY <1>2
  DEF InMain, StaticInitializer, StaticInitialized, BadAllocEscapes, Main, NewList, ListMade, Callback,
      PrintResults, DeleteWarnings, WarningsDeleted, MainReturns, MapDestructor, StaticDestructor,
      StaticDeleted, ProcessExits
<1>3. CASE InTest
  <2>1. CASE New \/ NewReturns \/ Delete \/ DeleteReturns \/ Use
    BY <2>1 DEF New, NewReturns, Delete, DeleteReturns, Use
  <2>2. CASE \E how \in {"passed", "failed", "exception"} : FunctionEnds(how)
    BY <2>2 DEF FunctionEnds
  <2>3. CASE Compile \/ CompilerSteps \/ CompilerEndsProcess \/ CompilerReadsBehindArgv
    BY <2>3
    DEF Compile, CompilerSteps, CompilerEndsProcess, CompilerReadsBehindArgv, Does, TestRuns, Running,
        ByCompiler, OptionEndsProcess, CompilerExits, ReadsBehindArgv
  <2> QED BY <1>3, <2>1, <2>2, <2>3 DEF InTest
<1>4. CASE UNCHANGED vars
  BY <1>4 DEF vars
<1> QED BY <1>1, <1>2, <1>3, <1>4 DEF Next

(***************************************************************************)
(* While the compiler runs, no test ends, and main does not go on.         *)
(***************************************************************************)
LEMMA NothingElseRuns ==
    ASSUME LockInv, [Next]_vars, UNCHANGED driverVars, word # Idle,
           phase \in {"body", "statics"} \cup Ended
    PROVE  phase' \in {phase, "statics"} \cup Ended
<1>1. CASE Operators
  <2>0. ~In("clear") /\ ~In("report") /\ ~In("attach") /\ ~In("detach")
    BY DEF LockInv, CallsFit, Ended
  <2>1. CASE AskForNode \/ Record \/ RecordFails \/ Erase \/ Warn
    BY <2>1 DEF AskForNode, AllocateManaged, Record, RecordFails, Erase, Warn
  <2>2. CASE GiveNodeBack
    BY <2>2, NodeIsGivenBack DEF Undefined, Stop, Ended
  <2>3. CASE NodeMissing
    BY <2>3 DEF NodeMissing, Terminate, Stop, Ended
  <2> QED
    BY <1>1, <2>0, <2>1, <2>2, <2>3 DEF Operators, Allocator, Clear, Report, ReportDone, Attach, Detach
<1>2. CASE InMain
  <2>1. CASE BadAllocEscapes \/ MapDestructor
    BY <2>1 DEF BadAllocEscapes, MapDestructor, Undefined, Terminate, Stop, Ended
  <2>2. CASE StaticDestructor
    BY <2>2 DEF StaticDestructor, DeallocateManaged, Undefined, Stop, Ended
  <2>3. CASE StaticDeleted \/ ProcessExits
    BY <2>3 DEF StaticDeleted, ProcessExits, Ended
  <2> QED
    BY <1>2, <2>1, <2>2, <2>3
    DEF InMain, StaticInitializer, StaticInitialized, Main, NewList, ListMade, Callback, ProgramCalls,
        PrintResults, DeleteWarnings, WarningsDeleted, MainReturns, Running, Ended
<1>3. CASE InTest
  <2>1. CASE New \/ Delete \/ Use \/ Compile \/ \E how \in {"passed", "failed", "exception"} : FunctionEnds(how)
    BY <2>1 DEF New, Delete, Use, Compile, FunctionEnds, Does, TestRuns
  <2>2. CASE NewReturns \/ DeleteReturns \/ CompilerSteps
    BY <2>2 DEF NewReturns, DeleteReturns, CompilerSteps, ByCompiler
  <2>3. CASE CompilerEndsProcess \/ CompilerReadsBehindArgv
    BY <2>3 DEF CompilerEndsProcess, CompilerReadsBehindArgv, Undefined, Stop, Ended
  <2> QED BY <1>3, <2>1, <2>2, <2>3 DEF InTest
<1>4. CASE UNCHANGED vars
  BY <1>4 DEF vars
<1> QED BY <1>1, <1>2, <1>3, <1>4 DEF Next

(***************************************************************************)
(* Every step keeps the descriptors accounted for.                         *)
(***************************************************************************)
LEMMA NextKeepsAccounted ==
    ASSUME LockInv, DriverInv, Accounted, [Next]_vars
    PROVE  Accounted'
<1> DEFINE D == DOMAIN descriptors
           I == Opened(InputOptions, Sources)
           O == Opened(OutputOptions, Targets)
<1>0. Words /\ Files /\ log \in Seq(Entries)
  BY DEF DriverInv
<1>1. /\ InputOptions \in SUBSET Options /\ OutputOptions \in SUBSET Options
      /\ InputOptions \cap OutputOptions = {}
      /\ "stdin" \notin Sources /\ "stdout" \notin Targets
  BY DriverAssumption DEF InputOptions, OutputOptions, Options
<1>2. IsFiniteSet(D) /\ Cardinality(D) \in Nat /\ Cardinality(I) \in Nat /\ Cardinality(O) \in Nat
  <2>1. IsFiniteSet(0 .. MaxDescriptors - 1)
    BY DriverAssumption, FS_Interval
  <2>2. D \in SUBSET (0 .. MaxDescriptors - 1)
    BY <1>0 DEF Files
  <2>3. IsFiniteSet(D)
    BY <2>1, <2>2, FS_Subset
  <2> QED BY <1>0, <1>1, <2>3, FS_CardinalityType, OpenedGrows
<1>3. CASE UNCHANGED driverVars
  <2>1. UNCHANGED <<argv, word, descriptors, log>>
    BY <1>3 DEF driverVars
  <2>2. I' = I /\ O' = O
    BY <2>1 DEF Opened, OptionsRead
  <2>3. word # Idle => phase' \in {phase, "statics"} \cup Ended
    BY <1>3, NothingElseRuns DEF Accounted
  <2>4. "body" \notin {"statics"} \cup Ended
    BY DEF Ended
  <2> QED BY <2>1, <2>2, <2>3, <2>4 DEF Accounted
<1>4. CASE phase' = "body" /\ StartCompiler
  <2>1. word = Idle /\ word' # Idle /\ UNCHANGED <<descriptors, log>>
    BY <1>4 DEF StartCompiler, Idle
  <2>2. Cardinality(I') = 0 /\ Cardinality(O') = 0
    BY <1>0, <1>1, <1>4, OpenedGrows, FS_EmptySet
  <2>3. SpareTotal(log) \in Int
    BY <1>0, SpareTotalIsANumber
  <2>4. Cardinality(D') = 3 + SpareTotal(log') + Cardinality(I') + Cardinality(O')
    BY <2>1, <2>2, <2>3 DEF Accounted
  <2> QED BY <1>4, <2>1, <2>4 DEF Accounted
<1>5. CASE phase = "body" /\ phase' = "body" /\ SkipWord
  <2>1. word # Idle /\ word' # Idle /\ UNCHANGED <<descriptors, log>>
    BY <1>0, <1>5 DEF SkipWord, Reading, Words, Idle
  <2>2. I' = I /\ O' = O
    BY <1>0, <1>1, <1>5, OpenedGrows
  <2> QED BY <1>5, <2>1, <2>2 DEF Accounted
<1>6. CASE phase = "body" /\ phase' = "body" /\ ReadOption
  <2>1. word # Idle /\ word' # Idle /\ log' = log /\ argv[word + 1] \in STRING
    BY <1>0, <1>6, WhatAnOptionDoes DEF Idle
  <2>2. ASSUME NEW file \in STRING, NEW writable \in BOOLEAN, Unused # {}, Opens(file, writable)
        PROVE  Cardinality(D') = Cardinality(D) + 1
    <3>1. D' = D \cup {LeastUnused} /\ LeastUnused \notin D
      BY <1>0, <2>2, OpensAFile DEF FileNames
    <3> QED BY <1>2, <3>1, FS_AddElement
  <2>3. \/ Cardinality(D') = Cardinality(D) /\ I' = I /\ O' = O
        \/ Cardinality(D') = Cardinality(D) + 1 /\ Cardinality(I') = Cardinality(I) + 1 /\ O' = O
        \/ Cardinality(D') = Cardinality(D) + 1 /\ I' = I /\ Cardinality(O') = Cardinality(O) + 1
    <3>1. CASE argv[word] \in InputOptions /\ InputRead(argv[word + 1])
      <4>1. O' = O
        BY <1>0, <1>1, <1>6, <3>1, OpenedGrows
      <4>2. CASE argv[word + 1] = "stdin" /\ descriptors' = descriptors
        <5>1. I' = I
          BY <1>0, <1>1, <1>6, <4>2, OpenedGrows
        <5> QED BY <4>1, <4>2, <5>1
      <4>3. CASE argv[word + 1] \in Sources /\ Unused # {} /\ Opens(argv[word + 1], FALSE)
        <5>1. Cardinality(I') = Cardinality(I) + 1
          BY <1>0, <1>1, <1>6, <3>1, <4>3, OpenedGrows
        <5>2. Cardinality(D') = Cardinality(D) + 1
          BY <2>1, <2>2, <4>3
        <5> QED BY <4>1, <5>1, <5>2
      <4> QED BY <3>1, <4>2, <4>3 DEF InputRead
    <3>2. CASE argv[word] \in OutputOptions /\ OutputRead(argv[word + 1])
      <4>1. I' = I
        BY <1>0, <1>1, <1>6, <3>2, OpenedGrows
      <4>2. CASE argv[word + 1] = "stdout" /\ descriptors' = descriptors
        <5>1. O' = O
          BY <1>0, <1>1, <1>6, <4>2, OpenedGrows
        <5> QED BY <4>1, <4>2, <5>1
      <4>3. CASE argv[word + 1] \in Targets /\ Unused # {} /\ Opens(argv[word + 1], TRUE)
        <5>1. Cardinality(O') = Cardinality(O) + 1
          BY <1>0, <1>1, <1>6, <3>2, <4>3, OpenedGrows
        <5>2. Cardinality(D') = Cardinality(D) + 1
          BY <2>1, <2>2, <4>3
        <5> QED BY <4>1, <5>1, <5>2
      <4> QED BY <3>2, <4>2, <4>3 DEF OutputRead
    <3>3. CASE argv[word] \notin InputOptions \cup OutputOptions /\ descriptors' = descriptors
      <4>1. I' = I /\ O' = O
        BY <1>0, <1>1, <1>6, <3>3, OpenedGrows
      <4> QED BY <3>3, <4>1
    <3> QED BY <1>0, <1>6, <3>1, <3>2, <3>3, WhatAnOptionDoes
  <2>4. SpareTotal(log') = SpareTotal(log) /\ SpareTotal(log) \in Int
    BY <1>0, <2>1, SpareTotalIsANumber
  <2>5. Cardinality(D) = 3 + SpareTotal(log) + Cardinality(I) + Cardinality(O)
    BY <1>6, <2>1 DEF Accounted
  <2> HIDE DEF D, I, O
  <2>6. Cardinality(D') = 3 + SpareTotal(log') + Cardinality(I') + Cardinality(O')
    BY <1>2, <2>3, <2>4, <2>5
  <2> QED BY <1>6, <2>1, <2>6 DEF Accounted, D, I, O
<1>7. CASE phase' = "body" /\ phase = "body" /\ CompileAndWrite
  <2>1. /\ word = Len(argv) + 1 /\ word' = Idle /\ CloseOutput
        /\ \E entry \in Entries : log' = Append(log, entry) /\ entry.argv = argv
    BY <1>0, <1>7, WhatWritingDoes
  <2>2. PICK entry \in Entries : log' = Append(log, entry) /\ entry.argv = argv
    BY <2>1
  <2>3. SpareTotal(log') = SpareTotal(log) + Spared(argv) /\ SpareTotal(log) \in Int
    BY <1>0, <2>2, SpareTotalGrows
  <2>4. word # Idle
    BY <1>0, <2>1 DEF Words, Idle
  <2>5. Cardinality(D) = 3 + SpareTotal(log) + Cardinality(I) + Cardinality(O)
    BY <1>7, <2>4 DEF Accounted
  <2>6. D' = D \ ({outputFile} \ {Stdout})
    BY <1>0, <2>1, WhatClosingDoes
  <2>7. /\ outputFile # Stdout <=> NamedOutput(argv) \in Targets
        /\ outputFile \in D
    BY <1>7, OutputIsNamed
  <2> DEFINE closed == IF NamedOutput(argv) \in Targets THEN 1 ELSE 0
  <2>8. Cardinality(D') = Cardinality(D) - closed
    <3>1. CASE outputFile = Stdout
      <4>1. D' = D
        BY <2>6, <3>1
      <4> QED BY <1>2, <2>7, <3>1, <4>1
    <3>2. CASE outputFile # Stdout
      <4>1. D' = D \ {outputFile}
        BY <2>6, <3>2
      <4> HIDE DEF D
      <4> QED BY <1>2, <2>7, <3>2, <4>1, FS_RemoveElement
    <3> QED BY <3>1, <3>2
  <2>9. Spared(argv) = Cardinality(I) + Cardinality(O) - closed
    <3>1. OptionAt(argv) \subseteq DOMAIN argv /\ Len(argv) \in Nat
      BY <1>0, OptionsOfALine DEF Words
    <3>2. \A i \in OptionAt(argv) : i < word
      BY <1>0, <2>1, <3>1 DEF Words
    <3>3. I = FilesNamed(argv, InputOptions, Sources) /\ O = FilesNamed(argv, OutputOptions, Targets)
      BY <3>2 DEF Opened, OptionsRead, FilesNamed
    <3> QED BY <3>3 DEF Spared
  <2>10. closed \in Int
    OBVIOUS
  <2> HIDE DEF D, I, O, closed
  <2>11. Cardinality(D') = 3 + SpareTotal(log')
    BY <1>2, <2>3, <2>5, <2>8, <2>9, <2>10
  <2> QED BY <2>1, <2>11 DEF Accounted, D
<1>8. CASE phase = "body" /\ phase' = "statics" /\ WriteFails
  <2>1. word' = word /\ word # Idle
    BY <1>0, <1>8 DEF WriteFails, AtEnd, Words, Idle
  <2> QED BY <1>8, <2>1 DEF Accounted
<1> QED BY <1>3, <1>4, <1>5, <1>6, <1>7, <1>8, DriverRunsInBody

(***************************************************************************)
(* Between two compilations the open descriptors are the three standard    *)
(* ones, an input for each that a command line named, and an output for    *)
(* each that a later word replaced: no compilation leaks the descriptor    *)
(* of its module (Main.cpp:79-110, 200-213).                               *)
(***************************************************************************)
THEOREM DescriptorsAddUp == Spec => []DescriptorsAreAccountedFor
<1>1. Init => Accounted
  <2> SUFFICES ASSUME Init PROVE Accounted
    OBVIOUS
  <2>1. word = Idle /\ DOMAIN descriptors = {0, 1, 2} /\ log = <<>>
    BY DEF Init, InitDriver, Stdin, Stdout, Stderr
  <2>2. Cardinality(DOMAIN descriptors) = 3
    <3>1. {0, 1, 2} = 0 .. 2
      OBVIOUS
    <3>2. Cardinality(0 .. 2) = 3
      <4>1. 0 \in Int /\ 2 \in Int /\ ~(0 > 2) /\ 2 - 0 + 1 = 3
        OBVIOUS
      <4>2. Cardinality(0 .. 2) = IF 0 > 2 THEN 0 ELSE 2 - 0 + 1
        BY <4>1, FS_Interval
      <4> QED BY <4>1, <4>2
    <3> QED BY <2>1, <3>1, <3>2
  <2>3. SpareTotal(log) = 0
    <3>1. log \in Seq(Entries) /\ Len(log) = 0
      BY <2>1
    <3>2. SpareTotals(log) = [i \in 0 .. Len(log) |-> SpareStep(SpareTotals(log), log, i)]
      BY <3>1, SpareTotalsExist
    <3>3. SpareTotals(log)[0] = SpareStep(SpareTotals(log), log, 0)
      BY <3>1, <3>2
    <3> QED BY <3>1, <3>3 DEF SpareTotal, SpareStep
  <2> QED BY <2>1, <2>2, <2>3 DEF Accounted
<1>2. LockInv /\ DriverInv /\ Accounted /\ [Next]_vars => Accounted'
  BY NextKeepsAccounted
<1>3. Accounted => DescriptorsAreAccountedFor
  <2> SUFFICES ASSUME Accounted, word = Idle
               PROVE  DescriptorsAreAccountedFor
    BY DEF DescriptorsAreAccountedFor
  <2>1. Cardinality(DOMAIN descriptors) = 3 + SpareTotal(log)
    BY DEF Accounted
  <2> QED
    BY <2>1
    DEF DescriptorsAreAccountedFor, SpareTotal, SpareTotals, SpareStep, Spared, FilesNamed, InputOptions,
        OutputOptions
<1> QED BY <1>1, <1>2, <1>3, LockIsInvariant, DriverIsInvariant, PTL DEF Spec
=============================================================================

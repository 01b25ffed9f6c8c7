------------------------------- MODULE Driver -------------------------------
(***************************************************************************)
(* The driver (src/src/Main.cpp): the options of StartILangCompiler and    *)
(* the files they open.  A process may call it several times, as the tests *)
(* do; the input, the output and the trace flags are globals that a call   *)
(* leaves to the next one.                                                 *)
(*                                                                         *)
(* A FILE is its descriptor: nothing ever closes one of them, and the      *)
(* stream that writes the module closes the descriptor below it.           *)
(***************************************************************************)
EXTENDS Integers, Sequences, FiniteSets

CONSTANTS
    CommandLines,      \* sequences of words, without argv[0]
    Sources,           \* the files that fopen can read: not "stdin",
    Targets,           \* the files that fopen can write: not "stdout"
    None,              \* no file
    MaxDescriptors,    \* the descriptors a process may have
    MaxCompilations    \* bound: the compilations of one process

Stdin == 0
Stdout == 1
Stderr == 2

ASSUME DriverAssumption ==
    /\ MaxDescriptors \in Nat /\ MaxDescriptors > Stderr
    /\ MaxCompilations \in Nat
    /\ CommandLines \subseteq Seq(STRING)
    /\ Sources \cup Targets \subseteq STRING /\ None \notin STRING
    /\ Sources \cap Targets = {}
    /\ "stdin" \notin Sources /\ "stdout" \notin Targets

VARIABLES
    argv,
    word,          \* the next word ReadOptions looks at, or Idle
    descriptors,   \* the open files: the descriptor, its file, and whether it can be written
    outputFile,    \* the descriptor of the output
    lexerInput,    \* the input: its file and how far it was read
    traced,        \* componentTraceMap
    log            \* history: the compilations that came to their end

driverVars == <<argv, word, descriptors, outputFile, lexerInput, traced, log>>

Idle == 0

Options == {"--input", "-s", "--output", "-o", "--trace", "-t", "--help", "-h"}
ArgsLength(option) == IF option \in {"--help", "-h"} THEN 0 ELSE 1
IsOption(w) == w \in Options \cup {"--unknown"}

File(name, writable) == [file |-> name, writable |-> writable]

InitDriver ==
    /\ argv = <<>> /\ word = Idle
    /\ descriptors = [d \in {Stdin, Stdout, Stderr} |->
                         IF d = Stdin THEN File("stdin", FALSE)
                         ELSE File(IF d = Stdout THEN "stdout" ELSE "stderr", TRUE)]
    /\ outputFile = Stdout
    /\ lexerInput = [file |-> None, at |-> "start"]
    /\ traced = {}
    /\ log = <<>>

-----------------------------------------------------------------------------
(* fopen takes the least free descriptor.                                  *)
Unused == (0 .. MaxDescriptors - 1) \ DOMAIN descriptors
LeastUnused == CHOOSE d \in Unused : \A e \in Unused : d <= e

Opens(file, writable) ==
    descriptors' = [d \in DOMAIN descriptors \cup {LeastUnused} |->
                        IF d = LeastUnused THEN File(file, writable) ELSE descriptors[d]]

StdinInput == [file |-> "stdin", at |-> "stream"]

HandleOptionInput(name) ==
    \/ /\ name = "stdin"
       /\ lexerInput' = StdinInput
       /\ UNCHANGED <<descriptors, outputFile, traced>>
    \/ /\ name \in Sources /\ Unused # {}
       /\ Opens(name, FALSE)
       /\ lexerInput' = [file |-> name, at |-> "start"]
       /\ UNCHANGED <<outputFile, traced>>

\* The slip of opening the output without keeping it.
OutputNotKept(name) ==
    /\ name \in Targets /\ Unused # {}
    /\ Opens(name, TRUE)
    /\ UNCHANGED <<outputFile, lexerInput, traced>>

\* The slip of opening the output to read it.
OutputForReading(name) ==
    \/ /\ name = "stdout"
       /\ outputFile' = Stdout
       /\ UNCHANGED <<descriptors, lexerInput, traced>>
    \/ /\ name \in Targets /\ Unused # {}
       /\ Opens(name, FALSE)
       /\ outputFile' = LeastUnused
       /\ UNCHANGED <<lexerInput, traced>>

HandleOptionOutput(name) ==
    \/ /\ name = "stdout"
       /\ outputFile' = Stdout
       /\ UNCHANGED <<descriptors, lexerInput, traced>>
    \/ /\ name \in Targets /\ Unused # {}
       /\ Opens(name, TRUE)
       /\ outputFile' = LeastUnused
       /\ UNCHANGED <<lexerInput, traced>>

HandleOptionTrace(name) ==
    /\ traced' = traced \cup ({name} \cap {"env", "lexer", "parser", "scope", "semantics", "codegen"})
    /\ UNCHANGED <<descriptors, outputFile, lexerInput>>

Handle(option, name) ==
    \/ option \in {"--input", "-s"} /\ HandleOptionInput(name)
    \/ option \in {"--output", "-o"} /\ HandleOptionOutput(name)
    \/ option \in {"--trace", "-t"} /\ HandleOptionTrace(name)

CanOpen(option, name) ==
    CASE option \in {"--input", "-s"} -> name = "stdin" \/ (name \in Sources /\ Unused # {})
      [] option \in {"--output", "-o"} -> name = "stdout" \/ (name \in Targets /\ Unused # {})
      [] OTHER -> TRUE

-----------------------------------------------------------------------------
StartCompiler ==
    /\ word = Idle /\ Len(log) < MaxCompilations
    /\ argv' \in CommandLines
    /\ word' = 1
    /\ UNCHANGED <<descriptors, outputFile, lexerInput, traced, log>>

Reading == word \in 1 .. Len(argv)
ThisWord == argv[word]

\* A word that is no option is passed over.
SkipWord ==
    /\ Reading /\ ~IsOption(ThisWord)
    /\ word' = word + 1
    /\ UNCHANGED <<argv, descriptors, outputFile, lexerInput, traced, log>>

ReadOption ==
    /\ Reading /\ ThisWord \in Options /\ ArgsLength(ThisWord) = 1
    /\ word < Len(argv)
    /\ Handle(ThisWord, argv[word + 1])
    /\ word' = word + 2
    /\ UNCHANGED <<argv, log>>

\* std::exit: an unknown option, --help, or a file that does not open.
OptionEndsProcess ==
    /\ Reading /\ IsOption(ThisWord)
    /\ \/ ThisWord \notin Options
       \/ ArgsLength(ThisWord) = 0
       \/ word < Len(argv) /\ ~CanOpen(ThisWord, argv[word + 1])
    /\ UNCHANGED driverVars

\* One word is left, the option itself: it passes for the argument, and the
\* handler reads behind the end of argv.
ReadsBehindArgv ==
    /\ Reading /\ ThisWord \in Options
    /\ ArgsLength(ThisWord) = 1 /\ word = Len(argv)
    /\ UNCHANGED driverVars

-----------------------------------------------------------------------------
(* The passes, and the module written through a stream that closes its     *)
(* descriptor, the standard ones excepted.                                 *)

AtEnd == word = Len(argv) + 1

\* The input of this compilation: stdin when there was never another.
Input == IF lexerInput.file = None THEN StdinInput ELSE lexerInput

CanWrite == outputFile \in DOMAIN descriptors /\ descriptors[outputFile].writable

\* The slip of a stream that leaves the descriptor open.
CloseNothing == UNCHANGED descriptors

CloseOutput ==
    descriptors' = [d \in DOMAIN descriptors \ ({outputFile} \ {Stdout}) |-> descriptors[d]]

\* The lexer stops at the end of the input, or before it at a token it takes
\* for the end.
CompileAndWrite ==
    /\ AtEnd /\ CanWrite
    /\ \E at \in {"end", "middle", "stream"} :
           /\ Input.at \in {"end", "stream"} => at = Input.at
           /\ at = "stream" => Input.at = "stream"
           /\ lexerInput' = [Input EXCEPT !.at = at]
    /\ log' = Append(log, [argv |-> argv, read |-> Input, wrote |-> descriptors[outputFile].file])
    /\ CloseOutput
    /\ word' = Idle
    /\ UNCHANGED <<argv, outputFile, traced>>

\* The compiler rejects the program by yyerror or an assertion, or LLVM reports
\* that the module cannot be written.
WriteFails == AtEnd /\ ~CanWrite /\ CloseOutput /\ UNCHANGED <<argv, word, outputFile, lexerInput, traced, log>>
CompilerExits == AtEnd /\ UNCHANGED driverVars

-----------------------------------------------------------------------------
(* Which words are options: not those an option has for its argument.      *)
OptionAt(line) ==
    LET At[i \in 0 .. Len(line)] ==
            /\ i > 0 /\ line[i] \in Options
            /\ ~(At[i - 1] /\ ArgsLength(line[i - 1]) = 1)
    IN {i \in DOMAIN line : At[i]}

\* What the last of some options is given, or None.
Named(line, options) ==
    LET places == {i \in OptionAt(line) : line[i] \in options} IN
    IF places = {} THEN None
    ELSE line[(CHOOSE i \in places : \A j \in places : j <= i) + 1]

NamedInput(line) == Named(line, {"--input", "-s"})
NamedOutput(line) == Named(line, {"--output", "-o"})

(***************************************************************************)
(* A compilation that names its input and its output reads the one from    *)
(* its start and writes its module into the other, whatever the            *)
(* compilations before it left in the globals.                             *)
(***************************************************************************)
NamedFilesAreUsed ==
    \A i \in DOMAIN log :
        LET line == log[i].argv IN
        /\ NamedInput(line) # None => /\ log[i].read.file = NamedInput(line)
                                      /\ log[i].read.at \in {"start", "stream"}
        /\ NamedOutput(line) # None => log[i].wrote = NamedOutput(line)

(***************************************************************************)
(* A module cannot be written only if the compilation names no output and  *)
(* an earlier one named a file: that file's descriptor is still the        *)
(* output, closed by now or taken by the new input.                        *)
(***************************************************************************)
WritesNeedAnOutput ==
    AtEnd /\ ~CanWrite =>
        /\ NamedOutput(argv) = None
        /\ \E i \in DOMAIN log : log[i].wrote \in Targets

(***************************************************************************)
(* Between two compilations no more descriptors are open than inputs were  *)
(* named and outputs replaced by a later word of their command line: those *)
(* of the modules are closed.                                              *)
(***************************************************************************)
DescriptorsAreAccountedFor ==
    word = Idle =>
        LET Files(line, options, S) ==
                Cardinality({i \in OptionAt(line) : line[i] \in options /\ line[i + 1] \in S})
            Spared(line) == Files(line, {"--input", "-s"}, Sources)
                            + Files(line, {"--output", "-o"}, Targets)
                            - (IF NamedOutput(line) \in Targets THEN 1 ELSE 0)
            Sum[i \in 0 .. Len(log)] == IF i = 0 THEN 0 ELSE Sum[i - 1] + Spared(log[i].argv)
        IN Cardinality(DOMAIN descriptors) = 3 + Sum[Len(log)]
=============================================================================

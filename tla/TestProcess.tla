---------------------------- MODULE TestProcess ----------------------------
(***************************************************************************)
(* A process of the test build: main of the harness, test functions that   *)
(* allocate, free and run the compiler, the callbacks of the allocator     *)
(* between them, and the end of the process with its static destructors.   *)
(***************************************************************************)
EXTENDS TracingAllocator, Driver

CONSTANT MaxNews    \* bound: the calls of new of a test function

VARIABLES
    held,     \* the blocks the running test function still has to free
    kept,     \* the blocks static objects keep
    lists,    \* the list of warnings of each test: its block, or NoBlock
    given,    \* history: the test a block was allocated for, of those a test got
    freed,    \* history: the blocks that were freed in their test as they should
    blind,    \* history: the tests in which recording an allocation failed
    thrown    \* std::bad_alloc is on its way out of the running test function

programVars == <<held, kept, lists, given, freed, blind, thrown>>
vars == <<phase, harnessVars, allocVars, driverVars, programVars>>

Running(p) == phase = p /\ ProgramRuns

Init ==
    /\ InitHarness /\ InitAllocator /\ InitDriver
    /\ held = {} /\ kept = {} /\ lists = [t \in Tests |-> NoBlock]
    /\ given = <<>> /\ freed = {} /\ blind = {} /\ thrown = FALSE

-----------------------------------------------------------------------------
(* main                                                                    *)

\* Static objects allocate before main: stlInitialized is still false.
StaticInitializer ==
    /\ Running("static") /\ heap = <<>>
    /\ AllocateManaged("object")
    /\ UNCHANGED <<driverVars, programVars>>

\* What a static object allocates, it keeps.
StaticInitialized ==
    /\ phase = "static" /\ returned \in Blocks
    /\ kept' = {returned}
    /\ given' = With(given, returned, NoTest)
    /\ returned' = Nothing
    /\ UNCHANGED <<heap, recurseLock, testAllocations, calls, callbackNode>>
    /\ UNCHANGED <<phase, harnessVars, driverVars, held, lists, freed, blind, thrown>>

\* Nothing catches what is thrown outside of a test function.
BadAllocEscapes ==
    /\ phase \in {"static", "lists"} /\ calls = <<>> /\ returned = BadAlloc
    /\ Terminate
    /\ UNCHANGED <<driverVars, programVars>>

Main ==
    /\ Running("static")
    /\ stlInitialized' = TRUE
    /\ currentTest' = FirstTest
    /\ phase' = IF FirstTest = NoTest THEN "attach" ELSE "lists"
    /\ UNCHANGED <<queue, countVars, warnings, outcome, allocVars, driverVars, programVars>>

NewList ==
    /\ Running("lists")
    /\ AllocateManaged("object")
    /\ UNCHANGED <<driverVars, programVars>>

ListMade ==
    /\ phase = "lists" /\ calls = <<>> /\ returned \in Blocks
    /\ lists' = [lists EXCEPT ![currentTest] = returned]
    /\ currentTest' = Following(currentTest)
    /\ phase' = IF currentTest' = NoTest THEN "attach" ELSE "lists"
    /\ returned' = Nothing
    /\ UNCHANGED <<queue, stlInitialized, countVars, warnings, outcome>>
    /\ UNCHANGED <<heap, recurseLock, testAllocations, calls, callbackNode, driverVars>>
    /\ UNCHANGED <<held, kept, given, freed, blind, thrown>>

Callback ==
    /\ \/ phase = "attach" /\ ProgramCalls("attach", {})
       \/ phase = "start" /\ ProgramCalls("clear", {})
       \/ phase = "end" /\ ProgramCalls("report", DOMAIN testAllocations)
       \/ phase = "detach" /\ ProgramCalls("detach", {})
    /\ UNCHANGED <<driverVars, programVars>>

PrintResults ==
    /\ Running("results")
    /\ phase' = "detach"
    /\ UNCHANGED <<harnessVars, allocVars, driverVars, programVars>>

\* delete currentTest->warnings: the nodes of the list, and the list.
DeleteWarnings ==
    /\ Running("cleanup") /\ currentTest # NoTest
    /\ LET nodes == {n \in {w.node : w \in warnings[currentTest]} : heap[n] # "freed"} IN
       DeallocateManaged("object", IF nodes = {} THEN lists[currentTest] ELSE First(nodes))
    /\ UNCHANGED <<driverVars, programVars>>

WarningsDeleted ==
    /\ phase = "cleanup" /\ calls = <<>> /\ returned = Void
    /\ currentTest' = IF heap[lists[currentTest]] = "freed" THEN Following(currentTest)
                      ELSE currentTest
    /\ returned' = Nothing
    /\ UNCHANGED <<phase, queue, stlInitialized, countVars, warnings, outcome>>
    /\ UNCHANGED <<heap, recurseLock, testAllocations, calls, callbackNode>>
    /\ UNCHANGED <<driverVars, programVars>>

MainReturns ==
    /\ Running("cleanup") /\ currentTest = NoTest
    /\ phase' = "statics"
    /\ UNCHANGED <<harnessVars, allocVars, driverVars, programVars>>

-----------------------------------------------------------------------------
(* A test function                                                         *)

TestRuns == Running("body") /\ word = Idle
Does(what) == TestRuns /\ ~thrown /\ what \in queue[currentTest]

New ==
    /\ Does("heap")
    /\ Cardinality({b \in DOMAIN given : given[b] = currentTest}) < MaxNews
    /\ \E kind \in Kinds : AllocateManaged(kind)
    /\ UNCHANGED <<driverVars, programVars>>

\* The program has what new returned, or std::bad_alloc unwinds its frames.
NewReturns ==
    /\ phase = "body" /\ calls = <<>>
    /\ \/ /\ returned \in Blocks
          /\ held' = held \cup {returned}
          /\ given' = With(given, returned, currentTest)
          /\ UNCHANGED <<blind, thrown>>
       \/ /\ returned = BadAlloc
          /\ thrown' = TRUE
          /\ blind' = IF recurseLock THEN blind \cup {currentTest} ELSE blind
          /\ UNCHANGED <<held, given>>
    /\ returned' = Nothing
    /\ UNCHANGED <<heap, recurseLock, testAllocations, calls, callbackNode>>
    /\ UNCHANGED <<phase, harnessVars, driverVars, kept, lists, freed>>

\* delete, by the form of it that fits or by the other one.
Delete ==
    /\ TestRuns /\ "heap" \in queue[currentTest]
    /\ \E b \in held \cup kept, kind \in Kinds :
           /\ DeallocateManaged(kind, b)
           /\ held' = held \ {b} /\ kept' = kept \ {b}
           /\ freed' = IF kind = heap[b] /\ ~recurseLock /\ given[b] = currentTest
                     THEN freed \cup {b} ELSE freed
    /\ UNCHANGED <<driverVars, lists, given, blind, thrown>>

DeleteReturns ==
    /\ phase = "body" /\ calls = <<>> /\ returned = Void
    /\ returned' = Nothing
    /\ UNCHANGED <<heap, recurseLock, testAllocations, calls, callbackNode>>
    /\ UNCHANGED <<phase, harnessVars, driverVars, programVars>>

\* A static object uses what it keeps.
Use ==
    /\ Does("heap") /\ \E b \in kept : heap[b] = "freed"
    /\ Undefined
    /\ UNCHANGED <<driverVars, programVars>>

\* What the function still holds is lost, or stays with static objects.
\* An exception is a std::exception; any other one would end the process.
FunctionEnds(how) ==
    /\ TestRuns /\ how \in (IF thrown THEN {"exception"} ELSE {"passed"} \cup queue[currentTest])
    /\ TestEnds(how)
    /\ \E K \in SUBSET held : kept' = kept \cup K
    /\ held' = {} /\ thrown' = FALSE
    /\ UNCHANGED <<queue, stlInitialized, currentTest, warnings, allocVars, driverVars>>
    /\ UNCHANGED <<lists, given, freed, blind>>

-----------------------------------------------------------------------------
(* The compiler, called by a test                                          *)

ByCompiler == UNCHANGED <<phase, harnessVars, allocVars, held, kept, lists, given, freed, blind, thrown>>

Compile ==
    /\ Does("compiler") /\ StartCompiler
    /\ ByCompiler

CompilerSteps ==
    /\ Running("body") /\ word # Idle
    /\ SkipWord \/ ReadOption \/ CompileAndWrite
    /\ ByCompiler

\* std::exit runs the destructors of static objects, and nothing of main.
CompilerEndsProcess ==
    /\ Running("body") /\ word # Idle
    /\ OptionEndsProcess \/ WriteFails \/ CompilerExits
    /\ phase' = "statics"
    /\ UNCHANGED <<harnessVars, allocVars, programVars>>

CompilerReadsBehindArgv ==
    /\ Running("body") /\ ReadsBehindArgv
    /\ Undefined
    /\ UNCHANGED programVars

-----------------------------------------------------------------------------
(* The destructors of static objects: testAllocations is destroyed first,  *)
(* and its header keeps pointing to its nodes.  Every later delete looks   *)
(* into it, and so does the delete of each of its nodes, unless the lock   *)
(* is held.                                                                *)

MapDestructor ==
    /\ Running("statics") /\ DOMAIN testAllocations # {} /\ ~recurseLock
    /\ Undefined
    /\ UNCHANGED <<driverVars, programVars>>

StaticDestructor ==
    /\ Running("statics") /\ kept # {} /\ (DOMAIN testAllocations = {} \/ recurseLock)
    /\ \E kind \in Kinds : DeallocateManaged(kind, First(kept))
    /\ kept' = kept \ {First(kept)}
    /\ UNCHANGED <<driverVars, held, lists, given, freed, blind, thrown>>

StaticDeleted ==
    /\ phase = "statics" /\ calls = <<>> /\ returned = Void
    /\ returned' = Nothing
    /\ UNCHANGED <<heap, recurseLock, testAllocations, calls, callbackNode>>
    /\ UNCHANGED <<phase, harnessVars, driverVars, programVars>>

ProcessExits ==
    /\ Running("statics") /\ kept = {} /\ (DOMAIN testAllocations = {} \/ recurseLock)
    /\ phase' = "over"
    /\ UNCHANGED <<harnessVars, allocVars, driverVars, programVars>>

-----------------------------------------------------------------------------
Operators == Allocator /\ UNCHANGED <<driverVars, programVars>>

InMain ==
    \/ StaticInitializer \/ StaticInitialized \/ BadAllocEscapes \/ Main
    \/ NewList \/ ListMade \/ Callback \/ PrintResults
    \/ DeleteWarnings \/ WarningsDeleted \/ MainReturns
    \/ MapDestructor \/ StaticDestructor \/ StaticDeleted \/ ProcessExits

InTest ==
    \/ New \/ NewReturns \/ Delete \/ DeleteReturns \/ Use
    \/ \E how \in {"passed", "failed", "exception"} : FunctionEnds(how)
    \/ Compile \/ CompilerSteps \/ CompilerEndsProcess \/ CompilerReadsBehindArgv

Next == Operators \/ InMain \/ InTest

(***************************************************************************)
(* One thread runs all of it, and the functions under test return.         *)
(***************************************************************************)
Spec == Init /\ [][Next]_vars /\ WF_vars(Next)

-----------------------------------------------------------------------------
(* Properties                                                              *)

(***************************************************************************)
(* Every variable has its type.                                            *)
(***************************************************************************)
TypeOK ==
    /\ queue \in Queues /\ phase \in Phases /\ stlInitialized \in BOOLEAN
    /\ currentTest \in Tests \cup {NoTest}
    /\ results \in [Tests -> {0, 1}]
    /\ heap \in Seq(Kinds \cup {"freed"})
    /\ recurseLock \in BOOLEAN
    /\ DOMAIN testAllocations \subseteq DOMAIN heap
    /\ \A b \in DOMAIN testAllocations : testAllocations[b] \in DOMAIN heap
    /\ \A i \in DOMAIN calls : calls[i].block \in DOMAIN heap \cup {NoBlock}
    /\ returned \in DOMAIN heap \cup {Void, BadAlloc, Nothing}
    /\ callbackNode \in DOMAIN heap \cup {NoBlock}
    /\ held \cup kept \cup freed \subseteq DOMAIN given
    /\ DOMAIN given \subseteq DOMAIN heap
    /\ lists \in [Tests -> DOMAIN heap \cup {NoBlock}]
    /\ blind \subseteq Tests
    /\ outputFile \in 0 .. MaxDescriptors - 1
    /\ DOMAIN descriptors \subseteq 0 .. MaxDescriptors - 1

(***************************************************************************)
(* While a test function runs, the map holds what the test allocated and   *)
(* did not free: nothing of main, of an earlier test or of the map itself, *)
(* unless recording an allocation failed in this test.                     *)
(***************************************************************************)
MapIsWhatIsLive ==
    Running("body") /\ currentTest \notin blind =>
        DOMAIN testAllocations = {b \in DOMAIN given : given[b] = currentTest /\ heap[b] # "freed"}

(***************************************************************************)
(* What a test allocates and does not free is reported to that test, once, *)
(* and freed.                                                              *)
(***************************************************************************)
LeaksAreReported ==
    \A t \in Tests \ blind :
        outcome[t] # "none" /\ ~(currentTest = t /\ phase \in {"end", "terminated", "undefined"}) =>
            LET leaks == {w \in warnings[t] : w.kind = "leak"} IN
            /\ {w.block : w \in leaks} = {b \in DOMAIN given : given[b] = t} \ freed
            /\ \A w \in leaks : heap[w.block] = "freed"
            /\ \A v, w \in leaks : v.block = w.block => v = w

(***************************************************************************)
(* The lists of warnings and the list of callbacks are never freed by the  *)
(* allocator's callbacks, although main allocates them through the same    *)
(* operators as the tests allocate theirs.                                 *)
(***************************************************************************)
HarnessMemorySurvives ==
    phase \notin {"cleanup", "statics"} \cup Ended =>
        LET harness == {lists[t] : t \in Tests} \cup {callbackNode}
                       \cup UNION {{w.node : w \in warnings[t]} : t \in Tests}
        IN \A b \in harness \ {NoBlock} : heap[b] # "freed"

(***************************************************************************)
(* The lock is held only inside the allocator, except in a test in which   *)
(* recording an allocation failed: the next test begins with a free lock.  *)
(***************************************************************************)
FailureBlindsOneTest ==
    ProgramRuns /\ recurseLock /\ phase \notin Ended =>
        phase \in {"body", "end", "statics"} /\ currentTest \in blind

(***************************************************************************)
(* A process whose tests free all they allocate, and whose command lines   *)
(* give every option its argument, never has undefined behaviour, whatever *)
(* new cannot give it and whatever is deleted by the wrong form.           *)
(***************************************************************************)
UndefinedNeedsALeak ==
    phase = "undefined" =>
        \/ \E b \in DOMAIN given \ freed : given[b] # NoTest
        \/ word = Len(argv) /\ word \in OptionAt(argv)

(***************************************************************************)
(* The process comes to its end.                                           *)
(***************************************************************************)
ProcessEnds == <>(phase \in Ended)
=============================================================================

---------------------------- MODULE HarnessProofs ----------------------------
(***************************************************************************)
(* Theorems of the test harness, for any queue of tests and any command    *)
(* lines: the counters, the leaks that are reported, and the memory of the *)
(* harness itself.                                                         *)
(***************************************************************************)
EXTENDS TestProcessProofs, FiniteSetTheorems

Outcomes == {"none", "passed", "failed", "exception"}

\* Where main is in the queue, and the tests that have ended by then.
Marching ==
    /\ queue \in Queues /\ phase \in Phases
    /\ outcome \in [Tests -> Outcomes]
    /\ currentTest \in Tests \cup {NoTest}
    /\ phase \in {"static", "lists", "attach"} => \A t \in Tests : outcome[t] = "none"
    /\ phase \in {"lists", "start", "body", "end"} => currentTest \in Tests
    /\ phase \in {"start", "body"} => \A t \in Tests : outcome[t] # "none" <=> t < currentTest
    /\ phase = "end" => \A t \in Tests : outcome[t] # "none" <=> t <= currentTest
    /\ phase \in {"results", "detach", "cleanup"} => \A t \in Tests : outcome[t] # "none"

Ways(W) == {t \in Tests : outcome[t] \in W}

Counting ==
    /\ totalCount = Cardinality(Ways({"passed", "failed", "exception"}))
    /\ passedCount = Cardinality(Ways({"passed"}))
    /\ failedCount = Cardinality(Ways({"failed", "exception"}))
    /\ results \in [Tests -> {0, 1}]
    /\ \A t \in Tests : results[t] = 1 <=> outcome[t] = "failed"

-----------------------------------------------------------------------------
\* The blocks of the containers of the allocator and the harness.
MapNodes == {testAllocations[b] : b \in DOMAIN testAllocations}
NewNode == IF calls # <<>> /\ returned \in Blocks THEN {returned} ELSE {}
WarningNodes == UNION {{w.node : w \in warnings[t]} : t \in Tests}
Nodes == MapNodes \cup NewNode \cup WarningNodes \cup ({callbackNode} \ {NoBlock})

\* The blocks main and the tests ask for.
Coming == IF calls = <<>> /\ returned \in Blocks THEN {returned} ELSE {}
OnItsWay == (IF In("record") THEN {Top.block} ELSE {})
            \cup Coming
Lists == {lists[t] : t \in Tests} \ {NoBlock}
Asked == DOMAIN given \cup OnItsWay \cup Lists \cup DOMAIN testAllocations

\* No block has two owners.
Apart ==
    /\ Nodes \subseteq Blocks /\ Asked \subseteq Blocks
    /\ Nodes \cap Asked = {}
    /\ MapNodes \cap WarningNodes = {} /\ NewNode \cap (MapNodes \cup WarningNodes) = {}
    /\ Lists \cap (DOMAIN given \cup OnItsWay) = {}
    /\ OnItsWay \cap DOMAIN given = {}
    /\ \A s, t \in Tests : lists[s] = lists[t] /\ lists[s] # NoBlock => s = t

\* Which lists main has made, and the warnings in them.
ListsMade ==
    /\ lists \in [Tests -> Blocks \cup {NoBlock}]
    /\ warnings = [t \in Tests |-> warnings[t]]
    /\ phase = "static" => Lists = {}
    /\ phase = "lists" => \A t \in Tests : lists[t] # NoBlock <=> t < currentTest
    /\ phase \notin {"static", "lists"} \cup Ended => \A t \in Tests : lists[t] # NoBlock
    /\ \A b \in Lists \cup WarningNodes : IsNode(b)
    /\ phase = "lists" => \A b \in OnItsWay : IsNode(b)

HeldIsGiven ==
    /\ held \cup kept \cup freed \subseteq DOMAIN given
    /\ (held \cup kept) \cap freed = {}
    /\ \A b \in held : given[b] # NoTest

\* What is recorded in the map, and by which operations it changes.
Early == {"static", "lists", "attach", "start"}
OfTests(B) == {b \in B : given[b] # NoTest}
Recorded ==
    /\ phase = "static" => ~stlInitialized
    /\ In("record") => phase \in {"lists", "body"}
    /\ In("erase") => phase = "body" /\ Top.block \in DOMAIN given
    /\ In("warn") => phase \in {"body", "statics"}
    /\ phase = "static" \/ (phase = "attach" /\ queue = <<>>) => DOMAIN testAllocations = {}
    /\ DOMAIN testAllocations \cap {b \in DOMAIN given : given[b] = NoTest} = {}
    /\ phase = "body" =>
           DOMAIN testAllocations \subseteq (OfTests(DOMAIN given) \ freed) \cup Coming
                                            \cup (IF In("erase") THEN {Top.block} ELSE {})
    /\ phase \notin Early \cup {"body"} \cup Ended =>
           DOMAIN testAllocations \subseteq OfTests(DOMAIN given) \ freed
    /\ In("report") => Top.left \subseteq DOMAIN testAllocations

Unfreed(B) == \A b \in B : heap[b] # "freed"

\* What has not been freed.
Living ==
    /\ phase \notin {"cleanup", "statics"} \cup Ended =>
           Unfreed(Lists) /\ Unfreed(WarningNodes) /\ Unfreed({callbackNode} \ {NoBlock})
    /\ phase \notin Ended => Unfreed(MapNodes) /\ Unfreed(NewNode) /\ Unfreed(OnItsWay)
    /\ phase \notin Ended => Unfreed({b \in kept : given[b] = NoTest})
    /\ phase = "body" \/ (phase = "end" /\ calls = <<>>) => Unfreed(DOMAIN testAllocations)
    /\ In("report") => Unfreed(Top.left)
    /\ phase = "cleanup" /\ returned # Nothing => currentTest # NoTest
    /\ phase = "cleanup" /\ currentTest # NoTest =>
           /\ \A t \in Tests : t > currentTest => heap[lists[t]] # "freed"
           /\ calls = <<>> /\ returned = Nothing => heap[lists[currentTest]] # "freed"

MemoryInv == Apart /\ ListsMade /\ HeldIsGiven /\ Recorded /\ Living

-----------------------------------------------------------------------------
Leaks(t) == {w \in warnings[t] : w.kind = "leak"}
LeakBlocks(t) == {w.block : w \in Leaks(t)}
GivenTo(t) == {b \in DOMAIN given : given[b] = t}

\* The reported leaks of a test are blocks of different addresses, and freed.
LeaksAreFreed(t) ==
    /\ \A w \in Leaks(t) : heap[w.block] = "freed"
    /\ \A v, w \in Leaks(t) : v.block = w.block => v = w

Leaking ==
    \A t \in Tests :
        /\ LeakBlocks(t) \subseteq Blocks /\ LeaksAreFreed(t)
        /\ outcome[t] = "none" => Leaks(t) = {}
        /\ t \notin blind =>
            /\ outcome[t] # "none" /\ ~(currentTest = t /\ phase \in {"end", "terminated", "undefined"}) =>
                   LeakBlocks(t) = GivenTo(t) \ freed
            /\ phase = "end" /\ currentTest = t /\ calls = <<>> =>
                   Leaks(t) = {} /\ DOMAIN testAllocations = GivenTo(t) \ freed
            /\ phase = "end" /\ currentTest = t /\ In("report") =>
                   /\ LeakBlocks(t) \cup Top.left = GivenTo(t) \ freed
                   /\ LeakBlocks(t) \cap Top.left = {}
            /\ phase = "body" /\ currentTest = t =>
                   \A b \in GivenTo(t) :
                       b \in freed <=> heap[b] = "freed" \/ (In("erase") /\ b = Top.block)

-----------------------------------------------------------------------------
(* Where main is, and the counters.                                        *)

\* main and the tests stay where they are, unless the process ends.
Stays ==
    /\ UNCHANGED <<queue, currentTest, outcome, countVars>>
    /\ phase' = phase \/ phase' \in Ended

\* main goes on, and no test ends.
GoesOn ==
    /\ UNCHANGED <<queue, outcome, countVars>>
    /\ \/ /\ phase = "static" /\ currentTest' = FirstTest
          /\ phase' = IF FirstTest = NoTest THEN "attach" ELSE "lists"
       \/ /\ phase = "lists" /\ currentTest' = Following(currentTest)
          /\ phase' = IF currentTest' = NoTest THEN "attach" ELSE "lists"
       \/ /\ phase = "attach" /\ currentTest' = FirstTest
          /\ phase' = IF FirstTest = NoTest THEN "results" ELSE "start"
       \/ phase = "start" /\ phase' = "body" /\ currentTest' = currentTest
       \/ phase = "end" /\ NextTest
       \/ phase = "results" /\ phase' = "detach" /\ currentTest' = currentTest
       \/ phase = "detach" /\ phase' = "cleanup" /\ currentTest' = FirstTest
       \/ phase = "cleanup" /\ phase' = "cleanup" /\ currentTest' \in {currentTest, Following(currentTest)}
       \/ phase \in {"cleanup", "body"} /\ phase' = "statics" /\ currentTest' = currentTest
       \/ phase = "statics" /\ phase' = "over" /\ currentTest' = currentTest

(***************************************************************************)
(* Nothing that ends the process moves main.                               *)
(***************************************************************************)
LEMMA StopStays ==
    ASSUME Undefined \/ Terminate
    PROVE  Stays
BY DEF Undefined, Terminate, Stop, Stays, Ended, harnessVars, countVars

(***************************************************************************)
(* operator new and operator delete leave main where it is.                *)
(***************************************************************************)
LEMMA OperatorsStay ==
    ASSUME NEW kind, NEW b, AllocateManaged(kind) \/ DeallocateManaged(kind, b)
    PROVE  Stays
<1>1. CASE AllocateManaged(kind)
  BY <1>1 DEF AllocateManaged, Stays, harnessVars, countVars
<1>2. CASE DeallocateManaged(kind, b)
  <2>1. \/ Undefined
        \/ UNCHANGED <<phase, harnessVars>>
    BY <1>2 DEF DeallocateManaged
  <2> QED BY <2>1, StopStays DEF Stays, harnessVars, countVars
<1> QED BY <1>1, <1>2

(***************************************************************************)
(* What every step does to the place of main and to the counters.          *)
(***************************************************************************)
LEMMA WhatMainDoes ==
    ASSUME LockInv, [Next]_vars
    PROVE  \/ Stays
           \/ GoesOn
           \/ /\ phase = "body"
              /\ \E how \in {"passed", "failed", "exception"} : TestEnds(how)
              /\ UNCHANGED <<queue, currentTest>>
<1>0. /\ In("clear") => phase = "start"
      /\ In("report") => phase = "end"
      /\ In("attach") => phase = "attach"
      /\ In("detach") => phase = "detach"
      /\ \A p : Running(p) => phase = p
  BY DEF LockInv, CallsFit, Running
<1>1. CASE UNCHANGED vars
  BY <1>1 DEF vars, Stays, harnessVars, countVars
<1>2. CASE AskForNode \/ GiveNodeBack
  BY <1>2, OperatorsStay DEF AskForNode, GiveNodeBack
<1>3. CASE Record \/ RecordFails \/ Erase \/ Warn
  BY <1>3 DEF Record, RecordFails, Erase, Warn, Stays, harnessVars, countVars
<1>4. CASE NodeMissing \/ BadAllocEscapes \/ MapDestructor \/ Use \/ CompilerReadsBehindArgv
  BY <1>4, StopStays DEF NodeMissing, BadAllocEscapes, MapDestructor, Use, CompilerReadsBehindArgv
<1>5. CASE Clear
  <2>1. UNCHANGED <<queue, outcome, countVars, currentTest>> /\ phase = "start" /\ phase' \in {"start", "body"}
    BY <1>0, <1>5 DEF Clear, harnessVars, countVars
  <2> QED BY <2>1 DEF Stays, GoesOn
<1>6. CASE Report
  <2>1. Undefined \/ UNCHANGED <<queue, currentTest, outcome, countVars, phase>>
    BY <1>6 DEF Report
  <2> QED BY <2>1, StopStays DEF Stays
<1>7. CASE ReportDone \/ Attach \/ Detach
  BY <1>0, <1>7 DEF ReportDone, Attach, Detach, GoesOn, countVars
<1>8. CASE StaticInitializer \/ NewList \/ New
  <2>1. \E kind : AllocateManaged(kind)
    BY <1>8 DEF StaticInitializer, NewList, New
  <2> QED BY <2>1, OperatorsStay
<1>9. CASE DeleteWarnings \/ StaticDestructor \/ Delete
  <2>1. \E kind, b : DeallocateManaged(kind, b)
    BY <1>9 DEF DeleteWarnings, StaticDestructor, Delete
  <2> QED BY <2>1, OperatorsStay
<1>10. CASE \/ StaticInitialized \/ Callback \/ StaticDeleted \/ NewReturns \/ DeleteReturns
            \/ Compile \/ CompilerSteps
  BY <1>10 DEF StaticInitialized, Callback, ProgramCalls, StaticDeleted, NewReturns, DeleteReturns,
               Compile, CompilerSteps, ByCompiler, Stays, harnessVars, countVars
<1>11. CASE Main \/ ListMade
  BY <1>0, <1>11 DEF Main, ListMade, GoesOn, countVars
<1>12. CASE PrintResults \/ MainReturns \/ ProcessExits \/ CompilerEndsProcess
  BY <1>0, <1>12 DEF PrintResults, MainReturns, ProcessExits, CompilerEndsProcess, GoesOn, harnessVars, countVars
<1>13. CASE WarningsDeleted
  BY <1>13 DEF WarningsDeleted, GoesOn, countVars
<1>14. CASE \E how \in {"passed", "failed", "exception"} : FunctionEnds(how)
  <2>1. PICK how \in {"passed", "failed", "exception"} : FunctionEnds(how)
    BY <1>14
  <2>2. phase = "body" /\ TestEnds(how) /\ UNCHANGED <<queue, currentTest>>
    BY <1>0, <2>1 DEF FunctionEnds, TestRuns
  <2> QED BY <2>2
<1> QED
  BY <1>1, <1>2, <1>3, <1>4, <1>5, <1>6, <1>7, <1>8, <1>9, <1>10, <1>11, <1>12, <1>13, <1>14
  DEF Next, Operators, Allocator, InMain, InTest

(***************************************************************************)
(* The places of a queue.                                                  *)
(***************************************************************************)
LEMMA PlacesOfTests ==
    ASSUME queue \in Queues
    PROVE  /\ Len(queue) \in Nat /\ Tests = 1 .. Len(queue) /\ NoTest \notin Tests
           /\ FirstTest \in Tests \cup {NoTest}
           /\ \A t \in Tests \cup {NoTest} : Following(t) \in Tests \cup {NoTest}
           /\ FirstTest = NoTest => Tests = {}
           /\ FirstTest # NoTest => FirstTest = 1
           /\ \A t \in Tests : Following(t) = NoTest => t = Len(queue)
           /\ \A t \in Tests : Following(t) # NoTest => Following(t) = t + 1
<1>1. queue \in Seq(SUBSET {"heap", "compiler", "failed", "exception"})
  BY QueuesAssumption
<1>2. Len(queue) \in Nat /\ Tests = 1 .. Len(queue)
  BY <1>1 DEF Tests
<1>3. FirstTest = NoTest => Tests = {}
  <2>1. queue = <<>> => DOMAIN queue = {}
    OBVIOUS
  <2> QED BY <2>1 DEF FirstTest, NoTest, Tests
<1>4. FirstTest # NoTest => Len(queue) # 0
  BY <1>1, EmptySeq DEF FirstTest
<1> QED BY <1>2, <1>3, <1>4 DEF FirstTest, Following, NoTest

(***************************************************************************)
(* main goes through the queue in order, and a test has ended before the   *)
(* next one begins.                                                        *)
(***************************************************************************)
LEMMA NextKeepsMarching ==
    ASSUME LockInv, Marching, [Next]_vars
    PROVE  Marching'
<1>0. /\ Len(queue) \in Nat /\ Tests = 1 .. Len(queue) /\ NoTest \notin Tests
      /\ FirstTest \in Tests \cup {NoTest}
      /\ \A t \in Tests \cup {NoTest} : Following(t) \in Tests \cup {NoTest}
      /\ FirstTest = NoTest => Tests = {}
      /\ FirstTest # NoTest => FirstTest = 1
      /\ \A t \in Tests : Following(t) = NoTest => t = Len(queue)
      /\ \A t \in Tests : Following(t) # NoTest => Following(t) = t + 1
  BY PlacesOfTests DEF Marching
<1>1. CASE Stays
  BY <1>1 DEF Stays, Marching, Ended, Phases, Tests
<1>2. CASE GoesOn
  <2>1. queue' = queue /\ outcome' = outcome /\ Tests' = Tests
    BY <1>2 DEF GoesOn, Tests
  <2>2. phase' \in Phases /\ currentTest' \in Tests \cup {NoTest}
    BY <1>0, <1>2 DEF GoesOn, NextTest, Marching, Phases, Ended
  <2>3. phase' \in {"static", "lists", "attach"} => \A t \in Tests : outcome[t] = "none"
    BY <1>2 DEF GoesOn, NextTest, Marching
  <2>4. phase' \in {"lists", "start", "body", "end"} => currentTest' \in Tests
    BY <1>0, <1>2, <2>2 DEF GoesOn, NextTest, Marching
  <2>5. phase' \in {"start", "body"} => \A t \in Tests : outcome[t] # "none" <=> t < currentTest'
    <3>1. CASE phase = "attach" /\ phase' = "start"
      BY <1>0, <1>2, <3>1 DEF GoesOn, NextTest, Marching
    <3>2. CASE phase = "start"
      BY <1>2, <3>2 DEF GoesOn, NextTest, Marching
    <3>3. CASE phase = "end" /\ phase' = "start"
      <4>1. currentTest \in Tests /\ currentTest' = currentTest + 1
        BY <1>0, <1>2, <3>3 DEF GoesOn, NextTest, Marching
      <4>2. \A t \in Tests : outcome[t] # "none" <=> t <= currentTest
        BY <3>3 DEF Marching
      <4>3. \A t \in Tests : t <= currentTest <=> t < currentTest'
        BY <1>0, <4>1
      <4> QED BY <4>2, <4>3
    <3> QED BY <1>2, <3>1, <3>2, <3>3 DEF GoesOn, NextTest
  <2>6. phase' \in {"results", "detach", "cleanup"} => \A t \in Tests : outcome[t] # "none"
    <3>1. CASE phase = "end" /\ phase' = "results"
      <4>1. currentTest \in Tests /\ currentTest = Len(queue)
        BY <1>0, <1>2, <3>1 DEF GoesOn, NextTest, Marching
      <4>2. \A t \in Tests : outcome[t] # "none" <=> t <= currentTest
        BY <3>1 DEF Marching
      <4> QED BY <1>0, <4>1, <4>2
    <3>2. CASE phase = "attach" /\ phase' = "results"
      BY <1>0, <1>2, <3>2 DEF GoesOn, NextTest, Marching
    <3> QED BY <1>2, <3>1, <3>2 DEF GoesOn, NextTest, Marching
  <2>7. phase' # "end"
    BY <1>2 DEF GoesOn, NextTest
  <2> QED BY <2>1, <2>2, <2>3, <2>4, <2>5, <2>6, <2>7 DEF Marching
<1>3. CASE /\ phase = "body" /\ UNCHANGED <<queue, currentTest>>
           /\ \E how \in {"passed", "failed", "exception"} : TestEnds(how)
  <2>1. PICK how \in {"passed", "failed", "exception"} : TestEnds(how)
    BY <1>3
  <2>2. /\ currentTest \in Tests /\ phase' = "end" /\ how \in Outcomes /\ how # "none"
        /\ outcome' = [outcome EXCEPT ![currentTest] = how] /\ Tests' = Tests
    BY <1>3, <2>1 DEF TestEnds, Marching, Tests, Outcomes
  <2>3. outcome' \in [Tests -> Outcomes]
    BY <2>2 DEF Marching
  <2>4. \A t \in Tests : outcome'[t] = IF t = currentTest THEN how ELSE outcome[t]
    BY <2>2 DEF Marching
  <2>5. \A t \in Tests : outcome'[t] # "none" <=> t <= currentTest
    <3>1. \A t \in Tests : outcome[t] # "none" <=> t < currentTest
      BY <1>3 DEF Marching
    <3>2. \A t \in Tests : t <= currentTest <=> t < currentTest \/ t = currentTest
      BY <1>0, <2>2
    <3> QED BY <2>2, <2>4, <3>1, <3>2
  <2> QED BY <1>3, <2>2, <2>3, <2>5 DEF Marching, Phases
<1> QED BY <1>1, <1>2, <1>3, WhatMainDoes

(***************************************************************************)
(* A test that ends in one of some ways is one test more of those.         *)
(***************************************************************************)
LEMMA OneMore ==
    ASSUME Marching, currentTest \in Tests, outcome[currentTest] = "none",
           NEW how \in Outcomes, outcome' = [outcome EXCEPT ![currentTest] = how],
           queue' = queue, NEW W \in SUBSET (Outcomes \ {"none"})
    PROVE  /\ Cardinality(Ways(W)) \in Nat
           /\ how \in W => Cardinality(Ways(W)') = Cardinality(Ways(W)) + 1
           /\ how \notin W => Ways(W)' = Ways(W)
<1>1. IsFiniteSet(Tests)
  <2>1. Len(queue) \in Int /\ Tests = 1 .. Len(queue)
    <3>1. queue \in Queues
      BY DEF Marching
    <3>2. Len(queue) \in Nat /\ Tests = 1 .. Len(queue)
      BY <3>1, PlacesOfTests
    <3> QED BY <3>2
  <2>2. IsFiniteSet(1 .. Len(queue))
    BY <2>1, FS_Interval
  <2> QED BY <2>1, <2>2
<1>2. IsFiniteSet(Ways(W)) /\ Cardinality(Ways(W)) \in Nat
  <2>1. Ways(W) \subseteq Tests
    BY DEF Ways
  <2> QED BY <1>1, <2>1, FS_Subset, FS_CardinalityType
<1>3. \A t \in Tests : outcome'[t] = IF t = currentTest THEN how ELSE outcome[t]
  BY DEF Marching
<1>4. currentTest \notin Ways(W)
  BY DEF Ways
<1>5. how \in W => Ways(W)' = Ways(W) \cup {currentTest}
  BY <1>3 DEF Ways, Tests
<1>6. how \notin W => Ways(W)' = Ways(W)
  BY <1>3, <1>4 DEF Ways, Tests
<1> QED BY <1>2, <1>4, <1>5, <1>6, FS_AddElement

(***************************************************************************)
(* Every step keeps the counters in agreement with the tests.              *)
(***************************************************************************)
LEMMA NextKeepsCounting ==
    ASSUME LockInv, Marching, Counting, [Next]_vars
    PROVE  Counting'
<1>1. CASE UNCHANGED <<queue, outcome, countVars>>
  BY <1>1 DEF Counting, Ways, Tests, countVars
<1>2. CASE /\ phase = "body" /\ UNCHANGED <<queue, currentTest>>
           /\ \E how \in {"passed", "failed", "exception"} : TestEnds(how)
  <2>1. PICK how \in {"passed", "failed", "exception"} : TestEnds(how)
    BY <1>2
  <2>2. /\ currentTest \in Tests /\ outcome[currentTest] = "none" /\ how \in Outcomes
        /\ outcome' = [outcome EXCEPT ![currentTest] = how] /\ Count(how)
        /\ Tests' = Tests
    <3>1. currentTest \in Tests /\ currentTest \in Nat
      BY <1>2, PlacesOfTests DEF Marching
    <3> QED BY <1>2, <2>1, <3>1 DEF TestEnds, Marching, Tests, Outcomes
  <2>3. \A t \in Tests : outcome'[t] = IF t = currentTest THEN how ELSE outcome[t]
    BY <2>2 DEF Marching
  <2> DEFINE All == {"passed", "failed", "exception"}
             Bad == {"failed", "exception"}
             Good == {"passed"}
  <2>4. \A W \in {All, Bad, Good} :
            /\ Cardinality(Ways(W)) \in Nat
            /\ how \in W => Cardinality(Ways(W)') = Cardinality(Ways(W)) + 1
            /\ how \notin W => Ways(W)' = Ways(W)
    <3>1. \A W \in {All, Bad, Good} : W \in SUBSET (Outcomes \ {"none"})
      BY DEF Outcomes
    <3> QED BY <1>2, <2>2, <3>1, OneMore
  <2>5. totalCount' = Cardinality(Ways(All)')
    BY <2>1, <2>2, <2>4 DEF Counting, Count, Pass, Fail, OtherException
  <2>6. passedCount' = Cardinality(Ways(Good)')
    BY <2>1, <2>2, <2>4 DEF Counting, Count, Pass, Fail, OtherException
  <2>7. failedCount' = Cardinality(Ways(Bad)')
    BY <2>1, <2>2, <2>4 DEF Counting, Count, Pass, Fail, OtherException
  <2>8. results' \in [Tests -> {0, 1}] /\ \A t \in Tests : results'[t] = 1 <=> outcome'[t] = "failed"
    <3>1. CASE how = "passed"
      <4>1. results' = [results EXCEPT ![currentTest] = 0]
        BY <2>2, <3>1 DEF Count, Pass
      <4> QED BY <2>2, <2>3, <3>1, <4>1 DEF Counting
    <3>2. CASE how = "failed"
      <4>1. results' = [results EXCEPT ![currentTest] = 1]
        BY <2>2, <3>2 DEF Count, Fail
      <4> QED BY <2>2, <2>3, <3>2, <4>1 DEF Counting
    <3>3. CASE how = "exception"
      <4>1. results' = results
        BY <2>2, <3>3 DEF Count, OtherException
      <4> QED BY <2>2, <2>3, <3>3, <4>1 DEF Counting
    <3> QED BY <2>1, <3>1, <3>2, <3>3
  <2> QED BY <2>2, <2>5, <2>6, <2>7, <2>8 DEF Counting
<1> QED BY <1>1, <1>2, WhatMainDoes DEF Stays, GoesOn

(***************************************************************************)
(* At the start no test has ended.                                         *)
(***************************************************************************)
LEMMA InitCounting ==
    ASSUME Init
    PROVE  Marching /\ Counting
<1>1. /\ queue \in Queues /\ phase = "static" /\ currentTest = NoTest
      /\ totalCount = 0 /\ passedCount = 0 /\ failedCount = 0
      /\ results = [t \in Tests |-> 0] /\ outcome = [t \in Tests |-> "none"]
  BY DEF Init, InitHarness
<1>2. Marching
  BY <1>1 DEF Marching, Phases, Outcomes
<1>3. \A W : "none" \notin W => Ways(W) = {}
  BY <1>1 DEF Ways
<1>4. Ways({"passed", "failed", "exception"}) = {} /\ Ways({"passed"}) = {}
      /\ Ways({"failed", "exception"}) = {}
  BY <1>3
<1>5. Counting
  BY <1>1, <1>4, FS_EmptySet DEF Counting
<1> QED BY <1>2, <1>5

(***************************************************************************)
(* The place of main and the counters, with the lock and the map.          *)
(***************************************************************************)
LEMMA CountingIsInvariant == Spec => [](LockInv /\ MapInv /\ Marching /\ Counting)
<1>1. Init => Marching /\ Counting
  BY InitCounting
<1>2. LockInv /\ (Marching /\ Counting) /\ [Next]_vars => (Marching /\ Counting)'
  BY NextKeepsMarching, NextKeepsCounting
<1> QED BY <1>1, <1>2, MapIsInvariant, PTL DEF Spec

(***************************************************************************)
(* However the functions of the tests end, the counters and the results    *)
(* agree with them, and the results are printed when every test has ended  *)
(* (Testing.cpp:87-143).                                                   *)
(***************************************************************************)
THEOREM CountersAreRight == Spec => []CountersAgree
<1>1. Marching /\ Counting => CountersAgree
  BY DEF Marching, Counting, Ways, CountersAgree
<1> QED BY <1>1, CountingIsInvariant, PTL

-----------------------------------------------------------------------------
(* The memory of the harness.                                              *)

(***************************************************************************)
(* The owners of blocks are where the containers and the program keep them.*)
(***************************************************************************)
LEMMA SameOwners ==
    ASSUME UNCHANGED <<heap, testAllocations, callbackNode, warnings, lists, given, queue>>
    PROVE  /\ Blocks' = Blocks /\ MapNodes' = MapNodes /\ WarningNodes' = WarningNodes
           /\ Lists' = Lists /\ Tests' = Tests
BY DEF Blocks, MapNodes, WarningNodes, Lists, Tests

(***************************************************************************)
(* The frame of an operation that begins, called by the program.           *)
(***************************************************************************)
LEMMA FrameBegun ==
    ASSUME NEW op, NEW block, NEW left, calls = <<>>, Begin(op, block, left)
    PROVE  /\ calls' # <<>> /\ Top'.op = op /\ Top'.block = block /\ Top'.left = left
           /\ \A o : In(o)' <=> o = op
<1>1. calls' = <<Frame(op, block, left)>>
  BY DEF Begin
<1>2. Top' = Frame(op, block, left) /\ calls' # <<>>
  BY <1>1 DEF Top
<1>3. Top'.op = op /\ Top'.block = block /\ Top'.left = left
  BY <1>2 DEF Frame
<1> QED BY <1>2, <1>3 DEF In

(***************************************************************************)
(* An operation that ends was the only one.                                *)
(***************************************************************************)
LEMMA LastFrame ==
    ASSUME LockInv, calls # <<>>, calls' = Tail(calls)
    PROVE  calls' = <<>> /\ \A o : ~In(o)'
<1>1. PICK f : calls = <<f>>
  BY DEF LockInv, OneCall
<1>2. calls' = <<>>
  BY <1>1
<1> QED BY <1>2 DEF In

(***************************************************************************)
(* When nothing is under way and nothing has been returned, no block is on *)
(* its way and no node.                                                    *)
(***************************************************************************)
LEMMA NothingComes ==
    ASSUME LockInv
    PROVE  /\ Nothing \notin Blocks /\ Void \notin Blocks /\ BadAlloc \notin Blocks /\ NoBlock \notin Blocks
           /\ Blocks \subseteq Nat
           /\ Void # Nothing /\ BadAlloc # Nothing /\ Void # BadAlloc
           /\ calls = <<>> => NewNode = {} /\ OnItsWay = Coming /\ \A o : ~In(o)
           /\ calls # <<>> => Coming = {}
           /\ returned \notin Blocks => NewNode = {} /\ Coming = {}
BY DEF LockInv, NodesAreObjects, Nothing, Void, BadAlloc, NoBlock, Blocks, NewNode, OnItsWay, Coming, In

(***************************************************************************)
(* Fewer owners are still apart.                                           *)
(***************************************************************************)
LEMMA FewerOwners ==
    ASSUME Apart, Blocks' = Blocks, MapNodes' \subseteq MapNodes, NewNode' \subseteq NewNode,
           WarningNodes' \subseteq WarningNodes, callbackNode' = callbackNode,
           OnItsWay' \subseteq OnItsWay, UNCHANGED <<lists, queue>>,
           DOMAIN given' = DOMAIN given, DOMAIN testAllocations' \subseteq DOMAIN testAllocations
    PROVE  Apart'
<1>1. Lists' = Lists /\ Tests' = Tests
  BY DEF Lists, Tests
<1>2. Nodes' \subseteq Nodes
  BY DEF Nodes
<1>3. Asked' \subseteq Asked
  BY <1>1 DEF Asked
<1> QED BY <1>1, <1>2, <1>3 DEF Apart

(***************************************************************************)
(* A warning is one more in the list of the current test.                  *)
(***************************************************************************)
LEMMA WarningReported ==
    ASSUME warnings = [t \in Tests |-> warnings[t]], queue' = queue,
           NEW kind, NEW block, NEW node, ReportWarning(kind, block, node)
    PROVE  /\ warnings' = [t \in Tests' |-> warnings'[t]]
           /\ \A t \in Tests :
                  warnings'[t] = IF t = currentTest
                                 THEN warnings[t] \cup {[kind |-> kind, block |-> block, node |-> node]}
                                 ELSE warnings[t]
           /\ WarningNodes' \subseteq WarningNodes \cup {node}
<1> DEFINE new == [kind |-> kind, block |-> block, node |-> node]
<1>1. Tests' = Tests /\ new.node = node
  BY DEF Tests
<1>2. warnings' = [warnings EXCEPT ![currentTest] = @ \cup {new}]
  BY DEF ReportWarning
<1> HIDE DEF new
<1>3. /\ warnings' = [t \in Tests |-> warnings'[t]]
      /\ \A t \in Tests : warnings'[t] = IF t = currentTest THEN warnings[t] \cup {new} ELSE warnings[t]
  BY <1>2
<1>4. WarningNodes' \subseteq WarningNodes \cup {node}
  BY <1>1, <1>3 DEF WarningNodes
<1> QED BY <1>1, <1>3, <1>4 DEF new

(***************************************************************************)
(* Nothing is said of the memory of a process that has stopped, but who    *)
(* owns it.                                                                *)
(***************************************************************************)
LEMMA StopKeepsMemory ==
    ASSUME LockInv, MemoryInv, NEW p \in Ended, Stop(p),
           UNCHANGED <<lists, given, freed>>, held' \subseteq held, kept' \subseteq kept
    PROVE  MemoryInv'
<1>1. /\ UNCHANGED <<heap, testAllocations, callbackNode, warnings, queue, stlInitialized>>
      /\ phase' = p /\ p \in Ended /\ calls' = <<>> /\ returned' = Nothing
  BY DEF Stop, harnessVars
<1>2. /\ Blocks' = Blocks /\ MapNodes' = MapNodes /\ WarningNodes' = WarningNodes
      /\ Lists' = Lists /\ Tests' = Tests
  BY <1>1, SameOwners
<1>3. NewNode' = {} /\ OnItsWay' = {} /\ Coming' = {} /\ \A o : ~In(o)'
  BY <1>1, <1>2, NothingComes DEF NewNode, OnItsWay, Coming, In
<1>4. Apart'
  BY <1>1, <1>2, <1>3, FewerOwners DEF MemoryInv
<1>5. ListsMade'
  BY <1>1, <1>2, <1>3 DEF MemoryInv, ListsMade, Ended, IsNode
<1>6. HeldIsGiven'
  BY DEF MemoryInv, HeldIsGiven
<1>7. Recorded'
  BY <1>1, <1>3 DEF MemoryInv, Recorded, Ended
<1>8. Living'
  BY <1>1, <1>3 DEF Living, Ended
<1> QED BY <1>4, <1>5, <1>6, <1>7, <1>8 DEF MemoryInv

(***************************************************************************)
(* A step of main or of a test that touches no memory and is not handed    *)
(* any.                                                                    *)
(***************************************************************************)
LEMMA ControlKeepsMemory ==
    ASSUME LockInv, Marching, MemoryInv,
           UNCHANGED <<heap, testAllocations, callbackNode, warnings, lists, given, queue, freed>>,
           calls = <<>>, calls' = <<>>, returned \notin Blocks, returned' \in {returned, Nothing},
           HeldIsGiven', \A b \in kept' : given[b] = NoTest => b \in kept,
           \/ UNCHANGED <<phase, currentTest, stlInitialized>> /\ phase # "cleanup"
           \/ /\ phase = "static" /\ currentTest' = FirstTest
              /\ phase' = IF FirstTest = NoTest THEN "attach" ELSE "lists"
           \/ phase = "results" /\ phase' = "detach"
           \/ /\ phase = "cleanup" /\ phase' = "cleanup" /\ returned # Nothing /\ returned' = Nothing
              /\ currentTest' = IF heap[lists[currentTest]] = "freed" THEN Following(currentTest)
                                ELSE currentTest
           \/ phase \in {"cleanup", "body"} /\ phase' = "statics"
           \/ phase = "statics" /\ phase' = "over"
           \/ phase = "body" /\ phase' = "end"
    PROVE  MemoryInv'
<1>1. /\ Blocks' = Blocks /\ MapNodes' = MapNodes /\ WarningNodes' = WarningNodes
      /\ Lists' = Lists /\ Tests' = Tests
  BY SameOwners
<1>2. /\ Nothing \notin Blocks
      /\ NewNode = {} /\ OnItsWay = {} /\ Coming = {} /\ \A o : ~In(o)
  BY NothingComes
<1>3. NewNode' = {} /\ OnItsWay' = {} /\ Coming' = {} /\ \A o : ~In(o)'
  BY <1>1, <1>2 DEF NewNode, OnItsWay, Coming, In
<1>4. Apart'
  BY <1>1, <1>2, <1>3, FewerOwners DEF MemoryInv
<1>5. /\ Len(queue) \in Nat /\ Tests = 1 .. Len(queue)
      /\ FirstTest = NoTest => Tests = {} /\ queue = <<>>
      /\ FirstTest # NoTest => FirstTest = 1
      /\ \A t \in Tests : Following(t) # NoTest => Following(t) = t + 1
  BY PlacesOfTests DEF Marching, FirstTest, NoTest
<1>6. /\ lists' \in [Tests' -> Blocks' \cup {NoBlock}]
      /\ \A b \in Lists' \cup WarningNodes' : IsNode(b)'
      /\ Lists = {} => \A t \in Tests : lists[t] = NoBlock
      /\ warnings' = [t \in Tests' |-> warnings'[t]]
  BY <1>1 DEF MemoryInv, ListsMade, IsNode, Lists
<1>7. CASE UNCHANGED <<phase, currentTest, stlInitialized>> /\ phase # "cleanup"
  <2>1. ListsMade'
    BY <1>1, <1>3, <1>6, <1>7 DEF MemoryInv, ListsMade
  <2>2. Recorded'
    BY <1>2, <1>3, <1>7 DEF MemoryInv, Recorded, OfTests
  <2>3. Living'
    BY <1>1, <1>2, <1>3, <1>7 DEF MemoryInv, Living, Unfreed
  <2> QED BY <1>4, <2>1, <2>2, <2>3 DEF MemoryInv
<1>8. CASE /\ phase = "static" /\ currentTest' = FirstTest
           /\ phase' = IF FirstTest = NoTest THEN "attach" ELSE "lists"
  <2>1. Lists = {} /\ \A t \in Tests : lists[t] = NoBlock /\ ~(t < 1)
    BY <1>5, <1>6, <1>8 DEF MemoryInv, ListsMade
  <2>2. ListsMade'
    BY <1>1, <1>3, <1>5, <1>6, <1>8, <2>1 DEF ListsMade
  <2>3. Recorded'
    BY <1>3, <1>5, <1>8 DEF MemoryInv, Recorded, OfTests, Early
  <2>4. Living'
    BY <1>1, <1>2, <1>3, <1>8, <2>1 DEF MemoryInv, Living, Unfreed, Ended
  <2> QED BY <1>4, <2>2, <2>3, <2>4 DEF MemoryInv
<1>9. CASE phase = "results" /\ phase' = "detach"
  <2>1. ListsMade'
    BY <1>1, <1>3, <1>6, <1>9 DEF MemoryInv, ListsMade, Ended
  <2>2. Recorded'
    BY <1>2, <1>3, <1>9 DEF MemoryInv, Recorded, OfTests, Early, Ended
  <2>3. Living'
    BY <1>1, <1>2, <1>3, <1>9 DEF MemoryInv, Living, Unfreed, Ended
  <2> QED BY <1>4, <2>1, <2>2, <2>3 DEF MemoryInv
<1>10. CASE /\ phase = "cleanup" /\ phase' = "cleanup" /\ returned # Nothing /\ returned' = Nothing
            /\ currentTest' = IF heap[lists[currentTest]] = "freed" THEN Following(currentTest)
                              ELSE currentTest
  <2>1. ListsMade'
    BY <1>1, <1>3, <1>6, <1>10 DEF MemoryInv, ListsMade, Ended
  <2>2. Recorded'
    BY <1>2, <1>3, <1>10 DEF MemoryInv, Recorded, OfTests, Early, Ended
  <2>3. currentTest \in Tests
    BY <1>10 DEF MemoryInv, Living, Marching
  <2>4. \A t \in Tests : t > currentTest => heap[lists[t]] # "freed"
    BY <1>10, <2>3 DEF MemoryInv, Living, NoTest
  <2>5. currentTest' # NoTest =>
            /\ \A t \in Tests : t > currentTest' => heap[lists[t]] # "freed"
            /\ heap[lists[currentTest']] # "freed"
    <3>1. CASE heap[lists[currentTest]] # "freed"
      BY <1>10, <2>4, <3>1
    <3>2. CASE heap[lists[currentTest]] = "freed" /\ currentTest' # NoTest
      <4>1. currentTest' = currentTest + 1 /\ currentTest' \in Tests
        <5>1. currentTest' = Following(currentTest)
          BY <1>10, <3>2
        <5>2. currentTest < Len(queue) /\ currentTest' = currentTest + 1
          BY <1>5, <2>3, <3>2, <5>1 DEF Following
        <5> QED BY <1>5, <2>3, <5>2
      <4>2. \A t \in Tests : t >= currentTest' => t > currentTest
        BY <1>5, <2>3, <4>1
      <4> QED BY <1>5, <2>4, <4>1, <4>2
    <3> QED BY <3>1, <3>2
  <2>6. Living'
    BY <1>1, <1>2, <1>3, <1>10, <2>5 DEF MemoryInv, Living, Unfreed, Ended
  <2> QED BY <1>4, <2>1, <2>2, <2>6 DEF MemoryInv
<1>11. CASE phase \in {"cleanup", "body"} /\ phase' = "statics"
  <2>1. ListsMade'
    BY <1>1, <1>3, <1>6, <1>11 DEF MemoryInv, ListsMade, Ended
  <2>2. Recorded'
    BY <1>2, <1>3, <1>11 DEF MemoryInv, Recorded, OfTests, Early, Ended
  <2>3. Living'
    BY <1>1, <1>2, <1>3, <1>11 DEF MemoryInv, Living, Unfreed, Ended
  <2> QED BY <1>4, <2>1, <2>2, <2>3 DEF MemoryInv
<1>12. CASE phase = "statics" /\ phase' = "over"
  <2>1. ListsMade'
    BY <1>1, <1>3, <1>6, <1>12 DEF MemoryInv, ListsMade, Ended
  <2>2. Recorded'
    BY <1>2, <1>3, <1>12 DEF MemoryInv, Recorded, OfTests, Early, Ended
  <2>3. Living'
    BY <1>1, <1>2, <1>3, <1>12 DEF MemoryInv, Living, Unfreed, Ended
  <2> QED BY <1>4, <2>1, <2>2, <2>3 DEF MemoryInv
<1>13. CASE phase = "body" /\ phase' = "end"
  <2>1. ListsMade'
    BY <1>1, <1>3, <1>6, <1>13 DEF MemoryInv, ListsMade, Ended
  <2>2. Recorded'
    BY <1>2, <1>3, <1>13 DEF MemoryInv, Recorded, OfTests, Early, Ended
  <2>3. Living'
    BY <1>1, <1>2, <1>3, <1>13 DEF MemoryInv, Living, Unfreed, Ended
  <2> QED BY <1>4, <2>1, <2>2, <2>3 DEF MemoryInv
<1> QED BY <1>7, <1>8, <1>9, <1>10, <1>11, <1>12, <1>13

(***************************************************************************)
(* Where main is while an operation of a container is under way.           *)
(***************************************************************************)
LEMMA PhaseOfCalls ==
    ASSUME LockInv, Recorded, calls # <<>>
    PROVE  phase \in {"lists", "attach", "start", "body", "end", "detach", "statics"}
BY DEF LockInv, OneCall, CallsFit, ContainerOps, In, Recorded

(***************************************************************************)
(* A new block is a node of the operation that asks for it, or it is on    *)
(* its way to the program; it is nobody else's.                            *)
(***************************************************************************)
LEMMA AllocateKeepsMemory ==
    ASSUME LockInv, MemoryInv, NEW kind \in Kinds, AllocateManaged(kind), returned = Nothing,
           UNCHANGED programVars,
           calls # <<>> => kind = "object",
           calls = <<>> => phase \in {"static", "lists", "body"},
           phase = "lists" => kind = "object"
    PROVE  MemoryInv'
<1>1. /\ UNCHANGED <<testAllocations, callbackNode, phase, queue, stlInitialized, currentTest, warnings>>
      /\ UNCHANGED <<held, kept, lists, given, freed>>
  BY DEF AllocateManaged, harnessVars, programVars
<1>2. /\ MapNodes' = MapNodes /\ WarningNodes' = WarningNodes /\ Lists' = Lists /\ Tests' = Tests
  BY <1>1 DEF MapNodes, WarningNodes, Lists, Tests
<1>3. /\ Nothing \notin Blocks /\ BadAlloc \notin Blocks /\ BadAlloc # Nothing
      /\ NewNode = {} /\ Coming = {}
      /\ calls = <<>> => OnItsWay = {} /\ \A o : ~In(o)
      /\ phase # "cleanup"
  BY NothingComes, PhaseOfCalls DEF MemoryInv
<1>4. HeldIsGiven'
  BY <1>1 DEF MemoryInv, HeldIsGiven
<1>5. CASE returned' = BadAlloc /\ UNCHANGED <<heap, recurseLock, calls>>
  <2>1. Blocks' = Blocks /\ Top' = Top
    BY <1>5 DEF Blocks, Top
  <2>2. NewNode' = {} /\ Coming' = {} /\ OnItsWay' = OnItsWay /\ \A o : In(o)' <=> In(o)
    BY <1>3, <1>5, <2>1 DEF NewNode, Coming, OnItsWay, In
  <2>3. Apart'
    BY <1>1, <1>2, <1>3, <2>1, <2>2, FewerOwners DEF MemoryInv
  <2>4. ListsMade'
    BY <1>1, <1>2, <1>5, <2>1, <2>2 DEF MemoryInv, ListsMade, IsNode
  <2>5. Recorded'
    BY <1>1, <1>3, <2>1, <2>2 DEF MemoryInv, Recorded, OfTests
  <2>6. Living'
    BY <1>1, <1>2, <1>3, <1>5, <2>1, <2>2 DEF MemoryInv, Living, Unfreed
  <2> QED BY <1>4, <2>3, <2>4, <2>5, <2>6 DEF MemoryInv
<1>6. CASE heap' = Append(heap, kind)
  <2> DEFINE new == Len(heap')
  <2>1. /\ Blocks' = Blocks \cup {new} /\ new \notin Blocks /\ heap'[new] = kind
        /\ \A b \in Blocks : heap'[b] = heap[b]
    BY <1>6, NewBlock DEF LockInv, NodesAreObjects
  <2>2. kind # "freed" /\ (kind = "object" => heap'[new] \in {"object", "freed"})
    BY <2>1 DEF Kinds
  <2>3. NoBlock \notin Blocks' /\ Nothing \notin Blocks'
    BY <1>6, NewBlock DEF LockInv, NodesAreObjects, NoBlock, Nothing, Blocks
  <2>4. /\ NewNode' \subseteq {new} /\ OnItsWay' \subseteq OnItsWay \cup {new}
        /\ NewNode' \cap OnItsWay' = {} /\ Coming' \subseteq {new}
        /\ calls = <<>> => NewNode' = {}
        /\ calls # <<>> => OnItsWay' = OnItsWay /\ kind = "object"
        /\ \A o : In(o)' <=> In(o) \/ (o = "record" /\ calls = <<>> /\ calls' # <<>>)
        /\ In("erase") => Top' = Top
        /\ In("report") => Top' = Top
        /\ calls = <<>> /\ calls' # <<>> => stlInitialized
        /\ phase = "end" => (calls' = <<>> <=> calls = <<>>)
    <3>1. CASE returned' = new /\ UNCHANGED <<recurseLock, calls>>
      <4>1. Top' = Top /\ \A o : In(o)' <=> In(o)
        BY <3>1 DEF Top, In
      <4>2. OnItsWay \subseteq Blocks
        BY DEF MemoryInv, Apart, Asked
      <4>3. CASE calls = <<>>
        <5>1. NewNode' = {} /\ Coming' \subseteq {new} /\ OnItsWay' \subseteq {new}
          BY <3>1, <4>1, <4>3 DEF NewNode, Coming, OnItsWay, In
        <5> QED BY <3>1, <4>1, <4>3, <5>1
      <4>4. CASE calls # <<>>
        <5>1. NewNode' \subseteq {new} /\ Coming' = {} /\ Coming = {}
          BY <1>3, <3>1, <4>4 DEF NewNode, Coming
        <5>2. OnItsWay' = OnItsWay
          BY <4>1, <5>1 DEF OnItsWay
        <5> QED BY <2>1, <3>1, <4>1, <4>2, <4>4, <5>1, <5>2
      <4> QED BY <4>3, <4>4
    <3>2. CASE ~(recurseLock \/ ~stlInitialized) /\ Begin("record", new, {}) /\ UNCHANGED returned
      <4>1. calls = <<>>
        BY <3>2 DEF LockInv, OneCall
      <4>2. calls' # <<>> /\ Top'.block = new /\ \A o : In(o)' <=> o = "record"
        BY <3>2, <4>1, FrameBegun
      <4>3. NewNode' = {}
        BY <2>3, <3>2 DEF NewNode
      <4>4. Coming' = {} /\ OnItsWay' = {new}
        BY <4>2 DEF Coming, OnItsWay
      <4> QED BY <1>3, <3>2, <4>1, <4>2, <4>3, <4>4
    <3> QED BY <1>5, <1>6, <3>1, <3>2 DEF AllocateManaged
  <2> HIDE DEF new
  <2>5. Apart'
    <3>1. Nodes' \subseteq Nodes \cup NewNode' /\ Asked' \subseteq Asked \cup OnItsWay'
      BY <1>1, <1>2 DEF Nodes, Asked
    <3>2. Nodes' \subseteq Blocks' /\ Asked' \subseteq Blocks'
      BY <2>1, <2>4, <3>1 DEF MemoryInv, Apart, Asked
    <3>3. Nodes' \cap Asked' = {}
      BY <2>1, <2>4, <3>1 DEF MemoryInv, Apart, Asked
    <3>4. /\ MapNodes \cap WarningNodes = {} /\ NewNode' \cap (MapNodes \cup WarningNodes) = {}
      BY <2>1, <2>4 DEF MemoryInv, Apart, Nodes
    <3>5. /\ Lists \cap (DOMAIN given \cup OnItsWay') = {} /\ OnItsWay' \cap DOMAIN given = {}
      BY <2>1, <2>4 DEF MemoryInv, Apart, Asked
    <3> QED BY <1>1, <1>2, <3>2, <3>3, <3>4, <3>5 DEF MemoryInv, Apart
  <2>6. ListsMade'
    <3>1. \A b \in Lists \cup WarningNodes : IsNode(b)'
      BY <2>1 DEF MemoryInv, ListsMade, IsNode
    <3>2. phase = "lists" => \A b \in OnItsWay' : IsNode(b)'
      BY <2>1, <2>2, <2>4 DEF MemoryInv, ListsMade, IsNode
    <3>3. lists \in [Tests -> Blocks' \cup {NoBlock}]
      BY <2>1 DEF MemoryInv, ListsMade
    <3> QED BY <1>1, <1>2, <3>1, <3>2, <3>3 DEF MemoryInv, ListsMade
  <2>7. Recorded'
    BY <1>1, <1>3, <2>4 DEF MemoryInv, Recorded, OfTests
  <2>8. Living'
    <3>1. \A b \in Nodes \cup Asked : heap'[b] = heap[b]
      BY <2>1 DEF MemoryInv, Apart
    <3>2. kept \subseteq Asked
      BY DEF MemoryInv, HeldIsGiven, Asked
    <3>3. In("report") => Top.left \subseteq Asked
      BY DEF MemoryInv, Recorded, Asked
    <3>4. /\ \A S \in SUBSET (Nodes \cup Asked) : Unfreed(S) => \A b \in S : heap'[b] # "freed"
          /\ heap'[new] # "freed"
      BY <2>1, <2>2, <3>1 DEF Unfreed
    <3>5. phase \notin {"cleanup", "statics"} \cup Ended =>
              (Unfreed(Lists) /\ Unfreed(WarningNodes) /\ Unfreed({callbackNode} \ {NoBlock}))'
      <4>1. /\ Lists \in SUBSET (Nodes \cup Asked) /\ WarningNodes \in SUBSET (Nodes \cup Asked)
            /\ {callbackNode} \ {NoBlock} \in SUBSET (Nodes \cup Asked)
        BY DEF Nodes, Asked
      <4> QED BY <1>1, <1>2, <3>4, <4>1 DEF MemoryInv, Living, Unfreed
    <3>6. phase \notin Ended => (Unfreed(MapNodes) /\ Unfreed(NewNode) /\ Unfreed(OnItsWay))'
      <4>1. MapNodes \in SUBSET (Nodes \cup Asked) /\ OnItsWay \in SUBSET (Nodes \cup Asked)
        BY DEF Nodes, Asked
      <4> QED BY <1>1, <1>2, <2>4, <3>4, <4>1 DEF MemoryInv, Living, Unfreed
    <3>7. phase \notin Ended => Unfreed({b \in kept : given[b] = NoTest})'
      <4>1. {b \in kept : given[b] = NoTest} \in SUBSET (Nodes \cup Asked)
        BY <3>2
      <4> QED BY <1>1, <3>4, <4>1 DEF MemoryInv, Living, Unfreed
    <3>8. /\ phase = "body" \/ (phase = "end" /\ calls' = <<>>) => Unfreed(DOMAIN testAllocations)'
          /\ In("report")' => Unfreed(Top.left)'
      <4>1. DOMAIN testAllocations \in SUBSET (Nodes \cup Asked)
        BY DEF Asked
      <4>2. phase = "end" /\ calls' = <<>> => calls = <<>>
        BY <1>3, <2>4
      <4>3. In("report")' => In("report") /\ Top' = Top
        BY <2>4
      <4> QED BY <1>1, <3>3, <3>4, <4>1, <4>2, <4>3 DEF MemoryInv, Living, Unfreed
    <3> QED BY <1>1, <1>2, <1>3, <3>5, <3>6, <3>7, <3>8 DEF Living
  <2> QED BY <1>4, <2>5, <2>6, <2>7, <2>8 DEF MemoryInv
<1> QED BY <1>5, <1>6 DEF AllocateManaged

(***************************************************************************)
(* A delete of the program, of a block that is no node of the map: it is   *)
(* freed, or its record is erased first, or it is left as it is.           *)
(***************************************************************************)
LEMMA DeallocateKeepsMemory ==
    ASSUME LockInv, MemoryInv, NEW kind \in Kinds, NEW b \in Blocks,
           calls = <<>>, returned = Nothing, DeallocateManaged(kind, b),
           UNCHANGED <<lists, given>>, HeldIsGiven',
           held' \subseteq held, kept' \subseteq kept, b \notin kept',
           freed' = freed \/ (freed' = freed \cup {b} /\ heap[b] = kind /\ ~recurseLock),
           phase \in {"body", "cleanup", "statics"},
           phase = "cleanup" => /\ heap[b] = kind /\ currentTest # NoTest
                                /\ \A t \in Tests : t > currentTest => lists[t] # b,
           ~recurseLock /\ b \in DOMAIN testAllocations => phase = "body" /\ b \in DOMAIN given,
           b \notin MapNodes,
           phase = "body" => b \notin Lists \cup WarningNodes \cup {callbackNode}
    PROVE  MemoryInv'
<1>1. CASE heap[b] = "freed"
  <2>1. freed' = freed /\ Undefined
    BY <1>1 DEF Kinds, DeallocateManaged
  <2> QED BY <2>1, StopKeepsMemory DEF Undefined, Ended
<1>2. CASE heap[b] # "freed"
  <2>1. UNCHANGED <<testAllocations, callbackNode, phase, queue, stlInitialized, currentTest, warnings>>
    BY <1>2 DEF DeallocateManaged, Undefined, harnessVars
  <2>2. /\ MapNodes' = MapNodes /\ WarningNodes' = WarningNodes /\ Lists' = Lists /\ Tests' = Tests
    BY <2>1 DEF MapNodes, WarningNodes, Lists, Tests
  <2>3. /\ Nothing \notin Blocks /\ Void \notin Blocks /\ Void # Nothing
        /\ NewNode = {} /\ Coming = {} /\ OnItsWay = {} /\ \A o : ~In(o)
    BY NothingComes
  <2>4. phase \notin Ended
    BY DEF Ended
  <2>5. CASE returned' = Void /\ UNCHANGED <<heap, calls, freed>>
    <3>1. Blocks' = Blocks
      BY <2>5 DEF Blocks
    <3>2. NewNode' = {} /\ Coming' = {} /\ OnItsWay' = {} /\ \A o : ~In(o)'
      BY <2>3, <2>5, <3>1 DEF NewNode, Coming, OnItsWay, In
    <3>3. Apart'
      BY <2>1, <2>2, <2>3, <3>1, <3>2, FewerOwners DEF MemoryInv
    <3>4. ListsMade'
      BY <2>1, <2>2, <2>5, <3>1, <3>2 DEF MemoryInv, ListsMade, IsNode
    <3>5. Recorded'
      BY <2>1, <2>3, <2>5, <3>2 DEF MemoryInv, Recorded, OfTests
    <3>6. Living'
      BY <2>1, <2>2, <2>3, <2>5, <3>2 DEF MemoryInv, Living, Unfreed
    <3> QED BY <3>3, <3>4, <3>5, <3>6 DEF MemoryInv
  <2>6. ASSUME NEW op \in {"warn", "erase"}, Begin(op, b, {}), UNCHANGED <<heap, returned>>,
               op = "warn" => freed' = freed /\ phase \in {"body", "statics"},
               op = "erase" => phase = "body" /\ b \in DOMAIN given
        PROVE  MemoryInv'
    <3>1. Blocks' = Blocks
      BY <2>6 DEF Blocks
    <3>2. /\ calls' # <<>> /\ Top'.op = op /\ Top'.block = b
          /\ \A o : In(o)' <=> o = op
      BY <2>6, FrameBegun
    <3>3. NewNode' = {} /\ Coming' = {} /\ OnItsWay' = {}
      BY <2>3, <2>6, <3>1, <3>2 DEF NewNode, Coming, OnItsWay
    <3>4. Apart'
      BY <2>1, <2>2, <2>3, <3>1, <3>3, FewerOwners DEF MemoryInv
    <3>5. ListsMade'
      BY <2>1, <2>2, <2>6, <3>1, <3>3 DEF MemoryInv, ListsMade, IsNode
    <3>6. Recorded'
      <4>1. CASE op = "warn"
        BY <2>1, <2>3, <2>6, <3>2, <3>3, <4>1 DEF MemoryInv, Recorded, OfTests
      <4>2. CASE op = "erase"
        <5>1. DOMAIN testAllocations \subseteq OfTests(DOMAIN given) \ freed
          BY <2>3, <2>6, <4>2 DEF MemoryInv, Recorded
        <5>2. DOMAIN testAllocations \subseteq (OfTests(DOMAIN given) \ freed') \cup {b}
          BY <5>1
        <5> QED BY <2>1, <2>6, <3>2, <3>3, <4>2, <5>2 DEF MemoryInv, Recorded, OfTests, Early
      <4> QED BY <2>6, <4>1, <4>2
    <3>7. Living'
      BY <2>1, <2>2, <2>3, <2>4, <2>6, <3>2, <3>3 DEF MemoryInv, Living, Unfreed
    <3> QED BY <3>4, <3>5, <3>6, <3>7 DEF MemoryInv
  <2>7. CASE /\ Free(b) /\ returned' = Void /\ calls' = calls
             /\ b \notin DOMAIN testAllocations
    <3>1. Blocks' = Blocks /\ \A x \in Blocks : heap'[x] = IF x = b THEN "freed" ELSE heap[x]
      BY <2>7, FreedBlock DEF LockInv, NodesAreObjects
    <3>2. NewNode' = {} /\ Coming' = {} /\ OnItsWay' = {} /\ \A o : ~In(o)'
      BY <2>3, <2>7, <3>1 DEF NewNode, Coming, OnItsWay, In
    <3>3. Apart'
      BY <2>1, <2>2, <2>3, <3>1, <3>2, FewerOwners DEF MemoryInv
    <3>4. ListsMade'
      BY <2>1, <2>2, <3>1, <3>2 DEF MemoryInv, ListsMade, IsNode
    <3>5. Recorded'
      BY <2>1, <2>3, <2>7, <3>2 DEF MemoryInv, Recorded, OfTests
    <3>6. \A S : S \subseteq Blocks /\ b \notin S /\ Unfreed(S) => \A x \in S : heap'[x] # "freed"
      BY <3>1 DEF Unfreed
    <3>7. /\ Nodes \subseteq Blocks /\ Asked \subseteq Blocks
          /\ MapNodes \subseteq Blocks /\ Lists \subseteq Blocks /\ WarningNodes \subseteq Blocks
          /\ {callbackNode} \ {NoBlock} \subseteq Blocks /\ DOMAIN testAllocations \subseteq Blocks
          /\ kept' \subseteq Blocks
      BY DEF MemoryInv, Apart, Nodes, Asked, HeldIsGiven
    <3>8. phase = "body" =>
              (Unfreed(Lists) /\ Unfreed(WarningNodes) /\ Unfreed({callbackNode} \ {NoBlock})
               /\ Unfreed(DOMAIN testAllocations))'
      <4> SUFFICES ASSUME phase = "body"
                   PROVE  (Unfreed(Lists) /\ Unfreed(WarningNodes) /\ Unfreed({callbackNode} \ {NoBlock})
                           /\ Unfreed(DOMAIN testAllocations))'
        OBVIOUS
      <4>1. Unfreed(Lists) /\ Unfreed(WarningNodes) /\ Unfreed({callbackNode} \ {NoBlock})
            /\ Unfreed(DOMAIN testAllocations)
        BY <2>4 DEF MemoryInv, Living
      <4>2. b \notin Lists /\ b \notin WarningNodes /\ b \notin {callbackNode} \ {NoBlock}
            /\ b \notin DOMAIN testAllocations
        BY <2>7
      <4> QED BY <2>1, <2>2, <3>6, <3>7, <4>1, <4>2 DEF Unfreed
    <3>9. Unfreed(MapNodes)' /\ Unfreed({x \in kept : given[x] = NoTest})'
      <4>1. Unfreed(MapNodes) /\ Unfreed({x \in kept : given[x] = NoTest})
        BY <2>4 DEF MemoryInv, Living
      <4>2. \A x \in kept' : x \in kept /\ x # b /\ x \in Blocks
        BY <3>7
      <4> QED BY <2>2, <3>1, <3>6, <3>7, <4>1, <4>2 DEF Unfreed
    <3>10. phase = "cleanup" => \A t \in Tests : t > currentTest => heap'[lists[t]] # "freed"
      <4> SUFFICES ASSUME phase = "cleanup", NEW t \in Tests, t > currentTest
                   PROVE  heap'[lists[t]] # "freed"
        OBVIOUS
      <4>1. lists[t] # b /\ heap[lists[t]] # "freed"
        BY DEF MemoryInv, Living
      <4>2. lists[t] \in Blocks
        BY <3>7 DEF MemoryInv, ListsMade, Lists, Ended
      <4> QED BY <3>1, <4>1, <4>2
    <3>11. Living'
      BY <2>1, <2>2, <2>3, <2>7, <3>2, <3>8, <3>9, <3>10 DEF Living, Unfreed
    <3> QED BY <3>3, <3>4, <3>5, <3>11 DEF MemoryInv
  <2> QED
    BY <1>2, <2>3, <2>5, <2>6, <2>7 DEF DeallocateManaged
<1> QED BY <1>1, <1>2

(***************************************************************************)
(* A container operation that ends, or a step of it that hands nothing on  *)
(* and leaves main where it is.                                            *)
(***************************************************************************)
LEMMA ContainersKeepMemory ==
    ASSUME LockInv, MemoryInv, UNCHANGED programVars,
           Record \/ RecordFails \/ Erase \/ Warn \/ GiveNodeBack \/ NodeMissing
    PROVE  MemoryInv'
<1>1. UNCHANGED <<held, kept, lists, given, freed>>
  BY DEF programVars
<1>2. /\ Nothing \notin Blocks /\ Void \notin Blocks /\ BadAlloc \notin Blocks
      /\ Void # Nothing /\ BadAlloc # Nothing
      /\ calls # <<>> => Coming = {}
  BY NothingComes
<1>3. HeldIsGiven'
  BY <1>1 DEF MemoryInv, HeldIsGiven
<1>4. CASE NodeMissing
  BY <1>1, <1>4, StopKeepsMemory DEF NodeMissing, Terminate, Ended
<1>5. CASE GiveNodeBack
  <2>1. CASE Undefined
    BY <1>1, <2>1, StopKeepsMemory DEF Undefined, Ended
  <2>2. CASE returned' = Void /\ UNCHANGED <<heap, recurseLock, calls, testAllocations, callbackNode, phase, harnessVars>>
    <3>1. /\ calls # <<>> /\ returned = Nothing /\ Top' = Top
          /\ UNCHANGED <<queue, stlInitialized, currentTest, warnings>>
      BY <1>5, <2>2, NodeIsGivenBack DEF Top, harnessVars
    <3>2. /\ Blocks' = Blocks /\ MapNodes' = MapNodes /\ WarningNodes' = WarningNodes
          /\ Lists' = Lists /\ Tests' = Tests
      BY <1>1, <2>2, <3>1, SameOwners
    <3>3. NewNode = {} /\ NewNode' = {} /\ Coming' = {} /\ OnItsWay' = OnItsWay /\ \A o : In(o)' <=> In(o)
      BY <1>2, <2>2, <3>1, <3>2 DEF NewNode, Coming, OnItsWay, In
    <3>4. Apart'
      BY <1>1, <2>2, <3>1, <3>2, <3>3, FewerOwners DEF MemoryInv
    <3>5. ListsMade'
      BY <1>1, <2>2, <3>1, <3>2, <3>3 DEF MemoryInv, ListsMade, IsNode
    <3>6. Recorded'
      BY <1>1, <1>2, <2>2, <3>1, <3>3 DEF MemoryInv, Recorded, OfTests
    <3>7. phase # "cleanup"
      BY <3>1, PhaseOfCalls DEF MemoryInv
    <3>8. Living'
      BY <1>1, <2>2, <3>1, <3>2, <3>3, <3>7 DEF MemoryInv, Living, Unfreed
    <3> QED BY <1>3, <3>4, <3>5, <3>6, <3>8 DEF MemoryInv
  <2> QED BY <1>5, <2>1, <2>2, NodeIsGivenBack
<1>6. CASE Record
  <2>1. /\ In("record") /\ calls # <<>> /\ returned \in Blocks /\ Top.block \in Blocks
        /\ testAllocations' = With(testAllocations, Top.block, returned)
        /\ calls' = Tail(calls) /\ returned' = Top.block
        /\ UNCHANGED <<heap, callbackNode, phase, queue, stlInitialized, currentTest, warnings>>
    BY <1>6 DEF Record, Finish, In, harnessVars, LockInv, CallsFit
  <2>2. calls' = <<>> /\ \A o : ~In(o)'
    BY <2>1, LastFrame
  <2>3. /\ Blocks' = Blocks /\ WarningNodes' = WarningNodes /\ Lists' = Lists /\ Tests' = Tests
    BY <1>1, <2>1 DEF Blocks, WarningNodes, Lists, Tests
  <2>4. NewNode = {returned} /\ OnItsWay = {Top.block} /\ Coming = {}
    BY <1>2, <2>1 DEF NewNode, OnItsWay
  <2>5. NewNode' = {} /\ Coming' = {Top.block} /\ OnItsWay' = {Top.block}
    BY <2>1, <2>2, <2>3 DEF NewNode, OnItsWay, Coming
  <2>6. /\ DOMAIN testAllocations' = DOMAIN testAllocations \cup {Top.block}
        /\ MapNodes' \subseteq MapNodes \cup {returned}
    BY <2>1 DEF With, MapNodes
  <2>7. Apart'
    <3>1. Nodes' \subseteq Nodes /\ Asked' = Asked
      BY <1>1, <2>1, <2>3, <2>4, <2>5, <2>6 DEF Nodes, Asked
    <3> QED BY <1>1, <2>1, <2>3, <2>4, <2>5, <2>6, <3>1 DEF MemoryInv, Apart
  <2>8. ListsMade'
    BY <1>1, <2>1, <2>3, <2>4, <2>5 DEF MemoryInv, ListsMade, IsNode
  <2>9. phase \in {"lists", "body"}
    BY <2>1 DEF MemoryInv, Recorded
  <2>10. Recorded'
    <3>1. Top.block \notin DOMAIN given
      BY <2>4 DEF MemoryInv, Apart
    <3>2. ~In("erase")
      BY <2>1 DEF In
    <3> QED BY <1>1, <2>1, <2>2, <2>4, <2>5, <2>6, <2>9, <3>1, <3>2
            DEF MemoryInv, Recorded, OfTests, Early
  <2>11. Living'
    <3>1. heap[returned] # "freed" /\ heap[Top.block] # "freed"
      BY <2>4, <2>9 DEF MemoryInv, Living, Unfreed, Ended
    <3> QED BY <1>1, <2>1, <2>2, <2>3, <2>4, <2>5, <2>6, <2>9, <3>1
            DEF MemoryInv, Living, Unfreed, Ended
  <2> QED BY <1>3, <2>7, <2>8, <2>10, <2>11 DEF MemoryInv
<1>7. CASE RecordFails
  <2>1. /\ In("record") /\ calls # <<>> /\ returned' = BadAlloc /\ calls' = Tail(calls)
        /\ UNCHANGED <<heap, testAllocations, callbackNode, phase, queue, stlInitialized, currentTest, warnings>>
    BY <1>7 DEF RecordFails, In, harnessVars
  <2>2. calls' = <<>> /\ \A o : ~In(o)'
    BY <2>1, LastFrame
  <2>3. /\ Blocks' = Blocks /\ MapNodes' = MapNodes /\ WarningNodes' = WarningNodes
        /\ Lists' = Lists /\ Tests' = Tests
    BY <1>1, <2>1, SameOwners
  <2>4. NewNode' = {} /\ Coming' = {} /\ OnItsWay' = {} /\ Coming = {}
    BY <1>2, <2>1, <2>2, <2>3 DEF NewNode, OnItsWay, Coming
  <2>5. phase \in {"lists", "body"} /\ ~In("erase")
    BY <2>1 DEF MemoryInv, Recorded, In
  <2>6. Apart'
    BY <1>1, <2>1, <2>3, <2>4, FewerOwners DEF MemoryInv
  <2>7. ListsMade'
    BY <1>1, <2>1, <2>3, <2>4 DEF MemoryInv, ListsMade, IsNode
  <2>8. Recorded'
    BY <1>1, <2>1, <2>2, <2>4, <2>5 DEF MemoryInv, Recorded, OfTests, Early
  <2>9. Living'
    BY <1>1, <2>1, <2>2, <2>3, <2>4, <2>5 DEF MemoryInv, Living, Unfreed, Ended
  <2> QED BY <1>3, <2>6, <2>7, <2>8, <2>9 DEF MemoryInv
<1>8. CASE Erase
  <2>1. /\ In("erase") /\ calls # <<>> /\ calls' = Tail(calls) /\ returned' = Void /\ phase = "body"
        /\ testAllocations' = Without(testAllocations, Top.block) /\ Free(Top.block)
        /\ Top.block \in DOMAIN testAllocations /\ Top.block \in DOMAIN given
        /\ UNCHANGED <<callbackNode, phase, queue, stlInitialized, currentTest, warnings>>
    BY <1>8 DEF Erase, Finish, In, harnessVars, LockInv, CallsFit, MemoryInv, Recorded
  <2> DEFINE b == Top.block
  <2>2. calls' = <<>> /\ \A o : ~In(o)'
    BY <2>1, LastFrame
  <2>3. Blocks' = Blocks /\ \A x \in Blocks : heap'[x] = IF x = b THEN "freed" ELSE heap[x]
    BY <2>1, FreedBlock DEF LockInv, NodesAreObjects
  <2>4. /\ WarningNodes' = WarningNodes /\ Lists' = Lists /\ Tests' = Tests
    BY <1>1, <2>1 DEF WarningNodes, Lists, Tests
  <2>5. /\ DOMAIN testAllocations' = DOMAIN testAllocations \ {b}
        /\ MapNodes' \subseteq MapNodes
    BY <2>1 DEF Without, MapNodes
  <2>6. NewNode' = {} /\ Coming' = {} /\ OnItsWay' = {} /\ Coming = {}
    BY <1>2, <2>1, <2>2, <2>3 DEF NewNode, OnItsWay, Coming
  <2>7. Apart'
    BY <1>1, <2>1, <2>3, <2>5, <2>6, FewerOwners, <2>4 DEF MemoryInv
  <2>8. ListsMade'
    BY <1>1, <2>1, <2>3, <2>4, <2>6 DEF MemoryInv, ListsMade, IsNode
  <2>9. Recorded'
    BY <1>1, <2>1, <2>2, <2>5, <2>6 DEF MemoryInv, Recorded, OfTests, Early
  <2>10. Living'
    <3>1. given[b] # NoTest
      BY <2>1 DEF MemoryInv, Recorded
    <3>2. /\ Nodes \subseteq Blocks /\ Asked \subseteq Blocks /\ b \notin Nodes /\ b \notin Lists
      BY <2>1 DEF MemoryInv, Apart, Asked
    <3>3. \A S : S \subseteq Nodes \cup Asked /\ b \notin S /\ Unfreed(S) => \A x \in S : heap'[x] # "freed"
      BY <2>3, <3>2 DEF Unfreed
    <3>4. /\ Unfreed(Lists) /\ Unfreed(WarningNodes) /\ Unfreed({callbackNode} \ {NoBlock})
          /\ Unfreed(MapNodes) /\ Unfreed({x \in kept : given[x] = NoTest})
          /\ Unfreed(DOMAIN testAllocations)
      BY <2>1 DEF MemoryInv, Living, Ended
    <3>5. /\ Lists \subseteq Nodes \cup Asked /\ WarningNodes \subseteq Nodes \cup Asked
          /\ {callbackNode} \ {NoBlock} \subseteq Nodes \cup Asked /\ MapNodes \subseteq Nodes \cup Asked
          /\ {x \in kept : given[x] = NoTest} \subseteq Nodes \cup Asked
          /\ DOMAIN testAllocations \ {b} \subseteq Nodes \cup Asked
      BY DEF Nodes, Asked, MemoryInv, HeldIsGiven
    <3>6. (Unfreed(Lists) /\ Unfreed(WarningNodes) /\ Unfreed({callbackNode} \ {NoBlock}))'
      <4>1. b \notin Lists /\ b \notin WarningNodes /\ b \notin {callbackNode} \ {NoBlock}
        BY <3>2 DEF Nodes
      <4> QED BY <2>1, <2>4, <3>3, <3>4, <3>5, <4>1 DEF Unfreed
    <3>7. Unfreed(MapNodes)' /\ Unfreed({x \in kept : given[x] = NoTest})'
      <4>1. b \notin MapNodes /\ b \notin {x \in kept : given[x] = NoTest}
        BY <3>1, <3>2 DEF Nodes
      <4> QED BY <1>1, <2>5, <3>3, <3>4, <3>5, <4>1 DEF Unfreed
    <3>8. Unfreed(DOMAIN testAllocations)'
      <4>1. Unfreed(DOMAIN testAllocations \ {b})
        BY <3>4 DEF Unfreed
      <4> QED BY <2>5, <3>3, <3>5, <4>1 DEF Unfreed
    <3> QED BY <2>1, <2>2, <2>6, <3>6, <3>7, <3>8 DEF Living, Unfreed
  <2> QED BY <1>3, <2>7, <2>8, <2>9, <2>10 DEF MemoryInv
<1>9. CASE Warn
  <2>1. /\ In("warn") /\ calls # <<>> /\ calls' = Tail(calls) /\ returned \in Blocks /\ returned' = Void
        /\ ReportWarning("wrong delete", Top.block, returned)
        /\ UNCHANGED <<heap, testAllocations, callbackNode, phase, queue, stlInitialized, currentTest>>
    BY <1>9 DEF Warn, Finish, In
  <2>2. calls' = <<>> /\ \A o : ~In(o)'
    BY <2>1, LastFrame
  <2>3. /\ Blocks' = Blocks /\ MapNodes' = MapNodes /\ Lists' = Lists /\ Tests' = Tests
    BY <1>1, <2>1 DEF Blocks, MapNodes, Lists, Tests
  <2>4. NewNode = {returned} /\ Coming = {}
    BY <1>2, <2>1 DEF NewNode
  <2>5. NewNode' = {} /\ Coming' = {} /\ OnItsWay' = {}
    BY <1>2, <2>1, <2>2, <2>3 DEF NewNode, OnItsWay, Coming
  <2>6. /\ WarningNodes' \subseteq WarningNodes \cup {returned}
        /\ warnings' = [t \in Tests' |-> warnings'[t]]
    BY <2>1, WarningReported DEF MemoryInv, ListsMade
  <2>7. phase \in {"body", "statics"} /\ ~In("erase")
    BY <2>1 DEF MemoryInv, Recorded, In
  <2>8. Apart'
    <3>1. Nodes' \subseteq Nodes /\ Asked' \subseteq Asked
      BY <1>1, <2>1, <2>3, <2>4, <2>5, <2>6 DEF Nodes, Asked
    <3> QED BY <1>1, <2>1, <2>3, <2>4, <2>5, <2>6, <3>1 DEF MemoryInv, Apart
  <2>9. ListsMade'
    <3>1. IsNode(returned)
      BY <2>1 DEF LockInv, NodesAreObjects
    <3> QED BY <1>1, <2>1, <2>3, <2>5, <2>6, <2>7, <3>1 DEF MemoryInv, ListsMade, IsNode
  <2>10. Recorded'
    BY <1>1, <2>1, <2>2, <2>4, <2>5, <2>7 DEF MemoryInv, Recorded, OfTests, Early, Ended
  <2>11. Living'
    BY <1>1, <2>1, <2>2, <2>3, <2>4, <2>5, <2>6, <2>7 DEF MemoryInv, Living, Unfreed, Ended
  <2> QED BY <1>3, <2>8, <2>9, <2>10, <2>11 DEF MemoryInv
<1> QED BY <1>4, <1>5, <1>6, <1>7, <1>8, <1>9

(***************************************************************************)
(* Report frees a block of the map of a test that ended, and nothing that  *)
(* main asked for.                                                         *)
(***************************************************************************)
LEMMA ReportKeepsMemory ==
    ASSUME LockInv, MemoryInv, Report, UNCHANGED programVars
    PROVE  MemoryInv'
<1> DEFINE b == First(Top.left)
<1>1. /\ UNCHANGED <<held, kept, lists, given, freed>>
      /\ In("report") /\ calls # <<>> /\ returned \in Blocks /\ phase = "end"
  BY DEF programVars, Report, In, LockInv, CallsFit
<1>2. /\ Nothing \notin Blocks /\ Blocks \subseteq Nat /\ Coming = {}
  BY <1>1, NothingComes
<1>3. /\ Top.left \subseteq DOMAIN testAllocations /\ Top.left # {}
      /\ DOMAIN testAllocations \subseteq OfTests(DOMAIN given) \ freed
      /\ DOMAIN testAllocations \subseteq Blocks
  BY <1>1 DEF Report, MemoryInv, Recorded, Early, Ended, LockInv, NodesAreObjects
<1>4. b \in Top.left
  <2>1. Top.left \in SUBSET Nat
    BY <1>2, <1>3
  <2> QED BY <1>3, <2>1, FirstIsMember
<1>5. heap[b] # "freed"
  BY <1>1, <1>4 DEF MemoryInv, Living, Unfreed
<1>6. /\ ReportWarning("leak", b, returned) /\ Free(b) /\ returned' = Nothing
      /\ calls' = <<[Top EXCEPT !.left = @ \ {b}]>> \o Tail(calls)
      /\ UNCHANGED <<testAllocations, callbackNode, phase, queue, stlInitialized, currentTest>>
  BY <1>5 DEF Report
<1> HIDE DEF b
<1>7. /\ calls' # <<>> /\ Top'.left = Top.left \ {b} /\ \A o : In(o)' <=> In(o)
  <2>1. PICK f : calls = <<f>> /\ f = Frame(Top.op, Top.block, Top.left)
    BY <1>1 DEF LockInv, OneCall
  <2>2. Top = f /\ Tail(calls) = <<>>
    BY <2>1 DEF Top
  <2>3. [Top EXCEPT !.left = @ \ {b}] = Frame(Top.op, Top.block, Top.left \ {b})
    <3>1. \A op, block, left :
              [Frame(op, block, left) EXCEPT !.left = @ \ {b}] = Frame(op, block, left \ {b})
      BY DEF Frame
    <3> QED BY <2>1, <2>2, <3>1
  <2>4. calls' = <<Frame(Top.op, Top.block, Top.left \ {b})>>
    <3>1. \A g : <<g>> \o <<>> = <<g>>
      OBVIOUS
    <3> QED BY <1>6, <2>2, <2>3, <3>1
  <2>5. Top' = Frame(Top.op, Top.block, Top.left \ {b}) /\ calls' # <<>>
    BY <2>4 DEF Top
  <2>6. Top'.op = Top.op /\ Top'.left = Top.left \ {b}
    BY <2>5 DEF Frame
  <2> QED BY <1>1, <2>5, <2>6 DEF In
<1>8. Blocks' = Blocks /\ \A x \in Blocks : heap'[x] = IF x = b THEN "freed" ELSE heap[x]
  BY <1>6, FreedBlock DEF LockInv, NodesAreObjects
<1>9. MapNodes' = MapNodes /\ Lists' = Lists /\ Tests' = Tests
  BY <1>1, <1>6 DEF MapNodes, Lists, Tests
<1>10. /\ NewNode = {returned} /\ OnItsWay = {}
       /\ NewNode' = {} /\ Coming' = {} /\ OnItsWay' = {}
  BY <1>1, <1>2, <1>6, <1>7, <1>8 DEF NewNode, OnItsWay, Coming, In
<1>11. /\ WarningNodes' \subseteq WarningNodes \cup {returned}
       /\ warnings' = [t \in Tests' |-> warnings'[t]]
  BY <1>6, WarningReported DEF MemoryInv, ListsMade
<1>12. HeldIsGiven'
  BY <1>1 DEF MemoryInv, HeldIsGiven
<1>13. Apart'
  <2>1. Nodes' \subseteq Nodes /\ Asked' \subseteq Asked
    BY <1>1, <1>6, <1>9, <1>10, <1>11 DEF Nodes, Asked
  <2> QED BY <1>1, <1>6, <1>8, <1>9, <1>10, <1>11, <2>1 DEF MemoryInv, Apart
<1>14. ListsMade'
  <2>1. IsNode(returned)
    BY <1>1 DEF LockInv, NodesAreObjects
  <2> QED BY <1>1, <1>6, <1>8, <1>9, <1>10, <1>11, <2>1 DEF MemoryInv, ListsMade, IsNode
<1>15. Recorded'
  BY <1>1, <1>2, <1>3, <1>6, <1>7, <1>10 DEF MemoryInv, Recorded, OfTests, Early, Ended
<1>16. Living'
  <2>1. b \in Asked /\ b \in DOMAIN given /\ given[b] # NoTest
    BY <1>3, <1>4 DEF Asked, OfTests
  <2>2. /\ Nodes \subseteq Blocks /\ Asked \subseteq Blocks /\ b \notin Nodes /\ b \notin Lists
    BY <2>1 DEF MemoryInv, Apart
  <2>3. \A S : S \subseteq Nodes \cup Asked /\ b \notin S /\ Unfreed(S) => \A x \in S : heap'[x] # "freed"
    BY <1>8, <2>2 DEF Unfreed
  <2>4. /\ Unfreed(Lists) /\ Unfreed(WarningNodes) /\ Unfreed({callbackNode} \ {NoBlock})
        /\ Unfreed(MapNodes) /\ Unfreed({x \in kept : given[x] = NoTest})
        /\ Unfreed(NewNode) /\ Unfreed(Top.left)
    BY <1>1 DEF MemoryInv, Living, Ended
  <2>5. /\ Lists \subseteq Nodes \cup Asked /\ WarningNodes \cup NewNode \subseteq Nodes \cup Asked
        /\ {callbackNode} \ {NoBlock} \subseteq Nodes \cup Asked /\ MapNodes \subseteq Nodes \cup Asked
        /\ {x \in kept : given[x] = NoTest} \subseteq Nodes \cup Asked
        /\ Top.left \ {b} \subseteq Nodes \cup Asked
    BY <1>3 DEF Nodes, Asked, MemoryInv, HeldIsGiven
  <2>6. (Unfreed(Lists) /\ Unfreed(WarningNodes) /\ Unfreed({callbackNode} \ {NoBlock}))'
    <3>1. /\ b \notin Lists /\ b \notin WarningNodes \cup NewNode /\ b \notin {callbackNode} \ {NoBlock}
      BY <2>2 DEF Nodes
    <3>2. Unfreed(WarningNodes \cup NewNode)
      BY <2>4 DEF Unfreed
    <3>3. \A x \in WarningNodes \cup NewNode : heap'[x] # "freed"
      BY <2>3, <2>5, <3>1, <3>2
    <3> QED BY <1>6, <1>9, <1>10, <1>11, <2>3, <2>4, <2>5, <3>1, <3>3 DEF Unfreed
  <2>7. Unfreed(MapNodes)' /\ Unfreed({x \in kept : given[x] = NoTest})'
    <3>1. b \notin MapNodes /\ b \notin {x \in kept : given[x] = NoTest}
      BY <2>1, <2>2 DEF Nodes
    <3> QED BY <1>1, <1>9, <2>3, <2>4, <2>5, <3>1 DEF Unfreed
  <2>8. Unfreed(Top.left)'
    <3>1. Unfreed(Top.left \ {b})
      BY <2>4 DEF Unfreed
    <3> QED BY <1>7, <2>3, <2>5, <3>1 DEF Unfreed
  <2> QED BY <1>1, <1>6, <1>7, <1>10, <2>6, <2>7, <2>8 DEF Living, Unfreed
<1> QED BY <1>12, <1>13, <1>14, <1>15, <1>16 DEF MemoryInv

(***************************************************************************)
(* main goes on when an operation of a container is done.                  *)
(***************************************************************************)
LEMMA EventsKeepMemory ==
    ASSUME LockInv, Marching, MemoryInv, UNCHANGED programVars,
           Clear \/ ReportDone \/ Attach \/ Detach
    PROVE  MemoryInv'
<1>1. UNCHANGED <<held, kept, lists, given, freed>>
  BY DEF programVars
<1>2. /\ Nothing \notin Blocks /\ Void \notin Blocks /\ Void # Nothing
      /\ calls # <<>> => Coming = {}
  BY NothingComes
<1>3. HeldIsGiven'
  BY <1>1 DEF MemoryInv, HeldIsGiven
<1>4. CASE Clear
  <2>1. /\ In("clear") /\ calls # <<>> /\ phase = "start" /\ phase' \in {"start", "body"}
        /\ returned \notin Blocks /\ returned' = Nothing
        /\ UNCHANGED <<heap, callbackNode, queue, stlInitialized, currentTest, warnings>>
        /\ phase' = "body" => DOMAIN testAllocations' = {}
    BY <1>2, <1>4 DEF Clear, In, harnessVars, LockInv, CallsFit
  <2>2. /\ DOMAIN testAllocations' \subseteq DOMAIN testAllocations /\ MapNodes' \subseteq MapNodes
    BY <1>4 DEF Clear, Without, MapNodes
  <2>3. /\ Blocks' = Blocks /\ WarningNodes' = WarningNodes /\ Lists' = Lists /\ Tests' = Tests
    BY <1>1, <2>1 DEF Blocks, WarningNodes, Lists, Tests
  <2>4. \A o : In(o)' => o = "clear" /\ phase' = "start"
    <3>1. CASE Finish /\ phase' = "body"
      BY <2>1, <3>1, LastFrame DEF Finish
    <3>2. CASE UNCHANGED <<calls, phase>>
      BY <2>1, <3>2 DEF In, Top
    <3> QED BY <1>4, <3>1, <3>2 DEF Clear
  <2>5. NewNode' = {} /\ Coming' = {} /\ OnItsWay' = {}
    BY <1>2, <2>1, <2>3, <2>4 DEF NewNode, Coming, OnItsWay
  <2>6. Apart'
    BY <1>1, <2>1, <2>2, <2>3, <2>5, FewerOwners DEF MemoryInv
  <2>7. ListsMade'
    BY <1>1, <2>1, <2>3, <2>5 DEF MemoryInv, ListsMade, IsNode, Ended
  <2>8. Recorded'
    BY <1>1, <2>1, <2>2, <2>4 DEF MemoryInv, Recorded, OfTests, Early, Ended
  <2>9. Living'
    BY <1>1, <2>1, <2>2, <2>3, <2>4, <2>5 DEF MemoryInv, Living, Unfreed, Ended
  <2> QED BY <1>3, <2>6, <2>7, <2>8, <2>9 DEF MemoryInv
<1>5. CASE ReportDone
  <2>1. /\ In("report") /\ calls # <<>> /\ phase = "end" /\ phase' \in {"start", "results"}
        /\ returned' = Nothing /\ calls' = Tail(calls)
        /\ UNCHANGED <<heap, testAllocations, callbackNode, queue, stlInitialized, warnings>>
    BY <1>5 DEF ReportDone, NextTest, Finish, In, LockInv, CallsFit
  <2>2. calls' = <<>> /\ \A o : ~In(o)'
    BY <2>1, LastFrame
  <2>3. /\ Blocks' = Blocks /\ MapNodes' = MapNodes /\ WarningNodes' = WarningNodes
        /\ Lists' = Lists /\ Tests' = Tests
    BY <1>1, <2>1, SameOwners
  <2>4. NewNode' = {} /\ Coming' = {} /\ OnItsWay' = {}
    BY <1>2, <2>1, <2>2, <2>3 DEF NewNode, Coming, OnItsWay
  <2>5. Apart'
    BY <1>1, <2>1, <2>3, <2>4, FewerOwners DEF MemoryInv
  <2>6. ListsMade'
    BY <1>1, <2>1, <2>3, <2>4 DEF MemoryInv, ListsMade, IsNode, Ended
  <2>7. Recorded'
    BY <1>1, <2>1, <2>2 DEF MemoryInv, Recorded, OfTests, Early, Ended
  <2>8. Living'
    BY <1>1, <2>1, <2>2, <2>3, <2>4 DEF MemoryInv, Living, Unfreed, Ended
  <2> QED BY <1>3, <2>5, <2>6, <2>7, <2>8 DEF MemoryInv
<1>6. CASE Attach
  <2>1. /\ In("attach") /\ calls # <<>> /\ phase = "attach" /\ returned \in Blocks
        /\ phase' = IF FirstTest = NoTest THEN "results" ELSE "start"
        /\ returned' = Nothing /\ calls' = Tail(calls) /\ callbackNode' = returned
        /\ UNCHANGED <<heap, testAllocations, queue, stlInitialized, warnings>>
    BY <1>6 DEF Attach, Finish, In, LockInv, CallsFit
  <2>2. calls' = <<>> /\ \A o : ~In(o)'
    BY <2>1, LastFrame
  <2>3. /\ Blocks' = Blocks /\ MapNodes' = MapNodes /\ WarningNodes' = WarningNodes
        /\ Lists' = Lists /\ Tests' = Tests
    BY <1>1, <2>1 DEF Blocks, MapNodes, WarningNodes, Lists, Tests
  <2>4. NewNode' = {} /\ Coming' = {} /\ OnItsWay' = {} /\ NewNode = {returned}
    BY <1>2, <2>1, <2>2, <2>3 DEF NewNode, Coming, OnItsWay
  <2>5. Apart'
    <3>1. Nodes' \subseteq Nodes /\ Asked' \subseteq Asked
      BY <1>1, <2>1, <2>3, <2>4 DEF Nodes, Asked
    <3> QED BY <1>1, <2>1, <2>3, <2>4, <3>1 DEF MemoryInv, Apart
  <2>6. ListsMade'
    BY <1>1, <2>1, <2>3, <2>4 DEF MemoryInv, ListsMade, IsNode, Ended
  <2>7. phase' = "results" => DOMAIN testAllocations = {}
    BY <2>1 DEF FirstTest, NoTest, MemoryInv, Recorded
  <2>8. Recorded'
    BY <1>1, <2>1, <2>2, <2>7 DEF MemoryInv, Recorded, OfTests, Early, Ended
  <2>9. Living'
    BY <1>1, <2>1, <2>2, <2>3, <2>4 DEF MemoryInv, Living, Unfreed, Ended
  <2> QED BY <1>3, <2>5, <2>6, <2>8, <2>9 DEF MemoryInv
<1>7. CASE Detach
  <2>1. /\ In("detach") /\ calls # <<>> /\ phase = "detach" /\ phase' = "cleanup"
        /\ returned' = Nothing /\ calls' = Tail(calls) /\ currentTest' = FirstTest
        /\ UNCHANGED <<heap, testAllocations, callbackNode, queue, stlInitialized, warnings>>
    BY <1>7 DEF Detach, Finish, In, LockInv, CallsFit
  <2>2. calls' = <<>> /\ \A o : ~In(o)'
    BY <2>1, LastFrame
  <2>3. /\ Blocks' = Blocks /\ MapNodes' = MapNodes /\ WarningNodes' = WarningNodes
        /\ Lists' = Lists /\ Tests' = Tests
    BY <1>1, <2>1, SameOwners
  <2>4. NewNode' = {} /\ Coming' = {} /\ OnItsWay' = {}
    BY <1>2, <2>1, <2>2, <2>3 DEF NewNode, Coming, OnItsWay
  <2>5. Apart'
    BY <1>1, <2>1, <2>3, <2>4, FewerOwners DEF MemoryInv
  <2>6. ListsMade'
    BY <1>1, <2>1, <2>3, <2>4 DEF MemoryInv, ListsMade, IsNode, Ended
  <2>7. Recorded'
    BY <1>1, <2>1, <2>2 DEF MemoryInv, Recorded, OfTests, Early, Ended
  <2>8. \A t \in Tests : heap[lists[t]] # "freed"
    BY <2>1 DEF MemoryInv, ListsMade, Living, Unfreed, Lists, Ended
  <2>9. FirstTest # NoTest => FirstTest \in Tests
    BY PlacesOfTests DEF Marching
  <2>10. Living'
    BY <1>1, <2>1, <2>2, <2>3, <2>4, <2>8, <2>9 DEF MemoryInv, Living, Unfreed, Ended
  <2> QED BY <1>3, <2>5, <2>6, <2>7, <2>10 DEF MemoryInv
<1> QED BY <1>4, <1>5, <1>6, <1>7

(***************************************************************************)
(* What main and the static objects are given becomes theirs.              *)
(***************************************************************************)
LEMMA GivenKeepsMemory ==
    ASSUME LockInv, Marching, MapInv, MemoryInv,
           StaticInitialized \/ ListMade \/ (NewReturns /\ returned \in Blocks)
    PROVE  MemoryInv'
<1>1. calls = <<>>
  <2>1. phase \in {"static", "lists", "body"}
    BY DEF StaticInitialized, ListMade, NewReturns
  <2>2. StaticInitialized => phase = "static"
    BY DEF StaticInitialized
  <2> QED BY <2>2, PhaseOfCalls DEF ListMade, NewReturns, MemoryInv
<1>2. /\ returned \in Blocks /\ returned' = Nothing /\ calls' = <<>>
      /\ UNCHANGED <<heap, testAllocations, callbackNode, queue, stlInitialized, warnings, freed>>
  BY <1>1 DEF StaticInitialized, ListMade, NewReturns, harnessVars, Nothing, LockInv, NodesAreObjects,
              BadAlloc, Blocks
<1>3. /\ Nothing \notin Blocks /\ NoBlock \notin Blocks
      /\ NewNode = {} /\ OnItsWay = {returned} /\ Coming = {returned} /\ \A o : ~In(o)
  BY <1>1, <1>2, NothingComes DEF Coming
<1>4. /\ Blocks' = Blocks /\ MapNodes' = MapNodes /\ WarningNodes' = WarningNodes /\ Tests' = Tests
      /\ NewNode' = {} /\ OnItsWay' = {} /\ Coming' = {} /\ \A o : ~In(o)'
  BY <1>2, <1>3 DEF Blocks, MapNodes, WarningNodes, Tests, NewNode, OnItsWay, Coming, In
<1>5. returned \notin DOMAIN given /\ returned \notin Lists /\ returned \notin Nodes
  BY <1>3 DEF MemoryInv, Apart, Asked
<1>6. /\ Nodes' = Nodes
      /\ held \cup kept \cup freed \subseteq DOMAIN given
      /\ \A b \in held : given[b] # NoTest
      /\ phase \notin Ended => heap[returned] # "freed"
  BY <1>2, <1>3, <1>4 DEF Nodes, MemoryInv, HeldIsGiven, Living, Unfreed
<1>7. ASSUME NEW owner, given' = With(given, returned, owner), lists' = lists, phase' = phase,
             currentTest' = currentTest,
             \/ phase = "static" /\ owner = NoTest /\ kept' = {returned} /\ held' = held
             \/ phase = "body" /\ owner # NoTest /\ kept' = kept /\ held' = held \cup {returned}
      PROVE  MemoryInv'
  <2>1. /\ DOMAIN given' = DOMAIN given \cup {returned}
        /\ given'[returned] = owner
        /\ \A b \in DOMAIN given : given'[b] = given[b]
    BY <1>5, <1>7 DEF With
  <2>2. Lists' = Lists
    BY <1>4, <1>7 DEF Lists
  <2>3. Apart'
    <3>1. Asked' \subseteq Asked
      BY <1>2, <1>3, <1>4, <2>1, <2>2 DEF Asked
    <3> QED BY <1>3, <1>4, <1>5, <1>6, <1>7, <2>1, <2>2, <3>1 DEF MemoryInv, Apart
  <2>4. ListsMade'
    BY <1>2, <1>4, <1>7, <2>2 DEF MemoryInv, ListsMade, IsNode
  <2>5. HeldIsGiven'
    <3>1. held' \cup kept' \cup freed' \subseteq DOMAIN given'
      BY <1>2, <1>6, <1>7, <2>1
    <3>2. (held' \cup kept') \cap freed' = {}
      BY <1>2, <1>5, <1>6, <1>7 DEF MemoryInv, HeldIsGiven
    <3>3. \A b \in held' : given'[b] # NoTest
      BY <1>6, <1>7, <2>1
    <3> QED BY <3>1, <3>2, <3>3 DEF HeldIsGiven
  <2>6. Recorded'
    <3>1. CASE phase = "static"
      <4>1. DOMAIN testAllocations = {}
        BY <3>1 DEF MemoryInv, Recorded
      <4> QED BY <1>2, <1>4, <1>7, <3>1, <4>1 DEF MemoryInv, Recorded, Early
    <3>2. CASE phase = "body" /\ owner # NoTest
      <4>1. DOMAIN testAllocations \subseteq (OfTests(DOMAIN given) \ freed) \cup {returned}
        BY <1>3, <3>2 DEF MemoryInv, Recorded
      <4>2. OfTests(DOMAIN given)' = OfTests(DOMAIN given) \cup {returned} /\ returned \notin freed
        BY <1>5, <1>6, <2>1, <3>2 DEF OfTests
      <4>3. DOMAIN testAllocations \cap {b \in DOMAIN given' : given'[b] = NoTest} = {}
        BY <2>1, <3>2 DEF MemoryInv, Recorded
      <4> QED BY <1>2, <1>4, <1>7, <3>2, <4>1, <4>2, <4>3 DEF Recorded, Early
    <3> QED BY <1>7, <3>1, <3>2
  <2>7. Living'
    <3>1. Unfreed({b \in kept : given[b] = NoTest})'
      <4>1. \A b \in kept' : given'[b] = NoTest => b = returned \/ (b \in kept /\ given[b] = NoTest)
        BY <1>6, <1>7, <2>1
      <4> QED BY <1>2, <1>6, <1>7, <4>1 DEF MemoryInv, Living, Unfreed, Ended
    <3> QED BY <1>2, <1>3, <1>4, <1>7, <2>2, <3>1 DEF MemoryInv, Living, Unfreed, Ended
  <2> QED BY <2>3, <2>4, <2>5, <2>6, <2>7 DEF MemoryInv
<1>8. CASE StaticInitialized
  BY <1>7, <1>8 DEF StaticInitialized, harnessVars
<1>9. CASE NewReturns /\ returned \in Blocks
  <2>1. BadAlloc \notin Blocks
    BY NothingComes
  <2> QED BY <1>7, <1>9, <2>1 DEF NewReturns, harnessVars, MapInv, GivenToEarlier
<1>10. CASE ListMade
  <2>1. /\ phase = "lists" /\ lists' = [lists EXCEPT ![currentTest] = returned]
        /\ currentTest' = Following(currentTest)
        /\ phase' = IF currentTest' = NoTest THEN "attach" ELSE "lists"
        /\ UNCHANGED <<held, kept, given>> /\ currentTest \in Tests
    BY <1>10 DEF ListMade, Marching
  <2>2. /\ lists \in [Tests -> Blocks \cup {NoBlock}]
        /\ \A t \in Tests : lists[t] # NoBlock <=> t < currentTest
    BY <2>1 DEF MemoryInv, ListsMade
  <2>3. \A t \in Tests : lists'[t] = IF t = currentTest THEN returned ELSE lists[t]
    BY <2>1, <2>2
  <2>4. /\ Len(queue) \in Nat /\ Tests = 1 .. Len(queue)
        /\ currentTest' = NoTest => currentTest = Len(queue)
        /\ currentTest' # NoTest => currentTest' = currentTest + 1
    BY <2>1, PlacesOfTests DEF Marching
  <2>5. Lists' = Lists \cup {returned}
    <3>1. lists[currentTest] = NoBlock
      BY <2>1, <2>2, <2>4
    <3> QED BY <1>3, <1>4, <2>1, <2>3, <3>1, <1>2 DEF Lists
  <2>6. Apart'
    <3>1. Asked' \subseteq Asked
      BY <1>2, <1>3, <1>4, <2>1, <2>5 DEF Asked
    <3>2. \A s, t \in Tests : lists'[s] = lists'[t] /\ lists'[s] # NoBlock => s = t
      <4>1. \A s \in Tests : lists[s] # returned
        BY <1>3, <1>5, <1>2 DEF Lists
      <4> QED BY <2>3, <4>1 DEF MemoryInv, Apart
    <3> QED BY <1>3, <1>4, <1>5, <1>6, <2>1, <2>5, <3>1, <3>2 DEF MemoryInv, Apart
  <2>7. ListsMade'
    <3>1. lists' \in [Tests -> Blocks \cup {NoBlock}]
      BY <1>2, <2>1, <2>2
    <3>2. phase' = "lists" => \A t \in Tests : lists'[t] # NoBlock <=> t < currentTest'
      <4> SUFFICES ASSUME currentTest' # NoTest, NEW t \in Tests
                   PROVE  lists'[t] # NoBlock <=> t < currentTest'
        BY <2>1
      <4>1. t < currentTest' <=> t < currentTest \/ t = currentTest
        BY <2>1, <2>4
      <4>2. returned # NoBlock
        BY <1>2, <1>3
      <4> QED BY <2>2, <2>3, <4>1, <4>2
    <3>3. phase' = "attach" => \A t \in Tests : lists'[t] # NoBlock
      <4> SUFFICES ASSUME currentTest' = NoTest, NEW t \in Tests
                   PROVE  lists'[t] # NoBlock
        BY <2>1
      <4>1. t < currentTest \/ t = currentTest
        BY <2>1, <2>4
      <4>2. returned # NoBlock
        BY <1>2, <1>3
      <4> QED BY <2>2, <2>3, <4>1, <4>2
    <3>4. \A b \in Lists' \cup WarningNodes' : IsNode(b)'
      BY <1>2, <1>3, <1>4, <2>1, <2>5 DEF MemoryInv, ListsMade, IsNode
    <3> QED BY <1>2, <1>4, <2>1, <3>1, <3>2, <3>3, <3>4 DEF MemoryInv, ListsMade
  <2>8. HeldIsGiven'
    BY <1>2, <2>1 DEF MemoryInv, HeldIsGiven
  <2>9. Recorded'
    <3>1. queue # <<>>
      BY <2>1 DEF Tests
    <3> QED BY <1>2, <1>4, <2>1, <3>1 DEF MemoryInv, Recorded, OfTests, Early
  <2>10. Living'
    BY <1>2, <1>3, <1>4, <2>1, <2>5 DEF MemoryInv, Living, Unfreed, Ended
  <2> QED BY <2>6, <2>7, <2>8, <2>9, <2>10 DEF MemoryInv
<1> QED BY <1>8, <1>9, <1>10

(***************************************************************************)
(* main calls an operation of a container.                                 *)
(***************************************************************************)
LEMMA CallbackKeepsMemory ==
    ASSUME LockInv, MemoryInv, Callback
    PROVE  MemoryInv'
<1> DEFINE left == IF phase = "end" THEN DOMAIN testAllocations ELSE {}
<1>1. PICK op \in {"attach", "clear", "report", "detach"} :
          /\ ProgramCalls(op, left)
          /\ op = "report" => phase = "end"
          /\ phase \in {"attach", "start", "end", "detach"}
  BY DEF Callback
<1>2. /\ calls = <<>> /\ returned = Nothing /\ returned' = Nothing /\ Begin(op, NoBlock, left)
      /\ UNCHANGED <<heap, testAllocations, callbackNode, phase, queue, stlInitialized, currentTest, warnings>>
      /\ UNCHANGED <<held, kept, lists, given, freed>>
  BY <1>1 DEF Callback, ProgramCalls, ProgramRuns, harnessVars, programVars
<1>3. /\ calls' # <<>> /\ Top'.left = left /\ \A o : In(o)' <=> o = op
  BY <1>2, FrameBegun
<1>4. /\ Blocks' = Blocks /\ MapNodes' = MapNodes /\ WarningNodes' = WarningNodes
      /\ Lists' = Lists /\ Tests' = Tests
  BY <1>2, SameOwners
<1>5. /\ Nothing \notin Blocks /\ NewNode = {} /\ OnItsWay = {} /\ Coming = {} /\ \A o : ~In(o)
  BY <1>2, NothingComes
<1>6. NewNode' = {} /\ OnItsWay' = {} /\ Coming' = {}
  BY <1>2, <1>3, <1>4, <1>5 DEF NewNode, OnItsWay, Coming
<1>7. Apart'
  BY <1>2, <1>4, <1>5, <1>6, FewerOwners DEF MemoryInv
<1>8. ListsMade'
  BY <1>2, <1>4, <1>6 DEF MemoryInv, ListsMade, IsNode
<1>9. HeldIsGiven'
  BY <1>2 DEF MemoryInv, HeldIsGiven
<1>10. Recorded'
  BY <1>1, <1>2, <1>3, <1>5, <1>6 DEF MemoryInv, Recorded, OfTests, Early, Ended
<1>11. Living'
  BY <1>1, <1>2, <1>3, <1>4, <1>5, <1>6 DEF MemoryInv, Living, Unfreed, Ended
<1> QED BY <1>7, <1>8, <1>9, <1>10, <1>11 DEF MemoryInv

(***************************************************************************)
(* A step of main and of the static objects.                               *)
(***************************************************************************)
LEMMA MainKeepsMemory ==
    ASSUME LockInv, Marching, MapInv, MemoryInv, InMain
    PROVE  MemoryInv'
<1>0. /\ \A p : Running(p) => phase = p /\ calls = <<>> /\ returned = Nothing
      /\ Void \notin Blocks /\ Nothing \notin Blocks /\ Void # Nothing /\ Blocks \subseteq Nat
      /\ "object" \in Kinds
      /\ HeldIsGiven /\ DOMAIN given \subseteq Blocks
  BY NothingComes DEF Running, ProgramRuns, Kinds, MemoryInv, MapInv, GivenToEarlier
<1>1. CASE StaticInitializer \/ NewList
  BY <1>0, <1>1, AllocateKeepsMemory DEF StaticInitializer, NewList
<1>2. CASE StaticInitialized \/ ListMade
  BY <1>2, GivenKeepsMemory
<1>3. CASE BadAllocEscapes \/ MapDestructor
  BY <1>3, StopKeepsMemory DEF BadAllocEscapes, MapDestructor, Terminate, Undefined, Ended, programVars
<1>4. CASE Callback
  BY <1>4, CallbackKeepsMemory
<1>5. CASE Main \/ PrintResults \/ WarningsDeleted \/ MainReturns \/ StaticDeleted \/ ProcessExits
  <2>1. /\ UNCHANGED <<heap, testAllocations, callbackNode, warnings, lists, given, queue, freed, held, kept>>
        /\ calls = <<>> /\ calls' = <<>> /\ returned \notin Blocks /\ returned' \in {returned, Nothing}
    BY <1>0, <1>5
    DEF Main, PrintResults, WarningsDeleted, MainReturns, StaticDeleted, ProcessExits,
        allocVars, harnessVars, programVars
  <2>2. \/ UNCHANGED <<phase, currentTest, stlInitialized>> /\ phase # "cleanup"
        \/ /\ phase = "static" /\ currentTest' = FirstTest
           /\ phase' = IF FirstTest = NoTest THEN "attach" ELSE "lists"
        \/ phase = "results" /\ phase' = "detach"
        \/ /\ phase = "cleanup" /\ phase' = "cleanup" /\ returned # Nothing /\ returned' = Nothing
           /\ currentTest' = IF heap[lists[currentTest]] = "freed" THEN Following(currentTest)
                             ELSE currentTest
        \/ phase \in {"cleanup", "body"} /\ phase' = "statics"
        \/ phase = "statics" /\ phase' = "over"
    BY <1>0, <1>5
    DEF Main, PrintResults, WarningsDeleted, MainReturns, StaticDeleted, ProcessExits, harnessVars
  <2>3. HeldIsGiven'
    BY <1>0, <2>1 DEF HeldIsGiven
  <2> QED BY <2>1, <2>2, <2>3, ControlKeepsMemory
<1>6. CASE DeleteWarnings
  <2> DEFINE nodes == {n \in {w.node : w \in warnings[currentTest]} : heap[n] # "freed"}
             b == IF nodes = {} THEN lists[currentTest] ELSE First(nodes)
  <2>1. /\ phase = "cleanup" /\ calls = <<>> /\ returned = Nothing /\ currentTest # NoTest
        /\ DeallocateManaged("object", b)
        /\ UNCHANGED <<lists, given, held, kept, freed>> /\ currentTest \in Tests
    BY <1>0, <1>6 DEF DeleteWarnings, programVars, Marching
  <2>2. nodes \subseteq WarningNodes
    BY <2>1 DEF WarningNodes
  <2>3. Lists \cup WarningNodes \subseteq Blocks
    BY DEF MemoryInv, ListsMade, IsNode
  <2>4. /\ lists[currentTest] \in Lists /\ heap[lists[currentTest]] # "freed"
        /\ \A t \in Tests : lists[t] # NoBlock
    BY <2>1 DEF MemoryInv, ListsMade, Living, Lists, Ended
  <2>5. nodes # {} => First(nodes) \in nodes
    <3>1. nodes \in SUBSET Nat
      BY <1>0, <2>2, <2>3
    <3> HIDE DEF nodes
    <3> QED BY <3>1, FirstIsMember
  <2>6. /\ b \in Lists \cup WarningNodes /\ heap[b] # "freed"
        /\ b \in Lists => b = lists[currentTest]
    <3>1. Lists \cap WarningNodes = {}
      BY DEF MemoryInv, Apart, Asked, Nodes
    <3> HIDE DEF nodes
    <3>2. nodes # {} => b \in WarningNodes /\ heap[b] # "freed"
      <4>1. \A n \in nodes : heap[n] # "freed"
        BY DEF nodes
      <4> QED BY <2>2, <2>5, <4>1
    <3>3. nodes = {} => b = lists[currentTest]
      OBVIOUS
    <3> HIDE DEF b
    <3> QED BY <2>4, <3>1, <3>2, <3>3
  <2> HIDE DEF nodes, b
  <2>7. b \in Blocks /\ heap[b] = "object"
    BY <2>3, <2>6 DEF MemoryInv, ListsMade, IsNode
  <2>8. \A t \in Tests : t > currentTest => lists[t] # b
    <3> SUFFICES ASSUME NEW t \in Tests, t > currentTest, lists[t] = b
                 PROVE  FALSE
      OBVIOUS
    <3>1. b \in Lists
      BY <2>4 DEF Lists
    <3>2. t = currentTest
      BY <2>1, <2>4, <2>6, <3>1 DEF MemoryInv, Apart
    <3>3. t \in Nat
      BY PlacesOfTests DEF Marching
    <3> QED BY <3>2, <3>3
  <2>9. /\ b \notin DOMAIN given /\ b \notin MapNodes
        /\ DOMAIN testAllocations \subseteq DOMAIN given
    <3>1. DOMAIN testAllocations \subseteq DOMAIN given
      BY <2>1 DEF MemoryInv, Recorded, Early, Ended, OfTests
    <3>2. b \notin DOMAIN given /\ b \notin MapNodes
      BY <2>6 DEF MemoryInv, Apart, Asked, Nodes
    <3> QED BY <3>1, <3>2
  <2>10. HeldIsGiven' /\ b \notin kept'
    BY <1>0, <2>1, <2>9 DEF HeldIsGiven
  <2> QED BY <1>0, <2>1, <2>7, <2>8, <2>9, <2>10, DeallocateKeepsMemory
<1>7. CASE StaticDestructor
  <2> DEFINE b == First(kept)
  <2>1. PICK kind \in Kinds : DeallocateManaged(kind, b)
    BY <1>7 DEF StaticDestructor
  <2>2. /\ phase = "statics" /\ calls = <<>> /\ returned = Nothing
        /\ UNCHANGED <<held, lists, given, freed>> /\ kept' = kept \ {b}
        /\ DOMAIN testAllocations = {} \/ recurseLock
    BY <1>0, <1>7 DEF StaticDestructor
  <2>3. b \in kept
    <3>1. kept \in SUBSET Nat /\ kept # {}
      BY <1>0, <1>7 DEF StaticDestructor, HeldIsGiven
    <3> QED BY <3>1, FirstIsMember
  <2> HIDE DEF b
  <2>4. b \in DOMAIN given /\ b \in Blocks /\ HeldIsGiven'
    BY <1>0, <2>2, <2>3 DEF HeldIsGiven
  <2>5. b \notin MapNodes
    BY <2>4 DEF MemoryInv, Apart, Asked, Nodes
  <2>6. /\ held' \subseteq held /\ kept' \subseteq kept /\ b \notin kept'
        /\ ~recurseLock /\ b \in DOMAIN testAllocations => FALSE
        /\ phase \notin {"body", "cleanup"} /\ phase \in {"body", "cleanup", "statics"}
    BY <2>2
  <2> QED BY <2>1, <2>2, <2>4, <2>5, <2>6, DeallocateKeepsMemory
<1> QED BY <1>1, <1>2, <1>3, <1>4, <1>5, <1>6, <1>7 DEF InMain

(***************************************************************************)
(* A step of a test function, or of the compiler it calls.                 *)
(***************************************************************************)
LEMMA TestKeepsMemory ==
    ASSUME LockInv, Marching, MapInv, MemoryInv, InTest
    PROVE  MemoryInv'
<1>0. /\ TestRuns => phase = "body" /\ calls = <<>> /\ returned = Nothing
      /\ \A p : Running(p) => phase = p /\ calls = <<>> /\ returned = Nothing
      /\ Void \notin Blocks /\ Nothing \notin Blocks /\ BadAlloc \notin Blocks
      /\ HeldIsGiven /\ DOMAIN given \subseteq Blocks
  BY NothingComes DEF TestRuns, Running, ProgramRuns, MemoryInv, MapInv, GivenToEarlier
<1>1. CASE New
  <2>1. PICK kind \in Kinds : AllocateManaged(kind)
    BY <1>1 DEF New
  <2> QED BY <1>0, <1>1, <2>1, AllocateKeepsMemory DEF New, Does
<1>2. CASE NewReturns /\ returned \in Blocks
  BY <1>2, GivenKeepsMemory
<1>3. CASE Delete
  <2>1. PICK b \in held \cup kept, kind \in Kinds :
            /\ DeallocateManaged(kind, b)
            /\ held' = held \ {b} /\ kept' = kept \ {b}
            /\ freed' = IF kind = heap[b] /\ ~recurseLock /\ given[b] = currentTest
                        THEN freed \cup {b} ELSE freed
    BY <1>3 DEF Delete
  <2>2. /\ phase = "body" /\ calls = <<>> /\ returned = Nothing /\ UNCHANGED <<lists, given>>
    BY <1>0, <1>3 DEF Delete
  <2>3. b \in DOMAIN given /\ b \in Blocks
    BY <1>0 DEF HeldIsGiven
  <2>4. HeldIsGiven'
    BY <1>0, <2>1, <2>2, <2>3 DEF HeldIsGiven
  <2>5. b \notin MapNodes /\ b \notin Lists \cup WarningNodes \cup {callbackNode}
    <3>1. b # NoBlock
      BY <2>3, NothingComes
    <3> QED BY <2>3, <3>1 DEF MemoryInv, Apart, Asked, Nodes
  <2>6. /\ held' \subseteq held /\ kept' \subseteq kept /\ b \notin kept'
        /\ freed' = freed \/ (freed' = freed \cup {b} /\ heap[b] = kind /\ ~recurseLock)
        /\ phase # "cleanup" /\ phase \in {"body", "cleanup", "statics"}
    BY <2>1, <2>2
  <2> QED BY <2>1, <2>2, <2>3, <2>4, <2>5, <2>6, DeallocateKeepsMemory
<1>4. CASE Use \/ CompilerReadsBehindArgv
  BY <1>4, StopKeepsMemory DEF Use, CompilerReadsBehindArgv, Undefined, Ended, programVars
<1>5. CASE \/ NewReturns /\ returned \notin Blocks
           \/ DeleteReturns \/ Compile \/ CompilerSteps \/ CompilerEndsProcess
  <2>1. /\ UNCHANGED <<heap, testAllocations, callbackNode, warnings, lists, given, queue, freed, held, kept>>
        /\ calls = <<>> /\ calls' = <<>> /\ returned \notin Blocks /\ returned' \in {returned, Nothing}
        /\ phase = "body"
    BY <1>0, <1>5
    DEF NewReturns, DeleteReturns, Compile, CompilerSteps, CompilerEndsProcess, ByCompiler, Does,
        allocVars, harnessVars, programVars
  <2>2. UNCHANGED <<phase, currentTest, stlInitialized>> \/ phase' = "statics"
    BY <1>5 DEF NewReturns, DeleteReturns, Compile, CompilerSteps, CompilerEndsProcess, ByCompiler, harnessVars
  <2>3. HeldIsGiven'
    BY <1>0, <2>1 DEF HeldIsGiven
  <2> QED BY <2>1, <2>2, <2>3, ControlKeepsMemory
<1>6. CASE \E how \in {"passed", "failed", "exception"} : FunctionEnds(how)
  <2>1. PICK how : FunctionEnds(how)
    BY <1>6
  <2>2. PICK K \in SUBSET held : kept' = kept \cup K
    BY <2>1 DEF FunctionEnds
  <2>3. /\ UNCHANGED <<heap, testAllocations, callbackNode, warnings, lists, given, queue, freed>>
        /\ held' = {} /\ calls = <<>> /\ calls' = <<>> /\ returned = Nothing /\ returned' = Nothing
        /\ phase = "body" /\ phase' = "end"
    BY <1>0, <2>1 DEF FunctionEnds, TestEnds, allocVars
  <2>4. HeldIsGiven' /\ \A b \in kept' : given[b] = NoTest => b \in kept
    BY <1>0, <2>2, <2>3 DEF HeldIsGiven
  <2> QED BY <1>0, <2>3, <2>4, ControlKeepsMemory
<1> QED BY <1>1, <1>2, <1>3, <1>4, <1>5, <1>6 DEF InTest

(***************************************************************************)
(* Every step keeps the owners of the blocks apart, and what they need     *)
(* unfreed.                                                                *)
(***************************************************************************)
LEMMA NextKeepsMemory ==
    ASSUME LockInv, Marching, MapInv, MemoryInv, [Next]_vars
    PROVE  MemoryInv'
<1>1. CASE Operators
  <2>1. UNCHANGED programVars /\ Allocator
    BY <1>1 DEF Operators
  <2>2. CASE AskForNode
    <3>1. returned = Nothing /\ AllocateManaged("object") /\ calls # <<>> /\ "object" \in Kinds
      BY <2>2 DEF AskForNode, Recording, Reporting, In, Kinds
    <3> QED BY <2>1, <3>1, AllocateKeepsMemory
  <2>3. CASE GiveNodeBack \/ Record \/ RecordFails \/ Erase \/ Warn \/ NodeMissing
    BY <2>1, <2>3, ContainersKeepMemory
  <2>4. CASE Report
    BY <2>1, <2>4, ReportKeepsMemory
  <2>5. CASE Clear \/ ReportDone \/ Attach \/ Detach
    BY <2>1, <2>5, EventsKeepMemory
  <2> QED BY <2>1, <2>2, <2>3, <2>4, <2>5 DEF Allocator
<1>2. CASE UNCHANGED vars
  <2>1. UNCHANGED <<heap, testAllocations, callbackNode, warnings, lists, given, queue, freed, held, kept,
                    calls, returned, phase, currentTest, stlInitialized>>
    BY <1>2 DEF vars, allocVars, harnessVars, programVars
  <2>2. /\ Blocks' = Blocks /\ MapNodes' = MapNodes /\ WarningNodes' = WarningNodes
        /\ Lists' = Lists /\ Tests' = Tests /\ Top' = Top
    BY <2>1, SameOwners DEF Top
  <2>3. NewNode' = NewNode /\ Coming' = Coming /\ OnItsWay' = OnItsWay /\ \A o : In(o)' <=> In(o)
    BY <2>1, <2>2 DEF NewNode, Coming, OnItsWay, In
  <2>4. Apart'
    BY <2>1, <2>2, <2>3, FewerOwners DEF MemoryInv
  <2>5. ListsMade' /\ HeldIsGiven'
    BY <2>1, <2>2, <2>3 DEF MemoryInv, ListsMade, HeldIsGiven, IsNode
  <2>6. Recorded'
    BY <2>1, <2>2, <2>3 DEF MemoryInv, Recorded, OfTests
  <2>7. Living'
    BY <2>1, <2>2, <2>3 DEF MemoryInv, Living, Unfreed
  <2> QED BY <2>4, <2>5, <2>6, <2>7 DEF MemoryInv
<1> QED BY <1>1, <1>2, MainKeepsMemory, TestKeepsMemory DEF Next

(***************************************************************************)
(* A process starts without any block.                                     *)
(***************************************************************************)
LEMMA InitMemory ==
    ASSUME Init
    PROVE  MemoryInv
<1>1. /\ heap = <<>> /\ testAllocations = <<>> /\ calls = <<>> /\ returned = Nothing
      /\ callbackNode = NoBlock /\ phase = "static" /\ stlInitialized = FALSE
      /\ warnings = [t \in Tests |-> {}] /\ lists = [t \in Tests |-> NoBlock]
      /\ held = {} /\ kept = {} /\ freed = {} /\ given = <<>>
  BY DEF Init, InitAllocator, InitHarness
<1>2. Blocks = {} /\ DOMAIN testAllocations = {} /\ DOMAIN given = {}
  BY <1>1 DEF Blocks
<1>3. MapNodes = {} /\ WarningNodes = {} /\ Lists = {} /\ Coming = {} /\ \A o : ~In(o)
  BY <1>1, <1>2 DEF MapNodes, WarningNodes, Lists, Coming, In
<1>4. NewNode = {} /\ OnItsWay = {}
  BY <1>1, <1>3 DEF NewNode, OnItsWay
<1>5. Nodes = {} /\ Asked = {}
  BY <1>1, <1>2, <1>3, <1>4 DEF Nodes, Asked
<1>6. Apart
  BY <1>1, <1>2, <1>3, <1>4, <1>5 DEF Apart
<1>7. ListsMade
  BY <1>1, <1>3, <1>4 DEF ListsMade
<1>8. HeldIsGiven
  BY <1>1 DEF HeldIsGiven
<1>9. Recorded
  BY <1>1, <1>2, <1>3 DEF Recorded, Early
<1>10. Living
  BY <1>1, <1>2, <1>3, <1>4 DEF Living, Unfreed
<1> QED BY <1>6, <1>7, <1>8, <1>9, <1>10 DEF MemoryInv

(***************************************************************************)
(* The memory of the harness, with all that it rests on.                   *)
(***************************************************************************)
LEMMA MemoryIsInvariant == Spec => [](LockInv /\ MapInv /\ Marching /\ MemoryInv)
<1>1. Init => MemoryInv
  BY InitMemory
<1>2. LockInv /\ MapInv /\ Marching /\ MemoryInv /\ [Next]_vars => MemoryInv'
  BY NextKeepsMemory
<1> QED BY <1>1, <1>2, CountingIsInvariant, PTL DEF Spec

(***************************************************************************)
(* The lists of warnings and the node of the callback are nobody else's    *)
(* while the tests run: no test, and no callback that clears or reports    *)
(* the map, frees them (TracingAllocator.cpp:62-99, 152-259,               *)
(* Testing.cpp:185-211).                                                   *)
(***************************************************************************)
THEOREM HarnessKeepsItsMemory == Spec => []HarnessMemorySurvives
<1>1. MemoryInv => HarnessMemorySurvives
  <2> SUFFICES ASSUME MemoryInv, phase \notin {"cleanup", "statics"} \cup Ended,
                      NEW b \in {lists[t] : t \in Tests} \cup {callbackNode}
                                \cup UNION {{w.node : w \in warnings[t]} : t \in Tests},
                      b # NoBlock
               PROVE  heap[b] # "freed"
    BY DEF HarnessMemorySurvives
  <2>1. b \in Lists \cup WarningNodes \cup ({callbackNode} \ {NoBlock})
    BY DEF Lists, WarningNodes
  <2> QED BY <2>1 DEF MemoryInv, Living, Unfreed
<1> QED BY <1>1, MemoryIsInvariant, PTL

-----------------------------------------------------------------------------
(* The leaks.                                                              *)

(***************************************************************************)
(* A step that reports no leak, ends no test and gives a test nothing      *)
(* keeps what is known of the leaks.                                       *)
(***************************************************************************)
LEMMA QuietKeepsLeaking ==
    ASSUME Leaking, DOMAIN given \subseteq Blocks,
           UNCHANGED <<queue, given, freed, outcome>>, blind \subseteq blind',
           Blocks \subseteq Blocks', \A b \in Blocks : heap[b] = "freed" => heap'[b] = "freed",
           \A t \in Tests : Leaks(t)' = Leaks(t),
           \/ phase' = phase /\ currentTest' = currentTest
           \/ phase \notin {"end", "terminated", "undefined"} /\ phase' # "end"
           \/ phase' \in {"terminated", "undefined"} /\ currentTest' = currentTest,
           phase' = "end" =>
               /\ phase = "end" /\ currentTest' = currentTest
               /\ calls' = <<>> => calls = <<>> /\ DOMAIN testAllocations' = DOMAIN testAllocations
               /\ In("report")' => In("report") /\ Top'.left = Top.left,
           phase' = "body" =>
               \/ /\ phase = "body" /\ currentTest' = currentTest
                  /\ \A b \in DOMAIN given :
                         heap'[b] = "freed" \/ (In("erase")' /\ b = Top'.block)
                         <=> heap[b] = "freed" \/ (In("erase") /\ b = Top.block)
               \/ GivenTo(currentTest') = {}
    PROVE  Leaking'
<1>1. Tests' = Tests /\ \A t \in Tests : GivenTo(t)' = GivenTo(t) /\ LeakBlocks(t)' = LeakBlocks(t)
  BY DEF Tests, GivenTo, LeakBlocks
<1> SUFFICES ASSUME NEW t \in Tests
             PROVE
        /\ LeakBlocks(t)' \subseteq Blocks' /\ LeaksAreFreed(t)'
        /\ outcome'[t] = "none" => Leaks(t)' = {}
        /\ t \notin blind' =>
            /\ outcome'[t] # "none" /\ ~(currentTest' = t /\ phase' \in {"end", "terminated", "undefined"}) =>
                   LeakBlocks(t)' = GivenTo(t)' \ freed'
            /\ phase' = "end" /\ currentTest' = t /\ calls' = <<>> =>
                   Leaks(t)' = {} /\ DOMAIN testAllocations' = GivenTo(t)' \ freed'
            /\ phase' = "end" /\ currentTest' = t /\ In("report")' =>
                   /\ LeakBlocks(t)' \cup Top'.left = GivenTo(t)' \ freed'
                   /\ LeakBlocks(t)' \cap Top'.left = {}
            /\ phase' = "body" /\ currentTest' = t =>
                   \A b \in GivenTo(t)' :
                       b \in freed' <=> heap'[b] = "freed" \/ (In("erase")' /\ b = Top'.block)
  BY <1>1 DEF Leaking
<1>2. LeakBlocks(t)' \subseteq Blocks' /\ LeaksAreFreed(t)' /\ (outcome'[t] = "none" => Leaks(t)' = {})
  <2>1. LeakBlocks(t) \subseteq Blocks /\ LeaksAreFreed(t) /\ (outcome[t] = "none" => Leaks(t) = {})
    BY DEF Leaking
  <2>2. \A w \in Leaks(t) : w.block \in Blocks /\ heap'[w.block] = "freed"
    BY <2>1 DEF LeakBlocks, LeaksAreFreed
  <2>3. LeaksAreFreed(t)'
    BY <2>1, <2>2 DEF LeaksAreFreed
  <2> QED BY <1>1, <2>1, <2>3
<1>3. SUFFICES ASSUME t \notin blind'
      PROVE
            /\ outcome'[t] # "none" /\ ~(currentTest' = t /\ phase' \in {"end", "terminated", "undefined"}) =>
                   LeakBlocks(t)' = GivenTo(t)' \ freed'
            /\ phase' = "end" /\ currentTest' = t /\ calls' = <<>> =>
                   Leaks(t)' = {} /\ DOMAIN testAllocations' = GivenTo(t)' \ freed'
            /\ phase' = "end" /\ currentTest' = t /\ In("report")' =>
                   /\ LeakBlocks(t)' \cup Top'.left = GivenTo(t)' \ freed'
                   /\ LeakBlocks(t)' \cap Top'.left = {}
            /\ phase' = "body" /\ currentTest' = t =>
                   \A b \in GivenTo(t)' :
                       b \in freed' <=> heap'[b] = "freed" \/ (In("erase")' /\ b = Top'.block)
  BY <1>2
<1>4. t \notin blind
  BY <1>3
<1>5. outcome'[t] # "none" /\ ~(currentTest' = t /\ phase' \in {"end", "terminated", "undefined"}) =>
          LeakBlocks(t)' = GivenTo(t)' \ freed'
  BY <1>1, <1>4 DEF Leaking
<1>6. phase' = "end" /\ currentTest' = t =>
          /\ calls' = <<>> => Leaks(t)' = {} /\ DOMAIN testAllocations' = GivenTo(t)' \ freed'
          /\ In("report")' => /\ LeakBlocks(t)' \cup Top'.left = GivenTo(t)' \ freed'
                              /\ LeakBlocks(t)' \cap Top'.left = {}
  BY <1>1, <1>4 DEF Leaking
<1>7. phase' = "body" /\ currentTest' = t =>
          \A b \in GivenTo(t)' :
              b \in freed' <=> heap'[b] = "freed" \/ (In("erase")' /\ b = Top'.block)
  <2>1. GivenTo(t) \subseteq DOMAIN given
    BY DEF GivenTo
  <2> QED BY <1>1, <1>4, <2>1 DEF Leaking
<1> QED BY <1>5, <1>6, <1>7

(***************************************************************************)
(* A process that has stopped reports nothing any more.                    *)
(***************************************************************************)
LEMMA StopKeepsLeaking ==
    ASSUME Leaking, DOMAIN given \subseteq Blocks, NEW p \in {"terminated", "undefined"}, Stop(p),
           UNCHANGED <<given, freed, blind>>
    PROVE  Leaking'
<1>1. /\ UNCHANGED <<heap, warnings, queue, outcome, currentTest>> /\ phase' = p
  BY DEF Stop, harnessVars
<1>2. Blocks' = Blocks /\ \A t \in Tests : Leaks(t)' = Leaks(t)
  BY <1>1 DEF Blocks, Leaks
<1> QED BY <1>1, <1>2, QuietKeepsLeaking

(***************************************************************************)
(* operator new for the program or a container.                            *)
(***************************************************************************)
LEMMA AllocateKeepsLeaking ==
    ASSUME LockInv, Leaking, DOMAIN given \subseteq Blocks, NEW kind \in Kinds, AllocateManaged(kind),
           returned = Nothing, UNCHANGED programVars, phase = "end" => calls # <<>>
    PROVE  Leaking'
<1>1. /\ UNCHANGED <<testAllocations, phase, currentTest, queue, warnings, outcome, given, freed, blind>>
  BY DEF AllocateManaged, harnessVars, programVars
<1>2. Blocks \subseteq Blocks' /\ \A b \in Blocks : heap'[b] = heap[b]
  <2>1. CASE heap' = heap
    BY <2>1 DEF Blocks
  <2>2. CASE heap' = Append(heap, kind)
    BY <2>2, NewBlock DEF LockInv, NodesAreObjects
  <2> QED BY <2>1, <2>2 DEF AllocateManaged
<1>3. \/ calls' = calls /\ Top' = Top
      \/ calls = <<>> /\ ~In("erase")' /\ ~In("erase") /\ phase # "end"
  <2>1. CASE calls' = calls
    BY <2>1 DEF Top
  <2>2. CASE ~recurseLock /\ \E b : Begin("record", b, {})
    <3>1. calls = <<>>
      BY <2>2 DEF LockInv, OneCall
    <3> QED BY <2>2, <3>1, FrameBegun DEF In
  <2> QED BY <2>1, <2>2 DEF AllocateManaged
<1>4. \A t \in Tests : Leaks(t)' = Leaks(t)
  BY <1>1 DEF Leaks
<1>5. calls' = calls /\ Top' = Top => \A o : In(o)' <=> In(o)
  BY DEF In
<1> QED BY <1>1, <1>2, <1>3, <1>4, <1>5, QuietKeepsLeaking

(***************************************************************************)
(* operator delete outside of a test, as the leaks see it.                 *)
(***************************************************************************)
LEMMA DeallocateKeepsLeaking ==
    ASSUME LockInv, Leaking, DOMAIN given \subseteq Blocks, NEW kind, NEW b, DeallocateManaged(kind, b),
           phase \in {"cleanup", "statics"}, UNCHANGED <<given, freed, blind>>
    PROVE  Leaking'
<1>1. CASE Undefined
  BY <1>1, StopKeepsLeaking DEF Undefined
<1>2. CASE ~Undefined
  <2>1. /\ UNCHANGED <<phase, currentTest, queue, warnings, outcome>>
        /\ heap' = heap \/ Free(b)
    BY <1>2 DEF DeallocateManaged, harnessVars
  <2>2. Blocks' = Blocks /\ \A x \in Blocks : heap[x] = "freed" => heap'[x] = "freed"
    <3>1. CASE heap' = heap
      BY <3>1 DEF Blocks
    <3>2. CASE Free(b)
      BY <3>2, FreedBlock DEF LockInv, NodesAreObjects
    <3> QED BY <2>1, <3>1, <3>2
  <2>3. \A t \in Tests : Leaks(t)' = Leaks(t)
    BY <2>1 DEF Leaks
  <2> QED BY <2>1, <2>2, <2>3, QuietKeepsLeaking
<1> QED BY <1>1, <1>2

(***************************************************************************)
(* The operations of the containers that report no leak.                   *)
(***************************************************************************)
LEMMA ContainersKeepLeaking ==
    ASSUME LockInv, MapInv, MemoryInv, Leaking, UNCHANGED programVars,
           \/ Record \/ RecordFails \/ Erase \/ Warn \/ GiveNodeBack \/ NodeMissing
           \/ Clear \/ Attach \/ Detach
    PROVE  Leaking'
<1>0. /\ UNCHANGED <<given, freed, blind>> /\ DOMAIN given \subseteq Blocks
      /\ heap \in Seq(Marks)
  BY DEF programVars, MapInv, GivenToEarlier, LockInv, NodesAreObjects
<1>1. CASE NodeMissing
  BY <1>0, <1>1, StopKeepsLeaking DEF NodeMissing, Terminate
<1>2. CASE GiveNodeBack
  <2>1. CASE Undefined
    BY <1>0, <2>1, StopKeepsLeaking DEF Undefined
  <2>2. CASE UNCHANGED <<heap, recurseLock, calls, testAllocations, callbackNode, phase, harnessVars>>
    <3>1. /\ Blocks' = Blocks /\ Top' = Top /\ \A o : In(o)' <=> In(o)
          /\ UNCHANGED <<queue, outcome, currentTest, warnings>>
      BY <2>2 DEF Blocks, Top, In, harnessVars
    <3>2. \A t \in Tests : Leaks(t)' = Leaks(t)
      BY <3>1 DEF Leaks
    <3> QED BY <1>0, <2>2, <3>1, <3>2, QuietKeepsLeaking
  <2> QED BY <1>2, <2>1, <2>2, NodeIsGivenBack
<1>3. CASE Record \/ RecordFails
  <2>1. /\ In("record") /\ calls # <<>> /\ calls' = Tail(calls) /\ phase \in {"lists", "body"}
        /\ UNCHANGED <<heap, phase, queue, outcome, currentTest, warnings>>
    BY <1>3 DEF Record, RecordFails, Finish, In, harnessVars, MemoryInv, Recorded
  <2>2. /\ \A o : ~In(o)' /\ ~In("erase")
        /\ Blocks' = Blocks /\ \A t \in Tests : Leaks(t)' = Leaks(t)
    BY <2>1, LastFrame DEF In, Blocks, Leaks
  <2> QED BY <1>0, <2>1, <2>2, QuietKeepsLeaking
<1>4. CASE Erase
  <2>1. /\ In("erase") /\ calls # <<>> /\ calls' = Tail(calls) /\ phase = "body" /\ Free(Top.block)
        /\ UNCHANGED <<phase, queue, outcome, currentTest, warnings>>
    BY <1>4 DEF Erase, Finish, In, harnessVars, MemoryInv, Recorded
  <2>2. /\ \A o : ~In(o)' /\ \A t \in Tests : Leaks(t)' = Leaks(t)
    BY <2>1, LastFrame DEF Leaks
  <2>3. Blocks' = Blocks /\ \A x \in Blocks : heap'[x] = IF x = Top.block THEN "freed" ELSE heap[x]
    BY <1>0, <2>1, FreedBlock
  <2> QED BY <1>0, <2>1, <2>2, <2>3, QuietKeepsLeaking
<1>5. CASE Warn
  <2>1. /\ In("warn") /\ calls # <<>> /\ calls' = Tail(calls) /\ phase \in {"body", "statics"}
        /\ ReportWarning("wrong delete", Top.block, returned)
        /\ UNCHANGED <<heap, phase, queue, outcome, currentTest>>
    BY <1>5 DEF Warn, Finish, In, MemoryInv, Recorded
  <2>2. \A o : ~In(o)' /\ ~In("erase") /\ Blocks' = Blocks
    BY <2>1, LastFrame DEF In, Blocks
  <2>3. \A t \in Tests : Leaks(t)' = Leaks(t)
    <3> DEFINE new == [kind |-> "wrong delete", block |-> Top.block, node |-> returned]
    <3>1. new.kind # "leak"
      OBVIOUS
    <3>2. warnings' = [warnings EXCEPT ![currentTest] = @ \cup {new}]
      BY <2>1 DEF ReportWarning
    <3> HIDE DEF new
    <3>3. warnings = [t \in Tests |-> warnings[t]]
      BY DEF MemoryInv, ListsMade
    <3>4. \A t \in Tests :
              warnings'[t] = IF t = currentTest THEN warnings[t] \cup {new} ELSE warnings[t]
      BY <3>2, <3>3
    <3> QED BY <3>1, <3>4 DEF Leaks
  <2> QED BY <1>0, <2>1, <2>2, <2>3, QuietKeepsLeaking
<1>6. CASE Clear
  <2>1. /\ phase = "start" /\ phase' \in {"start", "body"}
        /\ UNCHANGED <<heap, queue, outcome, currentTest, warnings>>
    BY <1>6 DEF Clear, harnessVars, LockInv, CallsFit
  <2>2. /\ Blocks' = Blocks /\ \A t \in Tests : Leaks(t)' = Leaks(t)
        /\ GivenTo(currentTest') = {}
    BY <2>1 DEF Blocks, Leaks, GivenTo, MapInv, GivenToEarlier
  <2> QED BY <1>0, <2>1, <2>2, QuietKeepsLeaking
<1>7. CASE Attach \/ Detach
  <2>1. /\ phase \in {"attach", "detach"} /\ phase' \in {"results", "start", "cleanup"}
        /\ UNCHANGED <<heap, queue, outcome, warnings>>
    BY <1>7 DEF Attach, Detach, LockInv, CallsFit
  <2>2. /\ Blocks' = Blocks /\ \A t \in Tests : Leaks(t)' = Leaks(t)
    BY <2>1 DEF Blocks, Leaks
  <2> QED BY <1>0, <2>1, <2>2, QuietKeepsLeaking
<1> QED BY <1>1, <1>2, <1>3, <1>4, <1>5, <1>6, <1>7

(***************************************************************************)
(* Report makes a leak of a block that has not been one, and frees it.     *)
(***************************************************************************)
LEMMA ReportKeepsLeaking ==
    ASSUME LockInv, MapInv, Marching, MemoryInv, Leaking, UNCHANGED programVars, Report
    PROVE  Leaking'
<1> DEFINE b == First(Top.left)
<1>1. /\ UNCHANGED <<given, freed, blind>> /\ DOMAIN given \subseteq Blocks /\ heap \in Seq(Marks)
      /\ In("report") /\ calls # <<>> /\ phase = "end" /\ currentTest \in Tests
      /\ \A t \in Tests : outcome[t] # "none" <=> t <= currentTest
      /\ NoTest \notin Tests /\ Tests \subseteq Nat
  BY PlacesOfTests DEF programVars, MapInv, GivenToEarlier, LockInv, NodesAreObjects, Report, In,
                       CallsFit, Marching
<1>2. b \in Top.left /\ b \in Blocks
  <2>1. Top.left \in SUBSET Nat /\ Top.left # {} /\ Top.left \subseteq Blocks
    BY <1>1 DEF Report, MemoryInv, Recorded, LockInv, NodesAreObjects, Blocks
  <2> QED BY <2>1, FirstIsMember
<1>3. heap[b] # "freed"
  BY <1>1, <1>2 DEF MemoryInv, Living, Unfreed
<1>4. /\ ReportWarning("leak", b, returned) /\ Free(b)
      /\ calls' = <<[Top EXCEPT !.left = @ \ {b}]>> \o Tail(calls)
      /\ UNCHANGED <<phase, queue, currentTest, outcome>>
  BY <1>3 DEF Report
<1> HIDE DEF b
<1>5. Blocks' = Blocks /\ \A x \in Blocks : heap'[x] = IF x = b THEN "freed" ELSE heap[x]
  BY <1>1, <1>4, FreedBlock
<1>6. /\ calls' # <<>> /\ Top'.left = Top.left \ {b}
  <2>1. PICK f : calls = <<f>> /\ f = Frame(Top.op, Top.block, Top.left)
    BY <1>1 DEF LockInv, OneCall
  <2>2. Top = f /\ Tail(calls) = <<>>
    BY <2>1 DEF Top
  <2>3. [Top EXCEPT !.left = @ \ {b}] = Frame(Top.op, Top.block, Top.left \ {b})
    <3>1. \A op, block, left :
              [Frame(op, block, left) EXCEPT !.left = @ \ {b}] = Frame(op, block, left \ {b})
      BY DEF Frame
    <3> QED BY <2>1, <2>2, <3>1
  <2>4. calls' = <<Frame(Top.op, Top.block, Top.left \ {b})>>
    <3>1. \A g : <<g>> \o <<>> = <<g>>
      OBVIOUS
    <3> QED BY <1>4, <2>2, <2>3, <3>1
  <2>5. Top' = Frame(Top.op, Top.block, Top.left \ {b}) /\ calls' # <<>>
    BY <2>4 DEF Top
  <2> QED BY <2>5 DEF Frame
<1> DEFINE new == [kind |-> "leak", block |-> b, node |-> returned]
<1>7. /\ new.kind = "leak" /\ new.block = b
      /\ \A t \in Tests : warnings'[t] = IF t = currentTest THEN warnings[t] \cup {new} ELSE warnings[t]
  <2>1. warnings' = [warnings EXCEPT ![currentTest] = @ \cup {new}]
    BY <1>4 DEF ReportWarning
  <2>2. new.kind = "leak" /\ new.block = b
    OBVIOUS
  <2> HIDE DEF new
  <2>3. warnings = [t \in Tests |-> warnings[t]]
    BY DEF MemoryInv, ListsMade
  <2>4. \A t \in Tests : warnings'[t] = IF t = currentTest THEN warnings[t] \cup {new} ELSE warnings[t]
    BY <2>1, <2>3
  <2> QED BY <2>2, <2>4
<1> HIDE DEF new
<1>8. /\ Tests' = Tests
      /\ \A t \in Tests : Leaks(t)' = IF t = currentTest THEN Leaks(t) \cup {new} ELSE Leaks(t)
      /\ \A t \in Tests : GivenTo(t)' = GivenTo(t)
  BY <1>1, <1>4, <1>7 DEF Tests, Leaks, GivenTo
<1>9. \A t \in Tests : LeakBlocks(t)' = IF t = currentTest THEN LeakBlocks(t) \cup {b} ELSE LeakBlocks(t)
  BY <1>7, <1>8 DEF LeakBlocks
<1>10. ASSUME NEW t \in Tests
       PROVE  LeakBlocks(t)' \subseteq Blocks' /\ LeaksAreFreed(t)'
  <2>1. LeakBlocks(t) \subseteq Blocks /\ LeaksAreFreed(t)
    BY DEF Leaking
  <2>2. \A w \in Leaks(t) : w.block \in Blocks /\ heap[w.block] = "freed" /\ w.block # b
    BY <1>3, <2>1 DEF LeakBlocks, LeaksAreFreed
  <2>3. \A w \in Leaks(t)' : w \in Leaks(t) \/ w = new
    BY <1>8
  <2>4. \A w \in Leaks(t)' : heap'[w.block] = "freed"
    BY <1>2, <1>5, <1>7, <2>2, <2>3
  <2>5. \A v, w \in Leaks(t)' : v.block = w.block => v = w
    BY <1>7, <2>1, <2>2, <2>3 DEF LeaksAreFreed
  <2> QED BY <1>2, <1>5, <1>9, <2>1, <2>4, <2>5 DEF LeaksAreFreed
<1>11. ASSUME NEW t \in Tests, outcome'[t] = "none"
       PROVE  Leaks(t)' = {}
  <2>1. t # currentTest
    BY <1>1, <1>4, <1>11
  <2> QED BY <1>4, <1>8, <1>11, <2>1 DEF Leaking
<1>12. ASSUME NEW t \in Tests, t \notin blind', t # currentTest, outcome'[t] # "none"
       PROVE  LeakBlocks(t)' = GivenTo(t)' \ freed'
  BY <1>1, <1>4, <1>8, <1>9, <1>12 DEF Leaking
<1>13. ASSUME currentTest \notin blind'
       PROVE  /\ LeakBlocks(currentTest)' \cup Top'.left = GivenTo(currentTest)' \ freed'
              /\ LeakBlocks(currentTest)' \cap Top'.left = {}
  <2>1. /\ LeakBlocks(currentTest) \cup Top.left = GivenTo(currentTest) \ freed
        /\ LeakBlocks(currentTest) \cap Top.left = {}
    BY <1>1, <1>13 DEF Leaking
  <2>2. LeakBlocks(currentTest)' = LeakBlocks(currentTest) \cup {b}
    <3>1. Leaks(currentTest)' = Leaks(currentTest) \cup {new}
      BY <1>1, <1>4, <1>7, <1>8 DEF Leaks
    <3> QED BY <1>7, <3>1, <1>4 DEF LeakBlocks
  <2>3. GivenTo(currentTest)' = GivenTo(currentTest)
    BY <1>1, <1>4 DEF GivenTo
  <2> QED BY <1>1, <1>2, <1>6, <2>1, <2>2, <2>3
<1>14. phase' = "end" /\ currentTest' = currentTest
  BY <1>1, <1>4
<1> QED BY <1>6, <1>8, <1>10, <1>11, <1>12, <1>13, <1>14 DEF Leaking

(***************************************************************************)
(* The callbacks of the harness: the blocks that are in the map at the end *)
(* of a test are the ones it leaves, and after the last of them has become *)
(* a warning main goes on.                                                 *)
(***************************************************************************)
LEMMA CallbackKeepsLeaking ==
    ASSUME LockInv, MapInv, Marching, MemoryInv, Leaking, Callback
    PROVE  Leaking'
<1>1. /\ calls = <<>> /\ DOMAIN given \subseteq Blocks
      /\ UNCHANGED <<heap, testAllocations, phase, queue, currentTest, warnings, outcome, given, freed, blind>>
  BY DEF Callback, ProgramCalls, ProgramRuns, harnessVars, programVars, MapInv, GivenToEarlier
<1>2. /\ Tests' = Tests /\ Blocks' = Blocks
      /\ \A t \in Tests : /\ Leaks(t)' = Leaks(t) /\ LeakBlocks(t)' = LeakBlocks(t)
                          /\ GivenTo(t)' = GivenTo(t)
  BY <1>1 DEF Tests, Blocks, Leaks, LeakBlocks, GivenTo
<1>3. CASE phase \in {"attach", "start", "detach"}
  BY <1>1, <1>2, <1>3, QuietKeepsLeaking
<1>4. CASE phase = "end" /\ ProgramCalls("report", DOMAIN testAllocations)
  <2>1. calls' # <<>> /\ Top'.left = DOMAIN testAllocations
    BY <1>1, <1>4, FrameBegun DEF ProgramCalls
  <2> SUFFICES ASSUME NEW t \in Tests
               PROVE
        /\ LeakBlocks(t)' \subseteq Blocks' /\ LeaksAreFreed(t)'
        /\ outcome'[t] = "none" => Leaks(t)' = {}
        /\ t \notin blind' =>
            /\ outcome'[t] # "none" /\ currentTest' # t => LeakBlocks(t)' = GivenTo(t)' \ freed'
            /\ currentTest' = t =>
                   /\ LeakBlocks(t)' \cup Top'.left = GivenTo(t)' \ freed'
                   /\ LeakBlocks(t)' \cap Top'.left = {}
    BY <1>1, <1>2, <1>4, <2>1 DEF Leaking
  <2>2. LeaksAreFreed(t)'
    <3>1. LeaksAreFreed(t)
      BY DEF Leaking
    <3> QED BY <1>1, <1>2, <3>1 DEF LeaksAreFreed
  <2>3. LeakBlocks(t)' \subseteq Blocks' /\ (outcome'[t] = "none" => Leaks(t)' = {})
    BY <1>1, <1>2 DEF Leaking
  <2>4. ASSUME t \notin blind', outcome'[t] # "none", currentTest' # t
        PROVE  LeakBlocks(t)' = GivenTo(t)' \ freed'
    BY <1>1, <1>2, <2>4 DEF Leaking
  <2>5. ASSUME t \notin blind', currentTest' = t
        PROVE  /\ LeakBlocks(t)' \cup Top'.left = GivenTo(t)' \ freed'
               /\ LeakBlocks(t)' \cap Top'.left = {}
    <3>1. Leaks(t) = {} /\ DOMAIN testAllocations = GivenTo(t) \ freed
      BY <1>1, <1>4, <2>5 DEF Leaking
    <3>2. LeakBlocks(t) = {}
      BY <3>1 DEF LeakBlocks
    <3> QED BY <1>1, <1>2, <2>1, <3>1, <3>2
  <2> QED BY <2>2, <2>3, <2>4, <2>5
<1> QED BY <1>3, <1>4 DEF Callback

(***************************************************************************)
(* Every block of the map has become a warning, and main goes on.          *)
(***************************************************************************)
LEMMA ReportDoneKeepsLeaking ==
    ASSUME LockInv, MapInv, Marching, Leaking, UNCHANGED programVars, ReportDone
    PROVE  Leaking'
<1>1. /\ UNCHANGED <<given, freed, blind, heap, queue, warnings, outcome>>
      /\ In("report") /\ calls # <<>> /\ phase = "end" /\ currentTest \in Tests /\ Top.left = {}
      /\ \A t \in Tests : outcome[t] # "none" <=> t <= currentTest
      /\ calls' = Tail(calls) /\ NextTest
  BY DEF programVars, ReportDone, Finish, In, LockInv, CallsFit, Marching
<1>2. phase' \in {"results", "start"} /\ currentTest' # currentTest
  <2>1. Following(currentTest) # currentTest
    BY <1>1, PlacesOfTests DEF Marching
  <2> QED BY <1>1, <2>1 DEF NextTest
<1>3. /\ Tests' = Tests /\ Blocks' = Blocks
      /\ \A t \in Tests : /\ Leaks(t)' = Leaks(t) /\ LeakBlocks(t)' = LeakBlocks(t)
                          /\ GivenTo(t)' = GivenTo(t)
  BY <1>1 DEF Tests, Blocks, Leaks, LeakBlocks, GivenTo
<1> SUFFICES ASSUME NEW t \in Tests
             PROVE  /\ LeakBlocks(t)' \subseteq Blocks' /\ LeaksAreFreed(t)'
                    /\ outcome'[t] = "none" => Leaks(t)' = {}
                    /\ t \notin blind' /\ outcome'[t] # "none" => LeakBlocks(t)' = GivenTo(t)' \ freed'
  BY <1>2, <1>3 DEF Leaking
<1>4. LeaksAreFreed(t)'
  <2>1. LeaksAreFreed(t)
    BY DEF Leaking
  <2> QED BY <1>1, <1>3, <2>1 DEF LeaksAreFreed
<1>5. LeakBlocks(t)' \subseteq Blocks' /\ (outcome'[t] = "none" => Leaks(t)' = {})
  BY <1>1, <1>3 DEF Leaking
<1>6. ASSUME t \notin blind', outcome'[t] # "none"
      PROVE  LeakBlocks(t)' = GivenTo(t)' \ freed'
  <2>1. LeakBlocks(t) = GivenTo(t) \ freed
    <3>1. CASE t = currentTest
      BY <1>1, <1>6, <3>1 DEF Leaking
    <3>2. CASE t # currentTest
      BY <1>1, <1>6, <3>2 DEF Leaking
    <3> QED BY <3>1, <3>2
  <2> QED BY <1>1, <1>3, <2>1
<1> QED BY <1>4, <1>5, <1>6

(***************************************************************************)
(* A step of main and of the static objects.                               *)
(***************************************************************************)
LEMMA MainKeepsLeaking ==
    ASSUME LockInv, MapInv, Marching, MemoryInv, Leaking, InMain
    PROVE  Leaking'
<1>0. /\ \A p : Running(p) => phase = p /\ calls = <<>> /\ returned = Nothing
      /\ DOMAIN given \subseteq Blocks /\ "object" \in Kinds
  BY DEF Running, ProgramRuns, Kinds, MapInv, GivenToEarlier
<1>1. CASE StaticInitializer \/ NewList
  <2>1. /\ AllocateManaged("object") /\ returned = Nothing /\ UNCHANGED programVars
        /\ phase # "end"
    BY <1>0, <1>1 DEF StaticInitializer, NewList
  <2> QED BY <1>0, <2>1, AllocateKeepsLeaking
<1>2. CASE StaticInitialized
  <2>1. /\ phase = "static" /\ phase' = "static"
        /\ UNCHANGED <<heap, queue, warnings, outcome>>
    BY <1>2 DEF StaticInitialized, harnessVars
  <2>2. \A t \in Tests : outcome'[t] = "none" /\ Leaks(t)' = {}
    <3>1. \A t \in Tests : outcome[t] = "none" /\ Leaks(t) = {}
      BY <2>1 DEF Marching, Leaking
    <3> QED BY <2>1, <3>1 DEF Leaks
  <2>3. Tests' = Tests /\ \A t \in Tests : LeakBlocks(t)' = {} /\ LeaksAreFreed(t)'
    BY <2>1, <2>2 DEF Tests, LeakBlocks, LeaksAreFreed
  <2> QED BY <2>1, <2>2, <2>3 DEF Leaking
<1>3. CASE BadAllocEscapes \/ MapDestructor
  <2>1. /\ Stop("terminated") \/ Stop("undefined")
        /\ UNCHANGED <<given, freed, blind>>
    BY <1>3 DEF BadAllocEscapes, MapDestructor, Terminate, Undefined, programVars
  <2> QED BY <1>0, <2>1, StopKeepsLeaking
<1>4. CASE Callback
  BY <1>4, CallbackKeepsLeaking
<1>5. CASE \/ Main \/ ListMade \/ PrintResults \/ WarningsDeleted \/ MainReturns
           \/ StaticDeleted \/ ProcessExits
  <2>1. /\ UNCHANGED <<heap, queue, warnings, outcome, given, freed, blind>>
        /\ phase \in {"static", "lists", "results", "cleanup", "statics"}
        /\ phase' \notin {"end", "body"}
    BY <1>0, <1>5
    DEF Main, ListMade, PrintResults, WarningsDeleted, MainReturns, StaticDeleted, ProcessExits,
        allocVars, harnessVars, programVars
  <2>2. Blocks' = Blocks /\ \A t \in Tests : Leaks(t)' = Leaks(t)
    BY <2>1 DEF Blocks, Leaks
  <2> QED BY <1>0, <2>1, <2>2, QuietKeepsLeaking
<1>6. CASE DeleteWarnings
  <2>1. /\ phase = "cleanup" /\ UNCHANGED <<given, freed, blind>>
        /\ \E b : DeallocateManaged("object", b)
    BY <1>0, <1>6 DEF DeleteWarnings, programVars
  <2> QED BY <1>0, <2>1, DeallocateKeepsLeaking
<1>7. CASE StaticDestructor
  <2>1. /\ phase = "statics" /\ UNCHANGED <<given, freed, blind>>
        /\ \E b, kind : DeallocateManaged(kind, b)
    BY <1>0, <1>7 DEF StaticDestructor
  <2> QED BY <1>0, <2>1, DeallocateKeepsLeaking
<1> QED BY <1>1, <1>2, <1>3, <1>4, <1>5, <1>6, <1>7 DEF InMain

(***************************************************************************)
(* What new gives to a test is neither freed nor reported.                 *)
(***************************************************************************)
LEMMA GivenKeepsLeaking ==
    ASSUME LockInv, MapInv, Marching, MemoryInv, Leaking, NewReturns, returned \in Blocks
    PROVE  Leaking'
<1>1. /\ phase = "body" /\ calls = <<>> /\ calls' = <<>> /\ currentTest \in Tests
      /\ outcome[currentTest] = "none"
      /\ given' = With(given, returned, currentTest)
      /\ UNCHANGED <<heap, phase, queue, currentTest, warnings, outcome, freed, blind>>
  <2>1. Void \notin Blocks /\ BadAlloc \notin Blocks
    BY NothingComes
  <2>2. /\ phase = "body" /\ calls = <<>> /\ calls' = <<>>
        /\ given' = With(given, returned, currentTest)
        /\ UNCHANGED <<heap, phase, queue, currentTest, warnings, outcome, freed, blind>>
    BY <2>1 DEF NewReturns, harnessVars
  <2>3. currentTest \in Tests /\ currentTest \in Nat
    BY <2>2, PlacesOfTests DEF Marching
  <2>4. outcome[currentTest] = "none"
    BY <2>2, <2>3 DEF Marching
  <2> QED BY <2>2, <2>3, <2>4
<1>2. /\ returned \notin DOMAIN given /\ heap[returned] # "freed" /\ returned \notin freed
  <2>1. returned \in OnItsWay
    BY <1>1, NothingComes DEF Coming
  <2>2. returned \notin DOMAIN given
    BY <2>1 DEF MemoryInv, Apart
  <2>3. heap[returned] # "freed"
    BY <1>1, <2>1 DEF MemoryInv, Living, Unfreed, Ended
  <2> QED BY <2>2, <2>3 DEF MemoryInv, HeldIsGiven
<1>3. /\ Tests' = Tests /\ Blocks' = Blocks
      /\ \A t \in Tests : Leaks(t)' = Leaks(t) /\ LeakBlocks(t)' = LeakBlocks(t)
      /\ \A o : ~In(o) /\ ~In(o)'
  BY <1>1 DEF Tests, Blocks, Leaks, LeakBlocks, In
<1>4. /\ DOMAIN given' = DOMAIN given \cup {returned}
      /\ given'[returned] = currentTest
      /\ \A b \in DOMAIN given : given'[b] = given[b]
  BY <1>1, <1>2 DEF With
<1>5. /\ GivenTo(currentTest)' = GivenTo(currentTest) \cup {returned}
      /\ \A t \in Tests : t # currentTest => GivenTo(t)' = GivenTo(t)
  <2>1. GivenTo(currentTest)' = GivenTo(currentTest) \cup {returned}
    BY <1>1, <1>4 DEF GivenTo
  <2>2. \A t \in Tests : t # currentTest => GivenTo(t)' = GivenTo(t)
    BY <1>4 DEF GivenTo
  <2> QED BY <2>1, <2>2
<1> SUFFICES ASSUME NEW t \in Tests
             PROVE  /\ LeakBlocks(t)' \subseteq Blocks' /\ LeaksAreFreed(t)'
                    /\ outcome'[t] = "none" => Leaks(t)' = {}
                    /\ t \notin blind' =>
                        /\ outcome'[t] # "none" => LeakBlocks(t)' = GivenTo(t)' \ freed'
                        /\ currentTest' = t => \A b \in GivenTo(t)' : b \in freed' <=> heap'[b] = "freed"
  BY <1>1, <1>3 DEF Leaking
<1>6. LeaksAreFreed(t)'
  <2>1. LeaksAreFreed(t)
    BY DEF Leaking
  <2> QED BY <1>1, <1>3, <2>1 DEF LeaksAreFreed
<1>7. LeakBlocks(t)' \subseteq Blocks' /\ (outcome'[t] = "none" => Leaks(t)' = {})
  BY <1>1, <1>3 DEF Leaking
<1>8. ASSUME t \notin blind', outcome'[t] # "none"
      PROVE  LeakBlocks(t)' = GivenTo(t)' \ freed'
  BY <1>1, <1>3, <1>5, <1>8 DEF Leaking
<1>9. ASSUME t \notin blind', currentTest' = t, NEW b \in GivenTo(t)'
      PROVE  b \in freed' <=> heap'[b] = "freed"
  <2>1. CASE b = returned
    BY <1>1, <1>2, <2>1
  <2>2. CASE b \in GivenTo(t)
    <3>1. b \in freed <=> heap[b] = "freed"
      BY <1>1, <1>3, <1>9, <2>2 DEF Leaking
    <3> QED BY <1>1, <3>1
  <2> QED BY <1>1, <1>5, <1>9, <2>1, <2>2
<1> QED BY <1>6, <1>7, <1>8, <1>9

(***************************************************************************)
(* A test frees a block as it should exactly when the allocator frees it.  *)
(***************************************************************************)
LEMMA DeleteKeepsLeaking ==
    ASSUME LockInv, MapInv, Marching, MemoryInv, Leaking, Delete
    PROVE  Leaking'
<1>1. PICK b \in held \cup kept, kind \in Kinds :
          /\ DeallocateManaged(kind, b)
          /\ freed' = IF kind = heap[b] /\ ~recurseLock /\ given[b] = currentTest
                      THEN freed \cup {b} ELSE freed
  BY DEF Delete
<1>2. /\ phase = "body" /\ calls = <<>> /\ UNCHANGED <<given, blind>>
      /\ DOMAIN given \subseteq Blocks /\ heap \in Seq(Marks) /\ b \in DOMAIN given /\ b \in Blocks
      /\ \A o : ~In(o)
  BY DEF Delete, TestRuns, Running, ProgramRuns, MapInv, GivenToEarlier, LockInv, NodesAreObjects,
         MemoryInv, HeldIsGiven, In
<1>3. currentTest \in Tests /\ outcome[currentTest] = "none"
  <2>1. currentTest \in Tests /\ currentTest \in Nat
    BY <1>2, PlacesOfTests DEF Marching
  <2> QED BY <1>2, <2>1 DEF Marching
<1>4. CASE heap[b] = "freed"
  <2>1. kind # heap[b]
    BY <1>4 DEF Kinds
  <2>2. Undefined /\ freed' = freed
    BY <1>1, <1>4, <2>1 DEF DeallocateManaged
  <2> QED BY <1>2, <2>2, StopKeepsLeaking DEF Undefined
<1>5. CASE heap[b] # "freed"
  <2> DEFINE frees == heap[b] = kind /\ ~recurseLock
  <2>1. /\ UNCHANGED <<phase, queue, currentTest, warnings, outcome>>
        /\ \/ ~frees /\ heap' = heap /\ (calls' = calls \/ Begin("warn", b, {}))
           \/ frees /\ heap' = heap /\ Begin("erase", b, {})
           \/ frees /\ Free(b) /\ calls' = calls
    BY <1>1, <1>5 DEF DeallocateManaged, harnessVars
  <2>2. /\ Blocks' = Blocks /\ \A x \in Blocks : heap[x] = "freed" => heap'[x] = "freed"
        /\ \A x \in Blocks : x # b => heap'[x] = heap[x]
        /\ heap'[b] = "freed" \/ In("erase")' <=> frees
        /\ In("erase")' => Top'.block = b
    <3>1. CASE ~frees /\ heap' = heap /\ (calls' = calls \/ Begin("warn", b, {}))
      <4>1. ~In("erase")'
        <5>1. CASE calls' = calls
          BY <1>2, <5>1 DEF In
        <5>2. CASE Begin("warn", b, {})
          BY <1>2, <5>2, FrameBegun
        <5> QED BY <3>1, <5>1, <5>2
      <4> QED BY <1>5, <3>1, <4>1 DEF Blocks
    <3>2. CASE frees /\ heap' = heap /\ Begin("erase", b, {})
      <4>1. In("erase")' /\ Top'.block = b
        BY <1>2, <3>2, FrameBegun
      <4> QED BY <3>2, <4>1 DEF Blocks
    <3>3. CASE frees /\ Free(b) /\ calls' = calls
      <4>1. /\ Blocks' = Blocks
            /\ \A x \in Blocks : heap'[x] = IF x = b THEN "freed" ELSE heap[x]
        BY <1>2, <3>3, FreedBlock
      <4>2. ~In("erase")'
        BY <1>2, <3>3 DEF In
      <4> QED BY <1>2, <3>3, <4>1, <4>2
    <3> QED BY <2>1, <3>1, <3>2, <3>3
  <2>3. freed' = IF frees /\ given[b] = currentTest THEN freed \cup {b} ELSE freed
    BY <1>1
  <2> HIDE DEF frees
  <2>4. Tests' = Tests
        /\ \A t \in Tests : /\ Leaks(t)' = Leaks(t) /\ LeakBlocks(t)' = LeakBlocks(t)
                            /\ GivenTo(t)' = GivenTo(t)
    BY <1>2, <2>1 DEF Tests, Leaks, LeakBlocks, GivenTo
  <2> SUFFICES ASSUME NEW t \in Tests
               PROVE  /\ LeakBlocks(t)' \subseteq Blocks' /\ LeaksAreFreed(t)'
                      /\ outcome'[t] = "none" => Leaks(t)' = {}
                      /\ t \notin blind' =>
                          /\ outcome'[t] # "none" => LeakBlocks(t)' = GivenTo(t)' \ freed'
                          /\ currentTest' = t =>
                                 \A x \in GivenTo(t)' :
                                     x \in freed' <=> heap'[x] = "freed" \/ (In("erase")' /\ x = Top'.block)
    BY <1>2, <2>1, <2>4 DEF Leaking
  <2>5. LeaksAreFreed(t)'
    <3>1. LeaksAreFreed(t) /\ LeakBlocks(t) \subseteq Blocks
      BY DEF Leaking
    <3>2. \A w \in Leaks(t) : w.block \in Blocks /\ heap[w.block] = "freed"
      BY <3>1 DEF LeaksAreFreed, LeakBlocks
    <3> QED BY <2>2, <2>4, <3>1, <3>2 DEF LeaksAreFreed
  <2>6. LeakBlocks(t)' \subseteq Blocks' /\ (outcome'[t] = "none" => Leaks(t)' = {})
    BY <2>1, <2>2, <2>4 DEF Leaking
  <2>7. ASSUME t \notin blind', outcome'[t] # "none"
        PROVE  LeakBlocks(t)' = GivenTo(t)' \ freed'
    <3>1. t # currentTest
      BY <1>3, <2>1, <2>7
    <3>2. LeakBlocks(t) = GivenTo(t) \ freed
      BY <1>2, <2>1, <2>7, <3>1 DEF Leaking
    <3>3. GivenTo(t) \ freed' = GivenTo(t) \ freed
      BY <2>3, <3>1 DEF GivenTo
    <3> QED BY <2>4, <3>2, <3>3
  <2>8. ASSUME t \notin blind', currentTest' = t, NEW x \in GivenTo(t)'
        PROVE  x \in freed' <=> heap'[x] = "freed" \/ (In("erase")' /\ x = Top'.block)
    <3>1. x \in GivenTo(t) /\ x \in Blocks /\ given[x] = currentTest
      BY <1>2, <2>1, <2>4, <2>8 DEF GivenTo
    <3>2. x \in freed <=> heap[x] = "freed"
      BY <1>2, <2>1, <2>8, <3>1 DEF Leaking
    <3>3. CASE x = b
      BY <1>5, <2>2, <2>3, <3>1, <3>2, <3>3
    <3>4. CASE x # b
      BY <2>2, <2>3, <3>1, <3>2, <3>4
    <3> QED BY <3>3, <3>4
  <2> QED BY <2>5, <2>6, <2>7, <2>8
<1> QED BY <1>4, <1>5

(***************************************************************************)
(* When the function of a test ends, the map is what the test leaves.      *)
(***************************************************************************)
LEMMA EndKeepsLeaking ==
    ASSUME LockInv, MapInv, Marching, Leaking, NEW how \in {"passed", "failed", "exception"},
           FunctionEnds(how)
    PROVE  Leaking'
<1>1. /\ phase = "body" /\ phase' = "end" /\ calls = <<>> /\ returned = Nothing
      /\ calls' = <<>> /\ outcome' = [outcome EXCEPT ![currentTest] = how]
      /\ UNCHANGED <<heap, testAllocations, queue, currentTest, warnings, given, freed, blind>>
  BY DEF FunctionEnds, TestRuns, Running, ProgramRuns, TestEnds, allocVars
<1>2. currentTest \in Tests /\ outcome[currentTest] = "none"
  <2>1. currentTest \in Tests /\ currentTest \in Nat
    <3>1. queue \in Queues /\ currentTest \in Tests
      BY <1>1 DEF Marching
    <3> QED BY <3>1, PlacesOfTests
  <2> QED BY <1>1, <2>1 DEF Marching
<1>3. /\ Tests' = Tests /\ Blocks' = Blocks /\ \A o : ~In(o) /\ ~In(o)'
      /\ \A t \in Tests : /\ Leaks(t)' = Leaks(t) /\ LeakBlocks(t)' = LeakBlocks(t)
                          /\ GivenTo(t)' = GivenTo(t)
  BY <1>1 DEF Tests, Blocks, In, Leaks, LeakBlocks, GivenTo
<1>4. \A t \in Tests : outcome'[t] = IF t = currentTest THEN how ELSE outcome[t]
  BY <1>1 DEF Marching
<1> SUFFICES ASSUME NEW t \in Tests
             PROVE  /\ LeakBlocks(t)' \subseteq Blocks' /\ LeaksAreFreed(t)'
                    /\ outcome'[t] = "none" => Leaks(t)' = {}
                    /\ t \notin blind' =>
                        /\ outcome'[t] # "none" /\ currentTest' # t =>
                               LeakBlocks(t)' = GivenTo(t)' \ freed'
                        /\ currentTest' = t =>
                               Leaks(t)' = {} /\ DOMAIN testAllocations' = GivenTo(t)' \ freed'
  BY <1>1, <1>3 DEF Leaking
<1>5. LeaksAreFreed(t)'
  <2>1. LeaksAreFreed(t)
    BY DEF Leaking
  <2> QED BY <1>1, <1>3, <2>1 DEF LeaksAreFreed
<1>6. LeakBlocks(t)' \subseteq Blocks' /\ (outcome'[t] = "none" => Leaks(t)' = {})
  BY <1>3, <1>4 DEF Leaking
<1>7. ASSUME t \notin blind', outcome'[t] # "none", currentTest' # t
      PROVE  LeakBlocks(t)' = GivenTo(t)' \ freed'
  BY <1>1, <1>3, <1>4, <1>7 DEF Leaking
<1>8. ASSUME t \notin blind', currentTest' = t
      PROVE  Leaks(t)' = {} /\ DOMAIN testAllocations' = GivenTo(t)' \ freed'
  <2>1. t = currentTest /\ t \notin blind
    BY <1>1, <1>8
  <2>2. Leaks(t) = {}
    BY <1>2, <2>1 DEF Leaking
  <2>3. DOMAIN testAllocations = Live
    <3>1. Nothing \notin Blocks /\ Nothing # BadAlloc
      BY NothingComes
    <3> QED BY <1>1, <1>3, <2>1, <3>1 DEF MapInv, MapFollows
  <2>4. \A b \in GivenTo(t) : b \in freed <=> heap[b] = "freed"
    BY <1>1, <1>3, <2>1 DEF Leaking
  <2>5. Live = GivenTo(t) \ freed
    BY <2>1, <2>4 DEF Live, GivenTo
  <2> QED BY <1>1, <1>3, <2>2, <2>3, <2>5
<1> QED BY <1>5, <1>6, <1>7, <1>8

(***************************************************************************)
(* A step of a test function, or of the compiler it calls.                 *)
(***************************************************************************)
LEMMA TestKeepsLeaking ==
    ASSUME LockInv, MapInv, Marching, MemoryInv, Leaking, InTest
    PROVE  Leaking'
<1>0. /\ TestRuns => phase = "body" /\ calls = <<>> /\ returned = Nothing
      /\ \A p : Running(p) => phase = p /\ calls = <<>> /\ returned = Nothing
      /\ DOMAIN given \subseteq Blocks
  BY DEF TestRuns, Running, ProgramRuns, MapInv, GivenToEarlier
<1>1. CASE New
  <2>1. PICK kind \in Kinds : AllocateManaged(kind)
    BY <1>1 DEF New
  <2> QED BY <1>0, <1>1, <2>1, AllocateKeepsLeaking DEF New, Does
<1>2. CASE NewReturns /\ returned \in Blocks
  BY <1>2, GivenKeepsLeaking
<1>3. CASE Delete
  BY <1>3, DeleteKeepsLeaking
<1>4. CASE Use \/ CompilerReadsBehindArgv
  BY <1>0, <1>4, StopKeepsLeaking DEF Use, CompilerReadsBehindArgv, Undefined, programVars
<1>5. CASE \/ NewReturns /\ returned \notin Blocks
           \/ DeleteReturns \/ Compile \/ CompilerSteps \/ CompilerEndsProcess
  <2>1. /\ UNCHANGED <<heap, calls, queue, currentTest, warnings, outcome, given, freed>>
        /\ phase = "body" /\ phase' \in {"body", "statics"}
    BY <1>0, <1>5
    DEF NewReturns, DeleteReturns, Compile, CompilerSteps, CompilerEndsProcess, ByCompiler, Does,
        allocVars, harnessVars, programVars
  <2>2. blind \subseteq blind'
    BY <1>5
    DEF NewReturns, DeleteReturns, Compile, CompilerSteps, CompilerEndsProcess, ByCompiler, programVars
  <2>3. /\ Blocks' = Blocks /\ Top' = Top /\ \A o : In(o)' <=> In(o)
        /\ \A t \in Tests : Leaks(t)' = Leaks(t)
    BY <2>1 DEF Blocks, Top, In, Leaks
  <2> QED BY <1>0, <2>1, <2>2, <2>3, QuietKeepsLeaking
<1>6. CASE \E how \in {"passed", "failed", "exception"} : FunctionEnds(how)
  BY <1>6, EndKeepsLeaking
<1> QED BY <1>1, <1>2, <1>3, <1>4, <1>5, <1>6 DEF InTest

(***************************************************************************)
(* Every step keeps the leaks and the warnings about them together.        *)
(***************************************************************************)
LEMMA NextKeepsLeaking ==
    ASSUME LockInv, MapInv, Marching, MemoryInv, Leaking, [Next]_vars
    PROVE  Leaking'
<1>1. CASE Operators
  <2>1. UNCHANGED programVars /\ Allocator /\ DOMAIN given \subseteq Blocks
    BY <1>1 DEF Operators, MapInv, GivenToEarlier
  <2>2. CASE AskForNode
    <3>1. returned = Nothing /\ AllocateManaged("object") /\ calls # <<>> /\ "object" \in Kinds
      BY <2>2 DEF AskForNode, Recording, Reporting, In, Kinds
    <3> QED BY <2>1, <3>1, AllocateKeepsLeaking
  <2>3. CASE \/ Record \/ RecordFails \/ Erase \/ Warn \/ GiveNodeBack \/ NodeMissing
             \/ Clear \/ Attach \/ Detach
    BY <2>1, <2>3, ContainersKeepLeaking
  <2>4. CASE Report
    BY <2>1, <2>4, ReportKeepsLeaking
  <2>5. CASE ReportDone
    BY <2>1, <2>5, ReportDoneKeepsLeaking
  <2> QED BY <2>1, <2>2, <2>3, <2>4, <2>5 DEF Allocator
<1>2. CASE UNCHANGED vars
  <2>1. UNCHANGED <<heap, calls, testAllocations, queue, phase, currentTest, warnings, outcome,
                    given, freed, blind>>
    BY <1>2 DEF vars, allocVars, harnessVars, programVars
  <2>2. /\ Blocks' = Blocks /\ Top' = Top /\ \A o : In(o)' <=> In(o)
        /\ \A t \in Tests : Leaks(t)' = Leaks(t)
    BY <2>1 DEF Blocks, Top, In, Leaks
  <2>3. DOMAIN given \subseteq Blocks
    BY DEF MapInv, GivenToEarlier
  <2> QED BY <2>1, <2>2, <2>3, QuietKeepsLeaking
<1> QED BY <1>1, <1>2, MainKeepsLeaking, TestKeepsLeaking DEF Next

(***************************************************************************)
(* What is known of the leaks is an invariant of the process.              *)
(***************************************************************************)
LEMMA LeakingIsInvariant == Spec => []Leaking
<1>1. Init => Leaking
  <2> SUFFICES ASSUME Init PROVE Leaking
    OBVIOUS
  <2>1. /\ phase = "static" /\ outcome = [t \in Tests |-> "none"]
        /\ warnings = [t \in Tests |-> {}]
    BY DEF Init, InitHarness
  <2>2. \A t \in Tests : outcome[t] = "none" /\ Leaks(t) = {}
    BY <2>1 DEF Leaks
  <2>3. \A t \in Tests : LeakBlocks(t) = {} /\ LeaksAreFreed(t)
    BY <2>2 DEF LeakBlocks, LeaksAreFreed
  <2> QED BY <2>1, <2>2, <2>3 DEF Leaking
<1>2. LockInv /\ MapInv /\ Marching /\ MemoryInv /\ Leaking /\ [Next]_vars => Leaking'
  BY NextKeepsLeaking
<1> QED BY <1>1, <1>2, MemoryIsInvariant, PTL DEF Spec

(***************************************************************************)
(* What a test was given and did not free is a warning of that test, one   *)
(* for each block, and the block is freed: nothing that other tests, the   *)
(* harness or wrong deletes do is taken for it, and nothing is left out,   *)
(* unless recording an allocation failed (TracingAllocator.cpp:62-87).     *)
(***************************************************************************)
THEOREM LeaksAreAllReported == Spec => []LeaksAreReported
<1>1. Leaking => LeaksAreReported
  <2> SUFFICES ASSUME Leaking, NEW t \in Tests \ blind, outcome[t] # "none",
                      ~(currentTest = t /\ phase \in {"end", "terminated", "undefined"})
               PROVE  LET leaks == {w \in warnings[t] : w.kind = "leak"} IN
                      /\ {w.block : w \in leaks} = {b \in DOMAIN given : given[b] = t} \ freed
                      /\ \A w \in leaks : heap[w.block] = "freed"
                      /\ \A v, w \in leaks : v.block = w.block => v = w
    BY DEF LeaksAreReported
  <2>1. LeakBlocks(t) = GivenTo(t) \ freed /\ LeaksAreFreed(t)
    BY DEF Leaking
  <2> QED BY <2>1 DEF LeakBlocks, Leaks, GivenTo, LeaksAreFreed
<1> QED BY <1>1, LeakingIsInvariant, PTL
=============================================================================

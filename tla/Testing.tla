------------------------------ MODULE Testing ------------------------------
(***************************************************************************)
(* The test harness (src/src/testing/Testing.cpp): the queue of registered *)
(* tests, the counters and results, and the warnings of each test.  The    *)
(* harness and the tests run in one thread; phase is where main is.        *)
(***************************************************************************)
EXTENDS Integers, Sequences, FiniteSets

CONSTANT
    Queues    \* the queues registerTest may have built: sequences of
              \* what each test does and the ways it may end, besides "passed"

ASSUME QueuesAssumption ==
    Queues \subseteq Seq(SUBSET {"heap", "compiler", "failed", "exception"})

VARIABLES
    queue,          \* firstTestItem and its successors
    phase,
    stlInitialized,
    currentTest,    \* the place in the queue, or NoTest
    totalCount, passedCount, failedCount,
    results,        \* TestItem::result of each test
    warnings,       \* the warnings of each test, in the nodes of its list
    outcome         \* history: how the function of each test ended

countVars == <<totalCount, passedCount, failedCount, results>>
harnessVars == <<queue, stlInitialized, currentTest, countVars, warnings, outcome>>

NoTest == 0
Tests == DOMAIN queue

\* The process has ended: by exit, by std::terminate, or where nothing can be
\* said of it any more.
Ended == {"over", "terminated", "undefined"}
Phases == {"static", "lists", "attach", "start", "body", "end",
           "results", "detach", "cleanup", "statics"} \cup Ended

\* The slip of a loop that does not look for the end of the queue.
FollowingAlways(t) == t + 1

Following(t) == IF t < Len(queue) THEN t + 1 ELSE NoTest
FirstTest == IF queue = <<>> THEN NoTest ELSE 1

InitHarness ==
    /\ queue \in Queues
    /\ phase = "static"
    /\ stlInitialized = FALSE
    /\ currentTest = NoTest
    /\ totalCount = 0 /\ passedCount = 0 /\ failedCount = 0
    /\ results = [t \in Tests |-> 0]
    /\ warnings = [t \in Tests |-> {}]
    /\ outcome = [t \in Tests |-> "none"]

Pass ==
    /\ totalCount' = totalCount + 1
    /\ passedCount' = passedCount + 1
    /\ results' = [results EXCEPT ![currentTest] = 0]
    /\ UNCHANGED failedCount

Fail ==
    /\ totalCount' = totalCount + 1
    /\ failedCount' = failedCount + 1
    /\ results' = [results EXCEPT ![currentTest] = 1]
    /\ UNCHANGED passedCount

\* catch (std::exception &any): the result of the test stays 0.
OtherException ==
    /\ totalCount' = totalCount + 1
    /\ failedCount' = failedCount + 1
    /\ UNCHANGED <<passedCount, results>>

\* The slip of a handler that catches what fail() threw as well.
CountTwice(how) ==
    \/ how = "passed" /\ Pass
    \/ how = "failed" /\ totalCount' = totalCount + 2 /\ failedCount' = failedCount + 2
                      /\ results' = [results EXCEPT ![currentTest] = 1] /\ UNCHANGED passedCount
    \/ how = "exception" /\ OtherException

\* The counters after the function of the current test has returned or thrown.
Count(how) ==
    \/ how = "passed" /\ Pass
    \/ how = "failed" /\ Fail
    \/ how = "exception" /\ OtherException

TestEnds(how) ==
    /\ Count(how)
    /\ outcome' = [outcome EXCEPT ![currentTest] = how]
    /\ phase' = "end"

\* reportWarning: a warning about a block, in a new node of the list.
ReportWarning(kind, block, node) ==
    warnings' = [warnings EXCEPT ![currentTest] =
                     @ \cup {[kind |-> kind, block |-> block, node |-> node]}]

\* The turn of the loop of runTests.
NextTest ==
    /\ currentTest' = Following(currentTest)
    /\ phase' = IF currentTest' = NoTest THEN "results" ELSE "start"

(***************************************************************************)
(* The counters agree with the tests that ended, however their functions   *)
(* ended, and the result of a test is a failure exactly when fail() was    *)
(* called in it: an escaped exception is counted and not marked.           *)
(***************************************************************************)
CountersAgree ==
    LET Ways(W) == Cardinality({t \in Tests : outcome[t] \in W}) IN
    /\ totalCount = Ways({"passed", "failed", "exception"})
    /\ passedCount = Ways({"passed"})
    /\ failedCount = Ways({"failed", "exception"})
    /\ \A t \in Tests : results[t] = 1 <=> outcome[t] = "failed"
    /\ phase = "results" => \A t \in Tests : outcome[t] # "none"
=============================================================================

-------------------------- MODULE TracingAllocator --------------------------
(***************************************************************************)
(* The operators new and delete of the test build                          *)
(* (src/src/testing/TracingAllocator.cpp).  They record what is live in a  *)
(* map, whose nodes come from the same operators: recurseLock tells a call *)
(* that a container makes for the allocator from a call of the program.    *)
(*                                                                         *)
(* A container operation is a frame of calls.  It asks for a node, or      *)
(* gives one back, by a nested call, and goes on with returned.  A block   *)
(* is the number of its malloc, so that no address is used twice; the      *)
(* text of warnings and the buffers it is put together in are left out.    *)
(***************************************************************************)
EXTENDS Testing

VARIABLES
    heap,              \* for each block its markword, or "freed"
    recurseLock,
    testAllocations,   \* the map: a block and the node that records it
    calls,             \* the container operations under way, innermost first
    returned,          \* what the last call of an operator returned
    callbackNode       \* the node of eventCallbackList, or NoBlock

allocVars == <<heap, recurseLock, testAllocations, calls, returned, callbackNode>>

Blocks == DOMAIN heap
NoBlock == 0
Void == -1
BadAlloc == -2
Nothing == -3      \* no call has returned

Kinds == {"object", "array"}
Frame(op, block, left) == [op |-> op, block |-> block, left |-> left]
Top == Head(calls)
In(op) == calls # <<>> /\ Top.op = op

\* The program itself runs: main, a test or a destructor of a static object.
ProgramRuns == calls = <<>> /\ returned = Nothing

InitAllocator ==
    /\ heap = <<>>
    /\ recurseLock = FALSE
    /\ testAllocations = <<>>
    /\ calls = <<>>
    /\ returned = Nothing
    /\ callbackNode = NoBlock

Begin(op, block, left) ==
    /\ recurseLock' = TRUE
    /\ calls' = <<Frame(op, block, left)>> \o calls

\* The slip of an operation that leaves the lock as it is.
FinishLocked ==
    /\ UNCHANGED recurseLock
    /\ calls' = Tail(calls)

Finish ==
    /\ recurseLock' = FALSE
    /\ calls' = Tail(calls)

\* The containers' order; any would do.
First(S) == CHOOSE x \in S : \A y \in S : x <= y

Free(b) == heap' = [heap EXCEPT ![b] = "freed"]

\* Nothing runs any more.
Stop(p) ==
    /\ phase' = p
    /\ calls' = <<>> /\ returned' = Nothing
    /\ UNCHANGED <<heap, recurseLock, testAllocations, callbackNode, harnessVars>>

Undefined == Stop("undefined")
Terminate == Stop("terminated")

-----------------------------------------------------------------------------
\* The slip of recording the nodes of the map as well.
AllocateAlways(kind) ==
    /\ \/ /\ returned' = BadAlloc
          /\ UNCHANGED <<heap, recurseLock, calls>>
       \/ /\ heap' = Append(heap, kind)
          /\ IF ~stlInitialized THEN returned' = Len(heap') /\ UNCHANGED <<recurseLock, calls>>
             ELSE Begin("record", Len(heap'), {}) /\ UNCHANGED returned
    /\ UNCHANGED <<testAllocations, callbackNode, phase, harnessVars>>

\* operator new: malloc may fail at any call.
AllocateManaged(kind) ==
    /\ \/ /\ returned' = BadAlloc
          /\ UNCHANGED <<heap, recurseLock, calls>>
       \/ /\ heap' = Append(heap, kind)
          /\ IF recurseLock \/ ~stlInitialized
             THEN returned' = Len(heap') /\ UNCHANGED <<recurseLock, calls>>
             ELSE Begin("record", Len(heap'), {}) /\ UNCHANGED returned
    /\ UNCHANGED <<testAllocations, callbackNode, phase, harnessVars>>

\* The slip of freeing a block and leaving its record in the map.
DeallocateUnrecorded(kind, b) ==
    IF heap[b] = "freed" THEN Undefined
    ELSE /\ returned' = Void
         /\ IF recurseLock \/ heap[b] # kind THEN UNCHANGED heap ELSE Free(b)
         /\ UNCHANGED <<recurseLock, calls, testAllocations, callbackNode, phase, harnessVars>>

(***************************************************************************)
(* operator delete.  Its first step reads the markword in front of the     *)
(* block.  A wrong one is a warning to the test that runs and frees        *)
(* nothing; with the lock held, nothing is freed either.                   *)
(***************************************************************************)
DeallocateManaged(kind, b) ==
    \/ heap[b] = "freed" /\ Undefined
    \/ /\ heap[b] # "freed"
       /\ \/ /\ heap[b] # kind /\ currentTest = NoTest
             /\ recurseLock' = FALSE
             /\ returned' = Void /\ UNCHANGED <<heap, calls>>
          \/ /\ heap[b] # kind /\ currentTest # NoTest
             /\ Begin("warn", b, {}) /\ UNCHANGED <<heap, returned>>
          \/ /\ heap[b] = kind /\ recurseLock
             /\ returned' = Void /\ UNCHANGED <<heap, recurseLock, calls>>
          \/ /\ heap[b] = kind /\ ~recurseLock /\ b \in DOMAIN testAllocations
             /\ Begin("erase", b, {}) /\ UNCHANGED <<heap, returned>>
          \/ /\ heap[b] = kind /\ ~recurseLock /\ b \notin DOMAIN testAllocations
             /\ Free(b)
             /\ returned' = Void /\ UNCHANGED <<recurseLock, calls>>
       /\ UNCHANGED <<testAllocations, callbackNode, phase, harnessVars>>

-----------------------------------------------------------------------------
(* What the container operations ask for, and what they do with it.        *)

Recording == In("record") \/ In("warn") \/ In("attach")
Reporting == In("report") /\ Top.left # {}

AskForNode ==
    /\ returned = Nothing /\ (Recording \/ Reporting)
    /\ AllocateManaged("object")

GiveNodeBack ==
    /\ returned = Nothing
    /\ \/ In("erase") /\ DeallocateManaged("object", testAllocations[Top.block])
       \/ /\ In("clear") /\ DOMAIN testAllocations # {}
          /\ DeallocateManaged("object", testAllocations[First(DOMAIN testAllocations)])
       \/ In("detach") /\ DeallocateManaged("object", callbackNode)

Without(f, b) == [x \in DOMAIN f \ {b} |-> f[x]]
With(f, b, v) == [x \in DOMAIN f \cup {b} |-> IF x = b THEN v ELSE f[x]]

\* The slip of recording the node instead of the block.
RecordNode ==
    /\ In("record") /\ returned \in Blocks
    /\ testAllocations' = With(testAllocations, returned, Top.block)
    /\ Finish
    /\ returned' = Top.block
    /\ UNCHANGED <<heap, callbackNode, phase, harnessVars>>

\* The map has its node: AllocateManaged returns the block.
Record ==
    /\ In("record") /\ returned \in Blocks
    /\ testAllocations' = With(testAllocations, Top.block, returned)
    /\ Finish
    /\ returned' = Top.block
    /\ UNCHANGED <<heap, callbackNode, phase, harnessVars>>

\* std::bad_alloc leaves AllocateManaged with the lock held and the block lost.
RecordFails ==
    /\ In("record") /\ returned = BadAlloc
    /\ calls' = Tail(calls)
    /\ UNCHANGED <<heap, recurseLock, testAllocations, returned, callbackNode, phase, harnessVars>>

Erase ==
    /\ In("erase") /\ returned = Void
    /\ testAllocations' = Without(testAllocations, Top.block)
    /\ Finish
    /\ Free(Top.block)
    /\ UNCHANGED <<returned, callbackNode, phase, harnessVars>>

Warn ==
    /\ In("warn") /\ returned \in Blocks
    /\ ReportWarning("wrong delete", Top.block, returned)
    /\ Finish
    /\ returned' = Void
    /\ UNCHANGED <<heap, testAllocations, callbackNode, phase, queue, stlInitialized>>
    /\ UNCHANGED <<currentTest, countVars, outcome>>

\* The harness calls back outside of its try block, and operator delete is noexcept.
NodeMissing ==
    /\ returned = BadAlloc /\ (In("warn") \/ In("attach") \/ In("report"))
    /\ Terminate

-----------------------------------------------------------------------------
(* OnTestEvent, AttachTestAllocationsTrace, DetachTestAllocationsTrace.    *)

ProgramCalls(op, left) ==
    /\ ProgramRuns
    /\ Begin(op, NoBlock, left)
    /\ UNCHANGED <<heap, testAllocations, returned, callbackNode, phase, harnessVars>>

\* The slip of a map that is not cleared when a test starts.
NotCleared ==
    /\ In("clear") /\ returned = Nothing
    /\ Finish
    /\ phase' = "body"
    /\ UNCHANGED <<heap, testAllocations, returned, callbackNode, harnessVars>>

\* The slip of a loop that looks at the map only after it removed an entry.
ClearAfterFirst ==
    /\ In("clear") /\ returned = Void
    /\ testAllocations' = Without(testAllocations, First(DOMAIN testAllocations))
    /\ returned' = Nothing
    /\ IF DOMAIN testAllocations' = {} THEN Finish /\ phase' = "body"
       ELSE UNCHANGED <<recurseLock, calls, phase>>
    /\ UNCHANGED <<heap, callbackNode, harnessVars>>

Clear ==
    /\ In("clear")
    /\ \/ /\ returned = Void
          /\ testAllocations' = Without(testAllocations, First(DOMAIN testAllocations))
          /\ returned' = Nothing
          /\ UNCHANGED <<recurseLock, calls, phase>>
       \/ /\ returned = Nothing /\ DOMAIN testAllocations = {}
          /\ Finish
          /\ phase' = "body"
          /\ UNCHANGED <<testAllocations, returned>>
    /\ UNCHANGED <<heap, callbackNode, harnessVars>>

\* A block that is still in the map is a warning and is freed; its record stays.
Report ==
    /\ In("report") /\ returned \in Blocks /\ Top.left # {}
    /\ LET b == First(Top.left) IN
           IF heap[b] = "freed" THEN Undefined
           ELSE /\ ReportWarning("leak", b, returned)
                /\ Free(b)
                /\ calls' = <<[Top EXCEPT !.left = @ \ {b}]>> \o Tail(calls)
                /\ returned' = Nothing
                /\ UNCHANGED <<recurseLock, testAllocations, callbackNode, phase>>
                /\ UNCHANGED <<queue, stlInitialized, currentTest, countVars, outcome>>

ReportDone ==
    /\ In("report") /\ returned = Nothing /\ Top.left = {}
    /\ Finish
    /\ NextTest
    /\ UNCHANGED <<heap, testAllocations, returned, callbackNode, queue, stlInitialized>>
    /\ UNCHANGED <<countVars, warnings, outcome>>

\* eventCallbackList has its node, and runTests begins with the first test.
Attach ==
    /\ In("attach") /\ returned \in Blocks
    /\ callbackNode' = returned
    /\ Finish
    /\ returned' = Nothing
    /\ currentTest' = FirstTest
    /\ phase' = IF FirstTest = NoTest THEN "results" ELSE "start"
    /\ UNCHANGED <<heap, testAllocations, queue, stlInitialized, countVars, warnings, outcome>>

Detach ==
    /\ In("detach") /\ returned = Void
    /\ Finish
    /\ returned' = Nothing
    /\ currentTest' = FirstTest
    /\ phase' = "cleanup"
    /\ UNCHANGED <<heap, testAllocations, callbackNode, queue, stlInitialized>>
    /\ UNCHANGED <<countVars, warnings, outcome>>

Allocator ==
    \/ AskForNode \/ GiveNodeBack
    \/ Record \/ RecordFails \/ Erase \/ Warn \/ NodeMissing
    \/ Clear \/ Report \/ ReportDone \/ Attach \/ Detach

(***************************************************************************)
(* No operation of the map or of a list is entered while another one is    *)
(* under way: the operators that the containers call for their own nodes   *)
(* find the lock held, although every one of them sets it free when done.  *)
(***************************************************************************)
NoReentry ==
    /\ Len(calls) <= 1
    /\ calls # <<>> => recurseLock
=============================================================================

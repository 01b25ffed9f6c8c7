------------------------- MODULE TestProcessProofs -------------------------
(***************************************************************************)
(* Theorems of the test process, for any queue of tests, any command lines *)
(* and any number of allocations: the lock of the allocator, and what its  *)
(* map holds while a test runs.                                            *)
(***************************************************************************)
EXTENDS TestProcess, TLAPS, WellFoundedInduction, SequenceTheorems

Marks == Kinds \cup {"freed"}
ContainerOps == {"record", "erase", "warn", "attach", "detach", "clear", "report"}
AttachedPhases == {"start", "body", "end", "results", "detach"}

\* At most one operation of a container is under way, and it holds the lock.
OneCall ==
    /\ recurseLock \in BOOLEAN
    /\ calls # <<>> => /\ recurseLock
                       /\ calls = <<Frame(Top.op, Top.block, Top.left)>>
                       /\ Top.op \in ContainerOps

\* A node of a container was allocated as a plain object: giving it back is no
\* wrong delete, which would ask for another node.
IsNode(b) == b \in Blocks /\ heap[b] \in {"object", "freed"}

NodesAreObjects ==
    /\ heap \in Seq(Marks)
    /\ DOMAIN testAllocations \subseteq Blocks
    /\ \A b \in DOMAIN testAllocations : IsNode(testAllocations[b])
    /\ calls # <<>> /\ returned \in Blocks => IsNode(returned)
    /\ phase \in AttachedPhases => IsNode(callbackNode)

\* Where main is while an operation is under way, and what it is about.
CallsFit ==
    /\ In("attach") => phase = "attach"
    /\ In("clear") => phase = "start"
    /\ In("report") => phase = "end"
    /\ In("detach") => phase = "detach"
    /\ In("record") => Top.block \in Blocks
    /\ In("erase") => Top.block \in DOMAIN testAllocations

\* Between two operations the lock is held only because recording failed.
LockExplained ==
    recurseLock /\ calls = <<>> /\ phase \notin Ended =>
        returned = BadAlloc \/ (phase \in {"body", "end", "statics"} /\ currentTest \in blind)

LockInv == OneCall /\ NodesAreObjects /\ CallsFit /\ LockExplained

-----------------------------------------------------------------------------
(***************************************************************************)
(* First picks a member of a set of blocks.                                *)
(***************************************************************************)
LEMMA FirstIsMember ==
    ASSUME NEW S \in SUBSET Nat, S # {}
    PROVE  First(S) \in S
<1> DEFINE R == OpToRel(<, Nat)
<1>1. PICK x \in S : \A y \in S : ~(<<y, x>> \in R)
  <2> HIDE DEF R
  <2> QED BY NatLessThanWellFounded, WFMin DEF R
<1>2. \A y \in S : ~(y < x)
  BY <1>1 DEF OpToRel
<1>3. \A y \in S : x <= y
  BY <1>2
<1> QED BY <1>3 DEF First

(***************************************************************************)
(* A new block is the last one, and the others are what they were.         *)
(***************************************************************************)
LEMMA NewBlock ==
    ASSUME heap \in Seq(Marks), NEW kind \in Kinds, heap' = Append(heap, kind)
    PROVE  /\ heap' \in Seq(Marks) /\ Len(heap') = Len(heap) + 1
           /\ Blocks' = Blocks \cup {Len(heap')} /\ Len(heap') \notin Blocks
           /\ heap'[Len(heap')] = kind
           /\ \A b \in Blocks : heap'[b] = heap[b]
           /\ Blocks \subseteq Nat \ {0}
<1>1. kind \in Marks
  BY DEF Marks
<1> QED BY <1>1, AppendProperties DEF Blocks

(***************************************************************************)
(* A freed block stays a block.                                            *)
(***************************************************************************)
LEMMA FreedBlock ==
    ASSUME heap \in Seq(Marks), NEW b, Free(b)
    PROVE  /\ heap' \in Seq(Marks)
           /\ Blocks' = Blocks
           /\ \A x \in Blocks : heap'[x] = IF x = b THEN "freed" ELSE heap[x]
<1>1. "freed" \in Marks
  BY DEF Marks
<1>2. heap \in [1 .. Len(heap) -> Marks] /\ Len(heap) \in Nat
  OBVIOUS
<1>3. heap' = [heap EXCEPT ![b] = "freed"]
  BY DEF Free
<1>4. heap' \in [1 .. Len(heap) -> Marks]
  BY <1>1, <1>2, <1>3
<1> QED BY <1>2, <1>3, <1>4 DEF Blocks

(***************************************************************************)
(* operator new keeps the invariant, called by the program or for a node.  *)
(***************************************************************************)
LEMMA AllocateKeepsLock ==
    ASSUME LockInv, NEW kind \in Kinds, returned = Nothing,
           calls # <<>> => kind = "object",
           AllocateManaged(kind), blind' = blind
    PROVE  LockInv'
<1> USE DEF LockInv
<1>0. /\ phase' = phase /\ currentTest' = currentTest
      /\ testAllocations' = testAllocations /\ callbackNode' = callbackNode
  BY DEF AllocateManaged, harnessVars
<1>1. CASE returned' = BadAlloc /\ UNCHANGED <<heap, recurseLock, calls>>
  <2>1. BadAlloc \notin Blocks
    BY DEF NodesAreObjects, BadAlloc, Blocks
  <2> QED
    BY <1>0, <1>1, <2>1
    DEF OneCall, NodesAreObjects, CallsFit, LockExplained, IsNode, Blocks, In, Top
<1>2. CASE heap' = Append(heap, kind)
  <2>1. /\ heap' \in Seq(Marks) /\ Len(heap') = Len(heap) + 1
        /\ Blocks' = Blocks \cup {Len(heap')} /\ Len(heap') \notin Blocks
        /\ heap'[Len(heap')] = kind
        /\ \A b \in Blocks : heap'[b] = heap[b]
        /\ Blocks \subseteq Nat \ {0}
    BY <1>2, NewBlock DEF NodesAreObjects
  <2>2. Nothing \notin Blocks'
    BY <2>1 DEF NodesAreObjects, Nothing
  <2>3. /\ \A b : IsNode(b) => b \in Blocks' /\ heap'[b] \in {"object", "freed"}
        /\ kind = "object" => heap'[Len(heap')] \in {"object", "freed"}
    BY <2>1 DEF IsNode
  <2>4. CASE returned' = Len(heap') /\ UNCHANGED <<recurseLock, calls>>
    <3>1. NodesAreObjects'
      BY <1>0, <2>1, <2>3, <2>4 DEF NodesAreObjects, IsNode
    <3>2. OneCall' /\ CallsFit' /\ LockExplained'
      BY <1>0, <2>1, <2>4 DEF OneCall, CallsFit, LockExplained, In, Top, Nothing, BadAlloc
    <3> QED BY <3>1, <3>2
  <2>5. CASE ~recurseLock /\ Begin("record", Len(heap'), {}) /\ UNCHANGED returned
    <3>1. calls = <<>>
      BY <2>5 DEF OneCall
    <3>2. calls' = <<Frame("record", Len(heap'), {})>> /\ recurseLock' = TRUE
      BY <2>5, <3>1 DEF Begin
    <3>3. Top' = Frame("record", Len(heap'), {}) /\ calls' # <<>>
      BY <3>2 DEF Top
    <3>4. Top'.op = "record" /\ Top'.block = Len(heap') /\ Top'.left = {}
      BY <3>3 DEF Frame
    <3>5. NodesAreObjects'
      BY <1>0, <2>1, <2>2, <2>3, <2>5 DEF NodesAreObjects, IsNode
    <3>6. OneCall' /\ CallsFit' /\ LockExplained'
      BY <2>1, <3>2, <3>3, <3>4 DEF OneCall, CallsFit, LockExplained, In, ContainerOps
    <3> QED BY <3>5, <3>6
  <2> QED BY <1>2, <2>4, <2>5, <1>1 DEF AllocateManaged
<1> QED BY <1>1, <1>2 DEF AllocateManaged

(***************************************************************************)
(* Nothing of the lock is said once the process is in an undefined state   *)
(* or has been terminated.                                                 *)
(***************************************************************************)
LEMMA StopKeepsLock ==
    ASSUME LockInv, NEW p \in Ended, Stop(p)
    PROVE  LockInv'
<1>1. /\ phase' = p /\ p \in Ended /\ calls' = <<>> /\ returned' = Nothing
      /\ heap' = heap /\ recurseLock' = recurseLock
      /\ testAllocations' = testAllocations /\ callbackNode' = callbackNode
  BY DEF Stop
<1>2. p \notin AttachedPhases
  BY DEF Ended, AttachedPhases
<1> QED
  BY <1>1, <1>2
  DEF LockInv, OneCall, NodesAreObjects, CallsFit, LockExplained, IsNode, Blocks, In

(***************************************************************************)
(* operator delete keeps the invariant, called by the program or for a     *)
(* node that a container gives back.                                       *)
(***************************************************************************)
LEMMA DeallocateKeepsLock ==
    ASSUME LockInv, NEW kind \in Kinds, NEW b, returned = Nothing,
           calls # <<>> => kind = "object" /\ IsNode(b),
           DeallocateManaged(kind, b), blind' = blind
    PROVE  LockInv'
<1>1. CASE heap[b] = "freed" /\ Undefined
  BY <1>1, StopKeepsLock DEF Undefined, Ended
<1>2. CASE heap[b] # "freed"
  <2>0. /\ phase' = phase /\ currentTest' = currentTest
        /\ testAllocations' = testAllocations /\ callbackNode' = callbackNode
    BY <1>2 DEF DeallocateManaged, harnessVars, Undefined
  <2>1. calls # <<>> => heap[b] = kind /\ recurseLock
    BY <1>2 DEF IsNode, LockInv, OneCall
  <2>2. Void \notin Blocks /\ Nothing \notin Blocks
    BY DEF LockInv, NodesAreObjects, Void, Nothing, Blocks
  <2>3. CASE /\ heap' = heap /\ calls' = calls /\ returned' = Void
             /\ recurseLock' = recurseLock \/ (recurseLock' = FALSE /\ calls = <<>>)
    <3>1. NodesAreObjects'
      BY <2>0, <2>2, <2>3 DEF LockInv, NodesAreObjects, IsNode, Blocks
    <3>2. Top' = Top
      BY <2>3 DEF Top
    <3>3. CallsFit'
      BY <2>0, <2>3, <3>2 DEF LockInv, CallsFit, In, Blocks
    <3>4. OneCall'
      BY <2>3, <3>2 DEF LockInv, OneCall
    <3>5. LockExplained'
      <4>1. CASE recurseLock'
        <5>1. recurseLock
          BY <2>3, <4>1
        <5>2. returned # BadAlloc
          BY DEF Nothing, BadAlloc
        <5> QED BY <2>0, <2>3, <5>1, <5>2 DEF LockInv, LockExplained
      <4>2. CASE ~recurseLock'
        BY <4>2 DEF LockExplained
      <4> QED BY <4>1, <4>2
    <3> QED BY <3>1, <3>3, <3>4, <3>5 DEF LockInv
  <2>4. ASSUME NEW op \in {"warn", "erase"}, op = "erase" => b \in DOMAIN testAllocations,
               calls = <<>>, Begin(op, b, {}), heap' = heap, returned' = returned
        PROVE  LockInv'
    <3>1. calls' = <<Frame(op, b, {})>> /\ recurseLock' = TRUE
      BY <2>4 DEF Begin
    <3>2. Top' = Frame(op, b, {}) /\ calls' # <<>>
      BY <3>1 DEF Top
    <3>3. Top'.op = op /\ Top'.block = b /\ Top'.left = {}
      BY <3>2 DEF Frame
    <3>4. NodesAreObjects'
      BY <2>0, <2>2, <2>4 DEF LockInv, NodesAreObjects, IsNode, Blocks
    <3>5. OneCall' /\ CallsFit' /\ LockExplained'
      BY <2>0, <2>4, <3>1, <3>2, <3>3 DEF OneCall, CallsFit, LockExplained, In, ContainerOps
    <3> QED BY <3>4, <3>5 DEF LockInv
  <2>5. CASE Free(b) /\ calls' = calls /\ returned' = Void /\ recurseLock' = recurseLock
    <3>1. heap' \in Seq(Marks) /\ Blocks' = Blocks
          /\ \A x \in Blocks : heap'[x] = IF x = b THEN "freed" ELSE heap[x]
      BY <2>5, FreedBlock DEF LockInv, NodesAreObjects
    <3> QED
      BY <2>0, <2>2, <2>5, <3>1
      DEF LockInv, OneCall, NodesAreObjects, CallsFit, LockExplained, IsNode, In, Top, Void, Nothing, BadAlloc
  <2>6. CASE heap[b] # kind
    BY <1>2, <2>1, <2>3, <2>4, <2>6 DEF DeallocateManaged
  <2>7. CASE heap[b] = kind /\ recurseLock
    BY <1>2, <2>3, <2>7 DEF DeallocateManaged
  <2>8. CASE heap[b] = kind /\ ~recurseLock
    BY <1>2, <2>1, <2>4, <2>5, <2>8 DEF DeallocateManaged
  <2> QED BY <2>6, <2>7, <2>8
<1> QED BY <1>1, <1>2 DEF DeallocateManaged

(***************************************************************************)
(* An operation of a container that ends sets the lock free.               *)
(***************************************************************************)
LEMMA FinishKeepsLock ==
    ASSUME LockInv, calls # <<>>, Finish, NodesAreObjects'
    PROVE  LockInv'
<1>1. calls = <<Frame(Top.op, Top.block, Top.left)>>
  BY DEF LockInv, OneCall
<1>2. calls' = <<>> /\ recurseLock' = FALSE
  BY <1>1 DEF Finish
<1> QED BY <1>2 DEF LockInv, OneCall, CallsFit, LockExplained, In

(***************************************************************************)
(* What a container gives back is a node, and it is freed by nobody: the   *)
(* lock is held.                                                           *)
(***************************************************************************)
LEMMA NodeIsGivenBack ==
    ASSUME LockInv, GiveNodeBack
    PROVE  /\ \E b : IsNode(b) /\ DeallocateManaged("object", b)
           /\ calls # <<>> /\ returned = Nothing
           /\ \/ Undefined
              \/ returned' = Void /\ UNCHANGED <<heap, recurseLock, calls, testAllocations, callbackNode, phase, harnessVars>>
<1>0. /\ DOMAIN testAllocations \subseteq Blocks /\ Blocks \subseteq Nat
      /\ \A b \in DOMAIN testAllocations : IsNode(testAllocations[b])
  BY DEF LockInv, NodesAreObjects, Blocks
<1>1. \E b : IsNode(b) /\ DeallocateManaged("object", b)
  <2>1. CASE In("erase") /\ DeallocateManaged("object", testAllocations[Top.block])
    BY <1>0, <2>1 DEF LockInv, CallsFit
  <2>2. CASE /\ In("clear") /\ DOMAIN testAllocations # {}
             /\ DeallocateManaged("object", testAllocations[First(DOMAIN testAllocations)])
    BY <1>0, <2>2, FirstIsMember
  <2>3. CASE In("detach") /\ DeallocateManaged("object", callbackNode)
    BY <2>3 DEF LockInv, CallsFit, NodesAreObjects, AttachedPhases
  <2> QED BY <2>1, <2>2, <2>3 DEF GiveNodeBack
<1>2. PICK b : IsNode(b) /\ DeallocateManaged("object", b)
  BY <1>1
<1>3. calls # <<>> /\ returned = Nothing /\ recurseLock
  BY DEF GiveNodeBack, In, LockInv, OneCall
<1>4. heap[b] = "object" \/ heap[b] = "freed"
  BY <1>2 DEF IsNode
<1>5. \/ Undefined
      \/ returned' = Void /\ UNCHANGED <<heap, recurseLock, calls, testAllocations, callbackNode, phase, harnessVars>>
  BY <1>2, <1>3, <1>4 DEF DeallocateManaged
<1> QED BY <1>1, <1>3, <1>5

(***************************************************************************)
(* A step of a container operation, or of what main does when it is done.  *)
(***************************************************************************)
LEMMA AllocatorKeepsLock ==
    ASSUME LockInv, Allocator, blind' = blind
    PROVE  LockInv'
<1>0. /\ heap \in Seq(Marks) /\ Nothing \notin Blocks /\ Void \notin Blocks /\ BadAlloc \notin Blocks
      /\ DOMAIN testAllocations \subseteq Blocks /\ Blocks \subseteq Nat
      /\ \A b \in DOMAIN testAllocations : IsNode(testAllocations[b])
      /\ calls # <<>> => calls = <<Frame(Top.op, Top.block, Top.left)>> /\ recurseLock
  BY DEF LockInv, OneCall, NodesAreObjects, Nothing, Void, BadAlloc, Blocks
<1>00. calls # <<>> => Tail(calls) = <<>> /\ Top = Frame(Top.op, Top.block, Top.left)
  <2> SUFFICES ASSUME calls # <<>>
               PROVE  Tail(calls) = <<>> /\ Top = Frame(Top.op, Top.block, Top.left)
    OBVIOUS
  <2>1. PICK f : f = Frame(Top.op, Top.block, Top.left) /\ calls = <<f>>
    BY <1>0
  <2>2. Tail(calls) = <<>> /\ Top = f
    BY <2>1 DEF Top
  <2> QED BY <2>1, <2>2
<1>1. CASE AskForNode
  <2>1. returned = Nothing /\ AllocateManaged("object") /\ "object" \in Kinds
    BY <1>1 DEF AskForNode, Kinds
  <2> QED BY <2>1, AllocateKeepsLock
<1>2. CASE GiveNodeBack
  <2>1. "object" \in Kinds
    BY DEF Kinds
  <2> QED BY <1>2, <2>1, NodeIsGivenBack, DeallocateKeepsLock
<1>3. CASE Record
  <2>1. /\ calls # <<>> /\ IsNode(returned) /\ Top.block \in Blocks
        /\ testAllocations' = With(testAllocations, Top.block, returned)
        /\ heap' = heap /\ callbackNode' = callbackNode /\ phase' = phase /\ Finish
    BY <1>3 DEF Record, In, LockInv, CallsFit, NodesAreObjects
  <2>2. /\ DOMAIN testAllocations' = DOMAIN testAllocations \cup {Top.block}
        /\ \A b \in DOMAIN testAllocations' :
               testAllocations'[b] = IF b = Top.block THEN returned ELSE testAllocations[b]
    BY <2>1 DEF With
  <2>3. calls' = <<>>
    BY <1>00, <2>1 DEF Finish
  <2>4. NodesAreObjects'
    BY <1>0, <2>1, <2>2, <2>3 DEF NodesAreObjects, LockInv, IsNode, Blocks
  <2> QED BY <2>1, <2>4, FinishKeepsLock
<1>4. CASE RecordFails
  <2>1. /\ calls' = <<>> /\ returned' = BadAlloc /\ heap' = heap /\ phase' = phase
        /\ recurseLock' = recurseLock /\ testAllocations' = testAllocations
        /\ callbackNode' = callbackNode
    BY <1>00, <1>4 DEF RecordFails, In
  <2> QED BY <2>1 DEF LockInv, OneCall, NodesAreObjects, CallsFit, LockExplained, IsNode, Blocks, In
<1>5. CASE Erase
  <2>1. /\ calls # <<>> /\ Finish /\ Free(Top.block) /\ returned' = returned
        /\ testAllocations' = Without(testAllocations, Top.block)
        /\ callbackNode' = callbackNode /\ phase' = phase
    BY <1>5 DEF Erase, In
  <2>2. heap' \in Seq(Marks) /\ Blocks' = Blocks
        /\ \A x \in Blocks : heap'[x] = IF x = Top.block THEN "freed" ELSE heap[x]
    BY <1>0, <2>1, FreedBlock
  <2>3. calls' = <<>>
    BY <1>00, <2>1 DEF Finish
  <2>4. /\ DOMAIN testAllocations' \subseteq DOMAIN testAllocations
        /\ \A b \in DOMAIN testAllocations' : testAllocations'[b] = testAllocations[b]
    BY <2>1 DEF Without
  <2>5. \A b : IsNode(b) => b \in Blocks' /\ heap'[b] \in {"object", "freed"}
    BY <2>2 DEF IsNode
  <2>6. NodesAreObjects'
    BY <1>0, <2>1, <2>2, <2>3, <2>4, <2>5 DEF NodesAreObjects, LockInv, IsNode
  <2> QED BY <2>1, <2>6, FinishKeepsLock
<1>6. CASE Warn \/ ReportDone
  <2>1. /\ calls # <<>> /\ Finish /\ heap' = heap /\ testAllocations' = testAllocations
        /\ callbackNode' = callbackNode
        /\ phase' \in AttachedPhases => phase \in AttachedPhases
    BY <1>6 DEF Warn, ReportDone, NextTest, In, LockInv, CallsFit, AttachedPhases
  <2>2. calls' = <<>>
    BY <1>00, <2>1 DEF Finish
  <2>3. NodesAreObjects'
    BY <2>1, <2>2 DEF NodesAreObjects, LockInv, IsNode, Blocks
  <2> QED BY <2>1, <2>3, FinishKeepsLock
<1>7. CASE NodeMissing
  BY <1>7, StopKeepsLock DEF NodeMissing, Terminate, Ended
<1>8. CASE Clear
  <2>1. /\ calls # <<>> /\ phase = "start" /\ heap' = heap /\ callbackNode' = callbackNode
        /\ phase' \in {"start", "body"} /\ currentTest' = currentTest
    BY <1>8 DEF Clear, In, LockInv, CallsFit, harnessVars
  <2>2. /\ DOMAIN testAllocations' \subseteq DOMAIN testAllocations
        /\ \A b \in DOMAIN testAllocations' : testAllocations'[b] = testAllocations[b]
    BY <1>8 DEF Clear, Without
  <2>3. returned' = Nothing
    BY <1>8 DEF Clear
  <2>4. NodesAreObjects'
    BY <1>0, <2>1, <2>2, <2>3 DEF NodesAreObjects, LockInv, IsNode, AttachedPhases, Blocks
  <2>5. CASE Finish
    BY <2>1, <2>4, <2>5, FinishKeepsLock
  <2>6. CASE UNCHANGED <<recurseLock, calls, phase>>
    <3>1. Top' = Top /\ In("clear")
      BY <1>8, <2>6 DEF Top, Clear
    <3> QED
      BY <2>1, <2>4, <2>6, <3>1 DEF LockInv, OneCall, CallsFit, LockExplained, In
  <2> QED BY <1>8, <2>5, <2>6 DEF Clear
<1>9. CASE Report
  <2>1. CASE Undefined
    BY <2>1, StopKeepsLock DEF Undefined, Ended
  <2>2. CASE ~Undefined
    <3> DEFINE b == First(Top.left)
    <3>1. /\ calls # <<>> /\ Top.op = "report" /\ Free(b)
          /\ calls' = <<[Top EXCEPT !.left = @ \ {b}]>> \o Tail(calls)
          /\ returned' = Nothing /\ recurseLock' = recurseLock
          /\ testAllocations' = testAllocations /\ callbackNode' = callbackNode /\ phase' = phase
      BY <1>9, <2>2 DEF Report, In
    <3>2. heap' \in Seq(Marks) /\ Blocks' = Blocks
          /\ \A x \in Blocks : heap'[x] = IF x = b THEN "freed" ELSE heap[x]
      BY <1>0, <3>1, FreedBlock
    <3>3. Top = Frame(Top.op, Top.block, Top.left) /\ Tail(calls) = <<>>
      BY <1>00, <3>1
    <3>4. [Top EXCEPT !.left = @ \ {b}] = Frame("report", Top.block, Top.left \ {b})
      <4> HIDE DEF b
      <4>1. \A op, block, left :
                [Frame(op, block, left) EXCEPT !.left = @ \ {b}] = Frame(op, block, left \ {b})
        BY DEF Frame
      <4> QED BY <3>1, <3>3, <4>1
    <3>5. calls' = <<Frame("report", Top.block, Top.left \ {b})>>
      <4> HIDE DEF b
      <4>1. \A f : <<f>> \o <<>> = <<f>>
        OBVIOUS
      <4> QED BY <3>1, <3>3, <3>4, <4>1
    <3>6. Top' = Frame("report", Top.block, Top.left \ {b}) /\ calls' # <<>>
      BY <3>5 DEF Top
    <3>7. Top'.op = "report" /\ Top' = Frame(Top'.op, Top'.block, Top'.left) /\ calls' = <<Top'>>
      BY <3>5, <3>6 DEF Frame
    <3>8. NodesAreObjects'
      BY <1>0, <3>1, <3>2 DEF NodesAreObjects, LockInv, IsNode
    <3>9. OneCall' /\ CallsFit' /\ LockExplained'
      BY <1>0, <3>1, <3>6, <3>7 DEF LockInv, OneCall, CallsFit, LockExplained, In, ContainerOps
    <3> QED BY <3>8, <3>9 DEF LockInv
  <2> QED BY <2>1, <2>2
<1>10. CASE Attach
  <2>1. /\ calls # <<>> /\ IsNode(returned) /\ callbackNode' = returned /\ Finish
        /\ returned' = Nothing /\ heap' = heap /\ testAllocations' = testAllocations
    BY <1>10 DEF Attach, In, LockInv, NodesAreObjects
  <2>2. NodesAreObjects'
    BY <1>0, <2>1 DEF NodesAreObjects, LockInv, IsNode, Blocks
  <2> QED BY <2>1, <2>2, FinishKeepsLock
<1>11. CASE Detach
  <2>1. /\ calls # <<>> /\ phase' \notin AttachedPhases /\ Finish
        /\ returned' = Nothing /\ heap' = heap /\ testAllocations' = testAllocations
    BY <1>11 DEF Detach, In, AttachedPhases
  <2>2. NodesAreObjects'
    BY <1>0, <2>1 DEF NodesAreObjects, LockInv, IsNode, Blocks
  <2> QED BY <2>1, <2>2, FinishKeepsLock
<1> QED
  BY <1>1, <1>2, <1>3, <1>4, <1>5, <1>6, <1>7, <1>8, <1>9, <1>10, <1>11 DEF Allocator

(***************************************************************************)
(* A step of main or of a test function outside of the allocator.          *)
(***************************************************************************)
LEMMA OutsideKeepsLock ==
    ASSUME LockInv, UNCHANGED <<heap, recurseLock, testAllocations, calls, callbackNode>>,
           returned' \in {returned, Nothing},
           calls # <<>> => phase' = phase,
           phase' \in AttachedPhases => phase \in AttachedPhases,
           LockExplained'
    PROVE  LockInv'
<1>1. Nothing \notin Blocks
  BY DEF LockInv, NodesAreObjects, Nothing, Blocks
<1>2. Top' = Top
  BY DEF Top
<1>3. OneCall' /\ CallsFit'
  BY <1>2 DEF LockInv, OneCall, CallsFit, In, Blocks
<1>4. NodesAreObjects'
  BY <1>1 DEF LockInv, NodesAreObjects, IsNode, Blocks
<1> QED BY <1>3, <1>4 DEF LockInv

(***************************************************************************)
(* The program calls an operation of a container in the phase it is for.   *)
(***************************************************************************)
LEMMA CallKeepsLock ==
    ASSUME LockInv, NEW left,
           NEW op \in {"attach", "clear", "report", "detach"},
           op = "attach" => phase = "attach",
           op = "clear" => phase = "start",
           op = "report" => phase = "end",
           op = "detach" => phase = "detach",
           ProgramCalls(op, left)
    PROVE  LockInv'
<1>1. /\ calls = <<>> /\ returned = Nothing /\ returned' = Nothing /\ recurseLock' = TRUE
      /\ calls' = <<Frame(op, NoBlock, left)>>
      /\ heap' = heap /\ phase' = phase
      /\ testAllocations' = testAllocations /\ callbackNode' = callbackNode
  BY DEF ProgramCalls, ProgramRuns, Begin
<1>2. Top' = Frame(op, NoBlock, left) /\ calls' # <<>>
  BY <1>1 DEF Top
<1>3. Top'.op = op /\ Top'.block = NoBlock /\ Top'.left = left
  BY <1>2 DEF Frame
<1>4. Nothing \notin Blocks
  BY DEF LockInv, NodesAreObjects, Nothing, Blocks
<1>5. NodesAreObjects'
  BY <1>1, <1>4 DEF LockInv, NodesAreObjects, IsNode, Blocks
<1>6. OneCall' /\ CallsFit' /\ LockExplained'
  BY <1>1, <1>2, <1>3 DEF OneCall, CallsFit, LockExplained, In, ContainerOps
<1> QED BY <1>5, <1>6 DEF LockInv

(***************************************************************************)
(* The program runs with a free lock except in a test, and behind one,     *)
(* that recording an allocation failed in.                                 *)
(***************************************************************************)
LEMMA ProgramLock ==
    ASSUME LockInv, calls = <<>>, returned # BadAlloc, recurseLock, phase \notin Ended
    PROVE  phase \in {"body", "end", "statics"} /\ currentTest \in blind
BY DEF LockInv, LockExplained

(***************************************************************************)
(* A step of main, before the tests, between them or after them.           *)
(***************************************************************************)
LEMMA MainKeepsLock ==
    ASSUME LockInv, InMain
    PROVE  LockInv'
<1>0. /\ Void # BadAlloc /\ Nothing # BadAlloc /\ BadAlloc \notin Blocks
      /\ \A p : Running(p) => phase = p /\ calls = <<>> /\ returned = Nothing
  BY DEF LockInv, NodesAreObjects, Blocks, Void, Nothing, BadAlloc, Running, ProgramRuns
<1>1. CASE StaticInitializer \/ NewList
  BY <1>0, <1>1, AllocateKeepsLock DEF StaticInitializer, NewList, programVars, Kinds
<1>2. CASE BadAllocEscapes \/ MapDestructor
  BY <1>2, StopKeepsLock DEF BadAllocEscapes, MapDestructor, Terminate, Undefined, Ended
<1>3. CASE StaticInitialized
  <2>1. /\ UNCHANGED <<heap, recurseLock, testAllocations, calls, callbackNode>>
        /\ returned' = Nothing /\ phase' = phase /\ phase = "static" /\ returned # BadAlloc
    BY <1>0, <1>3 DEF StaticInitialized
  <2>2. LockExplained'
    BY <2>1, ProgramLock DEF LockExplained
  <2> QED BY <2>1, <2>2, OutsideKeepsLock
<1>4. CASE Main \/ ListMade \/ WarningsDeleted \/ PrintResults \/ MainReturns
  <2>1. /\ UNCHANGED <<heap, recurseLock, testAllocations, calls, callbackNode>>
        /\ returned' \in {returned, Nothing} /\ calls = <<>> /\ returned # BadAlloc
        /\ phase \in {"static", "lists", "cleanup", "results"}
        /\ phase' \in {"lists", "attach", "cleanup", "detach", "statics"}
        /\ phase' = "detach" => phase = "results"
    BY <1>0, <1>4 DEF Main, ListMade, WarningsDeleted, PrintResults, MainReturns, allocVars
  <2>2. LockExplained'
    BY <2>1, ProgramLock DEF LockExplained, Ended
  <2> QED BY <2>1, <2>2, OutsideKeepsLock DEF AttachedPhases
<1>5. CASE Callback
  BY <1>5, CallKeepsLock DEF Callback
<1>6. CASE DeleteWarnings
  <2>1. PICK b : DeallocateManaged("object", b)
    BY <1>6 DEF DeleteWarnings
  <2> QED BY <1>0, <1>6, <2>1, DeallocateKeepsLock DEF DeleteWarnings, programVars, Kinds
<1>7. CASE StaticDestructor
  BY <1>0, <1>7, DeallocateKeepsLock DEF StaticDestructor
<1>8. CASE StaticDeleted \/ ProcessExits
  <2>1. /\ UNCHANGED <<heap, recurseLock, testAllocations, calls, callbackNode>>
        /\ UNCHANGED <<currentTest, blind>>
        /\ returned' \in {returned, Nothing} /\ calls = <<>> /\ returned # BadAlloc
        /\ phase = "statics" /\ phase' \in {"statics", "over"}
    BY <1>0, <1>8 DEF StaticDeleted, ProcessExits, allocVars, harnessVars, programVars
  <2>2. LockExplained'
    BY <2>1, ProgramLock DEF LockExplained, Ended
  <2> QED BY <2>1, <2>2, OutsideKeepsLock DEF AttachedPhases
<1> QED BY <1>1, <1>2, <1>3, <1>4, <1>5, <1>6, <1>7, <1>8 DEF InMain

(***************************************************************************)
(* A step of a test function, or of the compiler it calls.                 *)
(***************************************************************************)
LEMMA TestKeepsLock ==
    ASSUME LockInv, InTest
    PROVE  LockInv'
<1>0. /\ Void # BadAlloc /\ Nothing # BadAlloc /\ BadAlloc \notin Blocks
      /\ \A p : Running(p) => phase = p /\ calls = <<>> /\ returned = Nothing
      /\ TestRuns => phase = "body" /\ calls = <<>> /\ returned = Nothing
  BY DEF LockInv, NodesAreObjects, Blocks, Void, Nothing, BadAlloc, Running, ProgramRuns, TestRuns
<1>1. CASE New
  BY <1>0, <1>1, AllocateKeepsLock DEF New, Does, programVars
<1>2. CASE NewReturns
  <2>1. /\ UNCHANGED <<heap, recurseLock, testAllocations, calls, callbackNode, currentTest>>
        /\ returned' = Nothing /\ calls = <<>> /\ phase = "body" /\ phase' = "body"
        /\ \/ returned # BadAlloc /\ blind' = blind
           \/ blind' = IF recurseLock THEN blind \cup {currentTest} ELSE blind
    BY <1>0, <1>2 DEF NewReturns, harnessVars
  <2>2. LockExplained'
    BY <2>1, ProgramLock DEF LockExplained, Ended
  <2> QED BY <2>1, <2>2, OutsideKeepsLock
<1>3. CASE Delete
  BY <1>0, <1>3, DeallocateKeepsLock DEF Delete
<1>4. CASE Use \/ CompilerReadsBehindArgv
  BY <1>4, StopKeepsLock DEF Use, CompilerReadsBehindArgv, Undefined, Ended
<1>5. CASE \/ DeleteReturns \/ Compile \/ CompilerSteps \/ CompilerEndsProcess
           \/ \E how \in {"passed", "failed", "exception"} : FunctionEnds(how)
  <2>1. /\ UNCHANGED <<heap, recurseLock, testAllocations, calls, callbackNode>>
        /\ UNCHANGED <<currentTest, blind>>
        /\ returned' \in {returned, Nothing} /\ calls = <<>> /\ returned # BadAlloc
        /\ phase = "body" /\ phase' \in {"body", "end", "statics"}
    BY <1>0, <1>5
    DEF DeleteReturns, Compile, CompilerSteps, CompilerEndsProcess, FunctionEnds, TestEnds, Does,
        ByCompiler, allocVars, harnessVars, programVars
  <2>2. LockExplained'
    BY <2>1, ProgramLock DEF LockExplained, Ended
  <2> QED BY <2>1, <2>2, OutsideKeepsLock DEF AttachedPhases
<1> QED BY <1>1, <1>2, <1>3, <1>4, <1>5 DEF InTest

(***************************************************************************)
(* Every step of the process keeps what is known of the lock.              *)
(***************************************************************************)
LEMMA NextKeepsLock ==
    ASSUME LockInv, [Next]_vars
    PROVE  LockInv'
<1>1. CASE Operators
  BY <1>1, AllocatorKeepsLock DEF Operators, programVars
<1>2. CASE UNCHANGED vars
  <2>1. /\ UNCHANGED <<heap, recurseLock, testAllocations, calls, callbackNode, returned>>
        /\ UNCHANGED <<phase, currentTest, blind>>
    BY <1>2 DEF vars, allocVars, harnessVars, programVars
  <2>2. LockExplained'
    BY <2>1 DEF LockInv, LockExplained
  <2> QED BY <2>1, <2>2, OutsideKeepsLock
<1> QED BY <1>1, <1>2, MainKeepsLock, TestKeepsLock DEF Next

(***************************************************************************)
(* A process starts with no operation under way and a free lock.           *)
(***************************************************************************)
LEMMA InitLock ==
    ASSUME Init
    PROVE  LockInv
<1>1. /\ heap = <<>> /\ recurseLock = FALSE /\ testAllocations = <<>> /\ calls = <<>>
      /\ phase = "static"
  BY DEF Init, InitAllocator, InitHarness
<1>2. phase \notin AttachedPhases
  BY <1>1 DEF AttachedPhases
<1>3. OneCall /\ CallsFit /\ LockExplained
  BY <1>1 DEF OneCall, CallsFit, LockExplained, In
<1>4. heap \in Seq(Marks) /\ DOMAIN testAllocations = {}
  BY <1>1
<1>5. NodesAreObjects
  BY <1>1, <1>2, <1>4 DEF NodesAreObjects, Blocks
<1> QED BY <1>3, <1>5 DEF LockInv

(***************************************************************************)
(* What is known of the lock is an invariant of the process.               *)
(***************************************************************************)
LEMMA LockIsInvariant == Spec => []LockInv
<1>1. Init => LockInv
  BY InitLock
<1>2. LockInv /\ [Next]_vars => LockInv'
  BY NextKeepsLock
<1> QED BY <1>1, <1>2, PTL DEF Spec

(***************************************************************************)
(* The operators that containers call for their nodes never start another  *)
(* operation of a container, whatever the tests do and whenever malloc     *)
(* fails (TracingAllocator.cpp:171-190, 221-251).                          *)
(***************************************************************************)
THEOREM OperatorsAreNotReentered == Spec => []NoReentry
<1>1. LockInv => NoReentry
  <2> SUFFICES ASSUME LockInv PROVE NoReentry
    OBVIOUS
  <2>1. calls # <<>> => recurseLock /\ \E f : calls = <<f>>
    BY DEF LockInv, OneCall
  <2>2. Len(calls) <= 1
    <3>1. CASE calls = <<>>
      BY <3>1
    <3>2. CASE \E f : calls = <<f>>
      BY <3>2
    <3> QED BY <2>1, <3>1, <3>2
  <2> QED BY <2>1, <2>2 DEF NoReentry
<1> QED BY <1>1, LockIsInvariant, PTL

(***************************************************************************)
(* Recording an allocation that fails leaves the lock held, for the test   *)
(* it fails in and no longer (TracingAllocator.cpp:187).                   *)
(***************************************************************************)
THEOREM OneTestIsBlind == Spec => []FailureBlindsOneTest
<1>1. LockInv => FailureBlindsOneTest
  <2>1. Nothing # BadAlloc
    BY DEF Nothing, BadAlloc
  <2> QED BY <2>1, ProgramLock DEF FailureBlindsOneTest, ProgramRuns
<1> QED BY <1>1, LockIsInvariant, PTL

-----------------------------------------------------------------------------
(* The map.                                                                *)

\* What the running test allocated and did not free.
Live == {b \in DOMAIN given : given[b] = currentTest /\ heap[b] # "freed"}

\* The tests that were given blocks are those up to the current one.
GivenToEarlier ==
    /\ currentTest \in Nat
    /\ DOMAIN given \subseteq Blocks
    /\ phase \notin {"static"} \cup Ended => stlInitialized
    /\ phase \in {"static", "lists", "attach"} => \A b \in DOMAIN given : given[b] = NoTest
    /\ phase \in {"start", "body", "end"} => currentTest # NoTest
    /\ phase = "start" => \A b \in DOMAIN given : given[b] \in Nat /\ given[b] < currentTest
    /\ phase \in {"body", "end"} => \A b \in DOMAIN given : given[b] \in Nat /\ given[b] <= currentTest

\* A block on its way to the test is recorded, but not with the test yet.
MapFollows ==
    phase = "body" /\ currentTest \notin blind =>
        \/ recurseLock /\ calls = <<>> /\ returned = BadAlloc
        \/ /\ calls = <<>> /\ returned \in Blocks
           /\ DOMAIN testAllocations = Live \cup {returned}
           /\ returned \notin DOMAIN given /\ heap[returned] # "freed"
        \/ calls = <<>> /\ returned \notin Blocks /\ DOMAIN testAllocations = Live
        \/ /\ In("record") /\ DOMAIN testAllocations = Live
           /\ Top.block \notin DOMAIN given /\ heap[Top.block] # "freed"
        \/ In("erase") /\ DOMAIN testAllocations = Live
        \/ In("warn") /\ DOMAIN testAllocations = Live

MapInv == GivenToEarlier /\ MapFollows

(***************************************************************************)
(* A step of a container operation.                                        *)
(***************************************************************************)
LEMMA AllocatorKeepsGiven ==
    ASSUME LockInv, GivenToEarlier, Allocator, UNCHANGED programVars
    PROVE  GivenToEarlier'
<1>0. given' = given /\ heap \in Seq(Marks)
  BY DEF programVars, LockInv, NodesAreObjects
<1>1. ASSUME Blocks \subseteq Blocks', UNCHANGED <<phase, currentTest, stlInitialized>>
      PROVE  GivenToEarlier'
  BY <1>0, <1>1 DEF GivenToEarlier
<1>2. ASSUME NEW p \in Ended, Stop(p)
      PROVE  GivenToEarlier'
  BY <1>0, <1>2 DEF GivenToEarlier, Stop, harnessVars, Ended, Blocks
<1>3. CASE AskForNode
  <2>1. "object" \in Kinds
    BY DEF Kinds
  <2>2. Blocks \subseteq Blocks' /\ UNCHANGED <<phase, currentTest, stlInitialized>>
    <3>1. CASE heap' = heap
      BY <1>3, <3>1 DEF AskForNode, AllocateManaged, harnessVars, Blocks
    <3>2. CASE heap' = Append(heap, "object")
      BY <1>0, <1>3, <2>1, <3>2, NewBlock DEF AskForNode, AllocateManaged, harnessVars
    <3> QED BY <1>3, <3>1, <3>2 DEF AskForNode, AllocateManaged
  <2> QED BY <1>1, <2>2
<1>4. CASE GiveNodeBack
  BY <1>1, <1>2, <1>4, NodeIsGivenBack DEF Undefined, Ended, harnessVars, Blocks
<1>5. CASE Record \/ RecordFails \/ Warn
  BY <1>1, <1>5 DEF Record, RecordFails, Warn, harnessVars, Blocks
<1>6. CASE Erase
  BY <1>0, <1>1, <1>6, FreedBlock DEF Erase, harnessVars
<1>7. CASE NodeMissing
  BY <1>2, <1>7 DEF NodeMissing, Terminate, Ended
<1>8. CASE Clear
  <2>1. /\ phase = "start" /\ phase' \in {"start", "body"}
        /\ heap' = heap /\ UNCHANGED <<currentTest, stlInitialized>>
    BY <1>8 DEF Clear, harnessVars, LockInv, CallsFit
  <2> QED BY <1>0, <2>1 DEF GivenToEarlier, Blocks, Ended
<1>9. CASE Report
  <2>1. CASE Undefined
    BY <1>2, <2>1 DEF Undefined, Ended
  <2>2. CASE ~Undefined
    <3>1. /\ Free(First(Top.left)) /\ UNCHANGED <<phase, currentTest, stlInitialized>>
      BY <1>9, <2>2 DEF Report
    <3> QED BY <1>0, <1>1, <3>1, FreedBlock
  <2> QED BY <2>1, <2>2
<1>10. CASE ReportDone
  <2>1. /\ phase = "end" /\ heap' = heap /\ stlInitialized' = stlInitialized
        /\ currentTest' \in {NoTest, currentTest + 1}
        /\ phase' \in {"results", "start"} /\ (phase' = "start" => currentTest' # NoTest)
    BY <1>10 DEF ReportDone, NextTest, Following, LockInv, CallsFit
  <2> QED BY <1>0, <2>1 DEF GivenToEarlier, Blocks, NoTest, Ended
<1>11. CASE Attach
  <2>1. /\ phase = "attach" /\ heap' = heap /\ stlInitialized' = stlInitialized
        /\ currentTest' \in {NoTest, 1}
        /\ phase' \in {"results", "start"} /\ (phase' = "start" => currentTest' # NoTest)
    BY <1>11 DEF Attach, FirstTest, LockInv, CallsFit, NoTest
  <2> QED BY <1>0, <2>1 DEF GivenToEarlier, Blocks, NoTest, Ended
<1>12. CASE Detach
  <2>1. /\ phase = "detach" /\ heap' = heap /\ stlInitialized' = stlInitialized
        /\ currentTest' \in {NoTest, 1} /\ phase' = "cleanup"
    BY <1>12 DEF Detach, FirstTest, LockInv, CallsFit, NoTest
  <2> QED BY <1>0, <2>1 DEF GivenToEarlier, Blocks, NoTest, Ended
<1> QED
  BY <1>3, <1>4, <1>5, <1>6, <1>7, <1>8, <1>9, <1>10, <1>11, <1>12 DEF Allocator

(***************************************************************************)
(* A container operation leaves the map as the running test needs it:      *)
(* Clear begins with an empty map, and the record of a block and the       *)
(* entry of the map come and go together.                                  *)
(***************************************************************************)
LEMMA AllocatorKeepsMap ==
    ASSUME LockInv, LockInv', GivenToEarlier, MapFollows, Allocator, UNCHANGED programVars
    PROVE  MapFollows'
<1> SUFFICES ASSUME phase' = "body", currentTest' \notin blind'
             PROVE  MapFollows'
  BY DEF MapFollows
<1>0. /\ given' = given /\ blind' = blind /\ DOMAIN given \subseteq Blocks /\ heap \in Seq(Marks)
      /\ BadAlloc \notin Blocks' /\ Void \notin Blocks' /\ Nothing \notin Blocks'
      /\ \A p \in Ended : ~Stop(p)
  BY DEF programVars, GivenToEarlier, LockInv, NodesAreObjects, Blocks, BadAlloc, Void, Nothing, Stop, Ended
<1>1. calls # <<>> /\ recurseLock /\ Tail(calls) = <<>>
  <2>1. calls # <<>>
    BY <1>0 DEF Allocator, AskForNode, GiveNodeBack, Recording, Reporting, In, Record, RecordFails,
                Erase, Warn, NodeMissing, Clear, Report, ReportDone, Attach, Detach
  <2>2. PICK f : calls = <<f>>
    BY <2>1 DEF LockInv, OneCall
  <2> QED BY <2>1, <2>2 DEF LockInv, OneCall
<1>2. CASE Clear
  <2>1. /\ DOMAIN testAllocations' = {} /\ Finish /\ heap' = heap /\ returned' = Nothing
        /\ currentTest' = currentTest /\ phase = "start"
    BY <1>2 DEF Clear, harnessVars, LockInv, CallsFit
  <2>2. calls' = <<>>
    BY <1>1, <2>1 DEF Finish
  <2>3. Live' = {}
    BY <1>0, <2>1 DEF Live, GivenToEarlier
  <2> QED BY <1>0, <2>1, <2>2, <2>3 DEF MapFollows
<1>3. CASE AskForNode
  <2>1. /\ phase = "body" /\ currentTest' = currentTest /\ testAllocations' = testAllocations
        /\ calls' = calls /\ returned = Nothing
        /\ heap' = heap \/ heap' = Append(heap, "object")
    BY <1>1, <1>3 DEF AskForNode, AllocateManaged, harnessVars
  <2>2. /\ In("record") \/ In("warn")
        /\ In("record") => Top.block \in Blocks
    BY <1>3, <2>1 DEF AskForNode, Recording, Reporting, LockInv, CallsFit
  <2>3. /\ DOMAIN testAllocations = Live
        /\ In("record") => Top.block \notin DOMAIN given /\ heap[Top.block] # "freed"
    BY <1>0, <1>1, <2>1, <2>2 DEF MapFollows, In
  <2>4. \A b \in Blocks : heap'[b] = heap[b]
    BY <1>0, <2>1, NewBlock DEF Kinds
  <2>5. Live' = Live
    BY <1>0, <2>1, <2>4 DEF Live
  <2>6. Top' = Top
    BY <2>1 DEF Top
  <2> QED BY <1>0, <2>1, <2>2, <2>3, <2>4, <2>5, <2>6 DEF MapFollows, In
<1>4. CASE GiveNodeBack
  <2>1. UNCHANGED <<heap, calls, testAllocations, phase, currentTest>>
    BY <1>0, <1>4, NodeIsGivenBack DEF Undefined, Ended, harnessVars
  <2>2. phase = "body" /\ In("erase")
    BY <1>4, <2>1 DEF GiveNodeBack, LockInv, CallsFit
  <2>3. DOMAIN testAllocations = Live
    BY <1>0, <1>1, <2>1, <2>2 DEF MapFollows, In
  <2>4. Top' = Top /\ Live' = Live
    BY <1>0, <2>1 DEF Top, Live
  <2> QED BY <1>0, <2>1, <2>2, <2>3, <2>4 DEF MapFollows, In
<1>5. CASE Record
  <2>1. /\ phase = "body" /\ currentTest' = currentTest /\ heap' = heap
        /\ In("record") /\ Finish /\ returned' = Top.block /\ Top.block \in Blocks
        /\ testAllocations' = With(testAllocations, Top.block, returned)
    BY <1>5 DEF Record, harnessVars, LockInv, CallsFit
  <2>2. calls' = <<>>
    BY <1>1, <2>1 DEF Finish
  <2>3. /\ DOMAIN testAllocations = Live
        /\ Top.block \notin DOMAIN given /\ heap[Top.block] # "freed"
    BY <1>0, <1>1, <2>1 DEF MapFollows, In
  <2>4. Live' = Live /\ Blocks' = Blocks
    BY <1>0, <2>1 DEF Live, Blocks
  <2>5. DOMAIN testAllocations' = DOMAIN testAllocations \cup {Top.block}
    BY <2>1 DEF With
  <2> QED BY <1>0, <2>1, <2>2, <2>3, <2>4, <2>5 DEF MapFollows
<1>6. CASE RecordFails
  <2>1. calls' = <<>> /\ returned' = BadAlloc /\ recurseLock' = recurseLock
    BY <1>1, <1>6 DEF RecordFails
  <2> QED BY <1>1, <2>1 DEF MapFollows
<1>7. CASE Erase
  <2>1. /\ phase = "body" /\ currentTest' = currentTest /\ In("erase") /\ Finish
        /\ Free(Top.block) /\ returned' = Void
        /\ testAllocations' = Without(testAllocations, Top.block)
    BY <1>7 DEF Erase, harnessVars
  <2>2. calls' = <<>>
    BY <1>1, <2>1 DEF Finish
  <2>3. DOMAIN testAllocations = Live
    BY <1>0, <1>1, <2>1 DEF MapFollows, In
  <2>4. \A x \in Blocks : heap'[x] = IF x = Top.block THEN "freed" ELSE heap[x]
    BY <1>0, <2>1, FreedBlock
  <2>5. Live' = Live \ {Top.block}
    BY <1>0, <2>1, <2>4 DEF Live
  <2>6. DOMAIN testAllocations' = DOMAIN testAllocations \ {Top.block}
    BY <2>1 DEF Without
  <2> QED BY <1>0, <2>1, <2>2, <2>3, <2>5, <2>6 DEF MapFollows
<1>8. CASE Warn
  <2>1. /\ phase = "body" /\ currentTest' = currentTest /\ heap' = heap /\ In("warn") /\ Finish
        /\ returned' = Void /\ testAllocations' = testAllocations
    BY <1>8 DEF Warn
  <2>2. calls' = <<>>
    BY <1>1, <2>1 DEF Finish
  <2>3. DOMAIN testAllocations = Live
    BY <1>0, <1>1, <2>1 DEF MapFollows, In
  <2>4. Live' = Live
    BY <1>0, <2>1 DEF Live
  <2> QED BY <1>0, <2>1, <2>2, <2>3, <2>4 DEF MapFollows
<1>9. ~NodeMissing
  BY <1>0 DEF NodeMissing, Terminate, Ended
<1>10. ~Report
  BY <1>0 DEF Report, Undefined, Ended, LockInv, CallsFit
<1>11. ~ReportDone /\ ~Attach /\ ~Detach
  BY DEF ReportDone, NextTest, Attach, Detach
<1> QED
  BY <1>2, <1>3, <1>4, <1>5, <1>6, <1>7, <1>8, <1>9, <1>10, <1>11 DEF Allocator

(***************************************************************************)
(* operator new and operator delete as GivenToEarlier sees them.           *)
(***************************************************************************)
LEMMA OperatorsKeepGiven ==
    ASSUME LockInv, GivenToEarlier, given' = given, NEW kind \in Kinds, NEW b,
           AllocateManaged(kind) \/ DeallocateManaged(kind, b)
    PROVE  GivenToEarlier'
<1>0. heap \in Seq(Marks)
  BY DEF LockInv, NodesAreObjects
<1>1. ASSUME Blocks \subseteq Blocks', UNCHANGED <<phase, currentTest, stlInitialized>>
      PROVE  GivenToEarlier'
  BY <1>1 DEF GivenToEarlier
<1>2. CASE AllocateManaged(kind)
  <2>1. UNCHANGED <<phase, currentTest, stlInitialized>>
    BY <1>2 DEF AllocateManaged, harnessVars
  <2>2. CASE heap' = heap
    BY <1>1, <2>1, <2>2 DEF Blocks
  <2>3. CASE heap' = Append(heap, kind)
    BY <1>0, <1>1, <2>1, <2>3, NewBlock
  <2> QED BY <1>2, <2>2, <2>3 DEF AllocateManaged
<1>3. CASE DeallocateManaged(kind, b)
  <2>1. CASE Undefined
    BY <2>1 DEF Undefined, Stop, Ended, GivenToEarlier, Blocks, harnessVars
  <2>2. CASE ~Undefined
    <3>1. UNCHANGED <<phase, currentTest, stlInitialized>> /\ (heap' = heap \/ Free(b))
      BY <1>3, <2>2 DEF DeallocateManaged, harnessVars
    <3>2. Blocks' = Blocks
      BY <1>0, <3>1, FreedBlock DEF Blocks
    <3> QED BY <1>1, <3>1, <3>2
  <2> QED BY <2>1, <2>2
<1> QED BY <1>2, <1>3

(***************************************************************************)
(* A step of main does not end in a test function.                         *)
(***************************************************************************)
LEMMA MainKeepsMap ==
    ASSUME LockInv, MapInv, InMain
    PROVE  MapInv'
<1> USE DEF MapInv
<1>0. /\ \A p : Running(p) => phase = p
      /\ returned # Nothing => returned # BadAlloc \/ returned = BadAlloc
  BY DEF Running
<1>1. CASE StaticInitializer \/ NewList \/ DeleteWarnings \/ StaticDestructor
  <2>1. /\ given' = given /\ phase \in {"static", "lists", "cleanup", "statics"}
        /\ \E kind \in Kinds : \E b : AllocateManaged(kind) \/ DeallocateManaged(kind, b)
    BY <1>0, <1>1 DEF StaticInitializer, NewList, DeleteWarnings, StaticDestructor, programVars, Kinds
  <2>2. GivenToEarlier'
    BY <2>1, OperatorsKeepGiven
  <2>3. phase' \in {phase, "undefined"}
    BY <2>1 DEF AllocateManaged, DeallocateManaged, Undefined, Stop
  <2> QED BY <2>1, <2>2, <2>3 DEF MapFollows
<1>2. CASE BadAllocEscapes \/ MapDestructor
  BY <1>2 DEF BadAllocEscapes, MapDestructor, Terminate, Undefined, Stop, Ended, harnessVars,
              programVars, GivenToEarlier, MapFollows, Blocks
<1>3. CASE StaticInitialized
  <2>1. /\ phase = "static" /\ phase' = phase /\ UNCHANGED <<heap, currentTest, stlInitialized>>
        /\ returned \in Blocks /\ given' = With(given, returned, NoTest)
    BY <1>3 DEF StaticInitialized, harnessVars
  <2>2. /\ DOMAIN given' = DOMAIN given \cup {returned}
        /\ \A b \in DOMAIN given' : given'[b] = IF b = returned THEN NoTest ELSE given[b]
    BY <2>1 DEF With
  <2> QED BY <2>1, <2>2 DEF GivenToEarlier, MapFollows, Blocks
<1>4. CASE Main \/ ListMade \/ WarningsDeleted \/ PrintResults \/ MainReturns \/ StaticDeleted \/ ProcessExits
  <2>1. FirstTest \in Nat /\ (currentTest \in Nat => Following(currentTest) \in Nat)
    BY DEF FirstTest, Following, NoTest
  <2>2. /\ heap' = heap /\ given' = given
        /\ stlInitialized' = (stlInitialized \/ stlInitialized' = TRUE)
        /\ \/ phase \in {"static", "lists"} /\ phase' \in {"lists", "attach"}
           \/ phase \notin {"static"} \cup Ended /\ phase' \in {"cleanup", "detach", "statics", "over"}
        /\ currentTest' \in Nat
    BY <1>0, <1>4, <2>1
    DEF Main, ListMade, WarningsDeleted, PrintResults, MainReturns, StaticDeleted, ProcessExits,
        allocVars, harnessVars, programVars, GivenToEarlier, Ended
  <2>3. stlInitialized'
    BY <1>0, <1>4
    DEF Main, ListMade, WarningsDeleted, PrintResults, MainReturns, StaticDeleted, ProcessExits,
        harnessVars, GivenToEarlier, Ended
  <2> QED BY <2>2, <2>3 DEF GivenToEarlier, MapFollows, Blocks
<1>5. CASE Callback
  <2>1. phase # "body" /\ phase' = phase /\ UNCHANGED <<heap, given, currentTest, stlInitialized>>
    BY <1>5 DEF Callback, ProgramCalls, harnessVars, programVars
  <2> QED BY <2>1 DEF GivenToEarlier, MapFollows, Blocks
<1> QED BY <1>1, <1>2, <1>3, <1>4, <1>5 DEF InMain

(***************************************************************************)
(* A step of a test function, or of the compiler it calls.                 *)
(***************************************************************************)
LEMMA TestKeepsMap ==
    ASSUME LockInv, LockInv', MapInv, InTest
    PROVE  MapInv'
<1> USE DEF MapInv
<1>0. /\ TestRuns => phase = "body" /\ calls = <<>> /\ returned = Nothing
      /\ phase = "body" => phase \notin {"static"} \cup Ended
      /\ DOMAIN given \subseteq Blocks /\ heap \in Seq(Marks) /\ Blocks \subseteq Nat
      /\ BadAlloc \notin Blocks /\ Void \notin Blocks /\ Nothing \notin Blocks
      /\ BadAlloc \notin Blocks' /\ Void \notin Blocks' /\ Nothing \notin Blocks'
      /\ BadAlloc # Nothing
  BY DEF TestRuns, Running, ProgramRuns, GivenToEarlier, LockInv, NodesAreObjects, Blocks, Ended,
         BadAlloc, Void, Nothing
<1>1. ASSUME phase = "body", calls = <<>>, returned = Nothing, currentTest \notin blind
      PROVE  ~recurseLock /\ DOMAIN testAllocations = Live
  BY <1>0, <1>1, ProgramLock DEF MapFollows, In
<1>2. CASE New
  <2>1. PICK kind \in Kinds : AllocateManaged(kind)
    BY <1>2 DEF New
  <2>2. /\ given' = given /\ blind' = blind
        /\ UNCHANGED <<phase, currentTest, testAllocations>>
        /\ phase = "body" /\ calls = <<>> /\ returned = Nothing
    BY <1>0, <1>2, <2>1 DEF New, Does, programVars, AllocateManaged, harnessVars
  <2>3. GivenToEarlier'
    BY <2>1, <2>2, OperatorsKeepGiven
  <2>4. SUFFICES ASSUME currentTest \notin blind
                 PROVE  MapFollows'
    BY <2>2, <2>3 DEF MapFollows
  <2>5. DOMAIN testAllocations = Live /\ ~recurseLock /\ stlInitialized
    BY <1>0, <1>1, <2>2, <2>4 DEF GivenToEarlier
  <2>6. CASE returned' = BadAlloc /\ UNCHANGED <<heap, recurseLock, calls>>
    <3>1. Live' = Live
      BY <2>2, <2>6 DEF Live
    <3> QED BY <1>0, <2>2, <2>5, <2>6, <3>1 DEF MapFollows
  <2>7. CASE heap' = Append(heap, kind) /\ Begin("record", Len(heap'), {})
    <3>1. /\ Len(heap') \notin Blocks /\ heap'[Len(heap')] = kind /\ kind # "freed"
          /\ \A b \in Blocks : heap'[b] = heap[b]
      BY <1>0, <2>7, NewBlock DEF Kinds
    <3>2. Live' = Live
      BY <1>0, <2>2, <3>1 DEF Live
    <3>3. calls' = <<Frame("record", Len(heap'), {})>>
      BY <2>2, <2>7 DEF Begin
    <3>4. Top' = Frame("record", Len(heap'), {}) /\ calls' # <<>>
      BY <3>3 DEF Top
    <3>5. Top'.op = "record" /\ Top'.block = Len(heap')
      BY <3>4 DEF Frame
    <3> QED BY <1>0, <2>2, <2>5, <3>1, <3>2, <3>4, <3>5 DEF MapFollows, In
  <2> QED BY <2>1, <2>5, <2>6, <2>7 DEF AllocateManaged
<1>3. CASE NewReturns
  <2>1. /\ UNCHANGED <<heap, calls, recurseLock, testAllocations, phase, currentTest, stlInitialized>>
        /\ phase = "body" /\ calls = <<>> /\ returned' = Nothing /\ currentTest \in Nat
    BY <1>3 DEF NewReturns, harnessVars, GivenToEarlier
  <2>2. CASE returned \in Blocks /\ given' = With(given, returned, currentTest) /\ blind' = blind
    <3>1. /\ DOMAIN given' = DOMAIN given \cup {returned}
          /\ \A b \in DOMAIN given' : given'[b] = IF b = returned THEN currentTest ELSE given[b]
      BY <2>2 DEF With
    <3>2. GivenToEarlier'
      BY <1>0, <2>1, <2>2, <3>1 DEF GivenToEarlier, Blocks
    <3>3. SUFFICES ASSUME currentTest \notin blind
                   PROVE  MapFollows'
      BY <2>1, <2>2, <3>2 DEF MapFollows
    <3>4. /\ DOMAIN testAllocations = Live \cup {returned}
          /\ returned \notin DOMAIN given /\ heap[returned] # "freed"
      BY <1>0, <2>1, <2>2, <3>3 DEF MapFollows, In
    <3>5. Live' = Live \cup {returned}
      BY <2>1, <2>2, <3>1, <3>4 DEF Live
    <3> QED BY <1>0, <2>1, <3>4, <3>5 DEF MapFollows
  <2>3. CASE returned = BadAlloc /\ given' = given
    <3>1. GivenToEarlier'
      BY <2>1, <2>3 DEF GivenToEarlier, Blocks
    <3>2. SUFFICES ASSUME currentTest \notin blind'
                   PROVE  MapFollows'
      BY <2>1, <3>1 DEF MapFollows
    <3>3. ~recurseLock /\ currentTest \notin blind
      BY <1>0, <1>3, <2>3, <3>2 DEF NewReturns
    <3>4. DOMAIN testAllocations = Live /\ Live' = Live
      BY <1>0, <2>1, <2>3, <3>3 DEF MapFollows, In, Live
    <3> QED BY <1>0, <2>1, <3>4 DEF MapFollows
  <2> QED BY <1>3, <2>2, <2>3 DEF NewReturns
<1>4. CASE Delete
  <2>1. PICK b \in held \cup kept, kind \in Kinds : DeallocateManaged(kind, b)
    BY <1>4 DEF Delete
  <2>2. /\ given' = given /\ blind' = blind
        /\ phase = "body" /\ calls = <<>> /\ returned = Nothing
    BY <1>0, <1>4 DEF Delete
  <2>3. GivenToEarlier'
    BY <2>1, <2>2, OperatorsKeepGiven
  <2>4. SUFFICES ASSUME phase' = "body", currentTest' \notin blind'
                 PROVE  MapFollows'
    BY <2>3 DEF MapFollows
  <2>5. /\ heap[b] # "freed"
        /\ UNCHANGED <<currentTest, testAllocations>>
        /\ currentTest # NoTest
    BY <2>1, <2>2, <2>4 DEF DeallocateManaged, Undefined, Stop, harnessVars, GivenToEarlier
  <2>6. DOMAIN testAllocations = Live /\ ~recurseLock
    BY <1>1, <2>2, <2>4, <2>5
  <2>7. ASSUME NEW op \in {"warn", "erase"}, Begin(op, b, {}), heap' = heap
        PROVE  MapFollows'
    <3>1. calls' = <<Frame(op, b, {})>>
      BY <2>2, <2>7 DEF Begin
    <3>2. Top' = Frame(op, b, {}) /\ calls' # <<>>
      BY <3>1 DEF Top
    <3>3. Top'.op = op
      BY <3>2 DEF Frame
    <3>4. Live' = Live
      BY <2>2, <2>5, <2>7 DEF Live
    <3> QED BY <2>5, <2>6, <3>2, <3>3, <3>4 DEF MapFollows, In
  <2>8. CASE b \notin DOMAIN testAllocations /\ Free(b) /\ returned' = Void /\ calls' = calls
    <3>1. \A x \in Blocks : heap'[x] = IF x = b THEN "freed" ELSE heap[x]
      BY <1>0, <2>8, FreedBlock
    <3>2. Live' = Live
      BY <1>0, <2>2, <2>5, <2>6, <2>8, <3>1 DEF Live
    <3> QED BY <1>0, <2>2, <2>5, <2>6, <2>8, <3>2 DEF MapFollows
  <2> QED BY <2>1, <2>5, <2>6, <2>7, <2>8 DEF DeallocateManaged
<1>5. CASE Use \/ CompilerReadsBehindArgv
  BY <1>5 DEF Use, CompilerReadsBehindArgv, Undefined, Stop, Ended, harnessVars, programVars,
              GivenToEarlier, MapFollows, Blocks
<1>6. CASE DeleteReturns \/ Compile \/ CompilerSteps
  <2>1. /\ UNCHANGED <<heap, calls, testAllocations, phase, currentTest, stlInitialized, given, blind>>
        /\ \/ returned' = returned
           \/ phase = "body" /\ calls = <<>> /\ returned = Void /\ returned' = Nothing
        /\ recurseLock' = recurseLock
    BY <1>6 DEF DeleteReturns, Compile, CompilerSteps, ByCompiler, allocVars, harnessVars, programVars
  <2>2. Live' = Live /\ Top' = Top /\ Blocks' = Blocks
    BY <2>1 DEF Live, Top, Blocks
  <2>3. GivenToEarlier'
    BY <2>1, <2>2 DEF GivenToEarlier
  <2>4. Void # BadAlloc /\ Nothing # BadAlloc
    BY DEF Void, Nothing, BadAlloc
  <2>5. CASE returned' = returned
    BY <2>1, <2>2, <2>3, <2>5 DEF MapFollows, In
  <2>6. CASE phase = "body" /\ calls = <<>> /\ returned = Void /\ returned' = Nothing
    BY <1>0, <2>1, <2>2, <2>3, <2>4, <2>6 DEF MapFollows, In
  <2> QED BY <2>1, <2>5, <2>6
<1>7. CASE CompilerEndsProcess \/ \E how \in {"passed", "failed", "exception"} : FunctionEnds(how)
  <2>1. /\ UNCHANGED <<heap, currentTest, stlInitialized, given>>
        /\ phase = "body" /\ phase' \in {"end", "statics"}
    BY <1>0, <1>7 DEF CompilerEndsProcess, FunctionEnds, TestEnds, Running, allocVars, harnessVars, programVars
  <2> QED BY <1>0, <2>1 DEF GivenToEarlier, MapFollows, Blocks
<1> QED BY <1>2, <1>3, <1>4, <1>5, <1>6, <1>7 DEF InTest

(***************************************************************************)
(* Every step of the process keeps what is known of the map.               *)
(***************************************************************************)
LEMMA NextKeepsMap ==
    ASSUME LockInv, LockInv', MapInv, [Next]_vars
    PROVE  MapInv'
<1>1. CASE Operators
  BY <1>1, AllocatorKeepsGiven, AllocatorKeepsMap DEF Operators, MapInv
<1>2. CASE UNCHANGED vars
  BY <1>2 DEF vars, allocVars, harnessVars, programVars, MapInv, GivenToEarlier, MapFollows, Live,
              In, Top, Blocks
<1> QED BY <1>1, <1>2, MainKeepsMap, TestKeepsMap DEF Next

(***************************************************************************)
(* A process starts in main, where nothing is said of the map.             *)
(***************************************************************************)
LEMMA InitMap ==
    ASSUME Init
    PROVE  MapInv
BY DEF Init, InitHarness, MapInv, GivenToEarlier, MapFollows, NoTest, Ended

(***************************************************************************)
(* What is known of the map is an invariant, together with the lock.       *)
(***************************************************************************)
LEMMA MapIsInvariant == Spec => [](LockInv /\ MapInv)
<1>1. Init => LockInv /\ MapInv
  BY InitLock, InitMap
<1>2. (LockInv /\ MapInv) /\ [Next]_vars => (LockInv /\ MapInv)'
  BY NextKeepsLock, NextKeepsMap
<1> QED BY <1>1, <1>2, PTL DEF Spec

(***************************************************************************)
(* While a test runs, the map holds exactly what the test allocated and    *)
(* did not free, for any test, any order of new and delete of either form  *)
(* and any failure of malloc that did not hit a node of the map            *)
(* (TracingAllocator.cpp:171-251).                                         *)
(***************************************************************************)
THEOREM MapHoldsWhatIsLive == Spec => []MapIsWhatIsLive
<1>1. LockInv /\ MapInv => MapIsWhatIsLive
  <2>1. ASSUME LockInv, MapInv, Running("body"), currentTest \notin blind
        PROVE  DOMAIN testAllocations = Live
    <3>1. phase = "body" /\ calls = <<>> /\ returned = Nothing
      BY <2>1 DEF Running, ProgramRuns
    <3>2. Nothing # BadAlloc /\ Nothing \notin Blocks
      BY <2>1 DEF Nothing, BadAlloc, LockInv, NodesAreObjects, Blocks
    <3> QED BY <2>1, <3>1, <3>2 DEF MapInv, MapFollows, In
  <2> QED BY <2>1 DEF MapIsWhatIsLive, Live
<1> QED BY <1>1, MapIsInvariant, PTL
=============================================================================

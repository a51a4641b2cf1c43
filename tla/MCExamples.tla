---------------------------- MODULE MCExamples -----------------------------
(***************************************************************************)
(* The containers of the examples: the list maps, the hash map, the search *)
(* trees and the stack.  Init chooses one of them, and a plan of calls.    *)
(***************************************************************************)
EXTENDS Integers

CONSTANTS Prior, Absent, MaxPushPops, Buckets

VARIABLES kind, mem, work, plan, contents, call

vars == <<kind, mem, work, plan, contents, call>>

ListThreads == 1..3
ListKeys == {1, 2}
ListPlans == {[calls |-> 3, keys |-> ListKeys]}
Hash(k) == k  \* the keys fall into different buckets
Items == 1..MaxPushPops

TreeThreads == 1..2
TreeKeys == {1, 2, 3}
NmPlans == {[calls |-> 3, keys |-> {1, 2}], [calls |-> 2, keys |-> TreeKeys]}
EfrbPlans == {[calls |-> 3, keys |-> {1}], [calls |-> 2, keys |-> TreeKeys]}
Updates == 1..6

L == INSTANCE Lists
       WITH Threads <- ListThreads, Keys <- ListKeys, Plans <- ListPlans, Nodes <- 1..8
S == INSTANCE Stack WITH Threads <- ListThreads, Nodes <- 1..MaxPushPops
N == INSTANCE NmTree
       WITH Threads <- TreeThreads, Keys <- TreeKeys, Plans <- NmPlans, Nodes <- 1..12
E == INSTANCE EfrbTree
       WITH Threads <- TreeThreads, Keys <- TreeKeys, Plans <- EfrbPlans, Nodes <- 1..12

IsTree == kind \in {"NMTree", "EFRBTree"}
IsStack == kind = "Stack"
IsList == ~ IsTree /\ ~ IsStack

Init == L!Init \/ S!Init \/ N!Init \/ E!Init
Next ==
  \/ IsList /\ L!Next
  \/ IsStack /\ S!Next
  \/ kind = "NMTree" /\ N!Next
  \/ kind = "EFRBTree" /\ E!Next

AllReturned == IF IsTree THEN N!AllReturned ELSE L!AllReturned

\* As long as a call is not finished, some thread takes a step.  It may be the same
\* thread every time, and never a given one.
Scheduled == []<>AllReturned \/ []<><<work' # work>>_vars

Spec == Init /\ [][Next]_vars /\ Scheduled

-----------------------------------------------------------------------------
OfLists == INSTANCE ConcurrentMap WITH Threads <- ListThreads, Keys <- ListKeys
OfTrees == INSTANCE ConcurrentMap WITH Threads <- TreeThreads, Keys <- TreeKeys
OfStack == INSTANCE Lifo WITH Threads <- ListThreads

\* HList, HMList, HHSList, HashMap, NMTree and EFRBTree implement ConcurrentMap, the
\* specification of the trait of examples/common/mod.rs: each call takes effect at one
\* step between its call and its return, and answers what it found there.
LinearizableMap ==
  /\ IsList => OfLists!Init
  /\ IsTree => OfTrees!Init
  /\ [][(IsList => OfLists!Next) /\ (IsTree => OfTrees!Next)]_<<contents, call>>

\* The stack of examples/stack.rs implements a last-in first-out list: an item is popped
\* by one call, after it was pushed, and in the order of the stack at one step of the call.
LinearizableStack ==
  (IsStack => OfStack!Init) /\ [][IsStack => OfStack!Next]_<<contents, call>>

\* Threads that help each other neither chase each other nor wait for a thread that has
\* stopped: if some thread steps, all the calls return (the retry loops of the examples).
LockFree == <>AllReturned

\* EFRBTree: help_insert runs only on insertion records, help_delete and help_marked only
\* on deletion records (their panics), and an exchange on an update field fails only
\* against a record that can be helped (the unwraps of insert and delete).
HelpFitsRecord == kind = "EFRBTree" => E!HelpFitsRecord
=============================================================================

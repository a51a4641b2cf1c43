------------------------------- MODULE Slots -------------------------------
(***************************************************************************)
(* sync/reusable_slots.rs: the list of the threads' entries.  A thread     *)
(* takes an unused entry or appends one, and gives it back when it ends;   *)
(* entries are never removed from the list.  One step per access to shared *)
(* memory.  The list is a sequence: an entry's place in it never changes.  *)
(* Walkers are the iterations of iter_using: the collector waiting for the *)
(* mutators, a helper looking for guards, collect_hps.  iter_all is the    *)
(* same walk without the test.                                             *)
(***************************************************************************)
EXTENDS Naturals, FiniteSets

CONSTANTS
  Threads, Walkers,
  MaxNodes        \* bound on the length of the list

ASSUME SlotsAssumption == MaxNodes \in Nat \ {0}

VARIABLES
  len,            \* entries 1..len are in the list
  using,          \* using[i]: Node::using
  activeCount,    \* ReusableSlots::active_count
  own,            \* own[t]: where t is and the entry it looks at or holds
  walk,           \* walk[u]: SlotIter::curr, and the node being tested
  seen,           \* history: the entries that walker u has yielded
  since           \* history: threads with an entry since u began its walk

vars == <<len, using, activeCount, own, walk, seen, since>>
walkVars == <<walk, seen, since>>

Index == 1..MaxNodes
Points == {"out", "look", "take", "append", "count", "in", "clear"}

Init ==
  /\ len = 0
  /\ using = [i \in Index |-> FALSE]
  /\ activeCount = 0
  /\ own = [t \in Threads |-> [pc |-> "out", at |-> 0]]
  /\ walk = [u \in Walkers |-> [pc |-> "off", node |-> 1, curr |-> 0]]
  /\ seen = [u \in Walkers |-> {}]
  /\ since = [u \in Walkers |-> {}]

Move(t, pc, i) == own' = [own EXCEPT ![t] = [pc |-> pc, at |-> i]]
At(t, pc) == own[t].pc = pc

\* t has an entry from the CAS that gave it to it until the entry is dropped.
Owns(t) == own[t].pc \in {"count", "in", "clear"}
Owners == {t \in Threads : Owns(t)}

-----------------------------------------------------------------------------
(* acquire_or_default.                                                      *)

Acquire(t) ==
  /\ At(t, "out")
  /\ Move(t, "look", 1)
  /\ UNCHANGED <<len, using, activeCount, walkVars>>

\* prev.load: null at the end of the list.
Look(t) ==
  /\ At(t, "look")
  /\ Move(t, IF own[t].at > len THEN "append" ELSE "take", own[t].at)
  /\ UNCHANGED <<len, using, activeCount, walkVars>>

\* Mutant: the new entry goes in front of whatever was appended meanwhile.
AppendNodeUnchecked(t) ==
  LET i == own[t].at IN
  /\ At(t, "append")
  /\ i <= MaxNodes
  /\ len' = IF len < i THEN i ELSE len
  /\ using' = [using EXCEPT ![i] = TRUE]
  /\ Move(t, "count", i)
  /\ UNCHANGED <<activeCount, walkVars>>

\* The CAS of a new entry, already in use, on the null pointer; on failure the
\* same pointer is loaded again.
AppendNode(t) ==
  LET i == own[t].at IN
  /\ At(t, "append")
  /\ i <= MaxNodes
  /\ IF len < i
       THEN /\ len' = i
            /\ using' = [using EXCEPT ![i] = TRUE]
            /\ Move(t, "count", i)
       ELSE /\ Move(t, "look", i)
            /\ UNCHANGED <<len, using>>
  /\ UNCHANGED <<activeCount, walkVars>>

\* Mutant: an entry that was given back stays unused.
TakeNever(t) ==
  /\ At(t, "take")
  /\ Move(t, "look", own[t].at + 1)
  /\ UNCHANGED <<len, using, activeCount, walkVars>>

\* The load of `using`, then the CAS, which fails when another thread was faster;
\* the CAS alone decides.
Take(t) ==
  LET i == own[t].at IN
  /\ At(t, "take")
  /\ IF using[i]
       THEN Move(t, "look", i + 1) /\ UNCHANGED using
       ELSE using' = [using EXCEPT ![i] = TRUE] /\ Move(t, "count", i)
  /\ UNCHANGED <<len, activeCount, walkVars>>

Count(t) ==
  /\ At(t, "count")
  /\ activeCount' = activeCount + 1
  /\ Move(t, "in", own[t].at)
  /\ UNCHANGED <<len, using, walkVars>>

-----------------------------------------------------------------------------
(* Entry::drop.                                                             *)

Uncount(t) ==
  /\ At(t, "in")
  /\ activeCount' = activeCount - 1
  /\ Move(t, "clear", own[t].at)
  /\ UNCHANGED <<len, using, walkVars>>

Clear(t) ==
  /\ At(t, "clear")
  /\ using' = [using EXCEPT ![own[t].at] = FALSE]
  /\ since' = [u \in Walkers |-> since[u] \ {t}]
  /\ Move(t, "out", 0)
  /\ UNCHANGED <<len, activeCount, walk, seen>>

-----------------------------------------------------------------------------
(* iter_using and SlotIter::next.                                           *)

Walk(u, pc, node, curr) ==
  walk' = [walk EXCEPT ![u] = [pc |-> pc, node |-> node, curr |-> curr]]

\* The head is loaded when the iterator is made.
WalkBegin(u) ==
  /\ walk[u].pc = "off"
  /\ Walk(u, "load", 1, IF len = 0 THEN 0 ELSE 1)
  /\ seen' = [seen EXCEPT ![u] = {}]
  /\ since' = [since EXCEPT ![u] = Owners]
  /\ UNCHANGED <<len, using, activeCount, own>>

\* Mutant: the walk leaves its last node untested.
WalkLoadShort(u) ==
  LET i == walk[u].curr IN
  /\ walk[u].pc = "load" /\ i # 0
  /\ IF i = len THEN Walk(u, "load", i, 0) ELSE Walk(u, "test", i, i + 1)
  /\ UNCHANGED <<len, using, activeCount, own, seen, since>>

\* The next pointer is loaded before the node is tested.
WalkLoad(u) ==
  LET i == walk[u].curr IN
  /\ walk[u].pc = "load" /\ i # 0
  /\ Walk(u, "test", i, IF i = len THEN 0 ELSE i + 1)
  /\ UNCHANGED <<len, using, activeCount, own, seen, since>>

WalkTest(u) ==
  LET i == walk[u].node IN
  /\ walk[u].pc = "test"
  /\ seen' = [seen EXCEPT ![u] = IF using[i] THEN @ \cup {i} ELSE @]
  /\ Walk(u, "load", i, walk[u].curr)
  /\ UNCHANGED <<len, using, activeCount, own, since>>

\* The iterator returns None.
WalkOver(u) == walk[u].pc = "load" /\ walk[u].curr = 0

WalkEnd(u) ==
  /\ WalkOver(u)
  /\ Walk(u, "off", 1, 0)
  /\ seen' = [seen EXCEPT ![u] = {}]
  /\ since' = [since EXCEPT ![u] = {}]
  /\ UNCHANGED <<len, using, activeCount, own>>

-----------------------------------------------------------------------------

AcquireStep(t) == Look(t) \/ AppendNode(t) \/ Take(t) \/ Count(t)

Next ==
  \/ \E t \in Threads : Acquire(t) \/ AcquireStep(t) \/ Uncount(t) \/ Clear(t)
  \/ \E u \in Walkers : WalkBegin(u) \/ WalkLoad(u) \/ WalkTest(u) \/ WalkEnd(u)

Spec == Init /\ [][Next]_vars

-----------------------------------------------------------------------------

\* acquire_or_default never gives one entry to two threads, whether they take the
\* same unused entry, append at the same place, or one appends where the other
\* takes; an entry that a thread has is in the list and in use.
Exclusive ==
  /\ \A t \in Owners : own[t].at \in 1..len /\ using[own[t].at]
  /\ \A s, t \in Owners : own[s].at = own[t].at => s = t

\* A walk of iter_using yields the entry of every thread that had it when the walk
\* began and has it still, whatever is acquired, appended or dropped meanwhile:
\* what wait_all_mutators_unpin and collect_hps rely on.
WalkComplete ==
  \A u \in Walkers : WalkOver(u) => \A t \in since[u] : own[t].at \in seen[u]

\* Entries are reused: the list never has more of them than there are threads.
Compact == len <= Cardinality(Threads)
=============================================================================

-------------------------------- MODULE Cdpt --------------------------------
(***************************************************************************)
(* The collector, the program's threads and their help, together.          *)
(***************************************************************************)
EXTENDS Mutator, Collector

Next ==
  \/ \E p \in Participants : MutatorStep(p) \/ HelperStep(p)
  \/ \E a \in Agents : ~ At(a, "idle") /\ (Marking(a) \/ PushMarked(a))
  \/ CollectorStep

Spec == Init /\ [][Next]_vars

-----------------------------------------------------------------------------
(* Properties.                                                              *)

\* No object that the program can reach, or that an operation under way is going
\* to look at, has been dropped by a sweep ("the validity should be guaranteed by
\* the correctness of this garbage collector", load_with_tag).
NoUseAfterFree ==
  \A o \in Reachable \cup UNION {Touched(a) : a \in Agents} : place[o] # Freed

\* The threads whose hazard pointers a scan of a box has still to look at.
HpsToSee(a) ==
  IF At(a, "scanRoot") /\ a # Coll /\ hazardsTs[a] # guard[a].ts THEN prog.threads ELSE todo[a]

\* The object of the box that a is scanning, when a is going to find it a root as
\* things are: counted, or in a hazard pointer that a has seen or has still to see.
ScannedRoot(a) ==
  {o \in {m[a].obj} :
     \/ At(a, "scanRoot") /\ rc[o] > 0
     \/ /\ m[a].pc \in {"scanRoot", "scanHps", "scanHazard"}
        /\ o \in hazards[a] \cup {hp[q] : q \in HpsToSee(a)}}

\* The objects that some thread is going to mark as things are: queued, being
\* marked, the subject of a barrier that is about to run, or a scanned root.
Gray ==
  (UNION {tasks[a] \cup ScannedRoot(a) : a \in Agents})
  \cup {m[a].obj : a \in {x \in Agents : m[x].pc \in {"mark", "markCas", "markHeader"}}}
  \cup {m[a].old.to : a \in {x \in Agents : m[x].pc \in
          {"yuasa", "shadeOld", "shade", "unrootTest", "unrootShade"}}}
  \cup {m[a].new : a \in {x \in Agents : At(x, "dijkstra")}}

\* From the end of the root scan to the confirmation, whatever the program can
\* reach is marked or can be reached from an object that will be ("deletion
\* barriers by mutators and scanning by the collectors guarantee that no live
\* objects are missed", root_tracing).
NothingMissed ==
  stage \in {"drain", "confirm1", "confirm2", "confirm3", "confirmed"} =>
    \A o \in Reachable : IsMarked(Coll, o) \/ o \in Closure(Gray \ {Null})

\* When a completion is confirmed, everything that the program can reach is
\* marked: the sweep may drop all that is not.
MarkingComplete ==
  stage = "confirmed" => \A o \in Reachable : IsMarked(Coll, o)

\* From a confirmed completion to the next RT no mark task is queued or being
\* executed (debug_assert!(find_task(handle).is_none()) in next_normal; a task
\* holds the bare address of its object).
NoTaskLeft ==
  stage = "confirmed" \/ col \in {"sweep", "nWait", "normal"} =>
    \A a \in Agents :
      tasks[a] = {} /\ m[a].pc \notin {"mark", "markCas", "markHeader"}

\* A root count is the number of cells that point to the object and of the
\* references that operations have counted and not yet stored or given up.
RootCountExact ==
  \A o \in Objs :
    rc[o] = Cardinality({c \in Cells : cell[c] = o})
            + Cardinality({a \in Agents :
                \/ m[a].pc = "casCell" /\ m[a].new = o
                \/ m[a].pc \in {"decRoot", "unroot"} /\ m[a].old.to = o})

\* What was garbage when a cycle began is dropped when the sweep of the cycle
\* ends, but for the boxes that a helping mutator has popped and will drop.
Collected ==
  col = "nWait" =>
    \A o \in doomed :
      place[o] = Freed \/ \E p \in Participants : At(p, "sweepBox") /\ m[p].obj = o
=============================================================================

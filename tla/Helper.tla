------------------------------- MODULE Helper -------------------------------
(***************************************************************************)
(* Guard::help_collect: a mutator that does some of the collector's work   *)
(* under its own guard, at any time (help_collect is public, and the drop  *)
(* of a guard calls it when allocation or shading scheduled it).           *)
(***************************************************************************)
EXTENDS Heap

-----------------------------------------------------------------------------
(* help_normal                                                              *)

\* prev_white is the black of a guard of the normal phase.
PopMarked(a) ==
  \E o \in Objs :
    /\ place[o] = Marked(Black(a))
    /\ place' = [place EXCEPT ![o] = Batch(a)]
    /\ m' = [m EXCEPT ![a] = [Idle EXCEPT !.pc = "sweepBox", !.obj = o]]

HelpPopMarked(p) ==
  /\ p \in prog.sweepers
  /\ Ready(p)
  /\ guard[p].phase = "N"
  /\ PopMarked(p)
  /\ UNCHANGED <<phaseVars, color, rc, link, rootVars, progVars, markVars, scanVars, colVars>>

HelpSweepBox(p) ==
  LET o == m[p].obj IN
  /\ p \in Participants
  /\ At(p, "sweepBox")
  /\ IF color[o] = Black(p)
     THEN place' = [place EXCEPT ![o] = Freed]
     ELSE PushFreshObj(p, o)
  /\ Return(p)
  /\ UNCHANGED <<phaseVars, color, rc, link, rootVars, progVars, markVars, scanVars, colVars>>

-----------------------------------------------------------------------------
(* help_tracing                                                             *)

\* is_tracing_synced has returned true at some time of this guard.  No normal
\* guard older than this one can appear afterwards (SyncedExcludesNormal in
\* Pinning.tla); one of the next normal phase can, when a call is under way.
TracingSynced(p) ==
  \A q \in Participants :
    ~ (Pinned(q) /\ guard[q].phase = "N" /\ guard[q].ts < guard[p].ts)

HelpPopFresh(p) ==
  /\ p \in prog.tracers
  /\ Ready(p)
  /\ guard[p].phase = "RT"
  /\ TracingSynced(p)
  /\ PopFresh(p, "scanRoot")
  /\ UNCHANGED <<phaseVars, color, rc, link, rootVars, progVars, markVars, scanVars, colVars>>

\* root_count() > 0 || hazards.contains(..): the left operand is read first, and
\* the lazy right one collects the hazard pointers unless they are cached for
\* this epoch.
HelpScanRoot(p) ==
  /\ p \in Participants
  /\ At(p, "scanRoot")
  /\ \/ /\ rc[m[p].obj] > 0
        /\ m' = [m EXCEPT ![p] = MarkOp(m[p].obj, "toMarked")]
        /\ UNCHANGED scanVars
     \/ /\ rc[m[p].obj] = 0
        /\ hazardsTs[p] = guard[p].ts
        /\ Goto(p, "scanHazard")
        /\ UNCHANGED scanVars
     \/ /\ rc[m[p].obj] = 0
        /\ hazardsTs[p] # guard[p].ts
        /\ hazards' = [hazards EXCEPT ![p] = {}]
        /\ todo' = [todo EXCEPT ![p] = prog.threads]
        /\ Goto(p, "scanHps")
        /\ UNCHANGED hazardsTs
  /\ UNCHANGED <<phaseVars, objVars, rootVars, progVars, markVars, colVars>>

\* scan_or_reuse_hazards
HelpCollectHp(p) ==
  /\ p \in Participants
  /\ At(p, "scanHps")
  /\ \/ /\ \E q \in Participants : CollectHp(p, q)
        /\ UNCHANGED <<hazardsTs, m>>
     \/ /\ todo[p] = {}
        /\ hazardsTs' = [hazardsTs EXCEPT ![p] = guard[p].ts]
        /\ Goto(p, "scanHazard")
        /\ UNCHANGED <<hazards, todo>>
  /\ UNCHANGED <<phaseVars, objVars, rootVars, progVars, markVars, colVars>>

HelpScanHazard(p) ==
  /\ p \in Participants
  /\ At(p, "scanHazard")
  /\ IF m[p].obj \in hazards[p]
     THEN m' = [m EXCEPT ![p] = MarkOp(m[p].obj, "toMarked")]
     ELSE Goto(p, "toMarked")
  /\ UNCHANGED <<phaseVars, objVars, rootVars, progVars, markVars, scanVars, colVars>>

\* Mutant: the pop of a task is recorded after it.
HelpMarkTaskRecordsLate(p) ==
  /\ \/ /\ p \in prog.tracers
        /\ Ready(p)
        /\ guard[p].phase # "N"
        /\ TracingSynced(p)
        /\ \E o \in tasks[p] :
             /\ tasks' = [tasks EXCEPT ![p] = @ \ {o}]
             /\ m' = [m EXCEPT ![p] = [Idle EXCEPT !.pc = "popTask", !.obj = o]]
        /\ UNCHANGED mtModified
     \/ /\ At(p, "popTask")
        /\ mtModified' = [mtModified EXCEPT ![p] = guard[p].ts]
        /\ m' = [m EXCEPT ![p] = IF IsMarked(p, m[p].obj) THEN Idle ELSE MarkOp(m[p].obj, "idle")]
        /\ UNCHANGED tasks
  /\ UNCHANGED <<phaseVars, objVars, rootVars, progVars, scanVars, colVars>>

\* help_draining_mark_tasks_inner with try_pop_mark_task: only the helper's own
\* queue, found not empty; recorded, then popped, unless the collector was faster.
HelpMarkTask(p) ==
  /\ \/ /\ p \in prog.tracers
        /\ Ready(p)
        /\ guard[p].phase # "N"
        /\ TracingSynced(p)
        /\ tasks[p] # {}
        /\ mtModified' = [mtModified EXCEPT ![p] = guard[p].ts]
        /\ Goto(p, "popTask")
        /\ UNCHANGED tasks
     \/ /\ At(p, "popTask")
        /\ \E o \in tasks[p] :
             /\ tasks' = [tasks EXCEPT ![p] = @ \ {o}]
             /\ m' = [m EXCEPT ![p] = IF IsMarked(p, o) THEN Idle ELSE MarkOp(o, "idle")]
        /\ UNCHANGED mtModified
     \/ /\ At(p, "popTask")
        /\ tasks[p] = {}
        /\ Return(p)
        /\ UNCHANGED markVars
  /\ UNCHANGED <<phaseVars, objVars, rootVars, progVars, scanVars, colVars>>

-----------------------------------------------------------------------------
HelperStep(p) ==
  \/ HelpPopMarked(p) \/ HelpSweepBox(p)
  \/ HelpPopFresh(p) \/ HelpScanRoot(p) \/ HelpCollectHp(p) \/ HelpScanHazard(p)
  \/ HelpMarkTask(p)
=============================================================================

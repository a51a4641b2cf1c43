----------------------------- MODULE Collector ------------------------------
(***************************************************************************)
(* One turn of collector_loop after another: root_tracing,                 *)
(* completion_tracing until it is confirmed, next_normal.  The worker      *)
(* threads that share the scan and the sweep are one thread here: they work*)
(* on different batches.                                                   *)
(***************************************************************************)
EXTENDS Helper

-----------------------------------------------------------------------------
(* root_tracing                                                             *)

BeginCycle ==
  /\ epoch.ts < prog.maxTs
  /\ StartRootTracing
  /\ doomed' = Garbage
  /\ UNCHANGED <<objVars, rootVars, progVars, markVars, scanVars, m, stage>>

\* phase_trans and next_normal end their wait.
EndPhaseWait ==
  /\ EndWait
  /\ stage' = CASE col = "rtWait" -> "take"
                [] col = "ctWait" -> "confirm1"
                [] col = "nWait"  -> "none"
  /\ todo' = [todo EXCEPT ![Coll] = IF col = "ctWait" THEN Entries ELSE {}]
  /\ doomed' = IF col = "nWait" THEN {} ELSE doomed
  /\ UNCHANGED <<objVars, rootVars, progVars, markVars, hazards, hazardsTs, m>>

\* take_obj_batch of every entry.
TakePending ==
  /\ stage = "take"
  /\ place' = [o \in Objs |->
       IF \E q \in Participants : place[o] = LocalObjs(q, epoch.white)
       THEN Fresh(epoch.white)
       ELSE place[o]]
  /\ todo' = [todo EXCEPT ![Coll] = prog.threads]
  /\ stage' = "hps"
  /\ UNCHANGED <<phaseVars, color, rc, link, rootVars, progVars, markVars,
                 hazards, hazardsTs, m, doomed>>

\* Scan HPs first.
CollectHps ==
  /\ stage = "hps"
  /\ \E q \in Participants : CollectHp(Coll, q)
  /\ stage' = IF todo'[Coll] = {} THEN "scan" ELSE "hps"
  /\ UNCHANGED <<phaseVars, objVars, rootVars, progVars, markVars, hazardsTs, m, doomed>>

ScanPopFresh ==
  /\ stage = "scan"
  /\ PopFresh(Coll, "scanRoot")
  /\ UNCHANGED <<phaseVars, color, rc, link, rootVars, progVars, markVars, scanVars, colVars>>

\* Mutant: every scanned object is taken for a root.
ScanAll ==
  /\ At(Coll, "scanRoot")
  /\ m' = [m EXCEPT ![Coll] = MarkOp(m[Coll].obj, "toMarked")]
  /\ UNCHANGED <<phaseVars, objVars, rootVars, progVars, markVars, scanVars, colVars>>

ScanObj ==
  LET o == m[Coll].obj IN
  /\ At(Coll, "scanRoot")
  /\ IF rc[o] > 0 \/ o \in hazards[Coll]
     THEN m' = [m EXCEPT ![Coll] = MarkOp(o, "toMarked")]
     ELSE Goto(Coll, "toMarked")
  /\ UNCHANGED <<phaseVars, objVars, rootVars, progVars, markVars, scanVars, colVars>>

EndScan ==
  /\ stage = "scan"
  /\ At(Coll, "idle")
  /\ \A o \in Objs : place[o] # Fresh(epoch.white)
  /\ hazards' = [hazards EXCEPT ![Coll] = {}]
  /\ stage' = "drain"
  /\ UNCHANGED <<phaseVars, objVars, rootVars, progVars, markVars, hazardsTs, todo, m, doomed>>

-----------------------------------------------------------------------------
(* drain_mark_tasks: from its own queue or from anybody's.                  *)

DrainTask ==
  /\ stage = "drain"
  /\ At(Coll, "idle")
  /\ \E a \in Agents : \E o \in tasks[a] :
       /\ tasks' = [tasks EXCEPT ![a] = @ \ {o}]
       /\ m' = IF IsMarked(Coll, o) THEN m ELSE [m EXCEPT ![Coll] = MarkOp(o, "idle")]
  /\ UNCHANGED <<phaseVars, objVars, rootVars, progVars, mtModified, scanVars, colVars>>

\* The drain ends after one look at each queue that found it empty; by then a
\* mutator may have filled one again, so only the collector's own is known to be
\* empty.
BeginCompletion ==
  /\ stage = "drain"
  /\ At(Coll, "idle")
  /\ tasks[Coll] = {}
  /\ epoch.ts < prog.maxTs
  /\ StartCompletionTracing
  /\ stage' = "none"
  /\ UNCHANGED <<objVars, rootVars, progVars, markVars, scanVars, m, doomed>>

-----------------------------------------------------------------------------
(* try_confirm_completion: three loops over the entries; the first one that *)
(* refutes ends it.  The order of the list can be any; what the collector's *)
(* own entry says does not change meanwhile, so it comes first here.        *)

Confirm(from, to, refuting) ==
  /\ stage = from
  /\ \E a \in IF Coll \in todo[Coll] THEN {Coll} ELSE todo[Coll] :
       LET left == IF a \in refuting THEN {} ELSE todo[Coll] \ {a} IN
       /\ stage' = CASE a \in refuting                 -> "drain"
                     [] a \notin refuting /\ left = {} -> to
                     [] OTHER                          -> from
       /\ todo' = [todo EXCEPT ![Coll] =
                     IF stage' \in {"confirm2", "confirm3"} \ {from} THEN Entries ELSE left]
  /\ UNCHANGED <<phaseVars, objVars, rootVars, progVars, markVars, hazards, hazardsTs, m, doomed>>

Modified == {a \in Agents : mtModified[a] = epoch.ts}
HasTasks == {a \in Agents : tasks[a] # {}}

ConfirmFlags == Confirm("confirm1", "confirm2", Modified)

\* Mutant: the queues are not looked at.
ConfirmNoQueues == Confirm("confirm2", "confirm3", {})

ConfirmQueues == Confirm("confirm2", "confirm3", HasTasks)
ConfirmFlagsAgain == Confirm("confirm3", "confirmed", Modified)

-----------------------------------------------------------------------------
(* next_normal and sweep                                                    *)

BeginNormal ==
  /\ stage = "confirmed"
  /\ epoch.ts < prog.maxTs
  /\ StartNormal
  /\ stage' = "none"
  /\ UNCHANGED <<objVars, rootVars, progVars, markVars, scanVars, m, doomed>>

SweepPopMarked ==
  /\ col = "sweep"
  /\ At(Coll, "idle")
  /\ PopMarked(Coll)
  /\ UNCHANGED <<phaseVars, color, rc, link, rootVars, progVars, markVars, scanVars, colVars>>

\* Mutant: the colors are mistaken for each other.
SweepBoxSwapped ==
  LET o == m[Coll].obj IN
  /\ At(Coll, "sweepBox")
  /\ place' = [place EXCEPT ![o] = IF color[o] = White(Coll) THEN Freed ELSE Fresh(White(Coll))]
  /\ Return(Coll)
  /\ UNCHANGED <<phaseVars, color, rc, link, rootVars, progVars, markVars, scanVars, colVars>>

\* Survivors go to the fresh objects of the next cycle.
SweepBox ==
  LET o == m[Coll].obj IN
  /\ At(Coll, "sweepBox")
  /\ place' = [place EXCEPT ![o] = IF color[o] = Black(Coll) THEN Freed ELSE Fresh(White(Coll))]
  /\ Return(Coll)
  /\ UNCHANGED <<phaseVars, color, rc, link, rootVars, progVars, markVars, scanVars, colVars>>

FinishSweep ==
  /\ EndSweep
  /\ At(Coll, "idle")
  /\ \A o \in Objs : place[o] # Marked(Black(Coll))
  /\ UNCHANGED <<objVars, rootVars, progVars, markVars, scanVars, m, colVars>>

-----------------------------------------------------------------------------
CollectorStep ==
  \/ BeginCycle \/ EndPhaseWait
  \/ TakePending \/ CollectHps \/ ScanPopFresh \/ ScanObj \/ EndScan
  \/ DrainTask \/ BeginCompletion
  \/ ConfirmFlags \/ ConfirmQueues \/ ConfirmFlagsAgain
  \/ BeginNormal \/ SweepPopMarked \/ SweepBox \/ FinishSweep
=============================================================================

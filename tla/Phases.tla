------------------------------- MODULE Phases -------------------------------
(***************************************************************************)
(* What the epoch protocol of the collector promises to the rest of it.    *)
(*                                                                         *)
(* The collector drives the whole process through the phases               *)
(*     N (normal) -> RT (root tracing) -> CT (completion tracing)+ -> N    *)
(* by publishing epochs, and after each publication waits until no guard   *)
(* of an older epoch is left.  A guard (a phase-critical section) belongs  *)
(* to the epoch that was the published one when the guard became valid.    *)
(*                                                                         *)
(* Pinning.tla is the protocol as it is coded, and implements this module. *)
(* Heap.tla is built on top of this module.                                *)
(***************************************************************************)
EXTENDS Naturals

CONSTANTS
  Participants,   \* the entries (`Local`s) of Global::locals
  NoEpoch,        \* "no guard": the local epoch is not pinned
  MaxTs           \* bound: the collector publishes no epoch beyond this one

Phase == {"N", "RT", "CT"}

\* Color::{C0, C1}, as the indices that `color as usize` gives.
Color == {0, 1}

\* Color::flip
Flip(c) == 1 - c

Epoch == [ts : Nat, phase : Phase, white : Color]

ASSUME NoEpochAssumption == NoEpoch \notin Epoch
ASSUME MaxTsAssumption == MaxTs \in Nat

VARIABLES
  epoch,          \* Global::epoch
  guard,          \* guard[p]: the epoch of the guard of p, or NoEpoch
  col             \* how far the collector is in its cycle

phaseVars == <<epoch, guard, col>>

\* The stretches of one turn of the loop in collector_loop.
ColPoints == {"normal",    \* is_collection_necessary is polled
              "rtWait",    \* RT is published, waiting for the old guards
              "rt",        \* scan_allocated_objs, drain_mark_tasks
              "ctWait",    \* CT is published, waiting for the old guards
              "ct",        \* try_confirm_completion, drain_mark_tasks
              "sweep",     \* N is published, sweep
              "nWait"}     \* waiting for the old guards

PhasesTypeOK ==
  /\ epoch \in Epoch
  /\ guard \in [Participants -> Epoch \cup {NoEpoch}]
  /\ col \in ColPoints

\* Epoch::starting
StartingEpoch == [ts |-> 0, phase |-> "N", white |-> 0]

PhasesInit ==
  /\ epoch = StartingEpoch
  /\ guard = [p \in Participants |-> NoEpoch]
  /\ col = "normal"

Pinned(p) == guard[p] # NoEpoch

\* pinned_alloc_color: what a guard of epoch e allocates with.
AllocColor(e) == IF e.phase = "N" THEN e.white ELSE Flip(e.white)

-----------------------------------------------------------------------------
(* A guard becomes valid, and ends.                                         *)

Pin(p) ==
  /\ ~ Pinned(p)
  /\ guard' = [guard EXCEPT ![p] = epoch]
  /\ UNCHANGED <<epoch, col>>

Unpin(p) ==
  /\ Pinned(p)
  /\ guard' = [guard EXCEPT ![p] = NoEpoch]
  /\ UNCHANGED <<epoch, col>>

-----------------------------------------------------------------------------
(* The collector: phase_trans and next_normal are a publication and a wait. *)

Publish(phase, white, point) ==
  /\ epoch.ts < MaxTs
  /\ epoch' = [ts |-> epoch.ts + 1, phase |-> phase, white |-> white]
  /\ col' = point
  /\ UNCHANGED guard

StartRootTracing ==
  /\ col = "normal"
  /\ Publish("RT", epoch.white, "rtWait")

\* The first completion_tracing, and each one after a failed confirmation.
StartCompletionTracing ==
  /\ col \in {"rt", "ct"}
  /\ Publish("CT", epoch.white, "ctWait")

StartNormal ==
  /\ col = "ct"
  /\ Publish("N", Flip(epoch.white), "sweep")

\* next_normal sweeps before it waits.
EndSweep ==
  /\ col = "sweep"
  /\ col' = "nWait"
  /\ UNCHANGED <<epoch, guard>>

OldGuard(p) == Pinned(p) /\ guard[p].ts < epoch.ts

Waiting == col \in {"rtWait", "ctWait", "nWait"}

AfterWait(point) == CASE point = "rtWait" -> "rt"
                      [] point = "ctWait" -> "ct"
                      [] point = "nWait"  -> "normal"

\* wait_all_mutators_unpin returns.
EndWait ==
  /\ Waiting
  /\ \A p \in Participants : ~ OldGuard(p)
  /\ col' = AfterWait(col)
  /\ UNCHANGED <<epoch, guard>>

PhasesNext ==
  \/ \E p \in Participants : Pin(p) \/ Unpin(p)
  \/ StartRootTracing
  \/ StartCompletionTracing
  \/ StartNormal
  \/ EndSweep
  \/ EndWait

PhasesSpec == PhasesInit /\ [][PhasesNext]_phaseVars
-----------------------------------------------------------------------------
(* What the phases guarantee.                                               *)

\* e is the epoch published right before f.
Precedes(e, f) ==
  /\ f.ts = e.ts + 1
  /\ <<e.phase, f.phase>> \in
       {<<"N", "RT">>, <<"RT", "CT">>, <<"CT", "CT">>, <<"CT", "N">>}
  /\ f.white = IF f.phase = "N" THEN Flip(e.white) ELSE e.white

\* A guard is of the published epoch or of the one right before it, and the
\* latter only while the collector still sweeps or waits
\* (wait_all_mutators_unpin leaves no guard behind by more than one phase).
GuardLag ==
  \A p \in Participants :
    Pinned(p) =>
      \/ guard[p] = epoch
      \/ Precedes(guard[p], epoch) /\ col \in {"rtWait", "ctWait", "sweep", "nWait"}

\* Outside the wait of RT all guards allocate with one color.  So the lists
\* Local::objs[white] are the collector's own from the scan of RT on
\* (take_obj_batch asks for exclusive permission), and during the sweep the
\* guards left from CT and the new ones of N fill the same list.
AllocColorAgreement ==
  col # "rtWait" =>
    \A p \in Participants : Pinned(p) => AllocColor(guard[p]) = AllocColor(epoch)

\* From the end of the wait of one normal phase to the next publication of N,
\* all guards agree on which color is white: marking by one guard is seen as
\* marking by every other (ManObj::is_marked compares with the guard's black).
WhiteAgreement ==
  col \notin {"sweep", "nWait"} =>
    \A p \in Participants : Pinned(p) => guard[p].white = epoch.white
=============================================================================

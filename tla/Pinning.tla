------------------------------ MODULE Pinning -------------------------------
(***************************************************************************)
(* The epoch protocol as it is coded: Local::pin_inner, pin_freshly,       *)
(* unpin_inner and repin, Guard::is_tracing_synced, and the collector's    *)
(* phase_trans, next_normal and wait_all_mutators_unpin, one atomic access *)
(* to shared memory per step.                                              *)
(*                                                                         *)
(* The entries of Global::locals are the participants; `using` says which  *)
(* of them a thread owns.  Both iterations over the entries (of the        *)
(* collector and of is_tracing_synced) visit them in an arbitrary order:   *)
(* the code follows the list, and an entry appended behind the iterator is *)
(* one that the iterator visited while it was not in use.                  *)
(***************************************************************************)
EXTENDS Naturals

CONSTANTS
  Participants,
  NoEpoch,
  MaxTs,
  MaxGuards       \* bound on the nesting of guards of one participant

ASSUME NoEpochAssumption ==
  NoEpoch \notin [ts : Nat, phase : {"N", "RT", "CT"}, white : {0, 1}]
ASSUME MaxTsAssumption == MaxTs \in Nat
ASSUME MaxGuardsAssumption == MaxGuards \in Nat \ {0}

VARIABLES
  epoch,          \* Global::epoch
  col,            \* how far the collector is in its cycle
  todo,           \* entries that wait_all_mutators_unpin has still to pass
  using,          \* Node::using of each entry
  localEpoch,     \* Local::epoch; NoEpoch when its pinned bit is clear
  guardCount,     \* Local::guard_count
  lastObserved,   \* the timestamp of Local::last_observed
  barrierTs,      \* timestamp of the last guard that ran phase_barrier
  pc,             \* where the thread is in pin_freshly or is_tracing_synced
  curr,           \* curr_epoch, the local variable of pin_freshly
  syncTodo,       \* entries that is_tracing_synced has still to pass
  synced          \* is_tracing_synced returned true under the present guard

pinVars == <<using, localEpoch, guardCount, lastObserved, barrierTs, pc, curr>>
syncVars == <<syncTodo, synced>>
vars == <<epoch, col, todo, pinVars, syncVars>>

\* The guard of p is valid once pin_freshly has seen its epoch confirmed.
ValidPoints == {"barrier", "in", "sync"}

Abstract == INSTANCE Phases
  WITH guard <- [p \in Participants |->
                   IF pc[p] \in ValidPoints THEN localEpoch[p] ELSE NoEpoch]

TypeOK ==
  /\ epoch \in Abstract!Epoch
  /\ col \in Abstract!ColPoints
  /\ todo \in SUBSET Participants
  /\ using \in [Participants -> BOOLEAN]
  /\ localEpoch \in [Participants -> Abstract!Epoch \cup {NoEpoch}]
  /\ guardCount \in [Participants -> 0 .. MaxGuards]
  /\ lastObserved \in [Participants -> Nat]
  /\ barrierTs \in [Participants -> Nat]
  /\ pc \in [Participants -> {"out", "load", "store", "check"} \cup ValidPoints]
  /\ curr \in [Participants -> Abstract!Epoch]
  /\ syncTodo \in [Participants -> SUBSET Participants]
  /\ synced \in [Participants -> BOOLEAN]

Init ==
  /\ epoch = Abstract!StartingEpoch
  /\ col = "normal"
  /\ todo = {}
  /\ using = [p \in Participants |-> FALSE]
  /\ localEpoch = [p \in Participants |-> NoEpoch]
  /\ guardCount = [p \in Participants |-> 0]
  /\ lastObserved = [p \in Participants |-> 0]
  /\ barrierTs = [p \in Participants |-> 0]
  /\ pc = [p \in Participants |-> "out"]
  /\ curr = [p \in Participants |-> Abstract!StartingEpoch]
  /\ syncTodo = [p \in Participants |-> {}]
  /\ synced = [p \in Participants |-> FALSE]

Goto(p, from, to) ==
  /\ pc[p] = from
  /\ pc' = [pc EXCEPT ![p] = to]

-----------------------------------------------------------------------------
(* Threads: registering, pinning, unpinning.                                *)

\* Local::register: a thread takes an unused entry with all it was left with.
Register(p) ==
  /\ ~ using[p]
  /\ using' = [using EXCEPT ![p] = TRUE]
  /\ UNCHANGED <<epoch, col, todo, localEpoch, guardCount, lastObserved,
                 barrierTs, pc, curr, syncVars>>

\* The last Rc<Entry> is dropped: every guard holds one.
Deregister(p) ==
  /\ using[p]
  /\ pc[p] = "out"
  /\ using' = [using EXCEPT ![p] = FALSE]
  /\ UNCHANGED <<epoch, col, todo, localEpoch, guardCount, lastObserved,
                 barrierTs, pc, curr, syncVars>>

\* pin_inner of a first guard.
PinOutermost(p) ==
  /\ using[p]
  /\ Goto(p, "out", "load")
  /\ guardCount' = [guardCount EXCEPT ![p] = @ + 1]
  /\ UNCHANGED <<epoch, col, todo, using, localEpoch, lastObserved, barrierTs,
                 curr, syncVars>>

\* pin_inner of a further guard does not touch the epoch.
PinNested(p) ==
  /\ pc[p] = "in"
  /\ guardCount[p] < MaxGuards
  /\ guardCount' = [guardCount EXCEPT ![p] = @ + 1]
  /\ UNCHANGED <<epoch, col, todo, using, localEpoch, lastObserved, barrierTs,
                 pc, curr, syncVars>>

PinLoad(p) ==
  /\ Goto(p, "load", "store")
  /\ curr' = [curr EXCEPT ![p] = epoch]
  /\ UNCHANGED <<epoch, col, todo, using, localEpoch, guardCount, lastObserved,
                 barrierTs, syncVars>>

PinStore(p) ==
  /\ Goto(p, "store", "check")
  /\ localEpoch' = [localEpoch EXCEPT ![p] = curr[p]]
  /\ UNCHANGED <<epoch, col, todo, using, guardCount, lastObserved, barrierTs,
                 curr, syncVars>>

\* The global epoch has changed under the store: retry with the new one.
PinRetry(p) ==
  /\ epoch # curr[p]
  /\ Goto(p, "check", "store")
  /\ curr' = [curr EXCEPT ![p] = epoch]
  /\ UNCHANGED <<epoch, col, todo, using, localEpoch, guardCount, lastObserved,
                 barrierTs, syncVars>>

\* Mutant: the barrier runs in the first epoch the entry ever observes.
FirstEverObserved(p) == curr[p].phase = "RT" /\ lastObserved[p] = 0

FirstInRootTracing(p) ==
  curr[p].phase = "RT" /\ lastObserved[p] # curr[p].ts

\* Mutant: the epoch is not loaded again after the store.
PinConfirmUnchecked(p) ==
  /\ Goto(p, "check", IF FirstInRootTracing(p) THEN "barrier" ELSE "in")
  /\ lastObserved' = [lastObserved EXCEPT
       ![p] = IF FirstInRootTracing(p) THEN @ ELSE curr[p].ts]
  /\ UNCHANGED <<epoch, col, todo, using, localEpoch, guardCount, barrierTs,
                 curr, syncVars>>

PinConfirm(p) ==
  /\ epoch = curr[p]
  /\ Goto(p, "check", IF FirstInRootTracing(p) THEN "barrier" ELSE "in")
  /\ lastObserved' = [lastObserved EXCEPT
       ![p] = IF FirstInRootTracing(p) THEN @ ELSE curr[p].ts]
  /\ UNCHANGED <<epoch, col, todo, using, localEpoch, guardCount, barrierTs,
                 curr, syncVars>>

\* phase_barrier, and last_observed.set.
PhaseBarrier(p) ==
  /\ Goto(p, "barrier", "in")
  /\ barrierTs' = [barrierTs EXCEPT ![p] = curr[p].ts]
  /\ lastObserved' = [lastObserved EXCEPT ![p] = curr[p].ts]
  /\ UNCHANGED <<epoch, col, todo, using, localEpoch, guardCount, curr, syncVars>>

\* unpin_inner
UnpinNested(p) ==
  /\ pc[p] = "in"
  /\ guardCount[p] > 1
  /\ guardCount' = [guardCount EXCEPT ![p] = @ - 1]
  /\ UNCHANGED <<epoch, col, todo, using, localEpoch, lastObserved, barrierTs,
                 pc, curr, syncVars>>

UnpinLast(p) ==
  /\ guardCount[p] = 1
  /\ Goto(p, "in", "out")
  /\ guardCount' = [guardCount EXCEPT ![p] = 0]
  /\ localEpoch' = [localEpoch EXCEPT ![p] = NoEpoch]
  /\ synced' = [synced EXCEPT ![p] = FALSE]
  /\ UNCHANGED <<epoch, col, todo, using, lastObserved, barrierTs, curr, syncTodo>>

\* Mutant: the new guard is counted and the old one is not given up.
RepinLeaks(p) ==
  /\ Goto(p, "in", "load")
  /\ guardCount' = [guardCount EXCEPT ![p] = @ + 1]
  /\ localEpoch' = [localEpoch EXCEPT ![p] = NoEpoch]
  /\ synced' = [synced EXCEPT ![p] = FALSE]
  /\ UNCHANGED <<epoch, col, todo, using, lastObserved, barrierTs, curr, syncTodo>>

\* repin: unpin_inner and pin_inner.  With nested guards both leave the epoch.
Repin(p) ==
  /\ guardCount[p] = 1
  /\ Goto(p, "in", "load")
  /\ localEpoch' = [localEpoch EXCEPT ![p] = NoEpoch]
  /\ synced' = [synced EXCEPT ![p] = FALSE]
  /\ UNCHANGED <<epoch, col, todo, using, guardCount, lastObserved, barrierTs,
                 curr, syncTodo>>

-----------------------------------------------------------------------------
(* Guard::is_tracing_synced, called by help_tracing under RT or CT.         *)

SyncBegin(p) ==
  /\ Goto(p, "in", "sync")
  /\ localEpoch[p].phase # "N"
  /\ syncTodo' = [syncTodo EXCEPT ![p] = Participants]
  /\ UNCHANGED <<epoch, col, todo, using, localEpoch, guardCount, lastObserved,
                 barrierTs, curr, synced>>

\* Mutant: only the normal phase under way counts.
PinnedInThisNormal(q) == localEpoch[q] # NoEpoch /\ localEpoch[q].phase = "N" /\ epoch.phase = "N"

PinnedInNormal(q) == localEpoch[q] # NoEpoch /\ localEpoch[q].phase = "N"

SyncPass(p, q) ==
  /\ pc[p] = "sync"
  /\ q \in syncTodo[p]
  /\ ~ (using[q] /\ PinnedInNormal(q))
  /\ syncTodo' = [syncTodo EXCEPT ![p] = @ \ {q}]
  /\ UNCHANGED <<epoch, col, todo, pinVars, synced>>

SyncTrue(p) ==
  /\ syncTodo[p] = {}
  /\ Goto(p, "sync", "in")
  /\ synced' = [synced EXCEPT ![p] = TRUE]
  /\ UNCHANGED <<epoch, col, todo, using, localEpoch, guardCount, lastObserved,
                 barrierTs, curr, syncTodo>>

SyncFalse(p, q) ==
  /\ q \in syncTodo[p]
  /\ using[q] /\ PinnedInNormal(q)
  /\ Goto(p, "sync", "in")
  /\ syncTodo' = [syncTodo EXCEPT ![p] = {}]
  /\ UNCHANGED <<epoch, col, todo, using, localEpoch, guardCount, lastObserved,
                 barrierTs, curr, synced>>

-----------------------------------------------------------------------------
(* The collector.                                                           *)

\* The store of the epoch; phase_trans starts to wait right after it.
Publish(phase, white, point) ==
  /\ epoch.ts < MaxTs
  /\ epoch' = [ts |-> epoch.ts + 1, phase |-> phase, white |-> white]
  /\ col' = point
  /\ todo' = Participants
  /\ UNCHANGED <<pinVars, syncVars>>

\* root_tracing: phase_trans(Phase::RT)
StartRootTracing ==
  /\ col = "normal"
  /\ Publish("RT", epoch.white, "rtWait")

\* completion_tracing: phase_trans(Phase::CT)
StartCompletionTracing ==
  /\ col \in {"rt", "ct"}
  /\ Publish("CT", epoch.white, "ctWait")

\* next_normal up to the call of sweep.
StartNormal ==
  /\ col = "ct"
  /\ Publish("N", Abstract!Flip(epoch.white), "sweep")

EndSweep ==
  /\ col = "sweep"
  /\ col' = "nWait"
  /\ UNCHANGED <<epoch, todo, pinVars, syncVars>>

Waiting == col \in {"rtWait", "ctWait", "nWait"}

\* Mutant: the wait asks for a guard that is newer than the new epoch.
PinnedUpTo(p, ts) == localEpoch[p] # NoEpoch /\ localEpoch[p].ts <= ts

PinnedBefore(p, ts) == localEpoch[p] # NoEpoch /\ localEpoch[p].ts < ts

\* The spin on one entry ends: not in use, not pinned, or pinned recently.
WaitPass(p) ==
  /\ Waiting
  /\ p \in todo
  /\ ~ (using[p] /\ PinnedBefore(p, epoch.ts))
  /\ todo' = todo \ {p}
  /\ UNCHANGED <<epoch, col, pinVars, syncVars>>

EndWait ==
  /\ Waiting
  /\ todo = {}
  /\ col' = Abstract!AfterWait(col)
  /\ UNCHANGED <<epoch, todo, pinVars, syncVars>>

-----------------------------------------------------------------------------
PinFreshly(p) == PinLoad(p) \/ PinStore(p) \/ PinRetry(p) \/ PinConfirm(p) \/ PhaseBarrier(p)

IsTracingSynced(p) ==
  \/ SyncBegin(p)
  \/ SyncTrue(p)
  \/ \E q \in Participants : SyncPass(p, q) \/ SyncFalse(p, q)

Thread(p) ==
  \/ Register(p) \/ Deregister(p)
  \/ PinOutermost(p) \/ PinNested(p) \/ PinFreshly(p)
  \/ UnpinNested(p) \/ UnpinLast(p) \/ Repin(p)
  \/ IsTracingSynced(p)

Wait == EndWait \/ \E p \in Participants : WaitPass(p)

Collector ==
  \/ StartRootTracing \/ StartCompletionTracing \/ StartNormal
  \/ EndSweep
  \/ Wait

Next == Collector \/ \E p \in Participants : Thread(p)

Spec == Init /\ [][Next]_vars
-----------------------------------------------------------------------------
(* Correctness.                                                             *)

\* The protocol of pin_freshly, unpin_inner and wait_all_mutators_unpin
\* implements the phases: a guard takes effect atomically at the confirming
\* load of pin_freshly, and the collector's entry-by-entry wait ends only when
\* no old guard is left at all, whatever threads register, pin, repin or leave
\* meanwhile.
ImplementsPhases == Abstract!PhasesSpec

ValidGuard(p) == pc[p] \in ValidPoints

\* Once is_tracing_synced has returned true under a guard of RT or CT, no guard
\* of the normal phase before it exists, then or later while that guard lives:
\* helpers may mark objects, for no helper of the sweep is left (guards.rs, the
\* comment in is_tracing_synced).
SyncedExcludesNormal ==
  \A p, q \in Participants :
    /\ synced[p]
    /\ ValidGuard(q)
    /\ localEpoch[q].phase = "N"
    => localEpoch[q].ts > localEpoch[p].ts

\* A guard of RT is handed out only after phase_barrier ran in that same RT for
\* that entry, also when the entry was left by one thread and taken by another
\* one or last observed some older epoch.
BarrierBeforeGuard ==
  \A p \in Participants :
    pc[p] \in {"in", "sync"} /\ localEpoch[p].phase = "RT"
      => barrierTs[p] = localEpoch[p].ts

-----------------------------------------------------------------------------
(* Progress.  The threads run; the program drops or repins every guard (a   *)
(* guard kept for ever stops the collector by design, see Guard::repin).    *)

Fairness ==
  /\ WF_vars(Wait)
  /\ \A p \in Participants :
       /\ WF_vars(PinFreshly(p))
       /\ WF_vars(IsTracingSynced(p) /\ pc[p] = "sync")
       /\ SF_vars(UnpinNested(p))
       /\ SF_vars(UnpinLast(p) \/ Repin(p))

FairSpec == Spec /\ Fairness

\* wait_all_mutators_unpin returns, although threads keep pinning and may store
\* an epoch that is already old: such a store is revoked by the thread's retry.
WaitEnds == Waiting ~> ~ Waiting
=============================================================================

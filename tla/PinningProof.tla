---------------------------- MODULE PinningProof ----------------------------
(***************************************************************************)
(* The epoch protocol implements the phases, for any set of participants,  *)
(* any nesting of guards and any number of cycles.                         *)
(***************************************************************************)
EXTENDS Pinning, TLAPS

\* The default prover; a leaf with arithmetic or records names SMT.
USE ZenonT(60)

Epoch == Abstract!Epoch

\* What a thread has stored, and what it holds, at each point of pin_freshly.
PcInv ==
  \A p \in Participants :
    /\ pc[p] = "out" <=> guardCount[p] = 0
    /\ pc[p] # "out" => using[p]
    /\ pc[p] \in {"out", "load"} => localEpoch[p] = NoEpoch
    /\ pc[p] \in {"check"} \cup ValidPoints => localEpoch[p] = curr[p]
    /\ curr[p].ts <= epoch.ts

\* An entry that the collector has passed is of the published epoch, or not
\* pinned, or about to find out that it must retry.
WaitInv ==
  \A p \in Participants :
    pc[p] \in ValidPoints =>
      \/ localEpoch[p].ts = epoch.ts
      \/ col \in {"rtWait", "ctWait", "nWait"} /\ p \in todo
      \/ col = "sweep"

SweepInv == col = "sweep" => todo = Participants

Inv == TypeOK /\ PcInv /\ WaitInv /\ SweepInv

LEMMA EpochFields == \A e \in Epoch : e.ts \in Nat
BY DEF Epoch, Abstract!Epoch

LEMMA NoEpochNotEpoch == NoEpoch \notin Epoch
BY NoEpochAssumption DEF Epoch, Abstract!Epoch, Abstract!Phase, Abstract!Color

LEMMA InitInv == Init => Inv
<1> SUFFICES ASSUME Init PROVE Inv
  OBVIOUS
<1>1. Abstract!StartingEpoch \in Epoch
  BY DEF Abstract!StartingEpoch, Epoch, Abstract!Epoch, Abstract!Phase, Abstract!Color
<1>2. TypeOK
  BY <1>1, MaxGuardsAssumption, SMTT(60) DEF Init, TypeOK, Abstract!ColPoints, ValidPoints, Epoch
<1> QED
  BY <1>1, <1>2, EpochFields, SMTT(60) DEF Init, Inv, PcInv, WaitInv, SweepInv, ValidPoints

LEMMA ThreadInv ==
  ASSUME Inv, NEW p \in Participants, Thread(p)
  PROVE  Inv'
<1> USE EpochFields, NoEpochNotEpoch, MaxGuardsAssumption
    DEF Inv, TypeOK, PcInv, WaitInv, SweepInv, ValidPoints, Goto, pinVars, syncVars, Epoch
<1>1. CASE Register(p)
  BY <1>1 DEF Register
<1>2. CASE Deregister(p)
  BY <1>2 DEF Deregister
<1>3. CASE PinOutermost(p)
  BY <1>3, SMTT(60) DEF PinOutermost
<1>4. CASE PinNested(p)
  BY <1>4, SMTT(60) DEF PinNested
<1>5. CASE PinLoad(p)
  BY <1>5, SMTT(60) DEF PinLoad
<1>6. CASE PinStore(p)
  BY <1>6 DEF PinStore
<1>7. CASE PinRetry(p)
  BY <1>7, SMTT(60) DEF PinRetry
<1>8. CASE PinConfirm(p)
  BY <1>8 DEF PinConfirm, FirstInRootTracing
<1>9. CASE PhaseBarrier(p)
  BY <1>9 DEF PhaseBarrier
<1>10. CASE UnpinNested(p)
  BY <1>10, SMTT(60) DEF UnpinNested
<1>11. CASE UnpinLast(p)
  BY <1>11, SMTT(60) DEF UnpinLast
<1>12. CASE Repin(p)
  BY <1>12 DEF Repin
<1>13. CASE SyncBegin(p)
  BY <1>13 DEF SyncBegin
<1>14. CASE SyncTrue(p)
  BY <1>14 DEF SyncTrue
<1>15. ASSUME NEW q \in Participants, SyncPass(p, q) \/ SyncFalse(p, q)
      PROVE  Inv'
  BY <1>15, SMTT(60), Z3T(60) DEF SyncPass, SyncFalse
<1> QED
  BY <1>1, <1>2, <1>3, <1>4, <1>5, <1>6, <1>7, <1>8, <1>9, <1>10, <1>11, <1>12, <1>13, <1>14, <1>15 DEF Thread, PinFreshly, IsTracingSynced

LEMMA CollectorInv == Inv /\ Collector => Inv'
<1> SUFFICES ASSUME Inv, Collector
             PROVE  Inv'
  OBVIOUS
<1> USE EpochFields, NoEpochNotEpoch
    DEF Inv, TypeOK, PcInv, WaitInv, SweepInv, ValidPoints, pinVars, syncVars, Epoch, Abstract!ColPoints
<1>1. CASE StartRootTracing
  <2>1. epoch' \in Epoch /\ epoch'.ts = epoch.ts + 1
    BY <1>1, SMTT(60) DEF StartRootTracing, Publish, Abstract!Epoch, Abstract!Phase, Abstract!Color, Abstract!Flip
  <2> QED
    BY <1>1, <2>1, SMTT(60) DEF StartRootTracing, Publish
<1>2. CASE StartCompletionTracing
  <2>1. epoch' \in Epoch /\ epoch'.ts = epoch.ts + 1
    BY <1>2, SMTT(60) DEF StartCompletionTracing, Publish, Abstract!Epoch, Abstract!Phase, Abstract!Color, Abstract!Flip
  <2> QED
    BY <1>2, <2>1, SMTT(60) DEF StartCompletionTracing, Publish
<1>3. CASE StartNormal
  <2>1. epoch' \in Epoch /\ epoch'.ts = epoch.ts + 1
    BY <1>3, SMTT(60) DEF StartNormal, Publish, Abstract!Epoch, Abstract!Phase, Abstract!Color, Abstract!Flip
  <2> QED
    BY <1>3, <2>1, SMTT(60) DEF StartNormal, Publish
<1>4. CASE EndSweep
  BY <1>4 DEF EndSweep
<1>5. ASSUME NEW p \in Participants, WaitPass(p)
      PROVE  Inv'
  BY <1>5, SMTT(60), Z3T(60) DEF WaitPass, Waiting, PinnedBefore
<1>6. CASE EndWait
  BY <1>6 DEF EndWait, Waiting, Abstract!AfterWait
<1> QED
  BY <1>1, <1>2, <1>3, <1>4, <1>5, <1>6 DEF Collector, Wait

LEMMA StepInv == Inv /\ [Next]_vars => Inv'
<1> SUFFICES ASSUME Inv, [Next]_vars
             PROVE  Inv'
  OBVIOUS
<1>1. CASE UNCHANGED vars
  BY <1>1 DEF vars, pinVars, syncVars, Inv, TypeOK, PcInv, WaitInv, SweepInv
<1> QED
  BY <1>1, ThreadInv, CollectorInv DEF Next

\* The variables of the epoch protocol keep their types, guard_count included:
\* it is 0 exactly outside every guard.
THEOREM TypeCorrect == Spec => []TypeOK
<1>1. Inv => TypeOK
  BY DEF Inv
<1> QED
  BY <1>1, InitInv, StepInv, PTL DEF Spec

-----------------------------------------------------------------------------
(* Refinement.                                                              *)

absGuard == [p \in Participants |->
               IF pc[p] \in ValidPoints THEN localEpoch[p] ELSE NoEpoch]

\* A step of thread p leaves the abstract guards alone if it leaves p's alone.
LEMMA SameGuards ==
  ASSUME NEW p \in Participants, TypeOK, TypeOK',
         UNCHANGED <<epoch, col>>,
         \A q \in Participants \ {p} : pc'[q] = pc[q] /\ localEpoch'[q] = localEpoch[q],
         absGuard'[p] = absGuard[p]
  PROVE  UNCHANGED Abstract!phaseVars
BY DEF Abstract!phaseVars, absGuard

LEMMA InitRefines == Init => Abstract!PhasesInit
BY DEF Init, Abstract!PhasesInit, ValidPoints

LEMMA ThreadRefines ==
  ASSUME Inv, Inv', NEW p \in Participants, Thread(p)
  PROVE  [Abstract!PhasesNext]_(Abstract!phaseVars)
<1> USE DEF Inv, Goto
<1>1. CASE \/ Register(p) \/ Deregister(p) \/ PinOutermost(p) \/ PinNested(p)
           \/ PinLoad(p) \/ PinStore(p) \/ PinRetry(p) \/ PhaseBarrier(p)
           \/ UnpinNested(p) \/ SyncBegin(p) \/ SyncTrue(p)
  <2>1. /\ UNCHANGED <<epoch, col>>
        /\ \A q \in Participants \ {p} : pc'[q] = pc[q] /\ localEpoch'[q] = localEpoch[q]
        /\ absGuard'[p] = absGuard[p]
    BY <1>1
    DEF Register, Deregister, PinOutermost, PinNested, PinLoad, PinStore, PinRetry, PhaseBarrier,
        UnpinNested, SyncBegin, SyncTrue, absGuard, ValidPoints, TypeOK
  <2> QED
    BY <2>1, SameGuards
<1>2. ASSUME NEW q \in Participants, SyncPass(p, q) \/ SyncFalse(p, q)
      PROVE  UNCHANGED Abstract!phaseVars
  <2>1. /\ UNCHANGED <<epoch, col>>
        /\ \A r \in Participants \ {p} : pc'[r] = pc[r] /\ localEpoch'[r] = localEpoch[r]
        /\ absGuard'[p] = absGuard[p]
    BY <1>2 DEF SyncPass, SyncFalse, absGuard, ValidPoints, TypeOK, pinVars
  <2> QED
    BY <2>1, SameGuards
<1>3. CASE PinConfirm(p)
  <2>1. /\ absGuard[p] = NoEpoch
        /\ absGuard' = [absGuard EXCEPT ![p] = epoch]
        /\ UNCHANGED <<epoch, col>>
    <3>1. absGuard'[p] = epoch /\ absGuard[p] = NoEpoch
      BY <1>3 DEF PinConfirm, absGuard, ValidPoints, TypeOK, PcInv
    <3>2. \A q \in Participants \ {p} : absGuard'[q] = absGuard[q]
      BY <1>3 DEF PinConfirm, absGuard, TypeOK
    <3> QED
      BY <1>3, <3>1, <3>2 DEF PinConfirm, absGuard
  <2> QED
    BY <2>1 DEF absGuard, Abstract!PhasesNext, Abstract!Pin, Abstract!Pinned
<1>4. CASE UnpinLast(p) \/ Repin(p)
  <2>1. /\ absGuard[p] # NoEpoch
        /\ absGuard' = [absGuard EXCEPT ![p] = NoEpoch]
        /\ UNCHANGED <<epoch, col>>
    <3>1. absGuard'[p] = NoEpoch /\ absGuard[p] # NoEpoch
      BY <1>4, NoEpochNotEpoch, SMTT(60) DEF UnpinLast, Repin, absGuard, ValidPoints, TypeOK, PcInv, Epoch
    <3>2. \A q \in Participants \ {p} : absGuard'[q] = absGuard[q]
      BY <1>4 DEF UnpinLast, Repin, absGuard, TypeOK
    <3> QED
      BY <1>4, <3>1, <3>2 DEF UnpinLast, Repin, absGuard
  <2> QED
    BY <2>1 DEF absGuard, Abstract!PhasesNext, Abstract!Unpin, Abstract!Pinned
<1> QED
  BY <1>1, <1>2, <1>3, <1>4 DEF Thread, PinFreshly, IsTracingSynced

LEMMA CollectorRefines == Inv /\ Collector => [Abstract!PhasesNext]_(Abstract!phaseVars)
<1> SUFFICES ASSUME Inv, Collector
             PROVE  [Abstract!PhasesNext]_(Abstract!phaseVars)
  OBVIOUS
<1> USE DEF pinVars, syncVars
<1>1. CASE StartRootTracing
  BY <1>1 DEF StartRootTracing, Publish, Abstract!PhasesNext, Abstract!StartRootTracing, Abstract!Publish
<1>2. CASE StartCompletionTracing
  BY <1>2
  DEF StartCompletionTracing, Publish, Abstract!PhasesNext, Abstract!StartCompletionTracing, Abstract!Publish
<1>3. CASE StartNormal
  BY <1>3 DEF StartNormal, Publish, Abstract!PhasesNext, Abstract!StartNormal, Abstract!Publish
<1>4. CASE EndSweep
  BY <1>4 DEF EndSweep, Abstract!PhasesNext, Abstract!EndSweep
<1>5. ASSUME NEW p \in Participants, WaitPass(p)
      PROVE  UNCHANGED Abstract!phaseVars
  BY <1>5 DEF WaitPass, Abstract!phaseVars
<1>6. CASE EndWait
  <2>1. \A p \in Participants : pc[p] \in ValidPoints => localEpoch[p].ts = epoch.ts
    BY <1>6 DEF EndWait, Waiting, Inv, WaitInv
  <2>2. \A p \in Participants : ~ Abstract!OldGuard(p)
    <3> SUFFICES ASSUME NEW p \in Participants
                 PROVE  ~ Abstract!OldGuard(p)
      OBVIOUS
    <3>1. Abstract!OldGuard(p) <=> absGuard[p] # NoEpoch /\ absGuard[p].ts < epoch.ts
      BY DEF Abstract!OldGuard, Abstract!Pinned, absGuard
    <3>2. CASE pc[p] \in ValidPoints
      <4>1. absGuard[p].ts = epoch.ts
        BY <2>1, <3>2 DEF absGuard
      <4>2. epoch.ts \in Nat
        BY EpochFields DEF Inv, TypeOK, Epoch
      <4> QED
        BY <3>1, <4>1, <4>2, SMTT(60)
    <3>3. CASE pc[p] \notin ValidPoints
      BY <3>1, <3>3 DEF absGuard
    <3> QED
      BY <3>2, <3>3
  <2> QED
    BY <1>6, <2>2
    DEF EndWait, Waiting, Abstract!PhasesNext, Abstract!EndWait, Abstract!Waiting
<1> QED
  BY <1>1, <1>2, <1>3, <1>4, <1>5, <1>6 DEF Collector, Wait

LEMMA StepRefines ==
  Inv /\ Inv' /\ [Next]_vars => [Abstract!PhasesNext]_(Abstract!phaseVars)
<1> SUFFICES ASSUME Inv, Inv', [Next]_vars
             PROVE  [Abstract!PhasesNext]_(Abstract!phaseVars)
  OBVIOUS
<1>1. CASE UNCHANGED vars
  BY <1>1 DEF vars, pinVars, syncVars, Abstract!phaseVars
<1> QED
  BY <1>1, ThreadRefines, CollectorRefines DEF Next

\* pin_freshly, unpin_inner, repin, phase_trans, next_normal and
\* wait_all_mutators_unpin implement the phases: a guard takes effect at the
\* confirming load and the wait ends only when no old guard is left.
THEOREM Refinement == Spec => ImplementsPhases
<1>1. Spec => []Inv
  BY InitInv, StepInv, PTL DEF Spec
<1> QED
  BY <1>1, InitRefines, StepRefines, PTL DEF Spec, ImplementsPhases, Abstract!PhasesSpec

-----------------------------------------------------------------------------
(* is_tracing_synced and phase_barrier.                                     *)

\* A timestamp determines the epoch it was published with.
CurrInv == \A p \in Participants : curr[p].ts = epoch.ts => curr[p] = epoch

\* Of the entries that is_tracing_synced has passed, none has a valid guard of
\* the normal phase before.
SyncInv ==
  \A p \in Participants :
    /\ synced[p] => pc[p] \in {"in", "sync"}
    /\ synced[p] \/ pc[p] = "sync" => localEpoch[p].phase # "N"
    /\ \A q \in Participants :
         /\ pc[q] \in ValidPoints
         /\ localEpoch[q].phase = "N"
         /\ localEpoch[q].ts <= localEpoch[p].ts
         => ~ synced[p] /\ (pc[p] = "sync" => q \in syncTodo[p])

\* What last_observed tells about phase_barrier.
BarrierInv ==
  /\ \A p \in Participants :
       /\ lastObserved[p] <= epoch.ts
       /\ lastObserved[p] = epoch.ts /\ epoch.phase = "RT" => barrierTs[p] = epoch.ts
  /\ BarrierBeforeGuard

GuardInv == CurrInv /\ SyncInv /\ BarrierInv

LEMMA InitGuardInv == Init => GuardInv
BY SMTT(60) DEF Init, GuardInv, CurrInv, SyncInv, BarrierInv, BarrierBeforeGuard, ValidPoints,
       Abstract!StartingEpoch

LEMMA ThreadGuardInv ==
  ASSUME Inv, Inv', GuardInv, NEW p \in Participants, Thread(p)
  PROVE  GuardInv'
<1> USE EpochFields, NoEpochNotEpoch
    DEF Inv, GuardInv, TypeOK, PcInv, CurrInv, SyncInv, BarrierInv, BarrierBeforeGuard,
        ValidPoints, Goto, pinVars, syncVars, Epoch
<1>1. CASE Register(p)
  BY <1>1, SMTT(60) DEF Register
<1>2. CASE Deregister(p)
  BY <1>2, SMTT(60) DEF Deregister
<1>3. CASE PinOutermost(p)
  BY <1>3, SMTT(60) DEF PinOutermost
<1>4. CASE PinNested(p)
  BY <1>4, SMTT(60) DEF PinNested
<1>5. CASE PinLoad(p)
  BY <1>5, SMTT(60) DEF PinLoad
<1>6. CASE PinStore(p)
  BY <1>6, SMTT(60) DEF PinStore
<1>7. CASE PinRetry(p)
  BY <1>7, SMTT(60) DEF PinRetry
<1>8. CASE PinConfirm(p)
  <2>1. /\ pc[p] = "check" /\ pc'[p] \in {"barrier", "in"}
        /\ \A q \in Participants \ {p} : pc'[q] = pc[q]
        /\ localEpoch[p] = epoch /\ ~ synced[p]
        /\ UNCHANGED <<epoch, localEpoch, curr, syncTodo, synced, barrierTs>>
    BY <1>8, SMTT(60) DEF PinConfirm
  <2>2. CurrInv'
    BY <2>1
  <2>3. SyncInv'
    <3> SUFFICES ASSUME NEW r \in Participants, NEW q \in Participants,
                        synced[r] \/ pc[r] = "sync",
                        pc'[q] \in ValidPoints, localEpoch[q].phase = "N",
                        localEpoch[q].ts <= localEpoch[r].ts
                 PROVE  pc[q] \in ValidPoints
      BY <2>1, SMTT(60)
    <3>1. /\ localEpoch[r] = curr[r] /\ localEpoch[r].phase # "N"
          /\ curr[r].ts <= epoch.ts /\ curr[r].ts \in Nat /\ epoch.ts \in Nat
          /\ curr[r].ts = epoch.ts => curr[r] = epoch
      OBVIOUS
    <3> HIDE DEF Inv, GuardInv
    <3>2. CASE q = p
      BY <2>1, <3>1, <3>2, SMTT(60)
    <3> QED
      BY <2>1, <3>2
  <2>4. BarrierInv'
    BY <1>8, <2>1, SMTT(60) DEF PinConfirm, FirstInRootTracing
  <2> QED
    BY <2>2, <2>3, <2>4
<1>9. CASE PhaseBarrier(p)
  BY <1>9, SMTT(60) DEF PhaseBarrier
<1>10. CASE UnpinNested(p)
  BY <1>10, SMTT(60) DEF UnpinNested
<1>11. CASE UnpinLast(p)
  BY <1>11, SMTT(60), Z3T(60) DEF UnpinLast
<1>12. CASE Repin(p)
  BY <1>12, SMTT(60) DEF Repin
<1>13. CASE SyncBegin(p)
  BY <1>13, SMTT(60) DEF SyncBegin
<1>14. CASE SyncTrue(p)
  BY <1>14, SMTT(60) DEF SyncTrue
<1>15. ASSUME NEW q \in Participants, SyncPass(p, q) \/ SyncFalse(p, q)
      PROVE  GuardInv'
  BY <1>15, SMTT(60), Z3T(60) DEF SyncPass, SyncFalse, PinnedInNormal
<1> QED
  BY <1>1, <1>2, <1>3, <1>4, <1>5, <1>6, <1>7, <1>8, <1>9, <1>10, <1>11, <1>12, <1>13, <1>14, <1>15 DEF Thread, PinFreshly, IsTracingSynced

LEMMA CollectorGuardInv == Inv /\ GuardInv /\ Collector => GuardInv'
<1> SUFFICES ASSUME Inv, GuardInv, Collector
             PROVE  GuardInv'
  OBVIOUS
<1>1. CASE StartRootTracing \/ StartCompletionTracing \/ StartNormal
  <2>1. epoch'.ts = epoch.ts + 1 /\ UNCHANGED <<pinVars, syncVars>>
    BY <1>1, SMTT(60) DEF StartRootTracing, StartCompletionTracing, StartNormal, Publish
  <2> QED
    BY <2>1, EpochFields, SMTT(60)
    DEF Inv, GuardInv, TypeOK, PcInv, CurrInv, SyncInv, BarrierInv, BarrierBeforeGuard,
        pinVars, syncVars, Epoch
<1>2. CASE EndSweep \/ EndWait \/ \E p \in Participants : WaitPass(p)
  BY <1>2
  DEF EndSweep, EndWait, WaitPass, pinVars, syncVars, GuardInv, CurrInv, SyncInv, BarrierInv,
      BarrierBeforeGuard
<1> QED
  BY <1>1, <1>2 DEF Collector, Wait

LEMMA StepGuardInv == Inv /\ Inv' /\ GuardInv /\ [Next]_vars => GuardInv'
<1> SUFFICES ASSUME Inv, Inv', GuardInv, [Next]_vars
             PROVE  GuardInv'
  OBVIOUS
<1>1. CASE UNCHANGED vars
  BY <1>1 DEF vars, pinVars, syncVars, GuardInv, CurrInv, SyncInv, BarrierInv, BarrierBeforeGuard
<1> QED
  BY <1>1, ThreadGuardInv, CollectorGuardInv DEF Next

\* is_tracing_synced is sound: under a guard for which it returned true, no
\* guard of the normal phase before it is left that could still sweep.
THEOREM TracingSynced == Spec => []SyncedExcludesNormal
<1>1. Inv /\ GuardInv => SyncedExcludesNormal
  BY EpochFields, SMTT(60)
  DEF Inv, TypeOK, PcInv, GuardInv, SyncInv, SyncedExcludesNormal, ValidGuard, ValidPoints, Epoch
<1> QED
  BY <1>1, InitInv, StepInv, InitGuardInv, StepGuardInv, PTL DEF Spec

\* Every guard of RT is preceded by a phase_barrier of the same RT, whatever
\* last_observed was left in a reused entry.
THEOREM BarrierFirst == Spec => []BarrierBeforeGuard
<1>1. GuardInv => BarrierBeforeGuard
  BY DEF GuardInv, BarrierInv
<1> QED
  BY <1>1, InitInv, StepInv, InitGuardInv, StepGuardInv, PTL DEF Spec
=============================================================================

----------------------------- MODULE CdptProof ------------------------------
(***************************************************************************)
(* Theorems.                                                               *)
(***************************************************************************)
EXTENDS CollectorProof, FiniteSetTheorems

\* The default prover; a leaf with arithmetic or records names SMT.
USE ZenonT(60)

-----------------------------------------------------------------------------
(* The root counts.                                                         *)

NumCells(o) == Cardinality({c \in Cells : cell[c] = o})
NumOps(o) == Cardinality({a \in Agents : Counting(a, o)})

\* The exact count as the sum of what the cells and the operations count.
LEMMA CountsAreSums == RootCountExact <=> \A o \in Objs : rc[o] = NumCells(o) + NumOps(o)
BY DEF RootCountExact, NumCells, NumOps, Counting

\* Two subsets of a finite set that differ in x at most.
LEMMA CardinalityStep ==
  ASSUME NEW S, IsFiniteSet(S), NEW T \in SUBSET S, NEW U \in SUBSET S, NEW x \in S,
         T \ {x} = U \ {x}
  PROVE  /\ Cardinality(T) \in Nat /\ Cardinality(U) \in Nat
         /\ Cardinality(U) + Bit(x \in T) = Cardinality(T) + Bit(x \in U)
<1>1. IsFiniteSet(T) /\ IsFiniteSet(U)
  BY FS_Subset
<1>2. Cardinality(T) \in Nat /\ Cardinality(U) \in Nat
  BY <1>1, FS_CardinalityType
<1>3. CASE x \in T /\ x \in U
  <2>1. T = U
    BY <1>3, SMTT(60), Z3T(60)
  <2> QED
    BY <1>2, <1>3, <2>1, SMTT(60), Z3T(60) DEF Bit
<1>4. CASE x \notin T /\ x \notin U
  <2>1. T = U
    BY <1>4, SMTT(60)
  <2> QED
    BY <1>2, <1>4, <2>1, SMTT(60), Z3T(60) DEF Bit
<1>5. CASE x \in T /\ x \notin U
  <2>1. U = T \ {x}
    BY <1>5
  <2>2. Cardinality(U) = Cardinality(T) - 1
    BY <1>1, <1>5, <2>1, FS_RemoveElement
  <2> QED
    BY <1>2, <1>5, <2>2, SMTT(60), Z3T(60) DEF Bit
<1>6. CASE x \notin T /\ x \in U
  <2>1. T = U \ {x}
    BY <1>6
  <2>2. Cardinality(T) = Cardinality(U) - 1
    BY <1>1, <1>6, <2>1, FS_RemoveElement
  <2> QED
    BY <1>2, <1>6, <2>2, SMTT(60), Z3T(60) DEF Bit
<1> QED
  BY <1>3, <1>4, <1>5, <1>6

\* A step of one thread changes what the operations count by its own part.
LEMMA NumOpsStep ==
  ASSUME IsFiniteSet(Agents), NEW p \in Agents, Moved(p), NEW o
  PROVE  /\ NumOps(o) \in Nat /\ NumOps(o)' \in Nat
         /\ NumOps(o)' + Bit(Counting(p, o)) = NumOps(o) + Bit(Counting(p, o)')
<1> DEFINE T == {a \in Agents : Counting(a, o)}
           U == {a \in Agents : Counting(a, o)'}
<1>1. T \in SUBSET Agents /\ U \in SUBSET Agents
  OBVIOUS
<1>2. T \ {p} = U \ {p}
  BY DEF Moved, Counting
<1>3. (p \in T <=> Counting(p, o)) /\ (p \in U <=> Counting(p, o)')
  OBVIOUS
<1>4. NumOps(o) = Cardinality(T) /\ NumOps(o)' = Cardinality(U)
  BY DEF NumOps
<1> HIDE DEF T, U
<1>5. /\ Cardinality(T) \in Nat /\ Cardinality(U) \in Nat
      /\ Cardinality(U) + Bit(p \in T) = Cardinality(T) + Bit(p \in U)
  BY <1>1, <1>2, CardinalityStep, SMTT(60), Z3T(60)
<1>6. Bit(p \in T) = Bit(Counting(p, o)) /\ Bit(p \in U) = Bit(Counting(p, o)')
  BY <1>3 DEF Bit
<1> QED
  BY <1>4, <1>5, <1>6

\* A store to one cell changes what the cells count by its own part.
LEMMA NumCellsStep ==
  ASSUME IsFiniteSet(Cells), NEW c \in Cells, \A d \in Cells : d # c => cell'[d] = cell[d], NEW o
  PROVE  /\ NumCells(o) \in Nat /\ NumCells(o)' \in Nat
         /\ NumCells(o)' + Bit(cell[c] = o) = NumCells(o) + Bit(cell'[c] = o)
<1> DEFINE T == {d \in Cells : cell[d] = o}
           U == {d \in Cells : cell'[d] = o}
<1>1. T \in SUBSET Cells /\ U \in SUBSET Cells
  OBVIOUS
<1>2. T \ {c} = U \ {c}
  OBVIOUS
<1>3. (c \in T <=> cell[c] = o) /\ (c \in U <=> cell'[c] = o)
  OBVIOUS
<1>4. NumCells(o) = Cardinality(T) /\ NumCells(o)' = Cardinality(U)
  BY DEF NumCells
<1> HIDE DEF T, U
<1>5. /\ Cardinality(T) \in Nat /\ Cardinality(U) \in Nat
      /\ Cardinality(U) + Bit(c \in T) = Cardinality(T) + Bit(c \in U)
  BY <1>1, <1>2, CardinalityStep, SMTT(60), Z3T(60)
<1>6. Bit(c \in T) = Bit(cell[c] = o) /\ Bit(c \in U) = Bit(cell'[c] = o)
  BY <1>3 DEF Bit
<1> QED
  BY <1>4, <1>5, <1>6

\* Finitely many threads and cells are counted.
LEMMA AgentsFinite == IsFiniteSet(Agents) /\ IsFiniteSet(Cells)
BY HeapAssumption, FS_AddElement DEF Agents

\* The counts stay exact when p counts as much more as the object's count grows.
LEMMA RootStepOps ==
  ASSUME RootCountExact, NEW p \in Agents, Moved(p), cell' = cell,
         \A o \in Objs : /\ rc'[o] \in Int
                        /\ rc'[o] + Bit(Counting(p, o)) = rc[o] + Bit(Counting(p, o)')
  PROVE  RootCountExact' /\ \A o \in Objs : rc'[o] \in Nat
<1>1. \A o \in Objs : rc'[o] = NumCells(o)' + NumOps(o)' /\ rc'[o] \in Nat
  <2> TAKE o \in Objs
  <2>1. NumCells(o)' = NumCells(o)
    BY DEF NumCells
  <2>2. NumCells(o) \in Nat
    BY AgentsFinite, FS_Subset, FS_CardinalityType DEF NumCells
  <2>3. /\ NumOps(o) \in Nat /\ NumOps(o)' \in Nat
        /\ NumOps(o)' + Bit(Counting(p, o)) = NumOps(o) + Bit(Counting(p, o)')
    BY AgentsFinite, NumOpsStep
  <2>4. rc[o] = NumCells(o) + NumOps(o)
    BY CountsAreSums
  <2>5. Bit(Counting(p, o)) \in Nat /\ Bit(Counting(p, o)') \in Nat
    BY DEF Bit
  <2>6. rc'[o] \in Int /\ rc'[o] + Bit(Counting(p, o)) = rc[o] + Bit(Counting(p, o)')
    OBVIOUS
  <2> QED
    BY ONLY <2>1, <2>2, <2>3, <2>4, <2>5, <2>6, SMTT(60), Z3T(60)
<1>2. RootCountExact' <=> (\A o \in Objs : rc[o] = NumCells(o) + NumOps(o))'
  BY CountsAreSums, PTL
<1> QED
  BY <1>1, <1>2

\* The same when the cell c changes too.
LEMMA RootStepCell ==
  ASSUME RootCountExact, NEW p \in Agents, Moved(p), NEW c \in Cells,
         \A d \in Cells : d # c => cell'[d] = cell[d],
         \A o \in Objs : /\ rc'[o] \in Int
                        /\ rc'[o] + Bit(Counting(p, o)) + Bit(cell[c] = o)
                             = rc[o] + Bit(Counting(p, o)') + Bit(cell'[c] = o)
  PROVE  RootCountExact' /\ \A o \in Objs : rc'[o] \in Nat
<1>1. \A o \in Objs : rc'[o] = NumCells(o)' + NumOps(o)' /\ rc'[o] \in Nat
  <2> TAKE o \in Objs
  <2>1. /\ NumCells(o) \in Nat /\ NumCells(o)' \in Nat
        /\ NumCells(o)' + Bit(cell[c] = o) = NumCells(o) + Bit(cell'[c] = o)
    BY AgentsFinite, NumCellsStep, SMTT(60), Z3T(60)
  <2>3. /\ NumOps(o) \in Nat /\ NumOps(o)' \in Nat
        /\ NumOps(o)' + Bit(Counting(p, o)) = NumOps(o) + Bit(Counting(p, o)')
    BY AgentsFinite, NumOpsStep
  <2>4. rc[o] = NumCells(o) + NumOps(o)
    BY CountsAreSums
  <2>5. /\ Bit(Counting(p, o)) \in Nat /\ Bit(Counting(p, o)') \in Nat
        /\ Bit(cell[c] = o) \in Nat /\ Bit(cell'[c] = o) \in Nat
    BY DEF Bit
  <2>6. /\ rc'[o] \in Int
        /\ rc'[o] + Bit(Counting(p, o)) + Bit(cell[c] = o)
             = rc[o] + Bit(Counting(p, o)') + Bit(cell'[c] = o)
    OBVIOUS
  <2> QED
    BY ONLY <2>1, <2>3, <2>4, <2>5, <2>6, SMTT(60), Z3T(60)
<1>2. RootCountExact' <=> (\A o \in Objs : rc[o] = NumCells(o) + NumOps(o))'
  BY CountsAreSums, PTL
<1> QED
  BY <1>1, <1>2

\* Every step keeps the counts exact.
LEMMA CountsStep ==
  ASSUME RootCountExact, HeapTypes', CountsMove
  PROVE  RootCountExact'
<1>1. CASE UNCHANGED <<rc, cell, m>>
  BY <1>1 DEF RootCountExact
<1>2. ASSUME NEW a \in Agents, Moved(a), CountsWithOps(a)
      PROVE  RootCountExact'
  <2>1. /\ cell' = cell
        /\ \A o \in Objs : /\ rc'[o] \in Int
                           /\ rc'[o] + Bit(Counting(a, o)) = rc[o] + Bit(Counting(a, o)')
    BY <1>2 DEF HeapTypes, CountsWithOps
  <2> QED
    BY <1>2, <2>1, RootStepOps
<1>3. ASSUME NEW a \in Agents, Moved(a), NEW c \in Cells, CountsWithCell(a, c)
      PROVE  RootCountExact'
  <2>1. /\ \A d \in Cells : d # c => cell'[d] = cell[d]
        /\ \A o \in Objs : /\ rc'[o] \in Int
                           /\ rc'[o] + Bit(Counting(a, o)) + Bit(cell[c] = o)
                                = rc[o] + Bit(Counting(a, o)') + Bit(cell'[c] = o)
    BY <1>3 DEF HeapTypes, CountsWithCell
  <2> QED
    BY <1>3, <2>1, RootStepCell
<1> QED
  BY <1>1, <1>2, <1>3 DEF CountsMove

\* An exact count is positive when there is something to count.
LEMMA CountsPositive ==
  ASSUME RootCountExact, NEW o \in Objs
  PROVE  /\ rc[o] \in Nat
         /\ (\E c \in Cells : cell[c] = o) \/ (\E a \in Agents : Counting(a, o)) => rc[o] > 0
<1> DEFINE S == {c \in Cells : cell[c] = o}
           T == {a \in Agents : Counting(a, o)}
<1>1. S \in SUBSET Cells /\ T \in SUBSET Agents
  OBVIOUS
<1>2. rc[o] = Cardinality(S) + Cardinality(T)
  BY CountsAreSums DEF NumCells, NumOps
<1>3. (\E c \in Cells : cell[c] = o) => S # {}
  OBVIOUS
<1>4. (\E a \in Agents : Counting(a, o)) => T # {}
  OBVIOUS
<1> HIDE DEF S, T
<1>5. IsFiniteSet(S) /\ IsFiniteSet(T)
  BY <1>1, AgentsFinite, FS_Subset
<1>6. /\ Cardinality(S) \in Nat /\ Cardinality(T) \in Nat
      /\ Cardinality(S) = 0 <=> S = {}
      /\ Cardinality(T) = 0 <=> T = {}
  BY <1>5, FS_CardinalityType, FS_EmptySet
<1> QED
  BY <1>2, <1>3, <1>4, <1>6, SMTT(60), Z3T(60)

\* Exact counts find every root.
LEMMA CountedRoots ==
  ASSUME RootCountExact
  PROVE  RootsCounted
BY CountsPositive, SMTT(60), Z3T(60) DEF RootsCounted

\* In the first normal phase the cells are all that is counted.
LEMMA InitCounts ==
  ASSUME Init
  PROVE  RootCountExact
<1> SUFFICES ASSUME NEW o \in Objs
             PROVE  rc[o] = NumCells(o) + NumOps(o)
  BY CountsAreSums
<1> DEFINE S == {c \in Cells : cell[c] = o}
           T == {a \in Agents : Counting(a, o)}
<1>1. S \in SUBSET Cells /\ NumCells(o) = Cardinality(S) /\ NumOps(o) = Cardinality(T)
  BY DEF NumCells, NumOps
<1>2. rc[o] = Cardinality(S)
  BY DEF Init
<1>3. T = {}
  BY DEF Init, Counting, Idle
<1> HIDE DEF S, T
<1>4. Cardinality(S) \in Nat
  BY <1>1, AgentsFinite, FS_Subset, FS_CardinalityType
<1>5. Cardinality(T) = 0
  BY <1>3, FS_EmptySet
<1> QED
  BY <1>1, <1>2, <1>4, <1>5, SMTT(60), Z3T(60)

-----------------------------------------------------------------------------
(* Every step of the specification.                                         *)

\* A step that changes nothing.
LEMMA StutterStep ==
  ASSUME Typed, UNCHANGED vars
  PROVE  StepOK
<1>1. HeapStays /\ epoch' = epoch /\ col' = col /\ stage' = stage /\ todo' = todo /\ doomed' = doomed
  BY DEF HeapStays, vars, phaseVars, objVars, rootVars, progVars, markVars, scanVars, colVars
<1>2. HeapTypes'
  BY <1>1 DEF HeapStays, Typed, HeapTypes
<1>3. ASSUME Safe
      PROVE  Safe'
  <2>1. /\ Shape /\ HpOK /\ Threads /\ Confirming /\ W' = W /\ B' = B /\ (Tracing' <=> Tracing)
        /\ place' = place /\ color' = color /\ link' = link /\ m' = m /\ tasks' = tasks /\ hp' = hp
        /\ hazards' = hazards /\ guard' = guard /\ observed' = observed
    BY <1>1, <1>3 DEF Safe, W, B, HeapStays, Tracing
  <2>2. Stages' /\ CollOK' /\ Boxes'
    BY <1>1, <2>1 DEF Shape, Stages, CollOK, Boxes, BoxOK, InList, IsLocal
  <2>3. HpOK'
    BY <1>1, <2>1 DEF HpOK, LateHp, Marks, HpDue, Unscanned, InList, IsLocal, Swept
  <2>4. Confirming'
    <3>1. /\ NoTasks' <=> NoTasks
          /\ \A p \in Participants : /\ ShadesWhite(p)' <=> ShadesWhite(p)
                                     /\ OldGuard(p)' <=> OldGuard(p)
      BY <1>1, <2>1 DEF NoTasks, ShadesWhite, OldGuard, Pinned
    <3> QED
      BY <1>1, <2>1, <3>1 DEF Confirming, Settled
  <2>5. \A p \in Participants : m[p].pc = "sweepBox" => col' \in {"sweep", "nWait", "normal", "rtWait"}
    BY <1>1, <2>1 DEF Threads, ThreadOK
  <2> QED
    BY <1>1, <1>3, <2>1, <2>2, <2>3, <2>4, <2>5, WaitSafe
<1> QED
  BY <1>1, <1>2, <1>3, HeapStaysOps DEF StepOK

\* Every operation of a thread of the program.
LEMMA MutatorStepOK ==
  ASSUME Typed, NEW p \in Participants, MutatorStep(p)
  PROVE  StepOK
<1>1. CASE PinThread(p) \/ ClearHp(p) \/ \E c \in Cells : RootHp(p, c)
  BY <1>1, PinThreadStep, ClearHpStep, RootHpStep
<1>2. CASE UnpinThread(p)
  BY <1>2, UnpinThreadStep
<1>3. CASE \E c \in Cells : LoadCell(p, c) \/ DropCell(p, c)
  BY <1>3, LoadCellStep, DropCellStep
<1>4. CASE \E o \in Objs : LoadLink(p, o) \/ Protect(p, o)
  BY <1>4, LoadLinkStep, ProtectStep
<1>5. CASE \E o \in Objs, new \in Objs \cup {Null} : ExchangeLink(p, o, new) \/ Allocate(p, o, new)
  BY <1>5, ExchangeLinkStep, AllocateStep
<1>6. CASE \E c \in Cells, new \in Objs \cup {Null} : ExchangeCell(p, c, new)
  BY <1>6, ExchangeCellStep
<1>7. CASE DijkstraBarrier(p) \/ CasLink(p) \/ CasLinkFails(p) \/ YuasaBarrier(p) \/ Shade(p)
  BY <1>7, DijkstraBarrierStep, CasLinkStep, CasLinkFailsStep, BarrierTestStep, ShadeStep
<1>8. CASE CasCell(p) \/ CasCellFails(p) \/ DecRoot(p) \/ ShadeOld(p)
  BY <1>8, CasCellStep, CasCellFailsStep, DecRootStep, BarrierTestStep
<1>9. CASE Unroot(p) \/ UnrootTest(p) \/ UnrootShade(p)
  BY <1>9, UnrootStep, UnrootTestStep, UnrootShadeStep
<1> QED
  BY <1>1, <1>2, <1>3, <1>4, <1>5, <1>6, <1>7, <1>8, <1>9 DEF MutatorStep, Start, GoOn

\* Every step of a helping thread.
LEMMA HelperStepOK ==
  ASSUME Typed, NEW p \in Participants, HelperStep(p)
  PROVE  StepOK
BY HelpPopMarkedStep, HelpSweepBoxStep, HelpPopFreshStep, HelpScanRootStep, HelpCollectHpStep,
   HelpScanHazardStep, HelpMarkTaskStep DEF HelperStep

\* Every step of the collector.
LEMMA CollectorStepOK ==
  ASSUME Typed, CollectorStep
  PROVE  StepOK
<1>1. CASE BeginCycle \/ EndPhaseWait \/ BeginCompletion \/ BeginNormal \/ FinishSweep
  BY <1>1, BeginCycleStep, EndPhaseWaitStep, BeginCompletionStep, BeginNormalStep, FinishSweepStep
<1>2. CASE TakePending \/ CollectHps \/ ScanPopFresh \/ ScanObj \/ EndScan \/ DrainTask
  BY <1>2, TakePendingStep, CollectHpsStep, ScanPopFreshStep, ScanObjStep, EndScanStep, DrainTaskStep
<1>3. CASE ConfirmFlags \/ ConfirmQueues \/ ConfirmFlagsAgain \/ SweepPopMarked \/ SweepBox
  BY <1>3, ConfirmFlagsStep, ConfirmQueuesStep, ConfirmFlagsAgainStep, SweepPopMarkedStep, SweepBoxStep
<1> QED
  BY <1>1, <1>2, <1>3 DEF CollectorStep

\* Every step of the system.
LEMMA NextStepOK ==
  ASSUME Typed, [Next]_vars
  PROVE  StepOK
<1>1. ASSUME NEW a \in Agents, Marking(a) \/ PushMarked(a)
      PROVE  StepOK
  BY <1>1, MarkOutgoingsStep, MarkCasStep, MarkHeaderStep, PushMarkedStep DEF Marking
<1> QED
  BY <1>1, StutterStep, MutatorStepOK, HelperStepOK, CollectorStepOK DEF Next

\* The steps are steps of the phase protocol or leave it alone.
LEMMA NextPhases ==
  ASSUME [Next]_vars
  PROVE  [PhasesNext]_phaseVars
<1>1. ASSUME NEW p \in Participants, PinThread(p) \/ UnpinThread(p)
      PROVE  PhasesNext
  BY <1>1 DEF PinThread, UnpinThread, PhasesNext
<1>2. ASSUME NEW p \in Participants,
             \/ ClearHp(p) \/ \E c \in Cells : RootHp(p, c) \/ LoadCell(p, c) \/ DropCell(p, c)
             \/ \E o \in Objs : LoadLink(p, o) \/ Protect(p, o)
             \/ \E o \in Objs, new \in Objs \cup {Null} : ExchangeLink(p, o, new) \/ Allocate(p, o, new)
             \/ \E c \in Cells, new \in Objs \cup {Null} : ExchangeCell(p, c, new)
      PROVE  UNCHANGED phaseVars
  BY <1>2 DEF ClearHp, RootHp, LoadCell, DropCell, LoadLink, Protect, ExchangeLink, Allocate, ExchangeCell
<1>3. ASSUME NEW p \in Participants, GoOn(p)
      PROVE  UNCHANGED phaseVars
  BY <1>3 DEF GoOn, DijkstraBarrier, CasLink, CasLinkFails, YuasaBarrier, Shade, CasCell, CasCellFails,
     DecRoot, ShadeOld, Unroot, UnrootTest, UnrootShade
<1>4. ASSUME NEW p \in Participants, HelperStep(p)
      PROVE  UNCHANGED phaseVars
  BY <1>4 DEF HelperStep, HelpPopMarked, HelpSweepBox, HelpPopFresh, HelpScanRoot, HelpCollectHp,
     HelpScanHazard, HelpMarkTask
<1>5. ASSUME NEW a \in Agents, Marking(a) \/ PushMarked(a)
      PROVE  UNCHANGED phaseVars
  BY <1>5 DEF Marking, MarkOutgoings, MarkCas, MarkHeader, PushMarked
<1>6. CASE BeginCycle \/ EndPhaseWait \/ BeginCompletion \/ BeginNormal \/ FinishSweep
  BY <1>6 DEF BeginCycle, EndPhaseWait, BeginCompletion, BeginNormal, FinishSweep, PhasesNext
<1>7. CASE \/ TakePending \/ CollectHps \/ ScanPopFresh \/ ScanObj \/ EndScan \/ DrainTask
           \/ ConfirmFlags \/ ConfirmQueues \/ ConfirmFlagsAgain \/ SweepPopMarked \/ SweepBox
  <2>1. UNCHANGED phaseVars
    BY <1>7 DEF TakePending, CollectHps, ScanPopFresh, ScanObj, EndScan, DrainTask, ConfirmFlags,
       ConfirmQueues, ConfirmFlagsAgain, Confirm, SweepPopMarked, SweepBox
  <2> QED
    BY <2>1
<1>8. CASE UNCHANGED vars
  BY <1>8 DEF vars
<1>9. ASSUME NEW p \in Participants, MutatorStep(p)
      PROVE  [PhasesNext]_phaseVars
  BY <1>1, <1>2, <1>3, <1>9 DEF MutatorStep, Start
<1>10. CASE CollectorStep
  BY <1>6, <1>7, <1>10 DEF CollectorStep
<1> QED
  BY <1>4, <1>5, <1>8, <1>9, <1>10 DEF Next

-----------------------------------------------------------------------------
(* The first state.                                                         *)

\* The heap that a program starts with (Init) is typed, and no thread is in an
\* operation.
LEMMA InitTyped ==
  ASSUME Init
  PROVE  Typed
<1> USE HeapAssumption
<1>1. PhasesInv
  BY PhasesInitInv DEF Init
<1>2. m = [a \in Agents |-> Idle] /\ m \in [Agents -> Op]
  BY IdleOp DEF Init
<1>3. OpsOK
  BY <1>2 DEF OpsOK, OpOK, Idle
<1>4. prog \in Programs /\ DOMAIN prog.links \subseteq Objs
      /\ prog.links \in [DOMAIN prog.links -> DOMAIN prog.links \cup {Null}]
      /\ cell \in [Cells -> DOMAIN prog.links \cup {Null}]
  BY DEF Init
<1>5. link \in [Objs -> Link]
  BY <1>4 DEF Init, Link, NoLink, Color
<1>6. rc \in [Objs -> Int]
  <2> SUFFICES ASSUME NEW o \in Objs
               PROVE  Cardinality({c \in Cells : InitCells[c] = o}) \in Int
    BY DEF Init
  <2>1. IsFiniteSet({c \in Cells : InitCells[c] = o})
    BY AgentsFinite, FS_Subset
  <2> QED
    BY <2>1, FS_CardinalityType, SMTT(60), Z3T(60)
<1>7. place \in [Objs -> Places] /\ color \in [Objs -> Color]
  BY SMTT(60), Z3T(60) DEF Init, Places, Color
<1>8. HeapTypes
  <2>1. /\ held \in [Participants -> SUBSET Objs] /\ hp \in [Participants -> Objs \cup {Null}]
        /\ observed \in [Participants -> Nat] /\ ops \in Nat
        /\ tasks \in [Agents -> SUBSET Objs] /\ mtModified \in [Agents -> Nat]
        /\ hazards \in [Agents -> SUBSET Objs] /\ hazardsTs \in [Agents -> Nat]
        /\ todo \in [Agents -> SUBSET Agents] /\ stage = "none" /\ doomed = {}
    BY DEF Init
  <2> QED
    BY <1>2, <1>4, <1>5, <1>6, <1>7, <2>1 DEF HeapTypes
<1> QED
  BY <1>1, <1>3, <1>8 DEF Typed

\* The heap that a program starts with is one that the collector may find between
\* two cycles: white objects, white links and empty queues.
LEMMA InitSafe ==
  ASSUME Init, Plain
  PROVE  Safe
<1>1. /\ W = 0 /\ B = 1 /\ col = "normal" /\ ~ Tracing /\ stage = "none" /\ epoch.ts = 0
      /\ \A p \in Participants : ~ Pinned(p)
  BY SMTT(60), Z3T(60) DEF Init, PhasesInit, StartingEpoch, W, B, Flip, Tracing, Pinned
<1>2. /\ \A a \in Agents : m[a] = Idle /\ m[a].pc = "idle" /\ tasks[a] = {}
      /\ Coll \in Agents /\ \A p \in Participants : p \in Agents
  BY DEF Init, Idle, Agents
<1>3. \A p \in Participants : held[p] = {} /\ hp[p] = Null /\ observed[p] = 0
  BY DEF Init
<1>4. \A o \in Objs :
        /\ color[o] = 0
        /\ o \in DOMAIN prog.links =>
             place[o] = Fresh(0) /\ link[o].to = prog.links[o] /\ link[o].color = 0
        /\ o \notin DOMAIN prog.links => place[o] = Unborn /\ link[o] = NoLink
  BY DEF Init
<1>5. Typed
  BY InitTyped
<1>6. \A o \in Objs : Proper(o) <=> o \in DOMAIN prog.links
  <2>1. \A o \in Objs : ~ Dead(o) /\ ~ Raw(o)
    BY <1>1, <1>2, <1>4, SMTT(60), Z3T(60) DEF Dead, Raw, RawPcs
  <2>2. Fresh(0) # Unborn /\ Fresh(0) # Freed
    BY PlacesDiffer
  <2> QED
    BY <1>4, <2>1, <2>2 DEF Proper
<1>7. \A o \in Objs : ~ IsLocal(o, W) /\ ~ IsLocal(o, B)
  <2>1. \A p, c : LocalObjs(p, c) # Fresh(0) /\ LocalObjs(p, c) # Unborn
    BY PlacesDiffer, SMTT(60), Z3T(60)
  <2> QED
    BY <1>4, <2>1 DEF IsLocal
<1>8. Shape
  <2>1. Stages /\ CollOK /\ HeaderOK
    BY <1>1, <1>2 DEF Stages, CollOK, HeaderOK, MarkPcs
  <2>2. BatchOK
    BY <1>2, <1>4, PlacesDiffer DEF BatchOK, HoldsBox, MarkPcs
  <2>3. Boxes
    <3>1. /\ Unborn # Fresh(B) /\ Unborn # Marked(W) /\ Unborn # Marked(B) /\ Unborn # Fresh(W)
          /\ Fresh(0) # Fresh(1) /\ Fresh(0) # Marked(W) /\ Fresh(0) # Marked(B) /\ Fresh(0) # Unborn
      BY PlacesDiffer, SMTT(60), Z3T(60)
    <3>2. \A o \in Objs : place[o] \in {Fresh(0), Unborn}
      BY <1>4
    <3>3. \A o \in Objs : ~ InList(o, B)
      BY <1>1, <1>7, <3>1, <3>2 DEF InList
    <3> QED
      BY <1>1, <1>4, <1>7, <3>1, <3>2, <3>3 DEF Boxes, BoxOK
  <2>4. LinkColors
    BY <1>1, <1>4, <1>6 DEF LinkColors
  <2> QED
    BY <2>1, <2>2, <2>3, <2>4 DEF Shape
<1>9. Threads
  <2> SUFFICES ASSUME NEW p \in Participants
               PROVE  ThreadOK(p) /\ RawOK(p)
    BY DEF Threads
  <2>1. /\ m[p].pc = "idle" /\ ~ Pinned(p) /\ tasks[p] = {} /\ held[p] = {} /\ hp[p] = Null
        /\ observed[p] <= epoch.ts
    BY <1>1, <1>2, <1>3, SMTT(60), Z3T(60)
  <2> QED
    BY <2>1 DEF ThreadOK, RawOK, MarkPcs, RawPcs
<1>10. Refs
  <2>1. /\ prog.links \in [DOMAIN prog.links -> DOMAIN prog.links \cup {Null}]
        /\ DOMAIN prog.links \subseteq Objs
        /\ cell \in [Cells -> DOMAIN prog.links \cup {Null}]
    BY HeapAssumption DEF Init
  <2>2. ProperObjs = DOMAIN prog.links
    BY <1>6, <2>1 DEF ProperObjs
  <2>3. \A a \in Agents : ArgsOK(a)
    BY <1>2 DEF ArgsOK, LinkPcs, MarkPcs
  <2>4. \A o \in ProperObjs : link[o].to \in ProperPtrs
    BY <1>4, <2>1, <2>2 DEF ProperPtrs
  <2>5. \A c \in Cells : cell[c] \in ProperPtrs
    BY <2>1, <2>2 DEF ProperPtrs
  <2>6. \A p \in Participants : hp[p] \in ProperPtrs /\ held[p] \subseteq ProperObjs
    BY <1>3 DEF ProperPtrs
  <2> QED
    BY <1>2, <2>3, <2>4, <2>5, <2>6 DEF Refs
<1>11. CasOK /\ Tri /\ HpOK
  BY <1>1, <1>2, <1>3 DEF CasOK, Tri, HpOK, MarkPcs
<1>12. Confirming
  BY <1>1, <1>2 DEF Confirming, NoTasks
<1> QED
  BY <1>8, <1>9, <1>10, <1>11, <1>12 DEF Safe

-----------------------------------------------------------------------------
(* The invariants are inductive.                                            *)

\* For every program.
CountInv == Typed /\ RootCountExact

\* For programs without tracing helpers in which hazard pointers and sweeping
\* helpers do not mix.
SafeInv == CountInv /\ Safe

\* Every step of the threads, their help and the collector keeps the types and
\* the root counts.
LEMMA CountInvStep == CountInv /\ [Next]_vars => CountInv'
<1> SUFFICES ASSUME CountInv, [Next]_vars
             PROVE  CountInv'
  OBVIOUS
<1>1. Typed /\ RootCountExact
  BY DEF CountInv
<1>2. StepOK
  BY <1>1, NextStepOK
<1>3. [PhasesNext]_phaseVars
  BY NextPhases
<1>4. PhasesInv'
  BY <1>1, <1>3, PhasesStepInv DEF Typed
<1>5. Typed'
  BY <1>2, <1>4 DEF StepOK, Typed
<1>6. HeapTypes' /\ CountsMove
  BY <1>2 DEF StepOK
<1>7. RootCountExact'
  BY <1>1, <1>6, CountsStep
<1> QED
  BY <1>5, <1>7 DEF CountInv

\* They keep the collector's safety too.
LEMMA SafeInvStep == SafeInv /\ [Next]_vars => SafeInv'
<1> SUFFICES ASSUME SafeInv, [Next]_vars
             PROVE  SafeInv'
  OBVIOUS
<1>1. Typed /\ RootCountExact /\ Safe /\ CountInv
  BY DEF SafeInv, CountInv
<1>2. StepOK
  BY <1>1, NextStepOK
<1>3. RootsCounted
  BY <1>1, CountedRoots
<1>4. CountInv'
  BY <1>1, CountInvStep
<1> QED
  BY <1>1, <1>2, <1>3, <1>4 DEF StepOK, SafeInv

\* Types and root counts, in every behaviour.
LEMMA CountInvHolds == Spec => []CountInv
<1>1. Init => CountInv
  BY InitTyped, InitCounts DEF CountInv
<1> QED
  BY <1>1, CountInvStep, PTL DEF Spec

\* The collector's invariant, in every behaviour of the programs it is about.
LEMMA SafeInvHolds == Spec /\ Plain => []SafeInv
<1>1. Init /\ Plain => SafeInv
  BY InitTyped, InitCounts, InitSafe DEF CountInv, SafeInv
<1> QED
  BY <1>1, SafeInvStep, PTL DEF Spec

-----------------------------------------------------------------------------
(* What they say.                                                           *)

\* The root count of an object never wraps below zero, and every variable keeps
\* its type, for every program, heap and number of threads.
THEOREM TypeCorrect == Spec => []TypeOK
<1>1. ASSUME CountInv
      PROVE  TypeOK
  <2>1. HeapTypes /\ PhasesTypeOK /\ RootCountExact
    BY <1>1 DEF CountInv, Typed, PhasesInv
  <2>2. \A o \in Objs : rc[o] \in Nat
    BY <2>1, CountsPositive
  <2>3. rc \in [Objs -> Nat]
    BY <2>1, <2>2 DEF HeapTypes
  <2> QED
    BY <2>1, <2>3 DEF TypeOK, HeapTypes
<1> QED
  BY <1>1, CountInvHolds, PTL

\* A root count is the number of the cells that point to the object and of the
\* references that operations under way have counted (try_inc_raw,
\* decrement_root_count), for every program, heap and number of threads.
THEOREM RootCountsExact == Spec => []RootCountExact
<1>1. CountInv => RootCountExact
  BY DEF CountInv
<1> QED
  BY <1>1, CountInvHolds, PTL

\* The closure of S is within every set of objects that has S and what the links
\* of its members lead to.
LEMMA ClosureLeast ==
  ASSUME NEW S, NEW T \in SUBSET Objs, S \subseteq T, \A x \in T : link[x].to \in T \cup {Null}
  PROVE  Closure(S) \subseteq T
BY DEF Closure

\* The closure of S has the objects of S and what the links of its members lead to.
LEMMA ClosureCloses ==
  ASSUME NEW S, \A x \in Objs : link[x].to \in Objs \cup {Null}
  PROVE  /\ Closure(S) \in SUBSET Objs
         /\ \A o \in Objs : o \in S => o \in Closure(S)
         /\ \A x \in Closure(S) : link[x].to \in Closure(S) \cup {Null}
<1>1. Closure(S) \in SUBSET Objs /\ \A o \in Objs : o \in S => o \in Closure(S)
  BY DEF Closure
<1>2. ASSUME NEW x \in Closure(S), link[x].to # Null
      PROVE  link[x].to \in Closure(S)
  <2>1. x \in Objs /\ link[x].to \in Objs
    BY <1>1, <1>2
  <2>2. ASSUME NEW T \in SUBSET Objs, S \subseteq T, \A y \in T : link[y].to \in T \cup {Null}
        PROVE  link[x].to \in T
    <3>1. x \in T
      BY <2>2, ClosureLeast
    <3> QED
      BY <1>2, <2>2, <3>1
  <2> QED
    BY <2>1, <2>2 DEF Closure
<1> QED
  BY <1>1, <1>2

\* What the program can reach lies within T when T has its roots and what the
\* links of the members of T lead to.
LEMMA ReachableWithin ==
  ASSUME NEW T \in SUBSET Objs,
         \A c \in Cells : cell[c] \in T \cup {Null},
         \A p \in Participants : hp[p] \in T \cup {Null} /\ held[p] \subseteq T,
         \A x \in T : link[x].to \in T \cup {Null}
  PROVE  Reachable \subseteq T
<1>1. Roots \ {Null} \subseteq T
  BY DEF Roots
<1> QED
  BY <1>1, ClosureLeast DEF Reachable

\* Nothing reachable or touched is freed: references lead to proper objects, and
\* the object of an allocation is in its thread's list.
LEMMA SafeNotFreed ==
  ASSUME SafeInv
  PROVE  NoUseAfterFree
<1>1. Typed /\ Refs /\ Threads /\ Shape
  BY DEF SafeInv, CountInv, Safe
<1>2. /\ ProperObjs \in SUBSET Objs /\ Null \notin Objs /\ Objs \cap Cells = {}
      /\ \A o \in ProperObjs : place[o] # Freed
  BY HeapAssumption DEF ProperObjs, Proper
<1>3. Reachable \subseteq ProperObjs
  BY <1>1, <1>2, ReachableWithin DEF Refs, ProperPtrs
<1>4. ASSUME NEW a \in Agents, NEW o \in Touched(a)
      PROVE  place[o] # Freed
  <2>1. /\ m[a].pc \notin {"idle", "sweepBox", "scanRoot", "scanHps", "scanHazard", "toMarked", "popTask"}
        /\ o \in Objs /\ (o = m[a].obj \/ o = m[a].old.to \/ o = m[a].new)
    BY <1>4 DEF Touched
  <2>2. CASE o = m[a].old.to \/ o = m[a].new
    BY <1>1, <1>2, <2>1, <2>2 DEF Refs, ArgsOK, ProperPtrs
  <2>3. CASE o = m[a].obj /\ m[a].pc \in LinkPcs \cup MarkPcs
    BY <1>1, <1>2, <2>3 DEF Refs, ArgsOK
  <2>4. CASE o = m[a].obj /\ m[a].pc \in RawPcs
    <3>1. a \in Participants
      BY <1>1, <2>4 DEF Typed, OpsOK, OpOK, Agents, RawPcs
    <3> QED
      BY <1>1, <2>4, <3>1, PlacesDiffer, SMTT(60), Z3T(60) DEF Threads, RawOK
  <2>5. CASE o = m[a].obj /\ m[a].pc \in {"casCell", "decRoot", "shadeOld", "shade"}
    BY <1>1, <1>2, <2>1, <2>5 DEF Typed, OpsOK, OpOK
  <2>6. m[a].pc \in Pcs
    BY <1>1, OpFields DEF Typed, HeapTypes
  <2> QED
    BY <2>1, <2>2, <2>3, <2>4, <2>5, <2>6 DEF Pcs, LinkPcs, MarkPcs, RawPcs
<1> QED
  BY <1>2, <1>3, <1>4 DEF NoUseAfterFree

\* No sweep drops an object that the program can reach or that an operation under
\* way is going to look at, for every program of any number of threads, objects,
\* cells and cycles without tracing helpers in which hazard pointers and sweeping
\* helpers do not mix.
THEOREM NoUseAfterFreeHolds == Spec /\ Plain => []NoUseAfterFree
BY SafeNotFreed, SafeInvHolds, PTL

\* Whoever holds a reference at the end of a cycle is under a guard of that cycle.
LEMMA HeldKnown ==
  ASSUME Typed, Safe, col \in {"rt", "ct"}
  PROVE  /\ \A p \in Participants : \A o \in held[p] : o \in Objs /\ Known(o)
         /\ \A c \in Cells : cell[c] # Null => cell[c] \in Objs /\ Known(cell[c])
<1>1. ASSUME NEW p \in Participants, NEW o \in held[p]
      PROVE  o \in Objs /\ Known(o)
  <2>1. Pinned(p) /\ o \in Objs
    BY DEF Safe, Threads, ThreadOK, Typed, HeapTypes
  <2>2. guard[p].phase # "N"
    BY <2>1, GuardFacts DEF Typed
  <2>3. Uses(p, o)
    BY DEF Uses
  <2> QED
    BY <2>1, <2>2, <2>3 DEF Known
<1>2. ASSUME NEW c \in Cells, cell[c] # Null
      PROVE  cell[c] \in Objs /\ Known(cell[c])
  BY <1>2 DEF Typed, HeapTypes, Known
<1> QED
  BY <1>1, <1>2

\* After a confirmed completion everything reachable is black: nothing is left to
\* shade, so the invariant of the marking leaves only black objects.
LEMMA SafeMarked ==
  ASSUME SafeInv
  PROVE  MarkingComplete
<1> SUFFICES ASSUME stage = "confirmed"
             PROVE  \A o \in Reachable : color[o] = B
  BY CollColors DEF MarkingComplete, IsMarked
<1> DEFINE T == {o \in ProperObjs : color[o] = B}
<1>1. Typed /\ Safe
  BY DEF SafeInv, CountInv
<1>2. col = "ct"
  BY <1>1 DEF Safe, Shape, Stages
<1>3. AllBlack
  BY <1>1, <1>2, SettledBlack DEF Safe, Confirming
<1>4. \A p \in Participants : ~ LateHp(p)
  BY <1>1, <1>2, EpochFacts DEF Typed, LateHp
<1>5. T \in SUBSET Objs
  BY DEF ProperObjs
<1>6. \A o \in ProperObjs : Known(o) => o \in T
  BY <1>3 DEF AllBlack, ProperObjs
<1>7. \A c \in Cells : cell[c] \in T \cup {Null}
  BY <1>1, <1>2, <1>6, HeldKnown DEF Safe, Refs, ProperPtrs
<1>8. \A p \in Participants : hp[p] \in T \cup {Null}
  BY <1>1, <1>4, <1>6 DEF Safe, Refs, ProperPtrs, Known
<1>9. \A p \in Participants : held[p] \subseteq T
  BY <1>1, <1>2, <1>6, HeldKnown DEF Safe, Refs
<1>10. ASSUME NEW x \in T
       PROVE  link[x].to \in T \cup {Null}
  <2>1. x \in Objs /\ Proper(x) /\ color[x] = B
    BY DEF ProperObjs
  <2>2. link[x].color = B /\ link[x].to \in ProperPtrs
    BY <1>1, <2>1 DEF Safe, Shape, LinkColors, Refs, ProperObjs
  <2>3. Known(link[x].to)
    BY <2>1, <2>2 DEF Known
  <2> QED
    BY <1>6, <2>2, <2>3 DEF ProperPtrs
<1> HIDE DEF T
<1>11. Reachable \subseteq T
  BY <1>5, <1>7, <1>8, <1>9, <1>10, ReachableWithin
<1> QED
  BY <1>11 DEF T

\* A confirmed completion (try_confirm_completion) has marked everything that the
\* program can reach, for the same programs.
THEOREM MarkingCompleteHolds == Spec /\ Plain => []MarkingComplete
BY SafeMarked, SafeInvHolds, PTL

\* What a thread has queued, marks or is going to shade is gray.
LEMMA GrayHas ==
  ASSUME NEW a \in Agents
  PROVE  /\ tasks[a] \subseteq Gray
         /\ m[a].pc \in MarkPcs => m[a].obj \in Gray
         /\ m[a].pc \in ShadePcs => m[a].old.to \in Gray
<1>1. tasks[a] \subseteq Gray
  <2> SUFFICES ASSUME NEW o \in tasks[a]
               PROVE  o \in Gray
    OBVIOUS
  <2>1. o \in UNION {tasks[x] \cup ScannedRoot(x) : x \in Agents}
    OBVIOUS
  <2> QED
    BY <2>1 DEF Gray
<1>2. ASSUME m[a].pc \in MarkPcs
      PROVE  m[a].obj \in Gray
  <2>1. m[a].obj \in {m[b].obj : b \in {x \in Agents : m[x].pc \in
          {"mark", "markCas", "markHeader"}}}
    BY <1>2 DEF MarkPcs
  <2> QED
    BY <2>1 DEF Gray
<1>3. ASSUME m[a].pc \in ShadePcs
      PROVE  m[a].old.to \in Gray
  <2>1. m[a].old.to \in {m[b].old.to : b \in {x \in Agents : m[x].pc \in
          {"yuasa", "shadeOld", "shade", "unrootTest", "unrootShade"}}}
    BY <1>3 DEF ShadePcs
  <2> QED
    BY <2>1 DEF Gray
<1> QED
  BY <1>1, <1>2, <1>3

\* The gray objects of the invariant are gray after the scan.
LEMMA GrayAfterScan ==
  ASSUME Typed, Safe, stage \in {"drain", "confirm1", "confirm2", "confirm3", "confirmed"},
         NEW o \in Objs, GrayOrBlack(o)
  PROVE  color[o] = B \/ o \in Gray
<1>1. CASE \E a \in Agents : o \in tasks[a] \/ Marks(a, o)
  BY <1>1, GrayHas DEF Marks
<1>2. CASE \E p \in Participants : Shades(p, o)
  BY <1>2, GrayHas DEF Shades, Agents
<1>3. ~ Pending(o)
  <2>1. m[Coll].pc # "scanRoot" /\ col \in {"rt", "ct"}
    BY DEF Safe, Shape, CollOK, Stages
  <2>2. ~ InList(o, W)
    BY <2>1 DEF Safe, Shape, Stages, Boxes, BoxOK, InList
  <2>3. ~ Swept(o)
    BY <2>1 DEF Swept, Safe, Shape, CollOK, Threads, ThreadOK, Agents
  <2> QED
    BY <2>1, <2>2, <2>3 DEF Pending, Unscanned
<1> QED
  BY <1>1, <1>2, <1>3 DEF GrayOrBlack

\* From the end of the scan on, what is reachable is black or reachable from gray:
\* the black objects and those reachable from gray ones are closed.
LEMMA SafeNothingMissed ==
  ASSUME SafeInv
  PROVE  NothingMissed
<1> SUFFICES ASSUME stage \in {"drain", "confirm1", "confirm2", "confirm3", "confirmed"}
             PROVE  \A o \in Reachable : color[o] = B \/ o \in Closure(Gray \ {Null})
  BY CollColors DEF NothingMissed, IsMarked
<1> DEFINE C == Closure(Gray \ {Null})
           T0 == {o \in Objs : color[o] = B \/ o \in C}
           T == {o \in ProperObjs : o \in T0}
<1>1. Typed /\ Safe
  BY DEF SafeInv, CountInv
<1>2. col \in {"rt", "ct"} /\ Tracing
  BY <1>1 DEF Safe, Shape, Stages, Tracing
<1>3. /\ W # B /\ Null \notin Objs
      /\ \A x \in Objs : link[x].to \in Objs \cup {Null} /\ (link[x].color = W \/ link[x].color = B)
  BY <1>1, HeapAssumption, EpochFacts DEF Typed, HeapTypes, Link
<1>4. /\ C \in SUBSET Objs
      /\ \A o \in Objs : o \in Gray => o \in C
      /\ \A x \in C : link[x].to \in C \cup {Null}
  <2>1. \A o \in Objs : o \in Gray => o \in Gray \ {Null}
    BY <1>3
  <2> QED
    BY <1>3, <2>1, ClosureCloses
<1> HIDE DEF C
<1>5. Closed(T0)
  <2> SUFFICES ASSUME NEW o \in Objs, Proper(o)
               PROVE  /\ GrayOrBlack(o) => o \in T0
                      /\ o \in T0 /\ link[o].color = W => link[o].to \in T0 \cup {Null}
    BY DEF Closed
  <2>1. GrayOrBlack(o) => o \in T0
    BY <1>1, <1>4, GrayAfterScan
  <2>2. color[o] = B => link[o].color = B
    BY <1>1 DEF Safe, Shape, LinkColors
  <2> QED
    BY <1>3, <1>4, <2>1, <2>2
<1>6. \A o \in ProperObjs : Known(o) => o \in T
  BY <1>1, <1>2, <1>5 DEF Safe, Tri, ProperObjs
<1>7. T \in SUBSET Objs
  BY DEF ProperObjs
<1>8. \A c \in Cells : cell[c] \in T \cup {Null}
  BY <1>1, <1>2, <1>6, HeldKnown DEF Safe, Refs, ProperPtrs
<1>9. ASSUME NEW p \in Participants, hp[p] # Null
      PROVE  hp[p] \in T
  <2>1. hp[p] \in ProperObjs /\ hp[p] \in Objs
    BY <1>1, <1>9 DEF Safe, Refs, ProperPtrs, ProperObjs
  <2>2. CASE ~ LateHp(p)
    BY <1>6, <2>1, <2>2 DEF Known
  <2>3. CASE LateHp(p)
    <3>1. ~ HpDue(p)
      BY <1>2 DEF HpDue
    <3>2. color[hp[p]] = B \/ Marks(Coll, hp[p])
      BY <1>1, <1>9, <2>3, <3>1 DEF Safe, HpOK
    <3>3. Marks(Coll, hp[p]) => hp[p] \in Gray
      BY GrayHas DEF Marks, Agents
    <3> QED
      BY <1>4, <2>1, <3>2, <3>3
  <2> QED
    BY <2>2, <2>3
<1>10. \A p \in Participants : held[p] \subseteq T
  BY <1>1, <1>2, <1>6, HeldKnown DEF Safe, Refs
<1>11. ASSUME NEW x \in T
       PROVE  link[x].to \in T \cup {Null}
  <2>1. x \in Objs /\ Proper(x) /\ x \in T0
    BY DEF ProperObjs
  <2>2. link[x].to \in ProperPtrs
    BY <1>1, <2>1 DEF Safe, Refs, ProperObjs
  <2>3. CASE link[x].color = W
    BY <1>5, <2>1, <2>2, <2>3 DEF Closed, ProperPtrs
  <2>4. CASE link[x].color = B
    <3>1. Known(link[x].to)
      BY <2>1, <2>4 DEF Known
    <3> QED
      BY <1>6, <2>2, <3>1 DEF ProperPtrs
  <2> QED
    BY <1>3, <2>1, <2>3, <2>4
<1> HIDE DEF T
<1>12. Reachable \subseteq T
  BY <1>7, <1>8, <1>9, <1>10, <1>11, ReachableWithin
<1> QED
  BY <1>12 DEF T, C

\* From the end of the root scan to the confirmation, the barriers and the scan
\* miss nothing that the program can reach, for the same programs.
THEOREM NothingMissedHolds == Spec /\ Plain => []NothingMissed
BY SafeNothingMissed, SafeInvHolds, PTL

\* Between a confirmation and the next cycle nothing is queued or being marked.
LEMMA SafeNoTaskLeft ==
  ASSUME SafeInv
  PROVE  NoTaskLeft
<1>1. Typed /\ Safe
  BY DEF SafeInv, CountInv
<1>2. CASE stage = "confirmed"
  <2>1. col = "ct" /\ NoTasks
    BY <1>1, <1>2 DEF Safe, Shape, Stages, Confirming, Settled
  <2>2. m[Coll].pc \notin MarkPcs
    BY <1>1, <1>2 DEF Safe, Shape, CollOK
  <2>3. ASSUME NEW p \in Participants
        PROVE  m[p].pc \notin MarkPcs
    <3> SUFFICES ASSUME m[p].pc \in MarkPcs
                 PROVE  FALSE
      OBVIOUS
    <3>1. Pinned(p) /\ guard[p].phase = "RT"
      BY <1>1 DEF Typed, OpsOK, OpOK, Agents, MarkPcs, Safe, Threads, ThreadOK
    <3> QED
      BY <1>1, <2>1, <3>1, GuardFacts DEF Typed
  <2> QED
    BY <2>1, <2>2, <2>3 DEF NoTaskLeft, NoTasks, Agents, MarkPcs
<1>3. CASE col \in {"sweep", "nWait", "normal"}
  <2>1. ~ Tracing /\ NoTasks
    BY <1>1, <1>3 DEF Tracing, Safe, Confirming
  <2>2. \A a \in Agents : m[a].pc \notin MarkPcs
    BY <1>1, <2>1, MarkingTraces DEF Safe
  <2> QED
    BY <2>1, <2>2 DEF NoTaskLeft, NoTasks, MarkPcs
<1> QED
  BY <1>2, <1>3 DEF NoTaskLeft

\* From a confirmed completion to the next RT no mark task is queued or being
\* executed (the debug_assert! in next_normal), for the same programs.
THEOREM NoTaskLeftHolds == Spec /\ Plain => []NoTaskLeft
BY SafeNoTaskLeft, SafeInvHolds, PTL
=============================================================================

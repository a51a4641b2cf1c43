--------------------------- MODULE CollectorProof ---------------------------
(***************************************************************************)
(* Collector steps.                                                        *)
(***************************************************************************)
EXTENDS MutatorProof

\* The default prover; a leaf with arithmetic or records names SMT.
USE ZenonT(60)

-----------------------------------------------------------------------------
(* Steps of the collector within a phase.                                   *)

CollStep ==
  /\ Moved(Coll)
  /\ UNCHANGED <<epoch, guard, col, color, rc, link, cell, held, hp, prog, observed>>

\* What is left to show for such a step: the layout, the hazard pointers, the
\* confirmation and that what was gray stays gray.
LEMMA CollSafe ==
  ASSUME Typed, Safe, CollStep, Layout', HpOK', Confirming',
         \A o \in Objs : Proper(o)' <=> Proper(o),
         \A a \in Agents : tasks'[a] \subseteq tasks[a],
         \A p \in Participants : m[p].pc \in RawPcs => place'[m[p].obj] = place[m[p].obj],
         m'[Coll].pc \notin {"markCas", "markHeader"}, ArgsOK(Coll)',
         Tracing => \A o \in Objs : Proper(o) /\ GrayOrBlack(o) => GrayOrBlack(o)'
  PROVE  Safe'
<1>1. /\ Coll \in Agents /\ Coll \notin Participants /\ Participants \subseteq Agents
      /\ \A p \in Participants : m'[p] = m[p]
      /\ epoch' = epoch /\ guard' = guard /\ col' = col /\ color' = color /\ rc' = rc /\ link' = link
      /\ cell' = cell /\ held' = held /\ hp' = hp /\ prog' = prog /\ observed' = observed
      /\ W' = W /\ B' = B /\ (Tracing' <=> Tracing)
  BY HeapAssumption DEF CollStep, Moved, Agents, W, B, Tracing
<1>2. Shape /\ Threads /\ Refs /\ CasOK /\ Tri
  BY DEF Safe
<1>3. ProperObjs' = ProperObjs /\ ProperPtrs' = ProperPtrs
  BY DEF ProperObjs, ProperPtrs
<1>4. Shape'
  <2>1. Plain' /\ LinkColors'
    BY <1>1, <1>2 DEF Shape, Plain, LinkColors
  <2>2. HeaderOK'
    BY <1>1, <1>2 DEF Shape, HeaderOK, Agents
  <2> QED
    BY <2>1, <2>2 DEF Shape, Layout
<1>5. Threads'
  <2>1. \A p \in Participants : ThreadOK(p)'
    BY <1>1, <1>2, SMTT(60), Z3T(60) DEF Threads, ThreadOK, Pinned, Black, White, EpochOf
  <2>2. \A p \in Participants : RawOK(p)'
    BY <1>1, <1>2 DEF Threads, RawOK
  <2> QED
    BY <2>1, <2>2 DEF Threads
<1>6. Refs'
  <2>1. \A p \in Participants : ArgsOK(p)'
    BY <1>1, <1>2, <1>3 DEF Refs, ArgsOK
  <2>2. \A a \in Agents : tasks'[a] \subseteq ProperObjs' /\ ArgsOK(a)'
    BY <1>2, <1>3, <2>1 DEF Refs, Agents
  <2> QED
    BY <1>1, <1>2, <1>3, <2>2 DEF Refs
<1>7. CasOK'
  <2> SUFFICES ASSUME NEW p \in Participants, m[p].pc = "markCas", m[p].old.to # Null
               PROVE  GrayOrBlack(m[p].old.to)'
    BY <1>1 DEF CasOK, Agents
  <2>1. PICK o \in Objs : o = m[p].old.to
    BY <1>1 DEF Typed, HeapTypes, Op, Link
  <2>2. GrayOrBlack(o) /\ Proper(o)
    BY <1>1, <1>2, <2>1, HeapAssumption DEF CasOK, Refs, ArgsOK, ProperPtrs, ProperObjs
  <2>3. Tracing
    BY <1>1, <1>2, MarkingTraces DEF MarkPcs
  <2> QED
    BY <1>1, <2>1, <2>2, <2>3
<1>8. Tri'
  <2>1. \A o \in Objs : Known(o)' => Known(o)
    BY <1>1 DEF Known, Pinned, Uses, LateHp
  <2> QED
    BY <1>1, <1>2, <2>1, TriStep DEF Found
<1> QED
  BY <1>4, <1>5, <1>6, <1>7, <1>8 DEF Safe

\* The pending boxes join the fresh ones: after the wait of RT no guard fills these
\* lists.
LEMMA TakePendingStep ==
  ASSUME Typed, TakePending
  PROVE  StepOK
<1>1. /\ Coll \in Agents /\ Coll \notin Participants /\ m \in [Agents -> Op] /\ stage = "take" /\ stage' = "hps"
      /\ UNCHANGED <<epoch, guard, col, color, rc, link, cell, held, hp, prog, observed, ops, tasks,
                     mtModified, hazards, hazardsTs, m, doomed>>
  BY HeapAssumption DEF TakePending, phaseVars, rootVars, progVars, markVars, Agents, Typed, HeapTypes
<1>2. todo' \in [Agents -> SUBSET Agents] /\ todo'[Coll] = prog.threads
  <2>1. prog.threads \subseteq Participants
    BY HeapAssumption DEF Typed, HeapTypes, Roles
  <2> QED
    BY <1>1, <2>1 DEF TakePending, Agents, Typed, HeapTypes
<1>3. /\ place' \in [Objs -> Places]
      /\ \A o \in Objs : place'[o] = IF IsLocal(o, W) THEN Fresh(W) ELSE place[o]
  <2>1. Fresh(W) \in Places
    BY EpochFacts, SMTT(60), Z3T(60) DEF Places, Typed
  <2> QED
    BY <2>1 DEF TakePending, IsLocal, Typed, HeapTypes, W
<1>4. HeapTypes'
  BY <1>1, <1>2, <1>3 DEF Typed, HeapTypes
<1>5. OpsOK'
  BY <1>1 DEF Typed, OpsOK, OpOK, Pinned
<1>6. CountsMove
  BY <1>1 DEF CountsMove
<1>7. ASSUME Safe, RootsCounted
      PROVE  Safe'
  <2>1. Shape /\ Threads /\ HpOK
    BY <1>7 DEF Safe
  <2>2. /\ col = "rt" /\ Tracing /\ W' = W /\ B' = B /\ W # B /\ m[Coll].pc = "idle"
    BY <1>1, <2>1, EpochFacts DEF Shape, Stages, CollOK, Tracing, W, B, Typed, OpsOK, OpOK, MarkPcs
  <2>3. ASSUME NEW o \in Objs
        PROVE  /\ InList(o, W)' <=> InList(o, W)
               /\ InList(o, B)' <=> InList(o, B)
               /\ ~ IsLocal(o, W)'
               /\ \A x : x \in {Unborn, Freed} \cup {Marked(W), Marked(B)} \cup {Batch(a) : a \in Agents} =>
                           (place'[o] = x <=> place[o] = x)
    BY <1>3, <2>2, PlacesDiffer, SMTT(60), Z3T(60) DEF InList, IsLocal
  <2>4. \A o \in Objs : /\ Unscanned(o)' <=> Unscanned(o)
                        /\ Proper(o)' <=> Proper(o)
    BY <1>1, <2>2, <2>3 DEF Unscanned, Swept, Proper, Dead, Raw
  <2>5. Layout'
    <3>1. Stages' /\ CollOK'
      BY <1>1, <2>1, <2>2 DEF Shape, Stages, CollOK, MarkPcs
    <3>2. BatchOK'
      BY <1>1, <2>1, <2>3, SMTT(60), Z3T(60) DEF Shape, BatchOK, HoldsBox
    <3>3. Boxes'
      BY <1>1, <2>1, <2>2, <2>3 DEF Shape, Boxes, BoxOK, Tracing
    <3> QED
      BY <3>1, <3>2, <3>3 DEF Layout
  <2>6. HpOK'
    <3>1. \A p \in Participants : (hp[p] # Null /\ LateHp(p)) \/ m[p].pc \in MarkPcs =>
            hp[p] \in Objs /\ p \in prog.threads
      BY <2>1, HeapAssumption, SMTT(60), Z3T(60) DEF Threads, ThreadOK, Typed, HeapTypes, OpsOK, OpOK, MarkPcs, Agents
    <3>2. \A p \in Participants : p \in prog.threads => HpDue(p)'
      BY <1>1, <1>2 DEF HpDue
    <3>3. ASSUME NEW p \in Participants, (hp[p] # Null /\ LateHp(p)) \/ m[p].pc \in MarkPcs
          PROVE  color[hp[p]] = B \/ Marks(Coll, hp[p]) \/ (Unscanned(hp[p])' /\ HpDue(p)')
      <4>1. PICK o \in Objs : o = hp[p]
        BY <3>1, <3>3
      <4>2. color[o] = B \/ Marks(Coll, o) \/ Unscanned(o)'
        BY <2>1, <2>4, <3>3, <4>1 DEF HpOK
      <4> QED
        BY <1>1, <3>1, <3>2, <3>3, <4>1, <4>2
    <3> QED
      BY <1>1, <2>2, <3>3 DEF HpOK, LateHp, Marks
  <2>7. Confirming'
    BY <1>1, <2>2 DEF Confirming, Tracing
  <2>8. \A p \in Participants : m[p].pc \in RawPcs => place'[m[p].obj] = place[m[p].obj]
    <3> SUFFICES ASSUME NEW p \in Participants, m[p].pc \in RawPcs
                 PROVE  place'[m[p].obj] = place[m[p].obj]
      OBVIOUS
    <3>1. Pinned(p) /\ m[p].obj \in Objs
      BY DEF Typed, OpsOK, OpOK, RawPcs, Agents
    <3>2. guard[p].phase # "N"
      BY <2>2, <3>1, GuardFacts DEF Typed
    <3>3. AllocColor(guard[p]) = B
      BY <2>2, <3>1, <3>2, GuardColors DEF Typed
    <3>4. place[m[p].obj] = LocalObjs(p, B)
      BY <2>1, <3>3 DEF Threads, RawOK
    <3> QED
      BY <1>3, <2>2, <3>1, <3>4, PlacesDiffer, SMTT(60), Z3T(60) DEF IsLocal
  <2>9. \A o \in Objs : Proper(o) /\ GrayOrBlack(o) => GrayOrBlack(o)'
    BY <1>1, <2>2, <2>4 DEF GrayOrBlack, Marks, Shades, Pending
  <2>10. CollStep /\ ArgsOK(Coll)'
    BY <1>1, <2>2 DEF CollStep, Moved, ArgsOK, LinkPcs, MarkPcs
  <2> QED
    BY <1>1, <1>7, <2>2, <2>4, <2>5, <2>6, <2>7, <2>8, <2>9, <2>10, CollSafe
<1> QED
  BY <1>4, <1>5, <1>6, <1>7 DEF StepOK

\* The collector reads one hazard pointer: whoever has not yet pinned in this RT and
\* protects something unscanned is now among the collected ones.
LEMMA CollectHpsStep ==
  ASSUME Typed, CollectHps
  PROVE  StepOK
<1>1. /\ Coll \in Agents /\ Coll \notin Participants /\ m \in [Agents -> Op] /\ stage = "hps"
      /\ stage' = IF todo'[Coll] = {} THEN "scan" ELSE "hps"
      /\ UNCHANGED <<epoch, guard, col, color, rc, link, place, cell, held, hp, prog, observed, ops,
                     tasks, mtModified, hazardsTs, m, doomed>>
  BY HeapAssumption DEF CollectHps, phaseVars, objVars, rootVars, progVars, markVars, Agents, Typed, HeapTypes
<1>2. PICK q \in Participants : CollectHp(Coll, q)
  BY DEF CollectHps
<1>3. /\ todo' \in [Agents -> SUBSET Agents] /\ todo'[Coll] = todo[Coll] \ {q}
      /\ hazards' \in [Agents -> SUBSET Objs] /\ hazards'[Coll] = hazards[Coll] \cup ({hp[q]} \ {Null})
  <2>1. {hp[q]} \ {Null} \subseteq Objs
    BY DEF Typed, HeapTypes
  <2> QED
    BY <1>1, <1>2, <2>1 DEF CollectHp, Typed, HeapTypes
<1>4. HeapTypes'
  BY <1>1, <1>3 DEF Typed, HeapTypes
<1>5. OpsOK'
  BY <1>1 DEF Typed, OpsOK, OpOK, Pinned
<1>6. CountsMove
  BY <1>1 DEF CountsMove
<1>7. ASSUME Safe, RootsCounted
      PROVE  Safe'
  <2>1. Shape /\ Threads /\ HpOK
    BY <1>7 DEF Safe
  <2>2. col = "rt" /\ Tracing /\ W' = W /\ B' = B /\ m[Coll].pc = "idle"
    BY <1>1, <2>1 DEF Shape, Stages, CollOK, Tracing, W, B, Typed, OpsOK, OpOK, MarkPcs
  <2>3. \A o \in Objs : /\ Unscanned(o)' <=> Unscanned(o)
                        /\ Proper(o)' <=> Proper(o)
    BY <1>1, <2>2 DEF Unscanned, InList, IsLocal, Swept, Proper, Dead, Raw
  <2>4. Layout'
    <3>1. Stages' /\ CollOK' /\ BatchOK'
      BY <1>1, <2>1, <2>2 DEF Shape, Stages, CollOK, BatchOK, HoldsBox, MarkPcs
    <3>2. Boxes'
      BY <1>1, <2>1, <2>2 DEF Shape, Boxes, BoxOK, InList, IsLocal, Tracing
    <3> QED
      BY <3>1, <3>2 DEF Layout
  <2>5. HpOK'
    <3>1. \A p \in Participants : (hp[p] # Null /\ LateHp(p)) \/ m[p].pc \in MarkPcs => hp[p] \in Objs
      BY <2>1, HpIsObj
    <3>2. \A p \in Participants : hp[p] \in Objs /\ HpDue(p) => HpDue(p)'
      BY <1>1, <1>3, <2>2, HeapAssumption DEF HpDue
    <3>3. ASSUME NEW p \in Participants, (hp[p] # Null /\ LateHp(p)) \/ m[p].pc \in MarkPcs
          PROVE  color[hp[p]] = B \/ Marks(Coll, hp[p]) \/ (Unscanned(hp[p])' /\ HpDue(p)')
      <4>1. PICK o \in Objs : o = hp[p]
        BY <3>1, <3>3
      <4>2. color[o] = B \/ Marks(Coll, o) \/ (Unscanned(o)' /\ HpDue(p)')
        BY <2>1, <2>3, <3>2, <3>3, <4>1 DEF HpOK
      <4> QED
        BY <1>1, <4>1, <4>2
    <3> QED
      BY <1>1, <2>2, <3>3 DEF HpOK, LateHp, Marks
  <2>6. Confirming'
    BY <1>1, <2>2 DEF Confirming, Tracing
  <2>7. \A o \in Objs : GrayOrBlack(o) => GrayOrBlack(o)'
    BY <1>1, <2>2, <2>3 DEF GrayOrBlack, Marks, Shades, Pending
  <2>8. CollStep /\ ArgsOK(Coll)'
    BY <1>1, <2>2 DEF CollStep, Moved, ArgsOK, LinkPcs, MarkPcs
  <2> QED
    BY <1>1, <1>7, <2>2, <2>3, <2>4, <2>5, <2>6, <2>7, <2>8, CollSafe
<1> QED
  BY <1>4, <1>5, <1>6, <1>7 DEF StepOK

\* Only the box of o moves, to x.
Placed(o, x) ==
  /\ place' \in [Objs -> Places] /\ place'[o] = x
  /\ \A y \in Objs : y # o => place'[y] = place[y]

\* A box that the collector has popped for the scan is of a proper object.
LEMMA ScannedProper ==
  ASSUME Typed, Shape, Threads, m[Coll].pc \in {"scanRoot", "toMarked"}
  PROVE  /\ m[Coll].obj \in ProperObjs /\ place[m[Coll].obj] = Batch(Coll)
         /\ ~ Swept(m[Coll].obj) /\ ~ Raw(m[Coll].obj)
<1>1. PICK o \in Objs : o = m[Coll].obj
  BY DEF Typed, OpsOK, OpOK, Agents
<1>2. place[o] = Batch(Coll)
  BY <1>1 DEF Shape, BatchOK, HoldsBox, Agents
<1>3. ~ Swept(o)
  <2> SUFFICES ASSUME NEW a \in Agents, m[a].pc = "sweepBox", m[a].obj = o
               PROVE  FALSE
    BY DEF Swept
  <2>1. place[o] = Batch(a)
    BY DEF Shape, BatchOK, HoldsBox
  <2> QED
    BY <1>2, <2>1, PlacesDiffer
<1>4. ~ Raw(o)
  BY <1>2, PlacesDiffer, SMTT(60), Z3T(60) DEF Raw, Threads, RawOK
<1>5. Proper(o)
  BY <1>2, <1>3, <1>4, PlacesDiffer DEF Proper, Dead
<1> QED
  BY <1>1, <1>2, <1>3, <1>4, <1>5 DEF ProperObjs

\* A box popped for the scan is still unscanned.
LEMMA ScanPopFreshStep ==
  ASSUME Typed, ScanPopFresh
  PROVE  StepOK
<1>1. /\ Coll \in Agents /\ Coll \notin Participants /\ m \in [Agents -> Op] /\ stage = "scan"
      /\ m[Coll].pc = "idle"
      /\ UNCHANGED <<epoch, guard, col, color, rc, link, cell, held, hp, prog, observed, ops,
                     tasks, mtModified, hazards, hazardsTs, todo, stage, doomed>>
  BY HeapAssumption DEF ScanPopFresh, PopFresh, At, phaseVars, rootVars, progVars, markVars, scanVars,
     colVars, Agents, Typed, HeapTypes
<1>2. PICK o \in Objs : /\ place[o] = Fresh(W) /\ place' = [place EXCEPT ![o] = Batch(Coll)]
                        /\ m' = [m EXCEPT ![Coll] = [Idle EXCEPT !.pc = "scanRoot", !.obj = o]]
  BY CollColors DEF ScanPopFresh, PopFresh
<1>3. Began(Coll, "scanRoot", o, NoLink, Null, "idle")
  BY <1>1, <1>2, PopMoves
<1>4. Placed(o, Batch(Coll))
  BY <1>1, <1>2, SMTT(60), Z3T(60) DEF Placed, Places, Typed, HeapTypes
<1>5. HeapTypes'
  BY <1>1, <1>3, <1>4 DEF Typed, HeapTypes, Placed, Began, Moved
<1>6. OpsOK'
  BY <1>1, <1>3, OpsStep DEF OpOK, Began
<1>7. CountsMove
  BY <1>1, <1>3, CountsKept DEF Counting, Began
<1>8. ASSUME Safe, RootsCounted
      PROVE  Safe'
  <2>1. Shape /\ Threads /\ HpOK
    BY <1>8 DEF Safe
  <2>2. /\ col = "rt" /\ Tracing /\ W' = W /\ B' = B /\ W # B
        /\ m'[Coll].pc = "scanRoot" /\ m'[Coll].obj = o /\ m'[Coll].old.to = Null /\ m'[Coll].new = Null
        /\ \A a \in Agents : a # Coll => m'[a] = m[a]
        /\ place'[o] = Batch(Coll) /\ \A y \in Objs : y # o => place'[y] = place[y]
    BY <1>1, <1>3, <1>4, <2>1, EpochFacts, SMTT(60), Z3T(60)
    DEF Shape, Stages, Tracing, W, B, Typed, Began, Moved, Placed, NoLink
  <2>3. \A x \in Objs : (Swept(x)' <=> Swept(x)) /\ (Raw(x)' <=> Raw(x))
    BY <1>1, <2>2 DEF Swept, Raw, Agents
  <2>4. ~ Swept(o) /\ ~ Raw(o)
    <3>1. ASSUME NEW a \in Agents, m[a].pc = "sweepBox", m[a].obj = o
          PROVE  FALSE
      <4>1. place[o] = Batch(a)
        BY <2>1, <3>1 DEF Shape, BatchOK, HoldsBox
      <4> QED
        BY <1>2, <4>1, PlacesDiffer
    <3>2. ~ Raw(o)
      BY <1>2, <2>1, PlacesDiffer, SMTT(60), Z3T(60) DEF Raw, Threads, RawOK
    <3> QED
      BY <3>1, <3>2 DEF Swept
  <2>5. \A x \in Objs : Proper(x)' <=> Proper(x)
    <3>1. Proper(o)' /\ Proper(o)
      BY <1>1, <1>2, <2>2, <2>3, <2>4, PlacesDiffer, SMTT(60), Z3T(60) DEF Proper, Dead
    <3> QED
      BY <1>1, <2>2, <2>3, <3>1 DEF Proper, Dead
  <2>6. \A x \in Objs : Unscanned(x)' <=> Unscanned(x)
    BY <1>1, <1>2, <2>2, <2>3 DEF Unscanned, InList, IsLocal
  <2>7. Layout'
    <3>1. Stages' /\ CollOK'
      BY <1>1, <2>1, <2>2 DEF Shape, Stages, CollOK, MarkPcs
    <3>2. BatchOK'
      <4>1. ASSUME NEW a \in Agents, a # Coll, NEW x \in Objs
            PROVE  place'[x] = Batch(a) <=> HoldsBox(a)' /\ m'[a].obj = x
        <5>1. (place'[x] = Batch(a) <=> place[x] = Batch(a)) /\ (HoldsBox(a)' <=> HoldsBox(a))
          BY <1>2, <2>2, <4>1, PlacesDiffer, SMTT(60), Z3T(60) DEF HoldsBox
        <5>2. place[x] = Batch(a) <=> HoldsBox(a) /\ m[a].obj = x
          BY <2>1, <4>1 DEF Shape, BatchOK
        <5>3. m'[a] = m[a]
          BY <2>2, <4>1
        <5> QED
          BY <5>1, <5>2, <5>3
      <4>2. \A x \in Objs : place'[x] = Batch(Coll) <=> x = o
        <5>1. \A x \in Objs : place[x] # Batch(Coll)
          BY <1>1, <2>1 DEF Shape, BatchOK, HoldsBox, MarkPcs
        <5> QED
          BY <2>2, <5>1
      <4>3. HoldsBox(Coll)' /\ m'[Coll].obj = o
        BY <2>2 DEF HoldsBox
      <4> QED
        BY <4>1, <4>2, <4>3 DEF BatchOK
    <3>3. Boxes'
      <4>1. BoxOK(o)'
        BY <2>2, BatchOnly, SMTT(60), Z3T(60) DEF BoxOK, InList, IsLocal
      <4>2. \A x \in Objs : x # o => BoxOK(x)'
        BY <1>1, <2>1, <2>2, SMTT(60), Z3T(60) DEF Shape, Boxes, BoxOK, InList, IsLocal, Tracing
      <4> QED
        BY <4>1, <4>2 DEF Boxes
    <3> QED
      BY <3>1, <3>2, <3>3 DEF Layout
  <2>8. HpOK'
    <3>1. ASSUME NEW p \in Participants, (hp[p] # Null /\ LateHp(p)) \/ m[p].pc \in MarkPcs
          PROVE  color[hp[p]] = B \/ (Unscanned(hp[p])' /\ HpDue(p))
      <4>1. PICK x \in Objs : x = hp[p]
        BY <2>1, <3>1, HpObject
      <4>2. color[x] = B \/ Marks(Coll, x) \/ (Unscanned(x) /\ HpDue(p))
        BY <2>1, <3>1, <4>1 DEF HpOK
      <4> QED
        BY <1>1, <2>6, <4>1, <4>2 DEF Marks, MarkPcs
    <3> QED
      BY <1>1, <2>2, <3>1 DEF HpOK, LateHp, HpDue, Agents
  <2>9. Confirming'
    BY <1>1, <2>2 DEF Confirming, Tracing
  <2>10. \A x \in Objs : GrayOrBlack(x) => GrayOrBlack(x)'
    BY <1>1, <2>2, <2>6 DEF GrayOrBlack, Marks, MarkPcs, Shades, Pending, Agents
  <2>11. CollStep /\ ArgsOK(Coll)'
    BY <1>1, <1>3, <2>2 DEF CollStep, Began, ArgsOK, LinkPcs, MarkPcs, ProperPtrs
  <2>12. \A p \in Participants : m[p].pc \in RawPcs => place'[m[p].obj] = place[m[p].obj]
    BY <2>2, <2>4 DEF Raw, Typed, OpsOK, OpOK, RawPcs, Agents
  <2> QED
    BY <1>1, <1>8, <2>2, <2>5, <2>7, <2>8, <2>9, <2>10, <2>11, <2>12, CollSafe
<1> QED
  BY <1>5, <1>6, <1>7, <1>8 DEF StepOK

\* An object with a root count or under a hazard pointer is going to be marked; the
\* other ones were not pending.
LEMMA ScanObjStep ==
  ASSUME Typed, ScanObj
  PROVE  StepOK
<1>1. /\ Coll \in Agents /\ Coll \notin Participants /\ m \in [Agents -> Op]
      /\ m[Coll].pc = "scanRoot" /\ m[Coll].obj \in Objs
      /\ UNCHANGED <<epoch, guard, col, color, rc, link, place, cell, held, hp, prog, observed, ops,
                     tasks, mtModified, hazards, hazardsTs, todo, stage, doomed>>
  BY HeapAssumption DEF ScanObj, At, phaseVars, objVars, rootVars, progVars, markVars, scanVars,
     colVars, Agents, Typed, HeapTypes, OpsOK, OpOK
<1>2. PICK o \in Objs : o = m[Coll].obj
  BY <1>1
<1>3. \/ (rc[o] > 0 \/ o \in hazards[Coll]) /\ Began(Coll, "mark", o, NoLink, Null, "toMarked")
      \/ ~ (rc[o] > 0 \/ o \in hazards[Coll]) /\ Advanced(Coll, "toMarked")
  BY <1>1, <1>2, MarkOpMoves, GotoMoves DEF ScanObj, Pcs
<1>4. HeapTypes'
  BY <1>1, <1>3 DEF Typed, HeapTypes, Began, Advanced, Moved
<1>5. OpsOK'
  BY <1>1, <1>2, <1>3, OpsStep DEF OpOK, Began, Advanced
<1>6. CountsMove
  BY <1>1, <1>3, CountsKept DEF Counting, Began, Advanced
<1>7. ASSUME Safe, RootsCounted
      PROVE  Safe'
  <2>1. Shape /\ Threads /\ Refs /\ HpOK
    BY <1>7 DEF Safe
  <2>2. /\ stage = "scan" /\ col = "rt" /\ Tracing /\ W' = W /\ B' = B
        /\ \A a \in Agents : a # Coll => m'[a] = m[a]
        /\ m'[Coll].obj = o
        /\ \/ m'[Coll].pc = "mark" /\ m'[Coll].ret = "toMarked" /\ m'[Coll].old.to = Null /\ m'[Coll].new = Null
           \/ m'[Coll].pc = "toMarked" /\ m'[Coll].old.to = m[Coll].old.to /\ m'[Coll].new = m[Coll].new
        /\ rc[o] > 0 \/ o \in hazards[Coll] => m'[Coll].pc = "mark"
    BY <1>1, <1>2, <1>3, <2>1, SMTT(60), Z3T(60)
    DEF Shape, CollOK, Stages, Tracing, W, B, Typed, Began, Advanced, Moved, NoLink
  <2>3. \A x \in Objs : (Swept(x)' <=> Swept(x)) /\ (Raw(x)' <=> Raw(x))
    BY <1>1, <2>2 DEF Swept, Raw, Agents
  <2>4. \A x \in Objs : Proper(x)' <=> Proper(x)
    BY <1>1, <2>2, <2>3 DEF Proper, Dead
  <2>5. \A x \in Objs : Unscanned(x) => Unscanned(x)' \/ x = o
    BY <1>1, <1>2, <2>2, <2>3 DEF Unscanned, InList, IsLocal
  <2>6. Layout'
    <3>1. Stages' /\ CollOK'
      BY <1>1, <2>1, <2>2 DEF Shape, Stages, CollOK, MarkPcs
    <3>2. BatchOK'
      BY <1>1, <1>2, <2>1, <2>2, SMTT(60), Z3T(60) DEF Shape, BatchOK, HoldsBox, MarkPcs
    <3>3. Boxes'
      BY <1>1, <2>1, <2>2 DEF Shape, Boxes, BoxOK, InList, IsLocal, Tracing
    <3> QED
      BY <3>1, <3>2, <3>3 DEF Layout
  <2>7. HpOK'
    <3>1. ASSUME NEW p \in Participants, (hp[p] # Null /\ LateHp(p)) \/ m[p].pc \in MarkPcs
          PROVE  color[hp[p]] = B \/ Marks(Coll, hp[p])' \/ (Unscanned(hp[p])' /\ HpDue(p))
      <4>1. PICK x \in Objs : x = hp[p]
        BY <2>1, <3>1, HpObject
      <4>2. color[x] = B \/ (Unscanned(x) /\ HpDue(p))
        BY <1>1, <2>1, <3>1, <4>1 DEF HpOK, Marks, MarkPcs
      <4>3. HpDue(p) => x \in hazards[Coll]
        BY <2>2, <4>1 DEF HpDue
      <4>4. x = o /\ x \in hazards[Coll] => Marks(Coll, x)'
        BY <2>2 DEF Marks, MarkPcs
      <4> QED
        BY <1>1, <2>5, <4>1, <4>2, <4>3, <4>4 DEF Marks
    <3> QED
      BY <1>1, <2>2, <3>1 DEF HpOK, LateHp, HpDue, Agents
  <2>8. Confirming'
    BY <1>1, <2>2 DEF Confirming, Tracing
  <2>9. \A x \in Objs : GrayOrBlack(x) => GrayOrBlack(x)'
    <3>1. \A x \in Objs : Pending(x) => Pending(x)' \/ Marks(Coll, x)'
      BY <1>1, <2>2, <2>5 DEF Pending, Marks, MarkPcs
    <3> QED
      BY <1>1, <2>2, <3>1 DEF GrayOrBlack, Marks, MarkPcs, Shades, Agents
  <2>10. CollStep /\ ArgsOK(Coll)'
    <3>1. ProperObjs' = ProperObjs /\ ProperPtrs' = ProperPtrs
      BY <2>4 DEF ProperObjs, ProperPtrs
    <3>2. o \in ProperObjs
      BY <1>1, <1>2, <2>1, ScannedProper
    <3>3. ArgsOK(Coll)'
      BY <1>1, <2>1, <2>2, <3>1, <3>2 DEF Refs, ArgsOK, LinkPcs, MarkPcs, ProperPtrs
    <3> QED
      BY <1>1, <1>3, <3>3 DEF CollStep, Began, Advanced
  <2> QED
    BY <1>1, <1>7, <2>2, <2>4, <2>6, <2>7, <2>8, <2>9, <2>10, CollSafe
<1> QED
  BY <1>4, <1>5, <1>6, <1>7 DEF StepOK

\* The box goes to the marked objects once the scan of it is over.
LEMMA PushMarkedStep ==
  ASSUME Typed, NEW a \in Agents, PushMarked(a)
  PROVE  StepOK
<1>1. /\ Coll \in Agents /\ Coll \notin Participants /\ m \in [Agents -> Op]
      /\ m[a].pc = "toMarked" /\ m[a].obj \in Objs /\ (a = Coll \/ Pinned(a))
      /\ UNCHANGED <<epoch, guard, col, color, rc, link, cell, held, hp, prog, observed, ops,
                     tasks, mtModified, hazards, hazardsTs, todo, stage, doomed>>
  BY HeapAssumption DEF PushMarked, At, phaseVars, rootVars, progVars, markVars, scanVars,
     colVars, Agents, Typed, HeapTypes, OpsOK, OpOK
<1>2. PICK o \in Objs : o = m[a].obj
  BY <1>1
<1>3. Ended(a)
  BY <1>1, ReturnMoves DEF PushMarked
<1>4. Placed(o, Marked(White(a)))
  <2>1. White(a) \in Color
    BY <1>1, ColorsOf
  <2> QED
    BY <1>2, <2>1, SMTT(60), Z3T(60) DEF PushMarked, Placed, Places, Typed, HeapTypes
<1>5. HeapTypes'
  BY <1>1, <1>3, <1>4 DEF Typed, HeapTypes, Placed, Ended, Began, Moved
<1>6. OpsOK'
  BY <1>1, <1>3, OpsStep DEF OpOK, Ended, Began
<1>7. CountsMove
  BY <1>1, <1>3, CountsKept DEF Counting, Ended, Began
<1>8. ASSUME Safe, RootsCounted
      PROVE  Safe'
  <2>1. Shape /\ Threads /\ HpOK /\ a = Coll
    BY <1>1, <1>8 DEF Safe, Threads, ThreadOK, Agents
  <2>2. /\ stage = "scan" /\ col = "rt" /\ Tracing /\ W' = W /\ B' = B /\ W # B
        /\ m'[Coll].pc = "idle" /\ \A x \in Agents : x # Coll => m'[x] = m[x]
        /\ place'[o] = Marked(W) /\ \A y \in Objs : y # o => place'[y] = place[y]
    BY <1>1, <1>3, <1>4, <2>1, EpochFacts, CollColors
    DEF Shape, CollOK, Stages, Tracing, W, B, Typed, Ended, Began, Moved, Placed
  <2>3. o \in ProperObjs /\ place[o] = Batch(Coll) /\ ~ Swept(o) /\ ~ Raw(o)
    BY <1>1, <1>2, <2>1, ScannedProper
  <2>4. \A x \in Objs : (Swept(x)' <=> Swept(x)) /\ (Raw(x)' <=> Raw(x))
    BY <1>1, <2>1, <2>2 DEF Swept, Raw, Agents
  <2>5. \A x \in Objs : Proper(x)' <=> Proper(x)
    <3>1. Proper(o)' /\ Proper(o)
      BY <1>1, <2>2, <2>3, <2>4, PlacesDiffer DEF Proper, Dead, ProperObjs
    <3> QED
      BY <1>1, <2>2, <2>4, <3>1 DEF Proper, Dead
  <2>6. \A x \in Objs : Unscanned(x)' <=> Unscanned(x)
    <3>1. ~ Unscanned(o) /\ ~ Unscanned(o)'
      BY <1>1, <2>1, <2>2, <2>3, <2>4, PlacesDiffer, SMTT(60), Z3T(60) DEF Unscanned, InList, IsLocal
    <3> QED
      BY <1>1, <2>1, <2>2, <2>4, <3>1 DEF Unscanned, InList, IsLocal
  <2>7. Layout'
    <3>1. Stages' /\ CollOK'
      BY <1>1, <2>1, <2>2 DEF Shape, Stages, CollOK, MarkPcs
    <3>2. BatchOK'
      <4>1. ASSUME NEW b \in Agents, b # Coll, NEW x \in Objs
            PROVE  place'[x] = Batch(b) <=> HoldsBox(b)' /\ m'[b].obj = x
        <5>1. (place'[x] = Batch(b) <=> place[x] = Batch(b)) /\ (HoldsBox(b)' <=> HoldsBox(b))
          BY <2>2, <2>3, <4>1, PlacesDiffer DEF HoldsBox
        <5>2. place[x] = Batch(b) <=> HoldsBox(b) /\ m[b].obj = x
          BY <2>1, <4>1 DEF Shape, BatchOK
        <5>3. m'[b] = m[b]
          BY <2>2, <4>1
        <5> QED
          BY <5>1, <5>2, <5>3
      <4>2. \A x \in Objs : place'[x] # Batch(Coll)
        <5>1. \A x \in Objs : place[x] = Batch(Coll) => x = o
          BY <1>1, <1>2, <2>1 DEF Shape, BatchOK
        <5> QED
          BY <2>2, <5>1, PlacesDiffer
      <4>3. ~ HoldsBox(Coll)'
        BY <2>2 DEF HoldsBox, MarkPcs
      <4> QED
        BY <4>1, <4>2, <4>3 DEF BatchOK
    <3>3. Boxes'
      <4>1. BoxOK(o)'
        <5>1. ~ InList(o, W)' /\ ~ InList(o, B)' /\ ~ IsLocal(o, W)'
          BY <2>2, PlacesDiffer, SMTT(60), Z3T(60) DEF InList, IsLocal
        <5>2. place'[o] # Marked(B) /\ place'[o] # Fresh(W) /\ place'[o] # Unborn
          BY <2>2, PlacesDiffer
        <5> QED
          BY <1>1, <2>2, <5>1, <5>2 DEF BoxOK
      <4>2. \A x \in Objs : x # o => BoxOK(x)'
        BY <1>1, <2>1, <2>2, SMTT(60), Z3T(60) DEF Shape, Boxes, BoxOK, InList, IsLocal, Tracing
      <4> QED
        BY <4>1, <4>2 DEF Boxes
    <3> QED
      BY <3>1, <3>2, <3>3 DEF Layout
  <2>8. HpOK'
    <3>1. ASSUME NEW p \in Participants, (hp[p] # Null /\ LateHp(p)) \/ m[p].pc \in MarkPcs
          PROVE  color[hp[p]] = B \/ (Unscanned(hp[p])' /\ HpDue(p))
      <4>1. PICK x \in Objs : x = hp[p]
        BY <2>1, <3>1, HpObject
      <4>2. color[x] = B \/ Marks(Coll, x) \/ (Unscanned(x) /\ HpDue(p))
        BY <2>1, <3>1, <4>1 DEF HpOK
      <4> QED
        BY <1>1, <2>1, <2>6, <4>1, <4>2 DEF Marks, MarkPcs
    <3> QED
      BY <1>1, <2>2, <3>1 DEF HpOK, LateHp, HpDue, Agents
  <2>9. Confirming'
    BY <1>1, <2>2 DEF Confirming, Tracing
  <2>10. \A x \in Objs : GrayOrBlack(x) => GrayOrBlack(x)'
    BY <1>1, <2>1, <2>2, <2>6 DEF GrayOrBlack, Marks, MarkPcs, Shades, Pending, Agents
  <2>11. CollStep /\ ArgsOK(Coll)'
    BY <1>1, <1>3, <2>1, <2>2 DEF CollStep, Ended, Began, ArgsOK, LinkPcs, MarkPcs
  <2>12. \A p \in Participants : m[p].pc \in RawPcs => place'[m[p].obj] = place[m[p].obj]
    BY <2>2, <2>3 DEF Raw, Typed, OpsOK, OpOK, RawPcs, Agents
  <2> QED
    BY <1>1, <1>8, <2>2, <2>5, <2>7, <2>8, <2>9, <2>10, <2>11, <2>12, CollSafe
<1> QED
  BY <1>5, <1>6, <1>7, <1>8 DEF StepOK

\* No box is left to scan, so every counted or protected object is black, queued or
\* being shaded.
LEMMA EndScanStep ==
  ASSUME Typed, EndScan
  PROVE  StepOK
<1>1. /\ Coll \in Agents /\ Coll \notin Participants /\ m \in [Agents -> Op] /\ m[Coll].pc = "idle"
      /\ stage = "scan" /\ stage' = "drain" /\ hazards' \in [Agents -> SUBSET Objs]
      /\ \A o \in Objs : place[o] # Fresh(W)
      /\ UNCHANGED <<epoch, guard, col, color, rc, link, place, cell, held, hp, prog, observed, ops,
                     tasks, mtModified, hazardsTs, todo, m, doomed>>
  BY HeapAssumption DEF EndScan, At, phaseVars, objVars, rootVars, progVars, markVars,
     Agents, Typed, HeapTypes, W
<1>2. HeapTypes'
  BY <1>1 DEF Typed, HeapTypes
<1>3. OpsOK'
  BY <1>1 DEF Typed, OpsOK, OpOK, Pinned
<1>4. CountsMove
  BY <1>1 DEF CountsMove
<1>5. ASSUME Safe, RootsCounted
      PROVE  Safe'
  <2>1. Shape /\ Threads /\ HpOK
    BY <1>5 DEF Safe
  <2>2. col = "rt" /\ Tracing /\ W' = W /\ B' = B
    BY <1>1, <2>1 DEF Shape, Stages, Tracing, W, B
  <2>3. \A o \in Objs : ~ InList(o, W) /\ ~ Swept(o) /\ ~ Unscanned(o)
    BY <1>1, <2>1, <2>2 DEF Shape, Boxes, BoxOK, InList, Threads, ThreadOK, Swept, Unscanned, Agents
  <2>4. \A o \in Objs : Proper(o)' <=> Proper(o)
    BY <1>1, <2>2 DEF Proper, Dead, Swept, Raw
  <2>5. Layout'
    <3>1. Stages' /\ CollOK' /\ BatchOK'
      BY <1>1, <2>1, <2>2 DEF Shape, Stages, CollOK, BatchOK, HoldsBox, MarkPcs
    <3>2. Boxes'
      BY <1>1, <2>1, <2>2, <2>3 DEF Shape, Boxes, BoxOK, InList, IsLocal, Tracing
    <3> QED
      BY <3>1, <3>2 DEF Layout
  <2>6. HpOK'
    <3>1. ASSUME NEW p \in Participants, (hp[p] # Null /\ LateHp(p)) \/ m[p].pc \in MarkPcs
          PROVE  color[hp[p]] = B
      <4>1. PICK x \in Objs : x = hp[p]
        BY <2>1, <3>1, HpObject
      <4> QED
        BY <1>1, <2>1, <2>3, <3>1, <4>1 DEF HpOK, Marks, MarkPcs
    <3> QED
      BY <1>1, <2>2, <3>1 DEF HpOK, LateHp
  <2>7. Confirming'
    BY <1>1, <2>2 DEF Confirming, Tracing
  <2>8. \A o \in Objs : GrayOrBlack(o) => GrayOrBlack(o)'
    BY <1>1, <2>2, <2>3 DEF GrayOrBlack, Marks, Shades, Pending
  <2>9. CollStep /\ ArgsOK(Coll)'
    BY <1>1, <2>2 DEF CollStep, Moved, ArgsOK, LinkPcs, MarkPcs
  <2> QED
    BY <1>1, <1>5, <2>2, <2>4, <2>5, <2>6, <2>7, <2>8, <2>9, CollSafe
<1> QED
  BY <1>2, <1>3, <1>4, <1>5 DEF StepOK

\* A task taken off a queue is being marked by the collector, or was black.
LEMMA DrainTaskStep ==
  ASSUME Typed, DrainTask
  PROVE  StepOK
<1>1. /\ Coll \in Agents /\ Coll \notin Participants /\ m \in [Agents -> Op] /\ m[Coll].pc = "idle"
      /\ stage = "drain"
      /\ UNCHANGED <<epoch, guard, col, color, rc, link, place, cell, held, hp, prog, observed, ops,
                     mtModified, hazards, hazardsTs, todo, stage, doomed>>
  BY HeapAssumption DEF DrainTask, At, phaseVars, objVars, rootVars, progVars, scanVars, colVars,
     Agents, Typed, HeapTypes
<1>2. PICK a \in Agents : \E o \in tasks[a] :
        /\ tasks' = [tasks EXCEPT ![a] = @ \ {o}]
        /\ m' = IF IsMarked(Coll, o) THEN m ELSE [m EXCEPT ![Coll] = MarkOp(o, "idle")]
  BY DEF DrainTask
<1>3. PICK o \in Objs : /\ o \in tasks[a] /\ tasks' = [tasks EXCEPT ![a] = @ \ {o}]
                        /\ m' = IF IsMarked(Coll, o) THEN m ELSE [m EXCEPT ![Coll] = MarkOp(o, "idle")]
  BY <1>2 DEF Typed, HeapTypes
<1>4. \/ color[o] = B /\ m' = m
      \/ color[o] # B /\ Began(Coll, "mark", o, NoLink, Null, "idle")
  BY <1>1, <1>3, MarkOpMoves, CollColors DEF IsMarked
<1>5. /\ tasks' \in [Agents -> SUBSET Objs] /\ tasks'[a] = tasks[a] \ {o}
      /\ \A x \in Agents : x # a => tasks'[x] = tasks[x]
  BY <1>3 DEF Typed, HeapTypes
<1>6. HeapTypes'
  BY <1>1, <1>4, <1>5 DEF Typed, HeapTypes, Began, Moved
<1>7. OpsOK'
  <2>1. Moved(Coll) /\ OpOK(Coll)'
    BY <1>1, <1>3, <1>4 DEF OpOK, Began, Moved
  <2> QED
    BY <1>1, <2>1, OpsStep
<1>8. CountsMove
  BY <1>1, <1>4, CountsKept DEF CountsMove, Counting, Began
<1>9. ASSUME Safe, RootsCounted
      PROVE  Safe'
  <2>1. Shape /\ Threads /\ Refs /\ HpOK
    BY <1>9 DEF Safe
  <2>2. /\ col \in {"rt", "ct"} /\ Tracing /\ W' = W /\ B' = B /\ o \in ProperObjs
        /\ \A x \in Agents : x # Coll => m'[x] = m[x]
        /\ \/ color[o] = B /\ m'[Coll] = m[Coll]
           \/ /\ m'[Coll].pc = "mark" /\ m'[Coll].obj = o /\ m'[Coll].ret = "idle"
              /\ m'[Coll].old.to = Null /\ m'[Coll].new = Null
    BY <1>1, <1>3, <1>4, <2>1, SMTT(60), Z3T(60) DEF Shape, Stages, Tracing, W, B, Refs, Began, Moved, NoLink
  <2>3. \A x \in Objs : /\ Swept(x)' <=> Swept(x)
                        /\ Raw(x)' <=> Raw(x)
                        /\ Unscanned(x)' <=> Unscanned(x)
    BY <1>1, <2>2 DEF Swept, Raw, Unscanned, InList, IsLocal, Agents
  <2>4. \A x \in Objs : Proper(x)' <=> Proper(x)
    BY <1>1, <2>2, <2>3 DEF Proper, Dead
  <2>5. Layout'
    <3>1. Stages' /\ CollOK'
      BY <1>1, <2>1, <2>2 DEF Shape, Stages, CollOK, MarkPcs
    <3>2. BatchOK'
      BY <1>1, <2>1, <2>2, SMTT(60), Z3T(60) DEF Shape, BatchOK, HoldsBox, MarkPcs
    <3>3. Boxes'
      BY <1>1, <2>1, <2>2 DEF Shape, Boxes, BoxOK, InList, IsLocal, Tracing
    <3> QED
      BY <3>1, <3>2, <3>3 DEF Layout
  <2>6. HpOK'
    <3>1. ASSUME NEW p \in Participants, (hp[p] # Null /\ LateHp(p)) \/ m[p].pc \in MarkPcs
          PROVE  color[hp[p]] = B
      BY <1>1, <2>1, <2>2, <3>1 DEF HpOK, Marks, MarkPcs, HpDue
    <3> QED
      BY <1>1, <2>2, <3>1 DEF HpOK, LateHp, Agents
  <2>7. Confirming'
    BY <1>1, <2>2 DEF Confirming, Tracing
  <2>8. \A x \in Objs : GrayOrBlack(x) => GrayOrBlack(x)'
    <3>1. \A x \in Objs : Pending(x)' <=> Pending(x)
      BY <1>1, <2>2, <2>3 DEF Pending
    <3>2. color[o] = B \/ Marks(Coll, o)'
      BY <2>2 DEF Marks, MarkPcs
    <3>3. \A x \in Agents, y \in Objs : Marks(x, y) => Marks(x, y)'
      BY <1>1, <2>2 DEF Marks, MarkPcs
    <3>4. \A x \in Participants, y \in Objs : Shades(x, y) => Shades(x, y)'
      BY <1>1, <2>2 DEF Shades, Agents
    <3> QED
      BY <1>1, <1>5, <2>2, <3>1, <3>2, <3>3, <3>4 DEF GrayOrBlack
  <2>9. CollStep /\ ArgsOK(Coll)'
    <3>1. ProperObjs' = ProperObjs /\ ProperPtrs' = ProperPtrs
      BY <2>4 DEF ProperObjs, ProperPtrs
    <3>2. ArgsOK(Coll)'
      BY <1>1, <2>2, <3>1 DEF ArgsOK, LinkPcs, MarkPcs, ProperPtrs
    <3> QED
      BY <1>1, <1>4, <3>2 DEF CollStep, Began, Moved
  <2>10. \A x \in Agents : tasks'[x] \subseteq tasks[x]
    BY <1>5
  <2> QED
    BY <1>1, <1>9, <2>2, <2>4, <2>5, <2>6, <2>7, <2>8, <2>9, <2>10, CollSafe
<1> QED
  BY <1>6, <1>7, <1>8, <1>9 DEF StepOK

\* A loop of try_confirm_completion visits the entry a.
Visited(from, to, a, refutes) ==
  /\ stage = from /\ a \in todo[Coll]
  /\ \/ refutes /\ stage' = "drain"
     \/ ~ refutes /\ todo[Coll] \subseteq {a} /\ stage' = to
        /\ (to \in {"confirm2", "confirm3"} => todo'[Coll] = Entries)
     \/ ~ refutes /\ stage' = from /\ todo'[Coll] = todo[Coll] \ {a}
  /\ todo' \in [Agents -> SUBSET Agents]
  /\ UNCHANGED <<epoch, guard, col, color, rc, link, place, cell, held, hp, prog, observed, ops,
                 tasks, mtModified, hazards, hazardsTs, m, doomed>>

\* One turn of a loop of try_confirm_completion visits one entry.
LEMMA ConfirmEffect ==
  ASSUME Typed, NEW from, NEW to, NEW R, Confirm(from, to, R),
         <<from, to>> \in {<<"confirm1", "confirm2">>, <<"confirm2", "confirm3">>, <<"confirm3", "confirmed">>}
  PROVE  \E a \in Agents : Visited(from, to, a, a \in R)
<1>1. PICK a \in todo[Coll] :
        LET left == IF a \in R THEN {} ELSE todo[Coll] \ {a} IN
        /\ stage' = CASE a \in R                 -> "drain"
                      [] a \notin R /\ left = {} -> to
                      [] OTHER                   -> from
        /\ todo' = [todo EXCEPT ![Coll] =
                      IF stage' \in {"confirm2", "confirm3"} \ {from} THEN Entries ELSE left]
  BY DEF Confirm
<1>2. Coll \in Agents /\ todo[Coll] \subseteq Agents /\ Entries \subseteq Agents
  BY HeapAssumption DEF Agents, Entries, Typed, HeapTypes, Roles
<1>3. /\ stage = from
      /\ UNCHANGED <<epoch, guard, col, color, rc, link, place, cell, held, hp, prog, observed, ops,
                     tasks, mtModified, hazards, hazardsTs, m, doomed>>
  BY DEF Confirm, phaseVars, objVars, rootVars, progVars, markVars
<1>4. CASE a \in R
  <2>1. stage' = "drain" /\ todo' = [todo EXCEPT ![Coll] = {}]
    BY <1>1, <1>4
  <2>2. todo' \in [Agents -> SUBSET Agents]
    BY <2>1 DEF Typed, HeapTypes
  <2> QED
    BY <1>2, <1>3, <1>4, <2>1, <2>2 DEF Visited
<1>5. CASE a \notin R /\ todo[Coll] \ {a} = {}
  <2>1. stage' = to /\ todo' = [todo EXCEPT ![Coll] =
                                 IF to \in {"confirm2", "confirm3"} \ {from} THEN Entries ELSE {}]
    BY <1>1, <1>5
  <2>2. todo' \in [Agents -> SUBSET Agents] /\ (to \in {"confirm2", "confirm3"} => todo'[Coll] = Entries)
    BY <1>2, <2>1 DEF Typed, HeapTypes
  <2> QED
    BY <1>2, <1>3, <1>5, <2>1, <2>2 DEF Visited
<1>6. CASE a \notin R /\ todo[Coll] \ {a} # {}
  <2>1. stage' = from /\ todo' = [todo EXCEPT ![Coll] = todo[Coll] \ {a}]
    BY <1>1, <1>6
  <2>2. todo' \in [Agents -> SUBSET Agents] /\ todo'[Coll] = todo[Coll] \ {a}
    BY <1>2, <2>1 DEF Typed, HeapTypes
  <2> QED
    BY <1>2, <1>3, <1>6, <2>1, <2>2 DEF Visited
<1> QED
  BY <1>4, <1>5, <1>6

\* What is left to show for such a visit: the state of the confirmation.
LEMMA VisitedStep ==
  ASSUME Typed, NEW from, NEW to, NEW a \in Agents, NEW refutes, Visited(from, to, a, refutes),
         <<from, to>> \in {<<"confirm1", "confirm2">>, <<"confirm2", "confirm3">>, <<"confirm3", "confirmed">>},
         Safe => Confirming'
  PROVE  StepOK
<1>1. /\ stage \in {"confirm1", "confirm2", "confirm3"}
      /\ stage' \in {"drain", "confirm1", "confirm2", "confirm3", "confirmed"}
      /\ todo' \in [Agents -> SUBSET Agents] /\ m \in [Agents -> Op] /\ Coll \in Agents
      /\ UNCHANGED <<epoch, guard, col, color, rc, link, place, cell, held, hp, prog, observed, ops,
                     tasks, mtModified, hazards, hazardsTs, m, doomed>>
  BY DEF Visited, Agents, Typed, HeapTypes
<1>2. HeapTypes'
  BY <1>1 DEF Typed, HeapTypes
<1>3. OpsOK'
  BY <1>1 DEF Typed, OpsOK, OpOK, Pinned
<1>4. CountsMove
  BY <1>1 DEF CountsMove
<1>5. ASSUME Safe, RootsCounted
      PROVE  Safe'
  <2>1. Shape /\ Threads /\ HpOK
    BY <1>5 DEF Safe
  <2>2. col = "ct" /\ Tracing /\ W' = W /\ B' = B /\ m[Coll].pc = "idle"
    BY <1>1, <2>1 DEF Shape, Stages, CollOK, Tracing, W, B, Typed, OpsOK, OpOK, MarkPcs
  <2>3. \A o \in Objs : /\ Unscanned(o)' <=> Unscanned(o)
                        /\ Proper(o)' <=> Proper(o)
    BY <1>1, <2>2 DEF Unscanned, InList, IsLocal, Swept, Proper, Dead, Raw
  <2>4. Layout'
    <3>1. Stages' /\ CollOK' /\ BatchOK'
      BY <1>1, <2>1, <2>2 DEF Shape, Stages, CollOK, BatchOK, HoldsBox, MarkPcs
    <3>2. Boxes'
      BY <1>1, <2>1, <2>2 DEF Shape, Boxes, BoxOK, InList, IsLocal, Tracing
    <3> QED
      BY <3>1, <3>2 DEF Layout
  <2>5. HpOK'
    <3>1. ASSUME NEW p \in Participants, (hp[p] # Null /\ LateHp(p)) \/ m[p].pc \in MarkPcs
          PROVE  color[hp[p]] = B
      BY <1>1, <2>1, <2>2, <3>1 DEF HpOK, Marks, MarkPcs, HpDue
    <3> QED
      BY <1>1, <2>2, <3>1 DEF HpOK, LateHp
  <2>6. \A o \in Objs : GrayOrBlack(o) => GrayOrBlack(o)'
    BY <1>1, <2>2, <2>3 DEF GrayOrBlack, Marks, Shades, Pending
  <2>7. CollStep /\ ArgsOK(Coll)'
    BY <1>1, <2>2 DEF CollStep, Moved, ArgsOK, LinkPcs, MarkPcs
  <2> QED
    BY <1>1, <1>5, <2>2, <2>3, <2>4, <2>5, <2>6, <2>7, CollSafe
<1> QED
  BY <1>2, <1>3, <1>4, <1>5 DEF StepOK

\* The first loop over the flags.
LEMMA ConfirmFlagsStep ==
  ASSUME Typed, ConfirmFlags
  PROVE  StepOK
<1>1. PICK R : R = Modified
  OBVIOUS
<1>2. PICK a \in Agents : Visited("confirm1", "confirm2", a, a \in R)
  BY <1>1, ConfirmEffect DEF ConfirmFlags
<1>3. ASSUME Safe
      PROVE  Confirming'
  <2>1. /\ stage = "confirm1" /\ col = "ct" /\ Tracing' /\ col' = "ct" /\ Coll \in Agents
        /\ tasks' = tasks /\ m' = m /\ color' = color /\ W' = W
        /\ stage' \in {"drain", "confirm1"} \/ (stage' = "confirm2" /\ todo'[Coll] = Entries)
    BY <1>2, <1>3 DEF Safe, Shape, Stages, Visited, Tracing, W, Agents
  <2>2. ~ NoTasks => \E x \in Entries : tasks[x] # {}
    BY <1>3 DEF Safe, NoTasks, Threads, ThreadOK, Entries, Agents
  <2>3. Settled' <=> Settled
    BY <2>1 DEF Settled, NoTasks, ShadesWhite
  <2>4. ~ NoTasks \/ Settled
    BY <1>3, <2>1 DEF Safe, Confirming
  <2> QED
    BY <2>1, <2>2, <2>3, <2>4 DEF Confirming, NoTasks
<1> QED
  BY <1>2, <1>3, VisitedStep

\* The loop over the queues: the entries already visited were empty, and stay so
\* unless somebody still shades.
LEMMA ConfirmQueuesStep ==
  ASSUME Typed, ConfirmQueues
  PROVE  StepOK
<1>1. PICK R : R = HasTasks
  OBVIOUS
<1>2. PICK a \in Agents : Visited("confirm2", "confirm3", a, a \in R)
  BY <1>1, ConfirmEffect DEF ConfirmQueues
<1>3. ASSUME Safe
      PROVE  Confirming'
  <2>1. /\ stage = "confirm2" /\ col = "ct" /\ Tracing' /\ col' = "ct"
        /\ tasks' = tasks /\ m' = m /\ color' = color /\ W' = W
        /\ \/ stage' = "drain"
           \/ stage' = "confirm2" /\ todo'[Coll] = todo[Coll] \ {a} /\ tasks[a] = {}
           \/ stage' = "confirm3" /\ todo[Coll] \subseteq {a} /\ tasks[a] = {}
    BY <1>1, <1>2, <1>3 DEF Safe, Shape, Stages, Visited, Tracing, W, HasTasks
  <2>2. Settled' <=> Settled
    BY <2>1 DEF Settled, NoTasks, ShadesWhite
  <2>3. (\E x \in todo[Coll] : tasks[x] # {}) \/ Settled
    BY <1>3, <2>1 DEF Safe, Confirming
  <2> QED
    BY <2>1, <2>2, <2>3 DEF Confirming
<1> QED
  BY <1>2, <1>3, VisitedStep

\* The second loop over the flags.
LEMMA ConfirmFlagsAgainStep ==
  ASSUME Typed, ConfirmFlagsAgain
  PROVE  StepOK
<1>1. PICK R : R = Modified
  OBVIOUS
<1>2. PICK a \in Agents : Visited("confirm3", "confirmed", a, a \in R)
  BY <1>1, ConfirmEffect DEF ConfirmFlagsAgain
<1>3. ASSUME Safe
      PROVE  Confirming'
  <2>1. /\ stage = "confirm3" /\ col = "ct" /\ Tracing' /\ col' = "ct"
        /\ tasks' = tasks /\ m' = m /\ color' = color /\ W' = W
        /\ stage' \in {"drain", "confirm3", "confirmed"}
    BY <1>2, <1>3 DEF Safe, Shape, Stages, Visited, Tracing, W
  <2>2. Settled' <=> Settled
    BY <2>1 DEF Settled, NoTasks, ShadesWhite
  <2> QED
    BY <1>3, <2>1, <2>2 DEF Safe, Confirming
<1> QED
  BY <1>2, <1>3, VisitedStep

-----------------------------------------------------------------------------
(* Sweeping, by the collector and by helpers.                               *)

\* A box popped from the marked objects.
LEMMA PopFrame ==
  ASSUME Typed, Shape, Threads, NEW a \in Agents, NEW o \in Objs, m[a].pc = "idle", place[o] = Marked(B),
         Placed(o, Batch(a)), Began(a, "sweepBox", o, NoLink, Null, "idle"),
         UNCHANGED <<epoch, col, color, link, stage>>
  PROVE  /\ col = "sweep" /\ Layout'
         /\ \A x \in Objs : Proper(x)' <=> Proper(x)
         /\ \A p \in Participants : m[p].pc \in RawPcs => place'[m[p].obj] = place[m[p].obj]
<1>1. /\ col = "sweep" /\ stage = "none" /\ ~ Tracing /\ W' = W /\ B' = B /\ (Tracing' <=> Tracing)
      /\ m'[a].pc = "sweepBox" /\ m'[a].obj = o /\ \A x \in Agents : x # a => m'[x] = m[x]
      /\ place'[o] = Batch(a) /\ \A y \in Objs : y # o => place'[y] = place[y]
      /\ color' = color /\ link' = link /\ stage' = stage /\ col' = col
  BY DEF Shape, Boxes, BoxOK, Stages, Tracing, W, B, Began, Moved, Placed, Typed, HeapTypes
<1>2. ~ Swept(o) /\ ~ Raw(o)
  <2>1. ASSUME NEW b \in Agents, m[b].pc = "sweepBox", m[b].obj = o
        PROVE  FALSE
    <3>1. place[o] = Batch(b)
      BY <2>1 DEF Shape, BatchOK, HoldsBox
    <3> QED
      BY <3>1, PlacesDiffer
  <2>2. ~ Raw(o)
    BY PlacesDiffer, SMTT(60), Z3T(60) DEF Raw, Threads, RawOK
  <2> QED
    BY <2>1, <2>2 DEF Swept
<1>3. \A x \in Objs : (Raw(x)' <=> Raw(x)) /\ (Swept(x)' <=> Swept(x) \/ x = o)
  BY <1>1 DEF Raw, RawPcs, Swept, Agents
<1>4. \A x \in Objs : Proper(x)' <=> Proper(x)
  <2>1. Proper(o)' <=> Proper(o)
    BY <1>1, <1>2, <1>3, PlacesDiffer DEF Proper, Dead
  <2> QED
    BY <1>1, <1>3, <2>1 DEF Proper, Dead
<1>5. Layout'
  <2>1. Stages' /\ CollOK'
    BY <1>1 DEF Shape, Stages, CollOK, MarkPcs, Agents
  <2>2. BatchOK'
    <3>1. ASSUME NEW b \in Agents, b # a, NEW x \in Objs
          PROVE  place'[x] = Batch(b) <=> HoldsBox(b)' /\ m'[b].obj = x
      <4>1. (place'[x] = Batch(b) <=> place[x] = Batch(b)) /\ (HoldsBox(b)' <=> HoldsBox(b))
        BY <1>1, <3>1, PlacesDiffer, SMTT(60), Z3T(60) DEF HoldsBox
      <4>2. place[x] = Batch(b) <=> HoldsBox(b) /\ m[b].obj = x
        BY <3>1 DEF Shape, BatchOK
      <4>3. m'[b] = m[b]
        BY <1>1, <3>1
      <4> QED
        BY <4>1, <4>2, <4>3
    <3>2. \A x \in Objs : place'[x] = Batch(a) <=> x = o
      <4>1. \A x \in Objs : place[x] # Batch(a)
        BY DEF Shape, BatchOK, HoldsBox, MarkPcs
      <4> QED
        BY <1>1, <4>1
    <3>3. HoldsBox(a)' /\ m'[a].obj = o
      BY <1>1 DEF HoldsBox
    <3> QED
      BY <3>1, <3>2, <3>3 DEF BatchOK
  <2>3. Boxes'
    <3>1. BoxOK(o)'
      BY <1>1, PlacesDiffer, SMTT(60), Z3T(60) DEF BoxOK, InList, IsLocal
    <3>2. \A x \in Objs : x # o => BoxOK(x)'
      BY <1>1 DEF Shape, Boxes, BoxOK, InList, IsLocal
    <3> QED
      BY <3>1, <3>2 DEF Boxes
  <2> QED
    BY <2>1, <2>2, <2>3 DEF Layout
<1>6. \A p \in Participants : m[p].pc \in RawPcs => place'[m[p].obj] = place[m[p].obj]
  BY <1>1, <1>2 DEF Raw, Typed, OpsOK, OpOK, RawPcs, Agents
<1> QED
  BY <1>1, <1>4, <1>5, <1>6

\* A survivor goes to a list of fresh objects, perhaps with a flush of that list; the
\* others are dropped.
Swept1(a, o) ==
  /\ place' \in [Objs -> Places]
  /\ color[o] = B => place'[o] = Freed
  /\ color[o] # B => place'[o] = Fresh(W) \/ (a \in Participants /\ place'[o] = LocalObjs(a, W))
  /\ \A x \in Objs : x # o =>
       \/ place'[x] = place[x]
       \/ a \in Participants /\ place[x] = LocalObjs(a, W) /\ place'[x] = Fresh(W)

\* A swept box leaves the doomed objects or becomes a survivor of the next cycle.
LEMMA SweepFrame ==
  ASSUME Typed, Shape, Threads, NEW a \in Agents, m[a].pc = "sweepBox", Swept1(a, m[a].obj), Ended(a),
         UNCHANGED <<epoch, col, color, link, stage>>
  PROVE  /\ Layout'
         /\ \A x \in Objs : (Proper(x)' <=> Proper(x)) /\ (Proper(x) /\ Unscanned(x) => Unscanned(x)')
         /\ \A p \in Participants : m[p].pc \in RawPcs => place'[m[p].obj] = place[m[p].obj]
<1>1. PICK o \in Objs : o = m[a].obj
  BY DEF Typed, OpsOK, OpOK
<1>2. /\ col \in {"sweep", "nWait", "normal", "rtWait"} /\ stage = "none" /\ W' = W /\ B' = B
      /\ (Tracing' <=> Tracing) /\ W # B
      /\ m'[a].pc = "idle" /\ \A x \in Agents : x # a => m'[x] = m[x]
      /\ color' = color /\ link' = link /\ stage' = stage /\ col' = col
  BY EpochFacts DEF Shape, CollOK, Threads, ThreadOK, Agents, Stages, Tracing, W, B, Ended, Began, Moved,
     Typed, HeapTypes
<1>3. /\ color[o] = B => place'[o] = Freed
      /\ color[o] # B => color[o] = W /\ (place'[o] = Fresh(W) \/ (a \in Participants /\ place'[o] = LocalObjs(a, W)))
      /\ \A x \in Objs : x # o => \/ place'[x] = place[x]
                                  \/ a \in Participants /\ place[x] = LocalObjs(a, W) /\ place'[x] = Fresh(W)
  BY <1>1, EpochFacts DEF Swept1, Typed, HeapTypes
<1>4. place[o] = Batch(a) /\ Swept(o) /\ ~ Raw(o)
  <2>1. place[o] = Batch(a)
    BY <1>1 DEF Shape, BatchOK, HoldsBox
  <2> QED
    BY <1>1, <2>1, PlacesDiffer, SMTT(60), Z3T(60) DEF Swept, Raw, Threads, RawOK
<1>5. \A x \in Objs : (Raw(x)' <=> Raw(x)) /\ (x # o => (Swept(x)' <=> Swept(x)))
  BY <1>1, <1>2 DEF Raw, RawPcs, Swept, Agents
<1>6. ~ Swept(o)'
  <2> SUFFICES ASSUME NEW b \in Agents, m'[b].pc = "sweepBox", m'[b].obj = o
               PROVE  FALSE
    BY DEF Swept
  <2>1. b # a /\ m[b].pc = "sweepBox" /\ m[b].obj = o
    BY <1>2
  <2>2. place[o] = Batch(b)
    BY <2>1 DEF Shape, BatchOK, HoldsBox
  <2> QED
    BY <1>4, <2>1, <2>2, PlacesDiffer
<1>7. \A x \in Objs : x # o =>
        /\ \A y \in {Unborn, Freed, Marked(W), Marked(B)} \cup {Batch(b) : b \in Agents} : place'[x] = y <=> place[x] = y
        /\ InList(x, W)' <=> InList(x, W)
        /\ InList(x, B)' <=> InList(x, B)
        /\ IsLocal(x, W)' => IsLocal(x, W)
        /\ place'[x] = Fresh(W) => InList(x, W)
  BY <1>2, <1>3, PlacesDiffer, SMTT(60), Z3T(60) DEF InList, IsLocal
<1>8. /\ place'[o] # Unborn /\ (\A d : place'[o] # Marked(d)) /\ (\A b : place'[o] # Batch(b))
      /\ (\A d : place'[o] = Fresh(d) => d = W) /\ (\A q, d : place'[o] = LocalObjs(q, d) => d = W)
  <2>1. CASE place'[o] = Freed
    BY <2>1, FreedOnly
  <2>2. CASE place'[o] = Fresh(W)
    BY <2>2, FreshOnly, SMTT(60), Z3T(60)
  <2>3. CASE place'[o] = LocalObjs(a, W)
    BY <2>3, LocalOnly, SMTT(60), Z3T(60)
  <2> QED
    BY <1>3, <2>1, <2>2, <2>3
<1>9. \A x \in Objs : (Proper(x)' <=> Proper(x)) /\ (Proper(x) /\ Unscanned(x) => Unscanned(x)')
  <2>1. Proper(o)' <=> Proper(o)
    <3>1. place[o] # Unborn /\ place[o] # Freed /\ place[o] # Marked(B)
      BY <1>4, BatchOnly
    <3>2. CASE color[o] = B
      BY <1>2, <1>3, <1>4, <3>1, <3>2 DEF Proper, Dead
    <3>3. CASE color[o] # B
      <4>1. place'[o] # Freed
        BY <1>3, <3>3, FreedOnly
      <4> QED
        BY <1>2, <1>4, <1>5, <1>8, <3>1, <3>3, <4>1 DEF Proper, Dead
    <3> QED
      BY <3>2, <3>3
  <2>2. \A x \in Objs : x # o => (Proper(x)' <=> Proper(x))
    BY <1>2, <1>5, <1>7 DEF Proper, Dead
  <2>3. Proper(o) => color[o] # B
    BY <1>4 DEF Proper, Dead
  <2>4. Proper(o) => Unscanned(o)'
    BY <1>3, <2>3, <1>2 DEF Unscanned, InList, IsLocal
  <2>5. m[Coll].pc # "scanRoot"
    BY <1>2 DEF Shape, CollOK
  <2>6. \A x \in Objs : x # o => (Unscanned(x) => Unscanned(x)')
    BY <1>5, <1>7, <2>5 DEF Unscanned
  <2> QED
    BY <2>1, <2>2, <2>4, <2>6
<1>10. Layout'
  <2>1. Stages' /\ CollOK'
    BY <1>2 DEF Shape, Stages, CollOK, MarkPcs, Agents
  <2>2. BatchOK'
    <3>1. ASSUME NEW b \in Agents, b # a, NEW x \in Objs
          PROVE  place'[x] = Batch(b) <=> HoldsBox(b)' /\ m'[b].obj = x
      <4>1. place'[x] = Batch(b) <=> place[x] = Batch(b)
        <5>1. CASE x = o
          <6>1. place[o] # Batch(b)
            BY <1>4, <3>1, BatchOnly
          <6> QED
            BY <1>8, <5>1, <6>1
        <5>2. CASE x # o
          BY <1>7, <3>1, <5>2
        <5> QED
          BY <5>1, <5>2
      <4>2. HoldsBox(b)' <=> HoldsBox(b)
        BY <1>2, <3>1 DEF HoldsBox
      <4>3. place[x] = Batch(b) <=> HoldsBox(b) /\ m[b].obj = x
        BY <3>1 DEF Shape, BatchOK
      <4>4. m'[b] = m[b]
        BY <1>2, <3>1
      <4> QED
        BY <4>1, <4>2, <4>3, <4>4
    <3>2. \A x \in Objs : place'[x] # Batch(a)
      <4>1. \A x \in Objs : place[x] = Batch(a) => x = o
        BY <1>1 DEF Shape, BatchOK
      <4> QED
        BY <1>3, <1>7, <4>1, PlacesDiffer
    <3>3. ~ HoldsBox(a)'
      BY <1>2 DEF HoldsBox, MarkPcs
    <3> QED
      BY <3>1, <3>2, <3>3 DEF BatchOK
  <2>3. Boxes'
    <3>1. BoxOK(o)'
      <4>1. ~ InList(o, B)' /\ place'[o] \notin {Marked(W), Marked(B), Unborn}
        BY <1>2, <1>8 DEF InList, IsLocal
      <4>2. InList(o, W)' => color[o] = W
        <5>1. color[o] # W => place'[o] = Freed
          BY <1>3
        <5> QED
          BY <1>2, <5>1, FreedOnly DEF InList, IsLocal
      <4> QED
        BY <1>2, <4>1, <4>2 DEF BoxOK
    <3>2. ASSUME NEW x \in Objs, x # o
          PROVE  BoxOK(x)'
      <4>1. BoxOK(x)
        BY DEF Shape, Boxes
      <4> QED
        BY <1>2, <1>7, <3>2, <4>1 DEF BoxOK
    <3> QED
      BY <3>1, <3>2 DEF Boxes
  <2> QED
    BY <2>1, <2>2, <2>3 DEF Layout
<1>11. ASSUME NEW p \in Participants, m[p].pc \in RawPcs
       PROVE  place'[m[p].obj] = place[m[p].obj]
  <2>1. PICK x \in Objs : x = m[p].obj
    BY <1>11 DEF Typed, OpsOK, OpOK, RawPcs, Agents
  <2>2. p # a /\ x # o
    BY <1>4, <1>11, <2>1 DEF RawPcs, Raw
  <2>3. place[x] = LocalObjs(p, AllocColor(guard[p]))
    BY <1>11, <2>1 DEF Threads, RawOK
  <2>4. place[x] # LocalObjs(a, W)
    BY <2>2, <2>3, LocalOnly, SMTT(60), Z3T(60)
  <2> QED
    BY <1>3, <2>1, <2>2, <2>4
<1> QED
  BY <1>9, <1>10, <1>11

\* The collector pops a box that the finished cycle has scanned.
LEMMA SweepPopMarkedStep ==
  ASSUME Typed, SweepPopMarked
  PROVE  StepOK
<1>1. /\ Coll \in Agents /\ Coll \notin Participants /\ m \in [Agents -> Op] /\ m[Coll].pc = "idle"
      /\ col = "sweep"
      /\ UNCHANGED <<epoch, guard, col, color, rc, link, cell, held, hp, prog, observed, ops,
                     tasks, mtModified, hazards, hazardsTs, todo, stage, doomed>>
  BY HeapAssumption DEF SweepPopMarked, At, phaseVars, rootVars, progVars, markVars, scanVars,
     colVars, Agents, Typed, HeapTypes
<1>2. PICK o \in Objs : /\ place[o] = Marked(B) /\ place' = [place EXCEPT ![o] = Batch(Coll)]
                        /\ m' = [m EXCEPT ![Coll] = [Idle EXCEPT !.pc = "sweepBox", !.obj = o]]
  BY CollColors DEF SweepPopMarked, PopMarked
<1>3. Began(Coll, "sweepBox", o, NoLink, Null, "idle")
  BY <1>1, <1>2, PopMoves
<1>4. Placed(o, Batch(Coll))
  BY <1>1, <1>2, SMTT(60), Z3T(60) DEF Placed, Places, Typed, HeapTypes
<1>5. HeapTypes'
  BY <1>1, <1>3, <1>4 DEF Typed, HeapTypes, Placed, Began, Moved
<1>6. OpsOK'
  BY <1>1, <1>3, OpsStep DEF OpOK, Began
<1>7. CountsMove
  BY <1>1, <1>3, CountsKept DEF Counting, Began
<1>8. ASSUME Safe, RootsCounted
      PROVE  Safe'
  <2>1. /\ Layout' /\ \A x \in Objs : Proper(x)' <=> Proper(x)
        /\ \A p \in Participants : m[p].pc \in RawPcs => place'[m[p].obj] = place[m[p].obj]
    BY <1>1, <1>2, <1>3, <1>4, <1>8, PopFrame DEF Safe
  <2>2. ~ Tracing /\ ~ Tracing' /\ stage = "none" /\ epoch.phase # "RT"
    BY <1>1, <1>8, EpochFacts DEF Safe, Shape, Stages, Tracing, Typed, HeapTypes
  <2>3. HpOK'
    <3>1. \A p \in Participants : m[p].pc \notin MarkPcs /\ m'[p] = m[p]
      BY <1>1, <1>3, <1>8, <2>2, MarkingTraces DEF Safe, Agents, Began, Moved
    <3> QED
      BY <1>1, <2>2, <3>1 DEF HpOK, LateHp
  <2>4. Confirming'
    BY <1>1, <1>8, <2>2 DEF Safe, Confirming, NoTasks, Tracing
  <2>5. CollStep /\ ArgsOK(Coll)' /\ m'[Coll].pc \notin {"markCas", "markHeader"}
    BY <1>1, <1>3, SMTT(60), Z3T(60) DEF CollStep, Began, ArgsOK, LinkPcs, MarkPcs, ProperPtrs, NoLink
  <2> QED
    BY <1>1, <1>8, <2>1, <2>2, <2>3, <2>4, <2>5, CollSafe
<1> QED
  BY <1>5, <1>6, <1>7, <1>8 DEF StepOK

\* The collector drops the box if its object was left white, now black by name.
LEMMA SweepBoxStep ==
  ASSUME Typed, SweepBox
  PROVE  StepOK
<1>1. /\ Coll \in Agents /\ Coll \notin Participants /\ m \in [Agents -> Op] /\ m[Coll].pc = "sweepBox"
      /\ m[Coll].obj \in Objs
      /\ UNCHANGED <<epoch, guard, col, color, rc, link, cell, held, hp, prog, observed, ops,
                     tasks, mtModified, hazards, hazardsTs, todo, stage, doomed>>
  BY HeapAssumption DEF SweepBox, At, phaseVars, rootVars, progVars, markVars, scanVars,
     colVars, Agents, Typed, HeapTypes, OpsOK, OpOK
<1>2. Ended(Coll)
  BY <1>1, ReturnMoves DEF SweepBox
<1>3. Swept1(Coll, m[Coll].obj)
  <2>1. Fresh(W) \in Places /\ Freed \in Places
    BY EpochFacts, SMTT(60), Z3T(60) DEF Places, Typed
  <2> QED
    BY <1>1, <2>1, CollColors DEF SweepBox, Swept1, Typed, HeapTypes
<1>4. HeapTypes'
  BY <1>1, <1>2, <1>3 DEF Typed, HeapTypes, Swept1, Ended, Began, Moved
<1>5. OpsOK'
  BY <1>1, <1>2, OpsStep DEF OpOK, Ended, Began
<1>6. CountsMove
  BY <1>1, <1>2, CountsKept DEF Counting, Ended, Began
<1>7. ASSUME Safe, RootsCounted
      PROVE  Safe'
  <2>1. /\ Layout' /\ \A x \in Objs : Proper(x)' <=> Proper(x)
        /\ \A p \in Participants : m[p].pc \in RawPcs => place'[m[p].obj] = place[m[p].obj]
    BY <1>1, <1>2, <1>3, <1>7, SweepFrame DEF Safe
  <2>2. ~ Tracing /\ ~ Tracing' /\ stage = "none" /\ epoch.phase # "RT"
    BY <1>1, <1>7, EpochFacts DEF Safe, Shape, CollOK, Stages, Tracing, Typed, HeapTypes
  <2>3. HpOK'
    <3>1. \A p \in Participants : m[p].pc \notin MarkPcs /\ m'[p] = m[p]
      BY <1>1, <1>2, <1>7, <2>2, MarkingTraces DEF Safe, Agents, Ended, Began, Moved
    <3> QED
      BY <1>1, <2>2, <3>1 DEF HpOK, LateHp
  <2>4. Confirming'
    BY <1>1, <1>7, <2>2 DEF Safe, Confirming, NoTasks, Tracing
  <2>5. CollStep /\ ArgsOK(Coll)' /\ m'[Coll].pc \notin {"markCas", "markHeader"}
    BY <1>1, <1>2 DEF CollStep, Ended, Began, ArgsOK, LinkPcs, MarkPcs
  <2> QED
    BY <1>1, <1>7, <2>1, <2>2, <2>3, <2>4, <2>5, CollSafe
<1> QED
  BY <1>4, <1>5, <1>6, <1>7 DEF StepOK

\* A helper pops or sweeps a box under a guard of the normal phase: no hazard pointers are
\* in use then.
LEMMA HelpSafe ==
  ASSUME Typed, Safe, NEW p \in Participants, Moved(p), Pinned(p), guard[p].phase = "N", p \in prog.sweepers,
         UNCHANGED <<epoch, guard, col, color, rc, link, cell, held, hp, prog, observed, tasks, stage>>,
         m[p].pc \in {"idle", "sweepBox"}, m'[p].pc \in {"idle", "sweepBox"},
         m'[p].old.to = Null, m'[p].new = Null,
         Layout', \A o \in Objs : Proper(o)' <=> Proper(o),
         \A o \in Objs : Tracing /\ Proper(o) /\ Unscanned(o) => Unscanned(o)',
         \A q \in Participants : m[q].pc \in RawPcs => place'[m[q].obj] = place[m[q].obj]
  PROVE  Safe'
<1>1. /\ p \in Agents /\ p # Coll /\ Participants \subseteq Agents /\ Coll \in Agents
      /\ \A a \in Agents : a # p => m'[a] = m[a]
      /\ epoch' = epoch /\ guard' = guard /\ col' = col /\ color' = color /\ rc' = rc /\ link' = link
      /\ cell' = cell /\ held' = held /\ hp' = hp /\ prog' = prog /\ observed' = observed
      /\ tasks' = tasks /\ stage' = stage /\ W' = W /\ B' = B /\ (Tracing' <=> Tracing)
  BY HeapAssumption DEF Moved, Agents, W, B, Tracing
<1>2. Shape /\ Threads /\ Refs /\ CasOK /\ Tri /\ Confirming
  BY DEF Safe
<1>3. ProperObjs' = ProperObjs /\ ProperPtrs' = ProperPtrs
  BY DEF ProperObjs, ProperPtrs
<1>4. col \in {"normal", "rtWait", "sweep", "nWait"} /\ stage = "none"
  BY <1>2, GuardFacts DEF Shape, Stages, Typed, HeapTypes
<1>5. \A q \in Participants : hp[q] = Null /\ m[q].pc \notin MarkPcs
  <2>1. \A q \in Participants : hp[q] = Null
    BY <1>2 DEF Shape, Plain, Threads, ThreadOK
  <2> QED
    BY <1>1, <1>2, <2>1, HpObject, HeapAssumption
<1>6. Shape'
  <2>1. Plain' /\ LinkColors'
    BY <1>1, <1>2 DEF Shape, Plain, LinkColors
  <2>2. HeaderOK'
    BY <1>1, <1>2 DEF Shape, HeaderOK
  <2> QED
    BY <2>1, <2>2 DEF Shape, Layout
<1>7. Threads'
  <2>1. ASSUME NEW q \in Participants, q # p
        PROVE  ThreadOK(q)'
    <3>1. m'[q] = m[q] /\ ThreadOK(q)
      BY <1>1, <1>2, <2>1 DEF Threads
    <3>2. Black(q)' = Black(q) /\ (Pinned(q)' <=> Pinned(q))
      BY <1>1 DEF Pinned, Black, White, EpochOf
    <3> QED
      BY <1>1, <3>1, <3>2 DEF ThreadOK
  <2>2. ThreadOK(p)'
    BY <1>1, <1>2, <1>4 DEF Threads, ThreadOK, Pinned, MarkPcs
  <2>3. \A q \in Participants : RawOK(q)'
    BY <1>1, <1>2 DEF Threads, RawOK, RawPcs
  <2> QED
    BY <2>1, <2>2, <2>3 DEF Threads
<1>8. Refs'
  <2>1. \A a \in Agents : ArgsOK(a)'
    BY <1>1, <1>2, <1>3 DEF Refs, ArgsOK, LinkPcs, MarkPcs, ProperPtrs
  <2> QED
    BY <1>1, <1>2, <1>3, <2>1 DEF Refs
<1>9. Tracing => \A o \in Objs : Proper(o) /\ GrayOrBlack(o) => GrayOrBlack(o)'
  <2>1. \A a \in Agents, o \in Objs : Marks(a, o) => Marks(a, o)'
    BY <1>1, <1>5 DEF Marks, Agents
  <2>2. \A q \in Participants, o \in Objs : Shades(q, o) => Shades(q, o)'
    BY <1>1 DEF Shades, ShadePcs
  <2>3. Tracing => \A o \in Objs : Proper(o) /\ Pending(o) => Pending(o)'
    BY <1>1 DEF Pending
  <2> QED
    BY <1>1, <2>1, <2>2, <2>3 DEF GrayOrBlack
<1>10. CasOK'
  <2> SUFFICES ASSUME NEW a \in Agents, m'[a].pc = "markCas", m'[a].old.to # Null
               PROVE  m'[a].old.to = m[a].old.to /\ GrayOrBlack(m[a].old.to)'
    BY DEF CasOK
  <2>1. m'[a] = m[a]
    BY <1>1
  <2>2. PICK o \in Objs : o = m[a].old.to
    BY <1>1, <2>1 DEF Typed, HeapTypes, Op, Link
  <2>3. GrayOrBlack(o) /\ Proper(o)
    BY <1>1, <1>2, <2>1, <2>2, HeapAssumption DEF CasOK, Refs, ArgsOK, ProperPtrs, ProperObjs
  <2>4. Tracing
    BY <1>2, <2>1, MarkingTraces DEF MarkPcs
  <2> QED
    BY <1>9, <2>1, <2>2, <2>3, <2>4
<1>11. Tri'
  <2>1. \A o \in Objs : Known(o)' => Known(o)
    BY <1>1, SMTT(60), Z3T(60) DEF Known, Pinned, Uses, LateHp
  <2> QED
    BY <1>1, <1>2, <1>9, <2>1, TriStep DEF Found
<1>12. HpOK'
  BY <1>1, <1>5 DEF HpOK, LateHp, MarkPcs
<1>13. Confirming'
  BY <1>1, <1>2, <1>4 DEF Confirming, NoTasks, Tracing
<1> QED
  BY <1>6, <1>7, <1>8, <1>10, <1>11, <1>12, <1>13 DEF Safe

\* A helper pops a box that the finished cycle has scanned.
LEMMA HelpPopMarkedStep ==
  ASSUME Typed, NEW p \in Participants, HelpPopMarked(p)
  PROVE  StepOK
<1>1. /\ p \in Agents /\ p # Coll /\ Pinned(p) /\ m[p].pc = "idle" /\ m \in [Agents -> Op]
      /\ guard[p].phase = "N" /\ p \in prog.sweepers
      /\ UNCHANGED <<epoch, guard, col, color, rc, link, cell, held, hp, prog, observed, ops,
                     tasks, mtModified, hazards, hazardsTs, todo, stage, doomed>>
  BY HeapAssumption DEF HelpPopMarked, Ready, At, phaseVars, rootVars, progVars, markVars, scanVars,
     colVars, Agents, Typed, HeapTypes
<1>2. Black(p) = B
  BY <1>1, GuardColors DEF Typed
<1>3. PICK o \in Objs : /\ place[o] = Marked(B) /\ place' = [place EXCEPT ![o] = Batch(p)]
                        /\ m' = [m EXCEPT ![p] = [Idle EXCEPT !.pc = "sweepBox", !.obj = o]]
  BY <1>2 DEF HelpPopMarked, PopMarked
<1>4. Began(p, "sweepBox", o, NoLink, Null, "idle")
  BY <1>1, <1>3, PopMoves
<1>5. Placed(o, Batch(p))
  BY <1>1, <1>3, SMTT(60), Z3T(60) DEF Placed, Places, Typed, HeapTypes
<1>6. HeapTypes'
  BY <1>1, <1>4, <1>5 DEF Typed, HeapTypes, Placed, Began, Moved
<1>7. OpsOK'
  BY <1>1, <1>4, OpsStep DEF OpOK, Began, Pinned
<1>8. CountsMove
  BY <1>1, <1>4, CountsKept DEF Counting, Began
<1>9. ASSUME Safe, RootsCounted
      PROVE  Safe'
  <2>1. /\ Layout' /\ \A x \in Objs : Proper(x)' <=> Proper(x)
        /\ \A q \in Participants : m[q].pc \in RawPcs => place'[m[q].obj] = place[m[q].obj]
        /\ ~ Tracing
    BY <1>1, <1>3, <1>4, <1>5, <1>9, PopFrame DEF Safe, Tracing
  <2>2. Moved(p) /\ m'[p].pc = "sweepBox" /\ m'[p].old.to = Null /\ m'[p].new = Null
    BY <1>4, SMTT(60), Z3T(60) DEF Began, NoLink
  <2> QED
    BY <1>1, <1>9, <2>1, <2>2, HelpSafe
<1> QED
  BY <1>6, <1>7, <1>8, <1>9 DEF StepOK

\* A helper drops the box or lists it among its own fresh ones.
LEMMA HelpSweepBoxStep ==
  ASSUME Typed, NEW p \in Participants, HelpSweepBox(p)
  PROVE  StepOK
<1>1. /\ p \in Agents /\ p # Coll /\ Pinned(p) /\ m[p].pc = "sweepBox" /\ m \in [Agents -> Op]
      /\ m[p].obj \in Objs
      /\ UNCHANGED <<epoch, guard, col, color, rc, link, cell, held, hp, prog, observed, ops,
                     tasks, mtModified, hazards, hazardsTs, todo, stage, doomed>>
  BY HeapAssumption DEF HelpSweepBox, At, phaseVars, rootVars, progVars, markVars, scanVars,
     colVars, Agents, Typed, HeapTypes, OpsOK, OpOK
<1>2. Ended(p)
  BY <1>1, ReturnMoves DEF HelpSweepBox
<1>3. PICK o \in Objs : o = m[p].obj
  BY <1>1
<1>4. \/ color[o] = Black(p) /\ place' = [place EXCEPT ![o] = Freed]
      \/ color[o] # Black(p) /\ PushFreshObj(p, o)
  BY <1>3 DEF HelpSweepBox
<1>5. place' \in [Objs -> Places]
  <2>1. Freed \in Places
    BY SMTT(60), Z3T(60) DEF Places
  <2> QED
    BY <1>1, <1>4, <2>1, PushFreshEffect DEF Typed, HeapTypes
<1>6. HeapTypes'
  BY <1>1, <1>2, <1>5 DEF Typed, HeapTypes, Ended, Began, Moved
<1>7. OpsOK'
  BY <1>1, <1>2, OpsStep DEF OpOK, Ended, Began
<1>8. CountsMove
  BY <1>1, <1>2, CountsKept DEF Counting, Ended, Began
<1>9. ASSUME Safe, RootsCounted
      PROVE  Safe'
  <2>1. guard[p].phase = "N" /\ p \in prog.sweepers
    BY <1>1, <1>9 DEF Safe, Threads, ThreadOK
  <2>2. Black(p) = B /\ AllocColor(guard[p]) = W
    BY <1>1, <2>1, GuardColors DEF Typed
  <2>3. Swept1(p, m[p].obj)
    <3>1. CASE color[o] = B
      BY <1>3, <1>4, <1>5, <2>2, <3>1 DEF Swept1, Typed, HeapTypes
    <3>2. CASE color[o] # B
      BY <1>1, <1>3, <1>4, <1>5, <2>2, <3>2, PushFreshEffect DEF Swept1
    <3> QED
      BY <3>1, <3>2
  <2>4. /\ Layout'
        /\ \A x \in Objs : (Proper(x)' <=> Proper(x)) /\ (Proper(x) /\ Unscanned(x) => Unscanned(x)')
        /\ \A q \in Participants : m[q].pc \in RawPcs => place'[m[q].obj] = place[m[q].obj]
    BY <1>1, <1>2, <1>9, <2>3, SweepFrame DEF Safe
  <2>5. Moved(p) /\ m'[p].pc = "idle" /\ m'[p].old.to = Null /\ m'[p].new = Null
    BY <1>2, SMTT(60), Z3T(60) DEF Ended, Began, NoLink
  <2> QED
    BY <1>1, <1>9, <2>1, <2>4, <2>5, HelpSafe
<1> QED
  BY <1>6, <1>7, <1>8, <1>9 DEF StepOK

-----------------------------------------------------------------------------
(* The collector goes from phase to phase.                                  *)

\* What the publications and the ends of the waits leave alone.
HeapStays ==
  UNCHANGED <<guard, color, rc, link, place, cell, held, hp, prog, observed, ops, tasks,
              mtModified, hazards, hazardsTs, m>>

\* No operation moves and no count changes then.
LEMMA HeapStaysOps ==
  ASSUME Typed, HeapStays
  PROVE  OpsOK' /\ CountsMove
<1>1. OpsOK'
  BY DEF HeapStays, Typed, OpsOK, OpOK, Pinned
<1>2. CountsMove
  BY DEF HeapStays, CountsMove
<1> QED
  BY <1>1, <1>2

\* What is left to show when a wait or the sweep ends.
LEMMA WaitSafe ==
  ASSUME Typed, Safe, HeapStays, epoch' = epoch, Tracing' <=> Tracing,
         Stages', CollOK', Boxes', HpOK', Confirming',
         \A p \in Participants : m[p].pc = "sweepBox" => col' \in {"sweep", "nWait", "normal", "rtWait"}
  PROVE  Safe'
<1>1. /\ Shape /\ Threads /\ Refs /\ CasOK /\ Tri /\ HpOK /\ Confirming
      /\ guard' = guard /\ color' = color /\ rc' = rc /\ link' = link /\ place' = place /\ cell' = cell
      /\ held' = held /\ hp' = hp /\ prog' = prog /\ observed' = observed /\ tasks' = tasks
      /\ hazards' = hazards /\ m' = m /\ W' = W /\ B' = B
  BY DEF Safe, HeapStays, W, B
<1>2. \A o \in Objs : (Proper(o)' <=> Proper(o)) /\ (Unscanned(o)' <=> Unscanned(o))
  BY <1>1 DEF Proper, Dead, Swept, Raw, Unscanned, InList, IsLocal
<1>3. ProperObjs' = ProperObjs /\ ProperPtrs' = ProperPtrs
  BY <1>2 DEF ProperObjs, ProperPtrs
<1>4. Shape'
  <2>1. Plain' /\ BatchOK' /\ HeaderOK'
    BY <1>1 DEF Shape, Plain, BatchOK, HoldsBox, HeaderOK
  <2>2. LinkColors'
    BY <1>1, <1>2 DEF Shape, LinkColors
  <2> QED
    BY <2>1, <2>2 DEF Shape
<1>5. Threads'
  <2> SUFFICES ASSUME NEW p \in Participants
               PROVE  ThreadOK(p)' /\ RawOK(p)'
    BY DEF Threads
  <2>1. ThreadOK(p) /\ RawOK(p) /\ Black(p)' = Black(p) /\ (Pinned(p)' <=> Pinned(p))
    BY <1>1 DEF Threads, Black, White, EpochOf, Pinned
  <2>2. ThreadOK(p)'
    BY <1>1, <2>1 DEF ThreadOK
  <2> QED
    BY <1>1, <2>1, <2>2 DEF RawOK
<1>6. Refs'
  BY <1>1, <1>3 DEF Refs, ArgsOK
<1>7. \A o \in Objs : GrayOrBlack(o)' <=> GrayOrBlack(o)
  BY <1>1, <1>2 DEF GrayOrBlack, Marks, Shades, Pending
<1>8. CasOK'
  <2> SUFFICES ASSUME NEW a \in Agents, m[a].pc = "markCas", m[a].old.to # Null
               PROVE  \E o \in Objs : o = m[a].old.to /\ GrayOrBlack(o)'
    BY <1>1 DEF CasOK
  <2>1. PICK o \in Objs : o = m[a].old.to
    BY DEF Typed, HeapTypes, Op, Link
  <2> QED
    BY <1>1, <1>7, <2>1 DEF CasOK
<1>9. Tri'
  <2>1. \A o \in Objs : Known(o)' <=> Known(o)
    BY <1>1, <1>2 DEF Known, Pinned, Uses, LateHp
  <2>2. \A T \in SUBSET Objs : Closed(T)' <=> Closed(T)
    BY <1>1, <1>2, <1>7 DEF Closed
  <2> QED
    BY <1>1, <2>1, <2>2 DEF Tri
<1> QED
  BY <1>4, <1>5, <1>6, <1>8, <1>9 DEF Safe

\* Within a wait, and in a normal phase, the collector does not trace.
LEMMA CollIdle ==
  ASSUME Typed, Shape, stage \notin {"scan", "drain"}, col # "sweep"
  PROVE  m[Coll].pc = "idle"
BY DEF Typed, OpsOK, OpOK, Agents, Shape, CollOK, MarkPcs

\* The sweep ends when no box of the finished cycle is left.
LEMMA FinishSweepStep ==
  ASSUME Typed, FinishSweep
  PROVE  StepOK
<1>1. /\ HeapStays /\ epoch' = epoch /\ col = "sweep" /\ col' = "nWait" /\ m[Coll].pc = "idle"
      /\ todo' = todo /\ stage' = stage /\ doomed' = doomed
      /\ \A o \in Objs : place[o] # Marked(B)
  BY CollColors DEF FinishSweep, EndSweep, HeapStays, objVars, rootVars, progVars, markVars, scanVars,
     colVars, At
<1>2. HeapTypes'
  BY <1>1 DEF HeapStays, Typed, HeapTypes
<1>3. ASSUME Safe, RootsCounted
      PROVE  Safe'
  <2>1. /\ Shape /\ Threads /\ Confirming /\ ~ Tracing /\ ~ Tracing' /\ W' = W /\ B' = B
        /\ place' = place /\ color' = color /\ link' = link /\ m' = m /\ tasks' = tasks /\ hp' = hp
    BY <1>1, <1>3 DEF Safe, Tracing, W, B, HeapStays
  <2>2. stage = "none"
    BY <1>1, <2>1 DEF Shape, Stages, Typed, HeapTypes
  <2>3. Stages' /\ CollOK'
    BY <1>1, <2>1, <2>2 DEF Stages, CollOK, MarkPcs
  <2>4. Boxes'
    BY <1>1, <2>1, <2>2 DEF Shape, Boxes, BoxOK, InList, IsLocal
  <2>5. HpOK'
    <3>1. \A p \in Participants : m[p].pc \notin MarkPcs
      BY <2>1, MarkingTraces DEF Agents
    <3>2. \A p \in Participants : ~ LateHp(p)'
      BY <1>1, EpochFacts DEF LateHp, Typed
    <3> QED
      BY <2>1, <3>1, <3>2 DEF HpOK
  <2>6. Confirming'
    BY <1>1, <2>1, <2>2 DEF Confirming, NoTasks
  <2> QED
    BY <1>1, <1>3, <2>1, <2>3, <2>4, <2>5, <2>6, WaitSafe
<1> QED
  BY <1>1, <1>2, <1>3, HeapStaysOps DEF StepOK

\* After a wait all guards are of the published epoch.
LEMMA EndPhaseWaitStep ==
  ASSUME Typed, EndPhaseWait
  PROVE  StepOK
<1>1. /\ HeapStays /\ epoch' = epoch /\ \A p \in Participants : ~ OldGuard(p)
      /\ Coll \in Agents /\ Participants \subseteq Agents
  BY DEF EndPhaseWait, EndWait, HeapStays, objVars, rootVars, progVars, markVars, Agents
<1>2. \/ col = "rtWait" /\ col' = "rt" /\ stage' = "take"
      \/ col = "ctWait" /\ col' = "ct" /\ stage' = "confirm1"
      \/ col = "nWait" /\ col' = "normal" /\ stage' = "none"
  BY DEF EndPhaseWait, EndWait, Waiting, AfterWait
<1>3. HeapTypes'
  <2>1. Entries \subseteq Agents
    BY HeapAssumption DEF Entries, Agents, Typed, HeapTypes, Roles
  <2>2. todo' \in [Agents -> SUBSET Agents]
    BY <2>1 DEF EndPhaseWait, Typed, HeapTypes
  <2>3. doomed' \in SUBSET Objs
    BY DEF EndPhaseWait, Typed, HeapTypes
  <2> QED
    BY <1>1, <1>2, <2>2, <2>3 DEF HeapStays, Typed, HeapTypes
<1>4. ASSUME Safe, RootsCounted
      PROVE  Safe'
  <2>1. /\ Shape /\ Threads /\ HpOK /\ Confirming /\ W' = W /\ B' = B
        /\ place' = place /\ color' = color /\ link' = link /\ m' = m /\ tasks' = tasks /\ hp' = hp
        /\ hazards' = hazards /\ guard' = guard /\ observed' = observed
        /\ (Tracing' <=> Tracing) /\ (col = "nWait" <=> ~ Tracing)
    BY <1>1, <1>2, <1>4 DEF Safe, W, B, HeapStays, Tracing
  <2>2. stage = "none"
    BY <1>2, <2>1 DEF Shape, Stages, Typed, HeapTypes
  <2>3. m[Coll].pc = "idle"
    BY <1>2, <2>1, <2>2, CollIdle
  <2>4. Stages' /\ CollOK'
    BY <1>2, <2>1, <2>3 DEF Stages, CollOK, MarkPcs
  <2>5. Boxes'
    BY <1>2, <2>1, <2>2 DEF Shape, Boxes, BoxOK, InList, IsLocal
  <2>6. \A p \in Participants : Pinned(p) => guard[p] = epoch
    <3>1. \A p \in Participants : Pinned(p) => guard[p].ts = epoch.ts
      BY <1>1, GuardFacts, EpochFacts, SMTT(60), Z3T(60) DEF OldGuard, Typed
    <3> QED
      BY <3>1, GuardFacts DEF Typed
  <2>7. /\ epoch.phase = "RT" <=> col = "rtWait"
        /\ epoch.phase = "N" <=> col = "nWait"
    BY <1>2, <2>1, EpochFacts DEF Typed
  <2>8. \A p \in Participants : /\ m[p].pc \in MarkPcs => col = "rtWait"
                                /\ m[p].pc = "sweepBox" => col = "nWait"
    <3>1. \A p \in Participants : m[p].pc # "idle" => Pinned(p)
      BY <1>1 DEF Typed, OpsOK, OpOK
    <3> QED
      BY <2>1, <2>6, <2>7, <3>1 DEF Threads, ThreadOK, MarkPcs
  <2>9. HpOK'
    <3> SUFFICES ASSUME NEW p \in Participants, (hp[p] # Null /\ LateHp(p)') \/ m[p].pc \in MarkPcs
                 PROVE  color[hp[p]] = B \/ Marks(Coll, hp[p])' \/ (Unscanned(hp[p])' /\ HpDue(p)')
      BY <2>1 DEF HpOK
    <3>1. col = "rtWait" /\ (LateHp(p)' <=> LateHp(p))
      BY <1>1, <2>1, <2>7, <2>8 DEF LateHp
    <3>2. HpDue(p)'
      BY <1>2, <3>1 DEF HpDue
    <3>3. Unscanned(hp[p])' <=> Unscanned(hp[p])
      BY <2>1 DEF Unscanned, InList, IsLocal, Swept
    <3>4. Marks(Coll, hp[p])' <=> Marks(Coll, hp[p])
      BY <2>1 DEF Marks
    <3> QED
      BY <2>1, <3>1, <3>2, <3>3, <3>4 DEF HpOK
  <2>10. Confirming'
    <3>1. /\ NoTasks' <=> NoTasks
          /\ \A p \in Participants : ShadesWhite(p)' <=> ShadesWhite(p)
      BY <2>1 DEF NoTasks, ShadesWhite
    <3>2. Settled' <=> Settled
      BY <3>1 DEF Settled
    <3> QED
      BY <1>1, <1>2, <2>1, <3>1, <3>2 DEF Confirming
  <2> QED
    BY <1>1, <1>2, <1>4, <2>1, <2>4, <2>5, <2>8, <2>9, <2>10, WaitSafe
<1> QED
  BY <1>1, <1>3, <1>4, HeapStaysOps DEF StepOK

\* RT is published: all is white and listed, so nothing is known that the scan would
\* not find.
LEMMA BeginCycleStep ==
  ASSUME Typed, BeginCycle
  PROVE  StepOK
<1>1. /\ HeapStays /\ col = "normal" /\ col' = "rtWait" /\ stage' = stage /\ todo' = todo
      /\ epoch'.ts = epoch.ts + 1 /\ epoch'.phase = "RT" /\ epoch'.white = epoch.white
      /\ doomed' \in SUBSET Objs /\ Participants \subseteq Agents /\ Null \notin Objs
  BY HeapAssumption
  DEF BeginCycle, StartRootTracing, Publish, HeapStays, objVars, rootVars, progVars, markVars,
      scanVars, Garbage, Agents
<1>2. HeapTypes'
  BY <1>1 DEF HeapStays, Typed, HeapTypes
<1>3. ASSUME Safe, RootsCounted
      PROVE  Safe'
  <2>1. /\ Shape /\ Threads /\ Refs /\ CasOK /\ Confirming /\ W' = W /\ B' = B /\ ~ Tracing /\ Tracing'
        /\ guard' = guard /\ color' = color /\ rc' = rc /\ link' = link /\ place' = place /\ cell' = cell
        /\ held' = held /\ hp' = hp /\ prog' = prog /\ observed' = observed /\ tasks' = tasks
        /\ hazards' = hazards /\ m' = m
    BY <1>1, <1>3 DEF Safe, HeapStays, W, B, Tracing
  <2>2. /\ W # B /\ epoch.ts \in Nat /\ \A p \in Participants : Pinned(p) => guard[p].phase = "N"
    BY <1>1, <2>1, EpochFacts, GuardFacts DEF Typed
  <2>3. stage = "none" /\ m[Coll].pc = "idle"
    <3>1. stage = "none"
      BY <1>1, <2>1 DEF Shape, Stages, Typed, HeapTypes
    <3> QED
      BY <1>1, <2>1, <3>1, CollIdle
  <2>4. \A o \in Objs : (Proper(o)' <=> Proper(o)) /\ (Unscanned(o)' <=> Unscanned(o))
    BY <2>1 DEF Proper, Dead, Swept, Raw, Unscanned, InList, IsLocal
  <2>5. ProperObjs' = ProperObjs /\ ProperPtrs' = ProperPtrs
    BY <2>4 DEF ProperObjs, ProperPtrs
  <2>6. \A o \in Objs : Proper(o) => color[o] = W /\ Unscanned(o)
    BY <1>1, <2>1, <2>2, ProperPlaces
  <2>7. \A a \in Agents : m[a].pc \notin MarkPcs
    BY <2>1, MarkingTraces
  <2>8. Shape'
    <3>1. Plain' /\ BatchOK' /\ HeaderOK' /\ Stages' /\ CollOK'
      BY <1>1, <2>1, <2>3 DEF Shape, Plain, BatchOK, HoldsBox, HeaderOK, Stages, CollOK, MarkPcs
    <3>2. LinkColors'
      BY <2>1, <2>2, <2>4, <2>6 DEF LinkColors
    <3>3. Boxes'
      BY <1>1, <2>1, <2>3 DEF Shape, Boxes, BoxOK, InList, IsLocal
    <3> QED
      BY <3>1, <3>2, <3>3 DEF Shape
  <2>9. Threads'
    <3> SUFFICES ASSUME NEW p \in Participants
                 PROVE  ThreadOK(p)' /\ RawOK(p)'
      BY DEF Threads
    <3>1. /\ ThreadOK(p) /\ RawOK(p) /\ Black(p)' = Black(p) /\ (Pinned(p)' <=> Pinned(p))
          /\ m[p].pc \notin MarkPcs
      BY <1>1, <2>1, <2>7, HeapAssumption DEF Threads, Black, White, EpochOf, Pinned
    <3>2. observed[p] <= epoch'.ts
      BY <1>1, <2>2, <3>1, SMTT(60), Z3T(60) DEF ThreadOK, Typed, HeapTypes
    <3>3. ThreadOK(p)'
      BY <1>1, <2>1, <3>1, <3>2 DEF ThreadOK
    <3> QED
      BY <2>1, <3>1, <3>3 DEF RawOK
  <2>10. Refs'
    BY <2>1, <2>5 DEF Refs, ArgsOK
  <2>11. CasOK'
    BY <2>1, <2>7 DEF CasOK, MarkPcs
  <2>12. Tri'
    <3> SUFFICES ASSUME NEW T \in SUBSET Objs, Closed(T)', NEW o \in Objs, Known(o)'
                 PROVE  o \in T
      BY DEF Tri
    <3>1. PICK c \in Cells : cell[c] = o
      <4>1. \A p \in Participants : LateHp(p)'
        <5>1. \A p \in Participants : observed[p] \in Nat /\ observed[p] <= epoch.ts
          BY <2>1 DEF Threads, ThreadOK, Typed, HeapTypes
        <5> QED
          BY <1>1, <2>1, <2>2, <5>1, SMTT(60), Z3T(60) DEF LateHp
      <4>2. \A p \in Participants : ~ (m[p].pc = "casLink" /\ m[p].old.color = B)
        BY <1>1, <2>1, <2>2 DEF Threads, ThreadOK, Typed, OpsOK, OpOK
      <4>3. \A p \in Participants : ~ (Pinned(p)' /\ guard[p].phase # "N")
        BY <2>1, <2>2 DEF Pinned
      <4>4. \A x \in Objs : Proper(x) => link[x].color # B
        BY <2>1, <2>2 DEF Shape, LinkColors
      <4> QED
        BY <2>1, <2>4, <4>1, <4>2, <4>3, <4>4 DEF Known
    <3>2. Proper(o) /\ rc[o] > 0
      BY <1>1, <1>3, <2>1, <3>1 DEF RootsCounted, Refs, ProperPtrs, ProperObjs
    <3>3. GrayOrBlack(o)'
      BY <2>1, <2>4, <2>6, <3>2 DEF GrayOrBlack, Pending
    <3> QED
      BY <2>4, <3>2, <3>3 DEF Closed
  <2>13. HpOK'
    <3> SUFFICES ASSUME NEW p \in Participants, hp[p] # Null
                 PROVE  Unscanned(hp[p])' /\ HpDue(p)'
      BY <1>1, <2>1, <2>7 DEF HpOK
    <3>1. PICK o \in Objs : o = hp[p] /\ Proper(o)
      BY <2>1 DEF Refs, ProperPtrs, ProperObjs
    <3>2. Unscanned(o)'
      BY <2>4, <2>6, <3>1
    <3> QED
      BY <1>1, <2>1, <3>1, <3>2 DEF HpDue
  <2>14. Confirming'
    BY <1>1, <2>1, <2>3 DEF Confirming
  <2> QED
    BY <2>8, <2>9, <2>10, <2>11, <2>12, <2>13, <2>14 DEF Safe
<1> QED
  BY <1>1, <1>2, <1>3, HeapStaysOps DEF StepOK

\* CT is published: hazard pointers that no barrier has marked were marked by the
\* scan.
LEMMA BeginCompletionStep ==
  ASSUME Typed, BeginCompletion
  PROVE  StepOK
<1>1. /\ HeapStays /\ col \in {"rt", "ct"} /\ col' = "ctWait" /\ stage = "drain" /\ stage' = "none"
      /\ epoch'.ts = epoch.ts + 1 /\ epoch'.phase = "CT" /\ epoch'.white = epoch.white
      /\ todo' = todo /\ doomed' = doomed /\ Participants \subseteq Agents /\ Null \notin Objs
      /\ m[Coll].pc = "idle"
  BY HeapAssumption
  DEF BeginCompletion, StartCompletionTracing, Publish, HeapStays, objVars, rootVars, progVars, markVars,
      scanVars, At, Agents
<1>2. HeapTypes'
  BY <1>1 DEF HeapStays, Typed, HeapTypes
<1>3. ASSUME Safe, RootsCounted
      PROVE  Safe'
  <2>1. /\ Shape /\ Threads /\ Refs /\ CasOK /\ Tri /\ HpOK /\ Confirming
        /\ W' = W /\ B' = B /\ Tracing /\ Tracing'
        /\ guard' = guard /\ color' = color /\ rc' = rc /\ link' = link /\ place' = place /\ cell' = cell
        /\ held' = held /\ hp' = hp /\ prog' = prog /\ observed' = observed /\ tasks' = tasks
        /\ hazards' = hazards /\ m' = m
    BY <1>1, <1>3 DEF Safe, HeapStays, W, B, Tracing
  <2>2. \A o \in Objs : (Proper(o)' <=> Proper(o)) /\ (Unscanned(o)' <=> Unscanned(o))
    BY <2>1 DEF Proper, Dead, Swept, Raw, Unscanned, InList, IsLocal
  <2>3. ProperObjs' = ProperObjs /\ ProperPtrs' = ProperPtrs
    BY <2>2 DEF ProperObjs, ProperPtrs
  <2>4. \A p \in Participants : (hp[p] # Null /\ LateHp(p)) \/ m[p].pc \in MarkPcs => color[hp[p]] = B
    BY <1>1, <2>1 DEF HpOK, HpDue, Marks, MarkPcs
  <2>5. Shape'
    <3>1. Plain' /\ BatchOK' /\ HeaderOK' /\ Stages' /\ CollOK'
      BY <1>1, <2>1 DEF Shape, Plain, BatchOK, HoldsBox, HeaderOK, Stages, CollOK, MarkPcs
    <3>2. LinkColors'
      BY <2>1, <2>2 DEF Shape, LinkColors
    <3>3. Boxes'
      BY <1>1, <2>1 DEF Shape, Boxes, BoxOK, InList, IsLocal
    <3> QED
      BY <3>1, <3>2, <3>3 DEF Shape
  <2>6. Threads'
    <3> SUFFICES ASSUME NEW p \in Participants
                 PROVE  ThreadOK(p)' /\ RawOK(p)'
      BY DEF Threads
    <3>1. ThreadOK(p) /\ RawOK(p) /\ Black(p)' = Black(p) /\ (Pinned(p)' <=> Pinned(p))
      BY <1>1, <2>1, HeapAssumption DEF Threads, Black, White, EpochOf, Pinned
    <3>2. observed[p] <= epoch'.ts
      BY <1>1, <3>1, EpochFacts, SMTT(60), Z3T(60) DEF ThreadOK, Typed, HeapTypes
    <3>3. ThreadOK(p)'
      BY <1>1, <2>1, <3>1, <3>2 DEF ThreadOK
    <3> QED
      BY <2>1, <3>1, <3>3 DEF RawOK
  <2>7. Refs'
    BY <2>1, <2>3 DEF Refs, ArgsOK
  <2>8. \A o \in Objs : GrayOrBlack(o)' <=> GrayOrBlack(o)
    BY <2>1, <2>2 DEF GrayOrBlack, Marks, Shades, Pending
  <2>9. CasOK'
    <3> SUFFICES ASSUME NEW a \in Agents, m[a].pc = "markCas", m[a].old.to # Null
                 PROVE  \E o \in Objs : o = m[a].old.to /\ GrayOrBlack(o)'
      BY <2>1 DEF CasOK
    <3>1. PICK o \in Objs : o = m[a].old.to
      BY DEF Typed, HeapTypes, Op, Link
    <3> QED
      BY <2>1, <2>8, <3>1 DEF CasOK
  <2>10. Tri'
    <3> SUFFICES ASSUME NEW T \in SUBSET Objs, Closed(T)', NEW o \in Objs, Known(o)'
                 PROVE  o \in T
      BY DEF Tri
    <3>1. Closed(T)
      BY <2>1, <2>2, <2>8 DEF Closed
    <3>2. Known(o) \/ \E p \in Participants : hp[p] = o /\ LateHp(p)
      BY <2>1, <2>2 DEF Known, Pinned, Uses
    <3>3. ASSUME NEW p \in Participants, hp[p] = o, LateHp(p)
          PROVE  o \in T
      <4>1. color[o] = B /\ Proper(o)
        BY <1>1, <2>1, <2>4, <3>3 DEF Refs, ProperPtrs, ProperObjs
      <4> QED
        BY <3>1, <4>1 DEF Closed, GrayOrBlack
    <3> QED
      BY <2>1, <3>1, <3>2, <3>3 DEF Tri
  <2>11. HpOK'
    BY <1>1, <2>1, <2>4 DEF HpOK, LateHp
  <2>12. Confirming'
    <3>1. /\ NoTasks' <=> NoTasks
          /\ \A p \in Participants : ShadesWhite(p)' <=> ShadesWhite(p)
      BY <2>1 DEF NoTasks, ShadesWhite
    <3>2. ASSUME NEW p \in Participants, ShadesWhite(p)
          PROVE  OldGuard(p)'
      <4>1. Pinned(p)
        BY <1>1, <3>2 DEF ShadesWhite, ShadePcs, Typed, OpsOK, OpOK
      <4>2. guard[p].ts \in Nat /\ guard[p].ts <= epoch.ts /\ epoch.ts \in Nat
        BY <4>1, GuardFacts, EpochFacts DEF Typed
      <4> QED
        BY <1>1, <2>1, <4>1, <4>2, SMTT(60), Z3T(60) DEF OldGuard, Pinned
    <3> QED
      BY <1>1, <2>1, <3>1, <3>2 DEF Confirming, Settled
  <2> QED
    BY <2>5, <2>6, <2>7, <2>9, <2>10, <2>11, <2>12 DEF Safe
<1> QED
  BY <1>1, <1>2, <1>3, HeapStaysOps DEF StepOK

\* N is published with the colors swapped: the confirmed marking is complete, so
\* what is white then, and black afterwards, is in use nowhere.
LEMMA BeginNormalStep ==
  ASSUME Typed, BeginNormal
  PROVE  StepOK
<1>1. /\ HeapStays /\ col = "ct" /\ col' = "sweep" /\ stage = "confirmed" /\ stage' = "none"
      /\ epoch'.ts = epoch.ts + 1 /\ epoch'.phase = "N" /\ epoch'.white = Flip(epoch.white)
      /\ todo' = todo /\ doomed' = doomed /\ Participants \subseteq Agents /\ Null \notin Objs
  BY HeapAssumption
  DEF BeginNormal, StartNormal, Publish, HeapStays, objVars, rootVars, progVars, markVars,
      scanVars, Agents
<1>2. HeapTypes'
  BY <1>1 DEF HeapStays, Typed, HeapTypes
<1>3. ASSUME Safe, RootsCounted
      PROVE  Safe'
  <2>1. /\ Shape /\ Threads /\ Refs /\ CasOK /\ Tri /\ HpOK /\ Confirming
        /\ Tracing /\ ~ Tracing'
        /\ guard' = guard /\ color' = color /\ rc' = rc /\ link' = link /\ place' = place /\ cell' = cell
        /\ held' = held /\ hp' = hp /\ prog' = prog /\ observed' = observed /\ tasks' = tasks
        /\ hazards' = hazards /\ m' = m
    BY <1>1, <1>3 DEF Safe, HeapStays, Tracing
  <2>2. /\ W' = B /\ B' = W /\ W # B /\ W \in Color /\ B \in Color /\ \A c \in Color : c = W \/ c = B
        /\ epoch.phase = "CT" /\ epoch.ts \in Nat
    <3>1. W \in Color /\ B \in Color /\ W # B /\ epoch.ts \in Nat /\ epoch.phase = "CT"
          /\ \A c \in Color : c = W \/ c = B
      BY <1>1, EpochFacts DEF Typed
    <3>2. W' = B /\ B' = 1 - B /\ B = 1 - W
      BY <1>1 DEF W, B, Flip
    <3> QED
      BY <3>1, <3>2, SMTT(60), Z3T(60) DEF Color
  <2>3. Settled /\ AllBlack
    BY <1>1, <2>1, SettledBlack DEF Confirming
  <2>4. /\ \A p \in Participants : Pinned(p) => guard[p].phase = "CT"
        /\ \A p \in Participants : m[p].pc # "idle" => Pinned(p)
    BY <1>1, <2>2, GuardFacts DEF Typed, OpsOK, OpOK
  <2>5. /\ m[Coll].pc = "idle"
        /\ \A a \in Agents : m[a].pc \notin MarkPcs \cup {"sweepBox", "scanRoot", "toMarked"}
    <3>1. m[Coll].pc = "idle"
      BY <1>1, <2>1, CollIdle
    <3>2. \A p \in Participants : m[p].pc \notin MarkPcs \cup {"sweepBox", "scanRoot", "toMarked"}
      BY <1>1, <2>1, <2>4 DEF Threads, ThreadOK, MarkPcs
    <3> QED
      BY <3>1, <3>2 DEF Agents, MarkPcs
  <2>6. \A o \in Objs : /\ ~ Swept(o) /\ ~ InList(o, W) /\ place[o] # Marked(B)
                        /\ \A a \in Agents : place[o] # Batch(a)
                        /\ InList(o, B) => color[o] = B
    <3>1. \A o \in Objs : ~ Swept(o) /\ \A a \in Agents : place[o] # Batch(a)
      BY <2>1, <2>5 DEF Swept, Shape, BatchOK, HoldsBox
    <3>2. \A o \in Objs : ~ InList(o, W) /\ place[o] # Marked(B) /\ (InList(o, B) => color[o] = B)
      BY <1>1, <2>1 DEF Shape, Boxes, BoxOK, InList
    <3> QED
      BY <3>1, <3>2
  <2>7. \A o \in Objs : Proper(o)' <=> Proper(o) /\ color[o] = B
    <3> SUFFICES ASSUME NEW o \in Objs
                 PROVE  Proper(o)' <=> Proper(o) /\ color[o] = B
      OBVIOUS
    <3>1. Raw(o)' <=> Raw(o)
      BY <2>1 DEF Raw
    <3>2. ~ Swept(o)'
      BY <2>1, <2>5 DEF Swept
    <3>3. Dead(o)' <=> color[o] = W /\ place[o] = Marked(W)
      BY <2>1, <2>2, <3>2 DEF Dead, Marked
    <3>4. ~ Dead(o)
      BY <2>6 DEF Dead
    <3>5. place[o] # Unborn /\ place[o] # Freed => color[o] = B \/ place[o] = Marked(W)
      <4>1. place[o] \in Places
        BY DEF Typed, HeapTypes
      <4>2. place[o] # Unborn /\ place[o] # Freed =>
              \E c \in Color : InList(o, c) \/ place[o] = Marked(c)
        BY <2>6, <4>1, SMTT(60), Z3T(60) DEF Places, InList, IsLocal
      <4> QED
        BY <2>2, <2>6, <4>2
    <3>6. color[o] = W \/ color[o] = B
      BY <2>2 DEF Typed, HeapTypes
    <3> QED
      BY <2>1, <2>2, <3>1, <3>3, <3>4, <3>5, <3>6 DEF Proper
  <2>8. /\ \A o \in Objs : Known(o) /\ o \in ProperObjs => o \in ProperObjs'
        /\ \A o \in ProperObjs' : o \in ProperObjs /\ color[o] = B /\ o \in Objs
    BY <2>3, <2>7 DEF AllBlack, ProperObjs
  <2>9. Shape'
    <3>1. Plain' /\ BatchOK' /\ HeaderOK' /\ Stages' /\ CollOK'
      BY <1>1, <2>1, <2>5 DEF Shape, Plain, BatchOK, HoldsBox, HeaderOK, Stages, CollOK, MarkPcs
    <3>2. LinkColors'
      BY <2>1, <2>2, <2>7 DEF Shape, LinkColors
    <3>3. Boxes'
      <4> SUFFICES ASSUME NEW o \in Objs
                   PROVE  BoxOK(o)'
        BY DEF Boxes
      <4>1. \A d : (InList(o, d)' <=> InList(o, d)) /\ (IsLocal(o, d)' <=> IsLocal(o, d))
        BY <2>1 DEF InList, IsLocal
      <4>2. place[o] = Unborn => link[o] = NoLink
        BY <2>1 DEF Shape, Boxes, BoxOK
      <4> QED
        BY <1>1, <2>1, <2>2, <2>6, <4>1, <4>2 DEF BoxOK
    <3> QED
      BY <3>1, <3>2, <3>3 DEF Shape
  <2>10. Threads'
    <3> SUFFICES ASSUME NEW p \in Participants
                 PROVE  ThreadOK(p)' /\ RawOK(p)'
      BY DEF Threads
    <3>1. /\ ThreadOK(p) /\ RawOK(p) /\ Black(p)' = Black(p) /\ (Pinned(p)' <=> Pinned(p))
          /\ Pinned(p) => guard[p].phase # "N"
          /\ m[p].pc # "sweepBox"
      BY <1>1, <2>1, <2>4, <2>5, HeapAssumption DEF Threads, Black, White, EpochOf, Pinned
    <3>2. observed[p] <= epoch'.ts
      <4>1. observed[p] \in Nat /\ observed[p] <= epoch.ts
        BY <3>1 DEF ThreadOK, Typed, HeapTypes
      <4> QED
        BY <1>1, <2>2, <4>1, SMTT(60), Z3T(60)
    <3>3. ThreadOK(p)'
      BY <1>1, <2>1, <3>1, <3>2 DEF ThreadOK
    <3> QED
      BY <2>1, <3>1, <3>3 DEF RawOK
  <2>11. Refs'
    <3>1. \A o \in Objs \cup {Null} : o \in ProperPtrs /\ (o # Null => Known(o)) => o \in ProperPtrs'
      BY <1>1, <2>8 DEF ProperPtrs
    <3>2. \A p \in Participants, o \in Objs : Uses(p, o) /\ Pinned(p) => Known(o)
      BY <2>4 DEF Known
    <3>3. \A c \in Cells : cell[c] \in ProperPtrs'
      BY <2>1, <3>1 DEF Refs, Known, Typed, HeapTypes
    <3>4. \A p \in Participants : hp[p] \in ProperPtrs'
      BY <2>1, <2>2, <3>1 DEF Refs, Known, LateHp, Typed, HeapTypes
    <3>5. \A p \in Participants : held[p] \subseteq ProperObjs'
      <4> SUFFICES ASSUME NEW p \in Participants, NEW o \in held[p]
                   PROVE  o \in ProperObjs'
        OBVIOUS
      <4>1. o \in Objs /\ o \in ProperObjs /\ Pinned(p)
        BY <2>1 DEF Refs, Threads, ThreadOK, Typed, HeapTypes
      <4> QED
        BY <2>8, <3>2, <4>1 DEF Uses
    <3>6. \A a \in Agents : tasks[a] = {}
      BY <2>3 DEF Settled, NoTasks
    <3>7. \A a \in Agents : ArgsOK(a)'
      <4> SUFFICES ASSUME NEW a \in Agents, m[a].pc # "idle"
                   PROVE  ArgsOK(a)'
        BY <2>1 DEF ArgsOK, LinkPcs, MarkPcs
      <4>1. a \in Participants /\ Pinned(a) /\ ArgsOK(a) /\ m[a].pc \notin MarkPcs /\ m[a] \in Op
        BY <2>1, <2>4, <2>5 DEF Agents, Refs, Typed, HeapTypes
      <4>2. m[a].old.to \in Objs \cup {Null} /\ m[a].new \in Objs \cup {Null}
        BY <4>1 DEF Op, Link
      <4>3. m[a].old.to \in ProperPtrs' /\ m[a].new \in ProperPtrs'
        BY <1>1, <3>1, <3>2, <4>1, <4>2 DEF ArgsOK, Uses
      <4>4. m[a].pc \in LinkPcs => m[a].obj \in ProperObjs'
        <5>1. m[a].pc \in LinkPcs => m[a].obj \in ProperObjs /\ m[a].obj \in Objs
          BY <4>1 DEF ArgsOK, ProperObjs
        <5> QED
          BY <2>8, <3>2, <4>1, <5>1 DEF Uses
      <4> QED
        BY <2>1, <4>1, <4>3, <4>4 DEF ArgsOK
    <3>8. \A o \in ProperObjs' : link[o].to \in ProperPtrs'
      <4> SUFFICES ASSUME NEW o \in ProperObjs'
                   PROVE  link[o].to \in ProperPtrs'
        OBVIOUS
      <4>1. o \in Objs /\ o \in ProperObjs /\ Proper(o) /\ link[o].color = B
        BY <2>1, <2>8 DEF ProperObjs, Shape, LinkColors
      <4>2. link[o].to \in ProperPtrs /\ link[o].to \in Objs \cup {Null}
        BY <2>1, <4>1 DEF Refs, Typed, HeapTypes, Link
      <4>3. link[o].to # Null => Known(link[o].to)
        BY <4>1 DEF Known
      <4> QED
        BY <3>1, <4>2, <4>3
    <3> QED
      BY <2>1, <3>3, <3>4, <3>5, <3>6, <3>7, <3>8 DEF Refs
  <2>12. CasOK' /\ HpOK'
    BY <1>1, <2>1, <2>5 DEF CasOK, HpOK, LateHp, MarkPcs, Agents
  <2>13. Tri'
    BY <2>1 DEF Tri
  <2>14. Confirming'
    BY <1>1, <2>1, <2>3 DEF Confirming, Settled, NoTasks
  <2> QED
    BY <2>9, <2>10, <2>11, <2>12, <2>13, <2>14 DEF Safe
<1> QED
  BY <1>1, <1>2, <1>3, HeapStaysOps DEF StepOK

-----------------------------------------------------------------------------
(* Helpers that trace, which the programs of Plain do not have.             *)

\* A program without tracing helpers never does this.
LEMMA HelpPopFreshStep ==
  ASSUME Typed, NEW p \in Participants, HelpPopFresh(p)
  PROVE  StepOK
<1>1. /\ p \in Agents /\ p # Coll /\ Pinned(p) /\ m[p].pc = "idle" /\ m \in [Agents -> Op]
      /\ p \in prog.tracers
      /\ UNCHANGED <<epoch, guard, col, color, rc, link, cell, held, hp, prog, observed, ops,
                     tasks, mtModified, hazards, hazardsTs, todo, stage, doomed>>
  BY HeapAssumption DEF HelpPopFresh, Ready, At, phaseVars, rootVars, progVars, markVars, scanVars,
     colVars, Agents, Typed, HeapTypes
<1>2. PICK o \in Objs : /\ place' = [place EXCEPT ![o] = Batch(p)]
                        /\ m' = [m EXCEPT ![p] = [Idle EXCEPT !.pc = "scanRoot", !.obj = o]]
  BY DEF HelpPopFresh, PopFresh
<1>3. Began(p, "scanRoot", o, NoLink, Null, "idle")
  BY <1>1, <1>2, PopMoves
<1>4. place' \in [Objs -> Places]
  <2>1. Batch(p) \in Places
    BY <1>1, SMTT(60), Z3T(60) DEF Places
  <2> QED
    BY <1>2, <2>1 DEF Typed, HeapTypes
<1>5. HeapTypes'
  BY <1>1, <1>3, <1>4 DEF Typed, HeapTypes, Began, Moved
<1>6. OpsOK'
  BY <1>1, <1>3, OpsStep DEF OpOK, Pinned, Began
<1>7. CountsMove
  BY <1>1, <1>3, CountsKept DEF Counting, Began
<1>8. ~ Safe
  BY <1>1 DEF Safe, Shape, Plain
<1> QED
  BY <1>5, <1>6, <1>7, <1>8 DEF StepOK

\* A thread is here in programs with tracing helpers only; the types hold in them too.
LEMMA HelpScanRootStep ==
  ASSUME Typed, NEW p \in Participants, HelpScanRoot(p)
  PROVE  StepOK
<1>1. /\ p \in Agents /\ p # Coll /\ Pinned(p) /\ m[p].pc = "scanRoot" /\ m \in [Agents -> Op]
      /\ m[p].obj \in Objs
      /\ UNCHANGED <<epoch, guard, col, color, rc, link, place, cell, held, hp, prog, observed, ops,
                     tasks, mtModified, hazardsTs, stage, doomed>>
  BY HeapAssumption DEF HelpScanRoot, At, phaseVars, objVars, rootVars, progVars, markVars, scanVars,
     colVars, Agents, Typed, HeapTypes, OpsOK, OpOK
<1>2. \/ Began(p, "mark", m[p].obj, NoLink, Null, "toMarked")
      \/ Advanced(p, "scanHazard")
      \/ Advanced(p, "scanHps")
  <2>1. CASE m' = [m EXCEPT ![p] = MarkOp(m[p].obj, "toMarked")]
    BY <1>1, <2>1, MarkOpMoves
  <2>2. CASE Goto(p, "scanHazard")
    BY <1>1, <2>2, GotoMoves DEF Pcs
  <2>3. CASE Goto(p, "scanHps")
    BY <1>1, <2>3, GotoMoves DEF Pcs
  <2> QED
    BY <2>1, <2>2, <2>3 DEF HelpScanRoot
<1>3. hazards' \in [Agents -> SUBSET Objs] /\ todo' \in [Agents -> SUBSET Agents]
  <2>1. prog.threads \in SUBSET Agents
    BY HeapAssumption DEF Agents, Typed, HeapTypes, Roles
  <2>2. hazards \in [Agents -> SUBSET Objs] /\ todo \in [Agents -> SUBSET Agents]
    BY DEF Typed, HeapTypes
  <2>3. hazards' = hazards \/ hazards' = [hazards EXCEPT ![p] = {}]
    BY DEF HelpScanRoot, scanVars
  <2>4. todo' = todo \/ todo' = [todo EXCEPT ![p] = prog.threads]
    BY DEF HelpScanRoot, scanVars
  <2> QED
    BY <2>1, <2>2, <2>3, <2>4
<1>4. /\ Moved(p) /\ m'[p].pc \in {"mark", "scanHazard", "scanHps"} /\ m'[p].obj = m[p].obj
  BY <1>2 DEF Began, Advanced
<1>5. HeapTypes'
  BY <1>1, <1>3, <1>4 DEF Typed, HeapTypes, Moved
<1>6. OpsOK'
  BY <1>1, <1>4, OpsStep DEF OpOK, Pinned
<1>7. CountsMove
  BY <1>1, <1>4, CountsKept DEF Counting
<1>8. ~ Safe
  BY <1>1 DEF Safe, Threads, ThreadOK
<1> QED
  BY <1>5, <1>6, <1>7, <1>8 DEF StepOK

\* The same for the collection of hazard pointers by a helper.
LEMMA HelpCollectHpStep ==
  ASSUME Typed, NEW p \in Participants, HelpCollectHp(p)
  PROVE  StepOK
<1>1. /\ p \in Agents /\ p # Coll /\ Pinned(p) /\ m[p].pc = "scanHps" /\ m \in [Agents -> Op]
      /\ m[p].obj \in Objs /\ guard[p].ts \in Nat
      /\ UNCHANGED <<epoch, guard, col, color, rc, link, place, cell, held, hp, prog, observed, ops,
                     tasks, mtModified, stage, doomed>>
  <2>1. p \in Agents /\ m[p].pc = "scanHps"
    BY DEF HelpCollectHp, At, Agents
  <2>2. Pinned(p)
    BY <2>1 DEF Typed, OpsOK, OpOK
  <2> QED
    BY <2>1, <2>2, HeapAssumption, GuardFacts
    DEF HelpCollectHp, phaseVars, objVars, rootVars, progVars, markVars, colVars, Typed, HeapTypes,
        OpsOK, OpOK
<1>2. m' = m \/ Advanced(p, "scanHazard")
  <2>1. CASE Goto(p, "scanHazard")
    BY <1>1, <2>1, GotoMoves DEF Pcs
  <2> QED
    BY <2>1 DEF HelpCollectHp
<1>3. /\ hazards' \in [Agents -> SUBSET Objs] /\ todo' \in [Agents -> SUBSET Agents]
      /\ hazardsTs' \in [Agents -> Nat]
  <2>1. CASE \E q \in Participants : CollectHp(p, q) /\ UNCHANGED hazardsTs
    <3>1. PICK q \in Participants : CollectHp(p, q) /\ UNCHANGED hazardsTs
      BY <2>1
    <3>2. {hp[q]} \ {Null} \in SUBSET Objs
      BY DEF Typed, HeapTypes
    <3> QED
      BY <1>1, <3>1, <3>2 DEF CollectHp, Typed, HeapTypes
  <2>2. CASE /\ hazardsTs' = [hazardsTs EXCEPT ![p] = guard[p].ts]
             /\ UNCHANGED <<hazards, todo>>
    BY <1>1, <2>2 DEF Typed, HeapTypes
  <2> QED
    BY <2>1, <2>2 DEF HelpCollectHp
<1>4. /\ Moved(p) /\ m'[p].pc \in {"scanHps", "scanHazard"} /\ m'[p].obj = m[p].obj
  BY <1>1, <1>2 DEF Moved, Advanced
<1>5. HeapTypes'
  BY <1>1, <1>3, <1>4 DEF Typed, HeapTypes, Moved
<1>6. OpsOK'
  BY <1>1, <1>4, OpsStep DEF OpOK, Pinned
<1>7. CountsMove
  BY <1>1, <1>4, CountsKept DEF Counting
<1>8. ~ Safe
  BY <1>1 DEF Safe, Threads, ThreadOK
<1> QED
  BY <1>5, <1>6, <1>7, <1>8 DEF StepOK

\* The same for the test against the collected hazard pointers.
LEMMA HelpScanHazardStep ==
  ASSUME Typed, NEW p \in Participants, HelpScanHazard(p)
  PROVE  StepOK
<1>1. /\ p \in Agents /\ p # Coll /\ Pinned(p) /\ m[p].pc = "scanHazard" /\ m \in [Agents -> Op]
      /\ m[p].obj \in Objs
      /\ UNCHANGED <<epoch, guard, col, color, rc, link, place, cell, held, hp, prog, observed, ops,
                     tasks, mtModified, hazards, hazardsTs, todo, stage, doomed>>
  BY HeapAssumption DEF HelpScanHazard, At, phaseVars, objVars, rootVars, progVars, markVars, scanVars,
     colVars, Agents, Typed, HeapTypes, OpsOK, OpOK
<1>2. Began(p, "mark", m[p].obj, NoLink, Null, "toMarked") \/ Advanced(p, "toMarked")
  <2>1. CASE m' = [m EXCEPT ![p] = MarkOp(m[p].obj, "toMarked")]
    BY <1>1, <2>1, MarkOpMoves
  <2>2. CASE Goto(p, "toMarked")
    BY <1>1, <2>2, GotoMoves DEF Pcs
  <2> QED
    BY <2>1, <2>2 DEF HelpScanHazard
<1>3. /\ Moved(p) /\ m'[p].pc \in {"mark", "toMarked"} /\ m'[p].obj = m[p].obj
  BY <1>2 DEF Began, Advanced
<1>4. HeapTypes'
  BY <1>1, <1>3 DEF Typed, HeapTypes, Moved
<1>5. OpsOK'
  BY <1>1, <1>3, OpsStep DEF OpOK, Pinned
<1>6. CountsMove
  BY <1>1, <1>3, CountsKept DEF Counting
<1>7. ~ Safe
  BY <1>1 DEF Safe, Threads, ThreadOK
<1> QED
  BY <1>4, <1>5, <1>6, <1>7 DEF StepOK

\* The same for a task that a helper takes off its own queue.
LEMMA HelpMarkTaskStep ==
  ASSUME Typed, NEW p \in Participants, HelpMarkTask(p)
  PROVE  StepOK
<1>1. /\ p \in Agents /\ p # Coll /\ m[p].pc \in {"idle", "popTask"} /\ m \in [Agents -> Op]
      /\ m[p].pc = "idle" => Pinned(p) /\ p \in prog.tracers
      /\ UNCHANGED <<epoch, guard, col, color, rc, link, place, cell, held, hp, prog, observed, ops,
                     hazards, hazardsTs, todo, stage, doomed>>
  BY HeapAssumption DEF HelpMarkTask, Ready, At, phaseVars, objVars, rootVars, progVars, scanVars,
     colVars, Agents, Typed, HeapTypes
<1>2. Pinned(p)
  BY <1>1 DEF Typed, OpsOK, OpOK
<1>3. guard[p].ts \in Nat
  BY <1>2, GuardFacts DEF Typed
<1>4. /\ tasks' \in [Agents -> SUBSET Objs] /\ mtModified' \in [Agents -> Nat]
      /\ Moved(p) /\ m'[p].pc \in {"idle", "popTask", "mark"} /\ (m'[p].pc = "mark" => m'[p].obj \in Objs)
  <2>1. CASE /\ mtModified' = [mtModified EXCEPT ![p] = guard[p].ts]
             /\ Goto(p, "popTask") /\ tasks' = tasks
    BY <1>1, <1>3, <2>1, GotoMoves DEF Pcs, Advanced, Typed, HeapTypes
  <2>2. CASE /\ mtModified' = mtModified
             /\ \E o \in tasks[p] :
                  /\ tasks' = [tasks EXCEPT ![p] = @ \ {o}]
                  /\ m' = [m EXCEPT ![p] = IF IsMarked(p, o) THEN Idle ELSE MarkOp(o, "idle")]
    <3>1. PICK o \in tasks[p] :
            /\ tasks' = [tasks EXCEPT ![p] = @ \ {o}]
            /\ m' = [m EXCEPT ![p] = IF IsMarked(p, o) THEN Idle ELSE MarkOp(o, "idle")]
      BY <2>2
    <3>2. o \in Objs
      BY <1>1 DEF Typed, HeapTypes
    <3>3. CASE m' = [m EXCEPT ![p] = Idle]
      BY <1>1, <2>2, <3>1, <3>3, ReturnMoves DEF Return, Ended, Began, Typed, HeapTypes
    <3>4. CASE m' = [m EXCEPT ![p] = MarkOp(o, "idle")]
      BY <1>1, <2>2, <3>1, <3>2, <3>4, MarkOpMoves DEF Began, Typed, HeapTypes
    <3> QED
      BY <3>1, <3>3, <3>4
  <2>3. CASE Return(p) /\ tasks' = tasks /\ mtModified' = mtModified
    BY <1>1, <2>3, ReturnMoves DEF Ended, Began, Typed, HeapTypes
  <2> QED
    BY <2>1, <2>2, <2>3 DEF HelpMarkTask, markVars
<1>5. HeapTypes'
  BY <1>1, <1>4 DEF Typed, HeapTypes, Moved
<1>6. OpsOK'
  BY <1>1, <1>2, <1>4, OpsStep DEF OpOK, Pinned
<1>7. CountsMove
  BY <1>1, <1>4, CountsKept DEF Counting
<1>8. ~ Safe
  BY <1>1 DEF Safe, Shape, Plain, Threads, ThreadOK
<1> QED
  BY <1>5, <1>6, <1>7, <1>8 DEF StepOK
=============================================================================

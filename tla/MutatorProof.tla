---------------------------- MODULE MutatorProof ----------------------------
(***************************************************************************)
(* How steps change the heap, the invariant of the heap, and the steps of  *)
(* the mutators.                                                           *)
(***************************************************************************)
EXTENDS Cdpt, Integers, TLAPS

\* The default prover; a leaf with arithmetic or records names SMT.
USE ZenonT(60)

-----------------------------------------------------------------------------
(* The phases.                                                              *)

\* The collector's position and the phase it has published go together.
ColMatchesPhase ==
  epoch.phase = CASE col \in {"rtWait", "rt"} -> "RT"
                  [] col \in {"ctWait", "ct"} -> "CT"
                  [] OTHER -> "N"

\* The inductive invariant: GuardLag needs to know which phase comes next.
PhasesInv == PhasesTypeOK /\ ColMatchesPhase /\ GuardLag

\* The starting epoch, with nobody pinned.
LEMMA PhasesInitInv == PhasesInit => PhasesInv
BY SMTT(60) DEF PhasesInit, PhasesInv, PhasesTypeOK, ColMatchesPhase, GuardLag,
       StartingEpoch, Epoch, Phase, Color, ColPoints, Pinned

\* Pinning, unpinning, publications and the ends of waits keep the invariant: a
\* publication leaves the guards of the epoch before it, and only the end of the wait
\* lets the collector publish again.
LEMMA PhasesStepInv == PhasesInv /\ [PhasesNext]_phaseVars => PhasesInv'
<1> SUFFICES ASSUME PhasesInv, [PhasesNext]_phaseVars
             PROVE  PhasesInv'
  OBVIOUS
<1> USE DEF PhasesInv
<1>1. ASSUME NEW p \in Participants, Pin(p)
      PROVE  PhasesInv'
  BY <1>1, NoEpochAssumption
  DEF Pin, Pinned, PhasesTypeOK, ColMatchesPhase, GuardLag
<1>2. ASSUME NEW p \in Participants, Unpin(p)
      PROVE  PhasesInv'
  BY <1>2 DEF Unpin, Pinned, PhasesTypeOK, ColMatchesPhase, GuardLag
<1>3. CASE StartRootTracing
  <2>1. epoch' \in Epoch
    BY <1>3, SMTT(60) DEF StartRootTracing, Publish, PhasesTypeOK, Epoch, Phase
  <2>2. Precedes(epoch, epoch')
    BY <1>3 DEF StartRootTracing, Publish, PhasesTypeOK, Epoch, Phase, Precedes, ColMatchesPhase
  <2> QED
    BY <1>3, <2>1, <2>2
    DEF StartRootTracing, Publish, PhasesTypeOK, ColPoints, ColMatchesPhase, GuardLag, Pinned, Epoch
<1>4. CASE StartCompletionTracing
  <2>1. epoch' \in Epoch
    BY <1>4, SMTT(60) DEF StartCompletionTracing, Publish, PhasesTypeOK, Epoch, Phase
  <2>2. Precedes(epoch, epoch')
    BY <1>4
    DEF StartCompletionTracing, Publish, PhasesTypeOK, Epoch, Phase, Precedes, ColMatchesPhase
  <2> QED
    BY <1>4, <2>1, <2>2
    DEF StartCompletionTracing, Publish, PhasesTypeOK, ColPoints, ColMatchesPhase, GuardLag,
        Pinned, Epoch
<1>5. CASE StartNormal
  <2>1. epoch' \in Epoch
    BY <1>5, SMTT(60) DEF StartNormal, Publish, PhasesTypeOK, Epoch, Phase, Color, Flip
  <2>2. Precedes(epoch, epoch')
    BY <1>5
    DEF StartNormal, Publish, PhasesTypeOK, Epoch, Phase, Precedes, ColMatchesPhase
  <2> QED
    BY <1>5, <2>1, <2>2
    DEF StartNormal, Publish, PhasesTypeOK, ColPoints, ColMatchesPhase, GuardLag, Pinned, Epoch
<1>6. CASE EndSweep
  BY <1>6 DEF EndSweep, PhasesTypeOK, ColPoints, ColMatchesPhase, GuardLag, Pinned
<1>7. CASE EndWait
  <2>1. \A p \in Participants : Pinned(p) => guard[p] = epoch
    BY <1>7, SMTT(60) DEF EndWait, OldGuard, GuardLag, Precedes, PhasesTypeOK, Epoch, Pinned
  <2>2. col' \in ColPoints /\ ColMatchesPhase'
    BY <1>7 DEF EndWait, Waiting, AfterWait, ColPoints, ColMatchesPhase
  <2> QED
    BY <1>7, <2>1, <2>2 DEF EndWait, PhasesTypeOK, GuardLag, Pinned
<1>8. CASE UNCHANGED phaseVars
  BY <1>8 DEF phaseVars, PhasesTypeOK, ColMatchesPhase, GuardLag, Pinned
<1> QED
  BY <1>1, <1>2, <1>3, <1>4, <1>5, <1>6, <1>7, <1>8 DEF PhasesNext

\* In every behaviour of the phases each guard is of the published epoch or of
\* the one right before it, the latter only while the collector sweeps or waits:
\* what wait_all_mutators_unpin is there for.
THEOREM GuardLagHolds == PhasesSpec => []GuardLag
<1>1. PhasesInv => GuardLag
  BY DEF PhasesInv
<1> QED
  BY <1>1, PhasesInitInv, PhasesStepInv, PTL DEF PhasesSpec

\* What the lag of the guards says about their colors.
LEMMA InvColors == PhasesInv => AllocColorAgreement /\ WhiteAgreement
<1> SUFFICES ASSUME PhasesInv, NEW p \in Participants, Pinned(p)
             PROVE  /\ col # "rtWait" => AllocColor(guard[p]) = AllocColor(epoch)
                    /\ col \notin {"sweep", "nWait"} => guard[p].white = epoch.white
  BY DEF AllocColorAgreement, WhiteAgreement
<1>1. CASE guard[p] = epoch
  BY <1>1
<1>2. CASE /\ Precedes(guard[p], epoch)
           /\ col \in {"rtWait", "ctWait", "sweep", "nWait"}
  <2>1. guard[p] \in Epoch /\ epoch \in Epoch
    BY DEF PhasesInv, PhasesTypeOK, Pinned
  <2> QED
    BY <1>2, <2>1
    DEF PhasesInv, ColMatchesPhase, PhasesTypeOK, ColPoints, Precedes, AllocColor, Flip, Epoch, Color, Phase
<1> QED
  BY <1>1, <1>2 DEF PhasesInv, GuardLag

\* The lists that take_obj_batch empties, and the lists that are filled during
\* the sweep, are indexed by one color for all guards; and marked means the
\* same to all guards outside the sweep.
THEOREM ColorAgreement == PhasesSpec => []AllocColorAgreement /\ []WhiteAgreement
BY InvColors, PhasesInitInv, PhasesStepInv, PTL DEF PhasesSpec

-----------------------------------------------------------------------------
(* How a step moves the operation of one thread.                            *)

\* Only the operation of a moves.
Moved(a) ==
  /\ m' \in [Agents -> Op]
  /\ \A x \in Agents : x # a => m'[x] = m[x]

\* The operation of a is now pc, with the arguments it had.
Advanced(a, pc) ==
  /\ Moved(a)
  /\ m'[a].pc = pc /\ m'[a].obj = m[a].obj /\ m'[a].old = m[a].old
  /\ m'[a].new = m[a].new /\ m'[a].ret = m[a].ret

\* The operation of a is now pc, with these arguments.
Began(a, pc, obj, old, new, ret) ==
  /\ Moved(a)
  /\ m'[a].pc = pc /\ m'[a].obj = obj /\ m'[a].old = old
  /\ m'[a].new = new /\ m'[a].ret = ret

Ended(a) == Began(a, "idle", Null, NoLink, Null, "idle")

Pcs == {"idle", "dijkstra", "casLink", "yuasa", "shade", "casCell", "decRoot", "shadeOld", "unroot",
        "unrootTest", "unrootShade", "scanRoot", "scanHps", "scanHazard", "toMarked", "sweepBox",
        "popTask", "mark", "markCas", "markHeader"}

\* m' = [m EXCEPT ![a] = r] moves a to r.
LEMMA SetMoves ==
  ASSUME m \in [Agents -> Op], NEW a \in Agents, NEW r \in Op, m' = [m EXCEPT ![a] = r]
  PROVE  Began(a, r.pc, r.obj, r.old, r.new, r.ret)
BY DEF Began, Moved

\* An operation, field by field.
LEMMA OpFields ==
  ASSUME NEW r
  PROVE  r \in Op <=> /\ r = [pc |-> r.pc, obj |-> r.obj, old |-> r.old, new |-> r.new, ret |-> r.ret]
                      /\ r.pc \in Pcs /\ r.obj \in Objs \cup Cells \cup {Null} /\ r.old \in Link
                      /\ r.new \in Objs \cup {Null} /\ r.ret \in {"idle", "toMarked"}
BY DEF Op, Pcs

\* A thread between two operations.
LEMMA IdleOp == Idle \in Op /\ NoLink \in Link
BY DEF Idle, Op, NoLink, Link, Color

\* Goto keeps the arguments of the operation.
LEMMA GotoMoves ==
  ASSUME m \in [Agents -> Op], NEW a \in Agents, NEW pc \in Pcs, Goto(a, pc)
  PROVE  Advanced(a, pc)
<1> DEFINE r == [m[a] EXCEPT !.pc = pc]
<1>1. m' = [m EXCEPT ![a] = r]
  BY DEF Goto
<1>2. r \in Op /\ r.pc = pc /\ r.obj = m[a].obj /\ r.old = m[a].old /\ r.new = m[a].new
      /\ r.ret = m[a].ret
  BY DEF Op, Pcs
<1> HIDE DEF r
<1> QED
  BY <1>1, <1>2, SetMoves DEF Advanced, Began

\* Return ends the operation.
LEMMA ReturnMoves ==
  ASSUME m \in [Agents -> Op], NEW a \in Agents, Return(a)
  PROVE  Ended(a)
<1>1. Began(a, Idle.pc, Idle.obj, Idle.old, Idle.new, Idle.ret)
  BY IdleOp, SetMoves DEF Return
<1> QED
  BY <1>1 DEF Ended, Idle

\* An operation that starts with [Idle EXCEPT ...].
LEMMA MarkOpMoves ==
  ASSUME m \in [Agents -> Op], NEW a \in Agents, NEW o \in Objs, NEW ret \in {"idle", "toMarked"},
         m' = [m EXCEPT ![a] = MarkOp(o, ret)]
  PROVE  Began(a, "mark", o, NoLink, Null, ret)
<1> DEFINE r == MarkOp(o, ret)
<1>1. r \in Op
  BY IdleOp DEF MarkOp, Op
<1>2. r.pc = "mark" /\ r.obj = o /\ r.old = NoLink /\ r.new = Null /\ r.ret = ret
  BY DEF MarkOp, Idle
<1> HIDE DEF r
<1> QED
  BY <1>1, <1>2, SetMoves DEF r

\* What DecRootOp leaves p to do.
LEMMA DecRootOpMoves ==
  ASSUME m \in [Agents -> Op], NEW a \in Agents, NEW o \in Objs \cup {Null},
         m' = [m EXCEPT ![a] = DecRootOp(o)]
  PROVE  \/ o = Null /\ Ended(a)
         \/ o \in Objs /\ \E old \in Link : old.to = o /\ Began(a, "decRoot", Null, old, Null, "idle")
<1>1. CASE o = Null
  BY <1>1, ReturnMoves DEF DecRootOp, Return
<1>2. CASE o # Null
  <2> DEFINE old == [NoLink EXCEPT !.to = o]
             r == [Idle EXCEPT !.pc = "decRoot", !.old = old]
  <2>1. old \in Link /\ old.to = o
    BY DEF NoLink, Link, Color
  <2>2. r = DecRootOp(o)
    BY <1>2 DEF DecRootOp
  <2> HIDE DEF old
  <2>3. r \in Op
    BY <2>1, IdleOp DEF Op
  <2>4. r.pc = "decRoot" /\ r.obj = Null /\ r.old = old /\ r.new = Null /\ r.ret = "idle"
    BY DEF Idle
  <2> HIDE DEF r
  <2>5. Began(a, "decRoot", Null, old, Null, "idle")
    BY <2>2, <2>3, <2>4, SetMoves
  <2> QED
    BY <1>2, <2>1, <2>5
<1> QED
  BY <1>1, <1>2

\* What ShadeOp leaves p to do.
LEMMA ShadeOpMoves ==
  ASSUME m \in [Agents -> Op], NEW a \in Agents, NEW o \in Objs \cup {Null},
         m' = [m EXCEPT ![a] = ShadeOp(o)]
  PROVE  \E old \in Link : old.to = o /\ Began(a, "shade", Null, old, Null, "idle")
<1> DEFINE old == [NoLink EXCEPT !.to = o]
           r == [Idle EXCEPT !.pc = "shade", !.old = old]
<1>1. old \in Link /\ old.to = o
  BY DEF NoLink, Link, Color
<1>2. r = ShadeOp(o)
  BY DEF ShadeOp
<1> HIDE DEF old
<1>3. r \in Op
  BY <1>1, IdleOp DEF Op
<1>4. r.pc = "shade" /\ r.obj = Null /\ r.old = old /\ r.new = Null /\ r.ret = "idle"
  BY DEF Idle
<1> HIDE DEF r
<1>5. Began(a, "shade", Null, old, Null, "idle")
  BY <1>2, <1>3, <1>4, SetMoves
<1> QED
  BY <1>1, <1>5

\* An exchange of a link begins with the Dijkstra barrier or with the exchange
\* proper.
LEMMA PrepareLinkMoves ==
  ASSUME m \in [Agents -> Op], NEW p \in Agents, NEW o \in Objs, NEW ptr \in Link,
         NEW new \in Objs \cup {Null}, PrepareLink(p, o, ptr, new)
  PROVE  \/ ptr.to # new /\ ptr.color = Black(p) /\ Began(p, "dijkstra", o, ptr, new, "idle")
         \/ ~ (ptr.to # new /\ ptr.color = Black(p)) /\ Began(p, "casLink", o, ptr, new, "idle")
<1> PICK pc \in {"dijkstra", "casLink"} :
      pc = IF ptr.to # new /\ ptr.color = Black(p) THEN "dijkstra" ELSE "casLink"
  OBVIOUS
<1> DEFINE r == [Idle EXCEPT !.pc = pc, !.obj = o, !.old = ptr, !.new = new]
<1>1. m' = [m EXCEPT ![p] = r]
  BY DEF PrepareLink
<1>2. r \in Op
  BY IdleOp DEF Op
<1>3. r.pc = pc /\ r.obj = o /\ r.old = ptr /\ r.new = new /\ r.ret = "idle"
  BY DEF Idle
<1> HIDE DEF r
<1>4. Began(p, pc, o, ptr, new, "idle")
  BY <1>1, <1>2, <1>3, SetMoves
<1> QED
  BY <1>4

\* A box is popped for a to scan or sweep it.
LEMMA PopMoves ==
  ASSUME m \in [Agents -> Op], NEW a \in Agents, NEW o \in Objs, NEW pc \in {"scanRoot", "sweepBox"},
         m' = [m EXCEPT ![a] = [Idle EXCEPT !.pc = pc, !.obj = o]]
  PROVE  Began(a, pc, o, NoLink, Null, "idle")
<1> DEFINE r == [Idle EXCEPT !.pc = pc, !.obj = o]
<1>1. r \in Op
  BY IdleOp DEF Op
<1>2. r.pc = pc /\ r.obj = o /\ r.old = NoLink /\ r.new = Null /\ r.ret = "idle"
  BY DEF Idle
<1> HIDE DEF r
<1> QED
  BY <1>1, <1>2, SetMoves DEF r

\* An exchange of a cell keeps what it has read and what it stores.
LEMMA ExchangeCellMoves ==
  ASSUME m \in [Agents -> Op], cell \in [Cells -> Objs \cup {Null}],
         NEW p \in Agents, NEW c \in Cells, NEW new \in Objs \cup {Null}, ExchangeCell(p, c, new)
  PROVE  \E old \in Link : old.to = cell[c] /\ Began(p, "casCell", c, old, new, "idle")
<1> DEFINE old == [NoLink EXCEPT !.to = cell[c]]
           r == [Idle EXCEPT !.pc = "casCell", !.obj = c, !.old = old, !.new = new]
<1>1. old \in Link /\ old.to = cell[c]
  BY DEF NoLink, Link, Color
<1>2. m' = [m EXCEPT ![p] = r]
  BY DEF ExchangeCell
<1> HIDE DEF old
<1>3. r \in Op
  BY <1>1, IdleOp DEF Op
<1>4. r.pc = "casCell" /\ r.obj = c /\ r.old = old /\ r.new = new /\ r.ret = "idle"
  BY DEF Idle
<1> HIDE DEF r
<1>5. Began(p, "casCell", c, old, new, "idle")
  BY <1>2, <1>3, <1>4, SetMoves
<1> QED
  BY <1>1, <1>5

\* A swap of a cell that failed has read the cell again.
LEMMA RetryCellMoves ==
  ASSUME m \in [Agents -> Op], NEW p \in Agents, NEW o \in Objs \cup {Null},
         m' = [m EXCEPT ![p].old.to = o]
  PROVE  /\ Moved(p) /\ m'[p].pc = m[p].pc /\ m'[p].obj = m[p].obj /\ m'[p].new = m[p].new
         /\ m'[p].ret = m[p].ret /\ m'[p].old.to = o
<1> DEFINE old == [m[p].old EXCEPT !.to = o]
           r == [m[p] EXCEPT !.old = old]
<1>1. m' = [m EXCEPT ![p] = r]
  OBVIOUS
<1>2. m[p].old \in Link
  BY DEF Op
<1>3. old \in Link /\ old.to = o
  BY <1>2 DEF Link
<1> HIDE DEF old
<1>4. r \in Op
  BY <1>3 DEF Op
<1>5. r.pc = m[p].pc /\ r.obj = m[p].obj /\ r.old = old /\ r.new = m[p].new /\ r.ret = m[p].ret
  BY DEF Op
<1> HIDE DEF r
<1> QED
  BY <1>1, <1>3, <1>4, <1>5, SetMoves DEF Began

\* An allocation keeps the child and the color of the link that it is to store.
LEMMA AllocateMoves ==
  ASSUME m \in [Agents -> Op], NEW p \in Agents, NEW o \in Objs, NEW child \in Objs \cup {Null},
         AllocColor(guard[p]) \in Color, Allocate(p, o, child)
  PROVE  \E old \in Link : /\ old.to = child /\ old.color = AllocColor(guard[p])
                          /\ Began(p, "unroot", o, old, Null, "idle")
<1> DEFINE old == [to |-> child, color |-> AllocColor(guard[p])]
           r == [Idle EXCEPT !.pc = "unroot", !.obj = o, !.old = old]
<1>1. old \in Link /\ old.to = child /\ old.color = AllocColor(guard[p])
  BY DEF Link
<1>2. m' = [m EXCEPT ![p] = r]
  BY DEF Allocate
<1> HIDE DEF old
<1>3. r \in Op
  BY <1>1, IdleOp DEF Op
<1>4. r.pc = "unroot" /\ r.obj = o /\ r.old = old /\ r.new = Null /\ r.ret = "idle"
  BY DEF Idle
<1> HIDE DEF r
<1>5. Began(p, "unroot", o, old, Null, "idle")
  BY <1>2, <1>3, <1>4, SetMoves
<1> QED
  BY <1>1, <1>5

\* The link that a found white goes with it to markCas.
LEMMA MarkCasMoves ==
  ASSUME m \in [Agents -> Op], NEW a \in Agents, NEW ptr \in Link,
         m' = [m EXCEPT ![a].pc = "markCas", ![a].old = ptr]
  PROVE  Began(a, "markCas", m[a].obj, ptr, m[a].new, m[a].ret)
<1> DEFINE r == [m[a] EXCEPT !.pc = "markCas", !.old = ptr]
<1>1. m' = [m EXCEPT ![a] = r]
  OBVIOUS
<1>2. r \in Op
  BY DEF Op
<1>3. r.pc = "markCas" /\ r.obj = m[a].obj /\ r.old = ptr /\ r.new = m[a].new /\ r.ret = m[a].ret
  BY DEF Op
<1> HIDE DEF r
<1>4. Began(a, r.pc, r.obj, r.old, r.new, r.ret)
  BY ONLY m \in [Agents -> Op], a \in Agents, <1>1, <1>2, SetMoves, ZenonT(60)
<1> QED
  BY <1>3, <1>4

\* After the header the operation goes on with the scanned box, or ends.
LEMMA MarkHeaderMoves ==
  ASSUME m \in [Agents -> Op], NEW a \in Agents, m[a].obj \in Objs, MarkHeader(a)
  PROVE  \/ m[a].ret = "idle" /\ Ended(a)
         \/ m[a].ret = "toMarked" /\ Began(a, "toMarked", m[a].obj, NoLink, Null, "idle")
<1> PICK o \in Objs \cup {Null} : o = IF m[a].ret = "idle" THEN Null ELSE m[a].obj
  OBVIOUS
<1> DEFINE r == [Idle EXCEPT !.pc = m[a].ret, !.obj = o]
<1>1. m' = [m EXCEPT ![a] = r]
  BY DEF MarkHeader
<1>2. m[a].ret \in {"idle", "toMarked"}
  BY DEF Op
<1>3. r \in Op
  BY <1>2, IdleOp DEF Op
<1>4. r.pc = m[a].ret /\ r.obj = o /\ r.old = NoLink /\ r.new = Null /\ r.ret = "idle"
  BY DEF Idle
<1> HIDE DEF r
<1>5. Began(a, m[a].ret, o, NoLink, Null, "idle")
  BY <1>1, <1>3, <1>4, SetMoves
<1> QED
  BY <1>2, <1>5 DEF Ended

-----------------------------------------------------------------------------
(* Types and arguments, for every program.                                  *)

\* TypeOK but for the part of Phases, with root counts that may be negative.
HeapTypes ==
  /\ prog \in Programs
  /\ color \in [Objs -> Color]
  /\ rc \in [Objs -> Int]
  /\ link \in [Objs -> Link]
  /\ place \in [Objs -> Places]
  /\ cell \in [Cells -> Objs \cup {Null}]
  /\ held \in [Participants -> SUBSET Objs]
  /\ hp \in [Participants -> Objs \cup {Null}]
  /\ observed \in [Participants -> Nat]
  /\ ops \in Nat
  /\ tasks \in [Agents -> SUBSET Objs]
  /\ mtModified \in [Agents -> Nat]
  /\ hazards \in [Agents -> SUBSET Objs]
  /\ hazardsTs \in [Agents -> Nat]
  /\ todo \in [Agents -> SUBSET Agents]
  /\ m \in [Agents -> Op]
  /\ stage \in {"none", "take", "hps", "scan", "drain", "confirm1", "confirm2",
                "confirm3", "confirmed"}
  /\ doomed \in SUBSET Objs

\* The arguments of an operation are there when it looks at them, and a thread is
\* within an operation only under a guard.
OpOK(a) ==
  /\ m[a].pc \notin {"idle", "casCell", "decRoot", "shadeOld", "shade", "popTask"} => m[a].obj \in Objs
  /\ m[a].pc = "casCell" => m[a].obj \in Cells
  /\ m[a].pc \in {"decRoot", "shadeOld", "shade"} => m[a].obj = Null
  /\ m[a].pc \in {"decRoot", "shadeOld", "unrootTest", "unrootShade"} => m[a].old.to \in Objs
  /\ a \in Participants /\ m[a].pc # "idle" => Pinned(a)
  /\ a = Coll => m[a].pc \in {"idle", "scanRoot", "toMarked", "sweepBox", "mark", "markCas",
                             "markHeader"}
OpsOK == \A a \in Agents : OpOK(a)

Typed == HeapTypes /\ PhasesInv /\ OpsOK

\* a has counted a reference to o that it has still to store or to give up.
Counting(a, o) ==
  \/ m[a].pc = "casCell" /\ m[a].new = o
  \/ m[a].pc \in {"decRoot", "unroot"} /\ m[a].old.to = o

Bit(b) == IF b THEN 1 ELSE 0

\* The count of every object grows by as much as a counts more.
CountsWithOps(a) ==
  /\ cell' = cell
  /\ \A o \in Objs : rc'[o] + Bit(Counting(a, o)) = rc[o] + Bit(Counting(a, o)')

\* The same when the cell c changes too.
CountsWithCell(a, c) ==
  /\ \A d \in Cells : d # c => cell'[d] = cell[d]
  /\ \A o \in Objs : rc'[o] + Bit(Counting(a, o)) + Bit(cell[c] = o)
                       = rc[o] + Bit(Counting(a, o)') + Bit(cell'[c] = o)

\* How a step changes the root counts and what they count.
CountsMove ==
  \/ UNCHANGED <<rc, cell, m>>
  \/ \E a \in Agents : Moved(a) /\ (CountsWithOps(a) \/ \E c \in Cells : CountsWithCell(a, c))

\* A step of a that neither counts nor stores a reference.
LEMMA CountsKept ==
  ASSUME Typed, NEW a \in Agents, Moved(a), rc' = rc, cell' = cell,
         \A o \in Objs : Counting(a, o)' <=> Counting(a, o)
  PROVE  CountsMove
<1>1. CountsWithOps(a)
  BY DEF CountsWithOps, Bit, Typed, HeapTypes
<1> QED
  BY <1>1 DEF CountsMove

\* Every reference that a cell holds or an operation has counted is counted.
RootsCounted ==
  \A o \in Objs :
    /\ rc[o] >= 0
    /\ (\E c \in Cells : cell[c] = o) \/ (\E a \in Agents : Counting(a, o)) => rc[o] > 0

\* Only the operation of the thread that moves is to be looked at.
LEMMA OpsStep ==
  ASSUME Typed, NEW a \in Agents, Moved(a), OpOK(a)', guard' = guard
  PROVE  OpsOK'
BY DEF Typed, OpsOK, OpOK, Moved, Pinned

\* The colors that a thread uses under its guard are colors.
LEMMA ColorsOf ==
  ASSUME Typed, NEW a \in Agents, a = Coll \/ Pinned(a)
  PROVE  /\ EpochOf(a) \in Epoch /\ White(a) \in Color /\ Black(a) \in Color
         /\ AllocColor(EpochOf(a)) \in Color
         /\ Black(a) # White(a) /\ \A c \in Color : c # White(a) => c = Black(a)
<1>1. EpochOf(a) \in Epoch
  BY DEF Typed, PhasesInv, PhasesTypeOK, EpochOf, Pinned, Agents
<1> QED
  BY <1>1, SMTT(60) DEF White, Black, Flip, Color, Epoch, AllocColor

\* The queues after a has shaded o.
Shaded(a, o) ==
  /\ tasks' \in [Agents -> SUBSET Objs] /\ mtModified' \in [Agents -> Nat]
  /\ \A x \in Agents : x # a => tasks'[x] = tasks[x]
  /\ o \in Objs /\ ~ IsMarked(a, o) => tasks'[a] = tasks[a] \cup {o}
  /\ ~ (o \in Objs /\ ~ IsMarked(a, o)) => tasks'[a] = tasks[a]

\* What ShadePointee does to the queues.
LEMMA ShadeEffect ==
  ASSUME Typed, NEW a \in Agents, a = Coll \/ Pinned(a), NEW o \in Objs \cup {Null},
         ShadePointee(a, o)
  PROVE  Shaded(a, o)
<1>1. EpochOf(a).ts \in Nat
  BY ColorsOf DEF Epoch
<1>2. Null \notin Objs
  BY HeapAssumption
<1>3. CASE o \in Objs /\ ~ IsMarked(a, o)
  BY <1>1, <1>2, <1>3, SMTT(60), Z3T(60) DEF Shaded, ShadePointee, Typed, HeapTypes
<1>4. CASE ~ (o \in Objs /\ ~ IsMarked(a, o))
  BY <1>2, <1>4 DEF Shaded, ShadePointee, Typed, HeapTypes, markVars
<1> QED
  BY <1>3, <1>4

\* The Local<Guard>s after p has loaded o.
Loaded(p, o) ==
  /\ held' \in [Participants -> SUBSET Objs]
  /\ \A q \in Participants : q # p => held'[q] = held[q]
  /\ held'[p] = held[p] \cup ({o} \ {Null})

\* What a load does to the references of the thread.
LEMMA HoldEffect ==
  ASSUME held \in [Participants -> SUBSET Objs], NEW p \in Participants, NEW o \in Objs \cup {Null},
         Hold(p, o)
  PROVE  Loaded(p, o)
BY DEF Hold, Loaded

\* Only the count of o changes, by d.
Counted(o, d) ==
  /\ \A x \in Objs : rc'[x] = IF x = o THEN rc[x] + d ELSE rc[x]
  /\ rc' = [x \in Objs |-> rc'[x]]

\* IncRoot counts one reference, none for Null.
LEMMA IncEffect ==
  ASSUME rc \in [Objs -> Int], NEW o \in Objs \cup {Null}, rc' = IncRoot(rc, o)
  PROVE  Counted(o, 1)
BY HeapAssumption DEF IncRoot, Counted

\* A decrement gives up one reference.
LEMMA DecEffect ==
  ASSUME rc \in [Objs -> Int], NEW o \in Objs, rc' = [rc EXCEPT ![o] = @ - 1]
  PROVE  Counted(o, -1)
BY DEF Counted

\* FinishUnroot gives the object its link and hands it to p.
Built(p) ==
  /\ link' \in [Objs -> Link] /\ link'[m[p].obj] = m[p].old
  /\ \A x \in Objs : x # m[p].obj => link'[x] = link[x]
  /\ Loaded(p, m[p].obj)
  /\ Ended(p)

\* What the end of an allocation does to the link and to the references.
LEMMA FinishUnrootEffect ==
  ASSUME Typed, NEW p \in Participants, m[p].obj \in Objs, FinishUnroot(p)
  PROVE  Built(p)
<1> USE DEF Typed, HeapTypes
<1>1. p \in Agents /\ m[p].old \in Link
  BY DEF Agents, Op
<1>2. Ended(p)
  BY <1>1, ReturnMoves DEF FinishUnroot
<1>3. Loaded(p, m[p].obj)
  BY <1>1, HoldEffect DEF FinishUnroot
<1> QED
  BY <1>1, <1>2, <1>3 DEF FinishUnroot, Built

\* ShadeLink on the link ptr of the object that a marks.
LinkShaded(a, ptr) ==
  \/ /\ ptr.color = Black(a) /\ Advanced(a, "markHeader")
     /\ tasks' = tasks /\ mtModified' = mtModified
  \/ /\ ptr.color = White(a) /\ Shaded(a, ptr.to)
     /\ Began(a, "markCas", m[a].obj, ptr, m[a].new, m[a].ret)

\* What ShadeLink does to the operation and to the queues.
LEMMA ShadeLinkEffect ==
  ASSUME Typed, NEW a \in Agents, a = Coll \/ Pinned(a), NEW ptr \in Link,
         ShadeLink(a, ptr)
  PROVE  LinkShaded(a, ptr)
<1>1. m \in [Agents -> Op] /\ ptr.to \in Objs \cup {Null} /\ ptr.color \in Color
  BY DEF Typed, HeapTypes, Link
<1>2. CASE ptr.color = Black(a)
  BY <1>1, <1>2, GotoMoves DEF ShadeLink, LinkShaded, Pcs, markVars
<1>3. CASE ptr.color # Black(a)
  <2>1. ptr.color = White(a)
    BY <1>1, <1>3, ColorsOf
  <2>2. Shaded(a, ptr.to)
    BY <1>1, <1>3, ShadeEffect DEF ShadeLink, Shaded
  <2>3. Began(a, "markCas", m[a].obj, ptr, m[a].new, m[a].ret)
    BY <1>1, <1>3, MarkCasMoves DEF ShadeLink
  <2> QED
    BY <2>1, <2>2, <2>3 DEF LinkShaded
<1> QED
  BY <1>2, <1>3

-----------------------------------------------------------------------------
(* The inductive invariant of the collector's safety, for programs without  *)
(* tracing helpers in which hazard pointers and sweeping helpers do not mix.*)

Plain == prog.tracers = {} /\ (prog.hpUsers = {} \/ prog.sweepers = {})

W == epoch.white
B == Flip(epoch.white)
Tracing == col \in {"rtWait", "rt", "ctWait", "ct"}

MarkPcs == {"mark", "markCas", "markHeader"}
ShadePcs == {"yuasa", "shadeOld", "shade", "unrootTest", "unrootShade"}
LinkPcs == {"dijkstra", "casLink", "yuasa"}
RawPcs == {"unroot", "unrootTest", "unrootShade"}

\* Which stretch of the cycle a stage belongs to.
Stages ==
  /\ stage \in {"take", "hps", "scan"} => col = "rt"
  /\ stage = "drain" => col \in {"rt", "ct"}
  /\ stage \in {"confirm1", "confirm2", "confirm3", "confirmed"} => col = "ct"
  /\ stage = "none" => col \notin {"rt", "ct"}

CollOK ==
  /\ m[Coll].pc \in {"scanRoot", "toMarked"} => stage = "scan"
  /\ m[Coll].pc = "sweepBox" => col = "sweep"
  /\ m[Coll].pc \in MarkPcs => stage = IF m[Coll].ret = "toMarked" THEN "scan" ELSE "drain"

\* The box that a has popped is the object of its operation.
HoldsBox(a) ==
  \/ m[a].pc \in {"scanRoot", "toMarked", "sweepBox"}
  \/ m[a].pc \in MarkPcs /\ m[a].ret = "toMarked"

BatchOK == \A a \in Agents : \A o \in Objs : place[o] = Batch(a) <=> HoldsBox(a) /\ m[a].obj = o

\* Being swept; under construction; doomed by the confirmed marking; neither.
Swept(o) == \E a \in Agents : m[a].pc = "sweepBox" /\ m[a].obj = o
Raw(o) == \E p \in Participants : m[p].pc \in RawPcs /\ m[p].obj = o
Dead(o) == color[o] = B /\ (place[o] = Marked(B) \/ Swept(o))
Proper(o) == place[o] # Unborn /\ place[o] # Freed /\ ~ Dead(o) /\ ~ Raw(o)

IsLocal(o, c) == \E p \in Participants : place[o] = LocalObjs(p, c)
InList(o, c) == place[o] = Fresh(c) \/ IsLocal(o, c)

\* Where a box can be at each point of the cycle, and its color there.
BoxOK(o) ==
  /\ InList(o, B) => Tracing /\ color[o] = B
  /\ InList(o, W) /\ ~ Tracing => color[o] = W
  /\ place[o] = Marked(W) => col \in {"ctWait", "ct"} \/ stage \in {"scan", "drain"}
  /\ place[o] = Marked(B) => col = "sweep"
  /\ IsLocal(o, W) => col \notin {"ctWait", "ct"} /\ stage \notin {"hps", "scan", "drain"}
  /\ place[o] = Fresh(W) => col \notin {"ctWait", "ct"} /\ stage # "drain"
  /\ place[o] = Unborn => link[o] = NoLink
Boxes == \A o \in Objs : BoxOK(o)

\* The links are white between the cycles, and those of black objects are black.
LinkColors ==
  \A o \in Objs : Proper(o) =>
    /\ ~ Tracing => link[o].color = W
    /\ color[o] = B => link[o].color = B
HeaderOK == \A a \in Agents : m[a].pc = "markHeader" => link[m[a].obj].color = B

Shape == Plain /\ Stages /\ CollOK /\ BatchOK /\ Boxes /\ LinkColors /\ HeaderOK

ThreadOK(p) ==
  /\ m[p].pc \notin {"scanRoot", "scanHps", "scanHazard", "toMarked", "popTask"}
  /\ m[p].pc = "sweepBox" => p \in prog.sweepers /\ guard[p].phase = "N"
                            /\ col \in {"sweep", "nWait", "normal", "rtWait"}
  /\ m[p].pc \in MarkPcs => guard[p].phase = "RT" /\ m[p].ret = "idle" /\ hp[p] = m[p].obj
  /\ Pinned(p) \/ tasks[p] # {} \/ hp[p] # Null => p \in prog.threads
  /\ hp[p] # Null => p \in prog.hpUsers
  /\ ~ Pinned(p) => held[p] = {}
  /\ Pinned(p) => observed[p] = guard[p].ts
  /\ m[p].pc = "dijkstra" => m[p].old.color = Black(p)
  /\ ~ Tracing /\ Pinned(p) /\ guard[p].phase = "N" =>
       /\ m[p].pc \notin {"dijkstra", "shade", "unrootShade"}
       /\ m[p].pc = "casLink" => m[p].old.color = W
  /\ observed[p] <= epoch.ts

\* An object under construction has the allocation color and no link yet.
RawOK(p) ==
  m[p].pc \in RawPcs => /\ place[m[p].obj] = LocalObjs(p, AllocColor(guard[p]))
                        /\ link[m[p].obj] = NoLink
                        /\ color[m[p].obj] = AllocColor(guard[p])
                        /\ m[p].old.color = AllocColor(guard[p])
Threads == \A p \in Participants : ThreadOK(p) /\ RawOK(p)

\* Every reference that the program or an operation has is to a proper object.
ProperObjs == {o \in Objs : Proper(o)}
ProperPtrs == ProperObjs \cup {Null}
ArgsOK(a) ==
  /\ m[a].pc # "idle" => m[a].old.to \in ProperPtrs /\ m[a].new \in ProperPtrs
  /\ m[a].pc \in LinkPcs \cup MarkPcs => m[a].obj \in ProperObjs
Refs ==
  /\ \A c \in Cells : cell[c] \in ProperPtrs
  /\ \A p \in Participants : hp[p] \in ProperPtrs /\ held[p] \subseteq ProperObjs
  /\ \A a \in Agents : tasks[a] \subseteq ProperObjs /\ ArgsOK(a)
  /\ \A o \in ProperObjs : link[o].to \in ProperPtrs

\* The scan has still to look at o; it will find o a root.
Unscanned(o) == InList(o, W) \/ Swept(o) \/ (m[Coll].pc = "scanRoot" /\ m[Coll].obj = o)
Pending(o) == rc[o] > 0 /\ color[o] = W /\ Unscanned(o)
Marks(a, o) == m[a].pc \in MarkPcs /\ m[a].obj = o
Shades(p, o) == m[p].pc \in ShadePcs /\ m[p].old.to = o
GrayOrBlack(o) ==
  \/ \E a \in Agents : o \in tasks[a] \/ Marks(a, o)
  \/ \E p \in Participants : Shades(p, o)
  \/ Pending(o)
  \/ color[o] = B

CasOK == \A a \in Agents : m[a].pc = "markCas" /\ m[a].old.to # Null => GrayOrBlack(m[a].old.to)

\* T has every gray or black object and what white links of its members lead to.
Closed(T) ==
  \A o \in Objs : Proper(o) =>
    /\ GrayOrBlack(o) => o \in T
    /\ o \in T /\ link[o].color = W => link[o].to \in T \cup {Null}

\* What guards of RT and CT use, and what else nobody is going to shade again.
Uses(p, o) ==
  \/ o \in held[p] \/ o = hp[p]
  \/ /\ m[p].pc # "idle"
     /\ o = m[p].old.to \/ o = m[p].new \/ (m[p].pc \in LinkPcs /\ o = m[p].obj)
LateHp(p) == epoch.phase = "RT" /\ observed[p] # epoch.ts
Known(o) ==
  \/ \E c \in Cells : cell[c] = o
  \/ \E p \in Participants : \/ Pinned(p) /\ guard[p].phase # "N" /\ Uses(p, o)
                             \/ m[p].pc = "casLink" /\ m[p].old.color = B /\ m[p].new = o
                             \/ hp[p] = o /\ ~ LateHp(p)
  \/ \E x \in Objs : Proper(x) /\ link[x].color = B /\ link[x].to = o

\* Marking will get to all of them.
Tri == Tracing => \A T \in SUBSET Objs : Closed(T) => \A o \in Objs : Known(o) => o \in T

\* The object of a hazard pointer that no phase_barrier has marked.
HpDue(p) == \/ col = "rtWait" \/ stage = "take"
            \/ stage = "hps" /\ p \in todo[Coll]
            \/ stage \in {"hps", "scan"} /\ hp[p] \in hazards[Coll]
HpOK ==
  \A p \in Participants :
    (hp[p] # Null /\ LateHp(p)) \/ m[p].pc \in MarkPcs =>
      color[hp[p]] = B \/ Marks(Coll, hp[p]) \/ (Unscanned(hp[p]) /\ HpDue(p))

\* A confirmation that will succeed finds nothing left to mark.
ShadesWhite(p) == m[p].pc \in ShadePcs /\ m[p].old.to \in Objs /\ color[m[p].old.to] = W
NoTasks == \A a \in Agents : tasks[a] = {}
Settled == NoTasks /\ \A p \in Participants : ~ ShadesWhite(p)
Confirming ==
  /\ col = "ctWait" => \/ ~ NoTasks
                       \/ \E p \in Participants : OldGuard(p) /\ ShadesWhite(p)
                       \/ Settled
  /\ stage = "confirm1" => ~ NoTasks \/ Settled
  /\ stage = "confirm2" => (\E a \in todo[Coll] : tasks[a] # {}) \/ Settled
  /\ stage \in {"confirm3", "confirmed"} => Settled
  /\ ~ Tracing => NoTasks

Safe == Shape /\ Threads /\ Refs /\ CasOK /\ Tri /\ HpOK /\ Confirming

\* What every step keeps.
StepOK == HeapTypes' /\ OpsOK' /\ CountsMove /\ (Safe /\ RootsCounted => Safe')

-----------------------------------------------------------------------------
(* What the invariant says about guards, colors and places.                 *)

\* The lists are different from each other.
LEMMA PlacesDiffer ==
  ASSUME NEW p, NEW q, NEW c, NEW d
  PROVE  /\ Unborn # Freed
         /\ Unborn # LocalObjs(p, c) /\ Unborn # Fresh(c) /\ Unborn # Marked(c) /\ Unborn # Batch(p)
         /\ Freed # LocalObjs(p, c) /\ Freed # Fresh(c) /\ Freed # Marked(c) /\ Freed # Batch(p)
         /\ LocalObjs(p, c) # Fresh(d) /\ LocalObjs(p, c) # Marked(d) /\ LocalObjs(p, c) # Batch(q)
         /\ Fresh(c) # Marked(d) /\ Fresh(c) # Batch(q) /\ Marked(c) # Batch(q)
         /\ LocalObjs(p, c) = LocalObjs(q, d) => p = q /\ c = d
         /\ Fresh(c) = Fresh(d) => c = d
         /\ Marked(c) = Marked(d) => c = d
         /\ Batch(p) = Batch(q) => p = q
BY DEF Unborn, Freed, LocalObjs, Fresh, Marked, Batch

\* A box in a thread's batch is nowhere else, and so for the other lists.
LEMMA LocalOnly ==
  ASSUME NEW s, NEW p, NEW c, s = LocalObjs(p, c)
  PROVE  /\ s # Unborn /\ s # Freed
         /\ \A d : s # Marked(d) /\ s # Fresh(d)
         /\ \A a : s # Batch(a)
         /\ \A q, d : s = LocalObjs(q, d) => q = p /\ d = c
BY SMTT(60) DEF Unborn, Freed, LocalObjs, Fresh, Marked, Batch

LEMMA FreshOnly ==
  ASSUME NEW s, NEW c, s = Fresh(c)
  PROVE  /\ s # Unborn /\ s # Freed
         /\ \A d : s # Marked(d) /\ (s = Fresh(d) => d = c)
         /\ \A a : s # Batch(a)
         /\ \A q, d : s # LocalObjs(q, d)
BY SMTT(60) DEF Unborn, Freed, LocalObjs, Fresh, Marked, Batch

LEMMA FreedOnly ==
  /\ Freed # Unborn
  /\ \A d : Freed # Marked(d) /\ Freed # Fresh(d)
  /\ \A a : Freed # Batch(a)
  /\ \A q, d : Freed # LocalObjs(q, d)
BY SMTT(60), Z3T(60) DEF Unborn, Freed, LocalObjs, Fresh, Marked, Batch

LEMMA BatchOnly ==
  ASSUME NEW s, NEW a, s = Batch(a)
  PROVE  /\ s # Unborn /\ s # Freed
         /\ \A d : s # Marked(d) /\ s # Fresh(d)
         /\ \A b : s = Batch(b) => b = a
         /\ \A q, d : s # LocalObjs(q, d)
BY SMTT(60), Z3T(60) DEF Unborn, Freed, LocalObjs, Fresh, Marked, Batch

\* The colors and the phase of a guard at each point of the cycle.
LEMMA GuardFacts ==
  ASSUME PhasesInv, NEW p \in Participants, Pinned(p)
  PROVE  /\ guard[p].phase \in Phase /\ guard[p].ts \in Nat /\ guard[p].ts <= epoch.ts
         /\ guard[p].ts = epoch.ts => guard[p] = epoch
         /\ col \in {"normal", "rt", "ct"} => guard[p] = epoch
         /\ guard[p].phase = "N" => col \in {"normal", "rtWait", "sweep", "nWait"}
         /\ guard[p].phase = "RT" => col \in {"rtWait", "rt", "ctWait"}
         /\ guard[p].phase = "CT" => col \in {"ctWait", "ct", "sweep", "nWait"}
         /\ Tracing => guard[p].white = W
         /\ ~ Tracing /\ guard[p].phase = "N" => guard[p].white = W
         /\ ~ Tracing /\ guard[p].phase # "N" => guard[p].white = B
         /\ Tracing /\ guard[p].phase = "N" => guard[p].ts # epoch.ts
<1>1. guard[p] \in Epoch /\ epoch \in Epoch /\ ColMatchesPhase /\ col \in ColPoints
  BY DEF PhasesInv, PhasesTypeOK, Pinned
<1>2. /\ guard[p].phase \in Phase /\ guard[p].ts \in Nat /\ guard[p].white \in {0, 1}
      /\ epoch.phase \in Phase /\ epoch.ts \in Nat /\ epoch.white \in {0, 1}
  BY <1>1 DEF Epoch, Color
<1>3. CASE guard[p] = epoch
  BY <1>1, <1>2, <1>3, SMTT(60), Z3T(60) DEF ColMatchesPhase, Phase, ColPoints, Tracing, W, B, Flip
<1>4. CASE Precedes(guard[p], epoch) /\ col \in {"rtWait", "ctWait", "sweep", "nWait"}
  BY <1>1, <1>2, <1>4, SMTT(60), Z3T(60) DEF ColMatchesPhase, Phase, ColPoints, Tracing, W, B, Flip, Precedes
<1> QED
  BY <1>3, <1>4 DEF PhasesInv, GuardLag

\* The two colors, and the phases at each point of the cycle.
LEMMA EpochFacts ==
  ASSUME PhasesInv
  PROVE  /\ W \in Color /\ B \in Color /\ W # B /\ \A c \in Color : c = W \/ c = B
         /\ epoch.ts \in Nat /\ col \in ColPoints
         /\ Tracing <=> epoch.phase # "N"
         /\ epoch.phase = "RT" <=> col \in {"rtWait", "rt"}
         /\ epoch.phase = "CT" <=> col \in {"ctWait", "ct"}
BY SMTT(60), Z3T(60) DEF PhasesInv, PhasesTypeOK, ColMatchesPhase, Epoch, Phase, Color, ColPoints, Tracing, W, B, Flip

\* The colors that a thread uses.
LEMMA GuardColors ==
  ASSUME PhasesInv, NEW p \in Participants, Pinned(p)
  PROVE  /\ Tracing => White(p) = W /\ Black(p) = B
         /\ ~ Tracing /\ guard[p].phase = "N" => White(p) = W /\ Black(p) = B
         /\ ~ Tracing /\ guard[p].phase # "N" => White(p) = B /\ Black(p) = W
         /\ ~ Tracing => AllocColor(guard[p]) = W
         /\ guard[p].phase = "N" => AllocColor(guard[p]) = W
         /\ Tracing /\ guard[p].phase # "N" => AllocColor(guard[p]) = B
<1>1. p # Coll
  BY HeapAssumption
<1>2. W \in Color /\ B = 1 - W
  BY EpochFacts DEF B, W, Flip
<1> QED
  BY <1>1, <1>2, GuardFacts, SMTT(60), Z3T(60) DEF White, Black, EpochOf, AllocColor, Flip, Color
\* The collector acts under the published epoch.
LEMMA CollColors ==
  White(Coll) = W /\ Black(Coll) = B
BY DEF White, Black, EpochOf, W, B

\* Outside a sweep every box is listed or popped.
LEMMA ProperPlaces ==
  ASSUME Typed, Shape, Threads, NEW o \in Objs, Proper(o)
  PROVE  /\ ~ Tracing => color[o] = W
         /\ col \in {"normal", "rtWait"} \/ stage = "take" => color[o] = B \/ Unscanned(o)
<1>1. place[o] \in Places /\ color[o] \in Color
  BY DEF Typed, HeapTypes
<1>2. \A a \in Agents : place[o] = Batch(a) =>
        /\ a = Coll \/ m[a].pc = "sweepBox"
        /\ m[a].obj = o
        /\ ~ Tracing \/ col = "rtWait" \/ stage = "take" => m[a].pc = "sweepBox"
  BY SMTT(60), Z3T(60) DEF Shape, BatchOK, HoldsBox, CollOK, Stages, Threads, ThreadOK, Agents, MarkPcs, Tracing
<1>3. PICK c \in Color : \/ place[o] = Fresh(c) \/ IsLocal(o, c)
                         \/ place[o] = Marked(c) \/ \E a \in Agents : place[o] = Batch(a)
  BY <1>1, SMTT(60), Z3T(60) DEF Places, IsLocal, Proper
<1>4. c = W \/ c = B
  BY EpochFacts DEF Typed
<1>5. ~ Tracing => color[o] = W
  BY <1>1, <1>2, <1>3, <1>4, EpochFacts DEF Shape, Boxes, BoxOK, InList, Proper, Dead, Swept, Typed, Tracing, Stages
<1>6. col \in {"normal", "rtWait"} \/ stage = "take" => color[o] = B \/ Unscanned(o)
  BY <1>1, <1>2, <1>3, <1>4, EpochFacts DEF Shape, Boxes, BoxOK, InList, Proper, Dead, Swept, Typed, Tracing, Stages, Unscanned
<1> QED
  BY <1>5, <1>6

\* A hazard pointer that is set, and that of a thread that marks, is to an object.
LEMMA HpIsObj ==
  ASSUME Typed, Threads
  PROVE  \A q \in Participants : (hp[q] # Null /\ LateHp(q)) \/ m[q].pc \in MarkPcs => hp[q] \in Objs
<1> TAKE q \in Participants
<1>1. q \in Agents /\ hp[q] \in Objs \cup {Null}
  BY DEF Agents, Typed, HeapTypes
<1>2. ThreadOK(q) /\ OpOK(q)
  BY <1>1 DEF Threads, Typed, OpsOK
<1>3. m[q].pc \in MarkPcs => hp[q] = m[q].obj
  BY <1>2 DEF ThreadOK
<1>4. m[q].pc \in MarkPcs => m[q].obj \in Objs
  BY <1>2 DEF OpOK, MarkPcs
<1> QED
  BY <1>1, <1>3, <1>4

\* A thread that marks an object has it in its hazard pointer.
LEMMA HpObject ==
  ASSUME Typed, Threads, NEW p \in Participants, hp[p] # Null \/ m[p].pc \in MarkPcs
  PROVE  hp[p] \in Objs
<1>1. CASE hp[p] # Null
  BY <1>1 DEF Typed, HeapTypes
<1>2. CASE m[p].pc \in MarkPcs
  <2>1. p \in Agents /\ hp[p] = m[p].obj
    BY <1>2 DEF Threads, ThreadOK, Agents
  <2>2. m[p].obj \in Objs
    BY <1>2, <2>1 DEF Typed, OpsOK, OpOK, MarkPcs
  <2> QED
    BY <2>1, <2>2
<1> QED
  BY <1>1, <1>2

-----------------------------------------------------------------------------
(* Steps of the program that leave the boxes and their colors alone.        *)

QuietPcs == {"idle", "dijkstra", "casLink", "yuasa", "shade", "casCell", "decRoot", "shadeOld"}

QuietStep(p) ==
  /\ Moved(p) /\ m[p].pc \in QuietPcs /\ m'[p].pc \in QuietPcs
  /\ UNCHANGED <<epoch, col, color, place, stage, hazards, todo, prog, observed>>
  /\ \A q \in Participants : q # p => guard'[q] = guard[q] /\ held'[q] = held[q] /\ hp'[q] = hp[q]
  /\ guard'[p] = guard[p] \/ (m[p].pc = "idle" /\ guard'[p] = NoEpoch)
  /\ \A a \in Agents : a # p => tasks'[a] = tasks[a]
  /\ tasks[p] \subseteq tasks'[p]
  /\ \A o \in Objs : link'[o].color = link[o].color /\ (~ Proper(o) => link'[o] = link[o])

\* Its references are to proper objects.
RefsStay(p) ==
  /\ \A c \in Cells : cell'[c] \in ProperPtrs
  /\ hp'[p] \in ProperPtrs /\ held'[p] \subseteq ProperObjs /\ tasks'[p] \subseteq ProperObjs
  /\ \A o \in ProperObjs : link'[o].to \in ProperPtrs
  /\ m'[p].pc # "idle" => m'[p].old.to \in ProperPtrs /\ m'[p].new \in ProperPtrs
  /\ m'[p].pc \in LinkPcs => m'[p].obj \in ProperObjs

\* What was gray stays gray, and what a white link no longer leads to is gray.
GrayStays(p) ==
  Tracing => \A o \in Objs :
    /\ Shades(p, o) => Shades(p, o)' \/ color[o] = B \/ o \in tasks'[p]
    /\ rc[o] > 0 => rc'[o] > 0 \/ Shades(p, o)'
    /\ \A x \in Objs :
         Proper(x) /\ link[x].color = W /\ link[x].to = o /\ link'[x].to # o => Shades(p, o)'

\* Marking will get to o.
Found(o) ==
  \/ Known(o)
  \/ Proper(o) /\ (GrayOrBlack(o) \/ GrayOrBlack(o)')
  \/ \E x \in Objs : Proper(x) /\ Known(x) /\ link[x].to = o

\* The step of p gives somebody o.
NewlyKnown(p, o) ==
  \/ \E c \in Cells : cell'[c] = o /\ cell[c] # o
  \/ guard'[p] = guard[p] /\ Pinned(p) /\ guard[p].phase # "N" /\ Uses(p, o)'
  \/ m'[p].pc = "casLink" /\ m'[p].old.color = B /\ m'[p].new = o
  \/ hp'[p] = o /\ ~ LateHp(p)
  \/ \E x \in Objs : Proper(x) /\ link'[x].color = B /\ link'[x].to = o /\ link[x].to # o
KnownStays(p) == Tracing => \A o \in Objs : NewlyKnown(p, o) => Found(o)

AllBlack == \A o \in Objs : Known(o) => color[o] = B

\* Nothing is queued outside a cycle or when all is marked.
QueueStays(p) ==
  /\ ~ Tracing => tasks'[p] = tasks[p]
  /\ col \in {"ctWait", "ct"} /\ AllBlack => tasks'[p] = tasks[p] /\ ~ ShadesWhite(p)'

HpStays(p) ==
  hp'[p] \in {hp[p], Null} \/ (LateHp(p) => color[hp'[p]] = B \/ (Unscanned(hp'[p]) /\ col = "rtWait"))

\* Such a step changes neither the layout nor what is proper or unscanned.
LEMMA QuietFrame ==
  ASSUME Typed, Shape, NEW p \in Participants, QuietStep(p)
  PROVE  /\ Shape'
         /\ \A o \in Objs : (Proper(o)' <=> Proper(o)) /\ (Unscanned(o)' <=> Unscanned(o))
         /\ ProperObjs' = ProperObjs
<1>1. /\ p \in Agents /\ Coll \in Agents /\ p # Coll /\ \A x \in Agents : x # p => m'[x] = m[x]
      /\ m[p].pc \in QuietPcs /\ m'[p].pc \in QuietPcs
      /\ W' = W /\ B' = B /\ (Tracing' <=> Tracing) /\ color' = color /\ place' = place /\ stage' = stage
      /\ col' = col /\ prog' = prog
      /\ \A o \in Objs : link'[o].color = link[o].color /\ (~ Proper(o) => link'[o] = link[o])
  BY HeapAssumption DEF QuietStep, Agents, Moved, W, B, Tracing
<1>2. \A o \in Objs : (Swept(o)' <=> Swept(o)) /\ (Raw(o)' <=> Raw(o))
  BY <1>1 DEF Swept, Raw, QuietPcs, RawPcs, Agents
<1>3. \A o \in Objs : (Proper(o)' <=> Proper(o)) /\ (Unscanned(o)' <=> Unscanned(o))
  BY <1>1, <1>2 DEF Proper, Dead, Unscanned, InList, IsLocal
<1>4. Plain' /\ Stages' /\ CollOK' /\ LinkColors'
  BY <1>1, <1>3 DEF Shape, Plain, Stages, CollOK, LinkColors
<1>5. BatchOK' /\ HeaderOK'
  <2>1. \A a \in Agents : HoldsBox(a)' /\ m'[a].obj = m[a].obj <=> HoldsBox(a) /\ m'[a].obj = m[a].obj
    BY <1>1 DEF HoldsBox, QuietPcs, MarkPcs
  <2>2. BatchOK'
    BY <1>1, <2>1, SMTT(60), Z3T(60) DEF Shape, BatchOK, HoldsBox, QuietPcs, MarkPcs
  <2>3. HeaderOK'
    BY <1>1, SMTT(60), Z3T(60) DEF Shape, HeaderOK, QuietPcs, Typed, OpsOK, OpOK
  <2> QED
    BY <2>2, <2>3
<1>6. Boxes'
  <2>1. \A o \in Objs : place[o] = Unborn => link'[o] = link[o]
    BY <1>1 DEF Proper
  <2> QED
    BY <1>1, <2>1 DEF Shape, Boxes, BoxOK, InList, IsLocal
<1>7. ProperObjs' = ProperObjs
  BY <1>3 DEF ProperObjs
<1> QED
  BY <1>3, <1>4, <1>5, <1>6, <1>7 DEF Shape

\* When all queues are empty and no barrier is to fill one, marking is complete.
LEMMA SettledBlack ==
  ASSUME Typed, Shape, Threads, Refs, Tri, HpOK, Settled, col \in {"ctWait", "ct"}, stage # "drain"
  PROVE  AllBlack
<1> DEFINE T == {o \in Objs : color[o] = B}
<1>1. /\ W # B /\ Tracing /\ \A o \in Objs : color[o] \in Color /\ (color[o] = W \/ color[o] = B)
  BY EpochFacts DEF Typed, HeapTypes, Tracing
<1>2. stage \notin {"take", "hps", "scan", "drain"} /\ m[Coll].pc \notin MarkPcs \cup {"scanRoot", "sweepBox"}
  BY DEF Shape, Stages, CollOK, MarkPcs
<1>3. \A o \in Objs : ~ Unscanned(o)
  BY <1>2 DEF Unscanned, InList, Swept, Shape, Boxes, BoxOK, Threads, ThreadOK, Agents
<1>4. ASSUME NEW o \in Objs, Proper(o), GrayOrBlack(o)
      PROVE  o \in T
  <2>1. ASSUME NEW a \in Agents, Marks(a, o)
        PROVE  color[o] = B
    <3>1. a \in Participants
      BY <1>2, <2>1 DEF Marks, Agents
    <3>2. hp[a] = o
      BY <2>1, <3>1 DEF Threads, ThreadOK, Marks
    <3>3. ~ HpDue(a) /\ ~ Marks(Coll, o)
      BY <1>2 DEF HpDue, Marks
    <3> QED
      BY <2>1, <3>1, <3>2, <3>3 DEF HpOK, Marks
  <2>2. \A a \in Agents : o \notin tasks[a]
    BY DEF Settled, NoTasks
  <2>3. \A p \in Participants : Shades(p, o) => color[o] = B
    BY <1>1 DEF Settled, ShadesWhite, Shades
  <2> QED
    BY <1>3, <1>4, <2>1, <2>2, <2>3 DEF GrayOrBlack, Pending
<1>5. \A o \in Objs : Proper(o) /\ o \in T => link[o].color = B
  BY DEF Shape, LinkColors
<1>6. Closed(T)
  BY <1>1, <1>4, <1>5 DEF Closed
<1> QED
  BY <1>1, <1>6, SMTT(60), Z3T(60) DEF Tri, AllBlack

\* A step within a cycle keeps Tri when what was gray stays gray, what a white link no
\* longer leads to is gray, and whatever becomes known is found.
LEMMA TriStep ==
  ASSUME Typed, Refs, Tri, Tracing' => Tracing, epoch' = epoch,
         \A o \in Objs : Proper(o) => Proper(o)',
         Tracing => \A o \in Objs : Proper(o) /\ GrayOrBlack(o) => GrayOrBlack(o)',
         Tracing => \A x, o \in Objs : Proper(x) /\ link[x].color = W /\ link[x].to = o =>
                      (link'[x].color = W /\ link'[x].to = o) \/ GrayOrBlack(o)',
         Tracing => \A o \in Objs : Known(o)' => Found(o) \/ (Proper(o)' /\ GrayOrBlack(o)')
  PROVE  Tri'
<1> SUFFICES ASSUME Tracing, NEW T \in SUBSET Objs, Closed(T)', NEW o \in Objs, Known(o)'
             PROVE  o \in T
  BY DEF Tri
<1>1. /\ Null \notin Objs /\ W' = W
      /\ \A x \in Objs : link[x].to \in Objs \cup {Null} /\ (link[x].color = W \/ link[x].color = B)
  BY HeapAssumption, EpochFacts DEF Typed, HeapTypes, Link, W
<1>2. \A x \in Objs : Proper(x)' => /\ GrayOrBlack(x)' => x \in T
                                    /\ x \in T /\ link'[x].color = W => link'[x].to \in T \cup {Null}
  BY <1>1 DEF Closed
<1>3. ASSUME NEW x \in Objs, Proper(x), x \in T, link[x].color = W, link[x].to # Null
      PROVE  link[x].to \in T
  <2>1. PICK y \in Objs : y = link[x].to
    BY <1>1, <1>3
  <2>2. Proper(y)
    BY <1>1, <1>3, <2>1 DEF Refs, ProperPtrs, ProperObjs
  <2> QED
    BY <1>1, <1>2, <1>3, <2>1, <2>2
<1>4. Closed(T)
  BY <1>2, <1>3 DEF Closed
<1>5. \A y \in Objs : Known(y) => y \in T
  BY <1>4 DEF Tri
<1>6. ASSUME NEW x \in Objs, Proper(x), Known(x), link[x].to = o
      PROVE  o \in T
  <2>1. link[x].color = B => Known(o)
    BY <1>6 DEF Known
  <2> QED
    BY <1>1, <1>3, <1>5, <1>6, <2>1
<1> QED
  BY <1>2, <1>5, <1>6 DEF Found

\* What is left to show for such a step: its references, what it grays, what it gets
\* to know, its queue and its hazard pointer.
LEMMA QuietSafe ==
  ASSUME Typed, Safe, NEW p \in Participants, QuietStep(p), ThreadOK(p)', RefsStay(p), GrayStays(p),
         KnownStays(p), QueueStays(p), HpStays(p)
  PROVE  Safe'
<1>1. /\ Shape /\ Shape' /\ Threads /\ Refs /\ CasOK /\ Tri /\ HpOK /\ Confirming
      /\ \A o \in Objs : (Proper(o)' <=> Proper(o)) /\ (Unscanned(o)' <=> Unscanned(o))
      /\ ProperObjs' = ProperObjs
  BY QuietFrame DEF Safe
<1>2. /\ p \in Agents /\ Coll \in Agents /\ p # Coll /\ \A x \in Agents : x # p => m'[x] = m[x]
      /\ m[p].pc \in QuietPcs /\ m'[p].pc \in QuietPcs
      /\ epoch' = epoch /\ col' = col /\ color' = color /\ place' = place /\ stage' = stage
      /\ hazards' = hazards /\ todo' = todo /\ prog' = prog /\ observed' = observed
      /\ W' = W /\ B' = B /\ (Tracing' <=> Tracing) /\ Null \notin Objs /\ Participants \subseteq Agents
  BY HeapAssumption DEF QuietStep, Agents, Moved, W, B, Tracing
<1>3. /\ \A q \in Participants : q # p => guard'[q] = guard[q] /\ held'[q] = held[q] /\ hp'[q] = hp[q]
      /\ guard'[p] = guard[p] \/ (m[p].pc = "idle" /\ guard'[p] = NoEpoch)
      /\ \A a \in Agents : tasks[a] \subseteq tasks'[a] /\ (a # p => tasks'[a] = tasks[a])
      /\ \A o \in Objs : link'[o].color = link[o].color /\ (~ Proper(o) => link'[o] = link[o])
  BY DEF QuietStep
<1>4. Threads'
  <2>1. \A q \in Participants : q # p => ThreadOK(q)'
    <3> SUFFICES ASSUME NEW q \in Participants, q # p
                 PROVE  ThreadOK(q)'
      OBVIOUS
    <3>1. ThreadOK(q) /\ q \in Agents
      BY <1>1, <1>2 DEF Threads
    <3>2. /\ m'[q] = m[q] /\ guard'[q] = guard[q] /\ held'[q] = held[q] /\ hp'[q] = hp[q]
          /\ tasks'[q] = tasks[q] /\ observed' = observed /\ prog' = prog /\ epoch' = epoch /\ col' = col
      BY <1>2, <1>3, <3>1
    <3>3. /\ Black(q)' = Black(q) /\ (Pinned(q)' <=> Pinned(q)) /\ W' = W /\ (Tracing' <=> Tracing)
      BY <1>2, <3>2 DEF Black, White, EpochOf, Pinned
    <3> QED
      BY <3>1, <3>2, <3>3 DEF ThreadOK
  <2>2. \A q \in Participants : q # p => RawOK(q)'
    <3>1. \A q \in Participants : m[q].pc \in RawPcs => m[q].obj \in Objs /\ ~ Proper(m[q].obj)
      BY <1>2 DEF Proper, Raw, Typed, OpsOK, OpOK, RawPcs
    <3> QED
      BY <1>1, <1>2, <1>3, <3>1, SMTT(60), Z3T(60) DEF Threads, RawOK
  <2>3. RawOK(p)'
    BY <1>2 DEF RawOK, RawPcs, QuietPcs
  <2> QED
    BY <2>1, <2>2, <2>3 DEF Threads
<1>5. Refs'
  <2>1. ProperPtrs' = ProperPtrs /\ ProperObjs' = ProperObjs
    BY <1>1 DEF ProperPtrs
  <2>2. \A a \in Agents : ArgsOK(a)'
    BY <1>1, <1>2, <2>1 DEF Refs, ArgsOK, RefsStay, QuietPcs, MarkPcs
  <2> QED
    BY <1>1, <1>2, <1>3, <2>1, <2>2 DEF Refs, RefsStay
<1>6. Tracing => \A o \in Objs : GrayOrBlack(o) => GrayOrBlack(o)'
  <2> SUFFICES ASSUME Tracing, NEW o \in Objs, GrayOrBlack(o)
               PROVE  GrayOrBlack(o)'
    OBVIOUS
  <2>1. \A a \in Agents : o \in tasks[a] \/ Marks(a, o) => o \in tasks'[a] \/ Marks(a, o)'
    BY <1>2, <1>3 DEF Marks, QuietPcs, MarkPcs
  <2>2. \A q \in Participants : Shades(q, o) => Shades(q, o)' \/ color[o] = B \/ o \in tasks'[q]
    BY <1>2 DEF GrayStays, Shades
  <2>3. Pending(o) => Pending(o)' \/ Shades(p, o)'
    BY <1>1, <1>2 DEF GrayStays, Pending
  <2> QED
    BY <1>2, <2>1, <2>2, <2>3 DEF GrayOrBlack
<1>7. CasOK'
  <2> SUFFICES ASSUME NEW a \in Agents, m'[a].pc = "markCas", m'[a].old.to # Null
               PROVE  GrayOrBlack(m[a].old.to)' /\ m'[a].old.to = m[a].old.to
    BY DEF CasOK
  <2>1. m'[a] = m[a]
    BY <1>2 DEF QuietPcs
  <2>2. Tracing
    <3>1. CASE a = Coll
      BY <1>1, <2>1, <3>1 DEF Shape, CollOK, Stages, MarkPcs, Tracing
    <3>2. CASE a \in Participants
      BY <1>1, <2>1, <3>2, GuardFacts DEF Threads, ThreadOK, MarkPcs, Tracing, Typed, OpsOK, OpOK
    <3> QED
      BY <3>1, <3>2 DEF Agents
  <2>3. PICK o \in Objs : o = m[a].old.to
    BY <2>1 DEF Typed, HeapTypes, Op, Link
  <2>4. GrayOrBlack(o)'
    BY <1>1, <1>6, <2>1, <2>2, <2>3 DEF CasOK
  <2> QED
    BY <2>1, <2>3, <2>4
<1>8. Tri'
  <2>1. ASSUME Tracing, NEW x \in Objs, NEW o \in Objs, Proper(x), link[x].color = W, link[x].to = o
        PROVE  (link'[x].color = W /\ link'[x].to = o) \/ GrayOrBlack(o)'
    <3>1. link'[x].color = W /\ (link'[x].to = o \/ Shades(p, o)')
      BY <1>3, <2>1 DEF GrayStays
    <3> QED
      BY <3>1 DEF GrayOrBlack
  <2>2. ASSUME Tracing, NEW o \in Objs, Known(o)'
        PROVE  Found(o)
    <3>1. \A q \in Participants : q # p =>
            /\ (Pinned(q) /\ guard[q].phase # "N" /\ Uses(q, o))' => Pinned(q) /\ guard[q].phase # "N" /\ Uses(q, o)
            /\ (m[q].pc = "casLink" /\ m[q].old.color = B /\ m[q].new = o)' =>
                 m[q].pc = "casLink" /\ m[q].old.color = B /\ m[q].new = o
            /\ (hp[q] = o /\ ~ LateHp(q))' => hp[q] = o /\ ~ LateHp(q)
      BY <1>2, <1>3 DEF Pinned, Uses, LateHp
    <3>2. (Pinned(p) /\ guard[p].phase # "N" /\ Uses(p, o))' => NewlyKnown(p, o)
      BY <1>3 DEF NewlyKnown, Pinned
    <3>3. (hp[p] = o /\ ~ LateHp(p))' => NewlyKnown(p, o)
      BY <1>2 DEF NewlyKnown, LateHp
    <3>4. (m[p].pc = "casLink" /\ m[p].old.color = B /\ m[p].new = o)' => NewlyKnown(p, o)
      BY <1>2 DEF NewlyKnown
    <3>5. (\E c \in Cells : cell[c] = o)' => Known(o) \/ NewlyKnown(p, o)
      BY DEF Known, NewlyKnown
    <3>6. (\E x \in Objs : Proper(x) /\ link[x].color = B /\ link[x].to = o)' => Known(o) \/ NewlyKnown(p, o)
      BY <1>1, <1>2, <1>3 DEF Known, NewlyKnown
    <3>7. Known(o) \/ NewlyKnown(p, o)
      BY <2>2, <3>1, <3>2, <3>3, <3>4, <3>5, <3>6 DEF Known
    <3> QED
      BY <2>2, <3>7 DEF KnownStays, Found
  <2> QED
    BY <1>1, <1>2, <1>6, <2>1, <2>2, TriStep
<1>9. HpOK'
  <2>1. \A q \in Participants : LateHp(q)' <=> LateHp(q)
    BY <1>2 DEF LateHp
  <2>2. Marks(Coll, hp[p])' <=> Marks(Coll, hp'[p])
    BY <1>2 DEF Marks
  <2>3. \A q \in Participants : q # p => (Marks(Coll, hp[q])' <=> Marks(Coll, hp[q])) /\ (HpDue(q)' <=> HpDue(q))
    BY <1>2, <1>3 DEF Marks, HpDue
  <2>4. \A x \in Objs \cup {Null} : x \in Objs => (Unscanned(x)' <=> Unscanned(x))
    BY <1>1
  <2>5. \A q \in Participants : (hp[q] # Null /\ LateHp(q)) \/ m[q].pc \in MarkPcs => hp[q] \in Objs
    BY <1>1, HpIsObj
  <2>6. ASSUME NEW q \in Participants, q # p, (hp'[q] # Null /\ LateHp(q)) \/ m'[q].pc \in MarkPcs
        PROVE  color[hp[q]] = B \/ Marks(Coll, hp[q]) \/ (Unscanned(hp[q]) /\ HpDue(q))
    BY <1>1, <1>2, <1>3, <2>6 DEF HpOK
  <2>7. ASSUME hp'[p] # Null, LateHp(p)
        PROVE  /\ hp'[p] \in Objs
               /\ color[hp'[p]] = B \/ Marks(Coll, hp'[p]) \/ (Unscanned(hp'[p]) /\ HpDue(p)')
    <3>1. CASE hp'[p] = hp[p]
      BY <1>1, <1>2, <2>5, <2>7, <3>1 DEF HpOK, HpDue
    <3>2. CASE hp'[p] # hp[p]
      BY <1>2, <2>7, <3>2 DEF HpStays, HpDue, RefsStay, ProperPtrs, ProperObjs
    <3> QED
      BY <3>1, <3>2
  <2>8. m'[p].pc \notin MarkPcs
    BY <1>2 DEF QuietPcs, MarkPcs
  <2>9. ASSUME NEW q \in Participants, (hp'[q] # Null /\ LateHp(q)) \/ m'[q].pc \in MarkPcs
        PROVE  color'[hp'[q]] = B' \/ Marks(Coll, hp[q])' \/ (Unscanned(hp[q])' /\ HpDue(q)')
    <3>1. CASE q # p
      BY <1>2, <1>3, <2>3, <2>4, <2>5, <2>6, <2>9, <3>1
    <3>2. CASE q = p
      <4>1. PICK x \in Objs : x = hp'[p]
        BY <2>7, <2>8, <2>9, <3>2
      <4>2. Unscanned(x)' <=> Unscanned(x)
        BY <1>1
      <4> QED
        BY <1>2, <2>2, <2>7, <2>8, <2>9, <3>2, <4>1, <4>2
    <3> QED
      BY <3>1, <3>2
  <2> QED
    BY <2>1, <2>9 DEF HpOK
<1>10. Confirming'
  <2>1. ASSUME Settled, col \in {"ctWait", "ct"}, stage # "drain"
        PROVE  Settled'
    <3>1. AllBlack
      BY <1>1, <2>1, SettledBlack
    <3>2. tasks'[p] = tasks[p] /\ ~ ShadesWhite(p)'
      BY <2>1, <3>1 DEF QueueStays
    <3>3. \A q \in Participants : q # p => (ShadesWhite(q)' <=> ShadesWhite(q))
      BY <1>2 DEF ShadesWhite
    <3> QED
      BY <1>2, <1>3, <2>1, <3>2, <3>3 DEF Settled, NoTasks
  <2>2. ~ NoTasks => ~ NoTasks'
    BY <1>2, <1>3 DEF NoTasks
  <2>3. ASSUME NEW q \in Participants, OldGuard(q), ShadesWhite(q), Tracing
        PROVE  (OldGuard(q)' /\ ShadesWhite(q)') \/ ~ NoTasks'
    <3>1. CASE q # p
      BY <1>2, <1>3, <2>3, <3>1, SMTT(60), Z3T(60) DEF OldGuard, Pinned, ShadesWhite
    <3>2. CASE q = p
      <4>1. PICK o \in Objs : o = m[p].old.to /\ color[o] = W /\ Shades(p, o)
        BY <2>3, <3>2 DEF ShadesWhite, Shades
      <4>2. W # B
        BY EpochFacts DEF Typed
      <4>3. Shades(p, o)' \/ o \in tasks'[p]
        BY <2>3, <4>1, <4>2 DEF GrayStays
      <4>4. OldGuard(p)'
        BY <1>2, <1>3, <2>3, <3>2, <4>1 DEF OldGuard, Pinned, Shades, ShadePcs
      <4> QED
        BY <1>2, <3>2, <4>1, <4>3, <4>4 DEF ShadesWhite, Shades, NoTasks
    <3> QED
      BY <3>1, <3>2
  <2>4. col = "ctWait" => (\/ ~ NoTasks
                           \/ \E q \in Participants : OldGuard(q) /\ ShadesWhite(q)
                           \/ Settled)'
    BY <1>1, <2>1, <2>2, <2>3 DEF Confirming, Tracing, Shape, Stages
  <2>5. stage = "confirm1" => (~ NoTasks \/ Settled)'
    BY <1>1, <2>1, <2>2 DEF Confirming, Shape, Stages
  <2>6. stage = "confirm2" => ((\E a \in todo[Coll] : tasks[a] # {}) \/ Settled)'
    <3>1. todo[Coll] \subseteq Agents
      BY <1>2 DEF Typed, HeapTypes
    <3> QED
      BY <1>1, <1>2, <1>3, <2>1, <3>1 DEF Confirming, Shape, Stages
  <2>7. stage \in {"confirm3", "confirmed"} => Settled'
    BY <1>1, <2>1 DEF Confirming, Shape, Stages
  <2>8. ~ Tracing => NoTasks'
    BY <1>1, <1>2, <1>3 DEF Confirming, NoTasks, QueueStays
  <2> QED
    BY <1>2, <2>4, <2>5, <2>6, <2>7, <2>8 DEF Confirming
<1> QED
  BY <1>1, <1>4, <1>5, <1>7, <1>8, <1>9, <1>10 DEF Safe

\* Where the boxes are and where the collector is.
Layout == Stages /\ CollOK /\ BatchOK /\ Boxes

\* Threads mark only in a cycle.
LEMMA MarkingTraces ==
  ASSUME Typed, Shape, Threads, NEW a \in Agents, m[a].pc \in MarkPcs
  PROVE  Tracing
<1>1. CASE a = Coll
  BY <1>1 DEF Shape, CollOK, Stages, Tracing
<1>2. CASE a \in Participants
  BY <1>2, GuardFacts DEF Threads, ThreadOK, MarkPcs, Tracing, Typed, OpsOK, OpOK
<1> QED
  BY <1>1, <1>2 DEF Agents

\* push_fresh_obj may flush the list of p.
LEMMA PushFreshEffect ==
  ASSUME Typed, NEW p \in Participants, Pinned(p), NEW o \in Objs, PushFreshObj(p, o)
  PROVE  /\ place' \in [Objs -> Places] /\ place'[o] = LocalObjs(p, AllocColor(guard[p]))
         /\ \A x \in Objs : x # o =>
              \/ place'[x] = place[x]
              \/ /\ place[x] = LocalObjs(p, AllocColor(guard[p]))
                 /\ place'[x] = Fresh(AllocColor(guard[p]))
<1>1. PICK c \in Color : c = AllocColor(guard[p])
  <2>1. p \in Agents /\ EpochOf(p) = guard[p]
    BY HeapAssumption DEF Agents, EpochOf
  <2> QED
    BY <2>1, ColorsOf
<1>2. LocalObjs(p, c) \in Places /\ Fresh(c) \in Places
  BY SMTT(60), Z3T(60) DEF Places
<1>3. place' = [x \in Objs |-> IF x = o THEN LocalObjs(p, c)
                               ELSE IF place[x] = LocalObjs(p, c) THEN Fresh(c)
                               ELSE place[x]]
  BY <1>1 DEF PushFreshObj
<1> QED
  BY <1>1, <1>2, <1>3 DEF Typed, HeapTypes

-----------------------------------------------------------------------------
(* Marking, by the collector and by the phase barrier of a thread.          *)

\* a shades or blackens the link of the object that it marks.
MarkStep(a) ==
  LET o == m[a].obj
      to == link[o].to
  IN
  /\ Moved(a) /\ m[a].pc \in MarkPcs /\ m'[a].pc \in {"markCas", "markHeader"}
  /\ m'[a].obj = o /\ m'[a].new = m[a].new /\ m'[a].ret = m[a].ret /\ m'[a].old.to \in {m[a].old.to, to}
  /\ UNCHANGED <<epoch, guard, col, color, rc, place, cell, held, hp, prog, observed, hazards, todo, stage>>
  /\ \A x \in Agents : x # a => tasks'[x] = tasks[x]
  /\ tasks[a] \subseteq tasks'[a] /\ tasks'[a] \subseteq tasks[a] \cup ({to} \cap Objs)
  /\ link[o].color = Black(a) => tasks'[a] = tasks[a]
  /\ \A x \in Objs : x # o => link'[x] = link[x]
  /\ link'[o].to = to
  /\ \/ link'[o].color = link[o].color
     \/ link'[o].color = Black(a) /\ m[a].pc = "markCas" /\ m[a].old.to = to
  /\ m'[a].pc = "markHeader" => link'[o].color = Black(a)
  /\ m'[a].pc = "markCas" => m'[a].old.to = to /\ (to \in Objs => to \in tasks'[a] \/ color[to] = Black(a))

\* Blackening the link of an object keeps the invariant: its pointee is queued or
\* black by then (CasOK).
LEMMA MarkSafe ==
  ASSUME Typed, Safe, NEW a \in Agents, MarkStep(a)
  PROVE  Safe'
<1>1. /\ Coll \in Agents /\ Coll \notin Participants /\ Participants \subseteq Agents /\ Null \notin Objs
      /\ Shape /\ Threads /\ Refs /\ CasOK /\ Tri /\ HpOK /\ Confirming
  BY HeapAssumption DEF Agents, Safe
<1>2. PICK o \in Objs : o = m[a].obj
  BY DEF MarkStep, Typed, OpsOK, OpOK, MarkPcs
<1>3. Tracing
  BY <1>1, MarkingTraces DEF MarkStep
<1>4. /\ a \in Participants => Pinned(a) /\ guard[a].phase = "RT" /\ hp[a] = o /\ m[a].ret = "idle"
      /\ Black(a) = B /\ W # B
  <2>1. a \in Participants => Pinned(a) /\ guard[a].phase = "RT" /\ hp[a] = o /\ m[a].ret = "idle"
    BY <1>1, <1>2 DEF MarkStep, Threads, ThreadOK, Typed, OpsOK, OpOK, MarkPcs
  <2> QED
    BY <1>3, <2>1, GuardColors, CollColors, EpochFacts DEF Agents, Typed
<1>5. PICK t \in Objs \cup {Null} : t = link[o].to
  BY DEF Typed, HeapTypes, Link
<1>6. /\ \A x \in Agents : x # a => m'[x] = m[x] /\ tasks'[x] = tasks[x]
      /\ m[a].pc \in MarkPcs /\ m'[a].pc \in {"markCas", "markHeader"}
      /\ m'[a].obj = o /\ m'[a].new = m[a].new /\ m'[a].ret = m[a].ret /\ m'[a].old.to \in {m[a].old.to, t}
      /\ tasks[a] \subseteq tasks'[a] /\ tasks'[a] \subseteq tasks[a] \cup ({t} \cap Objs)
      /\ link[o].color = B => tasks'[a] = tasks[a]
  BY <1>2, <1>4, <1>5 DEF MarkStep, Moved
<1>7. /\ \A x \in Objs : x # o => link'[x] = link[x]
      /\ link'[o].to = t
      /\ \/ link'[o].color = link[o].color
         \/ link'[o].color = B /\ m[a].pc = "markCas" /\ m[a].old.to = t
      /\ m'[a].pc = "markHeader" => link'[o].color = B
      /\ m'[a].pc = "markCas" => m'[a].old.to = t /\ (t \in Objs => t \in tasks'[a] \/ color[t] = B)
  BY <1>2, <1>4, <1>5 DEF MarkStep
<1>8. /\ epoch' = epoch /\ guard' = guard /\ col' = col /\ color' = color /\ rc' = rc /\ place' = place
      /\ cell' = cell /\ held' = held /\ hp' = hp /\ prog' = prog /\ observed' = observed
      /\ hazards' = hazards /\ todo' = todo /\ stage' = stage
      /\ W' = W /\ B' = B /\ (Tracing' <=> Tracing)
  BY DEF MarkStep, W, B, Tracing
<1>9. \A x \in Objs : /\ Swept(x)' <=> Swept(x)
                      /\ Raw(x)' <=> Raw(x)
                      /\ Unscanned(x)' <=> Unscanned(x)
  BY <1>1, <1>6, <1>8 DEF Swept, Raw, RawPcs, MarkPcs, Unscanned, InList, IsLocal
<1>10. /\ \A x \in Objs : Proper(x)' <=> Proper(x)
       /\ ProperObjs' = ProperObjs /\ ProperPtrs' = ProperPtrs
       /\ o \in ProperObjs /\ t \in ProperPtrs /\ Proper(o)
  <2>1. \A x \in Objs : Proper(x)' <=> Proper(x)
    BY <1>8, <1>9 DEF Proper, Dead
  <2>2. o \in ProperObjs
    BY <1>1, <1>2, <1>6 DEF Refs, ArgsOK
  <2>3. t \in ProperPtrs
    BY <1>1, <1>5, <2>2 DEF Refs
  <2> QED
    BY <2>1, <2>2, <2>3 DEF ProperObjs, ProperPtrs
<1>11. Shape'
  <2>1. Plain' /\ Stages' /\ CollOK'
    BY <1>1, <1>6, <1>8 DEF Shape, Plain, Stages, CollOK, MarkPcs
  <2>2. BatchOK'
    BY <1>1, <1>2, <1>6, <1>8, SMTT(60), Z3T(60) DEF Shape, BatchOK, HoldsBox, MarkPcs
  <2>3. Boxes'
    BY <1>1, <1>7, <1>8, <1>10 DEF Shape, Boxes, BoxOK, InList, IsLocal, Proper
  <2>4. LinkColors'
    BY <1>1, <1>3, <1>7, <1>8, <1>10 DEF Shape, LinkColors
  <2>5. HeaderOK'
    BY <1>1, <1>2, <1>6, <1>7, <1>8, SMTT(60), Z3T(60) DEF Shape, HeaderOK, Typed, OpsOK, OpOK
  <2> QED
    BY <2>1, <2>2, <2>3, <2>4, <2>5 DEF Shape
<1>12. Threads'
  <2>1. ASSUME NEW q \in Participants
        PROVE  ThreadOK(q)'
    <3>1. ThreadOK(q) /\ Black(q)' = Black(q) /\ (Pinned(q)' <=> Pinned(q))
      BY <1>1, <1>8 DEF Threads, Pinned, Black, White, EpochOf
    <3>2. CASE q # a
      <4>1. m'[q] = m[q] /\ tasks'[q] = tasks[q]
        BY <1>1, <1>6, <3>2
      <4> QED
        BY <1>8, <3>1, <4>1 DEF ThreadOK
    <3>3. CASE q = a
      <4>1. Pinned(a) /\ guard[a].phase = "RT" /\ hp[a] = m'[a].obj /\ m'[a].ret = "idle"
        BY <1>4, <1>6, <3>3
      <4> QED
        BY <1>6, <1>8, <3>1, <3>3, <4>1 DEF ThreadOK, MarkPcs
    <3> QED
      BY <3>2, <3>3
  <2>2. ASSUME NEW q \in Participants
        PROVE  RawOK(q)'
    <3> SUFFICES ASSUME m'[q].pc \in RawPcs
                 PROVE  RawOK(q)'
      BY DEF RawOK
    <3>1. m'[q] = m[q]
      BY <1>1, <1>6 DEF RawPcs
    <3>2. PICK x \in Objs : x = m[q].obj
      BY <1>1, <3>1 DEF Typed, OpsOK, OpOK, RawPcs
    <3>3. x # o
      BY <1>10, <3>1, <3>2 DEF Proper, Raw
    <3>4. link'[x] = link[x]
      BY <1>7, <3>3
    <3> QED
      BY <1>1, <1>8, <3>1, <3>2, <3>4 DEF Threads, RawOK
  <2> QED
    BY <2>1, <2>2 DEF Threads
<1>13. Refs'
  <2>1. \A x \in Agents : tasks'[x] \subseteq ProperObjs
    BY <1>1, <1>6, <1>10 DEF Refs, ProperPtrs
  <2>2. \A x \in Agents : ArgsOK(x)'
    BY <1>1, <1>2, <1>6, <1>10 DEF Refs, ArgsOK, MarkPcs, LinkPcs
  <2>3. \A x \in ProperObjs : link'[x].to \in ProperPtrs
    BY <1>1, <1>7, <1>10 DEF Refs, ProperObjs
  <2> QED
    BY <1>1, <1>8, <1>10, <2>1, <2>2, <2>3 DEF Refs
<1>14. \A x \in Objs : GrayOrBlack(x) => GrayOrBlack(x)'
  <2>1. \A b \in Agents, x \in Objs : Marks(b, x) => Marks(b, x)'
    BY <1>2, <1>6 DEF Marks, MarkPcs
  <2>2. \A q \in Participants, x \in Objs : Shades(q, x) => Shades(q, x)'
    BY <1>1, <1>6 DEF Shades, ShadePcs, MarkPcs
  <2>3. \A x \in Objs : Pending(x) => Pending(x)'
    BY <1>8, <1>9 DEF Pending
  <2>4. \A b \in Agents : tasks[b] \subseteq tasks'[b]
    BY <1>6
  <2> QED
    BY <1>8, <2>1, <2>2, <2>3, <2>4 DEF GrayOrBlack
<1>15. link'[o].color # link[o].color /\ t # Null => GrayOrBlack(t)'
  BY <1>1, <1>7, <1>14 DEF CasOK
<1>16. CasOK'
  <2> SUFFICES ASSUME NEW b \in Agents, m'[b].pc = "markCas", m'[b].old.to # Null
               PROVE  \E x \in Objs : x = m'[b].old.to /\ GrayOrBlack(x)'
    BY DEF CasOK
  <2>1. CASE b = a
    BY <1>6, <1>7, <1>8, <2>1 DEF GrayOrBlack
  <2>2. CASE b # a
    <3>1. m'[b] = m[b]
      BY <1>6, <2>2
    <3>2. PICK x \in Objs : x = m[b].old.to
      BY <1>1, <3>1 DEF Typed, HeapTypes, Op, Link
    <3> QED
      BY <1>1, <1>14, <3>1, <3>2 DEF CasOK
  <2> QED
    BY <2>1, <2>2
<1>17. Tri'
  <2>1. \A x, y \in Objs : Proper(x) /\ link[x].color = W /\ link[x].to = y =>
          (link'[x].color = W /\ link'[x].to = y) \/ GrayOrBlack(y)'
    BY <1>1, <1>5, <1>7, <1>15
  <2>2. ASSUME NEW x \in Objs, Known(x)'
        PROVE  Found(x) \/ (Proper(x)' /\ GrayOrBlack(x)')
    <3>1. ASSUME NEW q \in Participants, Pinned(q), guard[q].phase # "N", Uses(q, x)'
          PROVE  Found(x)
      <4>1. CASE q # a \/ x # t
        <5>1. Uses(q, x)
          BY <1>1, <1>6, <1>8, <3>1, <4>1 DEF Uses, LinkPcs, MarkPcs
        <5> QED
          BY <3>1, <5>1 DEF Found, Known
      <4>2. CASE q = a /\ x = t
        <5>1. Known(o)
          BY <1>4, <3>1, <4>2 DEF Known, Uses
        <5> QED
          BY <1>5, <1>10, <4>2, <5>1 DEF Found
      <4> QED
        BY <4>1, <4>2
    <3>2. (\E y \in Objs : Proper(y) /\ link[y].color = B /\ link[y].to = x)' =>
            Known(x) \/ (Proper(x)' /\ GrayOrBlack(x)')
      <4>1. x = t => Proper(x)'
        BY <1>1, <1>10 DEF ProperPtrs, ProperObjs
      <4> QED
        BY <1>1, <1>5, <1>7, <1>8, <1>10, <1>15, <4>1 DEF Known
    <3>3. \A q \in Participants : m'[q].pc = "casLink" => m'[q] = m[q]
      BY <1>1, <1>6
    <3> QED
      BY <1>8, <2>2, <3>1, <3>2, <3>3 DEF Known, Found, Pinned, LateHp
  <2> QED
    BY <1>1, <1>8, <1>10, <1>14, <2>1, <2>2, TriStep
<1>18. HpOK'
  <2>1. \A q \in Participants : (hp[q] # Null /\ LateHp(q)) \/ m[q].pc \in MarkPcs => hp[q] \in Objs
    BY <1>1, HpIsObj
  <2>2. \A q \in Participants : m'[q].pc \in MarkPcs <=> m[q].pc \in MarkPcs
    BY <1>1, <1>6 DEF MarkPcs
  <2>3. \A x \in Objs : Marks(Coll, x) => Marks(Coll, x)'
    BY <1>1, <1>2, <1>6 DEF Marks, MarkPcs
  <2>4. ASSUME NEW q \in Participants, (hp[q] # Null /\ LateHp(q)) \/ m[q].pc \in MarkPcs
        PROVE  color[hp[q]] = B \/ Marks(Coll, hp[q])' \/ (Unscanned(hp[q])' /\ HpDue(q))
    <3>1. PICK x \in Objs : x = hp[q]
      BY <2>1, <2>4
    <3>2. color[x] = B \/ Marks(Coll, x)' \/ (Unscanned(x)' /\ HpDue(q))
      BY <1>1, <1>9, <2>3, <2>4, <3>1 DEF HpOK
    <3> QED
      BY <1>8, <3>1, <3>2
  <2> QED
    BY <1>8, <2>2, <2>4 DEF HpOK, LateHp, HpDue
<1>19. Confirming'
  <2>1. ASSUME col \in {"ctWait", "ct"}, stage # "drain", Settled
        PROVE  tasks'[a] = tasks[a]
    <3>1. a # Coll
      BY <1>1, <1>6, <2>1 DEF Shape, CollOK, Stages
    <3>2. Known(o)
      BY <1>4, <3>1 DEF Known, Uses, Agents
    <3>3. color[o] = B
      BY <1>1, <2>1, <3>2, SettledBlack DEF AllBlack
    <3> QED
      BY <1>1, <1>6, <1>10, <3>3 DEF Shape, LinkColors
  <2>2. \A q \in Participants : ShadesWhite(q)' <=> ShadesWhite(q)
    BY <1>1, <1>6, <1>8 DEF ShadesWhite, ShadePcs, MarkPcs
  <2>3. \A q \in Participants : OldGuard(q)' <=> OldGuard(q)
    BY <1>8 DEF OldGuard, Pinned
  <2>4. \A x \in Agents : tasks[x] \subseteq tasks'[x]
    BY <1>6
  <2>5. col \in {"ctWait", "ct"} /\ stage # "drain" /\ Settled => Settled'
    BY <1>6, <2>1, <2>2 DEF Settled, NoTasks
  <2>6. todo[Coll] \subseteq Agents /\ (stage \in {"confirm1", "confirm2", "confirm3", "confirmed"} => col = "ct")
        /\ (col = "ctWait" => stage # "drain")
    BY <1>1 DEF Typed, HeapTypes, Shape, Stages
  <2>7. ~ NoTasks => ~ NoTasks'
    BY <2>4 DEF NoTasks
  <2> QED
    BY <1>1, <1>3, <1>8, <2>2, <2>3, <2>4, <2>5, <2>6, <2>7 DEF Confirming
<1> QED
  BY <1>11, <1>12, <1>13, <1>16, <1>17, <1>18, <1>19 DEF Safe

\* ManObj::mark looks at the link: it shades the pointee of a white one.
LEMMA MarkOutgoingsStep ==
  ASSUME Typed, NEW a \in Agents, MarkOutgoings(a)
  PROVE  StepOK
<1>1. /\ m \in [Agents -> Op] /\ m[a].pc = "mark" /\ m[a].obj \in Objs /\ (a = Coll \/ Pinned(a))
      /\ UNCHANGED <<epoch, guard, col, color, rc, link, place, cell, held, hp, prog, observed, ops,
                     hazards, hazardsTs, todo, stage, doomed>>
  BY DEF MarkOutgoings, At, phaseVars, objVars, rootVars, progVars, scanVars, colVars,
     Agents, Typed, HeapTypes, OpsOK, OpOK
<1>2. PICK o \in Objs : o = m[a].obj
  BY <1>1
<1>3. PICK ptr \in Link : ptr = link[o]
  BY DEF Typed, HeapTypes
<1>4. LinkShaded(a, ptr)
  BY <1>1, <1>2, <1>3, ShadeLinkEffect DEF MarkOutgoings
<1>5. /\ Moved(a) /\ m'[a].pc \in {"markCas", "markHeader"} /\ m'[a].obj = o /\ m'[a].new = m[a].new
      /\ m'[a].ret = m[a].ret
      /\ tasks' \in [Agents -> SUBSET Objs] /\ mtModified' \in [Agents -> Nat]
  BY <1>2, <1>4 DEF LinkShaded, Advanced, Began, Shaded, Typed, HeapTypes
<1>6. HeapTypes'
  BY <1>1, <1>5 DEF Typed, HeapTypes, Moved
<1>7. OpsOK'
  BY <1>1, <1>5, OpsStep DEF Typed, OpsOK, OpOK, Pinned
<1>8. CountsMove
  BY <1>1, <1>5, CountsKept DEF Counting
<1>9. MarkStep(a)
  <2>1. /\ \A x \in Agents : x # a => tasks'[x] = tasks[x]
        /\ tasks[a] \subseteq tasks'[a] /\ tasks'[a] \subseteq tasks[a] \cup ({ptr.to} \cap Objs)
        /\ ptr.color = Black(a) => tasks'[a] = tasks[a]
    BY <1>1, <1>4, ColorsOf DEF LinkShaded, Shaded
  <2>2. /\ m'[a].old.to \in {m[a].old.to, ptr.to}
        /\ m'[a].pc = "markHeader" => ptr.color = Black(a)
        /\ m'[a].pc = "markCas" =>
             m'[a].old.to = ptr.to /\ (ptr.to \in Objs => ptr.to \in tasks'[a] \/ color[ptr.to] = Black(a))
    BY <1>4 DEF LinkShaded, Shaded, Advanced, Began, IsMarked
  <2> QED
    BY <1>1, <1>2, <1>3, <1>5, <2>1, <2>2 DEF MarkStep, MarkPcs
<1> QED
  BY <1>6, <1>7, <1>8, <1>9, MarkSafe DEF StepOK

\* The exchange of the link by its black form, or another try.
LEMMA MarkCasStep ==
  ASSUME Typed, NEW a \in Agents, MarkCas(a)
  PROVE  StepOK
<1>1. /\ m \in [Agents -> Op] /\ m[a].pc = "markCas" /\ m[a].obj \in Objs /\ (a = Coll \/ Pinned(a))
      /\ UNCHANGED <<epoch, guard, col, color, rc, place, cell, held, hp, prog, observed, ops,
                     hazards, hazardsTs, todo, stage, doomed>>
  BY DEF MarkCas, At, phaseVars, rootVars, progVars, scanVars, colVars,
     Agents, Typed, HeapTypes, OpsOK, OpOK
<1>2. PICK o \in Objs : o = m[a].obj
  BY <1>1
<1>3. PICK ptr \in Link : ptr = link[o]
  BY DEF Typed, HeapTypes
<1>4. \/ /\ ptr = m[a].old /\ link' = [link EXCEPT ![o].color = Black(a)]
         /\ Advanced(a, "markHeader") /\ tasks' = tasks /\ mtModified' = mtModified
      \/ link' = link /\ LinkShaded(a, ptr)
  <2>1. CASE link[o] = m[a].old
    BY <1>1, <1>2, <1>3, <2>1, GotoMoves DEF MarkCas, Pcs, markVars
  <2>2. CASE link[o] # m[a].old
    BY <1>1, <1>2, <1>3, <2>2, ShadeLinkEffect DEF MarkCas
  <2> QED
    BY <2>1, <2>2
<1>5. /\ Moved(a) /\ m'[a].pc \in {"markCas", "markHeader"} /\ m'[a].obj = o /\ m'[a].new = m[a].new
      /\ m'[a].ret = m[a].ret
      /\ tasks' \in [Agents -> SUBSET Objs] /\ mtModified' \in [Agents -> Nat]
  BY <1>2, <1>4 DEF LinkShaded, Advanced, Began, Shaded, Typed, HeapTypes
<1>6. /\ link' \in [Objs -> Link] /\ \A x \in Objs : x # o => link'[x] = link[x]
      /\ link'[o].to = ptr.to
      /\ \/ link'[o].color = ptr.color
         \/ link'[o].color = Black(a) /\ m[a].old.to = ptr.to
  <2>1. Black(a) \in Color
    BY <1>1, ColorsOf
  <2> QED
    BY <1>3, <1>4, <2>1, SMTT(60), Z3T(60) DEF Typed, HeapTypes, Link
<1>7. HeapTypes'
  BY <1>1, <1>5, <1>6 DEF Typed, HeapTypes, Moved
<1>8. OpsOK'
  BY <1>1, <1>5, OpsStep DEF Typed, OpsOK, OpOK, Pinned
<1>9. CountsMove
  BY <1>1, <1>5, CountsKept DEF Counting
<1>10. MarkStep(a)
  <2>1. /\ \A x \in Agents : x # a => tasks'[x] = tasks[x]
        /\ tasks[a] \subseteq tasks'[a] /\ tasks'[a] \subseteq tasks[a] \cup ({ptr.to} \cap Objs)
        /\ ptr.color = Black(a) => tasks'[a] = tasks[a]
    BY <1>1, <1>4, ColorsOf DEF LinkShaded, Shaded
  <2>2. /\ m'[a].old.to \in {m[a].old.to, ptr.to}
        /\ m'[a].pc = "markCas" =>
             m'[a].old.to = ptr.to /\ (ptr.to \in Objs => ptr.to \in tasks'[a] \/ color[ptr.to] = Black(a))
    BY <1>4 DEF LinkShaded, Shaded, Advanced, Began, IsMarked
  <2>3. m'[a].pc = "markHeader" => link'[o].color = Black(a)
    BY <1>3, <1>4 DEF LinkShaded, Began, Advanced, Typed, HeapTypes, Link
  <2> QED
    BY <1>1, <1>2, <1>3, <1>5, <1>6, <2>1, <2>2, <2>3 DEF MarkStep, MarkPcs
<1> QED
  BY <1>7, <1>8, <1>9, <1>10, MarkSafe DEF StepOK

\* The header turns black after the link, so that black objects have black links.
LEMMA MarkHeaderStep ==
  ASSUME Typed, NEW a \in Agents, MarkHeader(a)
  PROVE  StepOK
<1>1. /\ m \in [Agents -> Op] /\ m[a].pc = "markHeader" /\ m[a].obj \in Objs /\ (a = Coll \/ Pinned(a))
      /\ Coll \in Agents /\ Coll \notin Participants /\ Participants \subseteq Agents
      /\ UNCHANGED <<epoch, guard, col, rc, link, place, cell, held, hp, prog, observed, ops, tasks,
                     mtModified, hazards, hazardsTs, todo, stage, doomed>>
  BY HeapAssumption DEF MarkHeader, At, phaseVars, rootVars, progVars, markVars, scanVars, colVars,
     Agents, Typed, HeapTypes, OpsOK, OpOK
<1>2. PICK o \in Objs : o = m[a].obj
  BY <1>1
<1>3. \/ m[a].ret = "idle" /\ Ended(a)
      \/ m[a].ret = "toMarked" /\ Began(a, "toMarked", o, NoLink, Null, "idle")
  BY <1>1, <1>2, MarkHeaderMoves
<1>4. /\ color' \in [Objs -> Color] /\ color'[o] = Black(a)
      /\ \A x \in Objs : x # o => color'[x] = color[x]
  <2>1. Black(a) \in Color
    BY <1>1, ColorsOf
  <2> QED
    BY <1>2, <2>1 DEF MarkHeader, Typed, HeapTypes
<1>5. HeapTypes'
  BY <1>1, <1>3, <1>4 DEF Typed, HeapTypes, Ended, Began, Moved
<1>6. OpsOK'
  BY <1>1, <1>3, OpsStep DEF OpOK, Pinned, Ended, Began
<1>7. CountsMove
  BY <1>1, <1>3, CountsKept DEF Counting, Ended, Began
<1>8. ASSUME Safe, RootsCounted
      PROVE  Safe'
  <2>1. Shape /\ Threads /\ Refs /\ CasOK /\ Tri /\ HpOK /\ Confirming
    BY <1>8 DEF Safe
  <2>2. /\ Tracing /\ W' = W /\ B' = B /\ (Tracing' <=> Tracing) /\ W # B
        /\ a \in Participants => Pinned(a) /\ hp[a] = o /\ m[a].ret = "idle" /\ o # Null
    BY <1>1, <1>2, <2>1, MarkingTraces, EpochFacts, HeapAssumption
    DEF MarkPcs, W, B, Tracing, Typed, Threads, ThreadOK
  <2>3. Black(a) = B
    BY <1>1, <2>2, GuardColors, CollColors DEF Agents, Typed
  <2>4. /\ \A x \in Agents : x # a => m'[x] = m[x]
        /\ m[a].ret = "idle" => m'[a].pc = "idle"
        /\ m[a].ret # "idle" => a = Coll /\ m[a].ret = "toMarked" /\ m'[a].pc = "toMarked" /\ m'[a].obj = o
        /\ m'[a].pc \in {"idle", "toMarked"} /\ m'[a].old.to = Null /\ m'[a].new = Null
    BY <1>3, <2>2, SMTT(60), Z3T(60) DEF Ended, Began, Moved, NoLink, Agents
  <2>5. \A x \in Objs : /\ Swept(x)' <=> Swept(x)
                        /\ Raw(x)' <=> Raw(x)
                        /\ Unscanned(x)' <=> Unscanned(x)
    BY <1>1, <2>2, <2>4 DEF Swept, Raw, RawPcs, Unscanned, InList, IsLocal
  <2>6. Proper(o) /\ o \in ProperObjs
    BY <1>1, <1>2, <2>1 DEF Refs, ArgsOK, MarkPcs, ProperObjs
  <2>7. ~ Swept(o) /\ place[o] # Marked(B)
    <3>1. place[o] # Marked(B)
      BY <2>1, <2>2 DEF Shape, Boxes, BoxOK, Tracing
    <3>2. ASSUME NEW b \in Agents, m[b].pc = "sweepBox"
          PROVE  FALSE
      <4>1. b \in Participants /\ b \in prog.sweepers /\ col = "rtWait"
        BY <2>1, <2>2, <3>2 DEF Shape, CollOK, Threads, ThreadOK, Tracing, Agents
      <4>2. a \in Participants
        BY <1>1, <2>1, <4>1 DEF Shape, CollOK, Stages, MarkPcs, Agents
      <4>3. a \in prog.hpUsers
        BY <2>1, <2>2, <4>2 DEF Threads, ThreadOK
      <4> QED
        BY <2>1, <4>1, <4>3 DEF Shape, Plain
    <3> QED
      BY <3>1, <3>2 DEF Swept
  <2>8. /\ \A x \in Objs : Proper(x)' <=> Proper(x)
        /\ ProperObjs' = ProperObjs /\ ProperPtrs' = ProperPtrs
    <3>1. Proper(o)'
      BY <1>1, <2>2, <2>5, <2>6, <2>7 DEF Proper, Dead
    <3>2. \A x \in Objs : Proper(x)' <=> Proper(x)
      BY <1>1, <1>4, <2>2, <2>5, <2>6, <3>1 DEF Proper, Dead
    <3> QED
      BY <3>2 DEF ProperObjs, ProperPtrs
  <2>9. Shape'
    <3>1. Plain' /\ Stages' /\ CollOK'
      BY <1>1, <2>1, <2>4 DEF Shape, Plain, Stages, CollOK, MarkPcs
    <3>2. BatchOK'
      BY <1>1, <1>2, <2>1, <2>4, SMTT(60), Z3T(60) DEF Shape, BatchOK, HoldsBox, MarkPcs
    <3>3. Boxes'
      BY <1>1, <1>4, <2>1, <2>2, <2>3 DEF Shape, Boxes, BoxOK, InList, IsLocal
    <3>4. link[o].color = B
      BY <1>1, <1>2, <2>1 DEF Shape, HeaderOK
    <3>5. LinkColors'
      BY <1>1, <1>4, <2>1, <2>2, <2>8, <3>4 DEF Shape, LinkColors
    <3>6. HeaderOK'
      BY <1>1, <2>1, <2>2, <2>4 DEF Shape, HeaderOK
    <3> QED
      BY <3>1, <3>2, <3>3, <3>5, <3>6 DEF Shape
  <2>10. Threads'
    <3>1. ASSUME NEW q \in Participants
          PROVE  ThreadOK(q)'
      <4>1. ThreadOK(q) /\ Black(q)' = Black(q) /\ (Pinned(q)' <=> Pinned(q))
        BY <1>1, <2>1 DEF Threads, Pinned, Black, White, EpochOf
      <4>2. CASE q # a
        <5>1. m'[q] = m[q]
          BY <1>1, <2>4, <4>2
        <5> QED
          BY <1>1, <2>2, <4>1, <5>1 DEF ThreadOK
      <4>3. CASE q = a
        <5>1. m'[q].pc = "idle" /\ Pinned(q)
          BY <1>1, <2>2, <2>4, <4>3
        <5> QED
          BY <1>1, <2>2, <4>1, <5>1 DEF ThreadOK, MarkPcs
      <4> QED
        BY <4>2, <4>3
    <3>2. ASSUME NEW q \in Participants
          PROVE  RawOK(q)'
      <4> SUFFICES ASSUME m'[q].pc \in RawPcs
                   PROVE  RawOK(q)'
        BY DEF RawOK
      <4>1. m'[q] = m[q]
        BY <1>1, <2>4 DEF RawPcs
      <4>2. PICK x \in Objs : x = m[q].obj
        BY <1>1, <4>1 DEF Typed, OpsOK, OpOK, RawPcs
      <4>3. x # o
        BY <2>6, <4>1, <4>2 DEF Proper, Raw
      <4>4. color'[x] = color[x]
        BY <1>4, <4>3
      <4> QED
        BY <1>1, <2>1, <4>1, <4>2, <4>4 DEF Threads, RawOK
    <3> QED
      BY <3>1, <3>2 DEF Threads
  <2>11. Refs'
    <3>1. \A x \in Agents : ArgsOK(x)'
      BY <2>1, <2>4, <2>8 DEF Refs, ArgsOK, MarkPcs, LinkPcs, ProperPtrs
    <3> QED
      BY <1>1, <2>1, <2>8, <3>1 DEF Refs
  <2>12. \A x \in Objs : GrayOrBlack(x) => GrayOrBlack(x)'
    <3>1. \A b \in Agents, x \in Objs : Marks(b, x) => Marks(b, x)' \/ x = o
      BY <1>2, <2>4 DEF Marks
    <3>2. \A q \in Participants, x \in Objs : Shades(q, x) => Shades(q, x)'
      BY <1>1, <2>4 DEF Shades, ShadePcs
    <3>3. \A x \in Objs : Pending(x) => Pending(x)' \/ x = o
      BY <1>1, <1>4, <2>2, <2>5 DEF Pending
    <3>4. GrayOrBlack(o)'
      BY <1>4, <2>2, <2>3 DEF GrayOrBlack
    <3> QED
      BY <1>1, <1>4, <2>2, <3>1, <3>2, <3>3, <3>4 DEF GrayOrBlack
  <2>13. CasOK'
    <3> SUFFICES ASSUME NEW b \in Agents, m'[b].pc = "markCas", m'[b].old.to # Null
                 PROVE  \E x \in Objs : x = m'[b].old.to /\ GrayOrBlack(x)'
      BY DEF CasOK
    <3>1. m'[b] = m[b]
      BY <2>4
    <3>2. PICK x \in Objs : x = m[b].old.to
      BY <1>1, <3>1 DEF Op, Link
    <3> QED
      BY <2>1, <2>12, <3>1, <3>2 DEF CasOK
  <2>14. Tri'
    <3>1. \A x \in Objs : Known(x)' => Known(x)
      <4> SUFFICES ASSUME NEW x \in Objs, Known(x)' PROVE Known(x)
        OBVIOUS
      <4>1. CASE \E c \in Cells : cell'[c] = x
        BY <1>1, <4>1 DEF Known
      <4>2. CASE \E y \in Objs : Proper(y)' /\ link'[y].color = B' /\ link'[y].to = x
        BY <1>1, <2>2, <2>8, <4>2 DEF Known
      <4>3. ASSUME NEW p \in Participants,
                   \/ Pinned(p)' /\ guard'[p].phase # "N" /\ Uses(p, x)'
                   \/ m'[p].pc = "casLink" /\ m'[p].old.color = B' /\ m'[p].new = x
                   \/ hp'[p] = x /\ ~ LateHp(p)'
            PROVE  Known(x)
        <5>1. (Pinned(p)' <=> Pinned(p)) /\ (LateHp(p)' <=> LateHp(p))
              /\ guard' = guard /\ hp' = hp /\ held' = held
          BY <1>1 DEF Pinned, LateHp
        <5>2. CASE p # a
          <6>1. m'[p] = m[p]
            BY <1>1, <2>4, <5>2
          <6>2. Uses(p, x)' => Uses(p, x)
            BY <5>1, <6>1 DEF Uses
          <6> QED
            BY <2>2, <4>3, <5>1, <6>1, <6>2 DEF Known
        <5>3. CASE p = a
          <6>1. m'[p].pc = "idle"
            BY <1>1, <2>2, <2>4, <5>3
          <6>2. Uses(p, x)' => Uses(p, x)
            BY <5>1, <6>1 DEF Uses
          <6> QED
            BY <4>3, <5>1, <6>1, <6>2 DEF Known
        <5> QED
          BY <5>2, <5>3
      <4> QED
        BY <4>1, <4>2, <4>3 DEF Known
    <3> QED
      BY <1>1, <2>1, <2>2, <2>8, <2>12, <3>1, TriStep DEF Found
  <2>15. HpOK'
    <3>1. \A q \in Participants : (hp[q] # Null /\ LateHp(q)) \/ m[q].pc \in MarkPcs => hp[q] \in Objs
      BY <2>1, HpIsObj
    <3>2. \A q \in Participants : m'[q].pc \in MarkPcs => m[q].pc \in MarkPcs
      BY <1>1, <2>4 DEF MarkPcs
    <3>3. \A x \in Objs : Marks(Coll, x) => Marks(Coll, x)' \/ x = o
      BY <1>1, <1>2, <2>4 DEF Marks
    <3>4. ASSUME NEW q \in Participants, (hp[q] # Null /\ LateHp(q)) \/ m[q].pc \in MarkPcs
          PROVE  color'[hp[q]] = B \/ Marks(Coll, hp[q])' \/ (Unscanned(hp[q])' /\ HpDue(q))
      <4>1. PICK x \in Objs : x = hp[q]
        BY <3>1, <3>4
      <4>2. color[x] = B \/ Marks(Coll, x) \/ (Unscanned(x) /\ HpDue(q))
        BY <2>1, <3>4, <4>1 DEF HpOK
      <4>3. color'[x] = B \/ Marks(Coll, x)' \/ (Unscanned(x)' /\ HpDue(q))
        BY <1>4, <2>3, <2>5, <3>3, <4>2
      <4> QED
        BY <1>1, <4>1, <4>3
    <3> QED
      BY <1>1, <2>2, <3>2, <3>4 DEF HpOK, LateHp, HpDue
  <2>16. Confirming'
    <3>1. ASSUME col = "ctWait" \/ stage \in {"confirm1", "confirm2", "confirm3", "confirmed"}
          PROVE  color[o] = B
      <4>1. a \in Participants /\ stage \notin {"take", "hps", "scan", "drain"} /\ col # "rtWait"
            /\ m[Coll].pc \notin MarkPcs
        BY <1>1, <2>1, <3>1 DEF Shape, CollOK, Stages, MarkPcs, Agents
      <4> QED
        BY <1>1, <2>1, <2>2, <4>1 DEF HpOK, HpDue, Marks, MarkPcs
    <3>2. \A q \in Participants : m[q].pc \in ShadePcs \/ m'[q].pc \in ShadePcs => m'[q] = m[q]
      BY <1>1, <2>4 DEF ShadePcs
    <3>3. ASSUME col = "ctWait" \/ stage \in {"confirm1", "confirm2", "confirm3", "confirmed"}
          PROVE  \A q \in Participants : ShadesWhite(q)' <=> ShadesWhite(q)
      BY <1>4, <2>2, <2>3, <3>1, <3>2, <3>3 DEF ShadesWhite
    <3>4. \A q \in Participants : OldGuard(q)' <=> OldGuard(q)
      BY <1>1 DEF OldGuard, Pinned
    <3> QED
      BY <1>1, <2>1, <2>2, <3>3, <3>4 DEF Confirming, Settled, NoTasks
  <2> QED
    BY <2>9, <2>10, <2>11, <2>13, <2>14, <2>15, <2>16 DEF Safe
<1> QED
  BY <1>5, <1>6, <1>7, <1>8 DEF StepOK

-----------------------------------------------------------------------------
(* Mutator steps.                                                           *)

\* An unpinned thread has no references but its hazard pointer.
LEMMA UnpinThreadStep ==
  ASSUME Typed, NEW p \in Participants, UnpinThread(p)
  PROVE  StepOK
<1>1. /\ p \in Agents /\ p # Coll /\ Pinned(p) /\ m[p].pc = "idle" /\ m \in [Agents -> Op]
      /\ UNCHANGED <<epoch, col, color, rc, link, place, cell, hp, prog, observed, ops, tasks,
                     mtModified, hazards, hazardsTs, todo, m, stage, doomed>>
  BY HeapAssumption DEF UnpinThread, Ready, At, Unpin, objVars, progVars, markVars, scanVars, colVars,
     Agents, Typed, HeapTypes
<1>2. /\ held' \in [Participants -> SUBSET Objs] /\ held'[p] = {} /\ guard'[p] = NoEpoch
      /\ \A q \in Participants : q # p => guard'[q] = guard[q] /\ held'[q] = held[q]
  BY DEF UnpinThread, Unpin, Typed, HeapTypes, PhasesInv, PhasesTypeOK
<1>3. HeapTypes'
  BY <1>1, <1>2 DEF Typed, HeapTypes
<1>4. OpsOK'
  BY <1>1, <1>2 DEF Typed, OpsOK, OpOK, Pinned
<1>5. CountsMove
  BY <1>1 DEF CountsMove
<1>6. ASSUME Safe, RootsCounted
      PROVE  Safe'
  <2>1. QuietStep(p)
    BY <1>1, <1>2 DEF QuietStep, QuietPcs, Moved
  <2>2. ThreadOK(p)'
    BY <1>1, <1>2, <1>6 DEF Safe, Threads, ThreadOK, Pinned, MarkPcs, Tracing
  <2>3. RefsStay(p)
    BY <1>1, <1>2, <1>6 DEF Safe, Refs, RefsStay, LinkPcs
  <2>4. GrayStays(p) /\ QueueStays(p) /\ HpStays(p)
    BY <1>1 DEF GrayStays, QueueStays, HpStays, Shades, ShadesWhite, ShadePcs
  <2>5. KnownStays(p)
    BY <1>1, <1>2 DEF KnownStays, NewlyKnown, Found, Known, Pinned
  <2> QED
    BY <1>6, <2>1, <2>2, <2>3, <2>4, <2>5, QuietSafe
<1> QED
  BY <1>3, <1>4, <1>5, <1>6 DEF StepOK

\* What a cell holds is known in a cycle.
LEMMA LoadCellStep ==
  ASSUME Typed, NEW p \in Participants, NEW c \in Cells, LoadCell(p, c)
  PROVE  StepOK
<1>1. /\ p \in Agents /\ p # Coll /\ Pinned(p) /\ m[p].pc = "idle" /\ m \in [Agents -> Op]
      /\ UNCHANGED <<epoch, guard, col, color, rc, link, place, cell, hp, prog, observed, ops, tasks,
                     mtModified, hazards, hazardsTs, todo, m, stage, doomed>>
  BY HeapAssumption DEF LoadCell, Ready, At, phaseVars, objVars, progVars, markVars, scanVars, colVars,
     Agents, Typed, HeapTypes
<1>2. Loaded(p, cell[c])
  BY HoldEffect DEF LoadCell, Typed, HeapTypes
<1>3. HeapTypes'
  BY <1>1, <1>2 DEF Typed, HeapTypes, Loaded
<1>4. OpsOK'
  BY <1>1 DEF Typed, OpsOK, OpOK, Pinned
<1>5. CountsMove
  BY <1>1 DEF CountsMove
<1>6. ASSUME Safe, RootsCounted
      PROVE  Safe'
  <2>1. QuietStep(p)
    BY <1>1, <1>2 DEF QuietStep, QuietPcs, Moved, Loaded
  <2>2. ThreadOK(p)'
    BY <1>1, <1>6 DEF Safe, Threads, ThreadOK, Pinned, MarkPcs, Tracing
  <2>3. RefsStay(p)
    BY <1>1, <1>2, <1>6 DEF Safe, Refs, RefsStay, LinkPcs, Loaded, ProperPtrs
  <2>4. GrayStays(p) /\ QueueStays(p) /\ HpStays(p)
    BY <1>1 DEF GrayStays, QueueStays, HpStays, Shades, ShadesWhite, ShadePcs
  <2>5. KnownStays(p)
    BY <1>1, <1>2 DEF KnownStays, NewlyKnown, Found, Known, Uses, Loaded
  <2> QED
    BY <1>6, <2>1, <2>2, <2>3, <2>4, <2>5, QuietSafe
<1> QED
  BY <1>3, <1>4, <1>5, <1>6 DEF StepOK

\* A guard of a cycle finds behind the link of a known object what is known or will
\* be: a black link leads to known objects, a white one of a known object is followed
\* by the marking.
LEMMA LoadLinkStep ==
  ASSUME Typed, NEW p \in Participants, NEW o \in Objs, LoadLink(p, o)
  PROVE  StepOK
<1>1. /\ p \in Agents /\ p # Coll /\ Pinned(p) /\ m[p].pc = "idle" /\ m \in [Agents -> Op]
      /\ UNCHANGED <<epoch, guard, col, color, rc, link, place, cell, hp, prog, observed, ops, tasks,
                     mtModified, hazards, hazardsTs, todo, m, stage, doomed>>
  BY HeapAssumption DEF LoadLink, Ready, At, phaseVars, objVars, progVars, markVars, scanVars, colVars,
     Agents, Typed, HeapTypes
<1>2. Loaded(p, link[o].to) /\ o \in Usable(p)
  BY HoldEffect DEF LoadLink, Typed, HeapTypes, Link
<1>3. HeapTypes'
  BY <1>1, <1>2 DEF Typed, HeapTypes, Loaded
<1>4. OpsOK'
  BY <1>1 DEF Typed, OpsOK, OpOK, Pinned
<1>5. CountsMove
  BY <1>1 DEF CountsMove
<1>6. ASSUME Safe, RootsCounted
      PROVE  Safe'
  <2>1. QuietStep(p)
    BY <1>1, <1>2 DEF QuietStep, QuietPcs, Moved, Loaded
  <2>2. ThreadOK(p)'
    BY <1>1, <1>6 DEF Safe, Threads, ThreadOK, Pinned, MarkPcs, Tracing
  <2>3. o \in ProperObjs /\ RefsStay(p)
    BY <1>1, <1>2, <1>6 DEF Safe, Refs, RefsStay, LinkPcs, Loaded, ProperPtrs, Usable
  <2>4. GrayStays(p) /\ QueueStays(p) /\ HpStays(p)
    BY <1>1 DEF GrayStays, QueueStays, HpStays, Shades, ShadesWhite, ShadePcs
  <2>5. KnownStays(p)
    BY <1>1, <1>2, <2>3 DEF KnownStays, NewlyKnown, Found, Known, Uses, Loaded, Usable, ProperObjs
  <2> QED
    BY <1>6, <2>1, <2>2, <2>3, <2>4, <2>5, QuietSafe
<1> QED
  BY <1>3, <1>4, <1>5, <1>6 DEF StepOK

\* The thread uses what it has already.
LEMMA ExchangeLinkStep ==
  ASSUME Typed, NEW p \in Participants, NEW o \in Objs, NEW new \in Objs \cup {Null},
         ExchangeLink(p, o, new)
  PROVE  StepOK
<1>1. /\ p \in Agents /\ p # Coll /\ Pinned(p) /\ m[p].pc = "idle" /\ m \in [Agents -> Op]
      /\ o \in Usable(p) /\ new \in Usable(p) \cup {Null} /\ new # link[o].to /\ ops' \in Nat
      /\ UNCHANGED <<epoch, guard, col, color, rc, link, place, cell, held, hp, prog, observed, tasks,
                     mtModified, hazards, hazardsTs, todo, stage, doomed>>
  BY HeapAssumption, SMTT(60), Z3T(60) DEF ExchangeLink, Ready, At, phaseVars, objVars, rootVars, markVars, scanVars,
     colVars, Agents, Typed, HeapTypes, Operate
<1>2. \/ link[o].color = Black(p) /\ Began(p, "dijkstra", o, link[o], new, "idle")
      \/ link[o].color # Black(p) /\ Began(p, "casLink", o, link[o], new, "idle")
  BY <1>1, PrepareLinkMoves DEF ExchangeLink, Typed, HeapTypes
<1>3. HeapTypes'
  BY <1>1, <1>2 DEF Typed, HeapTypes, Began, Moved
<1>4. OpsOK'
  BY <1>1, <1>2, OpsStep DEF OpOK, Pinned, Began
<1>5. CountsMove
  BY <1>1, <1>2, CountsKept DEF Began, Counting
<1>6. ASSUME Safe, RootsCounted
      PROVE  Safe'
  <2>1. QuietStep(p)
    BY <1>1, <1>2 DEF QuietStep, QuietPcs, Began
  <2>2. o \in ProperObjs /\ RefsStay(p)
    BY <1>1, <1>2, <1>6 DEF Safe, Refs, RefsStay, LinkPcs, ProperPtrs, Usable, Began
  <2>3. ThreadOK(p)'
    <3>1. ~ Tracing /\ guard[p].phase = "N" => link[o].color # Black(p) /\ link[o].color = W
      BY <1>1, <1>6, <2>2, GuardColors, EpochFacts DEF Safe, Shape, LinkColors, ProperObjs, Typed
    <3>2. W' = W /\ Black(p)' = Black(p)
      BY <1>1 DEF W, Black, White, EpochOf
    <3> QED
      BY <1>1, <1>2, <1>6, <3>1, <3>2 DEF Safe, Threads, ThreadOK, Pinned, MarkPcs, Tracing, Began
  <2>4. GrayStays(p) /\ QueueStays(p) /\ HpStays(p)
    BY <1>1, <1>2 DEF GrayStays, QueueStays, HpStays, Shades, ShadesWhite, ShadePcs, Began
  <2>5. KnownStays(p)
    <3>1. Tracing => Black(p) = B
      BY <1>1, GuardColors DEF Typed
    <3>2. ASSUME guard[p].phase # "N", NEW x \in Objs, Uses(p, x)'
          PROVE  Known(x) \/ (Proper(o) /\ Known(o) /\ link[o].to = x)
      BY <1>1, <1>2, <2>2, <3>2, HeapAssumption DEF Known, Uses, Usable, ProperObjs, Began
    <3> QED
      BY <1>1, <1>2, <3>1, <3>2 DEF KnownStays, NewlyKnown, Found, Known, Began
  <2> QED
    BY <1>6, <2>1, <2>2, <2>3, <2>4, <2>5, QuietSafe
<1> QED
  BY <1>3, <1>4, <1>5, <1>6 DEF StepOK

\* The new pointee is queued or black before a black link gets it.
LEMMA DijkstraBarrierStep ==
  ASSUME Typed, NEW p \in Participants, DijkstraBarrier(p)
  PROVE  StepOK
<1>1. /\ p \in Agents /\ p # Coll /\ Pinned(p) /\ m[p].pc = "dijkstra" /\ m \in [Agents -> Op]
      /\ m[p].obj \in Objs /\ m[p].new \in Objs \cup {Null}
      /\ UNCHANGED <<epoch, guard, col, color, rc, link, place, cell, held, hp, prog, observed, ops,
                     hazards, hazardsTs, todo, stage, doomed>>
  BY HeapAssumption DEF DijkstraBarrier, At, phaseVars, objVars, rootVars, progVars, scanVars, colVars,
     Agents, Typed, HeapTypes, OpsOK, OpOK, Op
<1>2. Shaded(p, m[p].new) /\ Advanced(p, "casLink")
  BY <1>1, ShadeEffect, GotoMoves DEF DijkstraBarrier, Pcs
<1>3. HeapTypes'
  BY <1>1, <1>2 DEF Typed, HeapTypes, Shaded, Advanced, Moved
<1>4. OpsOK'
  BY <1>1, <1>2, OpsStep DEF OpOK, Pinned, Advanced
<1>5. CountsMove
  BY <1>1, <1>2, CountsKept DEF Advanced, Counting
<1>6. ASSUME Safe, RootsCounted
      PROVE  Safe'
  <2>1. QuietStep(p)
    BY <1>1, <1>2 DEF QuietStep, QuietPcs, Advanced, Shaded
  <2>2. /\ m[p].old.color = Black(p)
        /\ Tracing => Black(p) = B
        /\ ~ Tracing => guard[p].phase # "N" /\ Black(p) = W
    BY <1>1, <1>6, GuardColors DEF Safe, Threads, ThreadOK, Typed
  <2>3. m[p].new \in ProperPtrs /\ RefsStay(p)
    BY <1>1, <1>2, <1>6, HeapAssumption
    DEF Safe, Refs, ArgsOK, RefsStay, LinkPcs, ProperPtrs, Advanced, Shaded
  <2>4. ThreadOK(p)'
    BY <1>1, <1>2, <1>6, <2>2 DEF Safe, Threads, ThreadOK, Pinned, MarkPcs, Tracing, Advanced
  <2>5. GrayStays(p) /\ HpStays(p)
    BY <1>1, <1>2 DEF GrayStays, HpStays, Shades, ShadePcs, Advanced
  <2>6. KnownStays(p)
    <3>1. ASSUME Tracing, NEW o \in Objs, m[p].new = o
          PROVE  Proper(o) /\ GrayOrBlack(o)'
      <4>1. Proper(o)
        BY <2>3, <3>1, HeapAssumption DEF ProperPtrs, ProperObjs
      <4>2. o \in tasks'[p] \/ color'[o] = B'
        BY <1>1, <1>2, <2>2, <3>1 DEF Shaded, IsMarked, B
      <4> QED
        BY <1>1, <4>1, <4>2 DEF GrayOrBlack
    <3> QED
      BY <1>1, <1>2, <3>1 DEF KnownStays, NewlyKnown, Found, Known, Uses, LinkPcs, Advanced
  <2>7. QueueStays(p)
    <3>1. CASE ~ Tracing
      <4>1. m[p].new \in Objs => IsMarked(p, m[p].new)
        BY <1>6, <2>2, <2>3, <3>1, ProperPlaces, HeapAssumption DEF Safe, ProperPtrs, ProperObjs, IsMarked
      <4> QED
        BY <1>2, <3>1, <4>1 DEF Shaded, QueueStays, Tracing
    <3>2. CASE col \in {"ctWait", "ct"} /\ AllBlack
      <4>1. Tracing /\ guard[p].phase # "N"
        BY <1>1, <3>2, GuardFacts DEF Tracing, Typed
      <4>2. m[p].new \in Objs => Known(m[p].new)
        BY <1>1, <4>1 DEF Known, Uses
      <4>3. m[p].new \in Objs => IsMarked(p, m[p].new)
        BY <2>2, <3>2, <4>1, <4>2 DEF AllBlack, IsMarked
      <4> QED
        BY <1>2, <4>1, <4>3 DEF Shaded, QueueStays, ShadesWhite, ShadePcs, Advanced
    <3> QED
      BY <3>1, <3>2 DEF QueueStays, Tracing
  <2> QED
    BY <1>6, <2>1, <2>3, <2>4, <2>5, <2>6, <2>7, QuietSafe
<1> QED
  BY <1>3, <1>4, <1>5, <1>6 DEF StepOK

\* A white link that loses its pointee makes the thread shade it (Yuasa); a black one
\* gets what the Dijkstra barrier has shaded.
LEMMA CasLinkStep ==
  ASSUME Typed, NEW p \in Participants, CasLink(p)
  PROVE  StepOK
<1>1. /\ p \in Agents /\ p # Coll /\ Pinned(p) /\ m[p].pc = "casLink" /\ m \in [Agents -> Op]
      /\ m[p].obj \in Objs /\ m[p].new \in Objs \cup {Null} /\ m[p].old \in Link
      /\ link[m[p].obj] = m[p].old
      /\ UNCHANGED <<epoch, guard, col, color, rc, place, cell, hp, prog, observed, ops, tasks,
                     mtModified, hazards, hazardsTs, todo, stage, doomed>>
  BY HeapAssumption DEF CasLink, At, phaseVars, progVars, markVars, scanVars, colVars,
     Agents, Typed, HeapTypes, OpsOK, OpOK, Op
<1>2. /\ link' \in [Objs -> Link] /\ link'[m[p].obj].to = m[p].new
      /\ link'[m[p].obj].color = m[p].old.color
      /\ \A x \in Objs : x # m[p].obj => link'[x] = link[x]
  BY <1>1 DEF CasLink, Typed, HeapTypes, Link
<1>3. Loaded(p, m[p].old.to)
  BY <1>1, HoldEffect DEF CasLink, Typed, HeapTypes, Link
<1>4. \/ m[p].old.to # m[p].new /\ m[p].old.color = White(p) /\ Advanced(p, "yuasa")
      \/ ~ (m[p].old.to # m[p].new /\ m[p].old.color = White(p)) /\ Ended(p)
  BY <1>1, GotoMoves, ReturnMoves DEF CasLink, Pcs, Goto, Return
<1>5. HeapTypes'
  BY <1>1, <1>2, <1>3, <1>4 DEF Typed, HeapTypes, Loaded, Advanced, Ended, Began, Moved
<1>6. OpsOK'
  BY <1>1, <1>4, OpsStep DEF OpOK, Pinned, Advanced, Ended, Began
<1>7. CountsMove
  BY <1>1, <1>4, CountsKept DEF Advanced, Ended, Began, Counting
<1>8. ASSUME Safe, RootsCounted
      PROVE  Safe'
  <2>1. m[p].obj \in ProperObjs /\ m[p].new \in ProperPtrs /\ m[p].old.to \in ProperPtrs
    BY <1>1, <1>8 DEF Safe, Refs, ArgsOK, LinkPcs
  <2>2. QuietStep(p)
    BY <1>1, <1>2, <1>3, <1>4, <2>1 DEF QuietStep, QuietPcs, Advanced, Ended, Began, Loaded, ProperObjs
  <2>3. ThreadOK(p)'
    BY <1>1, <1>4, <1>8 DEF Safe, Threads, ThreadOK, Pinned, MarkPcs, Advanced, Ended, Began
  <2>4. RefsStay(p)
    BY <1>1, <1>2, <1>3, <1>4, <1>8, <2>1
    DEF Safe, Refs, RefsStay, LinkPcs, ProperPtrs, ProperObjs, Loaded, Advanced, Ended, Began
  <2>5. GrayStays(p) /\ HpStays(p)
    <3>1. Tracing => White(p) = W
      BY <1>1, GuardColors DEF Typed
    <3> QED
      BY <1>1, <1>2, <1>4, <3>1
      DEF GrayStays, HpStays, Shades, ShadePcs, Advanced, Ended, Began
  <2>6. KnownStays(p)
    <3>1. ASSUME guard[p].phase # "N", NEW x \in Objs, Uses(p, x)'
          PROVE  Known(x)
      BY <1>1, <1>3, <1>4, <3>1 DEF Known, Uses, Advanced, Ended, Began, Loaded, LinkPcs
    <3>2. ASSUME NEW x \in Objs, NEW y \in Objs, link'[y].color = B, link'[y].to = x, link[y].to # x
          PROVE  Known(x)
      BY <1>1, <1>2, <3>2 DEF Known
    <3> QED
      BY <1>1, <1>4, <3>1, <3>2 DEF KnownStays, NewlyKnown, Found, Known, Advanced, Ended, Began
  <2>7. QueueStays(p)
    <3>1. ASSUME col \in {"ctWait", "ct"}, AllBlack, m[p].old.to \in Objs
          PROVE  color[m[p].old.to] # W
      <4>1. guard[p].phase # "N"
        BY <1>1, <3>1, GuardFacts DEF Typed
      <4>2. Known(m[p].old.to)
        BY <1>1, <4>1 DEF Known, Uses
      <4> QED
        BY <3>1, <4>2, EpochFacts DEF AllBlack, Typed
    <3> QED
      BY <1>1, <1>4, <3>1 DEF QueueStays, ShadesWhite, ShadePcs, Advanced, Ended, Began, W
  <2> QED
    BY <1>8, <2>2, <2>3, <2>4, <2>5, <2>6, <2>7, QuietSafe
<1> QED
  BY <1>5, <1>6, <1>7, <1>8 DEF StepOK

\* What the failed exchange has found is behind the link of an object in use.
LEMMA CasLinkFailsStep ==
  ASSUME Typed, NEW p \in Participants, CasLinkFails(p)
  PROVE  StepOK
<1> DEFINE o == m[p].obj
<1>1. /\ p \in Agents /\ p # Coll /\ Pinned(p) /\ m[p].pc = "casLink" /\ m \in [Agents -> Op]
      /\ o \in Objs /\ m[p].new \in Objs \cup {Null} /\ link[o] \in Link
      /\ UNCHANGED <<epoch, guard, col, color, rc, link, place, cell, hp, prog, observed, ops, tasks,
                     mtModified, hazards, hazardsTs, todo, stage, doomed>>
  BY HeapAssumption DEF CasLinkFails, At, phaseVars, objVars, progVars, markVars, scanVars, colVars,
     Agents, Typed, HeapTypes, OpsOK, OpOK, Op
<1>2. \/ /\ held' = held /\ link[o].to # m[p].new /\ link[o].color = Black(p)
         /\ Began(p, "dijkstra", o, link[o], m[p].new, "idle")
      \/ /\ held' = held /\ ~ (link[o].to # m[p].new /\ link[o].color = Black(p))
         /\ Began(p, "casLink", o, link[o], m[p].new, "idle")
      \/ Loaded(p, link[o].to) /\ Ended(p)
  <2>1. \/ PrepareLink(p, o, link[o], m[p].new) /\ held' = held
        \/ Hold(p, link[o].to) /\ Return(p)
    BY DEF CasLinkFails
  <2>2. link[o].to \in Objs \cup {Null} /\ held \in [Participants -> SUBSET Objs]
    BY <1>1 DEF Typed, HeapTypes, Link
  <2>3. CASE PrepareLink(p, o, link[o], m[p].new) /\ held' = held
    BY <1>1, <2>3, PrepareLinkMoves
  <2>4. CASE Hold(p, link[o].to) /\ Return(p)
    BY <1>1, <2>2, <2>4, HoldEffect, ReturnMoves
  <2> QED
    BY <2>1, <2>3, <2>4
<1> HIDE DEF o
<1>3. HeapTypes'
  BY <1>1, <1>2 DEF Typed, HeapTypes, Began, Ended, Moved, Loaded
<1>4. OpsOK'
  BY <1>1, <1>2, OpsStep DEF OpOK, Pinned, Began, Ended
<1>5. CountsMove
  BY <1>1, <1>2, CountsKept DEF Began, Ended, Counting
<1>6. ASSUME Safe, RootsCounted
      PROVE  Safe'
  <2>1. QuietStep(p)
    BY <1>1, <1>2 DEF QuietStep, QuietPcs, Began, Ended, Loaded
  <2>2. o \in ProperObjs /\ m[p].new \in ProperPtrs /\ link[o].to \in ProperPtrs
    BY <1>1, <1>6 DEF Safe, Refs, ArgsOK, LinkPcs, o
  <2>3. RefsStay(p)
    BY <1>1, <1>2, <1>6, <2>2 DEF Safe, Refs, RefsStay, LinkPcs, ProperPtrs, Began, Ended, Loaded
  <2>4. ThreadOK(p)'
    <3>1. ~ Tracing /\ guard[p].phase = "N" => link[o].color # Black(p) /\ link[o].color = W
      BY <1>1, <1>6, <2>2, GuardColors, EpochFacts DEF Safe, Shape, LinkColors, ProperObjs, Typed
    <3>2. W' = W /\ Black(p)' = Black(p)
      BY <1>1 DEF W, Black, White, EpochOf
    <3> QED
      BY <1>1, <1>2, <1>6, <3>1, <3>2
      DEF Safe, Threads, ThreadOK, Pinned, MarkPcs, Tracing, Began, Ended
  <2>5. GrayStays(p) /\ QueueStays(p) /\ HpStays(p)
    BY <1>1, <1>2 DEF GrayStays, QueueStays, HpStays, Shades, ShadesWhite, ShadePcs, Began, Ended
  <2>6. KnownStays(p)
    <3>1. Tracing => Black(p) = B
      BY <1>1, GuardColors DEF Typed
    <3>2. ASSUME guard[p].phase # "N", NEW x \in Objs, Uses(p, x)'
          PROVE  Known(x) \/ (Proper(o) /\ Known(o) /\ link[o].to = x)
      <4>1. Proper(o) /\ Known(o)
        BY <1>1, <2>2, <3>2 DEF Known, Uses, LinkPcs, ProperObjs, o
      <4> QED
        BY <1>1, <1>2, <3>2, <4>1 DEF Known, Uses, Began, Ended, Loaded
    <3>3. ASSUME Tracing, NEW x \in Objs, m'[p].pc = "casLink", m'[p].old.color = B, m'[p].new = x
          PROVE  Known(x)
      BY <1>1, <1>2, <2>2, <3>1, <3>3 DEF Known, Began, Ended, ProperObjs
    <3> QED
      BY <1>1, <3>2, <3>3 DEF KnownStays, NewlyKnown, Found, Known
  <2> QED
    BY <1>6, <2>1, <2>3, <2>4, <2>5, <2>6, QuietSafe
<1> QED
  BY <1>3, <1>4, <1>5, <1>6 DEF StepOK

\* Within a cycle the test of a deletion barrier leaves it to p to shade the pointee;
\* outside there is nothing to shade.
LEMMA BarrierTestStep ==
  ASSUME Typed, NEW p \in Participants, YuasaBarrier(p) \/ ShadeOld(p)
  PROVE  StepOK
<1>1. /\ p \in Agents /\ p # Coll /\ m[p].pc \in {"yuasa", "shadeOld"} /\ m \in [Agents -> Op]
      /\ m[p].old.to \in Objs \cup {Null}
      /\ UNCHANGED <<epoch, guard, col, color, rc, link, place, cell, held, hp, prog, observed, ops,
                     tasks, mtModified, hazards, hazardsTs, todo, stage, doomed>>
  BY HeapAssumption DEF YuasaBarrier, ShadeOld, At, phaseVars, objVars, rootVars, progVars, markVars,
     scanVars, colVars, Agents, Typed, HeapTypes, Op, Link
<1>2. Pinned(p)
  BY <1>1 DEF Typed, OpsOK, OpOK
<1>3. \/ epoch.phase = "N" /\ Ended(p)
      \/ /\ epoch.phase # "N"
         /\ \E old \in Link : old.to = m[p].old.to /\ Began(p, "shade", Null, old, Null, "idle")
  <2>1. m' = [m EXCEPT ![p] = IF epoch.phase # "N" THEN ShadeOp(m[p].old.to) ELSE Idle]
    BY DEF YuasaBarrier, ShadeOld
  <2>2. CASE epoch.phase = "N"
    BY <1>1, <2>1, <2>2, ReturnMoves DEF Return
  <2>3. CASE epoch.phase # "N"
    BY <1>1, <2>1, <2>3, ShadeOpMoves
  <2> QED
    BY <2>2, <2>3
<1>4. /\ Moved(p) /\ m'[p].obj = Null /\ m'[p].new = Null
      /\ \/ epoch.phase = "N" /\ m'[p].pc = "idle"
         \/ epoch.phase # "N" /\ m'[p].pc = "shade" /\ m'[p].old.to = m[p].old.to
  BY <1>3 DEF Ended, Began
<1>5. HeapTypes'
  BY <1>1, <1>4 DEF Typed, HeapTypes, Moved
<1>6. OpsOK'
  BY <1>1, <1>2, <1>4, OpsStep DEF OpOK, Pinned
<1>7. CountsMove
  BY <1>1, <1>4, CountsKept DEF Counting
<1>8. ASSUME Safe, RootsCounted
      PROVE  Safe'
  <2>1. QuietStep(p)
    BY <1>1, <1>4 DEF QuietStep, QuietPcs
  <2>2. Tracing <=> epoch.phase # "N"
    BY EpochFacts DEF Typed
  <2>3. RefsStay(p)
    BY <1>1, <1>4, <1>8 DEF Safe, Refs, ArgsOK, RefsStay, LinkPcs, ProperPtrs
  <2>4. ThreadOK(p)'
    BY <1>1, <1>2, <1>4, <1>8, <2>2 DEF Safe, Threads, ThreadOK, Pinned, MarkPcs, Tracing
  <2>5. GrayStays(p) /\ HpStays(p)
    BY <1>1, <1>4, <2>2 DEF GrayStays, HpStays, Shades, ShadePcs
  <2>6. KnownStays(p)
    BY <1>1, <1>2, <1>4, HeapAssumption DEF KnownStays, NewlyKnown, Found, Known, Uses, LinkPcs
  <2>7. QueueStays(p)
    <3>1. ASSUME col \in {"ctWait", "ct"}, AllBlack, m[p].old.to \in Objs
          PROVE  color[m[p].old.to] # W
      <4>1. guard[p].phase # "N"
        BY <1>2, <3>1, GuardFacts DEF Typed
      <4>2. Known(m[p].old.to)
        BY <1>1, <1>2, <4>1 DEF Known, Uses
      <4> QED
        BY <3>1, <4>2, EpochFacts DEF AllBlack, Typed
    <3> QED
      BY <1>1, <1>4, <3>1 DEF QueueStays, ShadesWhite, ShadePcs, W
  <2> QED
    BY <1>8, <2>1, <2>3, <2>4, <2>5, <2>6, <2>7, QuietSafe
<1> QED
  BY <1>5, <1>6, <1>7, <1>8 DEF StepOK

\* The pointee that a white link has lost, or that has lost its last root, is queued or
\* black.  When the cycle has ended since the test, the thread is still under a guard of
\* it, by which the pointee is marked.
LEMMA ShadeStep ==
  ASSUME Typed, NEW p \in Participants, Shade(p)
  PROVE  StepOK
<1>1. /\ p \in Agents /\ p # Coll /\ Pinned(p) /\ m[p].pc = "shade" /\ m \in [Agents -> Op]
      /\ m[p].old.to \in Objs \cup {Null}
      /\ UNCHANGED <<epoch, guard, col, color, rc, link, place, cell, held, hp, prog, observed, ops,
                     hazards, hazardsTs, todo, stage, doomed>>
  BY HeapAssumption DEF Shade, At, phaseVars, objVars, rootVars, progVars, scanVars, colVars,
     Agents, Typed, HeapTypes, OpsOK, OpOK, Op, Link
<1>2. Ended(p) /\ Shaded(p, m[p].old.to)
  BY <1>1, ShadeEffect, ReturnMoves DEF Shade
<1>3. HeapTypes'
  BY <1>1, <1>2 DEF Typed, HeapTypes, Ended, Began, Moved, Shaded
<1>4. OpsOK'
  BY <1>1, <1>2, OpsStep DEF OpOK, Pinned, Ended, Began
<1>5. CountsMove
  BY <1>1, <1>2, CountsKept DEF Ended, Began, Counting
<1>6. ASSUME Safe, RootsCounted
      PROVE  Safe'
  <2>1. QuietStep(p)
    BY <1>1, <1>2 DEF QuietStep, QuietPcs, Ended, Began, Shaded
  <2>2. /\ Tracing => Black(p) = B
        /\ ~ Tracing => Black(p) = W
    BY <1>1, <1>6, GuardColors DEF Safe, Threads, ThreadOK, Typed
  <2>3. RefsStay(p)
    <3>1. m[p].old.to \in Objs => m[p].old.to \in ProperObjs
      BY <1>1, <1>6, HeapAssumption DEF Safe, Refs, ArgsOK, ProperPtrs
    <3>2. tasks[p] \subseteq ProperObjs
      BY <1>1, <1>6 DEF Safe, Refs
    <3>3. tasks'[p] \subseteq ProperObjs
      BY <1>2, <3>1, <3>2 DEF Shaded
    <3> QED
      BY <1>1, <1>2, <1>6, <3>3 DEF Safe, Refs, RefsStay, LinkPcs, Ended, Began
  <2>4. ThreadOK(p)'
    BY <1>1, <1>2, <1>6 DEF Safe, Threads, ThreadOK, Pinned, MarkPcs, Ended, Began
  <2>5. GrayStays(p) /\ HpStays(p)
    BY <1>1, <1>2, <2>2 DEF GrayStays, HpStays, Shades, ShadePcs, Ended, Began, Shaded, IsMarked
  <2>6. KnownStays(p)
    BY <1>1, <1>2 DEF KnownStays, NewlyKnown, Found, Known, Uses, Ended, Began
  <2>7. QueueStays(p)
    <3>1. ASSUME col \in {"ctWait", "ct"}, AllBlack, m[p].old.to \in Objs
          PROVE  IsMarked(p, m[p].old.to)
      <4>1. guard[p].phase # "N" /\ Tracing
        BY <1>1, <3>1, GuardFacts DEF Typed, Tracing
      <4>2. Known(m[p].old.to)
        BY <1>1, <4>1 DEF Known, Uses
      <4> QED
        BY <2>2, <3>1, <4>1, <4>2 DEF AllBlack, IsMarked
    <3>2. ASSUME ~ Tracing, m[p].old.to \in Objs
          PROVE  IsMarked(p, m[p].old.to)
      <4>1. Proper(m[p].old.to)
        BY <1>1, <1>6, <3>2, HeapAssumption DEF Safe, Refs, ArgsOK, ProperPtrs, ProperObjs
      <4> QED
        BY <1>6, <2>2, <3>2, <4>1, ProperPlaces DEF Safe, IsMarked
    <3> QED
      BY <1>1, <1>2, <3>1, <3>2 DEF QueueStays, ShadesWhite, ShadePcs, Ended, Began, Shaded
  <2> QED
    BY <1>6, <2>1, <2>3, <2>4, <2>5, <2>6, <2>7, QuietSafe
<1> QED
  BY <1>3, <1>4, <1>5, <1>6 DEF StepOK

\* The new reference is counted before it is stored.
LEMMA ExchangeCellStep ==
  ASSUME Typed, NEW p \in Participants, NEW c \in Cells, NEW new \in Objs \cup {Null},
         ExchangeCell(p, c, new)
  PROVE  StepOK
<1>1. /\ p \in Agents /\ p # Coll /\ Pinned(p) /\ m[p].pc = "idle" /\ m \in [Agents -> Op]
      /\ new \in Usable(p) \cup {Null} /\ ops' \in Nat
      /\ UNCHANGED <<epoch, guard, col, color, link, place, cell, held, hp, prog, observed, tasks,
                     mtModified, hazards, hazardsTs, todo, stage, doomed>>
  BY HeapAssumption, SMTT(60), Z3T(60) DEF ExchangeCell, Ready, At, phaseVars, rootVars, markVars, scanVars, colVars,
     Agents, Typed, HeapTypes, Operate
<1>2. PICK old \in Link : old.to = cell[c] /\ Began(p, "casCell", c, old, new, "idle")
  BY <1>1, ExchangeCellMoves DEF Typed, HeapTypes
<1>3. Counted(new, 1)
  BY IncEffect DEF ExchangeCell, Typed, HeapTypes
<1>4. HeapTypes'
  BY <1>1, <1>2, <1>3, SMTT(60), Z3T(60) DEF Typed, HeapTypes, Began, Moved, Counted
<1>5. OpsOK'
  BY <1>1, <1>2, OpsStep, HeapAssumption DEF OpOK, Pinned, Began
<1>6. CountsMove
  <2>1. CountsWithOps(p)
    BY <1>1, <1>2, <1>3, SMTT(60), Z3T(60) DEF CountsWithOps, Counting, Bit, Began, Counted, Typed, HeapTypes
  <2> QED
    BY <1>1, <1>2, <2>1 DEF CountsMove, Began
<1>7. ASSUME Safe, RootsCounted
      PROVE  Safe'
  <2>1. QuietStep(p)
    BY <1>1, <1>2 DEF QuietStep, QuietPcs, Began
  <2>2. RefsStay(p)
    BY <1>1, <1>2, <1>7 DEF Safe, Refs, RefsStay, LinkPcs, ProperPtrs, Usable, Began
  <2>3. ThreadOK(p)'
    BY <1>1, <1>2, <1>7 DEF Safe, Threads, ThreadOK, Pinned, MarkPcs, Began
  <2>4. GrayStays(p) /\ QueueStays(p) /\ HpStays(p)
    BY <1>1, <1>2, <1>3, SMTT(60), Z3T(60)
    DEF GrayStays, QueueStays, HpStays, Shades, ShadesWhite, ShadePcs, Began, Counted, Typed, HeapTypes
  <2>5. KnownStays(p)
    BY <1>1, <1>2, HeapAssumption
    DEF KnownStays, NewlyKnown, Found, Known, Uses, Usable, LinkPcs, Began
  <2> QED
    BY <1>7, <2>1, <2>2, <2>3, <2>4, <2>5, QuietSafe
<1> QED
  BY <1>4, <1>5, <1>6, <1>7 DEF StepOK

\* The reference that was counted is stored; the one that the cell had is still
\* counted, and the thread gives it up.
LEMMA CasCellStep ==
  ASSUME Typed, NEW p \in Participants, CasCell(p)
  PROVE  StepOK
<1> DEFINE c == m[p].obj
           old == m[p].old.to
           new == m[p].new
<1>1. /\ p \in Agents /\ p # Coll /\ Pinned(p) /\ m[p].pc = "casCell" /\ m \in [Agents -> Op]
      /\ c \in Cells /\ new \in Objs \cup {Null} /\ old \in Objs \cup {Null} /\ cell[c] = old
      /\ UNCHANGED <<epoch, guard, col, color, rc, link, place, hp, prog, observed, ops, tasks,
                     mtModified, hazards, hazardsTs, todo, stage, doomed>>
  BY HeapAssumption DEF CasCell, At, phaseVars, objVars, progVars, markVars, scanVars, colVars,
     Agents, Typed, HeapTypes, OpsOK, OpOK, Op, Link
<1>2. /\ cell' \in [Cells -> Objs \cup {Null}] /\ cell'[c] = new
      /\ \A d \in Cells : d # c => cell'[d] = cell[d]
  BY <1>1 DEF CasCell, Typed, HeapTypes
<1>3. Loaded(p, old)
  BY <1>1, HoldEffect DEF CasCell, Typed, HeapTypes
<1>4. \/ old = Null /\ Ended(p)
      \/ old \in Objs /\ \E l \in Link : l.to = old /\ Began(p, "decRoot", Null, l, Null, "idle")
  BY <1>1, DecRootOpMoves DEF CasCell
<1> HIDE DEF c, old, new
<1>5. HeapTypes'
  BY <1>1, <1>2, <1>3, <1>4 DEF Typed, HeapTypes, Ended, Began, Moved, Loaded
<1>6. OpsOK'
  BY <1>1, <1>4, OpsStep DEF OpOK, Pinned, Ended, Began
<1>7. CountsMove
  <2>1. \A o \in Objs : /\ Counting(p, o) <=> new = o
                        /\ Counting(p, o)' <=> old = o
    BY <1>1, <1>4, HeapAssumption DEF Counting, Ended, Began, old, new
  <2>2. CountsWithCell(p, c)
    BY <1>1, <1>2, <2>1, SMTT(60), Z3T(60) DEF CountsWithCell, Bit, Typed, HeapTypes
  <2> QED
    BY <1>1, <1>4, <2>2 DEF CountsMove, Ended, Began
<1>8. ASSUME Safe, RootsCounted
      PROVE  Safe'
  <2>1. QuietStep(p)
    BY <1>1, <1>3, <1>4 DEF QuietStep, QuietPcs, Ended, Began, Loaded
  <2>2. new \in ProperPtrs /\ old \in ProperPtrs
    BY <1>1, <1>8 DEF Safe, Refs, ArgsOK, new, old
  <2>3. RefsStay(p)
    BY <1>1, <1>2, <1>3, <1>4, <1>8, <2>2
    DEF Safe, Refs, RefsStay, LinkPcs, ProperPtrs, Ended, Began, Loaded
  <2>4. ThreadOK(p)'
    BY <1>1, <1>4, <1>8 DEF Safe, Threads, ThreadOK, Pinned, MarkPcs, Ended, Began
  <2>5. GrayStays(p) /\ QueueStays(p) /\ HpStays(p)
    BY <1>1, <1>4 DEF GrayStays, QueueStays, HpStays, Shades, ShadesWhite, ShadePcs, Ended, Began
  <2>6. KnownStays(p)
    <3>1. ASSUME guard[p].phase # "N", NEW o \in Objs, Uses(p, o)' \/ new = o
          PROVE  Known(o)
      BY <1>1, <1>3, <1>4, <3>1, HeapAssumption, SMTT(60), Z3T(60)
      DEF Known, Uses, LinkPcs, Ended, Began, Loaded, old, new
    <3>2. ASSUME Tracing, guard[p].phase = "N", NEW o \in Objs, new = o
          PROVE  Proper(o) /\ GrayOrBlack(o)
      <4>1. Proper(o) /\ rc[o] > 0 /\ color[o] \in Color
        BY <1>1, <1>8, <2>2, <3>2, HeapAssumption
        DEF ProperPtrs, ProperObjs, RootsCounted, Counting, Typed, HeapTypes, new
      <4>2. col = "rtWait"
        BY <1>1, <3>2, GuardFacts DEF Tracing, Typed
      <4>3. color[o] = B \/ Unscanned(o)
        BY <1>8, <4>1, <4>2, ProperPlaces DEF Safe
      <4> QED
        BY <4>1, <4>3, EpochFacts DEF GrayOrBlack, Pending, Typed
    <3> QED
      BY <1>1, <1>2, <1>4, <3>1, <3>2 DEF KnownStays, NewlyKnown, Found, Known, Ended, Began
  <2> QED
    BY <1>8, <2>1, <2>3, <2>4, <2>5, <2>6, QuietSafe
<1> QED
  BY <1>5, <1>6, <1>7, <1>8 DEF StepOK

\* The reference that was counted is kept for another try or given up.
LEMMA CasCellFailsStep ==
  ASSUME Typed, NEW p \in Participants, CasCellFails(p)
  PROVE  StepOK
<1> DEFINE c == m[p].obj
           new == m[p].new
<1>1. /\ p \in Agents /\ p # Coll /\ Pinned(p) /\ m[p].pc = "casCell" /\ m \in [Agents -> Op]
      /\ c \in Cells /\ new \in Objs \cup {Null} /\ cell[c] \in Objs \cup {Null}
      /\ UNCHANGED <<epoch, guard, col, color, rc, link, place, cell, hp, prog, observed, ops, tasks,
                     mtModified, hazards, hazardsTs, todo, stage, doomed>>
  BY HeapAssumption DEF CasCellFails, At, phaseVars, objVars, progVars, markVars, scanVars, colVars,
     Agents, Typed, HeapTypes, OpsOK, OpOK, Op
<1>2. /\ Moved(p)
      /\ \/ /\ held' = held /\ m'[p].pc = "casCell" /\ m'[p].obj = c /\ m'[p].new = new
            /\ m'[p].ret = m[p].ret /\ m'[p].old.to = cell[c]
         \/ Loaded(p, cell[c]) /\ new = Null /\ Ended(p)
         \/ /\ Loaded(p, cell[c]) /\ new \in Objs
            /\ \E l \in Link : l.to = new /\ Began(p, "decRoot", Null, l, Null, "idle")
  <2>1. CASE m' = [m EXCEPT ![p].old.to = cell[c]] /\ UNCHANGED held
    BY <1>1, <2>1, RetryCellMoves
  <2>2. CASE Hold(p, cell[c]) /\ m' = [m EXCEPT ![p] = DecRootOp(new)]
    <3>1. Loaded(p, cell[c])
      BY <1>1, <2>2, HoldEffect DEF Typed, HeapTypes
    <3>2. \/ new = Null /\ Ended(p)
          \/ new \in Objs /\ \E l \in Link : l.to = new /\ Began(p, "decRoot", Null, l, Null, "idle")
      BY <1>1, <2>2, DecRootOpMoves
    <3>3. Moved(p)
      BY <3>2 DEF Ended, Began
    <3> QED
      BY <3>1, <3>2, <3>3
  <2> QED
    BY <2>1, <2>2 DEF CasCellFails
<1> HIDE DEF c, new
<1>3. HeapTypes'
  BY <1>1, <1>2 DEF Typed, HeapTypes, Moved, Loaded
<1>4. OpsOK'
  BY <1>1, <1>2, OpsStep, HeapAssumption DEF OpOK, Pinned, Ended, Began
<1>5. CountsMove
  BY <1>1, <1>2, CountsKept, HeapAssumption DEF Ended, Began, Counting, new
<1>6. ASSUME Safe, RootsCounted
      PROVE  Safe'
  <2>1. QuietStep(p)
    BY <1>1, <1>2 DEF QuietStep, QuietPcs, Ended, Began, Loaded
  <2>2. new \in ProperPtrs /\ cell[c] \in ProperPtrs
    BY <1>1, <1>6 DEF Safe, Refs, ArgsOK, new
  <2>3. RefsStay(p)
    BY <1>1, <1>2, <1>6, <2>2 DEF Safe, Refs, RefsStay, LinkPcs, ProperPtrs, Ended, Began, Loaded
  <2>4. ThreadOK(p)'
    BY <1>1, <1>2, <1>6 DEF Safe, Threads, ThreadOK, Pinned, MarkPcs, Ended, Began
  <2>5. GrayStays(p) /\ QueueStays(p) /\ HpStays(p)
    BY <1>1, <1>2 DEF GrayStays, QueueStays, HpStays, Shades, ShadesWhite, ShadePcs, Ended, Began
  <2>6. KnownStays(p)
    <3>1. ASSUME guard[p].phase # "N", NEW o \in Objs, Uses(p, o)'
          PROVE  Known(o)
      BY <1>1, <1>2, <3>1, HeapAssumption DEF Known, Uses, LinkPcs, Ended, Began, Loaded, new
    <3> QED
      BY <1>1, <1>2, <3>1 DEF KnownStays, NewlyKnown, Found, Known, Ended, Began
  <2> QED
    BY <1>6, <2>1, <2>3, <2>4, <2>5, <2>6, QuietSafe
<1> QED
  BY <1>3, <1>4, <1>5, <1>6 DEF StepOK

\* The reference that the cell had is still counted, and the thread gives it up.
LEMMA DropCellStep ==
  ASSUME Typed, NEW p \in Participants, NEW c \in Cells, DropCell(p, c)
  PROVE  StepOK
<1>1. /\ p \in Agents /\ p # Coll /\ Pinned(p) /\ m[p].pc = "idle" /\ m \in [Agents -> Op]
      /\ cell[c] \in Objs /\ ops' \in Nat
      /\ UNCHANGED <<epoch, guard, col, color, rc, link, place, held, hp, prog, observed, tasks,
                     mtModified, hazards, hazardsTs, todo, stage, doomed>>
  BY HeapAssumption, SMTT(60), Z3T(60) DEF DropCell, Ready, At, phaseVars, objVars, markVars, scanVars, colVars,
     Agents, Typed, HeapTypes, Operate
<1>2. /\ cell' \in [Cells -> Objs \cup {Null}] /\ cell'[c] = Null
      /\ \A d \in Cells : d # c => cell'[d] = cell[d]
  BY DEF DropCell, Typed, HeapTypes
<1>3. \E l \in Link : l.to = cell[c] /\ Began(p, "decRoot", Null, l, Null, "idle")
  BY <1>1, DecRootOpMoves, HeapAssumption DEF DropCell
<1>4. HeapTypes'
  BY <1>1, <1>2, <1>3 DEF Typed, HeapTypes, Began, Moved
<1>5. OpsOK'
  BY <1>1, <1>3, OpsStep DEF OpOK, Pinned, Began
<1>6. CountsMove
  <2>1. \A o \in Objs : ~ Counting(p, o) /\ (Counting(p, o)' <=> cell[c] = o)
    BY <1>1, <1>3 DEF Counting, Began
  <2>2. CountsWithCell(p, c)
    BY <1>1, <1>2, <2>1, HeapAssumption, SMTT(60), Z3T(60) DEF CountsWithCell, Bit, Typed, HeapTypes
  <2> QED
    BY <1>1, <1>3, <2>2 DEF CountsMove, Began
<1>7. ASSUME Safe, RootsCounted
      PROVE  Safe'
  <2>1. QuietStep(p)
    BY <1>1, <1>3 DEF QuietStep, QuietPcs, Began
  <2>2. RefsStay(p)
    BY <1>1, <1>2, <1>3, <1>7 DEF Safe, Refs, RefsStay, LinkPcs, ProperPtrs, Began
  <2>3. ThreadOK(p)'
    BY <1>1, <1>3, <1>7 DEF Safe, Threads, ThreadOK, Pinned, MarkPcs, Began
  <2>4. GrayStays(p) /\ QueueStays(p) /\ HpStays(p)
    BY <1>1, <1>3 DEF GrayStays, QueueStays, HpStays, Shades, ShadesWhite, ShadePcs, Began
  <2>5. KnownStays(p)
    BY <1>1, <1>2, <1>3, HeapAssumption
    DEF KnownStays, NewlyKnown, Found, Known, Uses, LinkPcs, Began
  <2> QED
    BY <1>7, <2>1, <2>2, <2>3, <2>4, <2>5, QuietSafe
<1> QED
  BY <1>4, <1>5, <1>6, <1>7 DEF StepOK

\* An object that keeps a count will be scanned as a root; one that loses the last
\* count is going to be shaded.
LEMMA DecRootStep ==
  ASSUME Typed, NEW p \in Participants, DecRoot(p)
  PROVE  StepOK
<1> DEFINE o == m[p].old.to
<1>1. /\ p \in Agents /\ p # Coll /\ Pinned(p) /\ m[p].pc = "decRoot" /\ m \in [Agents -> Op]
      /\ o \in Objs /\ m[p].obj = Null
      /\ UNCHANGED <<epoch, guard, col, color, link, place, cell, held, hp, prog, observed, ops, tasks,
                     mtModified, hazards, hazardsTs, todo, stage, doomed>>
  BY HeapAssumption DEF DecRoot, At, phaseVars, rootVars, progVars, markVars, scanVars, colVars,
     Agents, Typed, HeapTypes, OpsOK, OpOK
<1>2. Counted(o, -1)
  BY <1>1, DecEffect DEF DecRoot, Typed, HeapTypes
<1>3. \/ rc[o] = 1 /\ Advanced(p, "shadeOld")
      \/ rc[o] # 1 /\ Ended(p)
  BY <1>1, GotoMoves, ReturnMoves DEF DecRoot, Pcs
<1> HIDE DEF o
<1>4. HeapTypes'
  BY <1>1, <1>2, <1>3, SMTT(60), Z3T(60) DEF Typed, HeapTypes, Advanced, Ended, Began, Moved, Counted
<1>5. OpsOK'
  BY <1>1, <1>3, OpsStep DEF OpOK, Pinned, Advanced, Ended, Began, o
<1>6. CountsMove
  <2>1. \A x \in Objs : (Counting(p, x) <=> o = x) /\ ~ Counting(p, x)'
    BY <1>1, <1>3 DEF Counting, Advanced, Ended, Began, o
  <2>2. CountsWithOps(p)
    BY <1>1, <1>2, <2>1, SMTT(60), Z3T(60) DEF CountsWithOps, Bit, Counted, Typed, HeapTypes
  <2> QED
    BY <1>1, <1>3, <2>2 DEF CountsMove, Advanced, Ended, Began
<1>7. ASSUME Safe, RootsCounted
      PROVE  Safe'
  <2>1. QuietStep(p)
    BY <1>1, <1>3 DEF QuietStep, QuietPcs, Advanced, Ended, Began
  <2>2. RefsStay(p)
    BY <1>1, <1>3, <1>7 DEF Safe, Refs, ArgsOK, RefsStay, LinkPcs, Advanced, Ended, Began
  <2>3. ThreadOK(p)'
    BY <1>1, <1>3, <1>7 DEF Safe, Threads, ThreadOK, Pinned, MarkPcs, Advanced, Ended, Began
  <2>4. GrayStays(p) /\ HpStays(p)
    <3>1. \A x \in Objs : rc[x] > 0 => rc'[x] > 0 \/ (x = o /\ rc[o] = 1)
      BY <1>1, <1>2, SMTT(60), Z3T(60) DEF Counted, Typed, HeapTypes
    <3> QED
      BY <1>1, <1>3, <3>1
      DEF GrayStays, HpStays, Shades, ShadePcs, Advanced, Ended, Began, o
  <2>5. KnownStays(p)
    BY <1>1, <1>3 DEF KnownStays, NewlyKnown, Found, Known, Uses, LinkPcs, Advanced, Ended, Began
  <2>6. QueueStays(p)
    <3>1. ASSUME col \in {"ctWait", "ct"}, AllBlack
          PROVE  color[o] # W
      <4>1. guard[p].phase # "N"
        BY <1>1, <3>1, GuardFacts DEF Typed
      <4>2. Known(o)
        BY <1>1, <4>1 DEF Known, Uses, o
      <4> QED
        BY <1>1, <3>1, <4>2, EpochFacts DEF AllBlack, Typed
    <3> QED
      BY <1>1, <1>3, <3>1 DEF QueueStays, ShadesWhite, ShadePcs, Advanced, Ended, Began, W, o
  <2> QED
    BY <1>7, <2>1, <2>2, <2>3, <2>4, <2>5, <2>6, QuietSafe
<1> QED
  BY <1>4, <1>5, <1>6, <1>7 DEF StepOK

\* A hazard pointer gets what the thread holds under its guard.
LEMMA ProtectStep ==
  ASSUME Typed, NEW p \in Participants, NEW o \in Objs, Protect(p, o)
  PROVE  StepOK
<1>1. /\ p \in Agents /\ p # Coll /\ Pinned(p) /\ m[p].pc = "idle" /\ m \in [Agents -> Op]
      /\ o \in held[p] /\ ops' \in Nat /\ p \in prog.hpUsers
      /\ UNCHANGED <<epoch, guard, col, color, rc, link, place, cell, held, prog, observed, tasks,
                     mtModified, hazards, hazardsTs, todo, m, stage, doomed>>
  BY HeapAssumption, SMTT(60), Z3T(60) DEF Protect, Ready, At, phaseVars, objVars, markVars, scanVars, colVars,
     Agents, Typed, HeapTypes, Operate
<1>2. /\ hp' \in [Participants -> Objs \cup {Null}] /\ hp'[p] = o
      /\ \A q \in Participants : q # p => hp'[q] = hp[q]
  BY DEF Protect, Typed, HeapTypes
<1>3. HeapTypes'
  BY <1>1, <1>2 DEF Typed, HeapTypes
<1>4. OpsOK'
  BY <1>1 DEF Typed, OpsOK, OpOK, Pinned
<1>5. CountsMove
  BY <1>1 DEF CountsMove
<1>6. ASSUME Safe, RootsCounted
      PROVE  Safe'
  <2>1. QuietStep(p)
    BY <1>1, <1>2 DEF QuietStep, QuietPcs, Moved
  <2>2. RefsStay(p)
    BY <1>1, <1>2, <1>6 DEF Safe, Refs, RefsStay, LinkPcs, ProperPtrs
  <2>3. ThreadOK(p)'
    BY <1>1, <1>6 DEF Safe, Threads, ThreadOK, Pinned, MarkPcs, Tracing
  <2>4. GrayStays(p) /\ QueueStays(p)
    BY <1>1 DEF GrayStays, QueueStays, Shades, ShadesWhite, ShadePcs
  <2>5. observed[p] = guard[p].ts
    BY <1>1, <1>6 DEF Safe, Threads, ThreadOK
  <2>6. KnownStays(p)
    <3>1. Tracing /\ ~ LateHp(p) => guard[p].phase # "N"
      BY <1>1, <2>5, GuardFacts, EpochFacts DEF LateHp, Typed, Tracing
    <3> QED
      BY <1>1, <1>2, <3>1 DEF KnownStays, NewlyKnown, Found, Known, Uses
  <2>7. HpStays(p)
    <3>1. LateHp(p) => col = "rtWait"
      BY <1>1, <2>5, GuardFacts, EpochFacts DEF LateHp, Typed
    <3>2. Proper(o)
      BY <1>1, <1>6 DEF Safe, Refs, ProperObjs
    <3> QED
      BY <1>2, <1>6, <3>1, <3>2, ProperPlaces DEF Safe, HpStays
  <2> QED
    BY <1>6, <2>1, <2>2, <2>3, <2>4, <2>6, <2>7, QuietSafe
<1> QED
  BY <1>3, <1>4, <1>5, <1>6 DEF StepOK

\* A hazard pointer less.
LEMMA ClearHpStep ==
  ASSUME Typed, NEW p \in Participants, ClearHp(p)
  PROVE  StepOK
<1>1. /\ p \in Agents /\ p # Coll /\ m[p].pc = "idle" /\ m \in [Agents -> Op]
      /\ UNCHANGED <<epoch, guard, col, color, rc, link, place, cell, held, prog, observed, ops, tasks,
                     mtModified, hazards, hazardsTs, todo, m, stage, doomed>>
  BY HeapAssumption DEF ClearHp, At, phaseVars, objVars, progVars, markVars, scanVars, colVars,
     Agents, Typed, HeapTypes
<1>2. /\ hp' \in [Participants -> Objs \cup {Null}] /\ hp'[p] = Null
      /\ \A q \in Participants : q # p => hp'[q] = hp[q]
  BY DEF ClearHp, Typed, HeapTypes
<1>3. HeapTypes'
  BY <1>1, <1>2 DEF Typed, HeapTypes
<1>4. OpsOK'
  BY <1>1 DEF Typed, OpsOK, OpOK, Pinned
<1>5. CountsMove
  BY <1>1 DEF CountsMove
<1>6. ASSUME Safe, RootsCounted
      PROVE  Safe'
  <2>1. QuietStep(p)
    BY <1>1, <1>2 DEF QuietStep, QuietPcs, Moved
  <2>2. RefsStay(p)
    BY <1>1, <1>2, <1>6 DEF Safe, Refs, RefsStay, LinkPcs, ProperPtrs
  <2>3. ThreadOK(p)'
    BY <1>1, <1>2, <1>6 DEF Safe, Threads, ThreadOK, Pinned, MarkPcs, Tracing
  <2>4. GrayStays(p) /\ QueueStays(p) /\ HpStays(p)
    BY <1>1, <1>2 DEF GrayStays, QueueStays, HpStays, Shades, ShadesWhite, ShadePcs
  <2>5. KnownStays(p)
    BY <1>1, <1>2, HeapAssumption DEF KnownStays, NewlyKnown, Found, Known, Uses
  <2> QED
    BY <1>6, <2>1, <2>2, <2>3, <2>4, <2>5, QuietSafe
<1> QED
  BY <1>3, <1>4, <1>5, <1>6 DEF StepOK

\* A cell gets what a hazard pointer protects: counted at once, so that the scan
\* finds it, or known already.
LEMMA RootHpStep ==
  ASSUME Typed, NEW p \in Participants, NEW c \in Cells, RootHp(p, c)
  PROVE  StepOK
<1>1. /\ p \in Agents /\ p # Coll /\ m[p].pc = "idle" /\ m \in [Agents -> Op]
      /\ hp[p] \in Objs /\ cell[c] = Null /\ ops' \in Nat
      /\ UNCHANGED <<epoch, guard, col, color, link, place, held, hp, prog, observed, tasks,
                     mtModified, hazards, hazardsTs, todo, m, stage, doomed>>
  <2>1. p \in Agents /\ p # Coll /\ m[p].pc = "idle" /\ m \in [Agents -> Op] /\ cell[c] = Null
    BY HeapAssumption DEF RootHp, At, Agents, Typed, HeapTypes
  <2>2. hp[p] \in Objs /\ ops' \in Nat
    BY SMTT(60), Z3T(60) DEF RootHp, Typed, HeapTypes, Operate
  <2> QED
    BY <2>1, <2>2 DEF RootHp, phaseVars, markVars, scanVars, colVars, Operate
<1>2. /\ cell' \in [Cells -> Objs \cup {Null}] /\ cell'[c] = hp[p]
      /\ \A d \in Cells : d # c => cell'[d] = cell[d]
  BY DEF RootHp, Typed, HeapTypes
<1>3. Counted(hp[p], 1)
  BY <1>1, IncEffect DEF RootHp, Typed, HeapTypes
<1>4. HeapTypes'
  BY <1>1, <1>2, <1>3, SMTT(60), Z3T(60) DEF Typed, HeapTypes, Counted
<1>5. OpsOK'
  BY <1>1 DEF Typed, OpsOK, OpOK, Pinned
<1>6. CountsMove
  <2>1. CountsWithCell(p, c)
    BY <1>1, <1>2, <1>3, HeapAssumption, SMTT(60), Z3T(60) DEF CountsWithCell, Bit, Counting, Counted, Typed, HeapTypes
  <2> QED
    BY <1>1, <2>1 DEF CountsMove, Moved
<1>7. ASSUME Safe, RootsCounted
      PROVE  Safe'
  <2>1. QuietStep(p)
    BY <1>1 DEF QuietStep, QuietPcs, Moved
  <2>2. RefsStay(p)
    BY <1>1, <1>2, <1>7 DEF Safe, Refs, RefsStay, LinkPcs
  <2>3. ThreadOK(p)'
    BY <1>1, <1>7 DEF Safe, Threads, ThreadOK, Pinned, MarkPcs, Tracing
  <2>4. GrayStays(p) /\ QueueStays(p) /\ HpStays(p)
    BY <1>1, <1>3, SMTT(60), Z3T(60)
    DEF GrayStays, QueueStays, HpStays, Shades, ShadesWhite, ShadePcs, Counted, Typed, HeapTypes
  <2>5. KnownStays(p)
    <3>1. PICK o \in Objs : o = hp[p]
      BY <1>1
    <3>2. Proper(o)
      BY <1>7, <3>1, HeapAssumption DEF Safe, Refs, ProperPtrs, ProperObjs
    <3>3. ASSUME LateHp(p)
          PROVE  GrayOrBlack(o) \/ GrayOrBlack(o)'
      <4>1. color[o] = B \/ Marks(Coll, o) \/ Unscanned(o)
        BY <1>7, <3>1, <3>3, HeapAssumption DEF Safe, HpOK
      <4>2. Coll \in Agents /\ (color[o] = B \/ color[o] = W)
        BY EpochFacts DEF Agents, Typed, HeapTypes
      <4>3. Unscanned(o)' <=> Unscanned(o)
        BY <1>7, <2>1, QuietFrame DEF Safe
      <4>4. rc'[o] > 0
        BY <1>3, <1>7, <3>1, SMTT(60), Z3T(60) DEF Counted, RootsCounted, Typed, HeapTypes
      <4>5. color' = color /\ W' = W
        BY <1>1 DEF W
      <4> QED
        BY <4>1, <4>2, <4>3, <4>4, <4>5 DEF GrayOrBlack, Pending
    <3>4. ~ LateHp(p) => Known(o)
      BY <3>1 DEF Known
    <3> QED
      BY <1>1, <1>2, <3>1, <3>2, <3>3, <3>4 DEF KnownStays, NewlyKnown, Found, Known, Uses
  <2> QED
    BY <1>7, <2>1, <2>2, <2>3, <2>4, <2>5, QuietSafe
<1> QED
  BY <1>4, <1>5, <1>6, <1>7 DEF StepOK

-----------------------------------------------------------------------------
(* A guard becomes valid.                                                   *)

\* The first guard in an RT marks the object of the hazard pointer, so that later
\* guards may use what is behind it.
LEMMA PinThreadStep ==
  ASSUME Typed, NEW p \in Participants, PinThread(p)
  PROVE  StepOK
<1>1. /\ m \in [Agents -> Op] /\ m[p].pc = "idle" /\ p \in Agents /\ p # Coll /\ p \in prog.threads
      /\ Coll \in Agents /\ Coll \notin Participants /\ Participants \subseteq Agents
      /\ ~ Pinned(p) /\ epoch \in Epoch /\ epoch # NoEpoch
      /\ UNCHANGED <<epoch, col, color, rc, link, place, cell, held, hp, prog, ops, tasks,
                     mtModified, hazards, hazardsTs, todo, stage, doomed>>
  BY HeapAssumption, NoEpochAssumption
  DEF PinThread, Pin, At, objVars, rootVars, markVars, scanVars, colVars, Agents, Typed, HeapTypes,
      PhasesInv, PhasesTypeOK
<1>2. /\ guard'[p] = epoch /\ \A q \in Participants : q # p => guard'[q] = guard[q]
      /\ observed' \in [Participants -> Nat] /\ observed'[p] = epoch.ts
      /\ \A q \in Participants : q # p => observed'[q] = observed[q]
  BY <1>1 DEF PinThread, Pin, Typed, HeapTypes, PhasesInv, PhasesTypeOK, Epoch
<1>3. \/ /\ epoch.phase = "RT" /\ observed[p] # epoch.ts /\ hp[p] \in Objs /\ color[hp[p]] = W
         /\ Began(p, "mark", hp[p], NoLink, Null, "idle")
      \/ /\ ~ (epoch.phase = "RT" /\ observed[p] # epoch.ts /\ hp[p] # Null /\ color[hp[p]] = W)
         /\ m' = m
  <2>1. CASE epoch.phase = "RT" /\ observed[p] # epoch.ts /\ hp[p] # Null /\ color[hp[p]] = W
    <3>1. PICK o \in Objs : o = hp[p]
      BY <2>1 DEF Typed, HeapTypes
    <3>2. m' = [m EXCEPT ![p] = MarkOp(o, "idle")]
      BY <2>1, <3>1 DEF PinThread, W
    <3> QED
      BY <1>1, <2>1, <3>1, <3>2, MarkOpMoves
  <2>2. CASE ~ (epoch.phase = "RT" /\ observed[p] # epoch.ts /\ hp[p] # Null /\ color[hp[p]] = W)
    BY <2>2 DEF PinThread, W
  <2> QED
    BY <2>1, <2>2
<1>4. /\ Moved(p) /\ m'[p].pc \in {"idle", "mark"}
      /\ m'[p].pc = "mark" => /\ LateHp(p) /\ hp[p] \in Objs /\ color[hp[p]] = W /\ m'[p].obj = hp[p]
                              /\ m'[p].old.to = Null /\ m'[p].new = Null /\ m'[p].ret = "idle"
      /\ m'[p].pc = "idle" => ~ (LateHp(p) /\ hp[p] # Null /\ color[hp[p]] = W)
      /\ \A x \in Agents : x # p => m'[x] = m[x]
  BY <1>1, <1>3, SMTT(60), Z3T(60) DEF Began, Moved, NoLink, LateHp
<1>5. HeapTypes'
  BY <1>1, <1>2, <1>4 DEF Typed, HeapTypes, Moved
<1>6. OpsOK'
  <2>1. \A q \in Participants : Pinned(q) => Pinned(q)'
    BY <1>1, <1>2 DEF Pinned
  <2>2. OpOK(p)'
    BY <1>1, <1>2, <1>4 DEF OpOK, Pinned
  <2>3. \A x \in Agents : x # p => OpOK(x)'
    BY <1>1, <1>4, <2>1 DEF Typed, OpsOK, OpOK
  <2> QED
    BY <2>2, <2>3 DEF OpsOK
<1>7. CountsMove
  BY <1>1, <1>4, CountsKept DEF Counting
<1>8. ASSUME Safe, RootsCounted
      PROVE  Safe'
  <2>1. Shape /\ Threads /\ Refs /\ CasOK /\ Tri /\ HpOK /\ Confirming
    BY <1>8 DEF Safe
  <2>2. W' = W /\ B' = B /\ (Tracing' <=> Tracing) /\ held[p] = {} /\ Null \notin Objs
    BY <1>1, <2>1, HeapAssumption DEF W, B, Tracing, Threads, ThreadOK
  <2>3. \A x \in Objs : /\ Swept(x)' <=> Swept(x)
                        /\ Raw(x)' <=> Raw(x)
                        /\ Unscanned(x)' <=> Unscanned(x)
    BY <1>1, <1>4, <2>2 DEF Swept, Raw, RawPcs, Unscanned, InList, IsLocal
  <2>4. /\ \A x \in Objs : Proper(x)' <=> Proper(x)
        /\ ProperObjs' = ProperObjs /\ ProperPtrs' = ProperPtrs
    <3>1. \A x \in Objs : Proper(x)' <=> Proper(x)
      BY <1>1, <2>2, <2>3 DEF Proper, Dead
    <3> QED
      BY <3>1 DEF ProperObjs, ProperPtrs
  <2>5. Shape'
    <3>1. Plain' /\ Stages' /\ CollOK' /\ LinkColors'
      BY <1>1, <1>4, <2>1, <2>2, <2>4 DEF Shape, Plain, Stages, CollOK, LinkColors
    <3>2. BatchOK'
      BY <1>1, <1>4, <2>1, SMTT(60), Z3T(60) DEF Shape, BatchOK, HoldsBox, MarkPcs
    <3>3. Boxes' /\ HeaderOK'
      BY <1>1, <1>4, <2>1, <2>2 DEF Shape, Boxes, BoxOK, InList, IsLocal, HeaderOK
    <3> QED
      BY <3>1, <3>2, <3>3 DEF Shape
  <2>6. Threads'
    <3>1. ASSUME NEW q \in Participants, q # p
          PROVE  ThreadOK(q)' /\ RawOK(q)'
      <4>1. /\ ThreadOK(q) /\ RawOK(q) /\ Black(q)' = Black(q) /\ (Pinned(q)' <=> Pinned(q))
            /\ m'[q] = m[q] /\ guard'[q] = guard[q] /\ observed'[q] = observed[q]
        BY <1>1, <1>2, <1>4, <2>1, <3>1 DEF Threads, Pinned, Black, White, EpochOf
      <4>2. ThreadOK(q)'
        BY <1>1, <2>2, <4>1 DEF ThreadOK
      <4> QED
        BY <1>1, <4>1, <4>2 DEF RawOK
    <3>2. ThreadOK(p)'
      <4>1. m'[p].pc = "mark" => epoch.phase = "RT"
        BY <1>4 DEF LateHp
      <4>2. ThreadOK(p) /\ epoch.ts <= epoch.ts
        BY <1>1, <2>1, SMTT(60), Z3T(60) DEF Threads, Epoch
      <4> QED
        BY <1>1, <1>2, <1>4, <2>2, <4>1, <4>2 DEF ThreadOK, MarkPcs, Pinned
    <3>3. RawOK(p)'
      BY <1>4 DEF RawOK, RawPcs
    <3> QED
      BY <3>1, <3>2, <3>3 DEF Threads
  <2>7. Refs'
    <3>1. \A x \in Agents : ArgsOK(x)'
      BY <1>1, <1>4, <2>1, <2>2, <2>4 DEF Refs, ArgsOK, MarkPcs, LinkPcs, ProperPtrs
    <3> QED
      BY <1>1, <2>1, <2>4, <3>1 DEF Refs
  <2>8. \A x \in Objs : GrayOrBlack(x) => GrayOrBlack(x)'
    <3>1. \A b \in Agents, x \in Objs : Marks(b, x) => Marks(b, x)'
      BY <1>1, <1>4 DEF Marks, MarkPcs
    <3>2. \A q \in Participants, x \in Objs : Shades(q, x) => Shades(q, x)'
      BY <1>1, <1>4 DEF Shades, ShadePcs
    <3>3. \A x \in Objs : Pending(x) => Pending(x)'
      BY <1>1, <2>2, <2>3 DEF Pending
    <3> QED
      BY <1>1, <2>2, <3>1, <3>2, <3>3 DEF GrayOrBlack
  <2>9. CasOK'
    <3> SUFFICES ASSUME NEW b \in Agents, m'[b].pc = "markCas", m'[b].old.to # Null
                 PROVE  \E x \in Objs : x = m'[b].old.to /\ GrayOrBlack(x)'
      BY DEF CasOK
    <3>1. m'[b] = m[b]
      BY <1>4
    <3>2. PICK x \in Objs : x = m[b].old.to
      BY <1>1, <3>1 DEF Op, Link
    <3> QED
      BY <2>1, <2>8, <3>1, <3>2 DEF CasOK
  <2>10. Tri'
    <3>1. ASSUME NEW x \in Objs, x = hp[p]
          PROVE  Found(x) \/ (Proper(x)' /\ GrayOrBlack(x)')
      <4>1. Proper(x)'
        BY <2>1, <2>2, <2>4, <3>1 DEF Refs, ProperPtrs, ProperObjs
      <4>2. ~ LateHp(p) => Known(x)
        BY <3>1 DEF Known
      <4>3. LateHp(p) => Marks(p, x)' \/ color[x] = B
        BY <1>1, <1>4, <2>2, <3>1, EpochFacts DEF Marks, MarkPcs, Typed, HeapTypes
      <4> QED
        BY <1>1, <2>2, <4>1, <4>2, <4>3 DEF Found, GrayOrBlack
    <3>2. ASSUME NEW x \in Objs, Known(x)'
          PROVE  Found(x) \/ (Proper(x)' /\ GrayOrBlack(x)')
      <4>1. Known(x) \/ x = hp[p]
        <5>1. \A q \in Participants : q # p =>
                /\ m'[q] = m[q] /\ (Pinned(q)' <=> Pinned(q)) /\ (LateHp(q)' <=> LateHp(q))
                /\ Uses(q, x)' <=> Uses(q, x)
          BY <1>1, <1>2, <1>4 DEF Pinned, Uses, LateHp
        <5>2. Uses(p, x)' => x = hp[p]
          BY <1>1, <1>4, <2>2 DEF Uses, LinkPcs
        <5>3. m'[p].pc # "casLink"
          BY <1>4
        <5> QED
          BY <1>1, <1>2, <2>2, <2>4, <3>2, <5>1, <5>2, <5>3 DEF Known
      <4> QED
        BY <3>1, <4>1 DEF Found
    <3> QED
      BY <1>1, <2>1, <2>2, <2>4, <2>8, <3>2, TriStep
  <2>11. HpOK'
    <3>1. \A q \in Participants : (hp[q] # Null /\ LateHp(q)) \/ m[q].pc \in MarkPcs => hp[q] \in Objs
      BY <2>1, HpIsObj
    <3>2. \A q \in Participants :
            (hp[q] # Null /\ LateHp(q)') \/ m'[q].pc \in MarkPcs =>
              (hp[q] # Null /\ LateHp(q)) \/ m[q].pc \in MarkPcs
      BY <1>1, <1>2, <1>4, <2>2 DEF LateHp, MarkPcs
    <3>3. ASSUME NEW q \in Participants, (hp[q] # Null /\ LateHp(q)) \/ m[q].pc \in MarkPcs
          PROVE  color[hp[q]] = B \/ Marks(Coll, hp[q]) \/ (Unscanned(hp[q])' /\ HpDue(q))
      <4>1. PICK x \in Objs : x = hp[q]
        BY <3>1, <3>3
      <4>2. color[x] = B \/ Marks(Coll, x) \/ (Unscanned(x)' /\ HpDue(q))
        BY <2>1, <2>3, <3>3, <4>1 DEF HpOK
      <4> QED
        BY <1>1, <4>1, <4>2
    <3>4. m'[Coll] = m[Coll]
      BY <1>1, <1>4
    <3> QED
      BY <1>1, <2>2, <3>2, <3>3, <3>4 DEF HpOK, HpDue, Marks
  <2>12. Confirming'
    <3>1. \A q \in Participants : ShadesWhite(q)' <=> ShadesWhite(q)
      BY <1>1, <1>4, <2>2 DEF ShadesWhite, ShadePcs
    <3>2. \A q \in Participants : OldGuard(q) => OldGuard(q)'
      BY <1>1, <1>2 DEF OldGuard, Pinned
    <3> QED
      BY <1>1, <2>1, <2>2, <3>1, <3>2 DEF Confirming, Settled, NoTasks
  <2> QED
    BY <2>5, <2>6, <2>7, <2>9, <2>10, <2>11, <2>12 DEF Safe
<1> QED
  BY <1>5, <1>6, <1>7, <1>8 DEF StepOK

-----------------------------------------------------------------------------
(* The construction of an object.                                           *)

BuildStep(p) ==
  /\ Moved(p) /\ m[p].pc \in RawPcs \cup {"idle"} /\ m'[p].pc \in RawPcs \cup {"idle"} /\ Pinned(p)
  /\ m'[p].pc = "unrootShade" => Tracing
  /\ UNCHANGED <<epoch, guard, col, cell, hp, prog, observed, hazards, todo, stage>>
  /\ \A q \in Participants : q # p => held'[q] = held[q]
  /\ \A a \in Agents : a # p => tasks'[a] = tasks[a]
  /\ tasks[p] \subseteq tasks'[p]

\* The objects that were there are left alone.
OthersStay ==
  \A x \in Objs : Proper(x) => /\ Proper(x)' /\ color'[x] = color[x] /\ link'[x] = link[x]
                               /\ Unscanned(x) => Unscanned(x)'

\* What p uses and what a new object links to is found.
BuiltIsFound(p) ==
  Tracing => \A x \in Objs :
    \/ guard[p].phase # "N" /\ Uses(p, x)'
    \/ \E y \in Objs : Proper(y)' /\ ~ Proper(y) /\ link'[y].color = B /\ link'[y].to = x
    => Found(x) \/ (Proper(x)' /\ GrayOrBlack(x)')

\* A step of the construction that has these effects keeps the collector safe.
LEMMA BuildSafe ==
  ASSUME Typed, Safe, NEW p \in Participants, BuildStep(p), Layout', LinkColors', OthersStay,
         \A q \in Participants : RawOK(q)',
         held'[p] \subseteq ProperObjs', tasks'[p] \subseteq ProperObjs',
         \A x \in ProperObjs' : link'[x].to \in ProperPtrs', ArgsOK(p)',
         GrayStays(p), QueueStays(p), BuiltIsFound(p)
  PROVE  Safe'
<1>1. /\ Shape /\ Threads /\ Refs /\ CasOK /\ Tri /\ HpOK /\ Confirming
  BY DEF Safe
<1>2. /\ p \in Agents /\ Coll \in Agents /\ p # Coll /\ \A x \in Agents : x # p => m'[x] = m[x]
      /\ m[p].pc \in RawPcs \cup {"idle"} /\ m'[p].pc \in RawPcs \cup {"idle"} /\ Pinned(p)
      /\ epoch' = epoch /\ guard' = guard /\ col' = col /\ cell' = cell /\ hp' = hp /\ stage' = stage
      /\ hazards' = hazards /\ todo' = todo /\ prog' = prog /\ observed' = observed
      /\ W' = W /\ B' = B /\ (Tracing' <=> Tracing) /\ Null \notin Objs /\ Participants \subseteq Agents
      /\ \A q \in Participants : q # p => held'[q] = held[q]
      /\ \A a \in Agents : tasks[a] \subseteq tasks'[a] /\ (a # p => tasks'[a] = tasks[a])
  BY HeapAssumption DEF BuildStep, Agents, Moved, W, B, Tracing
<1>3. ProperObjs \subseteq ProperObjs' /\ ProperPtrs \subseteq ProperPtrs'
  BY DEF OthersStay, ProperObjs, ProperPtrs
<1>4. \A x \in ProperObjs : /\ x \in Objs /\ Proper(x) /\ color'[x] = color[x] /\ link'[x] = link[x]
                            /\ Unscanned(x) => Unscanned(x)'
  BY DEF OthersStay, ProperObjs
<1>5. Shape'
  <2>1. Plain'
    BY <1>1, <1>2 DEF Shape, Plain
  <2>2. HeaderOK'
    <3> SUFFICES ASSUME NEW a \in Agents, m'[a].pc = "markHeader"
                 PROVE  link'[m'[a].obj].color = B
      BY <1>2 DEF HeaderOK
    <3>1. m'[a] = m[a]
      BY <1>2 DEF RawPcs
    <3>2. m[a].obj \in ProperObjs /\ link[m[a].obj].color = B
      BY <1>1, <3>1 DEF Refs, ArgsOK, MarkPcs, Shape, HeaderOK
    <3> QED
      BY <1>4, <3>1, <3>2
  <2> QED
    BY <2>1, <2>2 DEF Shape, Layout
<1>6. Threads'
  <2>1. \A q \in Participants : q # p => ThreadOK(q)'
    <3> SUFFICES ASSUME NEW q \in Participants, q # p
                 PROVE  ThreadOK(q)'
      OBVIOUS
    <3>1. /\ ThreadOK(q) /\ Black(q)' = Black(q) /\ (Pinned(q)' <=> Pinned(q)) /\ m'[q] = m[q]
          /\ tasks'[q] = tasks[q] /\ held'[q] = held[q]
      BY <1>1, <1>2 DEF Threads, Pinned, Black, White, EpochOf
    <3> QED
      BY <1>2, <3>1 DEF ThreadOK
  <2>2. ThreadOK(p)'
    <3>1. ThreadOK(p) /\ Pinned(p)'
      BY <1>1, <1>2 DEF Threads, Pinned
    <3>2. m'[p].pc = "unrootShade" => Tracing
      BY DEF BuildStep
    <3> QED
      BY <1>2, <3>1, <3>2 DEF ThreadOK, RawPcs, MarkPcs
  <2> QED
    BY <2>1, <2>2 DEF Threads
<1>7. Refs'
  <2>1. \A a \in Agents : a # p => ArgsOK(a)'
    BY <1>1, <1>2, <1>3 DEF Refs, ArgsOK
  <2>2. \A a \in Agents : tasks'[a] \subseteq ProperObjs' /\ ArgsOK(a)'
    BY <1>1, <1>2, <1>3, <2>1 DEF Refs
  <2>3. /\ \A c \in Cells : cell'[c] \in ProperPtrs'
        /\ \A q \in Participants : hp'[q] \in ProperPtrs' /\ held'[q] \subseteq ProperObjs'
    BY <1>1, <1>2, <1>3 DEF Refs
  <2> QED
    BY <2>2, <2>3 DEF Refs
<1>8. Tracing => \A x \in Objs : Proper(x) /\ GrayOrBlack(x) => GrayOrBlack(x)'
  <2> SUFFICES ASSUME Tracing, NEW x \in Objs, Proper(x), GrayOrBlack(x)
               PROVE  GrayOrBlack(x)'
    OBVIOUS
  <2>1. color'[x] = color[x] /\ (Unscanned(x) => Unscanned(x)')
    BY DEF OthersStay
  <2>2. \A a \in Agents : x \in tasks[a] \/ Marks(a, x) => x \in tasks'[a] \/ Marks(a, x)'
    BY <1>2 DEF Marks, RawPcs, MarkPcs
  <2>3. \A q \in Participants : Shades(q, x) => Shades(q, x)' \/ color[x] = B \/ x \in tasks'[q]
    BY <1>2 DEF GrayStays, Shades
  <2>4. Pending(x) => Pending(x)' \/ Shades(p, x)'
    BY <1>2, <2>1 DEF GrayStays, Pending
  <2> QED
    BY <1>2, <2>1, <2>2, <2>3, <2>4 DEF GrayOrBlack
<1>9. CasOK'
  <2> SUFFICES ASSUME NEW a \in Agents, m'[a].pc = "markCas", m'[a].old.to # Null
               PROVE  \E x \in Objs : x = m'[a].old.to /\ GrayOrBlack(x)'
    BY DEF CasOK
  <2>1. m'[a] = m[a]
    BY <1>2 DEF RawPcs
  <2>2. Tracing
    BY <1>1, <2>1, MarkingTraces DEF MarkPcs
  <2>3. PICK x \in Objs : x = m[a].old.to /\ Proper(x)
    BY <1>1, <2>1 DEF Refs, ArgsOK, ProperPtrs, ProperObjs
  <2> QED
    BY <1>1, <1>8, <2>1, <2>2, <2>3 DEF CasOK
<1>10. Tri'
  <2>1. ASSUME Tracing, NEW x \in Objs, Known(x)'
        PROVE  Found(x) \/ (Proper(x)' /\ GrayOrBlack(x)')
    <3>1. \A q \in Participants : q # p =>
            /\ m'[q] = m[q] /\ (Pinned(q)' <=> Pinned(q)) /\ (LateHp(q)' <=> LateHp(q))
            /\ Uses(q, x)' <=> Uses(q, x)
      BY <1>2 DEF Pinned, Uses, LateHp
    <3>2. m'[p].pc # "casLink" /\ (LateHp(p)' <=> LateHp(p))
      BY <1>2 DEF RawPcs, LateHp
    <3>3. \/ Known(x)
          \/ guard[p].phase # "N" /\ Uses(p, x)'
          \/ \E y \in Objs : Proper(y)' /\ link'[y].color = B /\ link'[y].to = x
      BY <1>2, <2>1, <3>1, <3>2 DEF Known
    <3>4. CASE \E y \in Objs : Proper(y)' /\ link'[y].color = B /\ link'[y].to = x
      <4>1. PICK y \in Objs : Proper(y)' /\ link'[y].color = B /\ link'[y].to = x
        BY <3>4
      <4>2. Proper(y) => Known(x)
        BY <4>1 DEF OthersStay, Known
      <4> QED
        BY <2>1, <4>1, <4>2 DEF BuiltIsFound, Found
    <3> QED
      BY <2>1, <3>3, <3>4 DEF BuiltIsFound, Found
  <2>2. \A x \in Objs : Proper(x) => Proper(x)' /\ link'[x] = link[x]
    BY DEF OthersStay
  <2> QED
    BY <1>1, <1>2, <1>8, <2>1, <2>2, TriStep
<1>11. HpOK'
  <2>1. \A q \in Participants : (hp[q] # Null /\ LateHp(q)) \/ m[q].pc \in MarkPcs => hp[q] \in ProperObjs
    <3>1. \A q \in Participants : m[q].pc \in MarkPcs => hp[q] \in Objs
      BY <1>1, <1>2, HpIsObj
    <3> QED
      BY <1>1, <1>2, <3>1 DEF Refs, ProperPtrs
  <2>2. /\ \A q \in Participants : /\ LateHp(q)' <=> LateHp(q)
                                   /\ HpDue(q)' <=> HpDue(q)
                                   /\ m'[q].pc \in MarkPcs => m[q].pc \in MarkPcs
        /\ m'[Coll] = m[Coll]
    BY <1>2 DEF LateHp, HpDue, MarkPcs, RawPcs
  <2>3. ASSUME NEW q \in Participants, (hp[q] # Null /\ LateHp(q)) \/ m[q].pc \in MarkPcs
        PROVE  color'[hp[q]] = B \/ Marks(Coll, hp[q]) \/ (Unscanned(hp[q])' /\ HpDue(q))
    <3>1. PICK x \in ProperObjs : x = hp[q]
      BY <2>1, <2>3
    <3>2. color'[x] = B \/ Marks(Coll, x) \/ (Unscanned(x)' /\ HpDue(q))
      BY <1>1, <1>4, <2>3, <3>1 DEF HpOK
    <3> QED
      BY <1>2, <3>1, <3>2
  <2> QED
    BY <1>2, <2>2, <2>3 DEF HpOK, Marks
<1>12. Confirming'
  <2>0. \A q \in Participants : q # p => (ShadesWhite(q)' <=> ShadesWhite(q))
    <3> SUFFICES ASSUME NEW q \in Participants, q # p
                 PROVE  ShadesWhite(q)' <=> ShadesWhite(q)
      OBVIOUS
    <3>1. m'[q] = m[q] /\ (m[q].pc \in ShadePcs => m[q].old.to \in ProperPtrs)
      BY <1>1, <1>2 DEF Refs, ArgsOK, ShadePcs
    <3>2. m[q].pc \in ShadePcs /\ m[q].old.to \in Objs => color'[m[q].old.to] = color[m[q].old.to]
      BY <1>2, <1>4, <3>1 DEF ProperPtrs
    <3> QED
      BY <1>2, <3>1, <3>2 DEF ShadesWhite
  <2>1. ASSUME Settled, col \in {"ctWait", "ct"}, stage # "drain"
        PROVE  Settled'
    <3>1. AllBlack
      BY <1>1, <2>1, SettledBlack
    <3>2. tasks'[p] = tasks[p] /\ ~ ShadesWhite(p)'
      BY <2>1, <3>1 DEF QueueStays
    <3> QED
      BY <1>2, <2>0, <2>1, <3>2 DEF Settled, NoTasks
  <2>2. ~ NoTasks => ~ NoTasks'
    BY <1>2 DEF NoTasks
  <2>3. ASSUME NEW q \in Participants, OldGuard(q), ShadesWhite(q), Tracing
        PROVE  (OldGuard(q)' /\ ShadesWhite(q)') \/ ~ NoTasks'
    <3>1. OldGuard(q)'
      BY <1>2, <2>3 DEF OldGuard, Pinned
    <3>2. CASE q = p
      <4>1. PICK o \in Objs : o = m[p].old.to /\ color[o] = W /\ Shades(p, o)
        BY <2>3, <3>2 DEF ShadesWhite, Shades
      <4>2. W # B
        BY EpochFacts DEF Typed
      <4>3. Shades(p, o)' \/ o \in tasks'[p]
        BY <2>3, <4>1, <4>2 DEF GrayStays
      <4>4. color'[o] = W
        <5>1. o \in ProperObjs
          BY <1>1, <1>2, <2>3, <3>2, <4>1 DEF Refs, ArgsOK, ShadesWhite, ShadePcs, ProperPtrs
        <5> QED
          BY <1>4, <4>1, <5>1
      <4> QED
        BY <1>2, <3>1, <3>2, <4>1, <4>3, <4>4 DEF ShadesWhite, Shades, NoTasks
    <3> QED
      BY <2>0, <2>3, <3>1, <3>2
  <2>4. col = "ctWait" => (\/ ~ NoTasks
                           \/ \E q \in Participants : OldGuard(q) /\ ShadesWhite(q)
                           \/ Settled)'
    BY <1>1, <2>1, <2>2, <2>3 DEF Confirming, Tracing, Shape, Stages
  <2>5. stage = "confirm1" => (~ NoTasks \/ Settled)'
    BY <1>1, <2>1, <2>2 DEF Confirming, Shape, Stages
  <2>6. stage = "confirm2" => ((\E a \in todo[Coll] : tasks[a] # {}) \/ Settled)'
    <3>1. todo[Coll] \subseteq Agents
      BY <1>2 DEF Typed, HeapTypes
    <3> QED
      BY <1>1, <1>2, <2>1, <3>1 DEF Confirming, Shape, Stages
  <2>7. stage \in {"confirm3", "confirmed"} => Settled'
    BY <1>1, <2>1 DEF Confirming, Shape, Stages
  <2>8. ~ Tracing => NoTasks'
    BY <1>1, <1>2 DEF Confirming, NoTasks, QueueStays
  <2> QED
    BY <1>2, <2>4, <2>5, <2>6, <2>7, <2>8 DEF Confirming
<1> QED
  BY <1>5, <1>6, <1>7, <1>9, <1>10, <1>11, <1>12 DEF Safe

\* A new object has the allocation color of the guard, which is black in a cycle; its
\* child is counted until the link is stored.
LEMMA AllocateStep ==
  ASSUME Typed, NEW p \in Participants, NEW o \in Objs, NEW child \in Objs \cup {Null},
         Allocate(p, o, child)
  PROVE  StepOK
<1>1. /\ p \in Agents /\ p # Coll /\ Pinned(p) /\ m[p].pc = "idle" /\ m \in [Agents -> Op]
      /\ place[o] = Unborn /\ child \in Usable(p) \cup {Null} /\ ops' \in Nat
      /\ UNCHANGED <<epoch, guard, col, link, cell, held, hp, prog, observed, tasks,
                     mtModified, hazards, hazardsTs, todo, stage, doomed>>
  BY HeapAssumption, SMTT(60), Z3T(60) DEF Allocate, Ready, At, phaseVars, rootVars, markVars, scanVars, colVars,
     Agents, Typed, HeapTypes, Operate
<1>2. PICK c \in Color : c = AllocColor(guard[p])
  <2>1. EpochOf(p) = guard[p]
    BY <1>1 DEF EpochOf
  <2> QED
    BY <1>1, <2>1, ColorsOf
<1>3. PICK old \in Link : old.to = child /\ old.color = c /\ Began(p, "unroot", o, old, Null, "idle")
  BY <1>1, <1>2, AllocateMoves
<1>4. Counted(child, 1)
  BY IncEffect DEF Allocate, Typed, HeapTypes
<1>5. /\ place' \in [Objs -> Places] /\ place'[o] = LocalObjs(p, c)
      /\ \A x \in Objs : x # o => \/ place'[x] = place[x]
                                  \/ place[x] = LocalObjs(p, c) /\ place'[x] = Fresh(c)
  BY <1>1, <1>2, PushFreshEffect DEF Allocate
<1>6. color' \in [Objs -> Color] /\ color'[o] = c /\ \A x \in Objs : x # o => color'[x] = color[x]
  BY <1>2 DEF Allocate, Typed, HeapTypes
<1>7. HeapTypes'
  BY <1>1, <1>3, <1>4, <1>5, <1>6, SMTT(60), Z3T(60) DEF Typed, HeapTypes, Began, Moved, Counted
<1>8. OpsOK'
  BY <1>1, <1>3, OpsStep DEF OpOK, Pinned, Began
<1>9. CountsMove
  <2>1. CountsWithOps(p)
    BY <1>1, <1>3, <1>4, SMTT(60), Z3T(60) DEF CountsWithOps, Counting, Bit, Began, Counted, Typed, HeapTypes
  <2> QED
    BY <1>1, <1>3, <2>1 DEF CountsMove, Began
<1>10. ASSUME Safe, RootsCounted
       PROVE  Safe'
  <2>1. Shape /\ Threads /\ Refs
    BY <1>10 DEF Safe
  <2>2. /\ W' = W /\ B' = B /\ (Tracing' <=> Tracing) /\ Null \notin Objs /\ W # B /\ c \in {W, B}
        /\ Coll \in Agents /\ Participants \subseteq Agents
    BY <1>1, HeapAssumption, EpochFacts DEF W, B, Tracing, Typed, Agents
  <2>3. /\ c = B => Tracing
        /\ c = W => col \notin {"ctWait", "ct"} /\ stage \notin {"hps", "scan", "drain"}
    <3>1. c = B => Tracing
      BY <1>1, <1>2, <2>2, GuardColors DEF Typed
    <3>2. c = W => ~ Tracing \/ guard[p].phase = "N"
      BY <1>1, <1>2, <2>2, GuardColors DEF Typed
    <3>3. c = W => col \notin {"rt", "ctWait", "ct"}
      BY <1>1, <3>2, GuardFacts DEF Typed, Tracing
    <3> QED
      BY <2>1, <3>1, <3>3 DEF Shape, Stages
  <2>4. /\ m'[p].pc = "unroot" /\ m'[p].obj = o /\ m'[p].old = old /\ m'[p].new = Null
        /\ m' \in [Agents -> Op] /\ \A x \in Agents : x # p => m'[x] = m[x]
    BY <1>3 DEF Began, Moved
  <2>5. BuildStep(p)
    BY <1>1, <1>3 DEF BuildStep, Began, RawPcs
  <2>6. \A q \in Participants : m[q].pc \in RawPcs =>
          q # p /\ m[q].obj \in Objs /\ m[q].obj # o /\ place'[m[q].obj] = place[m[q].obj]
    <3> SUFFICES ASSUME NEW q \in Participants, m[q].pc \in RawPcs
                 PROVE  q # p /\ m[q].obj \in Objs /\ m[q].obj # o /\ place'[m[q].obj] = place[m[q].obj]
      OBVIOUS
    <3>1. q # p /\ m[q].obj \in Objs
      BY <1>1, <2>2 DEF RawPcs, Typed, OpsOK, OpOK
    <3>2. place[m[q].obj] = LocalObjs(q, AllocColor(guard[q]))
      BY <2>1 DEF Threads, RawOK
    <3>3. place[m[q].obj] # Unborn /\ place[m[q].obj] # LocalObjs(p, c)
      BY <3>1, <3>2, PlacesDiffer, SMTT(60), Z3T(60)
    <3> QED
      BY <1>1, <1>5, <3>1, <3>3
  <2>7. \A a \in Agents : HoldsBox(a) => m[a].obj # o
    BY <1>1, <2>1, PlacesDiffer DEF Shape, BatchOK
  <2>8. \A x \in Objs : /\ Swept(x)' <=> Swept(x)
                        /\ x # o => (Raw(x)' <=> Raw(x))
                        /\ Swept(x) => x # o
    BY <1>1, <2>2, <2>4, <2>7 DEF Swept, Raw, RawPcs, HoldsBox
  <2>9. /\ \A x \in Objs : \A d : /\ x # o => (InList(x, d)' <=> InList(x, d))
                                  /\ x # o /\ IsLocal(x, d)' => IsLocal(x, d)
                                  /\ x # o /\ place'[x] = Fresh(d) => place[x] = Fresh(d) \/ d = c
                                  /\ InList(o, d)' \/ IsLocal(o, d)' => d = c
    BY <1>5, PlacesDiffer, SMTT(60) DEF InList, IsLocal
  <2>10. \A x \in Objs : x # o => /\ place'[x] = Unborn <=> place[x] = Unborn
                                  /\ place'[x] = Freed <=> place[x] = Freed
                                  /\ \A d : /\ place'[x] = Marked(d) <=> place[x] = Marked(d)
                                            /\ place'[x] = Batch(d) <=> place[x] = Batch(d)
    BY <1>5, PlacesDiffer, SMTT(60), Z3T(60)
  <2>11. \A x \in Objs : Proper(x)' <=> Proper(x)
    <3>1. ~ Proper(o) /\ ~ Proper(o)'
      BY <1>1, <2>4 DEF Proper, Raw, RawPcs
    <3>2. \A x \in Objs : x # o => (Proper(x)' <=> Proper(x))
      BY <1>6, <2>2, <2>8, <2>10 DEF Proper, Dead
    <3> QED
      BY <3>1, <3>2
  <2>12. ProperObjs' = ProperObjs /\ ProperPtrs' = ProperPtrs /\ o \notin ProperObjs
    BY <1>1, <2>11 DEF ProperObjs, ProperPtrs, Proper
  <2>13. OthersStay
    <3>1. \A x \in Objs : Proper(x) => x # o
      BY <1>1 DEF Proper
    <3>2. m'[Coll] = m[Coll]
      BY <1>1, <2>2, <2>4
    <3> QED
      BY <1>1, <1>6, <2>2, <2>8, <2>9, <2>11, <3>1, <3>2 DEF OthersStay, Unscanned
  <2>14. Layout' /\ LinkColors'
    <3>1. Stages' /\ CollOK'
      BY <1>1, <2>1, <2>2, <2>4 DEF Shape, Stages, CollOK
    <3>2. BatchOK'
      <4> SUFFICES ASSUME NEW a \in Agents, NEW x \in Objs
                   PROVE  place'[x] = Batch(a) <=> HoldsBox(a)' /\ m'[a].obj = x
        BY DEF BatchOK, Batch
      <4>1. /\ HoldsBox(a)' <=> HoldsBox(a)
            /\ HoldsBox(a) => m'[a].obj = m[a].obj
        BY <1>1, <2>4 DEF HoldsBox, MarkPcs
      <4>2. CASE x = o
        BY <1>5, <2>7, <4>1, <4>2, PlacesDiffer, SMTT(60), Z3T(60)
      <4>3. CASE x # o
        BY <2>1, <2>10, <4>1, <4>3 DEF Shape, BatchOK
      <4> QED
        BY <4>2, <4>3
    <3>3. ASSUME NEW x \in Objs
          PROVE  BoxOK(x)'
      <4>1. BoxOK(x)
        BY <2>1 DEF Shape, Boxes
      <4>2. CASE x = o
        <5>1. \A d : place'[o] # Fresh(d) /\ place'[o] # Marked(d) /\ place'[o] # Unborn
          BY <1>5, PlacesDiffer, SMTT(60), Z3T(60)
        <5> QED
          BY <1>1, <1>6, <2>2, <2>3, <2>9, <4>2, <5>1 DEF BoxOK
      <4>3. CASE x # o
        BY <1>1, <1>6, <2>2, <2>3, <2>9, <2>10, <4>1, <4>3 DEF BoxOK
      <4> QED
        BY <4>2, <4>3
    <3>4. LinkColors'
      BY <1>1, <2>1, <2>2, <2>11, <2>13 DEF Shape, LinkColors, OthersStay
    <3> QED
      BY <3>1, <3>2, <3>3, <3>4 DEF Layout, Boxes
  <2>15. \A q \in Participants : RawOK(q)'
    <3>1. RawOK(p)'
      <4>1. link[o] = NoLink
        BY <1>1, <2>1 DEF Shape, Boxes, BoxOK
      <4> QED
        BY <1>1, <1>2, <1>3, <1>5, <1>6, <2>4, <4>1 DEF RawOK
    <3>2. \A q \in Participants : q # p => RawOK(q)'
      <4> SUFFICES ASSUME NEW q \in Participants, q # p, m'[q].pc \in RawPcs
                   PROVE  RawOK(q)'
        BY DEF RawOK
      <4>1. m'[q] = m[q] /\ m[q].pc \in RawPcs /\ guard'[q] = guard[q]
        BY <1>1, <2>2, <2>4
      <4>2. RawOK(q) /\ m[q].obj \in Objs /\ m[q].obj # o /\ place'[m[q].obj] = place[m[q].obj]
        BY <2>1, <2>6, <4>1 DEF Threads
      <4>3. link'[m[q].obj] = link[m[q].obj] /\ color'[m[q].obj] = color[m[q].obj]
        BY <1>1, <1>6, <4>2
      <4> QED
        BY <4>1, <4>2, <4>3 DEF RawOK
    <3> QED
      BY <3>1, <3>2
  <2>16. child \in ProperPtrs
    BY <1>1, <2>1 DEF Usable, Refs, ProperPtrs
  <2>17. /\ held'[p] \subseteq ProperObjs' /\ tasks'[p] \subseteq ProperObjs'
         /\ \A x \in ProperObjs' : link'[x].to \in ProperPtrs'
         /\ ArgsOK(p)'
    BY <1>1, <1>3, <2>1, <2>2, <2>4, <2>12, <2>16 DEF Refs, ArgsOK, LinkPcs, MarkPcs, ProperPtrs
  <2>18. GrayStays(p)
    <3>1. \A x \in Objs : rc[x] > 0 => rc'[x] > 0
      BY <1>4, SMTT(60), Z3T(60) DEF Counted, Typed, HeapTypes
    <3> QED
      BY <1>1, <3>1 DEF GrayStays, Shades, ShadePcs
  <2>19. QueueStays(p)
    BY <1>1, <2>4 DEF QueueStays, ShadesWhite, ShadePcs
  <2>20. BuiltIsFound(p)
    <3>1. \A x \in Objs : Uses(p, x)' => Uses(p, x)
      BY <1>1, <1>3, <2>2, <2>4 DEF Uses, Usable, LinkPcs
    <3> QED
      BY <1>1, <2>11, <3>1 DEF BuiltIsFound, Found, Known
  <2> QED
    BY <1>10, <2>5, <2>13, <2>14, <2>15, <2>17, <2>18, <2>19, <2>20, BuildSafe
<1> QED
  BY <1>7, <1>8, <1>9, <1>10 DEF StepOK

\* Nothing moves between the lists when the link of a new object is unrooted.
LEMMA BuildLayout ==
  ASSUME Typed, Shape, NEW p \in Participants, BuildStep(p), place' = place, color' = color,
         m'[p].pc \in RawPcs => m'[p].obj = m[p].obj, m[p].pc \in RawPcs,
         \A x \in Objs : place[x] = Unborn => link'[x] = link[x]
  PROVE  /\ Layout'
         /\ \A x \in Objs : /\ Unscanned(x)' <=> Unscanned(x)
                            /\ Dead(x)' <=> Dead(x)
                            /\ x # m[p].obj => (Raw(x)' <=> Raw(x))
<1>1. /\ p \in Agents /\ Coll \in Agents /\ p # Coll /\ \A x \in Agents : x # p => m'[x] = m[x]
      /\ m'[p].pc \in RawPcs \cup {"idle"}
      /\ epoch' = epoch /\ col' = col /\ stage' = stage
      /\ W' = W /\ B' = B /\ (Tracing' <=> Tracing)
  BY HeapAssumption DEF BuildStep, Agents, Moved, W, B, Tracing
<1>2. \A x \in Objs : (Swept(x)' <=> Swept(x)) /\ (x # m[p].obj => (Raw(x)' <=> Raw(x)))
  BY <1>1 DEF Swept, Raw, RawPcs, Agents
<1>3. \A x \in Objs : (Unscanned(x)' <=> Unscanned(x)) /\ (Dead(x)' <=> Dead(x))
  BY <1>1, <1>2 DEF Unscanned, InList, IsLocal, Dead
<1>4. Stages' /\ CollOK'
  BY <1>1 DEF Shape, Stages, CollOK
<1>5. BatchOK'
  BY <1>1, SMTT(60), Z3T(60) DEF Shape, BatchOK, HoldsBox, RawPcs, MarkPcs
<1>6. Boxes'
  BY <1>1 DEF Shape, Boxes, BoxOK, InList, IsLocal
<1> QED
  BY <1>2, <1>3, <1>4, <1>5, <1>6 DEF Layout

\* A thread that builds an object within a cycle has a guard of it unless the object is white.
LEMMA BuilderKnows ==
  ASSUME Typed, Threads, NEW p \in Participants, Pinned(p), m[p].pc \in RawPcs, Tracing,
         guard[p].phase # "N" \/ m[p].old.color = B, NEW x \in Objs, x = m[p].old.to
  PROVE  Known(x) /\ guard[p].phase # "N" /\ color[m[p].obj] = B
<1>1. W # B
  BY EpochFacts DEF Typed
<1>2. guard[p].phase # "N"
  BY <1>1, GuardColors DEF Threads, RawOK, Typed
<1>3. Uses(p, x)
  BY DEF Uses, RawPcs
<1>4. color[m[p].obj] = B
  BY <1>2, GuardColors DEF Threads, RawOK, Typed
<1> QED
  BY <1>2, <1>3, <1>4 DEF Known

\* The object is ready: it has its link and the thread holds it.
LEMMA BuiltSafe ==
  ASSUME Typed, Safe, NEW p \in Participants, Pinned(p), m[p].pc \in RawPcs, Built(p),
         UNCHANGED <<epoch, guard, col, color, place, cell, hp, prog, observed, hazards, todo, stage>>,
         \A x \in Objs : rc[x] > 0 => rc'[x] > 0,
         \/ tasks' = tasks /\ (m[p].pc # "unroot" => epoch.phase = "N")
         \/ m[p].pc = "unrootShade" /\ Shaded(p, m[p].old.to)
  PROVE  Safe'
<1>1. Shape /\ Threads /\ Refs
  BY DEF Safe
<1>2. /\ p \in Agents /\ p # Coll /\ Participants \subseteq Agents /\ Null \notin Objs
      /\ W' = W /\ B' = B /\ (Tracing' <=> Tracing) /\ (Tracing <=> epoch.phase # "N") /\ W # B
  BY HeapAssumption, EpochFacts DEF Agents, W, B, Tracing, Typed
<1>3. PICK o \in Objs : o = m[p].obj
  BY <1>2 DEF Typed, OpsOK, OpOK, RawPcs
<1>4. /\ Moved(p) /\ m'[p].pc = "idle" /\ m'[p].old.to = Null /\ m'[p].new = Null
      /\ \A x \in Agents : x # p => m'[x] = m[x]
      /\ link'[o] = m[p].old /\ \A x \in Objs : x # o => link'[x] = link[x]
      /\ held'[p] = held[p] \cup {o} /\ \A q \in Participants : q # p => held'[q] = held[q]
  BY <1>2, <1>3, SMTT(60), Z3T(60) DEF Built, Ended, Began, Moved, Loaded, NoLink
<1>5. /\ place[o] = LocalObjs(p, AllocColor(guard[p])) /\ color[o] = AllocColor(guard[p])
      /\ m[p].old.color = AllocColor(guard[p])
  BY <1>1, <1>3 DEF Threads, RawOK
<1>6. m[p].old.to \in ProperPtrs /\ m[p].old.to \in Objs \cup {Null}
  BY <1>1, <1>2 DEF Refs, ArgsOK, RawPcs, ProperPtrs, ProperObjs
<1>7. /\ \A a \in Agents : a # p => tasks'[a] = tasks[a]
      /\ tasks[p] \subseteq tasks'[p] /\ tasks'[p] \subseteq tasks[p] \cup {m[p].old.to}
      /\ tasks'[p] \subseteq ProperObjs
  BY <1>1, <1>2, <1>6 DEF Shaded, Refs, ProperPtrs
<1>8. BuildStep(p)
  BY <1>4, <1>7 DEF BuildStep
<1>9. /\ Layout'
      /\ \A x \in Objs : /\ Unscanned(x)' <=> Unscanned(x)
                         /\ Dead(x)' <=> Dead(x)
                         /\ x # o => (Raw(x)' <=> Raw(x))
  <2>1. \A x \in Objs : place[x] = Unborn => link'[x] = link[x]
    BY <1>4, <1>5, PlacesDiffer, SMTT(60), Z3T(60)
  <2> QED
    BY <1>1, <1>3, <1>4, <1>8, <2>1, BuildLayout DEF RawPcs
<1>10. Proper(o)' /\ ~ Proper(o)
  <2>1. ~ Proper(o)
    BY <1>3 DEF Proper, Raw
  <2>2. ~ Raw(o)'
    <3>1. ASSUME NEW q \in Participants, q # p, m[q].pc \in RawPcs, m[q].obj = o
          PROVE  FALSE
      <4>1. place[o] = LocalObjs(q, AllocColor(guard[q]))
        BY <1>1, <3>1 DEF Threads, RawOK
      <4> QED
        BY <1>5, <3>1, <4>1, SMTT(60), Z3T(60) DEF LocalObjs
    <3> QED
      BY <1>2, <1>4, <3>1 DEF Raw, RawPcs
  <2>3. place[o] # Unborn /\ place[o] # Freed /\ place[o] # Marked(B)
        /\ \A a \in Agents : place[o] # Batch(a)
    BY <1>5, LocalOnly, SMTT(60), Z3T(60)
  <2>4. ~ Swept(o)
    BY <1>1, <2>3 DEF Swept, Shape, BatchOK, HoldsBox
  <2>5. ~ Dead(o)
    BY <2>3, <2>4 DEF Dead
  <2> QED
    BY <1>9, <2>1, <2>2, <2>3, <2>5 DEF Proper
<1>11. /\ \A x \in Objs : x # o => (Proper(x)' <=> Proper(x))
       /\ ProperObjs' = ProperObjs \cup {o} /\ ProperPtrs' = ProperPtrs \cup {o} /\ o \notin ProperObjs
  <2>1. \A x \in Objs : x # o => (Proper(x)' <=> Proper(x))
    BY <1>9 DEF Proper
  <2> QED
    BY <1>10, <2>1 DEF ProperObjs, ProperPtrs
<1>12. OthersStay
  BY <1>4, <1>9, <1>10, <1>11 DEF OthersStay
<1>13. LinkColors'
  <2>1. ~ Tracing => m[p].old.color = W
    BY <1>5, GuardColors DEF Typed
  <2> QED
    BY <1>1, <1>2, <1>4, <1>5, <1>11, <2>1 DEF Shape, LinkColors
<1>14. \A q \in Participants : RawOK(q)'
  <2>1. RawOK(p)'
    BY <1>4 DEF RawOK, RawPcs
  <2>2. ASSUME NEW q \in Participants, q # p
        PROVE  RawOK(q)'
    <3>1. m'[q] = m[q] /\ RawOK(q)
      BY <1>1, <1>2, <1>4, <2>2 DEF Threads
    <3>2. m[q].pc \in RawPcs => m[q].obj \in Objs /\ m[q].obj # o
      <4>1. m[q].pc \in RawPcs => m[q].obj \in Objs
        BY <1>2 DEF Typed, OpsOK, OpOK, RawPcs
      <4>2. m[q].pc \in RawPcs /\ m[q].obj = o => Raw(o)'
        BY <3>1 DEF Raw
      <4> QED
        BY <1>10, <3>1, <4>1, <4>2 DEF Proper
    <3>3. m[q].pc \in RawPcs => link'[m[q].obj] = link[m[q].obj]
      BY <1>4, <3>2
    <3> QED
      BY <3>1, <3>3 DEF RawOK
  <2> QED
    BY <2>1, <2>2
<1>15. /\ held'[p] \subseteq ProperObjs' /\ tasks'[p] \subseteq ProperObjs'
       /\ \A x \in ProperObjs' : link'[x].to \in ProperPtrs'
       /\ ArgsOK(p)'
  <2>1. \A x \in ProperObjs : x \in Objs /\ x # o
    BY <1>11 DEF ProperObjs
  <2> QED
    BY <1>1, <1>4, <1>6, <1>7, <1>11, <2>1 DEF Refs, ArgsOK, LinkPcs, MarkPcs
<1>16. Tracing /\ m[p].pc # "unroot" /\ m[p].old.to \in Objs =>
         color[m[p].old.to] = B \/ m[p].old.to \in tasks'[p]
  BY <1>2, GuardColors DEF Shaded, IsMarked, Typed
<1>17. GrayStays(p)
  <2>1. \A x \in Objs : Tracing /\ Shades(p, x) => color[x] = B \/ x \in tasks'[p]
    BY <1>16 DEF Shades, ShadePcs, RawPcs
  <2>2. \A x \in Objs : Proper(x) => link'[x] = link[x]
    BY <1>12 DEF OthersStay
  <2> QED
    BY <2>1, <2>2 DEF GrayStays
<1>18. QueueStays(p)
  <2>1. ASSUME ~ Tracing
        PROVE  tasks'[p] = tasks[p]
    <3>1. CASE m[p].pc = "unrootShade" /\ m[p].old.to \in Objs
      <4>1. guard[p].phase # "N" /\ Black(p) = W
        BY <1>1, <2>1, <3>1, GuardColors DEF Threads, ThreadOK, Typed
      <4>2. color[m[p].old.to] = W
        BY <1>1, <1>2, <1>6, <2>1, <3>1, ProperPlaces DEF ProperPtrs, ProperObjs
      <4> QED
        BY <1>2, <4>1, <4>2 DEF Shaded, IsMarked
    <3>2. CASE ~ (m[p].pc = "unrootShade" /\ m[p].old.to \in Objs)
      BY <1>2, <3>2 DEF Shaded
    <3> QED
      BY <3>1, <3>2
  <2>2. ASSUME col \in {"ctWait", "ct"}, AllBlack
        PROVE  tasks'[p] = tasks[p]
    <3>1. Tracing /\ guard[p].phase # "N"
      BY <2>2, GuardFacts DEF Tracing, Typed
    <3>2. m[p].old.to \in Objs => color[m[p].old.to] = B
      BY <1>1, <2>2, <3>1, BuilderKnows DEF AllBlack
    <3>3. m[p].old.to \in Objs => IsMarked(p, m[p].old.to)
      BY <3>1, <3>2, GuardColors DEF IsMarked, Typed
    <3> QED
      BY <3>3 DEF Shaded
  <2>3. ~ ShadesWhite(p)'
    BY <1>4 DEF ShadesWhite, ShadePcs
  <2> QED
    BY <2>1, <2>2, <2>3 DEF QueueStays
<1>19. BuiltIsFound(p)
  <2> SUFFICES ASSUME Tracing, NEW x \in Objs,
                      \/ guard[p].phase # "N" /\ Uses(p, x)'
                      \/ \E y \in Objs : Proper(y)' /\ ~ Proper(y) /\ link'[y].color = B /\ link'[y].to = x
               PROVE  Found(x) \/ (Proper(x)' /\ GrayOrBlack(x)')
    BY DEF BuiltIsFound
  <2>1. CASE guard[p].phase # "N" /\ Uses(p, x)'
    <3>1. Uses(p, x) \/ x = o
      BY <1>4, <2>1 DEF Uses
    <3>2. x = o => color[x] = B
      BY <1>5, <2>1, GuardColors DEF Typed
    <3> QED
      BY <1>2, <1>10, <2>1, <3>1, <3>2 DEF Found, Known, GrayOrBlack
  <2>2. CASE \E y \in Objs : Proper(y)' /\ ~ Proper(y) /\ link'[y].color = B /\ link'[y].to = x
    <3>1. m[p].old.color = B /\ m[p].old.to = x
      BY <1>4, <1>11, <2>2
    <3> QED
      BY <1>1, <3>1, BuilderKnows DEF Found
  <2> QED
    BY <2>1, <2>2
<1> QED
  BY <1>8, <1>9, <1>12, <1>13, <1>14, <1>15, <1>17, <1>18, <1>19, BuildSafe

\* The object is not ready yet, as its child is still to be shaded.
LEMMA UnrootGoesOn ==
  ASSUME Typed, Safe, NEW p \in Participants, Pinned(p), m[p].pc \in RawPcs, m[p].old.to \in Objs,
         NEW pc \in {"unrootTest", "unrootShade"}, Advanced(p, pc), pc = "unrootShade" => Tracing,
         UNCHANGED <<epoch, guard, col, color, link, place, cell, held, hp, prog, observed, tasks,
                     hazards, todo, stage>>,
         \A x \in Objs : rc[x] > 0 => rc'[x] > 0 \/ x = m[p].old.to
  PROVE  Safe'
<1>1. Shape /\ Threads /\ Refs
  BY DEF Safe
<1>2. /\ p \in Agents /\ p # Coll /\ Participants \subseteq Agents /\ Null \notin Objs
      /\ W' = W /\ B' = B /\ (Tracing' <=> Tracing) /\ W # B
  BY HeapAssumption, EpochFacts DEF Agents, W, B, Tracing, Typed
<1>3. /\ Moved(p) /\ m'[p].pc = pc /\ m'[p].obj = m[p].obj /\ m'[p].old = m[p].old
      /\ m'[p].new = m[p].new /\ \A x \in Agents : x # p => m'[x] = m[x]
  BY DEF Advanced, Moved
<1>4. BuildStep(p)
  BY <1>3 DEF BuildStep, RawPcs
<1>5. /\ Layout'
      /\ \A x \in Objs : /\ Unscanned(x)' <=> Unscanned(x)
                         /\ Dead(x)' <=> Dead(x)
                         /\ x # m[p].obj => (Raw(x)' <=> Raw(x))
  BY <1>1, <1>3, <1>4, BuildLayout
<1>6. \A x \in Objs : Proper(x)' <=> Proper(x)
  <2>1. \A x \in Objs : x = m[p].obj => Raw(x) /\ Raw(x)'
    BY <1>3 DEF Raw, RawPcs
  <2> QED
    BY <1>5, <2>1 DEF Proper
<1>7. ProperObjs' = ProperObjs /\ ProperPtrs' = ProperPtrs
  BY <1>6 DEF ProperObjs, ProperPtrs
<1>8. OthersStay /\ LinkColors'
  BY <1>1, <1>2, <1>5, <1>6 DEF OthersStay, Shape, LinkColors
<1>9. \A q \in Participants : RawOK(q)'
  <2>1. RawOK(p)'
    BY <1>1, <1>3 DEF Threads, RawOK, RawPcs
  <2>2. \A q \in Participants : q # p => RawOK(q)'
    BY <1>1, <1>2, <1>3 DEF Threads, RawOK
  <2> QED
    BY <2>1, <2>2
<1>10. /\ held'[p] \subseteq ProperObjs' /\ tasks'[p] \subseteq ProperObjs'
       /\ \A x \in ProperObjs' : link'[x].to \in ProperPtrs'
       /\ ArgsOK(p)'
  BY <1>1, <1>2, <1>3, <1>7 DEF Refs, ArgsOK, LinkPcs, MarkPcs, RawPcs
<1>11. GrayStays(p)
  <2>1. \A x \in Objs : /\ rc[x] > 0 => rc'[x] > 0 \/ Shades(p, x)'
                        /\ Shades(p, x) => Shades(p, x)'
    BY <1>3 DEF Shades, ShadePcs
  <2> QED
    BY <2>1 DEF GrayStays
<1>12. QueueStays(p)
  <2>1. ASSUME col \in {"ctWait", "ct"}, AllBlack
        PROVE  color[m[p].old.to] = B
    <3>1. Tracing /\ guard[p].phase # "N"
      BY <2>1, GuardFacts DEF Tracing, Typed
    <3> QED
      BY <1>1, <2>1, <3>1, BuilderKnows DEF AllBlack
  <2> QED
    BY <1>2, <1>3, <2>1 DEF QueueStays, ShadesWhite
<1>13. BuiltIsFound(p)
  <2>1. \A x \in Objs : Uses(p, x)' => Uses(p, x)
    BY <1>3 DEF Uses, LinkPcs, RawPcs
  <2> QED
    BY <1>6, <2>1 DEF BuiltIsFound, Found, Known
<1> QED
  BY <1>4, <1>5, <1>8, <1>9, <1>10, <1>11, <1>12, <1>13, BuildSafe

\* The child of the new object loses the count of its construction: the link is
\* stored, after shading if it was the last count.
LEMMA UnrootStep ==
  ASSUME Typed, NEW p \in Participants, Unroot(p)
  PROVE  StepOK
<1>1. /\ p \in Agents /\ p # Coll /\ Pinned(p) /\ m[p].pc = "unroot" /\ m \in [Agents -> Op]
      /\ Participants \subseteq Agents /\ Null \notin Objs /\ m[p].obj \in Objs
      /\ UNCHANGED <<epoch, guard, col, color, place, cell, hp, prog, observed, ops, tasks,
                     mtModified, hazards, hazardsTs, todo, stage, doomed>>
  BY HeapAssumption DEF Unroot, At, phaseVars, progVars, markVars, scanVars, colVars,
     Agents, Typed, HeapTypes, OpsOK, OpOK
<1>2. PICK child \in Objs \cup {Null} : child = m[p].old.to
  BY <1>1 DEF Op, Link
<1>3. \/ child = Null /\ Built(p) /\ rc' = rc
      \/ /\ child \in Objs /\ Counted(child, -1) /\ rc[child] = 1
         /\ Advanced(p, "unrootTest") /\ link' = link /\ held' = held
      \/ child \in Objs /\ Counted(child, -1) /\ rc[child] # 1 /\ Built(p)
  <2>1. CASE child = Null
    BY <1>1, <1>2, <2>1, FinishUnrootEffect DEF Unroot
  <2>2. CASE child # Null
    <3>1. child \in Objs /\ rc' = [rc EXCEPT ![child] = @ - 1]
      BY <1>2, <2>2 DEF Unroot
    <3>2. Counted(child, -1)
      BY <3>1, DecEffect DEF Typed, HeapTypes
    <3>3. CASE rc[child] = 1
      <4>1. Goto(p, "unrootTest") /\ link' = link /\ held' = held
        BY <1>2, <2>2, <3>3 DEF Unroot
      <4>2. Advanced(p, "unrootTest")
        BY <1>1, <4>1, GotoMoves DEF Pcs
      <4> QED
        BY <3>1, <3>2, <3>3, <4>1, <4>2
    <3>4. CASE rc[child] # 1
      <4>1. FinishUnroot(p)
        BY <1>2, <2>2, <3>4 DEF Unroot
      <4> QED
        BY <1>1, <3>1, <3>2, <3>4, <4>1, FinishUnrootEffect
    <3> QED
      BY <3>3, <3>4
  <2> QED
    BY <2>1, <2>2
<1>4. HeapTypes'
  BY <1>1, <1>3, SMTT(60), Z3T(60) DEF Typed, HeapTypes, Counted, Built, Loaded, Ended, Began, Advanced, Moved
<1>5. OpsOK'
  <2>1. CASE Advanced(p, "unrootTest") /\ child \in Objs
    BY <1>1, <1>2, <2>1, OpsStep DEF OpOK, Pinned, Advanced
  <2>2. CASE Built(p)
    BY <1>1, <2>2, OpsStep DEF OpOK, Built, Ended, Began
  <2> QED
    BY <1>3, <2>1, <2>2
<1>6. CountsMove
  <2>1. Moved(p) /\ m'[p].pc \in {"idle", "unrootTest"}
    BY <1>3 DEF Advanced, Built, Ended, Began
  <2>2. \A x \in Objs : (Counting(p, x) <=> x = child) /\ ~ Counting(p, x)'
    BY <1>1, <1>2, <2>1 DEF Counting
  <2>3. CountsWithOps(p)
    BY <1>1, <1>3, <2>2, SMTT(60), Z3T(60) DEF CountsWithOps, Bit, Counted, Typed, HeapTypes
  <2> QED
    BY <1>1, <2>1, <2>3 DEF CountsMove
<1>7. ASSUME Safe, RootsCounted
      PROVE  Safe'
  <2>1. CASE Built(p) /\ (rc' = rc \/ (child \in Objs /\ Counted(child, -1) /\ rc[child] # 1))
    <3>1. child \in Objs => rc[child] > 0
      BY <1>1, <1>2, <1>7 DEF RootsCounted, Counting
    <3>2. \A x \in Objs : rc[x] > 0 => rc'[x] > 0
      BY <2>1, <3>1, SMTT(60), Z3T(60) DEF Counted, Typed, HeapTypes
    <3> QED
      BY <1>1, <1>7, <2>1, <3>2, BuiltSafe DEF RawPcs
  <2>2. CASE /\ child \in Objs /\ Counted(child, -1) /\ rc[child] = 1
             /\ Advanced(p, "unrootTest") /\ link' = link /\ held' = held
    <3>1. \A x \in Objs : rc[x] > 0 => rc'[x] > 0 \/ x = m[p].old.to
      BY <1>2, <2>2 DEF Counted
    <3> QED
      BY <1>1, <1>2, <1>7, <2>2, <3>1, UnrootGoesOn DEF RawPcs
  <2> QED
    BY <1>3, <2>1, <2>2
<1> QED
  BY <1>4, <1>5, <1>6, <1>7 DEF StepOK

\* The link of the new object is stored when there is no cycle; otherwise the child is
\* still to be shaded.
LEMMA UnrootTestStep ==
  ASSUME Typed, NEW p \in Participants, UnrootTest(p)
  PROVE  StepOK
<1>1. /\ p \in Agents /\ p # Coll /\ Pinned(p) /\ m[p].pc = "unrootTest" /\ m \in [Agents -> Op]
      /\ m[p].obj \in Objs /\ m[p].old.to \in Objs
      /\ UNCHANGED <<epoch, guard, col, color, rc, place, cell, hp, prog, observed, ops, tasks,
                     mtModified, hazards, hazardsTs, todo, stage, doomed>>
  BY HeapAssumption DEF UnrootTest, At, phaseVars, progVars, markVars, scanVars, colVars,
     Agents, Typed, HeapTypes, OpsOK, OpOK
<1>2. \/ epoch.phase = "N" /\ Built(p)
      \/ epoch.phase # "N" /\ Advanced(p, "unrootShade") /\ link' = link /\ held' = held
  BY <1>1, GotoMoves, FinishUnrootEffect DEF UnrootTest, Pcs
<1>3. HeapTypes'
  BY <1>1, <1>2 DEF Typed, HeapTypes, Built, Loaded, Ended, Began, Advanced, Moved
<1>4. OpsOK'
  BY <1>1, <1>2, OpsStep DEF OpOK, Pinned, Built, Ended, Began, Advanced
<1>5. CountsMove
  BY <1>1, <1>2, CountsKept DEF Counting, Built, Ended, Began, Advanced
<1>6. ASSUME Safe, RootsCounted
      PROVE  Safe'
  <2>1. CASE epoch.phase = "N" /\ Built(p)
    BY <1>1, <1>6, <2>1, BuiltSafe DEF RawPcs
  <2>2. CASE epoch.phase # "N" /\ Advanced(p, "unrootShade") /\ link' = link /\ held' = held
    <3>1. Tracing
      BY <2>2, EpochFacts DEF Typed
    <3> QED
      BY <1>1, <1>6, <2>2, <3>1, UnrootGoesOn DEF RawPcs
  <2> QED
    BY <1>2, <2>1, <2>2
<1> QED
  BY <1>3, <1>4, <1>5, <1>6 DEF StepOK

\* The child is queued or black before the link of the new object is stored.
LEMMA UnrootShadeStep ==
  ASSUME Typed, NEW p \in Participants, UnrootShade(p)
  PROVE  StepOK
<1>1. /\ p \in Agents /\ p # Coll /\ Pinned(p) /\ m[p].pc = "unrootShade" /\ m \in [Agents -> Op]
      /\ m[p].obj \in Objs /\ m[p].old.to \in Objs
      /\ UNCHANGED <<epoch, guard, col, color, rc, place, cell, hp, prog, observed, ops,
                     hazards, hazardsTs, todo, stage, doomed>>
  BY HeapAssumption DEF UnrootShade, At, phaseVars, progVars, scanVars, colVars,
     Agents, Typed, HeapTypes, OpsOK, OpOK
<1>2. Built(p)
  BY <1>1, FinishUnrootEffect DEF UnrootShade
<1>3. Shaded(p, m[p].old.to)
  BY <1>1, ShadeEffect DEF UnrootShade
<1>4. HeapTypes'
  BY <1>1, <1>2, <1>3 DEF Typed, HeapTypes, Built, Loaded, Ended, Began, Moved, Shaded
<1>5. OpsOK'
  BY <1>1, <1>2, OpsStep DEF OpOK, Built, Ended, Began
<1>6. CountsMove
  BY <1>1, <1>2, CountsKept DEF Counting, Built, Ended, Began
<1>7. ASSUME Safe, RootsCounted
      PROVE  Safe'
  BY <1>1, <1>2, <1>3, <1>7, BuiltSafe DEF RawPcs
<1> QED
  BY <1>4, <1>5, <1>6, <1>7 DEF StepOK
=============================================================================

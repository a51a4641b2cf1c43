------------------------------ MODULE Mutator -------------------------------
(***************************************************************************)
(* What a program does to the heap: guards, loads, exchanges of links and  *)
(* cells with their barriers, allocation, hazard pointers and root counts. *)
(*                                                                         *)
(* `prog` says which thread uses which operations.                         *)
(***************************************************************************)
EXTENDS Heap

\* A thread starts an operation that changes the heap or its roots.
Operate == ops < prog.maxOps /\ ops' = ops + 1 /\ UNCHANGED prog

-----------------------------------------------------------------------------
(* Guards.                                                                  *)

\* pin_freshly: the first guard in an RT runs phase_barrier, which marks the
\* object of the hazard pointer at once.
PinThread(p) ==
  LET barrier == epoch.phase = "RT" /\ observed[p] # epoch.ts
                 /\ hp[p] # Null /\ color[hp[p]] = epoch.white
  IN
  /\ p \in prog.threads
  /\ At(p, "idle")
  /\ Pin(p)
  /\ observed' = [observed EXCEPT ![p] = epoch.ts]
  /\ m' = IF barrier THEN [m EXCEPT ![p] = MarkOp(hp[p], "idle")] ELSE m
  /\ UNCHANGED <<objVars, rootVars, prog, ops, markVars, scanVars, colVars>>

\* The Local<Guard>s cannot outlive the guard.
UnpinThread(p) ==
  /\ Ready(p)
  /\ Unpin(p)
  /\ held' = [held EXCEPT ![p] = {}]
  /\ UNCHANGED <<objVars, cell, hp, progVars, markVars, scanVars, m, colVars>>

-----------------------------------------------------------------------------
(* Loads.                                                                   *)

\* What a thread may pass to an operation or look into.
Usable(p) == (held[p] \cup {hp[p]}) \ {Null}

Hold(p, o) == held' = [held EXCEPT ![p] = @ \cup ({o} \ {Null})]

LoadCell(p, c) ==
  /\ Ready(p)
  /\ Hold(p, cell[c])
  /\ UNCHANGED <<phaseVars, objVars, cell, hp, progVars, markVars, scanVars, m, colVars>>

LoadLink(p, o) ==
  /\ Ready(p)
  /\ o \in Usable(p)
  /\ Hold(p, link[o].to)
  /\ UNCHANGED <<phaseVars, objVars, cell, hp, progVars, markVars, scanVars, m, colVars>>

-----------------------------------------------------------------------------
(* internal_swap and internal_cmpxchg_unrooted on the link of a held object.*)

\* With the value ptr just read: a black link wants the Dijkstra barrier first.
PrepareLink(p, o, ptr, new) ==
  m' = [m EXCEPT ![p] = [Idle EXCEPT
          !.pc = IF ptr.to # new /\ ptr.color = Black(p) THEN "dijkstra" ELSE "casLink",
          !.obj = o, !.old = ptr, !.new = new]]

ExchangeLink(p, o, new) ==
  /\ p \in prog.linkers
  /\ Ready(p)
  /\ o \in Usable(p)
  /\ new \in Usable(p) \cup {Null}
  /\ new # link[o].to
  /\ PrepareLink(p, o, link[o], new)
  /\ Operate
  /\ UNCHANGED <<phaseVars, objVars, rootVars, observed, markVars, scanVars, colVars>>

DijkstraBarrier(p) ==
  /\ At(p, "dijkstra")
  /\ ShadePointee(p, m[p].new)
  /\ Goto(p, "casLink")
  /\ UNCHANGED <<phaseVars, objVars, rootVars, progVars, scanVars, colVars>>

\* The exchange keeps the color of the link.  A white link whose pointer
\* changes wants the Yuasa barrier afterwards.
CasLink(p) ==
  LET o == m[p].obj
      old == m[p].old
  IN
  /\ At(p, "casLink")
  /\ link[o] = old
  /\ link' = [link EXCEPT ![o].to = m[p].new]
  /\ Hold(p, old.to)
  /\ m' = IF old.to # m[p].new /\ old.color = White(p)
          THEN [m EXCEPT ![p].pc = "yuasa"]
          ELSE [m EXCEPT ![p] = Idle]
  /\ UNCHANGED <<phaseVars, color, rc, place, cell, hp, progVars, markVars, scanVars, colVars>>

\* Another thread was faster.  An exchange whose link changed only its color
\* starts over, and so does a swap; a compare-exchange returns what it found.
CasLinkFails(p) ==
  LET o == m[p].obj IN
  /\ At(p, "casLink")
  /\ link[o] # m[p].old
  /\ \/ /\ PrepareLink(p, o, link[o], m[p].new)
        /\ UNCHANGED held
     \/ /\ link[o].to # m[p].old.to
        /\ Hold(p, link[o].to)
        /\ Return(p)
  /\ UNCHANGED <<phaseVars, objVars, cell, hp, progVars, markVars, scanVars, colVars>>

\* What is left to do is to shade o.
ShadeOp(o) == [Idle EXCEPT !.pc = "shade", !.old = [NoLink EXCEPT !.to = o]]

\* Mutant: no deletion barrier in root tracing.
YuasaInCompletionOnly(p) ==
  /\ At(p, "yuasa")
  /\ m' = [m EXCEPT ![p] = IF epoch.phase = "CT" THEN ShadeOp(m[p].old.to) ELSE Idle]
  /\ UNCHANGED <<phaseVars, objVars, rootVars, progVars, markVars, scanVars, colVars>>

\* yuasa_deletion_barrier tests global_phase_with_fence() != N first.
YuasaBarrier(p) ==
  /\ At(p, "yuasa")
  /\ m' = [m EXCEPT ![p] = IF epoch.phase # "N" THEN ShadeOp(m[p].old.to) ELSE Idle]
  /\ UNCHANGED <<phaseVars, objVars, rootVars, progVars, markVars, scanVars, colVars>>

\* shade_pointee behind that test; the phase can have changed meanwhile.
Shade(p) ==
  /\ At(p, "shade")
  /\ ShadePointee(p, m[p].old.to)
  /\ Return(p)
  /\ UNCHANGED <<phaseVars, objVars, rootVars, progVars, scanVars, colVars>>

-----------------------------------------------------------------------------
(* internal_swap and internal_cmpxchg_rooted on a cell.                     *)

\* Mutant: the new reference is not counted.
IncNothing(r, o) == r

IncRoot(r, o) == IF o = Null THEN r ELSE [r EXCEPT ![o] = @ + 1]

\* try_inc_raw counts the new reference before it is stored.
ExchangeCell(p, c, new) ==
  /\ p \in prog.rooters
  /\ Ready(p)
  /\ new \in Usable(p) \cup {Null}
  /\ new # cell[c]
  /\ rc' = IncRoot(rc, new)
  /\ m' = [m EXCEPT ![p] = [Idle EXCEPT
             !.pc = "casCell", !.obj = c, !.old = [NoLink EXCEPT !.to = cell[c]],
             !.new = new]]
  /\ Operate
  /\ UNCHANGED <<phaseVars, color, link, place, rootVars, observed, markVars, scanVars, colVars>>

\* What is left to do is to give up one root count of o.
DecRootOp(o) ==
  IF o = Null THEN Idle
              ELSE [Idle EXCEPT !.pc = "decRoot", !.old = [NoLink EXCEPT !.to = o]]

CasCell(p) ==
  LET c == m[p].obj
      old == m[p].old.to
  IN
  /\ At(p, "casCell")
  /\ cell[c] = old
  /\ cell' = [cell EXCEPT ![c] = m[p].new]
  /\ Hold(p, old)
  /\ m' = [m EXCEPT ![p] = DecRootOp(old)]
  /\ UNCHANGED <<phaseVars, objVars, hp, progVars, markVars, scanVars, colVars>>

\* Mutant: a compare-exchange that fails forgets the reference it had counted.
CasCellFailsForgets(p) ==
  LET c == m[p].obj IN
  /\ At(p, "casCell")
  /\ cell[c] # m[p].old.to
  /\ Hold(p, cell[c])
  /\ Return(p)
  /\ UNCHANGED <<phaseVars, objVars, cell, hp, progVars, markVars, scanVars, colVars>>

\* A swap tries again; a compare-exchange drops the reference it had counted.
CasCellFails(p) ==
  LET c == m[p].obj IN
  /\ At(p, "casCell")
  /\ cell[c] # m[p].old.to
  /\ \/ /\ m' = [m EXCEPT ![p].old.to = cell[c]]
        /\ UNCHANGED held
     \/ /\ Hold(p, cell[c])
        /\ m' = [m EXCEPT ![p] = DecRootOp(m[p].new)]
  /\ UNCHANGED <<phaseVars, objVars, cell, hp, progVars, markVars, scanVars, colVars>>

\* <AtomicSharedOption as Drop>::drop of a cell (it pins if need be); the cell
\* can be used for another rooted pointer afterwards.
DropCell(p, c) ==
  /\ p \in prog.rooters
  /\ Ready(p)
  /\ cell[c] # Null
  /\ cell' = [cell EXCEPT ![c] = Null]
  /\ m' = [m EXCEPT ![p] = DecRootOp(cell[c])]
  /\ Operate
  /\ UNCHANGED <<phaseVars, objVars, held, hp, observed, markVars, scanVars, colVars>>

\* decrement_root_count returns the count before.
DecRoot(p) ==
  LET o == m[p].old.to IN
  /\ At(p, "decRoot")
  /\ rc' = [rc EXCEPT ![o] = @ - 1]
  /\ IF rc[o] = 1 THEN Goto(p, "shadeOld") ELSE Return(p)
  /\ UNCHANGED <<phaseVars, color, link, place, rootVars, progVars, markVars, scanVars, colVars>>

\* The test of the root-count deletion barrier.
ShadeOld(p) ==
  /\ At(p, "shadeOld")
  /\ m' = [m EXCEPT ![p] = IF epoch.phase # "N" THEN ShadeOp(m[p].old.to) ELSE Idle]
  /\ UNCHANGED <<phaseVars, objVars, rootVars, progVars, markVars, scanVars, colVars>>

-----------------------------------------------------------------------------
(* Local::new(item, guard): the link of the item starts Rooted and counted; *)
(* once the box is listed the link is unrooted.                             *)

Allocate(p, o, child) ==
  LET c == AllocColor(guard[p]) IN
  /\ p \in prog.allocators
  /\ Ready(p)
  /\ place[o] = Unborn
  /\ child \in Usable(p) \cup {Null}
  /\ PushFreshObj(p, o)
  /\ color' = [color EXCEPT ![o] = c]
  /\ rc' = IncRoot(rc, child)
  /\ m' = [m EXCEPT ![p] = [Idle EXCEPT
             !.pc = "unroot", !.obj = o, !.old = [to |-> child, color |-> c]]]
  /\ Operate
  /\ UNCHANGED <<phaseVars, link, rootVars, observed, markVars, scanVars, colVars>>

\* TracePtr::unroot ends by storing the link with the allocation color.
FinishUnroot(p) ==
  /\ link' = [link EXCEPT ![m[p].obj] = m[p].old]
  /\ Hold(p, m[p].obj)
  /\ Return(p)

Unroot(p) ==
  LET child == m[p].old.to IN
  /\ At(p, "unroot")
  /\ IF child = Null
     THEN FinishUnroot(p) /\ UNCHANGED rc
     ELSE /\ rc' = [rc EXCEPT ![child] = @ - 1]
          /\ IF rc[child] = 1
             THEN Goto(p, "unrootTest") /\ UNCHANGED <<link, held>>
             ELSE FinishUnroot(p)
  /\ UNCHANGED <<phaseVars, color, place, cell, hp, progVars, markVars, scanVars, colVars>>

\* The root-count deletion barrier again: the test, then the shading.
UnrootTest(p) ==
  /\ At(p, "unrootTest")
  /\ IF epoch.phase # "N" THEN Goto(p, "unrootShade") /\ UNCHANGED <<link, held>>
                          ELSE FinishUnroot(p)
  /\ UNCHANGED <<phaseVars, color, rc, place, cell, hp, progVars, markVars, scanVars, colVars>>

UnrootShade(p) ==
  /\ At(p, "unrootShade")
  /\ ShadePointee(p, m[p].old.to)
  /\ FinishUnroot(p)
  /\ UNCHANGED <<phaseVars, color, rc, place, cell, hp, progVars, scanVars, colVars>>

-----------------------------------------------------------------------------
(* Local<Handle>: protection by the hazard pointer, with or without guard.  *)

\* Local::protect on a Local<Guard>.
Protect(p, o) ==
  /\ p \in prog.hpUsers
  /\ Ready(p)
  /\ o \in held[p]
  /\ hp[p] = Null
  /\ hp' = [hp EXCEPT ![p] = o]
  /\ Operate
  /\ UNCHANGED <<phaseVars, objVars, cell, held, observed, markVars, scanVars, m, colVars>>

\* HazardPointer::drop
ClearHp(p) ==
  /\ At(p, "idle")
  /\ hp[p] # Null
  /\ hp' = [hp EXCEPT ![p] = Null]
  /\ UNCHANGED <<phaseVars, objVars, cell, held, progVars, markVars, scanVars, m, colVars>>

\* as_atomic_shared on a Local<Handle>: the new cell is the thread's own.
RootHp(p, c) ==
  /\ p \in prog.hpUsers
  /\ At(p, "idle")
  /\ hp[p] # Null
  /\ cell[c] = Null
  /\ rc' = IncRoot(rc, hp[p])
  /\ cell' = [cell EXCEPT ![c] = hp[p]]
  /\ Operate
  /\ UNCHANGED <<phaseVars, color, link, place, held, hp, observed, markVars, scanVars, m, colVars>>

-----------------------------------------------------------------------------
\* What a thread may start, and how an operation goes on.
Start(p) ==
  \/ UnpinThread(p)
  \/ \E c \in Cells : LoadCell(p, c) \/ DropCell(p, c)
  \/ \E o \in Objs : LoadLink(p, o) \/ Protect(p, o)
  \/ \E o \in Objs, new \in Objs \cup {Null} : ExchangeLink(p, o, new) \/ Allocate(p, o, new)
  \/ \E c \in Cells, new \in Objs \cup {Null} : ExchangeCell(p, c, new)

GoOn(p) ==
  \/ DijkstraBarrier(p) \/ CasLink(p) \/ CasLinkFails(p) \/ YuasaBarrier(p) \/ Shade(p)
  \/ CasCell(p) \/ CasCellFails(p) \/ DecRoot(p) \/ ShadeOld(p)
  \/ Unroot(p) \/ UnrootTest(p) \/ UnrootShade(p)

MutatorStep(p) ==
  \/ PinThread(p) \/ ClearHp(p) \/ \E c \in Cells : RootHp(p, c)
  \/ Ready(p) /\ Start(p)
  \/ ~ At(p, "idle") /\ GoOn(p)
=============================================================================

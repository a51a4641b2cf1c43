------------------------------- MODULE MCCdpt -------------------------------
(* Small heaps and programs for Cdpt. *)
EXTENDS Cdpt, TLC

CONSTANTS p1, p2, o1, o2, o3, c1, c2

One == o1 :> Null
Chain2 == o1 :> o2 @@ o2 :> Null
Chain3 == o1 :> o2 @@ o2 :> o3 @@ o3 :> Null
Rooted == [c \in Cells |-> IF c = c1 THEN o1 ELSE Null]

\* Both threads, which do nothing but pin and load.
Both == {p1, p2}
Idlers(links, maxTs, maxOps) ==
  [threads |-> Both, linkers |-> {}, rooters |-> {}, allocators |-> {}, hpUsers |-> {},
   sweepers |-> {}, tracers |-> {}, links |-> links, maxTs |-> maxTs, maxOps |-> maxOps]

\* Two threads exchange links, and exchange and drop cells, while the collector may
\* have to repeat the completion tracing; with one operation they go on to the sweep
\* after it, or also help to sweep.
Exchangers ==
  {[Idlers(Chain2, 3, 2) EXCEPT !.linkers = Both, !.rooters = Both],
   [Idlers(Chain2, 4, 1) EXCEPT !.linkers = Both, !.rooters = Both],
   [Idlers(Chain2, 3, 1) EXCEPT !.linkers = Both, !.rooters = Both, !.sweepers = Both]}

\* Two threads use hazard pointers; one of them exchanges and drops cells too.
Protectors ==
  {[Idlers(One, 3, 4) EXCEPT !.hpUsers = Both, !.rooters = {p}] : p \in Both}

\* Two threads help in every phase.
Helpers == {[Idlers(Chain3, 4, 0) EXCEPT !.sweepers = Both, !.tracers = Both]}

\* One thread does all but use hazard pointers, for two cycles, or with two operations
\* until the second cycle traces.
Loners ==
  {[Idlers(Chain2, bound[1], bound[2]) EXCEPT !.threads = {p}, !.linkers = {p},
       !.rooters = {p}, !.allocators = {p}, !.sweepers = {p}]
     : bound \in {<<7, 1>>, <<5, 2>>}, p \in Both}

MutatorPrograms == Exchangers \cup Protectors
CyclePrograms == Helpers \cup Loners
BarrierPrograms == {[Idlers(One, 4, 1) EXCEPT !.hpUsers = {p2}, !.sweepers = {p1}]}
LazyPrograms ==
  {[Idlers(One, 2, 3) EXCEPT !.rooters = {p2}, !.hpUsers = {p2}, !.tracers = {p1}]}
ConfirmPrograms == {[Idlers(Chain2, 3, 1) EXCEPT !.linkers = {p2}, !.tracers = {p1}]}

\* States that differ only in timestamps which no later step can find equal to
\* another one are the same.
View == <<phaseVars, objVars, rootVars, prog, [p \in Participants |-> observed[p] = epoch.ts], ops,
          tasks, [a \in Agents |-> mtModified[a] = epoch.ts],
          hazards, [p \in Participants |->
            <<hazardsTs[p] = epoch.ts, Pinned(p) /\ hazardsTs[p] = guard[p].ts>>], todo, m, colVars>>

Symmetry == Permutations(Participants)
=============================================================================

-------------------------------- MODULE Heap --------------------------------
(***************************************************************************)
(* The managed heap and what every thread may do to it: objects with a     *)
(* color and a root count, links with a color, the lists of boxes, the     *)
(* queues of mark tasks, the shading barriers and the marking of an object.*)
(*                                                                         *)
(* An object has one outgoing link (an AtomicSharedOption inside it, always*)
(* Unrooted once the object is built).  A cell is an AtomicSharedOption    *)
(* outside the heap, Rooted: a static, or what a Shared wraps.  A batch of *)
(* boxes has one box: popping a batch is popping boxes one by one, since   *)
(* a batch is private to the thread that popped it.  A queue of mark tasks *)
(* is a set: a second task for one object finds the object marked.         *)
(*                                                                         *)
(* Threads interleave at the accesses to shared memory.  Pinning is atomic *)
(* (Phases.tla).  The collector acts under the published epoch: it pins    *)
(* after it has published, and only it publishes.                          *)
(***************************************************************************)
EXTENDS Phases, FiniteSets

CONSTANTS
  Objs,           \* the objects that can ever be allocated
  Cells,          \* the rooted pointers of the program
  Null,
  Coll,           \* the collector thread
  InitCells,      \* what the cells point to at the start
  Programs        \* the programs whose threads share the heap, one of them per run

Agents == Participants \cup {Coll}

\* A program: which threads there are and which operations each of them uses, the
\* objects it starts with and their links, and the bounds of its run.
Roles == {"threads", "linkers", "rooters", "allocators", "hpUsers", "sweepers", "tracers"}

ASSUME HeapAssumption ==
  /\ IsFiniteSet(Participants) /\ IsFiniteSet(Cells)
  /\ Null \notin Objs \cup Cells /\ Objs \cap Cells = {}
  /\ Coll \notin Participants
  /\ \A g \in Programs :
       /\ \A role \in Roles : g[role] \subseteq Participants
       /\ DOMAIN g.links \subseteq Objs
       /\ g.links \in [DOMAIN g.links -> DOMAIN g.links \cup {Null}]
       /\ InitCells \in [Cells -> DOMAIN g.links \cup {Null}]
       /\ g.maxTs \in 0..MaxTs   \* bound: the epochs that the collector publishes
       /\ g.maxOps \in Nat       \* bound: the operations that the program starts

Link == [to : Objs \cup {Null}, color : Color]
NoLink == [to |-> Null, color |-> 0]

VARIABLES
  prog,           \* the program that runs
  color,          \* color[o]: ObjMeta::marked
  rc,             \* rc[o]: ObjMeta::root_count
  link,           \* link[o]: the link inside o
  place,          \* place[o]: which list holds the box of o
  cell,           \* cell[c]: what c points to
  held,           \* held[p]: the Local<Guard>s of p
  hp,             \* hp[p]: the hazard pointer of p
  observed,       \* observed[p]: timestamp of Local::last_observed
  ops,            \* how many operations the program has started
  tasks,          \* tasks[a]: Local::mark_tasks
  mtModified,     \* mtModified[a]: Local::mt_modified_ts
  hazards,        \* hazards[a]: what a has collected with collect_hps
  hazardsTs,      \* hazardsTs[a]: the epoch of that collection
  todo,           \* todo[a]: entries that a loop over the entries has still to visit
  m,              \* m[a]: where a is, with the arguments of its operation
  stage,          \* where the collector is within a stretch of its cycle
  doomed          \* history: the garbage when the cycle under way began

objVars == <<color, rc, link, place>>
rootVars == <<cell, held, hp>>
progVars == <<prog, observed, ops>>
markVars == <<tasks, mtModified>>
scanVars == <<hazards, hazardsTs, todo>>
colVars == <<stage, doomed>>
vars == <<phaseVars, objVars, rootVars, progVars, markVars, scanVars, m, colVars>>

\* The entries that iter_all yields.
Entries == prog.threads \cup {Coll}

\* Where a box can be.  Local::objs, Global::fresh_objs and Global::marked_objs
\* are indexed by a color; a batch is one that a thread has popped.
Unborn == <<"unborn">>
Freed == <<"freed">>
LocalObjs(p, c) == <<"local", p, c>>
Fresh(c) == <<"fresh", c>>
Marked(c) == <<"marked", c>>
Batch(a) == <<"batch", a>>

Places == {Unborn, Freed}
          \cup {LocalObjs(p, c) : p \in Participants, c \in Color}
          \cup {Fresh(c) : c \in Color} \cup {Marked(c) : c \in Color}
          \cup {Batch(a) : a \in Agents}

Op == [pc : {"idle",
             "dijkstra", "casLink", "yuasa", "shade",
             "casCell", "decRoot", "shadeOld", "unroot", "unrootTest", "unrootShade",
             "scanRoot", "scanHps", "scanHazard", "toMarked",
             "sweepBox", "popTask",
             "mark", "markCas", "markHeader"},
       obj : Objs \cup Cells \cup {Null},
       old : Link,
       new : Objs \cup {Null},
       ret : {"idle", "toMarked"}]

Idle == [pc |-> "idle", obj |-> Null, old |-> NoLink, new |-> Null, ret |-> "idle"]

TypeOK ==
  /\ PhasesTypeOK
  /\ prog \in Programs
  /\ color \in [Objs -> Color]
  /\ rc \in [Objs -> Nat]
  /\ link \in [Objs -> Link]
  /\ place \in [Objs -> Places]
  /\ cell \in [Cells -> Objs \cup {Null}]
  /\ held \in [Participants -> SUBSET Objs]
  /\ hp \in [Participants -> Objs \cup {Null}]
  /\ observed \in [Participants -> Nat]
  /\ ops \in Nat
  /\ tasks \in [Agents -> SUBSET Objs]
  /\ mtModified \in [Agents -> Nat]
  /\ hazards \in [Agents -> SUBSET Objs]
  /\ hazardsTs \in [Agents -> Nat]
  /\ todo \in [Agents -> SUBSET Agents]
  /\ m \in [Agents -> Op]
  /\ stage \in {"none", "take", "hps", "scan", "drain", "confirm1", "confirm2",
                "confirm3", "confirmed"}
  /\ doomed \in SUBSET Objs

\* A heap that the program has built in the first normal phase: its objects are
\* white and in fresh_objs, its links are white.
Init ==
  /\ PhasesInit
  /\ prog \in Programs
  /\ color = [o \in Objs |-> 0]
  /\ rc = [o \in Objs |-> Cardinality({c \in Cells : InitCells[c] = o})]
  /\ link = [o \in Objs |->
       IF o \in DOMAIN prog.links THEN [to |-> prog.links[o], color |-> 0] ELSE NoLink]
  /\ place = [o \in Objs |-> IF o \in DOMAIN prog.links THEN Fresh(0) ELSE Unborn]
  /\ cell = InitCells
  /\ held = [p \in Participants |-> {}]
  /\ hp = [p \in Participants |-> Null]
  /\ observed = [p \in Participants |-> 0]
  /\ ops = 0
  /\ tasks = [a \in Agents |-> {}]
  /\ mtModified = [a \in Agents |-> 0]
  /\ hazards = [a \in Agents |-> {}]
  /\ hazardsTs = [a \in Agents |-> 0]
  /\ todo = [a \in Agents |-> {}]
  /\ m = [a \in Agents |-> Idle]
  /\ stage = "none"
  /\ doomed = {}

-----------------------------------------------------------------------------
(* The view of the thread that acts.                                        *)

EpochOf(a) == IF a = Coll THEN epoch ELSE guard[a]
White(a) == EpochOf(a).white
Black(a) == Flip(White(a))

At(a, pc) == m[a].pc = pc
Goto(a, pc) == m' = [m EXCEPT ![a].pc = pc]
Return(a) == m' = [m EXCEPT ![a] = Idle]

\* A thread is free to start an operation under its guard.
Ready(p) == Pinned(p) /\ At(p, "idle")

\* ManObj::is_marked
IsMarked(a, o) == color[o] = Black(a)

\* ManPtr::shade_pointee and Local::schedule_mark, which records the
\* modification of the queue before it pushes.
ShadePointee(a, o) ==
  IF o # Null /\ ~ IsMarked(a, o)
  THEN /\ mtModified' = [mtModified EXCEPT ![a] = EpochOf(a).ts]
       /\ tasks' = [tasks EXCEPT ![a] = @ \cup {o}]
  ELSE UNCHANGED markVars

\* Local::push_fresh_obj: a full batch (it has one box) is flushed to fresh_objs
\* first.
PushFreshObj(p, o) ==
  LET c == AllocColor(guard[p]) IN
  place' = [x \in Objs |-> IF x = o THEN LocalObjs(p, c)
                          ELSE IF place[x] = LocalObjs(p, c) THEN Fresh(c)
                          ELSE place[x]]

-----------------------------------------------------------------------------
(* What the program can still get at.                                       *)

\* The least set with S that is closed under the links.
Closure(S) ==
  {o \in Objs : \A T \in SUBSET Objs :
     S \subseteq T /\ (\A x \in T : link[x].to \in T \cup {Null}) => o \in T}

Roots == {cell[c] : c \in Cells} \cup {hp[p] : p \in Participants}
         \cup UNION {held[p] : p \in Participants}

Reachable == Closure(Roots \ {Null})

\* The objects that an operation under way is going to look at.
Touched(a) ==
  IF m[a].pc \in {"idle", "sweepBox", "scanRoot", "scanHps", "scanHazard", "toMarked", "popTask"}
  THEN {}
  ELSE {m[a].obj, m[a].old.to, m[a].new} \cap Objs

Garbage ==
  {o \in Objs : place[o] \notin {Unborn, Freed}}
    \ (Reachable \cup Closure(UNION {Touched(a) : a \in Agents}))

-----------------------------------------------------------------------------
(* Marking an object: MarkObj::mark and, behind the test is_marked,         *)
(* ManObj::mark.  Shading the link of the object comes first.               *)

MarkOp(o, ret) == [Idle EXCEPT !.pc = "mark", !.obj = o, !.ret = ret]

\* <AtomicSharedOption as TracePtr>::shade on the value ptr just read: nothing
\* to do for a black link, otherwise the pointee is shaded.
ShadeLink(a, ptr) ==
  IF ptr.color = Black(a)
  THEN /\ Goto(a, "markHeader")
       /\ UNCHANGED markVars
  ELSE /\ m' = [m EXCEPT ![a].pc = "markCas", ![a].old = ptr]
       /\ ShadePointee(a, ptr.to)

MarkOutgoings(a) ==
  /\ At(a, "mark")
  /\ ShadeLink(a, link[m[a].obj])
  /\ UNCHANGED <<phaseVars, objVars, rootVars, progVars, scanVars, colVars>>

\* The exchange of the link by its black form; a failed one shades afresh.
MarkCas(a) ==
  LET o == m[a].obj IN
  /\ At(a, "markCas")
  /\ \/ /\ link[o] = m[a].old
        /\ link' = [link EXCEPT ![o].color = Black(a)]
        /\ Goto(a, "markHeader")
        /\ UNCHANGED markVars
     \/ /\ link[o] # m[a].old
        /\ ShadeLink(a, link[o])
        /\ UNCHANGED link
  /\ UNCHANGED <<phaseVars, color, rc, place, rootVars, progVars, scanVars, colVars>>

\* AtomicObjMeta::mark
MarkHeader(a) ==
  /\ At(a, "markHeader")
  /\ color' = [color EXCEPT ![m[a].obj] = Black(a)]
  /\ m' = [m EXCEPT ![a] = [Idle EXCEPT
             !.pc = m[a].ret,
             !.obj = IF m[a].ret = "idle" THEN Null ELSE m[a].obj]]
  /\ UNCHANGED <<phaseVars, rc, link, place, rootVars, progVars, markVars, scanVars, colVars>>

Marking(a) == MarkOutgoings(a) \/ MarkCas(a) \/ MarkHeader(a)

-----------------------------------------------------------------------------
(* Scanning one box for roots, in help_root_tracing and scan_allocated_objs.*)

\* try_pop of a batch from fresh_objs[white].
PopFresh(a, pc) ==
  /\ At(a, "idle")
  /\ \E o \in Objs :
       /\ place[o] = Fresh(White(a))
       /\ place' = [place EXCEPT ![o] = Batch(a)]
       /\ m' = [m EXCEPT ![a] = [Idle EXCEPT !.pc = pc, !.obj = o]]

\* collect_hps visits one entry.
CollectHp(a, q) ==
  /\ q \in todo[a]
  /\ todo' = [todo EXCEPT ![a] = @ \ {q}]
  /\ hazards' = [hazards EXCEPT ![a] = @ \cup ({hp[q]} \ {Null})]

\* The box goes to marked_objs, marked or not.
PushMarked(a) ==
  /\ At(a, "toMarked")
  /\ place' = [place EXCEPT ![m[a].obj] = Marked(White(a))]
  /\ Return(a)
  /\ UNCHANGED <<phaseVars, color, rc, link, rootVars, progVars, markVars, scanVars, colVars>>
=============================================================================

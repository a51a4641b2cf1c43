----------------------------- MODULE Scheduling -----------------------------
(***************************************************************************)
(* When a cycle starts, and the statistics it is decided from: collector.rs*)
(* (collector_loop, heartbeat, record_collection_stats,                    *)
(* is_collection_necessary) with the counters and switches of Global.      *)
(*                                                                         *)
(* Of a cycle this module has what moves boxes between the lists and counts*)
(* their bytes: an object is one byte, and the scan decides which ones are *)
(* dead.  Of an epoch it has what a guard keeps apart: the phase, the white*)
(* color, and whether a later epoch has been published (Phases.tla).  Rates*)
(* and times are chosen freely: they depend on the clock.                  *)
(***************************************************************************)
EXTENDS Integers, FiniteSets, Functions

CONSTANTS
  Mutators,
  HbThread, Coll, \* the heartbeat thread and the collector
  NoGuard,
  BatchSize,      \* OBJ_BATCH_SIZE
  Plans           \* what the threads may do: which mutators run, how many boxes they
                  \* allocate, how often they switch or request collection, and whether
                  \* the heartbeat thread wakes

VARIABLES
  collectorInit,  \* Global::collector_init
  reg,            \* reg[p]: how far p is in Local::register
  enabled, requested,  \* Global::collection_enabled, collection_requested
  plan,           \* a member of Plans
  switches,       \* calls of enable_collection and request_collection so far
  allocs,         \* how many boxes were allocated
  epoch,          \* Global::epoch
  guard,          \* guard[p]: its guard's epoch
  objs,           \* objs[p][c]: Local::objs, how many boxes and the bytes to count
  fresh,          \* fresh[c]: boxes in Global::fresh_objs
  marked,         \* marked[c]: boxes in Global::marked_objs, live and dead
  m,              \* m[p]: what p is doing, with a number of bytes
  total,          \* GlobalStats: total.allocated, total.reclaimed
  col,            \* the collector's point and its local variables
  limit,          \* CSTATS.desired_heap_limit
  statAlloc,      \* HBSTATS.total_alloc
  writer,         \* who has HBSTATS.write()
  hb,             \* hb[a]: where a is in heartbeat(), with the total it loaded
  asked           \* history: a cycle was requested and none has begun since

switchVars == <<enabled, requested, switches, asked>>
startVars == <<collectorInit, reg, plan>>
listVars == <<objs, fresh, marked, allocs>>
statVars == <<limit, statAlloc, writer, hb>>
vars == <<startVars, switchVars, epoch, guard, listVars, m, total, col, statVars>>

Color == {0, 1}
Beaters == {HbThread, Coll}
Epochs == [phase : {"N", "RT", "CT"}, white : Color]
Guards == [epoch : Epochs, old : BOOLEAN]

ASSUME SchedulingAssumption ==
  /\ IsFiniteSet(Mutators)
  /\ NoGuard \notin Beaters \cup Guards

Idle == [pc |-> "idle", bytes |-> 0, new |-> 0]
Resting == [pc |-> "rest", alloc |-> 0]
ColAt(pc) == [pc |-> pc, alloc |-> 0, recl |-> 0, todo |-> {}]

Init ==
  /\ plan \in Plans
  /\ collectorInit = FALSE /\ reg = [p \in Mutators |-> "out"]
  /\ enabled = TRUE /\ requested = FALSE /\ switches = 0 /\ asked = FALSE
  /\ epoch = [phase |-> "N", white |-> 0]
  /\ guard = [p \in Mutators |-> NoGuard]
  /\ objs = [p \in Mutators |-> [c \in Color |-> [boxes |-> 0, bytes |-> 0]]]
  /\ allocs = 0 /\ fresh = [c \in Color |-> 0]
  /\ marked = [c \in Color |-> [live |-> 0, dead |-> 0]]
  /\ m = [p \in Mutators |-> Idle]
  /\ total = [allocated |-> 0, reclaimed |-> 0]
  /\ col = ColAt("none")
  /\ limit = 0 /\ statAlloc = 0 /\ writer = NoGuard
  /\ hb = [a \in Beaters |-> Resting]

-----------------------------------------------------------------------------
(* The user's switches.                                                     *)

Switch == switches < plan.switches /\ switches' = switches + 1

EnableCollection(set) ==
  /\ set # enabled /\ Switch
  /\ enabled' = set
  /\ UNCHANGED <<requested, asked, startVars, epoch, guard, listVars, m, total, col, statVars>>

RequestCollection ==
  /\ Switch
  /\ requested' = TRUE /\ asked' = TRUE
  /\ UNCHANGED <<enabled, startVars, epoch, guard, listVars, m, total, col, statVars>>

-----------------------------------------------------------------------------
(* Local::register: the first thread spawns the collector.                  *)

Initialize(p) ==
  /\ p \in plan.mutators /\ reg[p] = "out"
  /\ reg' = [reg EXCEPT ![p] = IF collectorInit THEN "in" ELSE "deploy"]
  /\ UNCHANGED <<collectorInit, plan, switchVars, epoch, guard, listVars, m, total, col, statVars>>

TryDeployCollector(p) ==
  /\ reg[p] = "deploy"
  /\ reg' = [reg EXCEPT ![p] = "in"]
  /\ collectorInit' = TRUE
  /\ col' = IF collectorInit THEN col ELSE ColAt("start")
  /\ UNCHANGED <<plan, switchVars, epoch, guard, listVars, m, total, statVars>>

-----------------------------------------------------------------------------
(* The mutators.                                                            *)

mutatorRest == <<startVars, switchVars, epoch, col, statVars>>

Pin(p) ==
  /\ reg[p] = "in" /\ guard[p] = NoGuard
  /\ guard' = [guard EXCEPT ![p] = [epoch |-> epoch, old |-> FALSE]]
  /\ UNCHANGED <<mutatorRest, listVars, m, total>>

Unpin(p) ==
  /\ guard[p] # NoGuard /\ m[p].pc = "idle"
  /\ guard' = [guard EXCEPT ![p] = NoGuard]
  /\ UNCHANGED <<mutatorRest, listVars, m, total>>

AllocColor(p) ==
  LET e == guard[p].epoch IN IF e.phase = "N" THEN e.white ELSE 1 - e.white

Free(p) == guard[p] # NoGuard /\ m[p].pc = "idle"

\* Local::push_fresh_obj of a box with new bytes to count (none for a survivor): a full
\* batch is flushed first, pushed and then counted, and then the box is pushed.
PushFreshObj(p, new) ==
  LET c == AllocColor(p) IN
  IF objs[p][c].boxes < BatchSize
  THEN /\ objs' = [objs EXCEPT ![p][c] = [boxes |-> @.boxes + 1, bytes |-> @.bytes + new]]
       /\ UNCHANGED <<fresh, m>>
  ELSE /\ fresh' = [fresh EXCEPT ![c] = @ + objs[p][c].boxes]
       /\ m' = [m EXCEPT ![p] = [pc |-> "flushed", bytes |-> objs[p][c].bytes, new |-> new]]
       /\ objs' = [objs EXCEPT ![p][c] = [boxes |-> 0, bytes |-> 0]]

CountFlushed(p) ==
  /\ m[p].pc = "flushed"
  /\ total' = [total EXCEPT !.allocated = @ + m[p].bytes]
  /\ objs' = [objs EXCEPT ![p][AllocColor(p)] = [boxes |-> 1, bytes |-> m[p].new]]
  /\ m' = [m EXCEPT ![p] = Idle]
  /\ UNCHANGED <<mutatorRest, guard, fresh, marked, allocs>>

Alloc(p) ==
  /\ Free(p) /\ allocs < plan.allocs
  /\ allocs' = allocs + 1
  /\ PushFreshObj(p, 1)
  /\ UNCHANGED <<mutatorRest, guard, marked, total>>

\* help_normal_inner drops a dead box, whose bytes it counts afterwards, or keeps a
\* live one among its own, whose bytes were counted when it was allocated.
HelpSweepDead(p) ==
  LET c == 1 - guard[p].epoch.white IN
  /\ Free(p) /\ guard[p].epoch.phase = "N"
  /\ marked[c].dead > 0
  /\ marked' = [marked EXCEPT ![c].dead = @ - 1]
  /\ m' = [m EXCEPT ![p] = [pc |-> "reclaimed", bytes |-> 1, new |-> 0]]
  /\ UNCHANGED <<mutatorRest, guard, objs, fresh, allocs, total>>

\* Mutant: the survivor is counted as newly allocated.
HelpSweepCounts(p) ==
  LET c == 1 - guard[p].epoch.white IN
  /\ Free(p) /\ guard[p].epoch.phase = "N"
  /\ marked[c].live > 0
  /\ marked' = [marked EXCEPT ![c].live = @ - 1]
  /\ PushFreshObj(p, 1)
  /\ UNCHANGED <<mutatorRest, guard, allocs, total>>

HelpSweepLive(p) ==
  LET c == 1 - guard[p].epoch.white IN
  /\ Free(p) /\ guard[p].epoch.phase = "N"
  /\ marked[c].live > 0
  /\ marked' = [marked EXCEPT ![c].live = @ - 1]
  /\ PushFreshObj(p, 0)
  /\ UNCHANGED <<mutatorRest, guard, allocs, total>>

CountReclaimed(p) ==
  /\ m[p].pc = "reclaimed"
  /\ total' = [total EXCEPT !.reclaimed = @ + m[p].bytes]
  /\ m' = [m EXCEPT ![p] = Idle]
  /\ UNCHANGED <<mutatorRest, guard, listVars>>

-----------------------------------------------------------------------------
(* heartbeat(), which the heartbeat thread calls from time to time and the  *)
(* collector at the end of a cycle.                                         *)

hbRest == <<startVars, switchVars, epoch, guard, listVars, m, total, limit>>

\* The collector has HBSTATS.read() while it decides.
Reading == col.pc \in {"readAlloc", "readRecl"}

\* heartbeat_loop wakes at any time once collector_loop has spawned it, and
\* record_collection_stats calls.
Calls(a) ==
  /\ hb[a].pc = "rest"
  /\ IF a = Coll THEN col.pc = "beat" ELSE plan.beats /\ col.pc \notin {"none", "start"}

\* Mutant: the statistics are not locked.
BeatUnlocked(a) ==
  /\ Calls(a)
  /\ hb' = [hb EXCEPT ![a] = [pc |-> "load", alloc |-> 0]]
  /\ UNCHANGED <<hbRest, statAlloc, writer, col>>

BeatLock(a) ==
  /\ Calls(a)
  /\ writer = NoGuard /\ ~ Reading
  /\ writer' = a
  /\ hb' = [hb EXCEPT ![a] = [pc |-> "load", alloc |-> 0]]
  /\ UNCHANGED <<hbRest, statAlloc, col>>

\* Where the caller goes on.
BeatReturn(a) ==
  /\ hb' = [hb EXCEPT ![a] = Resting]
  /\ writer' = NoGuard
  /\ col' = IF a = Coll THEN [col EXCEPT !.pc = "store"] ELSE col

\* Less than a millisecond since the last one.
BeatTooSoon(a) ==
  /\ hb[a].pc = "load"
  /\ BeatReturn(a)
  /\ UNCHANGED <<hbRest, statAlloc>>

\* The total of reclaimed bytes, loaded next, goes only into heap_usage, which is never
\* read (and whose subtraction is in no property here).
BeatLoad(a) ==
  /\ hb[a].pc = "load"
  /\ hb' = [hb EXCEPT ![a] = [pc |-> "update", alloc |-> total.allocated]]
  /\ UNCHANGED <<hbRest, statAlloc, writer, col>>

BeatUpdate(a) ==
  /\ hb[a].pc = "update"
  /\ statAlloc' = hb[a].alloc
  /\ BeatReturn(a)
  /\ UNCHANGED hbRest

Beat(a) == BeatTooSoon(a) \/ BeatLoad(a) \/ BeatUpdate(a)

-----------------------------------------------------------------------------
(* is_collection_necessary.                                                 *)

ColGoto(pc) == col' = [col EXCEPT !.pc = pc]
pollRest == <<startVars, epoch, guard, listVars, m, total, statAlloc, writer, hb>>

\* collector_loop begins.
ColStart ==
  /\ col.pc = "start"
  /\ statAlloc' = total.allocated
  /\ ColGoto("poll")
  /\ UNCHANGED <<startVars, switchVars, epoch, guard, listVars, m, total, limit, writer, hb>>

PollEnabled ==
  /\ col.pc = "poll"
  /\ \/ enabled /\ ColGoto("pollRequest") /\ UNCHANGED limit
     \/ ~ enabled /\ limit' = 0 /\ UNCHANGED col
  /\ UNCHANGED <<switchVars, pollRest>>

PollRequest ==
  /\ col.pc = "pollRequest"
  /\ ColGoto(IF requested THEN "reset" ELSE "read")
  /\ UNCHANGED <<switchVars, limit, pollRest>>

\* A request that is made after the load is reset with it.
ResetRequest ==
  /\ col.pc = "reset"
  /\ requested' = FALSE
  /\ ColGoto("begin")
  /\ UNCHANGED <<enabled, switches, asked, limit, pollRest>>

PollRead ==
  /\ col.pc = "read"
  /\ writer = NoGuard
  /\ ColGoto("readAlloc")
  /\ UNCHANGED <<switchVars, limit, pollRest>>

\* estimate_heap_usage.
ReadAllocated ==
  /\ col.pc = "readAlloc"
  /\ col' = [col EXCEPT !.pc = "readRecl", !.alloc = total.allocated]
  /\ UNCHANGED <<switchVars, limit, pollRest>>

\* Mutant: the limit is exceeded only by half a heap.
NecessaryLax(usage) == IF 2 * limit < usage THEN {TRUE} ELSE {FALSE}

\* What the code may decide: below the limit the rates and the time that is left do.
Necessary(usage) == IF limit < usage THEN {TRUE} ELSE BOOLEAN

\* saturating_sub, and the decision.
Decide ==
  LET usage == IF col.alloc < total.reclaimed THEN 0 ELSE col.alloc - total.reclaimed IN
  /\ col.pc = "readRecl"
  /\ \E yes \in Necessary(usage) : col' = ColAt(IF yes THEN "begin" ELSE "poll")
  /\ UNCHANGED <<switchVars, limit, pollRest>>

Poll == ColStart \/ PollEnabled \/ PollRequest \/ ResetRequest \/ PollRead \/ ReadAllocated \/ Decide

-----------------------------------------------------------------------------
(* A cycle.                                                                 *)

cycleRest == <<startVars, enabled, requested, switches, statVars>>

Publish(phase, white, pc) ==
  /\ epoch' = [phase |-> phase, white |-> white]
  /\ guard' = [p \in Mutators |-> IF guard[p] = NoGuard THEN NoGuard
                                  ELSE [guard[p] EXCEPT !.old = TRUE]]
  /\ ColGoto(pc)
  /\ UNCHANGED <<cycleRest, listVars, m, total>>

\* collector_loop keeps recl_at_start; root_tracing publishes RT.
BeginCycle == col.pc = "begin" /\ Publish("RT", epoch.white, "rtWait") /\ asked' = FALSE

\* Mutant: the phase begins without a wait.
WaitedNot == TRUE

\* wait_all_mutators_unpin.
Waited == ~ \E p \in Mutators : guard[p] # NoGuard /\ guard[p].old

EndWait ==
  /\ col.pc \in {"rtWait", "ctWait", "nWait"} /\ Waited
  /\ col' = CASE col.pc = "rtWait" -> [col EXCEPT !.pc = "pending", !.todo = Mutators]
              [] col.pc = "ctWait" -> [col EXCEPT !.pc = "confirm"]
              [] col.pc = "nWait"  -> [col EXCEPT !.pc = "endAlloc"]
  /\ UNCHANGED <<cycleRest, asked, epoch, guard, listVars, m, total>>

\* take_obj_batch and push_fresh_objs of one entry's batch; it is counted next.
TakePending ==
  /\ col.pc = "pending"
  /\ \E p \in col.todo :
       /\ fresh' = [fresh EXCEPT ![epoch.white] = @ + objs[p][epoch.white].boxes]
       /\ col' = [col EXCEPT !.pc = "countPending", !.todo = @ \ {p},
                             !.alloc = objs[p][epoch.white].bytes]
       /\ objs' = [objs EXCEPT ![p][epoch.white] = [boxes |-> 0, bytes |-> 0]]
  /\ UNCHANGED <<cycleRest, asked, epoch, guard, marked, allocs, m, total>>

CountPending ==
  /\ col.pc = "countPending"
  /\ total' = [total EXCEPT !.allocated = @ + col.alloc]
  /\ col' = [col EXCEPT !.pc = IF col.todo = {} THEN "scan" ELSE "pending", !.alloc = 0]
  /\ UNCHANGED <<cycleRest, asked, epoch, guard, listVars, m>>

\* The scan and the marking decide what survives.
Scan ==
  /\ col.pc = "scan"
  /\ \E dead \in 0..fresh[epoch.white] :
       marked' = [marked EXCEPT ![epoch.white] =
         [live |-> @.live + fresh[epoch.white] - dead, dead |-> @.dead + dead]]
  /\ fresh' = [fresh EXCEPT ![epoch.white] = 0]
  /\ ColGoto("trace")
  /\ UNCHANGED <<cycleRest, asked, epoch, guard, objs, allocs, m, total>>

BeginCompletion ==
  col.pc = "trace" /\ Publish("CT", epoch.white, "ctWait") /\ UNCHANGED asked

\* try_confirm_completion returns false: a mutator has marked in this CT.
Refuted ==
  /\ col.pc = "confirm"
  /\ ColGoto("trace")
  /\ UNCHANGED <<cycleRest, asked, epoch, guard, listVars, m, total>>

BeginNormal ==
  col.pc = "confirm" /\ Publish("N", 1 - epoch.white, "sweep") /\ UNCHANGED asked

\* What the helpers have left; the bytes are counted at the end.
Sweep ==
  LET prev == 1 - epoch.white IN
  /\ col.pc = "sweep"
  /\ fresh' = [fresh EXCEPT ![epoch.white] = @ + marked[prev].live]
  /\ col' = [col EXCEPT !.pc = "sweepCount", !.recl = marked[prev].dead]
  /\ marked' = [marked EXCEPT ![prev] = [live |-> 0, dead |-> 0]]
  /\ UNCHANGED <<cycleRest, asked, epoch, guard, objs, allocs, m, total>>

SweepCount ==
  /\ col.pc = "sweepCount"
  /\ total' = [total EXCEPT !.reclaimed = @ + col.recl]
  /\ col' = [col EXCEPT !.pc = "nWait", !.recl = 0]
  /\ UNCHANGED <<cycleRest, asked, epoch, guard, listVars, m>>

-----------------------------------------------------------------------------
(* record_collection_stats.                                                 *)

\* Mutant: the total of the last heartbeat is used.
EndAllocatedCached ==
  /\ col.pc = "endAlloc"
  /\ col' = [col EXCEPT !.pc = "endRecl", !.alloc = statAlloc]
  /\ UNCHANGED <<cycleRest, asked, epoch, guard, listVars, m, total>>

EndAllocated ==
  /\ col.pc = "endAlloc"
  /\ col' = [col EXCEPT !.pc = "endRecl", !.alloc = total.allocated]
  /\ UNCHANGED <<cycleRest, asked, epoch, guard, listVars, m, total>>

EndReclaimed ==
  /\ col.pc = "endRecl"
  /\ col' = [col EXCEPT !.pc = "beat", !.recl = total.reclaimed]
  /\ UNCHANGED <<cycleRest, asked, epoch, guard, listVars, m, total>>

\* Mutant: the cycle answers the requests made while it ran.
StoreLimitResets ==
  /\ col.pc = "store"
  /\ \E extra \in 0..1 : limit' = col.alloc - col.recl + extra
  /\ requested' = FALSE
  /\ col' = ColAt("poll")
  /\ UNCHANGED <<enabled, switches, asked, pollRest>>

\* The headroom above what is in use depends on the rates.
StoreLimit ==
  /\ col.pc = "store"
  /\ \E extra \in 0..1 : limit' = col.alloc - col.recl + extra
  /\ col' = ColAt("poll")
  /\ UNCHANGED <<switchVars, pollRest>>

Cycle ==
  \/ BeginCycle \/ EndWait \/ TakePending \/ CountPending \/ Scan \/ BeginCompletion
  \/ Refuted \/ BeginNormal \/ Sweep \/ SweepCount
  \/ EndAllocated \/ EndReclaimed \/ StoreLimit

MutatorStep(p) ==
  \/ Initialize(p) \/ TryDeployCollector(p) \/ Pin(p) \/ Unpin(p) \/ Alloc(p)
  \/ CountFlushed(p)
  \/ HelpSweepDead(p) \/ HelpSweepLive(p) \/ CountReclaimed(p)

Next ==
  \/ \E set \in BOOLEAN : EnableCollection(set)
  \/ RequestCollection
  \/ \E p \in Mutators : MutatorStep(p)
  \/ \E a \in Beaters : BeatLock(a) \/ Beat(a)
  \/ Poll \/ Cycle

\* Every thread goes on, and every guard ends.  The heartbeat thread sleeps between two
\* beats, so the collector gets the lock; and completion is confirmed at some attempt.
Fairness ==
  /\ \A p \in Mutators :
       /\ WF_vars(Initialize(p) \/ TryDeployCollector(p))
       /\ WF_vars(CountFlushed(p) \/ CountReclaimed(p))
       /\ WF_vars(Unpin(p))
  /\ \A a \in Beaters : WF_vars(Beat(a))
  /\ SF_vars(BeatLock(Coll)) /\ SF_vars(PollRead) /\ WF_vars(Poll \/ Cycle) /\ SF_vars(BeginNormal)

Spec == Init /\ [][Next]_vars /\ Fairness

-----------------------------------------------------------------------------
(* Properties.                                                              *)

\* What p has pushed or dropped and has yet to count.
Flushed(p) == IF m[p].pc = "flushed" THEN m[p].bytes + m[p].new ELSE 0
Dropped(p) == IF m[p].pc = "reclaimed" THEN m[p].bytes ELSE 0

Uncounted(p) == objs[p][0].bytes + objs[p][1].bytes + Flushed(p) - Dropped(p)
Boxes(p) == objs[p][0].boxes + objs[p][1].boxes + (IF m[p].pc = "flushed" THEN 1 ELSE 0)
Listed(c) == fresh[c] + marked[c].live + marked[c].dead

\* The same of the collector.
Taken ==
  (IF col.pc = "countPending" THEN col.alloc ELSE 0)
    - (IF col.pc = "sweepCount" THEN col.recl ELSE 0)

\* The two counters of GlobalStats account for every box: allocated minus reclaimed, with
\* what the threads and the collector have yet to count, is what the lists hold.  No box
\* is counted twice when it survives a sweep, or lost between a list and its count.
AccountExact ==
  total.allocated - total.reclaimed + Taken + SumFunction([p \in Mutators |-> Uncounted(p)])
    = Listed(0) + Listed(1) + SumFunction([p \in Mutators |-> Boxes(p)])

\* No box is counted as reclaimed before it was counted as allocated, although the two
\* counts are made by different threads at different times: the bytes are counted under
\* the guard that pushes the batch (push_fresh_objs), and no box is swept before the
\* guards of its time have ended.
CountersOrdered == total.reclaimed <= total.allocated

\* record_collection_stats subtracts two totals that it loads one after the other while
\* mutators allocate and sweep: the unchecked subtraction never wraps.
UsageNeverWraps == col.pc \in {"beat", "store"} => col.recl <= col.alloc

\* heartbeat() is called by two threads and subtracts the allocated total of the last call
\* from the one it has just loaded (alloc_diff): that never wraps either.
AllocDiffNeverWraps == \A a \in Beaters : hb[a].pc = "update" => statAlloc <= hb[a].alloc

\* request_collection: "The collector thread will run one cycle as soon as possible".  A
\* request made at any time, also while the collector resets an earlier one or is in a
\* cycle, is followed by the beginning of a cycle, if collection stays enabled.
RequestServed == <>[]enabled => (asked /\ collectorInit ~> ~ asked)

Usage == total.allocated - total.reclaimed
OverLimit == col.pc = "poll" /\ limit < Usage

\* is_collection_necessary: when the counted heap is over the limit and nobody takes from
\* it, a cycle begins, if collection stays enabled.
OverLimitServed == <>[]enabled => (OverLimit ~> (col.pc = "begin" \/ Usage <= limit))
=============================================================================

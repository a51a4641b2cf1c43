# A TLA+ model of cdpt

cdpt is a concurrent garbage collector for Rust: it counts references only at
the roots (*root counts*), protects thread-local references with hazard
pointers, and traces the rest of the heap while the program runs. This directory
holds a model of it and of the containers in its examples: TLA+ modules
translated from the code, TLC configurations that check them on small instances,
and TLAPS proofs, for any number of threads, objects and calls, of the main results
about the phase protocol, the collector, the batch queue, the list of entries, the
hazard pointers and the type registry.

## The system and its parts

| Part | Code | Module | State |
|---|---|---|---|
| Epochs, pinning, phase transitions | `epoch.rs`, `internal.rs`, `collector.rs`, `guards.rs` | `Phases`, `Pinning` | modelled, proved |
| Objects, links, root counts, barriers | `pointers.rs` | `Heap`, `Mutator` | main operations, proved |
| Collector cycle | `collector.rs` | `Collector` | modelled, proved |
| Helping | `guards.rs` | `Helper` | modelled; sweeping proved |
| Mark-task queues, confirmation | `internal.rs`, `collector.rs` | `Heap`, `Collector`, `Helper` | coarse steps |
| Hazard pointers | `internal.rs`, `pointers.rs` | `Hazards`; one per thread in `Heap`, `Mutator` | modelled, proved |
| Lists of boxes | `internal.rs` | `Heap`, `Scheduling` | modelled |
| Scheduling, statistics | `collector.rs`, `internal.rs` | `Scheduling` | modelled, proved |
| Batch queue | `sync/queue.rs` | `Queue`, `Fifo` | modelled, proved |
| Reusable slots | `sync/reusable_slots.rs` | `Slots` | modelled, proved |
| Hash set, type registry | `sync/hash_set.rs`, `pointers.rs` | `TypeRegistry` | modelled, proved |
| Packed words | `epoch.rs`, `pointers.rs` | `Words` | links and headers; not `Epoch` |
| Example maps | `examples/ds`, `examples/common` | `Lists`, `NmTree`, `EfrbTree`, `ConcurrentMap` | modelled |
| Example stack | `examples/stack.rs` | `Stack`, `Lifo` | modelled |
| Tasks, thread-local handle, derive macro, benchmark | `task.rs`, `tls.rs`, `cdpt-derive`, `examples/bench.rs` | - | not modelled |

How they interact: the collector thread publishes an *epoch* (timestamp, phase,
white color) and waits until no guard of an older epoch is left. Phases go
N (normal) -> RT (root tracing) -> CT (completion tracing), CT again until the
completion is confirmed, -> N with the colors swapped. In RT the collector scans
every allocated object for a root count or a hazard pointer and marks those; in
RT and CT marked objects' links are followed through queues of mark tasks; after
the confirmation the unmarked objects are swept. The program goes on meanwhile:
its barriers shade what it unlinks or unroots, its new objects are black, and
its threads help when they have allocated enough. A cycle starts when the program
requests one or when the statistics of allocation and reclamation call for it.
The examples are clients: they rely on the collector for an address not to be
used again while a reference to it is left.

## The modules

`Phases` is the abstract specification of the epoch protocol. A guard takes
effect atomically with the published epoch; the wait of the collector ends when
no older guard is left. `col` says which stretch of `collector_loop` runs.

`Pinning` is the protocol as coded. Each load or store of `Global::epoch`, of a
local epoch or of an entry's `using` flag is a step: the store/fence/reload loop
of `pin_freshly`, the walk of `wait_all_mutators_unpin`, the walk of
`is_tracing_synced`. Threads register, leave, nest and repin. `barrierTs` is a
history variable: the last epoch whose phase barrier ran for the entry.
`ImplementsPhases` is the refinement of `Phases`; the guard of a thread is its
local epoch once `pin_freshly` has confirmed it.

`Heap` has the objects (color, root count, one link), the rooted pointers
(*cells*), the lists of boxes (`place`), the queues of mark tasks, and what every
thread may do to them: shading, marking an object in three steps (shade the
link, CAS it to black, mark the header), popping boxes, collecting hazard
pointers. `Mutator` has the operations of the program, one step per shared
access: the exchange of a link with its Dijkstra and Yuasa barriers, the exchange
and drop of a cell with the root-count barrier, `Local::new` with `unroot`, a
hazard pointer that is set, cleared or turned into a root count without a guard. A
deletion barrier reads the phase in one step and shades in the next, so the phase
can change in between. `Helper` is `Guard::help_collect`. `Collector` is the cycle.
`Cdpt` composes them on top of `Phases` and states the properties. In `NothingMissed`
an object is *gray* only if some thread is going to mark it as things are; a box
whose scan will find neither a count nor a hazard pointer is not.

`Hazards` has what `Cdpt` leaves out of the hazard pointers: several of them per
thread, the stack of free slots, arrays that `grow_hazards` replaces while
`collect_hps` reads them slot by slot (an outgrown array is destroyed only when
the scan's epoch-based guard is gone), and entries that pass from thread to
thread. The histories `same` and `kept` say what has been protected since the scan
began, by one hazard pointer or by a changing one.

`Scheduling` has when a cycle starts and the statistics behind it: the first
thread spawns the collector, threads allocate batches and count their bytes after
pushing them, helpers and the collector count what they sweep, `heartbeat` reads the
allocated bytes (the reclaimed ones only feed a field that is never read),
`record_collection_stats` both counters one after the other, and
`is_collection_necessary` decides. Of a cycle it has what moves boxes between the
lists; which boxes die, the rates, the clock and the headroom are free choices.

Four modules stand by themselves, each for a data structure that the others take
to be atomic, with one step per access to shared memory. `Queue` is the
Michael-Scott queue of batches, with nodes whose addresses are reused once
epoch-based reclamation (crossbeam's, external) lets them go; `Fifo` is what it
promises, and `IsFifo` the refinement: a push takes effect when its node is
linked, a pop when the head moves or the next pointer is seen null. `Slots` is
the list of entries with its iterators. `TypeRegistry` is `register_type` on top
of `FixedHashSet::get_or_insert`. `Words` has the bit layouts of a link and of an
object header and the atomic operations on them; `fields` is a history variable
that says what they should decode to.

The examples: `Lists` is `HList`, `HMList`, `HHSList` and `HashMap` with the
three ways of traversal; `NmTree` is the Natarajan-Mittal tree with its flagged
and tagged edges; `EfrbTree` is the Ellen-Fatourou-Ruppert-van Breugel tree, whose
nested calls of help are a stack of frames; `Stack` is Treiber's stack. Every
access to a link is a step. An allocation takes an address that no link
and no `Local` of a running call leads to, so an address is reused as soon as the
collector could free it: the least such address in the maps, and in `Stack`, which
has nothing but the collector against a reused node, any one. `MapCalls` and `MapThreads` have what the maps share:
calls, plans of calls, and the history. `ConcurrentMap` and `Lifo` are the
abstract specifications. Each call has one step at which it takes effect; a `get`
or a failed call, which changes nothing, takes effect at any step of the call at
which its answer is true, so its history keeps the set of answers it may give.

`PinningProof`, `QueueProof`, `EntriesProof` (`Slots` and `Hazards`) and
`TypeRegistryProof` hold the theorems about these modules, `SchedulingProof` those about
`Scheduling`. The theorems about `Phases`, the invariant of the collector and the lemmas
about the actions of the mutators are in `MutatorProof`, the lemmas about the
collector's in `CollectorProof`, the theorems about `Cdpt` in `CdptProof`. The
`MC` modules instantiate the
specifications. Several instances share a run: `Cdpt` and `Scheduling` choose a
*program* or *plan* in their initial state, and `MCEntries`, `MCSync` and
`MCExamples` choose which of their components takes steps. Definitions marked
*Mutant* are wrong versions of the definition that follows them; no specification
uses them. Each property is known to fail when the mutant listed for it in
`PROJECT.json` takes the place of the original.

### Abstractions

* Memory is sequentially consistent. The accesses that race across a phase
  change are ordered by SeqCst fences (`pin_freshly`, `phase_trans`,
  `next_normal`, `global_phase_with_fence` after a CAS, `record_mt_modification`
  in CT); the model does not check that these fences are enough.
* In `Cdpt` an object has one link, a thread one hazard pointer, a batch one box. A
  batch popped from a queue is private, so its boxes are handled one at a time.
* A queue of mark tasks is a set of objects. Recording `mt_modified_ts` and the
  push after it are one step; a helper's pop is a step of its own after its record,
  and may find that the collector has stolen the task. Each of the three looks of
  `try_confirm_completion` reads the entries one by one.
* The end of `drain_mark_tasks` is possible whenever the collector's own queue is
  empty: this allows all behaviours of the code and more.
* In `Cdpt` a cycle may start at any time; `Scheduling` has when it does.
* `is_tracing_synced` is a predicate in `Helper`, justified by
  `SyncedExcludesNormal`, which is proved of `Pinning`.
* The collector's worker threads are one thread.
* `Cdpt` uses `Phases` for the epochs (implemented by `Pinning`, proved), sets for
  the batch queues (`Queue`: any order of boxes is allowed), and records for links
  and headers (`Words`). `Pinning` acquires an entry in one step (`Slots`).
* `Hazards` has only what of an epoch its hazard pointers see: whether RT is on and
  whether a thread has pinned in it. The slots of one array are written by its
  owner alone, so the copy of an array and its publication are one step.
* `Scheduling` keeps of an epoch its phase, its color and whether it is the latest;
  an object is one byte, and boxes of one color are counted, not told apart.
* `Words` uses a word of W = 5 bits, and of all addresses only null and the one
  with all bits set: the operations treat each bit of an address alike.
* In the examples, the value a thread inserts is the thread, so an answer tells
  whose insertion it saw. The collector is what it promises its clients.

## The runs

| Run | Instance | Checks |
|---|---|---|
| `pinning` | 2 threads, 4 epochs after the first, nesting 2 | `ImplementsPhases`, `SyncedExcludesNormal`, `BarrierBeforeGuard`, `WaitEnds` |
| `mutators` | 2 threads: exchange the links of a 2-object list, exchange and drop 2 cells (and sweep); or use hazard pointers, one of them cells too | `NothingMissed`, `MarkingComplete`, `RootCountExact`, `NoUseAfterFree` |
| `cycles` | 1 thread with links, cells, allocation and sweeping: 1 operation over 2 cycles, or 2 until the second cycle traces; or 2 helpers on a 3-object list that does not change | `NoUseAfterFree`, `NoTaskLeft`, `Collected` |
| `sync` | 3 threads of which two may stop for good, 3 addresses, 2 values, 4 calls; or 3 threads, 3 types, 2 slots | `IsFifo`, `ReachableIsLive`, `NoUseAfterFree`, `CallsReturn`; `ShadeFnReady`, `OneEntryPerType`, `Stable`, `SpinEnds` |
| `entries` | 3 threads, 1 iterator, room for 4 entries; or 1 entry with arrays of 1, 2 and 4 slots, 2 objects and 5 hazard pointers; or 2 threads on 5-bit words, tags changed by or and xor | `Exclusive`, `WalkComplete`, `Compact`; `HidsApart`, `UnusedIsClear`, `NoUseAfterFree`, `ScanComplete`; `LinkDecodes`, `HeaderDecodes` |
| `examples` | lists, hash map and stack: 3 threads, 2 keys, 3 calls (5 for the stack); trees: 2 threads, 2 calls on 3 keys or 3 calls, on 2 keys (`NmTree`) or on one (`EfrbTree`) | `LinearizableMap`, `LinearizableStack`, `LockFree`, `HelpFitsRecord` |
| `scheduling` | 1 thread with 2 boxes, a switch and the heartbeat thread; 2 threads with 2 boxes; 2 threads with 2 switches and the heartbeat thread | `AccountExact`, `CountersOrdered`, `UsageNeverWraps`, `AllocDiffNeverWraps`, `RequestServed`, `OverLimitServed` |
| `phase_barrier`, `lazy_hazards`, `confirmation`, `hazard_copy`, `tag_and` | the smallest that shows it | one property each, violated; see below |

`pinning` and `cycles` also check the type invariants of `Pinning` and of `Cdpt`; those
of `Slots`, `Hazards`, `Queue` and `TypeRegistry` are part of what is proved. What the properties say is in the comments above them; in short, no
live object is dropped, unmarked garbage goes, marking is complete when it is
confirmed, root counts are exact, each data structure does what its callers rely
on, the statistics account for every byte and answer requests with a cycle, and
the examples are linearizable and lock-free on top of such a collector.

### Bounds

`MaxTs` (`maxTs` of a program) bounds the epochs published after the first, 0:
epoch 1 is the first RT, 2 the first CT with its confirmation, 3 a repeated CT or
the sweep, 4 the second RT, and 7 leaves room for two whole cycles, the second with
swapped colors, and one repeated CT. `maxOps` bounds the operations of the program
in `Cdpt`, which overlap the whole cycle, so two operations already meet every stage
of it and each other. `MaxGuards` = 2 is nesting. In `Queue`, 3 addresses and 4
calls hold two queued values, and let an address be retired, freed and used again
while a third thread is in the middle of a call. In `Slots`, `MaxNodes` is one more
than the threads, so that `Compact` could fail. In `Hazards`, `InitHps` = 1,
`MaxHps` = 4 and `MaxProtects` = 5 let an array be outgrown twice during one scan and
its slots be used again. In `TypeRegistry` 3 types on 2 slots overflow the table.
In the examples the calls are shared out freely: all by one thread, or one by each.
The stack has 5 calls because that is what a harmful reuse takes: a push, a pop that
is held up before its exchange, and behind it another pop and two pushes, the second
of which could get the first node back, now with another one below it (the mutant
`HeldToPush` does this: the pop's `Local` does not keep its node).
`Nodes` and `Updates` only have to suffice: an allocation that found no address would
be an error. `BatchSize` = 1 makes the second box of a thread flush the first.

A program of `Cdpt` gives *roles* to the threads (`linkers`, `rooters`,
`allocators`, `hpUsers`, `sweepers`, `tracers`). This keeps the runs small, and it also
keeps apart the combinations in which the code fails (below): hazard pointers with
sweeping helpers, hazard pointers with tracing helpers, and links that change with
tracing helpers are only in the three runs that show the failures. Cells that change
with tracing helpers are in no run: they fail in the same way as links do. The passing
runs therefore do not say that the collector is correct with all features on.

### Fairness

* `pinning`: the collector's wait runs on (a thread of its own), a thread in
  `pin_freshly` or `is_tracing_synced` goes on, and a guard is in the end dropped or
  repinned (strong fairness, as a thread may keep nesting). The last is up to the
  program; without it the collector waits for ever, as the code means it to.
* `sync`, the queue: only the one thread in `Fair` goes on, which is what lock-freedom
  is about; calls are bounded, so its own calls return too.
* `sync`, the registry: every thread in `register_type` goes on; the spin for an id
  makes this necessary, as the function is not lock-free.
* `examples`: while a call is unfinished, some thread takes a step (`Scheduled`). It
  may be the same one for ever, so a thread that waits for another would be found.
* `scheduling`: every thread goes on and every guard ends. The collector gets the
  lock of the statistics (strong fairness: the heartbeat thread sleeps for most of the
  time), and the completion is confirmed at some attempt. The last is an assumption
  about the program, see `collector.rs:85` in the hazards of `PROJECT.json`.

CHECK_DEADLOCK is off where the bound on calls ends the run (`Queue`) or where
threads end in a panic (`TypeRegistry`).

## What is proved

For every number of threads and every value of the other constants:

* `Phases`: `GuardLagHolds`, `ColorAgreement`. The invariant relates each guard to
  the stretch of the collector: only in a wait or the sweep may a guard be of the
  epoch before, and never older.
* `Pinning`: `TypeCorrect`, `Refinement` (it implements `Phases`),
  `TracingSynced`, `BarrierFirst`. The inductive invariant `Inv` adds to the types
  that a confirmed guard of an old epoch can only belong to an entry that the
  collector has still to pass (`WaitInv`), which is what the reload in `pin_freshly`
  is for; `GuardInv` adds what `last_observed` and the walk of `is_tracing_synced`
  know. Assumed: `NoEpoch` is not an epoch, and the bounds are natural numbers.
* `Cdpt`, for every program: `TypeCorrect` (so a root count is never negative) and
  `RootCountsExact`. Each action lemma shows how the step changes the counts and what
  they count (`CountsMove`); that this keeps `RootCountExact` is a fact about finite
  sets. Assumed (`HeapAssumption`): the threads and the cells are finite in number,
  `Null` is neither an object nor a cell and no cell is an object, and the initial
  links and cells of a program lead to its initial objects.
* `Cdpt`, for every *plain* program, that is one without tracing helpers in which
  hazard pointers and sweeping helpers do not mix: `NoUseAfterFreeHolds`,
  `MarkingCompleteHolds`, `NothingMissedHolds`, `NoTaskLeftHolds`. Hazard pointers with
  sweeping helpers, and tracing helpers with hazard pointers or with links that change,
  are refuted by runs (below); tracing helpers on a heap that does not change stay with
  TLC. The inductive invariant `Safe` has these parts:
  - `Shape`: which list a box can be in at each point of the cycle, and with which
    color; black objects have black links, and between cycles all links are white;
  - `Threads`, `Refs`: every reference that a root, a queue, an operation or a link
    of a *proper* object holds is to a proper object, one that is listed, built and
    not doomed by the marking that was confirmed; and a guard of N shades nothing
    outside a cycle, so a barrier that tested the phase and then falls behind the end
    of the cycle is one of a CT guard, by which its object is marked already;
  - `Tri`, the tricolor invariant: a set of objects that has the gray and the black
    ones and is closed under white links also has what the program knows of. What a
    normal guard left from before the cycle uses is not known of yet; it becomes so
    only behind a barrier. Stated with sets, it needs no induction along paths;
  - `HpOK`: what a hazard pointer protects that no phase barrier has marked is black,
    or being marked, or still to be scanned with that hazard pointer collected or to
    be collected;
  - `CasOK`: the pointee of a link about to turn black is gray or black;
  - `Confirming`: if the three looks of `try_confirm_completion` have found nothing so
    far, either a queue to be looked at has a task or nothing is left to shade.

  `Tri` with nothing left to shade gives that everything known is black
  (`SettledBlack`), which is what the publication of N needs.
* `Queue`: `ReachableStaysLive`, `QueueNoUseAfterFree`, and `ImplementsFifo`, the
  refinement of `Fifo`. `QueueInv` says that the nodes from the head on are a chain of
  live nodes without repetition (`ChainOK`), that a node not linked yet, and the
  sentinel just passed, have one owner (`Ownership`), that the tail lags by one node at
  most, even behind the head as long as the thread that passed it is to look at it
  (`TailOK`), and what a thread may rely on of the nodes it has loaded (`Knows`).
  Assumed: `Null` is not a node, `None` not a value, and there is a node.
* `Slots`: `ExclusiveHolds`, `WalksComplete`, `CompactHolds`. `SlotsInv` adds that
  entries are taken only inside the list (`InList`), and that an entry held since a
  walk began has been yielded, is being tested or is still to come (`StillToCome`).
  For `Compact`, `Room` bounds how many threads have gone past each entry. Assumed:
  `MaxNodes` > 0; for `CompactHolds` also that the threads are finite in number.
* `Hazards`: `HidsApartHolds`, `UnusedIsClearHolds`, `NoUseAfterFreeHolds`,
  `ScanCompleteHolds`. `TidyInv`
  says of each `Local` that its slots are those below the length of its array, that
  each is free once or in use, and that a free one is null; growing keeps it since
  the new slots are just those beyond the old length. `ScanInv` adds that the array
  a scan reads is the current one or one that waits in `deferred`, and that an array
  in `deferred` is older than the current one and not destroyed. `SameInv` says where
  the object of a hazard pointer is that has been there since the scan began: found,
  in an entry to come, in a slot to come of the current array, or, once the array
  was outgrown, in a slot to come of the old one, which the owner no longer writes.
  `OwnInv` says that only a thread has hazard pointers. Assumed: `Null` is not an
  object and a `Local` starts with at least one slot (`Parameters`); for
  `ScanCompleteHolds` also that the entries are numbered from 1 (`Listed`).
* `TypeRegistry`: `ShadeFnReadyHolds`, `StableHolds`, `OneEntryPerTypeHolds`.
  `RegistryInv` says that ids are handed out once and that a published id has its
  function. For one entry per type, `Probing` says
  that every slot a thread has passed on its way from the hash is taken by another
  type, both for the threads that are probing and, for each entry, for the thread
  that made it; the arithmetic modulo N is in
  the lemmas `DivMod`, `ModUnique`, `ModSucc`. Assumed: N > 0, hashes are natural
  numbers.
* `Scheduling`: `SchedulingAccountExact`, `SchedulingCountersOrdered`,
  `SchedulingUsageNeverWraps` (the difference of `record_collection_stats`),
  `SchedulingAllocDiffNeverWraps` (`alloc_diff` of `heartbeat`). In the inductive
  invariant `Inv`, `Listing` says that bytes pushed with a batch and yet to be counted
  are of boxes that are still in the fresh list of their color, so no sweep has come to
  them; with `AccountExact` this bounds what is reclaimed by what is allocated. `Waits`
  says what the waits of the collector establish: the guards are of the published epoch,
  and from the sweep to the end of the cycle the helpers have nothing to drop. `Snapshot`
  says that between the two loads of `record_collection_stats` the total it has loaded
  covers what is reclaimed and what the helpers are yet to count. `Locked` says that
  `HBSTATS.write()` excludes the other caller of `heartbeat`, and `Guarded` that a
  thread counts what it has pushed or dropped before its guard ends. The sums over
  threads change by what the one thread that moves adds (`SumsAt`), from the lemmas on
  `SumFunction` at the head of the module. Assumed (`SchedulingAssumption`): the threads
  are finite in number, and `NoGuard` is neither a guard nor a caller.

In the proofs a leaf is for Zenon unless it names SMT; where it names Z3 after it,
that is a second try for when the first runs out of time.

Only model-checked: `Collected`, and `Cdpt` with tracing helpers; everything about
`Words` and the examples; liveness (`WaitEnds`, `CallsReturn`,
`SpinEnds`, `LockFree`, `RequestServed`, `OverLimitServed`), which TLAPS does not reach
here. No installed prover reasons about the bit operations of `Words`. The examples follow links with recursive
operators, which keeps the prover away from their modules.

## Where the code and its documentation disagree

Each is a run in which TLC violates a property that a comment, doc or assertion
states; `PROJECT.json` quotes them.

* `phase_barrier`: a thread that first pins in RT marks its protected objects at
  once, with no check that the helpers of N are gone. Such a helper takes the new
  black for the old white and drops the protected object.
* `lazy_hazards`: `help_root_tracing` reads an object's root count before it
  collects the hazard pointers; a reference that moves from a hazard pointer to a
  root count in between is seen by neither.
* `confirmation`: a helper that finishes under the guard of the phase before, and a
  deletion barrier that has not run yet, together get past the three looks of
  `try_confirm_completion`, so `debug_assert!(find_task(handle).is_none())` can fail.
* `hazard_copy`: `collect_hps` reads the slots of a thread one by one. A thread without
  a guard that copies a protection to a slot the scan has passed, and drops the one
  that it has not, protects the object all along, but the scan does not see it.
  `ScanComplete` is what does hold: an object that one hazard pointer protects from
  the beginning to the end of the scan is found, also when the array grows, and also
  one that moves to a higher slot.
* `tag_and`: `fetch_tag_and` masks the whole word with the tag, so it clears the address
  and the metadata of the link: a link to an object becomes null. `LinkDecodes` in
  run `entries` is about the other two tag operations.

More show up when a property or a constant is changed, or in reading:

* `FixedHashSet` "Panics if the table is full" (`sync/hash_set.rs:82`), but the loop of
  the cold path counts no rounds: a thread that saw a free slot before the table
  filled up probes for ever. `Returns` in place of `SpinEnds` in `MCSync.cfg`.
* "When disabled, the collector thread will not reclaim any objects"
  (`internal.rs:282`), but `enable_collection(false)` is read only between cycles: a
  cycle that is running sweeps to its end, and so do the helpers.
* `heartbeat` computes `new_total_alloc - new_total_reclm` (`collector.rs:123`) from two
  loads of which the second is later: if objects are allocated and swept in between,
  the difference may be negative. Nothing reads the result. `UsageNeverWraps` is about
  the difference that is used, in `record_collection_stats`; it holds since the
  collector itself does not sweep meanwhile and has waited for the helpers.

These are traces of the model, under its abstractions; none has been reproduced
by running the crate.

## What is not modelled

* Weak memory (see Abstractions).
* In `Cdpt`: tags, `Shared`, `AtomicShared` and the conversions between pointers,
  which do what the modelled operations do on a pointer that is not null; threads
  that leave with boxes and mark tasks in their entry.
* `record_mt_modification` and the push after it as separate steps, and
  stealing from crossbeam's deque task by task.
* The rates, the clock, `HeapHeadroom` and `set_collector_threads`: numbers that
  `Scheduling` chooses freely. The shards of a scan or sweep and its worker threads:
  a shard is private to its worker.
* The packed `Epoch` and the wrap of its timestamp after 2^60 phases.
* `hazards_marker`, the mark functions kept beside the hazard slots: written with them
  by the same thread.
* `try_pop_if`, which nothing uses, and the destructors that run alone.
* Tasks as closures, the thread-local handle, the derive macro, the benchmark:
  sequential code around the parts that are modelled.

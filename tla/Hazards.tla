------------------------------ MODULE Hazards ------------------------------
(***************************************************************************)
(* The hazard pointers of internal.rs, slot by slot: the array of each     *)
(* thread's Local, its free slots, an array that is outgrown while the     *)
(* collector reads it, and collect_hps.  Cdpt.tla has one hazard pointer   *)
(* per thread and reads it in one step; this module has what that leaves   *)
(* out.  The entries of the threads are a fixed list (Slots.tla has how    *)
(* they are acquired); a thread that ends leaves its Local to the next one.*)
(***************************************************************************)
EXTENDS Integers, Sequences, FiniteSets

CONSTANTS
  Entries,        \* the list of entries, 1..n
  Objs, Null,
  InitHps,        \* how many hazard pointers a Local starts with
  MaxHps,         \* bound on the length of an array
  MaxProtects     \* bound on how many hazard pointers the program makes

VARIABLES
  inUse,          \* inUse[e]: a thread has the entry
  hazards,        \* hazards[e]: the arrays that Local::hazards has pointed to, the
                  \*   last one being the current one; <<>> once it is destroyed
  availableHids,  \* availableHids[e]: the stack Local::available_hids
  hps,            \* hps[e]: the HazardPointers of the thread, by their hid
  guard,          \* guard[e]: "none", or the phase "N" or "RT" of its guard
  observed,       \* observed[e]: the thread has pinned in this RT
  protects,       \* how many hazard pointers were made
  scan,           \* the collector: its point in root_tracing and in collect_hps
  greyed,         \* what the phase barriers of this RT marked
  deferred,       \* arrays that were outgrown under the EBR guard of the scan
  same,           \* history: hazard pointers that have protected one object since
                  \*   the scan began, or got it from such a one with a lower hid
  kept            \* history: what a thread that has not pinned in this RT when the scan
                  \*   begins has protected ever since

hazardVars == <<inUse, hazards, availableHids, hps, guard, observed, protects, scan, greyed,
                deferred, same, kept>>
ownVars == <<inUse, hazards, availableHids, hps, protects>>
pinVars == <<guard, observed, greyed>>
historyVars == <<same, kept>>

Hids(n) == 0..(n - 1)
Nulls(n) == [hid \in Hids(n) |-> Null]
Current(e) == Len(hazards[e])
Array(e) == hazards[e][Current(e)]
Size(e) == Cardinality(DOMAIN Array(e))

\* Local::default: the first hazard pointer gets the last slot.
HazardsInit ==
  /\ inUse = [e \in Entries |-> TRUE]
  /\ hazards = [e \in Entries |-> <<Nulls(InitHps)>>]
  /\ availableHids = [e \in Entries |-> [i \in 1..InitHps |-> i - 1]]
  /\ hps = [e \in Entries |-> {}]
  /\ guard = [e \in Entries |-> "none"]
  /\ observed = [e \in Entries |-> FALSE]
  /\ protects = 0
  /\ scan = [pc |-> "off", e |-> 0, array |-> 0, hid |-> 0, seen |-> {}]
  /\ greyed = {} /\ deferred = {} /\ same = {} /\ kept = {}

-----------------------------------------------------------------------------
(* The threads.                                                             *)

\* A Local is given back when its Handle and its hazard pointers are dropped (they
\* share an Rc), and serves the next thread as it is.
Leave(e) ==
  /\ inUse[e] /\ guard[e] = "none" /\ hps[e] = {}
  /\ inUse' = [inUse EXCEPT ![e] = FALSE]
  /\ UNCHANGED <<hazards, availableHids, hps, protects, pinVars, scan, deferred, historyVars>>

Register(e) ==
  /\ ~ inUse[e]
  /\ inUse' = [inUse EXCEPT ![e] = TRUE]
  /\ UNCHANGED <<hazards, availableHids, hps, protects, pinVars, scan, deferred, historyVars>>

Protected(e) == {Array(e)[hid] : hid \in DOMAIN Array(e)} \ {Null}

\* pin_freshly with phase_barrier, which marks what its own slots hold.
Pin(e) ==
  /\ inUse[e] /\ guard[e] = "none"
  /\ guard' = [guard EXCEPT ![e] = IF scan.pc = "off" THEN "N" ELSE "RT"]
  /\ observed' = [observed EXCEPT ![e] = scan.pc # "off"]
  /\ greyed' = IF scan.pc # "off" /\ ~ observed[e] THEN greyed \cup Protected(e) ELSE greyed
  /\ UNCHANGED <<ownVars, scan, deferred, historyVars>>

Unpin(e) ==
  /\ guard[e] # "none"
  /\ guard' = [guard EXCEPT ![e] = "none"]
  /\ UNCHANGED <<ownVars, observed, greyed, scan, deferred, historyVars>>

\* Mutant: the new array starts empty.
GrownEmpty(e) == [hid \in Hids(2 * Size(e)) |-> Null]

\* Mutant: all the slots of the new array are free.
NewHidsAll(e) == [i \in 1..(2 * Size(e)) |-> i - 1]

\* Mutant: the outgrown array is destroyed at once.
OutgrownNow(e) == <<>>

\* What grow_hazards copies, what it adds to available_hids, and the array it leaves.
Grown(e) == [hid \in Hids(2 * Size(e)) |-> IF hid < Size(e) THEN Array(e)[hid] ELSE Null]
NewHids(e) == [i \in 1..Size(e) |-> Size(e) + i - 1]
Outgrown(e) == Array(e)

\* grow_hazards, called by acquire_hp when no slot is free.  Only the owner writes
\* to the array, so the copy and the publication are one step.
GrowHazards(e) ==
  /\ inUse[e] /\ availableHids[e] = <<>> /\ 2 * Size(e) <= MaxHps
  /\ hazards' = [hazards EXCEPT ![e] =
       Append([@ EXCEPT ![Current(e)] = Outgrown(e)], Grown(e))]
  /\ availableHids' = [availableHids EXCEPT ![e] = @ \o NewHids(e)]
  /\ deferred' = IF scan.pc \in {"off", "wait"} THEN deferred
                 ELSE deferred \cup {<<e, Current(e)>>}
  /\ UNCHANGED <<inUse, hps, protects, pinVars, scan, historyVars>>

\* The deferred destruction runs when no EBR guard is left from before (external:
\* crossbeam-epoch).
Destroy(e, n) ==
  /\ n < Current(e) /\ hazards[e][n] # <<>>
  /\ <<e, n>> \notin deferred
  /\ hazards' = [hazards EXCEPT ![e][n] = <<>>]
  /\ UNCHANGED <<inUse, availableHids, hps, protects, pinVars, scan, deferred, historyVars>>

\* acquire_hp and HazardPointer::protect; `from` are the hazard pointers of the
\* thread that hold o already.
Store(e, o, from) ==
  LET stack == availableHids[e]
      hid == stack[Len(stack)]
  IN
  /\ inUse[e] /\ stack # <<>> /\ protects < MaxProtects
  /\ availableHids' = [availableHids EXCEPT ![e] = SubSeq(@, 1, Len(@) - 1)]
  /\ hps' = [hps EXCEPT ![e] = @ \cup {hid}]
  /\ hazards' = [hazards EXCEPT ![e][Current(e)][hid] = o]
  /\ protects' = protects + 1
  /\ same' = IF \E h \in from : h < hid /\ <<e, h>> \in same
             THEN same \cup {<<e, hid>>} ELSE same
  /\ UNCHANGED <<inUse, pinVars, scan, deferred, kept>>

\* Local<Guard>::protect(handle).
Protect(e, o) == guard[e] # "none" /\ Store(e, o, {})

\* Local<Handle>::protect(handle), which needs no guard.
Copy(e, hid) ==
  /\ hid \in hps[e]
  /\ Store(e, Array(e)[hid], {hid})

\* Mutant: the slot keeps its object.
DroppedStale(e, hid) == Array(e)[hid]

\* What HazardPointer::clear leaves in the slot.
Dropped(e, hid) == Null

\* HazardPointer::drop.
Drop(e, hid) ==
  /\ hid \in hps[e]
  /\ hps' = [hps EXCEPT ![e] = @ \ {hid}]
  /\ hazards' = [hazards EXCEPT ![e][Current(e)][hid] = Dropped(e, hid)]
  /\ availableHids' = [availableHids EXCEPT ![e] = Append(@, hid)]
  /\ same' = same \ {<<e, hid>>}
  /\ kept' = {x \in kept : x[1] # e \/ \E h \in hps'[e] : Array(e)[h] = x[2]}
  /\ UNCHANGED <<inUse, protects, pinVars, scan, deferred>>

-----------------------------------------------------------------------------
(* The collector: root_tracing as far as the hazard pointers go.            *)

PublishRT ==
  /\ scan.pc = "off"
  /\ scan' = [scan EXCEPT !.pc = "wait"]
  /\ UNCHANGED <<ownVars, pinVars, deferred, historyVars>>

Held(e) == {Array(e)[hid] : hid \in hps[e]}

\* wait_all_mutators_unpin has returned; collect_hps begins under an EBR guard.
BeginScan ==
  /\ scan.pc = "wait"
  /\ \A e \in Entries : guard[e] # "N"
  /\ scan' = [scan EXCEPT !.pc = "entry", !.e = 1]
  /\ same' = UNION {{e} \X hps[e] : e \in Entries}
  /\ kept' = UNION {{e} \X Held(e) : e \in {x \in Entries : ~ observed[x]}}
  /\ UNCHANGED <<ownVars, pinVars, deferred>>

\* iter_using yields the entry, whose array is loaded, or passes over it.
ScanEntry ==
  /\ scan.pc = "entry" /\ scan.e \in Entries
  /\ scan' = IF inUse[scan.e]
             THEN [scan EXCEPT !.pc = "slot", !.array = Current(scan.e), !.hid = 0]
             ELSE [scan EXCEPT !.e = @ + 1]
  /\ UNCHANGED <<ownVars, pinVars, deferred, historyVars>>

Scanned == hazards[scan.e][scan.array]

\* One slot after the other of the array that was loaded.
ScanSlot ==
  /\ scan.pc = "slot" /\ Scanned # <<>>
  /\ LET last == scan.hid + 1 \notin DOMAIN Scanned IN
     scan' = [pc    |-> IF last THEN "entry" ELSE "slot",
              e     |-> IF last THEN scan.e + 1 ELSE scan.e,
              array |-> IF last THEN 0 ELSE scan.array,
              hid   |-> IF last THEN 0 ELSE scan.hid + 1,
              seen  |-> scan.seen \cup ({Scanned[scan.hid]} \ {Null})]
  /\ UNCHANGED <<ownVars, pinVars, deferred, historyVars>>

Collected == scan.pc = "entry" /\ scan.e \notin Entries

\* The cycle goes on without the hazard pointers, to the next RT.
EndScan ==
  /\ Collected
  /\ \A e \in Entries : guard[e] = "none"
  /\ scan' = [pc |-> "off", e |-> 0, array |-> 0, hid |-> 0, seen |-> {}]
  /\ observed' = [e \in Entries |-> FALSE]
  /\ greyed' = {} /\ deferred' = {} /\ same' = {} /\ kept' = {}
  /\ UNCHANGED <<ownVars, guard>>

-----------------------------------------------------------------------------
HazardsNext ==
  \/ \E e \in Entries :
       \/ Leave(e) \/ Register(e) \/ Pin(e) \/ Unpin(e) \/ GrowHazards(e)
       \/ \E n \in 1..Current(e) : Destroy(e, n)
       \/ \E o \in Objs : Protect(e, o)
       \/ \E hid \in hps[e] : Copy(e, hid) \/ Drop(e, hid)
  \/ PublishRT \/ BeginScan \/ ScanEntry \/ ScanSlot \/ EndScan

HazardsSpec == HazardsInit /\ [][HazardsNext]_hazardVars

-----------------------------------------------------------------------------

\* A slot belongs to one hazard pointer or to available_hids, whatever the order in
\* which they are acquired, dropped and grown: two hazard pointers never overwrite
\* each other (acquire_hp, release_hp, grow_hazards).
HidsApart ==
  \A e \in Entries :
    LET free == {availableHids[e][i] : i \in DOMAIN availableHids[e]} IN
    /\ free \cap hps[e] = {} /\ free \cup hps[e] = DOMAIN Array(e)
    /\ \A i, j \in DOMAIN availableHids[e] : availableHids[e][i] = availableHids[e][j] => i = j

\* A Local without a thread protects nothing, so that iter_using may pass over it
\* and the next thread starts with clean slots; nor does a free slot.
UnusedIsClear ==
  \A e \in Entries : \A hid \in DOMAIN Array(e) \ hps[e] : Array(e)[hid] = Null

\* collect_hps reads no array that grow_hazards has let be destroyed ("a collector
\* must access this array with an EBR guard", internal.rs:457).
NoUseAfterFree == scan.pc = "slot" => Scanned # <<>>

\* collect_hps finds every object that a hazard pointer protects from its beginning to
\* its end, while the owner drops others, reuses their slots and outgrows the array
\* that is being read; and also one that is handed on, but only to hazard pointers
\* with higher hids.
ScanComplete ==
  Collected =>
    \A x \in same : Array(x[1])[x[2]] \in scan.seen

\* "It is guaranteed that all local HPs at the beginning of this phase are recognized
\* (i.e., greyed).  1. For cooperative mutators, they marked their HPs by themselves.
\* 2. For uncooperative mutators, the collector has just marked" (collector.rs:200):
\* what an uncooperative thread has protected without a gap since the scan began was
\* collected, or greyed by the phase barrier with which the thread pinned meanwhile.
AllRecognized == Collected => \A x \in kept : x[2] \in scan.seen \cup greyed
=============================================================================

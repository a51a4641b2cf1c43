-------------------------- MODULE SchedulingProof --------------------------
(***************************************************************************)
(* The statistics account for every box, and neither the difference of     *)
(* record_collection_stats nor alloc_diff of heartbeat wraps, for any      *)
(* number of threads, plans and cycles.                                    *)
(***************************************************************************)
EXTENDS Scheduling, FiniteSetTheorems, TLAPS

\* The default prover; a leaf with arithmetic or records names SMT.
USE ZenonT(60)

-----------------------------------------------------------------------------
(* SumFunction.                                                             *)

\* The element that SumFunction takes next.
Pick(s) == CHOOSE x \in s : TRUE

\* g adds up f over the subsets of T.
Adds(g, f, T) ==
  g = [s \in SUBSET T |-> IF s = {} THEN 0 ELSE f[Pick(s)] + g[s \ {Pick(s)}]]

\* No set in C is smaller than t.
Least(t, C) == t \in C /\ \A u \in C : u \subseteq t => u = t

\* A set of subsets of a finite set has a least one.
LEMMA LeastSubset ==
  ASSUME NEW S, IsFiniteSet(S), NEW C, C \subseteq SUBSET S, C # {}
  PROVE  \E t : Least(t, C)
<1>1. IsWellFoundedOn(StrictSubsetOrdering(S), SUBSET S)
  BY FS_StrictSubsetOrderingWellFounded, FS_FiniteSubsetsOfFinite
<1>2. PICK t \in C : \A u \in C : ~ (<<u, t>> \in StrictSubsetOrdering(S))
  BY <1>1, WFMin
<1>3. \A u \in C : u \subseteq t => u = t
  <2> TAKE u \in C
  <2> HAVE u \subseteq t
  <2>1. u \in SUBSET S /\ t \in SUBSET S
    OBVIOUS
  <2>2. CASE u # t
    <3>1. <<u, t>> \in StrictSubsetOrdering(S)
      BY <2>1, <2>2 DEF StrictSubsetOrdering
    <3> QED
      BY <1>2, <3>1
  <2> QED
    BY <2>2
<1> QED
  BY <1>3 DEF Least

\* What SumFunction takes is in the set.
LEMMA PickIn ==
  ASSUME NEW s, s # {}
  PROVE  Pick(s) \in s
  BY DEF Pick

\* Induction in the order in which SumFunction takes the elements, for a set Q of subsets.
LEMMA PickInduction ==
  ASSUME NEW S, IsFiniteSet(S), NEW Q,
         {} \in Q,
         \A s \in SUBSET S : s # {} /\ s \ {Pick(s)} \in Q => s \in Q
  PROVE  \A s \in SUBSET S : s \in Q
<1> DEFINE C == (SUBSET S) \ Q
<1> SUFFICES ASSUME C # {} PROVE FALSE
  OBVIOUS
<1>0. PICK t : Least(t, C)
  <2>1. C \subseteq SUBSET S /\ C # {} /\ IsFiniteSet(S)
    OBVIOUS
  <2> HIDE DEF C
  <2> QED
    BY ONLY <2>1, LeastSubset
<1>1. t \in C /\ \A u \in C : u \subseteq t => u = t
  BY ONLY <1>0 DEF Least
<1>2. t \in SUBSET S /\ t \notin Q
  BY <1>1
<1>3. t # {}
  BY <1>2
<1>4. Pick(t) \in t
  BY <1>3, PickIn
<1>5. t \ {Pick(t)} \in Q
  BY <1>1, <1>4, SMTT(60)
<1> HIDE DEF C
<1> QED
  BY <1>2, <1>3, <1>5

\* The steps of the addition.
LEMMA AddsAt ==
  ASSUME NEW f, NEW T, NEW g, Adds(g, f, T)
  PROVE  /\ g[{}] = 0
         /\ \A s \in SUBSET T : s # {} => g[s] = f[Pick(s)] + g[s \ {Pick(s)}]
  BY DEF Adds

\* Two functions that add up f agree where both are defined.
LEMMA AddsUnique ==
  ASSUME NEW S, IsFiniteSet(S), NEW f, NEW T, NEW U,
         NEW g, NEW h, Adds(g, f, T), Adds(h, f, U), S \in SUBSET T, S \in SUBSET U
  PROVE  g[S] = h[S]
<1> DEFINE Q == {s \in SUBSET S : g[s] = h[s]}
<1>1. {} \in Q
  BY AddsAt, SMTT(60)
<1>2. ASSUME NEW s \in SUBSET S, s # {}, s \ {Pick(s)} \in Q
      PROVE  s \in Q
  <2>1. /\ g[s] = f[Pick(s)] + g[s \ {Pick(s)}]
        /\ h[s] = f[Pick(s)] + h[s \ {Pick(s)}]
    BY <1>2, AddsAt, SMTT(60)
  <2> QED
    BY <1>2, <2>1
<1>3. \A s \in SUBSET S : s \in Q
  <2> HIDE DEF Q
  <2> QED
    BY <1>1, <1>2, PickInduction
<1> QED
  BY <1>3

\* The recursion has a solution.
LEMMA AddsExists ==
  ASSUME NEW S, IsFiniteSet(S), NEW f
  PROVE  \E g : Adds(g, f, S)
<1> DEFINE C == {T \in SUBSET S : ~ \E g : Adds(g, f, T)}
<1> SUFFICES ASSUME C # {} PROVE FALSE
  OBVIOUS
<1>0. PICK t : Least(t, C)
  <2>1. C \subseteq SUBSET S /\ C # {} /\ IsFiniteSet(S)
    OBVIOUS
  <2> HIDE DEF C
  <2> QED
    BY ONLY <2>1, LeastSubset
<1>1. t \in C /\ \A u \in C : u \subseteq t => u = t
  BY ONLY <1>0 DEF Least
<1> DEFINE Part(u) == CHOOSE g : Adds(g, f, u)
           Value(s) == IF s = {} THEN 0
                       ELSE f[Pick(s)] + Part(s \ {Pick(s)})[s \ {Pick(s)}]
           G == [s \in SUBSET t |-> Value(s)]
<1>2. \A u \in SUBSET t : u # t => Adds(Part(u), f, u)
  <2> TAKE u \in SUBSET t
  <2> HAVE u # t
  <2>1. \E g : Adds(g, f, u)
    BY <1>1
  <2> QED
    BY <2>1
<1> HIDE DEF Part
<1>3. \A s \in SUBSET t : s # t => Part(s)[s] = Value(s)
  <2> TAKE s \in SUBSET t
  <2> HAVE s # t
  <2>1. Adds(Part(s), f, s)
    BY <1>2
  <2>2. CASE s = {}
    BY <2>1, <2>2, AddsAt
  <2>3. CASE s # {}
    <3> DEFINE r == s \ {Pick(s)}
    <3>1. Pick(s) \in s
      BY <2>3, PickIn
    <3>2. r \in SUBSET s /\ r # t /\ r \in SUBSET t /\ r \in SUBSET S
      BY <1>1, <3>1
    <3>3. Adds(Part(r), f, r)
      BY <1>2, <3>2
    <3>4. Part(s)[s] = f[Pick(s)] + Part(s)[r]
      BY <2>1, <2>3, AddsAt, SMTT(60)
    <3>5. Part(s)[r] = Part(r)[r]
      <4>1. IsFiniteSet(r)
        BY <3>2, FS_Subset
      <4> HIDE DEF r
      <4> QED
        BY <2>1, <3>2, <3>3, <4>1, AddsUnique, SMTT(60)
    <3> QED
      BY <2>3, <3>4, <3>5
  <2> QED
    BY <2>2, <2>3
<1>4. Adds(G, f, t)
  <2>1. ASSUME NEW s \in SUBSET t
        PROVE  Value(s) = IF s = {} THEN 0 ELSE f[Pick(s)] + G[s \ {Pick(s)}]
    <3>1. CASE s = {}
      BY <3>1
    <3>2. CASE s # {}
      <4> DEFINE r == s \ {Pick(s)}
      <4>1. Pick(s) \in s
        BY <3>2, PickIn
      <4>2. r \in SUBSET t /\ r # t
        BY <4>1
      <4>3. G[r] = Part(r)[r]
        BY <1>3, <4>2
      <4> QED
        BY <3>2, <4>3
    <3> QED
      BY <3>1, <3>2
  <2> QED
    BY <2>1 DEF Adds
<1> QED
  BY <1>1, <1>4

\* g adds up f over S one element after the other, as SumFunction does.
Steps(g, f, S) ==
  /\ SumFunction(f) = g[S]
  /\ g[{}] = 0
  /\ \A s \in SUBSET S : s # {} => g[s] = f[Pick(s)] + g[s \ {Pick(s)}]

\* There is such a function.
LEMMA SumSteps ==
  ASSUME NEW S, IsFiniteSet(S), NEW f \in [S -> Int]
  PROVE  \E g : Steps(g, f, S)
<1> DEFINE g == CHOOSE x : Adds(x, f, DOMAIN f)
<1>1. Adds(g, f, DOMAIN f)
  BY AddsExists
<1>2. SumFunction(f) = g[DOMAIN f]
  BY DEF SumFunction, SumFunctionOnSet, FoldFunctionOnSet, MapThenFoldSet, Adds, Pick
<1> HIDE DEF g
<1>3. /\ g[{}] = 0
      /\ \A s \in SUBSET S : s # {} => g[s] = f[Pick(s)] + g[s \ {Pick(s)}]
  BY <1>1 DEF Adds
<1> QED
  BY <1>2, <1>3 DEF Steps

\* A sum of integers is one.
LEMMA SumInt ==
  ASSUME NEW S, IsFiniteSet(S), NEW f \in [S -> Int]
  PROVE  SumFunction(f) \in Int
<1>1. PICK g : Steps(g, f, S)
  BY SumSteps
<1> DEFINE Q == {s \in SUBSET S : g[s] \in Int}
<1>2. {} \in Q
  BY <1>1, SMTT(60) DEF Steps
<1>3. ASSUME NEW s \in SUBSET S, s # {}, s \ {Pick(s)} \in Q
      PROVE  s \in Q
  <2>1. g[s] = f[Pick(s)] + g[s \ {Pick(s)}]
    BY <1>1, <1>3 DEF Steps
  <2>2. Pick(s) \in S
    BY <1>3, PickIn
  <2> QED
    BY <1>3, <2>1, <2>2, SMTT(60)
<1>4. \A s \in SUBSET S : s \in Q
  <2> HIDE DEF Q
  <2> QED
    BY <1>2, <1>3, PickInduction
<1> QED
  BY <1>1, <1>4 DEF Steps

\* A sum of natural numbers is one.
LEMMA SumNat ==
  ASSUME NEW S, IsFiniteSet(S), NEW f \in [S -> Nat]
  PROVE  SumFunction(f) \in Nat
<1>0. f \in [S -> Int]
  BY SMTT(60)
<1>1. PICK g : Steps(g, f, S)
  BY <1>0, SumSteps
<1> DEFINE Q == {s \in SUBSET S : g[s] \in Nat}
<1>2. {} \in Q
  BY <1>1, SMTT(60) DEF Steps
<1>3. ASSUME NEW s \in SUBSET S, s # {}, s \ {Pick(s)} \in Q
      PROVE  s \in Q
  <2>1. g[s] = f[Pick(s)] + g[s \ {Pick(s)}]
    BY <1>1, <1>3 DEF Steps
  <2>2. Pick(s) \in S
    BY <1>3, PickIn
  <2> QED
    BY <1>3, <2>1, <2>2, SMTT(60)
<1>4. \A s \in SUBSET S : s \in Q
  <2> HIDE DEF Q
  <2> QED
    BY <1>2, <1>3, PickInduction
<1> QED
  BY <1>1, <1>4 DEF Steps

\* The sum of a sum.
LEMMA SumPlus ==
  ASSUME NEW S, IsFiniteSet(S), NEW f \in [S -> Int], NEW d \in [S -> Int], NEW h \in [S -> Int],
         \A x \in S : h[x] = f[x] + d[x]
  PROVE  SumFunction(h) = SumFunction(f) + SumFunction(d)
<1>1. PICK a : Steps(a, f, S)
  BY SumSteps
<1>2. PICK b : Steps(b, d, S)
  BY SumSteps
<1>3. PICK c : Steps(c, h, S)
  BY SumSteps
<1> DEFINE Q == {s \in SUBSET S : a[s] \in Int /\ b[s] \in Int /\ c[s] = a[s] + b[s]}
<1>4. {} \in Q
  BY <1>1, <1>2, <1>3, SMTT(60) DEF Steps
<1>5. ASSUME NEW s \in SUBSET S, s # {}, s \ {Pick(s)} \in Q
      PROVE  s \in Q
  <2>1. /\ a[s] = f[Pick(s)] + a[s \ {Pick(s)}]
        /\ b[s] = d[Pick(s)] + b[s \ {Pick(s)}]
        /\ c[s] = h[Pick(s)] + c[s \ {Pick(s)}]
    BY <1>1, <1>2, <1>3, <1>5 DEF Steps
  <2>2. Pick(s) \in S
    BY <1>5, PickIn
  <2>3. f[Pick(s)] \in Int /\ d[Pick(s)] \in Int /\ h[Pick(s)] = f[Pick(s)] + d[Pick(s)]
    BY <2>2
  <2> QED
    BY <1>5, <2>1, <2>3, SMTT(60)
<1>6. \A s \in SUBSET S : s \in Q
  <2> HIDE DEF Q
  <2> QED
    BY <1>4, <1>5, PickInduction
<1> QED
  BY <1>1, <1>2, <1>3, <1>6 DEF Steps

\* The sum of a function that is zero but at one place.
LEMMA SumOne ==
  ASSUME NEW S, IsFiniteSet(S), NEW p \in S, NEW v \in Int, NEW f \in [S -> Int],
         \A x \in S : f[x] = IF x = p THEN v ELSE 0
  PROVE  SumFunction(f) = v
<1>1. PICK g : Steps(g, f, S)
  BY SumSteps
<1> DEFINE Q == {s \in SUBSET S : g[s] = IF p \in s THEN v ELSE 0}
<1>2. {} \in Q
  BY <1>1 DEF Steps
<1>3. ASSUME NEW s \in SUBSET S, s # {}, s \ {Pick(s)} \in Q
      PROVE  s \in Q
  <2>1. g[s] = f[Pick(s)] + g[s \ {Pick(s)}]
    BY <1>1, <1>3 DEF Steps
  <2>2. Pick(s) \in s
    BY <1>3, PickIn
  <2>3. f[Pick(s)] = IF Pick(s) = p THEN v ELSE 0
    BY <2>2
  <2> QED
    BY <1>3, <2>1, <2>2, <2>3, SMTT(60)
<1>4. \A s \in SUBSET S : s \in Q
  <2> HIDE DEF Q
  <2> QED
    BY <1>2, <1>3, PickInduction
<1> QED
  BY <1>1, <1>4 DEF Steps

\* How a sum changes when one term does.
LEMMA SumStep ==
  ASSUME NEW S, IsFiniteSet(S), NEW f \in [S -> Int], NEW h \in [S -> Int], NEW p \in S,
         \A x \in S : x # p => h[x] = f[x]
  PROVE  SumFunction(h) = SumFunction(f) + h[p] - f[p]
<1> DEFINE d == [x \in S |-> IF x = p THEN h[p] - f[p] ELSE 0]
<1>1. d \in [S -> Int] /\ h[p] - f[p] \in Int
  BY SMTT(60)
<1>2. \A x \in S : d[x] = IF x = p THEN h[p] - f[p] ELSE 0
  OBVIOUS
<1>3. \A x \in S : h[x] = f[x] + d[x]
  BY SMTT(60)
<1> HIDE DEF d
<1>4. SumFunction(d) = h[p] - f[p]
  BY <1>1, <1>2, SumOne, SMTT(60), Z3T(60)
<1>5. SumFunction(h) = SumFunction(f) + SumFunction(d)
  BY <1>1, <1>3, SumPlus, SMTT(60)
<1>6. SumFunction(f) \in Int /\ h[p] \in Int /\ f[p] \in Int
  BY SumInt
<1> QED
  BY <1>4, <1>5, <1>6

\* A sum of zeros.
LEMMA SumZero ==
  ASSUME NEW S, IsFiniteSet(S), NEW f \in [S -> Int], \A x \in S : f[x] = 0
  PROVE  SumFunction(f) = 0
<1> DEFINE x == SumFunction(f)
<1>1. x = x + x
  BY SumPlus, SMTT(60)
<1>2. x \in Int
  BY SumInt
<1> HIDE DEF x
<1>3. x = 0
  BY <1>1, <1>2, SMTT(60)
<1> QED
  BY <1>3 DEF x

\* Sums are monotonic.
LEMMA SumMonotonic ==
  ASSUME NEW S, IsFiniteSet(S), NEW f \in [S -> Int], NEW h \in [S -> Int],
         \A x \in S : f[x] <= h[x]
  PROVE  SumFunction(f) <= SumFunction(h)
<1> DEFINE d == [x \in S |-> h[x] - f[x]]
<1>1. d \in [S -> Nat] /\ d \in [S -> Int]
  BY SMTT(60)
<1>2. \A x \in S : h[x] = f[x] + d[x]
  BY SMTT(60)
<1> HIDE DEF d
<1>3. SumFunction(h) = SumFunction(f) + SumFunction(d)
  BY <1>1, <1>2, SumPlus, SMTT(60)
<1>4. SumFunction(d) \in Nat /\ SumFunction(f) \in Int
  BY <1>1, SumNat, SumInt
<1> QED
  BY <1>3, <1>4, SMTT(60)

-----------------------------------------------------------------------------
(* The invariant.                                                           *)

ColPcs == {"none", "start", "poll", "pollRequest", "reset", "read", "readAlloc", "readRecl",
           "begin", "rtWait", "pending", "countPending", "scan", "trace", "ctWait", "confirm",
           "sweep", "sweepCount", "nWait", "endAlloc", "endRecl", "beat", "store"}

Batches == [boxes : Nat, bytes : Nat]
Points == [pc : {"idle", "flushed", "reclaimed"}, bytes : Nat, new : {0, 1}]

Typed ==
  /\ collectorInit \in BOOLEAN
  /\ epoch \in Epochs
  /\ guard \in [Mutators -> Guards \cup {NoGuard}]
  /\ objs \in [Mutators -> [Color -> Batches]]
  /\ fresh \in [Color -> Nat]
  /\ marked \in [Color -> [live : Nat, dead : Nat]]
  /\ m \in [Mutators -> Points]
  /\ total \in [allocated : Nat, reclaimed : Nat]
  /\ col \in [pc : ColPcs, alloc : Nat, recl : Nat, todo : SUBSET Mutators]
  /\ statAlloc \in Nat
  /\ hb \in [Beaters -> [pc : {"rest", "load", "update"}, alloc : Nat]]

\* One thread at a time is in heartbeat(), after collector_loop has begun, and what it has
\* loaded is not less than what the one before it stored.
Locked ==
  /\ ~ collectorInit => col.pc = "none"
  /\ col.pc \in {"none", "start"} => \A a \in Beaters : hb[a].pc = "rest"
  /\ \A a \in Beaters : hb[a].pc # "rest" => writer = a
  /\ hb[Coll].pc # "rest" => col.pc = "beat"
  /\ statAlloc <= total.allocated
  /\ \A a \in Beaters : hb[a].pc = "update" =>
       statAlloc <= hb[a].alloc /\ hb[a].alloc <= total.allocated

\* What a thread has to count it counts under the guard that it pushed or dropped it
\* under, a guard is of the current epoch or old, and a box has one byte or none to count.
Guarded ==
  /\ \A p \in Mutators : m[p].pc # "idle" => guard[p] # NoGuard
  /\ \A p \in Mutators : m[p].pc = "flushed" =>
       objs[p][AllocColor(p)] = [boxes |-> 0, bytes |-> 0]
  /\ \A p \in Mutators : guard[p] # NoGuard /\ ~ guard[p].old => guard[p].epoch = epoch
  /\ \A p \in Mutators, c \in Color : objs[p][c].bytes <= objs[p][c].boxes

\* What the waits of the collector establish for what follows them: the boxes that are
\* scanned were pushed under guards of the past, and after the sweep nothing is left
\* for the helpers.
Waits ==
  /\ col.pc \in {"rtWait", "pending", "countPending", "scan"} => epoch.phase = "RT"
  /\ col.pc \in {"pending", "countPending", "scan", "endAlloc", "endRecl"} => Waited
  /\ col.pc \in {"sweepCount", "nWait", "endAlloc", "endRecl"} =>
       marked[1 - epoch.white].dead = 0

\* Bytes in fresh[c] that p has yet to count, and that the collector has.
InBatch(p, c) == IF m[p].pc = "flushed" /\ AllocColor(p) = c THEN m[p].bytes ELSE 0
Pending(c) == IF col.pc = "countPending" /\ c = epoch.white THEN col.alloc ELSE 0

SumUncounted == SumFunction([p \in Mutators |-> Uncounted(p)])
SumBoxes == SumFunction([p \in Mutators |-> Boxes(p)])
SumDropped == SumFunction([p \in Mutators |-> Dropped(p)])
SumInBatch(c) == SumFunction([p \in Mutators |-> InBatch(p, c)])

\* What was pushed and is not counted has not left the list.
Listing == \A c \in Color : SumInBatch(c) + Pending(c) <= fresh[c]

\* Between its two loads record_collection_stats keeps a total that covers what the
\* helpers have yet to count.
Snapshot ==
  /\ col.pc = "endRecl" => total.reclaimed + SumDropped <= col.alloc
  /\ UsageNeverWraps

Inv == Typed /\ Locked /\ Guarded /\ Waits /\ AccountExact /\ Listing /\ Snapshot

-----------------------------------------------------------------------------
(* The steps.                                                               *)

\* The parts of a state that has the types.
LEMMA TypeFacts ==
  ASSUME Typed
  PROVE  /\ \A p \in Mutators : guard[p] # NoGuard => AllocColor(p) \in Color /\ 1 - guard[p].epoch.white \in Color
         /\ \A p \in Mutators : guard[p] # NoGuard => guard[p] \in Guards /\ guard[p].epoch \in Epochs
         /\ epoch.white \in Color /\ 1 - epoch.white \in Color
         /\ \A p \in Mutators, c \in Color : objs[p][c].boxes \in Nat /\ objs[p][c].bytes \in Nat
         /\ \A c \in Color : fresh[c] \in Nat /\ marked[c].live \in Nat /\ marked[c].dead \in Nat
         /\ \A p \in Mutators : m[p].bytes \in Nat /\ m[p].new \in {0, 1}
         /\ total.allocated \in Nat /\ total.reclaimed \in Nat
         /\ col.alloc \in Nat /\ col.recl \in Nat /\ col.todo \in SUBSET Mutators
  BY SMTT(60) DEF Typed, AllocColor, Guards, Epochs, Color, Batches, Points

\* push_fresh_obj keeps the types.
LEMMA PushTypes ==
  ASSUME Typed, NEW p \in Mutators, guard[p] # NoGuard, NEW new \in {0, 1}, PushFreshObj(p, new)
  PROVE  /\ objs' \in [Mutators -> [Color -> Batches]]
         /\ fresh' \in [Color -> Nat]
         /\ m' \in [Mutators -> Points]
<1> DEFINE c == AllocColor(p)
<1>1. c \in Color /\ objs[p][c].boxes \in Nat /\ objs[p][c].bytes \in Nat /\ fresh[c] \in Nat
  BY TypeFacts
<1>2. CASE objs[p][c].boxes < BatchSize
  <2>1. /\ objs' = [objs EXCEPT ![p][c] = [boxes |-> objs[p][c].boxes + 1, bytes |-> objs[p][c].bytes + new]]
        /\ fresh' = fresh /\ m' = m
    BY <1>2 DEF PushFreshObj
  <2>2. [boxes |-> objs[p][c].boxes + 1, bytes |-> objs[p][c].bytes + new] \in Batches
    BY <1>1, SMTT(60) DEF Batches
  <2> HIDE DEF c
  <2> QED
    BY <1>1, <2>1, <2>2 DEF Typed
<1>3. CASE ~ (objs[p][c].boxes < BatchSize)
  <2>1. /\ fresh' = [fresh EXCEPT ![c] = fresh[c] + objs[p][c].boxes]
        /\ m' = [m EXCEPT ![p] = [pc |-> "flushed", bytes |-> objs[p][c].bytes, new |-> new]]
        /\ objs' = [objs EXCEPT ![p][c] = [boxes |-> 0, bytes |-> 0]]
    BY <1>3 DEF PushFreshObj
  <2>2. /\ [boxes |-> 0, bytes |-> 0] \in Batches
        /\ [pc |-> "flushed", bytes |-> objs[p][c].bytes, new |-> new] \in Points
        /\ fresh[c] + objs[p][c].boxes \in Nat
    BY <1>1, SMTT(60) DEF Batches, Points
  <2> HIDE DEF c
  <2> QED
    BY <1>1, <2>1, <2>2 DEF Typed
<1> QED
  BY <1>2, <1>3

\* Every step keeps the types.
LEMMA TypedStep == Typed /\ [Next]_vars => Typed'
<1> SUFFICES ASSUME Typed, Next PROVE Typed'
  BY DEF Typed, vars, startVars, listVars, statVars
<1>1. ASSUME NEW set \in BOOLEAN, EnableCollection(set) PROVE Typed'
  BY <1>1 DEF Typed, EnableCollection, Switch, startVars, switchVars, listVars, statVars
<1>2. ASSUME RequestCollection PROVE Typed'
  BY <1>2 DEF Typed, RequestCollection, Switch, startVars, switchVars, listVars, statVars
<1>3. ASSUME NEW p \in Mutators, Initialize(p) PROVE Typed'
  BY <1>3 DEF Typed, Initialize, startVars, switchVars, listVars, statVars
<1>4. ASSUME NEW p \in Mutators, TryDeployCollector(p) PROVE Typed'
  BY <1>4 DEF Typed, TryDeployCollector, ColAt, ColPcs, startVars, switchVars, listVars, statVars
<1>5. ASSUME NEW p \in Mutators, Pin(p) PROVE Typed'
  BY <1>5 DEF Typed, Pin, Guards, mutatorRest, startVars, switchVars, listVars, statVars
<1>6. ASSUME NEW p \in Mutators, Unpin(p) PROVE Typed'
  BY <1>6 DEF Typed, Unpin, mutatorRest, startVars, switchVars, listVars, statVars
<1>7. ASSUME NEW p \in Mutators, Alloc(p) PROVE Typed'
  <2>1. guard[p] # NoGuard /\ PushFreshObj(p, 1)
    BY <1>7 DEF Alloc, Free
  <2>2. /\ objs' \in [Mutators -> [Color -> Batches]]
        /\ fresh' \in [Color -> Nat]
        /\ m' \in [Mutators -> Points]
    BY <2>1, PushTypes
  <2>3. UNCHANGED <<collectorInit, epoch, guard, marked, total, col, statAlloc, hb>>
    BY <1>7 DEF Alloc, PushFreshObj, Free, Color, mutatorRest, startVars, switchVars, listVars, statVars
  <2> QED
    BY <2>1, <2>2, <2>3 DEF Typed
<1>8. ASSUME NEW p \in Mutators, CountFlushed(p) PROVE Typed'
  <2>1. total' \in [allocated : Nat, reclaimed : Nat]
    <3>1. total' = [total EXCEPT !.allocated = @ + m[p].bytes]
      BY <1>8 DEF CountFlushed
    <3>2. total.allocated \in Nat /\ m[p].bytes \in Nat
      BY TypeFacts
    <3> QED
      BY <3>1, <3>2, SMTT(60), Z3T(60) DEF Typed
  <2>2. objs' \in [Mutators -> [Color -> Batches]]
    <3> DEFINE k == AllocColor(p)
    <3>1. objs' = [objs EXCEPT ![p][k] = [boxes |-> 1, bytes |-> m[p].new]]
      BY <1>8 DEF CountFlushed
    <3>2. [boxes |-> 1, bytes |-> m[p].new] \in Batches
      BY TypeFacts, SMTT(60) DEF Batches
    <3> HIDE DEF k
    <3> QED
      BY <3>1, <3>2 DEF Typed
  <2>3. m' \in [Mutators -> Points]
    BY <1>8, TypeFacts DEF Typed, Batches, Points, CountFlushed, Idle, Color, mutatorRest
  <2>4. UNCHANGED <<collectorInit, epoch, guard, fresh, marked, col, statAlloc, hb>>
    BY <1>8 DEF CountFlushed, Idle, Color, mutatorRest, startVars, switchVars, listVars, statVars
  <2> QED
    BY <2>1, <2>2, <2>3, <2>4 DEF Typed
<1>9. ASSUME NEW p \in Mutators, HelpSweepDead(p) PROVE Typed'
  <2>1. marked' \in [Color -> [live : Nat, dead : Nat]]
    <3>1. PICK c \in Color : /\ marked[c].dead > 0
                            /\ marked' = [marked EXCEPT ![c].dead = @ - 1]
      BY <1>9, TypeFacts DEF HelpSweepDead, Free
    <3>2. marked[c].dead - 1 \in Nat
      BY <3>1, TypeFacts, SMTT(60)
    <3> QED
      BY <3>1, <3>2 DEF Typed
  <2>2. m' \in [Mutators -> Points]
    BY <1>9, TypeFacts DEF Typed, Batches, Points, HelpSweepDead, Free, Color, Guards, Epochs, mutatorRest
  <2>3. UNCHANGED <<collectorInit, epoch, guard, objs, fresh, total, col, statAlloc, hb>>
    BY <1>9 DEF HelpSweepDead, Free, Color, Guards, Epochs, mutatorRest, startVars, switchVars, listVars, statVars
  <2> QED
    BY <2>1, <2>2, <2>3 DEF Typed
<1>10. ASSUME NEW p \in Mutators, HelpSweepLive(p) PROVE Typed'
  <2>1. marked' \in [Color -> [live : Nat, dead : Nat]]
    <3>1. PICK c \in Color : /\ marked[c].live > 0
                            /\ marked' = [marked EXCEPT ![c].live = @ - 1]
      BY <1>10, TypeFacts DEF HelpSweepLive, Free
    <3>2. marked[c].live - 1 \in Nat
      BY <3>1, TypeFacts, SMTT(60)
    <3> QED
      BY <3>1, <3>2 DEF Typed
  <2>2. guard[p] # NoGuard /\ PushFreshObj(p, 0)
    BY <1>10 DEF HelpSweepLive, Free
  <2>3. /\ objs' \in [Mutators -> [Color -> Batches]]
        /\ fresh' \in [Color -> Nat]
        /\ m' \in [Mutators -> Points]
    BY <2>2, PushTypes
  <2>4. UNCHANGED <<collectorInit, epoch, guard, total, col, statAlloc, hb>>
    BY <1>10 DEF HelpSweepLive, PushFreshObj, Free, Color, Guards, Epochs, mutatorRest, startVars, switchVars, listVars, statVars
  <2> QED
    BY <2>1, <2>2, <2>3, <2>4 DEF Typed
<1>11. ASSUME NEW p \in Mutators, CountReclaimed(p) PROVE Typed'
  <2>1. total' \in [allocated : Nat, reclaimed : Nat]
    <3>1. total' = [total EXCEPT !.reclaimed = @ + m[p].bytes]
      BY <1>11 DEF CountReclaimed
    <3>2. total.reclaimed \in Nat /\ m[p].bytes \in Nat
      BY TypeFacts
    <3> QED
      BY <3>1, <3>2, SMTT(60) DEF Typed
  <2>2. m' \in [Mutators -> Points]
    BY <1>11, TypeFacts DEF Typed, Batches, Points, CountReclaimed, Idle, mutatorRest
  <2>3. UNCHANGED <<collectorInit, epoch, guard, objs, fresh, marked, col, statAlloc, hb>>
    BY <1>11 DEF CountReclaimed, Idle, mutatorRest, startVars, switchVars, listVars, statVars
  <2> QED
    BY <2>1, <2>2, <2>3 DEF Typed
<1>12. ASSUME NEW a \in Beaters, BeatLock(a) PROVE Typed'
  BY <1>12 DEF Typed, BeatLock, hbRest, startVars, switchVars, listVars, statVars
<1>13. ASSUME NEW a \in Beaters, BeatTooSoon(a) PROVE Typed'
  BY <1>13 DEF Typed, BeatTooSoon, BeatReturn, Resting, ColPcs, hbRest, startVars, switchVars, listVars, statVars
<1>14. ASSUME NEW a \in Beaters, BeatLoad(a) PROVE Typed'
  BY <1>14 DEF Typed, BeatLoad, hbRest, startVars, switchVars, listVars, statVars
<1>15. ASSUME NEW a \in Beaters, BeatUpdate(a) PROVE Typed'
  BY <1>15 DEF Typed, BeatUpdate, BeatReturn, Resting, ColPcs, hbRest, startVars, switchVars, listVars, statVars
<1>16. ASSUME ColStart PROVE Typed'
  BY <1>16 DEF Typed, ColStart, ColGoto, ColPcs, startVars, switchVars, listVars, statVars
<1>17. ASSUME PollEnabled PROVE Typed'
  BY <1>17 DEF Typed, PollEnabled, ColGoto, ColPcs, pollRest, startVars, switchVars, listVars, statVars
<1>18. ASSUME PollRequest PROVE Typed'
  BY <1>18 DEF Typed, PollRequest, ColGoto, ColPcs, pollRest, startVars, switchVars, listVars, statVars
<1>19. ASSUME ResetRequest PROVE Typed'
  BY <1>19 DEF Typed, ResetRequest, ColGoto, ColPcs, pollRest, startVars, switchVars, listVars, statVars
<1>20. ASSUME PollRead PROVE Typed'
  BY <1>20 DEF Typed, PollRead, ColGoto, ColPcs, pollRest, startVars, switchVars, listVars, statVars
<1>21. ASSUME ReadAllocated PROVE Typed'
  BY <1>21 DEF Typed, ReadAllocated, ColPcs, pollRest, startVars, switchVars, listVars, statVars
<1>22. ASSUME Decide PROVE Typed'
  BY <1>22, SMTT(60) DEF Typed, Decide, pollRest, ColAt, ColPcs, startVars, switchVars, listVars, statVars
<1>23. ASSUME BeginCycle PROVE Typed'
  <2>1. epoch' \in Epochs
    BY <1>23, TypeFacts DEF Typed, Batches, Points, BeginCycle, Publish, Epochs, Guards, Color, ColGoto, ColPcs, cycleRest
  <2>2. guard' \in [Mutators -> Guards \cup {NoGuard}]
    BY <1>23, TypeFacts DEF Typed, Batches, Points, BeginCycle, Publish, Epochs, Guards, Color, ColGoto, ColPcs, cycleRest
  <2>3. col' \in [pc : ColPcs, alloc : Nat, recl : Nat, todo : SUBSET Mutators]
    BY <1>23, TypeFacts DEF Typed, Batches, Points, BeginCycle, Publish, Epochs, Guards, Color, ColGoto, ColPcs, cycleRest
  <2>4. UNCHANGED <<collectorInit, objs, fresh, marked, m, total, statAlloc, hb>>
    BY <1>23 DEF BeginCycle, Publish, Epochs, Guards, Color, ColGoto, ColPcs, cycleRest, startVars, switchVars, listVars, statVars
  <2> QED
    BY <2>1, <2>2, <2>3, <2>4 DEF Typed
<1>24. ASSUME EndWait PROVE Typed'
  BY <1>24 DEF Typed, EndWait, ColPcs, cycleRest, startVars, switchVars, listVars, statVars
<1>25. ASSUME TakePending PROVE Typed'
  <2>1. fresh' \in [Color -> Nat]
    BY <1>25, TypeFacts, SMTT(60) DEF Typed, Batches, Points, TakePending, ColPcs, cycleRest
  <2>2. col' \in [pc : ColPcs, alloc : Nat, recl : Nat, todo : SUBSET Mutators]
    <3>1. PICK p \in Mutators : col' = [col EXCEPT !.pc = "countPending", !.todo = @ \ {p},
                                                  !.alloc = objs[p][epoch.white].bytes]
      BY <1>25, TypeFacts DEF TakePending
    <3>2. objs[p][epoch.white].bytes \in Nat /\ col.todo \ {p} \in SUBSET Mutators
      BY TypeFacts
    <3> QED
      BY <3>1, <3>2 DEF Typed, ColPcs
  <2>3. objs' \in [Mutators -> [Color -> Batches]]
    BY <1>25, TypeFacts, SMTT(60) DEF Typed, Batches, Points, TakePending, ColPcs, cycleRest
  <2>4. UNCHANGED <<collectorInit, epoch, guard, marked, m, total, statAlloc, hb>>
    BY <1>25 DEF TakePending, ColPcs, cycleRest, startVars, switchVars, listVars, statVars
  <2> QED
    BY <2>1, <2>2, <2>3, <2>4 DEF Typed
<1>26. ASSUME CountPending PROVE Typed'
  <2>1. total' \in [allocated : Nat, reclaimed : Nat]
    <3>1. total.allocated + col.alloc \in Nat
      BY TypeFacts, SMTT(60)
    <3> QED
      BY <1>26, <3>1 DEF Typed, CountPending
  <2>2. col' \in [pc : ColPcs, alloc : Nat, recl : Nat, todo : SUBSET Mutators]
    BY <1>26, TypeFacts DEF Typed, Batches, Points, CountPending, ColPcs, cycleRest
  <2>3. UNCHANGED <<collectorInit, epoch, guard, objs, fresh, marked, m, statAlloc, hb>>
    BY <1>26 DEF CountPending, ColPcs, cycleRest, startVars, switchVars, listVars, statVars
  <2> QED
    BY <2>1, <2>2, <2>3 DEF Typed
<1>27. ASSUME Scan PROVE Typed'
  <2>1. marked' \in [Color -> [live : Nat, dead : Nat]]
    BY <1>27, TypeFacts, SMTT(60) DEF Typed, Batches, Points, Scan, ColGoto, ColPcs, cycleRest
  <2>2. fresh' \in [Color -> Nat]
    BY <1>27, TypeFacts DEF Typed, Batches, Points, Scan, ColGoto, ColPcs, cycleRest
  <2>3. col' \in [pc : ColPcs, alloc : Nat, recl : Nat, todo : SUBSET Mutators]
    BY <1>27, TypeFacts DEF Typed, Batches, Points, Scan, ColGoto, ColPcs, cycleRest
  <2>4. UNCHANGED <<collectorInit, epoch, guard, objs, m, total, statAlloc, hb>>
    BY <1>27 DEF Scan, ColGoto, ColPcs, cycleRest, startVars, switchVars, listVars, statVars
  <2> QED
    BY <2>1, <2>2, <2>3, <2>4 DEF Typed
<1>28. ASSUME BeginCompletion PROVE Typed'
  <2>1. epoch' \in Epochs
    BY <1>28, TypeFacts DEF Typed, Batches, Points, BeginCompletion, Publish, Epochs, Guards, Color, ColGoto, ColPcs, cycleRest
  <2>2. guard' \in [Mutators -> Guards \cup {NoGuard}]
    BY <1>28, TypeFacts DEF Typed, Batches, Points, BeginCompletion, Publish, Epochs, Guards, Color, ColGoto, ColPcs, cycleRest
  <2>3. col' \in [pc : ColPcs, alloc : Nat, recl : Nat, todo : SUBSET Mutators]
    BY <1>28, TypeFacts DEF Typed, Batches, Points, BeginCompletion, Publish, Epochs, Guards, Color, ColGoto, ColPcs, cycleRest
  <2>4. UNCHANGED <<collectorInit, objs, fresh, marked, m, total, statAlloc, hb>>
    BY <1>28 DEF BeginCompletion, Publish, Epochs, Guards, Color, ColGoto, ColPcs, cycleRest, startVars, switchVars, listVars, statVars
  <2> QED
    BY <2>1, <2>2, <2>3, <2>4 DEF Typed
<1>29. ASSUME Refuted PROVE Typed'
  BY <1>29 DEF Typed, Refuted, ColGoto, ColPcs, cycleRest, startVars, switchVars, listVars, statVars
<1>30. ASSUME BeginNormal PROVE Typed'
  <2>1. epoch' \in Epochs
    BY <1>30, TypeFacts DEF Typed, Batches, Points, BeginNormal, Publish, Epochs, Guards, Color, ColGoto, ColPcs, cycleRest
  <2>2. guard' \in [Mutators -> Guards \cup {NoGuard}]
    BY <1>30, TypeFacts DEF Typed, Batches, Points, BeginNormal, Publish, Epochs, Guards, Color, ColGoto, ColPcs, cycleRest
  <2>3. col' \in [pc : ColPcs, alloc : Nat, recl : Nat, todo : SUBSET Mutators]
    BY <1>30, TypeFacts DEF Typed, Batches, Points, BeginNormal, Publish, Epochs, Guards, Color, ColGoto, ColPcs, cycleRest
  <2>4. UNCHANGED <<collectorInit, objs, fresh, marked, m, total, statAlloc, hb>>
    BY <1>30 DEF BeginNormal, Publish, Epochs, Guards, Color, ColGoto, ColPcs, cycleRest, startVars, switchVars, listVars, statVars
  <2> QED
    BY <2>1, <2>2, <2>3, <2>4 DEF Typed
<1>31. ASSUME Sweep PROVE Typed'
  <2>1. fresh' \in [Color -> Nat]
    BY <1>31, TypeFacts, SMTT(60) DEF Typed, Batches, Points, Sweep, ColPcs, cycleRest
  <2>2. col' \in [pc : ColPcs, alloc : Nat, recl : Nat, todo : SUBSET Mutators]
    BY <1>31, TypeFacts DEF Typed, Batches, Points, Sweep, ColPcs, cycleRest
  <2>3. marked' \in [Color -> [live : Nat, dead : Nat]]
    BY <1>31, TypeFacts DEF Typed, Batches, Points, Sweep, ColPcs, cycleRest
  <2>4. UNCHANGED <<collectorInit, epoch, guard, objs, m, total, statAlloc, hb>>
    BY <1>31 DEF Sweep, ColPcs, cycleRest, startVars, switchVars, listVars, statVars
  <2> QED
    BY <2>1, <2>2, <2>3, <2>4 DEF Typed
<1>32. ASSUME SweepCount PROVE Typed'
  <2>1. total' \in [allocated : Nat, reclaimed : Nat]
    <3>1. total.reclaimed + col.recl \in Nat
      BY TypeFacts, SMTT(60)
    <3> QED
      BY <1>32, <3>1 DEF Typed, SweepCount
  <2>2. col' \in [pc : ColPcs, alloc : Nat, recl : Nat, todo : SUBSET Mutators]
    BY <1>32, TypeFacts DEF Typed, Batches, Points, SweepCount, ColPcs, cycleRest
  <2>3. UNCHANGED <<collectorInit, epoch, guard, objs, fresh, marked, m, statAlloc, hb>>
    BY <1>32 DEF SweepCount, ColPcs, cycleRest, startVars, switchVars, listVars, statVars
  <2> QED
    BY <2>1, <2>2, <2>3 DEF Typed
<1>33. ASSUME EndAllocated PROVE Typed'
  BY <1>33 DEF Typed, EndAllocated, ColPcs, cycleRest, startVars, switchVars, listVars, statVars
<1>34. ASSUME EndReclaimed PROVE Typed'
  BY <1>34 DEF Typed, EndReclaimed, ColPcs, cycleRest, startVars, switchVars, listVars, statVars
<1>35. ASSUME StoreLimit PROVE Typed'
  BY <1>35 DEF Typed, StoreLimit, ColAt, ColPcs, pollRest, startVars, switchVars, listVars, statVars
<1> QED
  BY <1>1, <1>2, <1>3, <1>4, <1>5, <1>6, <1>7, <1>8, <1>9, <1>10, <1>11, <1>12, <1>13, <1>14,
     <1>15, <1>16, <1>17, <1>18, <1>19, <1>20, <1>21, <1>22, <1>23, <1>24, <1>25, <1>26, <1>27,
     <1>28, <1>29, <1>30, <1>31, <1>32, <1>33, <1>34, <1>35
     DEF Next, MutatorStep, Beat, Poll, Cycle

\* Where is_collection_necessary goes on.
LEMMA PollFlow ==
  ASSUME Typed, Poll
  PROVE  col'.pc \in {"poll", "pollRequest", "reset", "read", "readAlloc", "readRecl", "begin"}
<1>1. CASE ColStart \/ PollEnabled \/ PollRequest \/ ResetRequest \/ PollRead \/ ReadAllocated
  BY <1>1 DEF ColStart, PollEnabled, PollRequest, ResetRequest, PollRead, ReadAllocated, ColGoto, Typed
<1>2. CASE Decide
  <2>1. col' = ColAt("begin") \/ col' = ColAt("poll")
    BY <1>2 DEF Decide
  <2> QED
    BY <2>1, SMTT(60) DEF ColAt
<1> QED
  BY <1>1, <1>2 DEF Poll

\* After a cycle the collector polls again.
LEMMA StoreFlow ==
  ASSUME StoreLimit
  PROVE  col'.pc = "poll"
<1>1. col' = ColAt("poll")
  BY DEF StoreLimit
<1> QED
  BY <1>1 DEF ColAt

\* heartbeat() stays exclusive, and the total it loads is not less than the last one.
LEMMA LockedStep == Typed /\ Typed' /\ Locked /\ [Next]_vars => Locked'
<1> SUFFICES ASSUME Typed, Typed', Locked, Next PROVE Locked'
  BY DEF Locked, vars, startVars, statVars
<1>1. /\ total.allocated \in Nat /\ statAlloc \in Nat /\ Coll \in Beaters /\ NoGuard \notin Beaters
      /\ total'.allocated \in Nat /\ \A a \in Beaters : hb[a].alloc \in Nat
  BY TypeFacts, SchedulingAssumption DEF Typed, Beaters
<1>2. ASSUME UNCHANGED <<collectorInit, col, writer, statAlloc, hb>>,
             total'.allocated >= total.allocated
      PROVE  Locked'
  BY <1>1, <1>2, SMTT(60), Z3T(60) DEF Locked, Typed
<1>3. ASSUME UNCHANGED <<collectorInit, writer, statAlloc, hb>>,
             total'.allocated >= total.allocated,
             col.pc \notin {"none", "start", "beat"}, col'.pc \notin {"none", "start"}
      PROVE  Locked'
  BY <1>1, <1>3, SMTT(60) DEF Locked, Typed
<1>4. ASSUME NEW p \in Mutators, MutatorStep(p), ~ TryDeployCollector(p)
      PROVE  Locked'
  <2>1. UNCHANGED <<collectorInit, col, writer, statAlloc, hb>>
    BY <1>4 DEF MutatorStep, Initialize, Pin, Unpin, Alloc, CountFlushed, HelpSweepDead,
                HelpSweepLive, CountReclaimed, mutatorRest, startVars, statVars
  <2>2. CASE CountFlushed(p)
    <3>1. total'.allocated = total.allocated + m[p].bytes
      BY <2>2 DEF CountFlushed, Typed
    <3>2. m[p].bytes \in Nat
      BY TypeFacts
    <3> QED
      BY <1>1, <1>2, <2>1, <3>1, <3>2, SMTT(60)
  <2>3. CASE CountReclaimed(p)
    <3>1. total'.allocated = total.allocated
      BY <2>3 DEF CountReclaimed, Typed
    <3> QED
      BY <1>1, <1>2, <2>1, <3>1, SMTT(60)
  <2>4. CASE ~ CountFlushed(p) /\ ~ CountReclaimed(p)
    <3>1. total' = total
      BY <1>4, <2>4 DEF MutatorStep, Initialize, Pin, Unpin, Alloc, HelpSweepDead, HelpSweepLive
    <3> QED
      BY <1>1, <1>2, <2>1, <3>1, SMTT(60)
  <2> QED
    BY <2>2, <2>3, <2>4
<1>5. ASSUME NEW p \in Mutators, TryDeployCollector(p)
      PROVE  Locked'
  BY <1>1, <1>5 DEF Locked, Typed, TryDeployCollector, ColAt, statVars
<1>6. ASSUME NEW a \in Beaters, BeatLock(a)
      PROVE  Locked'
  <2>1. \A b \in Beaters : hb[b].pc = "rest"
    BY <1>1, <1>6 DEF Locked, BeatLock
  <2>2. /\ hb' = [hb EXCEPT ![a] = [pc |-> "load", alloc |-> 0]]
        /\ writer' = a
        /\ UNCHANGED <<collectorInit, total, statAlloc, col>>
        /\ IF a = Coll THEN col.pc = "beat" ELSE col.pc \notin {"none", "start"}
    BY <1>6 DEF BeatLock, Calls, hbRest, startVars
  <2> QED
    BY <1>1, <2>1, <2>2 DEF Locked, Typed
<1>7. ASSUME NEW a \in Beaters, Beat(a)
      PROVE  Locked'
  <2>1. hb[a].pc # "rest" /\ UNCHANGED <<collectorInit, total>>
    BY <1>7 DEF Beat, BeatTooSoon, BeatLoad, BeatUpdate, hbRest, startVars
  <2>2. writer = a /\ col.pc \notin {"none", "start"} /\ (a = Coll => col.pc = "beat")
    BY <2>1 DEF Locked
  <2>3. \A b \in Beaters : b # a => hb[b].pc = "rest"
    BY <2>2 DEF Locked
  <2>4. CASE BeatLoad(a)
    BY <1>1, <2>1, <2>2, <2>3, <2>4, SMTT(60), Z3T(60) DEF Locked, Typed, BeatLoad
  <2>5. CASE BeatTooSoon(a) \/ BeatUpdate(a)
    <3>1. /\ hb' = [hb EXCEPT ![a] = Resting]
          /\ col' = IF a = Coll THEN [col EXCEPT !.pc = "store"] ELSE col
          /\ statAlloc' = statAlloc \/ (hb[a].pc = "update" /\ statAlloc' = hb[a].alloc)
      BY <2>5 DEF BeatTooSoon, BeatUpdate, BeatReturn
    <3>2. \A b \in Beaters : hb'[b].pc = "rest"
      BY <2>3, <3>1 DEF Typed, Resting
    <3>3. statAlloc' <= total.allocated
      BY <1>1, <3>1 DEF Locked
    <3>4. col'.pc \notin {"none", "start"}
      BY <2>2, <3>1 DEF Typed
    <3>5. collectorInit
      BY <2>2 DEF Locked
    <3> QED
      BY <1>1, <2>1, <3>2, <3>3, <3>4, <3>5 DEF Locked
  <2> QED
    BY <1>7, <2>4, <2>5 DEF Beat
<1>8. ASSUME Poll
      PROVE  Locked'
  <2>1. CASE ColStart
    <3>1. /\ \A a \in Beaters : hb'[a].pc = "rest"
          /\ col'.pc = "poll" /\ statAlloc' = total.allocated /\ UNCHANGED <<collectorInit, total>>
      BY <2>1 DEF Locked, Typed, ColStart, ColGoto, startVars
    <3>2. collectorInit
      BY <2>1 DEF Locked, ColStart
    <3> QED
      BY <1>1, <3>1, <3>2, SMTT(60) DEF Locked
  <2>2. CASE ~ ColStart
    <3>1. UNCHANGED <<collectorInit, writer, statAlloc, hb, total>>
      BY <1>8, <2>2 DEF Poll, PollEnabled, PollRequest, ResetRequest, PollRead, ReadAllocated,
                        Decide, pollRest, startVars
    <3>2. col.pc \in {"poll", "pollRequest", "reset", "read", "readAlloc", "readRecl"}
      BY <1>8, <2>2 DEF Poll, PollEnabled, PollRequest, ResetRequest, PollRead, ReadAllocated, Decide
    <3>3. col'.pc \notin {"none", "start"}
      BY <1>8, PollFlow
    <3> QED
      BY <1>1, <1>3, <3>1, <3>2, <3>3, SMTT(60), Z3T(60)
  <2> QED
    BY <2>1, <2>2
<1>9. ASSUME Cycle
      PROVE  Locked'
  <2>1. UNCHANGED <<collectorInit, writer, statAlloc, hb>>
    BY <1>9 DEF Cycle, BeginCycle, EndWait, TakePending, CountPending, Scan, BeginCompletion,
                Refuted, BeginNormal, Sweep, SweepCount, EndAllocated, EndReclaimed, StoreLimit,
                Publish, cycleRest, pollRest, startVars, statVars
  <2>2. col.pc \notin {"none", "start", "beat"}
    BY <1>9 DEF Cycle, BeginCycle, EndWait, TakePending, CountPending, Scan, BeginCompletion,
                Refuted, BeginNormal, Sweep, SweepCount, EndAllocated, EndReclaimed, StoreLimit
  <2>3. col'.pc \notin {"none", "start"}
    <3>1. CASE BeginCycle \/ BeginCompletion \/ BeginNormal \/ Scan \/ Refuted
      BY <3>1 DEF BeginCycle, BeginCompletion, BeginNormal, Scan, Refuted, Publish, ColGoto, Typed
    <3>2. CASE EndWait \/ TakePending
      BY <3>2 DEF EndWait, TakePending, Typed
    <3>3. CASE CountPending \/ Sweep \/ SweepCount
      BY <3>3 DEF CountPending, Sweep, SweepCount, Typed
    <3>4. CASE EndAllocated \/ EndReclaimed \/ StoreLimit
      BY <3>4, StoreFlow DEF EndAllocated, EndReclaimed, Typed
    <3> QED
      BY <1>9, <3>1, <3>2, <3>3, <3>4 DEF Cycle
  <2>4. total'.allocated >= total.allocated
    <3>1. CASE CountPending
      <4>1. total'.allocated = total.allocated + col.alloc
        BY <3>1 DEF CountPending, Typed
      <4>2. col.alloc \in Nat
        BY TypeFacts
      <4> QED
        BY <1>1, <4>1, <4>2, SMTT(60)
    <3>2. CASE SweepCount
      BY <1>1, <3>2, SMTT(60) DEF SweepCount, Typed
    <3>3. CASE ~ CountPending /\ ~ SweepCount
      <4>1. total' = total
        BY <1>9, <3>3 DEF Cycle, BeginCycle, EndWait, TakePending, Scan, BeginCompletion,
             Refuted, BeginNormal, Sweep, EndAllocated, EndReclaimed, StoreLimit, Publish, pollRest
      <4> QED
        BY <1>1, <4>1, SMTT(60)
    <3> QED
      BY <3>1, <3>2, <3>3
  <2> QED
    BY <1>3, <2>1, <2>2, <2>3, <2>4
<1>10. ASSUME (\E set \in BOOLEAN : EnableCollection(set)) \/ RequestCollection
       PROVE  Locked'
  <2>1. UNCHANGED <<collectorInit, col, writer, statAlloc, hb, total>>
    BY <1>10 DEF EnableCollection, RequestCollection, startVars, statVars
  <2> QED
    BY <1>1, <1>2, <2>1, SMTT(60)
<1> QED
  BY <1>4, <1>5, <1>6, <1>7, <1>8, <1>9, <1>10 DEF Next

\* What push_fresh_obj changes of a thread that is not counting.
LEMMA PushTerms ==
  ASSUME Typed, Guarded, NEW p \in Mutators, guard[p] # NoGuard, m[p].pc = "idle",
         UNCHANGED guard, NEW new \in {0, 1}, PushFreshObj(p, new)
  PROVE  /\ \A q \in Mutators : q # p => m'[q] = m[q] /\ objs'[q] = objs[q]
         /\ m'[p].pc # "reclaimed"
         /\ m'[p].pc = "flushed" => objs'[p][AllocColor(p)] = [boxes |-> 0, bytes |-> 0]
         /\ \A c \in Color : objs'[p][c].bytes <= objs'[p][c].boxes
         /\ Uncounted(p)' = Uncounted(p) + new
         /\ Boxes(p)' + fresh'[0] + fresh'[1] = Boxes(p) + fresh[0] + fresh[1] + 1
         /\ Dropped(p)' = Dropped(p)
         /\ \A c \in Color : InBatch(p, c)' - InBatch(p, c) <= fresh'[c] - fresh[c]
<1> DEFINE k == AllocColor(p)
<1>1. k \in {0, 1} /\ AllocColor(p)' = k
  BY TypeFacts DEF Color, AllocColor
<1>2. \A c \in {0, 1} : /\ objs[p][c].boxes \in Nat /\ objs[p][c].bytes \in Nat /\ fresh[c] \in Nat
                        /\ objs[p][c].bytes <= objs[p][c].boxes
  BY TypeFacts DEF Color, Guarded
<1>3. CASE objs[p][k].boxes < BatchSize
  <2>1. /\ objs' = [objs EXCEPT ![p][k] = [boxes |-> objs[p][k].boxes + 1, bytes |-> objs[p][k].bytes + new]]
        /\ fresh' = fresh /\ m' = m
    BY <1>3 DEF PushFreshObj
  <2> HIDE DEF k
  <2>2. /\ objs'[p][k] = [boxes |-> objs[p][k].boxes + 1, bytes |-> objs[p][k].bytes + new]
        /\ objs'[p][1 - k] = objs[p][1 - k]
        /\ \A q \in Mutators : q # p => objs'[q] = objs[q]
    BY <1>1, <2>1, SMTT(60), Z3T(60) DEF Typed, Color
  <2>3. \A c \in Color : objs'[p][c].bytes <= objs'[p][c].boxes
    BY <1>1, <1>2, <2>2, SMTT(60), Z3T(60) DEF Color
  <2>4. Uncounted(p)' = Uncounted(p) + new
    BY <1>1, <1>2, <2>1, <2>2, SMTT(60), Z3T(60) DEF Uncounted, Flushed, Dropped
  <2>5. Boxes(p)' = Boxes(p) + 1 /\ Boxes(p) \in Int
    BY <1>1, <1>2, <2>1, <2>2, SMTT(60) DEF Boxes
  <2>6. Dropped(p)' = Dropped(p)
    BY <2>1 DEF Dropped
  <2>7. \A c \in Color : InBatch(p, c)' - InBatch(p, c) <= fresh'[c] - fresh[c]
    BY <1>2, <2>1, SMTT(60), Z3T(60) DEF InBatch, Color
  <2> QED
    BY <1>2, <2>1, <2>2, <2>3, <2>4, <2>5, <2>6, <2>7, SMTT(60), Z3T(60)
<1>4. CASE ~ (objs[p][k].boxes < BatchSize)
  <2>1. /\ fresh' = [fresh EXCEPT ![k] = fresh[k] + objs[p][k].boxes]
        /\ m' = [m EXCEPT ![p] = [pc |-> "flushed", bytes |-> objs[p][k].bytes, new |-> new]]
        /\ objs' = [objs EXCEPT ![p][k] = [boxes |-> 0, bytes |-> 0]]
    BY <1>4 DEF PushFreshObj
  <2> HIDE DEF k
  <2>2. /\ objs'[p][k] = [boxes |-> 0, bytes |-> 0]
        /\ objs'[p][1 - k] = objs[p][1 - k]
        /\ m'[p] = [pc |-> "flushed", bytes |-> objs[p][k].bytes, new |-> new]
        /\ \A q \in Mutators : q # p => objs'[q] = objs[q] /\ m'[q] = m[q]
        /\ fresh'[k] = fresh[k] + objs[p][k].boxes /\ fresh'[1 - k] = fresh[1 - k]
    BY <1>1, <2>1, SMTT(60), Z3T(60) DEF Typed, Color
  <2>3. \A c \in Color : objs'[p][c].bytes <= objs'[p][c].boxes
    BY <1>1, <1>2, <2>2, SMTT(60), Z3T(60) DEF Color
  <2>4. Uncounted(p)' = Uncounted(p) + new
    BY <1>1, <1>2, <2>2, SMTT(60), Z3T(60) DEF Uncounted, Flushed, Dropped
  <2>5. Boxes(p)' + fresh'[0] + fresh'[1] = Boxes(p) + fresh[0] + fresh[1] + 1
    <3>1. CASE k = 0
      BY <1>2, <2>2, <3>1, SMTT(60), Z3T(60) DEF Boxes
    <3>2. CASE k = 1
      BY <1>2, <2>2, <3>2, SMTT(60), Z3T(60) DEF Boxes
    <3> QED
      BY <1>1, <3>1, <3>2
  <2>6. Dropped(p)' = Dropped(p)
    BY <2>2, SMTT(60), Z3T(60) DEF Dropped
  <2>7. \A c \in Color : InBatch(p, c)' - InBatch(p, c) <= fresh'[c] - fresh[c]
    BY <1>1, <1>2, <2>2, SMTT(60) DEF InBatch, Color, k
  <2>8. objs'[p][AllocColor(p)] = [boxes |-> 0, bytes |-> 0]
    BY <2>2 DEF k
  <2> QED
    BY <2>2, <2>3, <2>4, <2>5, <2>6, <2>7, <2>8, SMTT(60), Z3T(60)
<1> QED
  BY <1>3, <1>4

\* Every step keeps what is known of the guards and of the batches.
LEMMA GuardedStep == Typed /\ Guarded /\ [Next]_vars => Guarded'
<1> SUFFICES ASSUME Typed, Guarded, Next PROVE Guarded'
  BY DEF Guarded, AllocColor, vars, listVars
<1>0. NoGuard \notin Guards
  BY SchedulingAssumption
<1>1. ASSUME UNCHANGED <<m, guard, objs, epoch>>
      PROVE  Guarded'
  BY <1>1 DEF Guarded, AllocColor
<1>2. ASSUME NEW p \in Mutators, Pin(p)
      PROVE  Guarded'
  <2>1. /\ guard' = [guard EXCEPT ![p] = [epoch |-> epoch, old |-> FALSE]] /\ guard[p] = NoGuard
        /\ UNCHANGED <<m, objs, epoch>>
    BY <1>2 DEF Pin, mutatorRest, listVars
  <2>2. [epoch |-> epoch, old |-> FALSE] # NoGuard
    <3>1. [epoch |-> epoch, old |-> FALSE] \in Guards
      BY DEF Typed, Guards
    <3> QED
      BY <1>0, <3>1
  <2>3. m[p].pc = "idle"
    BY <2>1 DEF Guarded
  <2> QED
    BY <2>1, <2>2, <2>3 DEF Guarded, AllocColor, Typed
<1>3. ASSUME NEW p \in Mutators, Unpin(p)
      PROVE  Guarded'
  <2>1. /\ guard' = [guard EXCEPT ![p] = NoGuard] /\ m[p].pc = "idle"
        /\ UNCHANGED <<m, objs, epoch>>
    BY <1>3 DEF Unpin, mutatorRest, listVars
  <2> QED
    BY <2>1 DEF Guarded, AllocColor, Typed
<1>4. ASSUME NEW p \in Mutators, Alloc(p) \/ HelpSweepLive(p)
      PROVE  Guarded'
  <2>1. PICK new \in {0, 1} : guard[p] # NoGuard /\ m[p].pc = "idle" /\ PushFreshObj(p, new)
    BY <1>4 DEF Alloc, HelpSweepLive, Free
  <2>2. UNCHANGED <<guard, epoch>>
    BY <1>4 DEF Alloc, HelpSweepLive, mutatorRest
  <2>3. /\ \A q \in Mutators : q # p => m'[q] = m[q] /\ objs'[q] = objs[q]
        /\ m'[p].pc = "flushed" => objs'[p][AllocColor(p)] = [boxes |-> 0, bytes |-> 0]
        /\ \A c \in Color : objs'[p][c].bytes <= objs'[p][c].boxes
    BY <2>1, <2>2, PushTerms
  <2> QED
    BY <2>1, <2>2, <2>3 DEF Guarded, AllocColor
<1>5. ASSUME NEW p \in Mutators, CountFlushed(p)
      PROVE  Guarded'
  <2>1. /\ objs' = [objs EXCEPT ![p][AllocColor(p)] = [boxes |-> 1, bytes |-> m[p].new]]
        /\ m' = [m EXCEPT ![p] = Idle]
        /\ UNCHANGED <<guard, epoch>> /\ m[p].pc = "flushed"
    BY <1>5 DEF CountFlushed, mutatorRest
  <2>2. AllocColor(p) \in Color /\ m[p].new \in {0, 1}
    BY <2>1, TypeFacts DEF Guarded
  <2>3. \A q \in Mutators : q # p => objs'[q] = objs[q] /\ m'[q] = m[q]
    BY <2>1 DEF Typed
  <2>4. m'[p].pc = "idle"
    BY <2>1 DEF Typed, Idle
  <2>5. \A c \in Color : objs'[p][c].bytes <= objs'[p][c].boxes
    <3> DEFINE k == AllocColor(p)
    <3>1. \A c \in Color : objs[p][c].bytes <= objs[p][c].boxes
      BY DEF Guarded
    <3>2. objs' = [objs EXCEPT ![p][k] = [boxes |-> 1, bytes |-> m[p].new]] /\ k \in Color
      BY <2>1, <2>2
    <3> HIDE DEF k
    <3> QED
      BY <2>2, <3>1, <3>2, SMTT(60) DEF Typed
  <2> QED
    BY <2>1, <2>3, <2>4, <2>5, SMTT(60), Z3T(60) DEF Guarded, AllocColor
<1>6. ASSUME NEW p \in Mutators, HelpSweepDead(p) \/ CountReclaimed(p)
      PROVE  Guarded'
  <2>1. /\ guard[p] # NoGuard
        /\ UNCHANGED <<guard, epoch, objs>>
        /\ \A q \in Mutators : q # p => m'[q] = m[q]
        /\ m'[p].pc # "flushed"
    BY <1>6, SMTT(60) DEF HelpSweepDead, CountReclaimed, Free, mutatorRest, listVars, Guarded, Typed, Idle
  <2> QED
    BY <2>1 DEF Guarded, AllocColor
<1>7. ASSUME BeginCycle \/ BeginCompletion \/ BeginNormal
      PROVE  Guarded'
  <2>1. /\ UNCHANGED <<m, objs>>
        /\ guard' = [p \in Mutators |-> IF guard[p] = NoGuard THEN NoGuard
                                        ELSE [guard[p] EXCEPT !.old = TRUE]]
    BY <1>7 DEF BeginCycle, BeginCompletion, BeginNormal, Publish, listVars
  <2>2. ASSUME NEW p \in Mutators, guard[p] # NoGuard
        PROVE  guard'[p] # NoGuard /\ guard'[p].old /\ guard'[p].epoch = guard[p].epoch
    <3>1. guard[p] \in Guards
      BY <2>2, TypeFacts
    <3>2. guard'[p] = [guard[p] EXCEPT !.old = TRUE]
      BY <2>1, <2>2
    <3>3. guard'[p] \in Guards /\ guard'[p].old /\ guard'[p].epoch = guard[p].epoch
      BY <3>1, <3>2 DEF Guards
    <3> QED
      BY <1>0, <3>3
  <2>3. ASSUME NEW p \in Mutators, guard[p] = NoGuard
        PROVE  guard'[p] = NoGuard
    BY <2>1, <2>3
  <2>4. \A p \in Mutators : m[p].pc = "flushed" => AllocColor(p)' = AllocColor(p)
    BY <2>2 DEF Guarded, AllocColor
  <2> QED
    BY <2>1, <2>2, <2>3, <2>4, SMTT(60), Z3T(60) DEF Guarded
<1>8. ASSUME TakePending
      PROVE  Guarded'
  <2>1. PICK p \in Mutators : objs' = [objs EXCEPT ![p][epoch.white] = [boxes |-> 0, bytes |-> 0]]
    BY <1>8, TypeFacts DEF TakePending
  <2>2. UNCHANGED <<m, guard, epoch>> /\ epoch.white \in Color
    BY <1>8, TypeFacts DEF TakePending
  <2>3. \A q \in Mutators, c \in Color :
          objs'[q][c] = objs[q][c] \/ objs'[q][c] = [boxes |-> 0, bytes |-> 0]
    <3> DEFINE w == epoch.white
    <3>1. objs' = [objs EXCEPT ![p][w] = [boxes |-> 0, bytes |-> 0]] /\ w \in Color
      BY <2>1, <2>2
    <3> HIDE DEF w
    <3> QED
      BY <3>1 DEF Typed
  <2>4. \A q \in Mutators : m[q].pc = "flushed" => AllocColor(q) \in Color /\ AllocColor(q)' = AllocColor(q)
    BY <2>2, TypeFacts DEF Guarded, AllocColor
  <2> QED
    BY <2>2, <2>3, <2>4, SMTT(60) DEF Guarded
<1>9. ASSUME \/ \E set \in BOOLEAN : EnableCollection(set)
             \/ RequestCollection
             \/ \E p \in Mutators : Initialize(p) \/ TryDeployCollector(p)
             \/ \E a \in Beaters : BeatLock(a) \/ Beat(a)
             \/ Poll
      PROVE  UNCHANGED <<m, guard, objs, epoch>>
  BY <1>9 DEF EnableCollection, RequestCollection, Initialize, TryDeployCollector, BeatLock, Beat,
       BeatTooSoon, BeatLoad, BeatUpdate, hbRest, Poll, ColStart, PollEnabled, PollRequest,
       ResetRequest, PollRead, ReadAllocated, Decide, pollRest, listVars
<1>10. ASSUME EndWait \/ CountPending \/ Scan \/ Refuted \/ Sweep \/ SweepCount
              \/ EndAllocated \/ EndReclaimed \/ StoreLimit
       PROVE  UNCHANGED <<m, guard, objs, epoch>>
  BY <1>10 DEF EndWait, CountPending, Scan, Refuted, Sweep, SweepCount, EndAllocated,
       EndReclaimed, StoreLimit, pollRest, listVars
<1> QED
  BY <1>1, <1>2, <1>3, <1>4, <1>5, <1>6, <1>7, <1>8, <1>9, <1>10 DEF Next, MutatorStep, Cycle

\* Every step keeps what the waits of the collector establish.
LEMMA WaitsStep == Typed /\ Guarded /\ Waits /\ [Next]_vars => Waits'
<1> SUFFICES ASSUME Typed, Guarded, Waits, Next PROVE Waits'
  BY DEF Waits, Waited, vars, listVars
<1>0. NoGuard \notin Guards /\ 1 - epoch.white \in Color
  BY SchedulingAssumption, TypeFacts
<1>1. ASSUME UNCHANGED <<col, epoch>>, Waited => Waited',
             marked[1 - epoch.white].dead = 0 => marked'[1 - epoch.white].dead = 0
      PROVE  Waits'
  BY <1>1 DEF Waits
<1>2. ASSUME col'.pc \notin {"rtWait", "pending", "countPending", "scan", "sweepCount", "nWait",
                             "endAlloc", "endRecl"}
      PROVE  Waits'
  BY <1>2 DEF Waits
<1>3. ASSUME NEW p \in Mutators, Pin(p) \/ Unpin(p)
      PROVE  Waits'
  <2>1. /\ UNCHANGED <<col, epoch, marked>>
        /\ \A q \in Mutators : q # p => guard'[q] = guard[q]
        /\ guard'[p] = NoGuard \/ ~ guard'[p].old
    BY <1>3, SMTT(60) DEF Pin, Unpin, mutatorRest, listVars, Typed
  <2>2. Waited => Waited'
    BY <2>1 DEF Waited
  <2> QED
    BY <1>1, <2>1, <2>2
<1>4. ASSUME NEW p \in Mutators, HelpSweepDead(p) \/ HelpSweepLive(p)
      PROVE  Waits'
  <2>1. UNCHANGED <<col, epoch, guard>>
    BY <1>4 DEF HelpSweepDead, HelpSweepLive, mutatorRest
  <2>2. PICK c \in Color : \/ marked[c].dead > 0 /\ marked' = [marked EXCEPT ![c].dead = @ - 1]
                           \/ marked' = [marked EXCEPT ![c].live = @ - 1]
    BY <1>4, TypeFacts DEF HelpSweepDead, HelpSweepLive, Free
  <2>3. \A d \in Color : marked[d].dead = 0 => marked'[d].dead = 0
    BY <2>2, SMTT(60), Z3T(60) DEF Typed
  <2> QED
    BY <1>0, <1>1, <2>1, <2>3 DEF Waited
<1>5. ASSUME \/ \E set \in BOOLEAN : EnableCollection(set)
             \/ RequestCollection
             \/ \E p \in Mutators : Initialize(p) \/ Alloc(p) \/ CountFlushed(p) \/ CountReclaimed(p)
             \/ \E a \in Beaters : BeatLock(a) \/ BeatLoad(a)
      PROVE  UNCHANGED <<col, epoch, guard, marked>>
  BY <1>5 DEF EnableCollection, RequestCollection, Initialize, Alloc, CountFlushed, CountReclaimed,
              BeatLock, BeatLoad, hbRest, mutatorRest, listVars
<1>6. ASSUME NEW p \in Mutators, TryDeployCollector(p)
      PROVE  Waits'
  <2>1. UNCHANGED <<epoch, guard, marked>> /\ (col' = col \/ col' = ColAt("start"))
    BY <1>6 DEF TryDeployCollector, listVars
  <2> QED
    BY <1>1, <1>2, <2>1, SMTT(60) DEF Waited, ColAt
<1>7. ASSUME NEW a \in Beaters, BeatTooSoon(a) \/ BeatUpdate(a)
      PROVE  Waits'
  <2>1. UNCHANGED <<epoch, guard, marked>> /\ (col' = col \/ col' = [col EXCEPT !.pc = "store"])
    BY <1>7 DEF BeatTooSoon, BeatUpdate, BeatReturn, hbRest, listVars
  <2>2. CASE col' = col
    BY <1>1, <2>1, <2>2 DEF Waited
  <2>3. CASE col' = [col EXCEPT !.pc = "store"]
    BY <1>2, <2>3 DEF Typed
  <2> QED
    BY <2>1, <2>2, <2>3
<1>8. ASSUME Poll
      PROVE  Waits'
  BY <1>2, <1>8, PollFlow
<1>9. ASSUME BeginCycle
      PROVE  Waits'
  BY <1>9 DEF Waits, BeginCycle, Publish, ColGoto, Typed
<1>10. ASSUME EndWait
       PROVE  Waits'
  <2>1. UNCHANGED <<epoch, guard, marked>> /\ Waited'
    BY <1>10 DEF EndWait, Waited, listVars
  <2>2. CASE col.pc = "rtWait"
    <3>1. col'.pc = "pending" /\ epoch.phase = "RT"
      BY <1>10, <2>2 DEF EndWait, Waits, Typed
    <3> QED
      BY <2>1, <3>1 DEF Waits
  <2>3. CASE col.pc = "ctWait"
    <3>1. col'.pc = "confirm"
      BY <1>10, <2>3 DEF EndWait, Typed
    <3> QED
      BY <1>2, <3>1
  <2>4. CASE col.pc = "nWait"
    <3>1. col'.pc = "endAlloc" /\ marked[1 - epoch.white].dead = 0
      BY <1>10, <2>4 DEF EndWait, Waits, Typed
    <3> QED
      BY <2>1, <3>1 DEF Waits
  <2> QED
    BY <1>10, <2>2, <2>3, <2>4 DEF EndWait
<1>11. ASSUME TakePending \/ CountPending
       PROVE  Waits'
  <2>1. /\ UNCHANGED <<epoch, guard>> /\ col.pc \in {"pending", "countPending"}
        /\ col'.pc \in {"pending", "countPending", "scan"}
    BY <1>11 DEF TakePending, CountPending, Typed
  <2> QED
    BY <2>1 DEF Waits, Waited
<1>12. ASSUME Sweep
       PROVE  Waits'
  <2>1. /\ UNCHANGED epoch /\ col'.pc = "sweepCount"
        /\ marked' = [marked EXCEPT ![1 - epoch.white] = [live |-> 0, dead |-> 0]]
    BY <1>12 DEF Sweep, Typed
  <2>2. marked'[1 - epoch.white].dead = 0
    BY <1>0, <2>1 DEF Typed
  <2> QED
    BY <2>1, <2>2 DEF Waits
<1>13. ASSUME SweepCount \/ EndAllocated
       PROVE  Waits'
  <2>1. /\ UNCHANGED <<epoch, guard, marked>>
        /\ \/ col.pc = "sweepCount" /\ col'.pc = "nWait"
           \/ col.pc = "endAlloc" /\ col'.pc = "endRecl"
    BY <1>13 DEF SweepCount, EndAllocated, listVars, Typed
  <2> QED
    BY <2>1 DEF Waits, Waited
<1>14. ASSUME Scan \/ BeginCompletion \/ Refuted \/ BeginNormal \/ EndReclaimed \/ StoreLimit
       PROVE  Waits'
  <2>1. CASE Scan \/ BeginCompletion \/ Refuted \/ BeginNormal \/ EndReclaimed
    <3>1. col'.pc \in {"trace", "ctWait", "sweep", "beat"}
      BY <2>1 DEF Scan, BeginCompletion, Refuted, BeginNormal, EndReclaimed, Publish, ColGoto, Typed
    <3> QED
      BY <1>2, <3>1
  <2>2. CASE StoreLimit
    BY <1>2, <2>2, StoreFlow
  <2> QED
    BY <1>14, <2>1, <2>2
<1>15. ASSUME UNCHANGED <<col, epoch, guard, marked>>
       PROVE  Waits'
  BY <1>1, <1>15 DEF Waited
<1> QED
  BY <1>3, <1>4, <1>5, <1>6, <1>7, <1>8, <1>9, <1>10, <1>11, <1>12, <1>13, <1>14, <1>15
  DEF Next, MutatorStep, Cycle, Beat

-----------------------------------------------------------------------------
(* The counts.                                                              *)

\* The terms of the sums are numbers, and so are the sums.
LEMMA SumTypes ==
  ASSUME Typed
  PROVE  /\ [p \in Mutators |-> Uncounted(p)] \in [Mutators -> Int] /\ SumUncounted \in Int
         /\ [p \in Mutators |-> Boxes(p)] \in [Mutators -> Int] /\ SumBoxes \in Int
         /\ [p \in Mutators |-> Dropped(p)] \in [Mutators -> Int] /\ SumDropped \in Nat
         /\ \A c \in Color : /\ [p \in Mutators |-> InBatch(p, c)] \in [Mutators -> Int]
                             /\ SumInBatch(c) \in Nat
<1>0. IsFiniteSet(Mutators)
  BY SchedulingAssumption
<1>1. \A p \in Mutators : /\ m[p].bytes \in Nat /\ m[p].new \in {0, 1}
                          /\ objs[p][0].boxes \in Nat /\ objs[p][0].bytes \in Nat
                          /\ objs[p][1].boxes \in Nat /\ objs[p][1].bytes \in Nat
  BY TypeFacts DEF Color
<1>2. \A p \in Mutators : Dropped(p) \in Nat /\ Boxes(p) \in Int
  BY <1>1, SMTT(60) DEF Dropped, Boxes
<1>3. \A p \in Mutators : Uncounted(p) \in Int
  BY <1>1, SMTT(60) DEF Dropped, Uncounted, Flushed
<1>4. \A p \in Mutators, c \in Color : InBatch(p, c) \in Nat
  BY <1>1 DEF InBatch
<1>5. [p \in Mutators |-> Uncounted(p)] \in [Mutators -> Int]
  BY <1>3
<1>6. [p \in Mutators |-> Boxes(p)] \in [Mutators -> Int]
  BY <1>2
<1>7. [p \in Mutators |-> Dropped(p)] \in [Mutators -> Nat] /\ [p \in Mutators |-> Dropped(p)] \in [Mutators -> Int]
  BY <1>2, SMTT(60)
<1>8. ASSUME NEW c \in Color
      PROVE  /\ [p \in Mutators |-> InBatch(p, c)] \in [Mutators -> Int]
             /\ SumInBatch(c) \in Nat
  <2> DEFINE f == [p \in Mutators |-> InBatch(p, c)]
  <2>1. f \in [Mutators -> Nat] /\ f \in [Mutators -> Int]
    BY <1>4, SMTT(60)
  <2> HIDE DEF f
  <2>2. SumFunction(f) \in Nat
    BY <1>0, <2>1, SumNat
  <2> QED
    BY <2>1, <2>2 DEF f, SumInBatch
<1>9. SumUncounted \in Int /\ SumBoxes \in Int
  BY <1>0, <1>5, <1>6, SumInt DEF SumUncounted, SumBoxes
<1>10. SumDropped \in Nat
  BY <1>0, <1>7, SumNat DEF SumDropped
<1> QED
  BY <1>5, <1>6, <1>7, <1>8, <1>9, <1>10

\* The terms of the sums are numbers.
Numbers ==
  \A p \in Mutators : /\ Uncounted(p) \in Int /\ Boxes(p) \in Int /\ Dropped(p) \in Int
                      /\ \A c \in Color : InBatch(p, c) \in Int

\* They are in every state that has the types.
LEMMA TermTypes == Typed => Numbers
<1> SUFFICES ASSUME Typed, NEW p \in Mutators
             PROVE  /\ Uncounted(p) \in Int /\ Boxes(p) \in Int /\ Dropped(p) \in Int
                    /\ \A c \in Color : InBatch(p, c) \in Int
  BY DEF Numbers
<1>1. /\ m[p].bytes \in Nat /\ m[p].new \in {0, 1}
      /\ objs[p][0].boxes \in Nat /\ objs[p][0].bytes \in Nat
      /\ objs[p][1].boxes \in Nat /\ objs[p][1].bytes \in Nat
  BY TypeFacts DEF Color
<1>2. Dropped(p) \in Int /\ Boxes(p) \in Int
  BY <1>1, SMTT(60), Z3T(60) DEF Dropped, Boxes
<1>3. Uncounted(p) \in Int
  BY <1>1, SMTT(60) DEF Dropped, Uncounted, Flushed
<1>4. \A c \in Color : InBatch(p, c) \in Int
  BY <1>1, SMTT(60) DEF InBatch
<1> QED
  BY <1>2, <1>3, <1>4

\* A sum changes by what its term for one thread does.
LEMMA SumsAt ==
  ASSUME Typed, Typed', NEW p \in Mutators, UNCHANGED guard,
         \A q \in Mutators : q # p => m'[q] = m[q] /\ objs'[q] = objs[q]
  PROVE  /\ SumUncounted' = SumUncounted + Uncounted(p)' - Uncounted(p)
         /\ SumBoxes' = SumBoxes + Boxes(p)' - Boxes(p)
         /\ SumDropped' = SumDropped + Dropped(p)' - Dropped(p)
         /\ \A c \in Color : SumInBatch(c)' = SumInBatch(c) + InBatch(p, c)' - InBatch(p, c)
<1>0. IsFiniteSet(Mutators)
  BY SchedulingAssumption
<1>5. Numbers /\ Numbers'
  BY TermTypes, PTL
<1>1. SumUncounted' = SumUncounted + Uncounted(p)' - Uncounted(p)
  <2> DEFINE f == [q \in Mutators |-> Uncounted(q)]
             h == [q \in Mutators |-> Uncounted(q)']
  <2>1. f \in [Mutators -> Int] /\ h \in [Mutators -> Int]
    BY <1>5 DEF Numbers
  <2>2. \A q \in Mutators : q # p => h[q] = f[q]
    BY DEF Uncounted, Flushed, Dropped
  <2>3. h[p] = Uncounted(p)' /\ f[p] = Uncounted(p)
    OBVIOUS
  <2>4. SumUncounted' = SumFunction(h) /\ SumUncounted = SumFunction(f)
    BY DEF SumUncounted
  <2> HIDE DEF f, h
  <2>5. SumFunction(h) = SumFunction(f) + h[p] - f[p]
    BY <1>0, <2>1, <2>2, SumStep, SMTT(60)
  <2> QED
    BY <2>3, <2>4, <2>5
<1>2. SumBoxes' = SumBoxes + Boxes(p)' - Boxes(p)
  <2> DEFINE f == [q \in Mutators |-> Boxes(q)]
             h == [q \in Mutators |-> Boxes(q)']
  <2>1. f \in [Mutators -> Int] /\ h \in [Mutators -> Int]
    BY <1>5 DEF Numbers
  <2>2. \A q \in Mutators : q # p => h[q] = f[q]
    BY DEF Boxes
  <2>3. h[p] = Boxes(p)' /\ f[p] = Boxes(p)
    OBVIOUS
  <2>4. SumBoxes' = SumFunction(h) /\ SumBoxes = SumFunction(f)
    BY DEF SumBoxes
  <2> HIDE DEF f, h
  <2>5. SumFunction(h) = SumFunction(f) + h[p] - f[p]
    BY <1>0, <2>1, <2>2, SumStep, SMTT(60)
  <2> QED
    BY <2>3, <2>4, <2>5
<1>3. SumDropped' = SumDropped + Dropped(p)' - Dropped(p)
  <2> DEFINE f == [q \in Mutators |-> Dropped(q)]
             h == [q \in Mutators |-> Dropped(q)']
  <2>1. f \in [Mutators -> Int] /\ h \in [Mutators -> Int]
    BY <1>5 DEF Numbers
  <2>2. \A q \in Mutators : q # p => h[q] = f[q]
    BY DEF Dropped
  <2>3. h[p] = Dropped(p)' /\ f[p] = Dropped(p)
    OBVIOUS
  <2>4. SumDropped' = SumFunction(h) /\ SumDropped = SumFunction(f)
    BY DEF SumDropped
  <2> HIDE DEF f, h
  <2>5. SumFunction(h) = SumFunction(f) + h[p] - f[p]
    BY <1>0, <2>1, <2>2, SumStep, SMTT(60)
  <2> QED
    BY <2>3, <2>4, <2>5
<1>4. ASSUME NEW c \in Color
      PROVE  SumInBatch(c)' = SumInBatch(c) + InBatch(p, c)' - InBatch(p, c)
  <2> DEFINE f == [q \in Mutators |-> InBatch(q, c)]
             h == [q \in Mutators |-> InBatch(q, c)']
  <2>1. f \in [Mutators -> Int] /\ h \in [Mutators -> Int]
    BY <1>5 DEF Numbers
  <2>2. \A q \in Mutators : q # p => h[q] = f[q]
    BY DEF InBatch, AllocColor
  <2>3. h[p] = InBatch(p, c)' /\ f[p] = InBatch(p, c)
    OBVIOUS
  <2>4. SumInBatch(c)' = SumFunction(h) /\ SumInBatch(c) = SumFunction(f)
    BY DEF SumInBatch
  <2> HIDE DEF f, h
  <2>5. SumFunction(h) = SumFunction(f) + h[p] - f[p]
    BY <1>0, <2>1, <2>2, SumStep, SMTT(60)
  <2> QED
    BY <2>3, <2>4, <2>5
<1> QED
  BY <1>1, <1>2, <1>3, <1>4

\* A step that leaves what the threads have to count leaves the sums.
LEMMA SumsSame ==
  ASSUME UNCHANGED <<m, objs>>,
         \A p \in Mutators : m[p].pc = "flushed" => AllocColor(p)' = AllocColor(p)
  PROVE  /\ SumUncounted' = SumUncounted /\ SumBoxes' = SumBoxes /\ SumDropped' = SumDropped
         /\ \A c \in Color : SumInBatch(c)' = SumInBatch(c)
<1>1. \A p \in Mutators : /\ Uncounted(p)' = Uncounted(p) /\ Boxes(p)' = Boxes(p)
                          /\ Dropped(p)' = Dropped(p)
  BY DEF Uncounted, Boxes, Dropped, Flushed
<1>2. \A p \in Mutators, c \in Color : InBatch(p, c)' = InBatch(p, c)
  BY DEF InBatch
<1>3. [p \in Mutators |-> Uncounted(p)'] = [p \in Mutators |-> Uncounted(p)]
  BY <1>1
<1>4. [p \in Mutators |-> Boxes(p)'] = [p \in Mutators |-> Boxes(p)]
  BY <1>1
<1>5. [p \in Mutators |-> Dropped(p)'] = [p \in Mutators |-> Dropped(p)]
  BY <1>1
<1>6. ASSUME NEW c \in Color
      PROVE  [p \in Mutators |-> InBatch(p, c)'] = [p \in Mutators |-> InBatch(p, c)]
  BY <1>2
<1>7. SumUncounted' = SumUncounted /\ SumBoxes' = SumBoxes /\ SumDropped' = SumDropped
  BY <1>3, <1>4, <1>5 DEF SumUncounted, SumBoxes, SumDropped
<1>8. \A c \in Color : SumInBatch(c)' = SumInBatch(c)
  BY <1>6 DEF SumInBatch
<1> QED
  BY <1>7, <1>8

\* What was reclaimed, with what was dropped and is not counted yet, was counted before.
LEMMA Ordered ==
  ASSUME Typed, Guarded, AccountExact, Listing
  PROVE  total.reclaimed + SumDropped + (IF col.pc = "sweepCount" THEN col.recl ELSE 0)
           <= total.allocated
<1>0. IsFiniteSet(Mutators)
  BY SchedulingAssumption
<1> DEFINE u == [p \in Mutators |-> Uncounted(p)]
           d == [p \in Mutators |-> Dropped(p)]
           b == [p \in Mutators |-> Boxes(p)]
           x == [p \in Mutators |-> InBatch(p, 0)]
           y == [p \in Mutators |-> InBatch(p, 1)]
           ud == [p \in Mutators |-> Uncounted(p) + Dropped(p)]
           xy == [p \in Mutators |-> InBatch(p, 0) + InBatch(p, 1)]
           bxy == [p \in Mutators |-> Boxes(p) + (InBatch(p, 0) + InBatch(p, 1))]
<1>1. \A p \in Mutators : /\ Uncounted(p) \in Int /\ Boxes(p) \in Int /\ Dropped(p) \in Int
                          /\ InBatch(p, 0) \in Int /\ InBatch(p, 1) \in Int
  BY TermTypes DEF Numbers, Color
<1>2. /\ u \in [Mutators -> Int] /\ d \in [Mutators -> Int] /\ b \in [Mutators -> Int]
      /\ x \in [Mutators -> Int] /\ y \in [Mutators -> Int] /\ ud \in [Mutators -> Int]
      /\ xy \in [Mutators -> Int] /\ bxy \in [Mutators -> Int]
  BY <1>1, SMTT(60)
<1>3. ASSUME NEW p \in Mutators
      PROVE  ud[p] <= bxy[p]
  <2>1. /\ m[p].bytes \in Nat /\ m[p].new \in {0, 1}
        /\ objs[p][0].boxes \in Nat /\ objs[p][0].bytes \in Nat
        /\ objs[p][1].boxes \in Nat /\ objs[p][1].bytes \in Nat
        /\ objs[p][0].bytes <= objs[p][0].boxes /\ objs[p][1].bytes <= objs[p][1].boxes
    BY TypeFacts DEF Color, Guarded
  <2>2. m[p].pc = "flushed" => AllocColor(p) \in {0, 1}
    BY TypeFacts DEF Guarded, Color
  <2>3. Uncounted(p) + Dropped(p) <= Boxes(p) + (InBatch(p, 0) + InBatch(p, 1))
    BY <2>1, <2>2, SMTT(60) DEF Uncounted, Flushed, Dropped, Boxes, InBatch
  <2> QED
    BY <2>3
<1>4. /\ \A p \in Mutators : ud[p] = u[p] + d[p]
      /\ \A p \in Mutators : xy[p] = x[p] + y[p]
      /\ \A p \in Mutators : bxy[p] = b[p] + xy[p]
  OBVIOUS
<1>5. /\ SumUncounted = SumFunction(u) /\ SumDropped = SumFunction(d) /\ SumBoxes = SumFunction(b)
      /\ SumInBatch(0) = SumFunction(x) /\ SumInBatch(1) = SumFunction(y)
  BY DEF SumUncounted, SumDropped, SumBoxes, SumInBatch
<1> HIDE DEF u, d, b, x, y, ud, xy, bxy
<1>6. SumFunction(ud) = SumFunction(u) + SumFunction(d)
  BY <1>0, <1>2, <1>4, SumPlus, SMTT(60), Z3T(60)
<1>7. SumFunction(xy) = SumFunction(x) + SumFunction(y)
  BY <1>0, <1>2, <1>4, SumPlus, SMTT(60)
<1>8. SumFunction(bxy) = SumFunction(b) + SumFunction(xy)
  BY <1>0, <1>2, <1>4, SumPlus, SMTT(60), Z3T(60)
<1>9. SumFunction(ud) <= SumFunction(bxy)
  BY <1>0, <1>2, <1>3, SumMonotonic
<1>10. SumUncounted \in Int /\ SumBoxes \in Int /\ SumDropped \in Nat
       /\ SumInBatch(0) \in Nat /\ SumInBatch(1) \in Nat
  BY SumTypes DEF Color
<1>11. SumUncounted + SumDropped <= SumBoxes + SumInBatch(0) + SumInBatch(1)
  BY <1>5, <1>6, <1>7, <1>8, <1>9, <1>10, SMTT(60), Z3T(60)
<1>12. /\ SumInBatch(0) + Pending(0) <= fresh[0] /\ SumInBatch(1) + Pending(1) <= fresh[1]
       /\ Pending(0) + Pending(1) = (IF col.pc = "countPending" THEN col.alloc ELSE 0)
       /\ Pending(0) \in Nat /\ Pending(1) \in Nat
  <2>1. epoch.white \in {0, 1} /\ col.alloc \in Nat
    BY TypeFacts DEF Color
  <2> QED
    BY <2>1, SMTT(60) DEF Listing, Pending, Color
<1>13. \A c \in {0, 1} : fresh[c] \in Nat /\ marked[c].live \in Nat /\ marked[c].dead \in Nat
  BY TypeFacts DEF Color
<1>14. total.allocated \in Nat /\ total.reclaimed \in Nat /\ col.alloc \in Nat /\ col.recl \in Nat
  BY TypeFacts
<1>15. total.allocated - total.reclaimed + Taken + SumUncounted = Listed(0) + Listed(1) + SumBoxes
  BY DEF AccountExact, SumUncounted, SumBoxes
<1> QED
  BY <1>10, <1>11, <1>12, <1>13, <1>14, <1>15, SMTT(60), Z3T(60) DEF Listed, Taken

\* A step that moves no box and counts nothing.
LEMMA QuietStep ==
  ASSUME Typed, Typed', AccountExact, Listing, UNCHANGED <<m, objs, total, fresh, marked>>,
         \A p \in Mutators : m[p].pc = "flushed" => AllocColor(p)' = AllocColor(p),
         \/ UNCHANGED <<col, epoch>>
         \/ /\ col.pc \notin {"countPending", "sweepCount"}
            /\ col'.pc \notin {"countPending", "sweepCount"}
  PROVE  AccountExact' /\ Listing' /\ SumDropped' = SumDropped
<1>1. /\ SumUncounted' = SumUncounted /\ SumBoxes' = SumBoxes /\ SumDropped' = SumDropped
      /\ \A c \in Color : SumInBatch(c)' = SumInBatch(c)
  BY SumsSame
<1>2. Taken' = Taken /\ \A c \in Color : Pending(c)' = Pending(c)
  BY DEF Taken, Pending
<1>3. Listed(0)' = Listed(0) /\ Listed(1)' = Listed(1)
  BY DEF Listed
<1>4. AccountExact'
  BY <1>1, <1>2, <1>3 DEF AccountExact, SumUncounted, SumBoxes
<1>5. Listing'
  BY <1>1, <1>2 DEF Listing
<1> QED
  BY <1>1, <1>4, <1>5

\* How many boxes wait for the sweep.
Waiting == marked[0].live + marked[0].dead + marked[1].live + marked[1].dead

\* The account in one formula.
LEMMA Account ==
  AccountExact <=>
    total.allocated - total.reclaimed + Taken + SumUncounted
      = Listed(0) + Listed(1) + SumBoxes
  BY DEF AccountExact, SumUncounted, SumBoxes

\* A step of one thread, by what it does to the counters and to the lists.
LEMMA ThreadStep ==
  ASSUME Typed, Typed', AccountExact, Listing, NEW p \in Mutators, UNCHANGED <<guard, epoch, col>>,
         \A q \in Mutators : q # p => m'[q] = m[q] /\ objs'[q] = objs[q],
         total'.allocated - total'.reclaimed + Uncounted(p)'
             - Boxes(p)' - fresh'[0] - fresh'[1] - Waiting'
           = total.allocated - total.reclaimed + Uncounted(p)
               - Boxes(p) - fresh[0] - fresh[1] - Waiting,
         \A c \in Color : InBatch(p, c)' - InBatch(p, c) <= fresh'[c] - fresh[c]
  PROVE  AccountExact' /\ Listing' /\ SumDropped' = SumDropped + Dropped(p)' - Dropped(p)
<1>1. /\ SumUncounted' = SumUncounted + Uncounted(p)' - Uncounted(p)
      /\ SumBoxes' = SumBoxes + Boxes(p)' - Boxes(p)
      /\ SumDropped' = SumDropped + Dropped(p)' - Dropped(p)
      /\ \A c \in Color : SumInBatch(c)' = SumInBatch(c) + InBatch(p, c)' - InBatch(p, c)
  BY SumsAt
<1>2. Taken' = Taken /\ \A c \in Color : Pending(c)' = Pending(c)
  BY DEF Taken, Pending
<1>3. Numbers /\ Numbers'
  BY TermTypes, PTL
<1>4. SumUncounted \in Int /\ SumBoxes \in Int /\ \A c \in Color : SumInBatch(c) \in Int
  BY SumTypes, SMTT(60)
<1>5. /\ total.allocated \in Nat /\ total.reclaimed \in Nat /\ col.alloc \in Nat /\ col.recl \in Nat
      /\ total'.allocated \in Nat /\ total'.reclaimed \in Nat
  BY DEF Typed
<1>6. \A c \in {0, 1} : /\ fresh[c] \in Nat /\ marked[c].live \in Nat /\ marked[c].dead \in Nat
                        /\ fresh'[c] \in Nat /\ marked'[c].live \in Nat /\ marked'[c].dead \in Nat
  BY DEF Typed, Color
<1>7. Taken \in Int /\ \A c \in Color : Pending(c) \in Int
  BY <1>5, SMTT(60), Z3T(60) DEF Taken, Pending
<1>8. /\ Listed(0) + Listed(1) = fresh[0] + fresh[1] + Waiting
      /\ Listed(0)' + Listed(1)' = fresh'[0] + fresh'[1] + Waiting'
      /\ Waiting \in Int /\ Waiting' \in Int /\ Listed(0) \in Int /\ Listed(1) \in Int
      /\ Listed(0)' \in Int /\ Listed(1)' \in Int
  BY <1>6, SMTT(60) DEF Listed, Waiting
<1>9. /\ Uncounted(p) \in Int /\ Uncounted(p)' \in Int /\ Boxes(p) \in Int /\ Boxes(p)' \in Int
      /\ \A c \in Color : InBatch(p, c) \in Int /\ InBatch(p, c)' \in Int
  BY <1>3 DEF Numbers
<1>10. fresh[0] \in Int /\ fresh[1] \in Int /\ fresh'[0] \in Int /\ fresh'[1] \in Int
  BY <1>6, SMTT(60)
<1>11. total'.allocated - total'.reclaimed + Taken' + SumUncounted'
         = Listed(0)' + Listed(1)' + SumBoxes'
  <2>1. total.allocated - total.reclaimed + Taken + SumUncounted = Listed(0) + Listed(1) + SumBoxes
    BY Account
  <2> DEFINE x == total.allocated - total.reclaimed
             y == total'.allocated - total'.reclaimed
             f == fresh[0] + fresh[1] + Waiting
             g == fresh'[0] + fresh'[1] + Waiting'
  <2>2. x \in Int /\ y \in Int /\ f \in Int /\ g \in Int
    BY <1>5, <1>8, <1>10, SMTT(60), Z3T(60)
  <2>3. x + Taken + SumUncounted = f + SumBoxes
    BY <1>8, <2>1
  <2>4. y + Uncounted(p)' - Boxes(p)' - g = x + Uncounted(p) - Boxes(p) - f
    <3>1. y + Uncounted(p)' - Boxes(p)' - fresh'[0] - fresh'[1] - Waiting'
            = x + Uncounted(p) - Boxes(p) - fresh[0] - fresh[1] - Waiting
      OBVIOUS
    <3> HIDE DEF x, y
    <3> QED
      BY <1>8, <1>9, <1>10, <2>2, <3>1, SMTT(60), Z3T(60)
  <2> HIDE DEF x, y, f, g
  <2>5. y + Taken' + SumUncounted' = g + SumBoxes'
    BY <1>1, <1>2, <1>4, <1>7, <1>9, <2>2, <2>3, <2>4, SMTT(60), Z3T(60)
  <2> QED
    BY <1>8, <2>5 DEF y, g
<1>12. AccountExact'
  BY <1>11 DEF AccountExact, SumUncounted, SumBoxes
<1>13. ASSUME NEW c \in Color
       PROVE  SumInBatch(c)' + Pending(c)' <= fresh'[c]
  <2>1. SumInBatch(c) + Pending(c) <= fresh[c]
    BY DEF Listing
  <2>2. fresh[c] \in Nat /\ fresh'[c] \in Nat
    BY <1>6 DEF Color
  <2>3. InBatch(p, c)' - InBatch(p, c) <= fresh'[c] - fresh[c]
    OBVIOUS
  <2> QED
    BY <1>1, <1>2, <1>4, <1>7, <1>9, <2>1, <2>2, <2>3, SMTT(60), Z3T(60)
<1>14. Listing'
  BY <1>13 DEF Listing
<1> QED
  BY <1>1, <1>12, <1>14

\* A step of the collector that leaves what the threads have to count.
LEMMA CollectorStep ==
  ASSUME Typed, Typed', AccountExact, Listing, UNCHANGED <<m, objs, guard, epoch>>,
         total'.allocated - total'.reclaimed + Taken' - fresh'[0] - fresh'[1] - Waiting'
           = total.allocated - total.reclaimed + Taken - fresh[0] - fresh[1] - Waiting,
         \A c \in Color : \/ Pending(c)' - Pending(c) <= fresh'[c] - fresh[c]
                          \/ SumInBatch(c) = 0 /\ Pending(c)' = 0
  PROVE  AccountExact' /\ Listing' /\ SumDropped' = SumDropped
<1>1. /\ SumUncounted' = SumUncounted /\ SumBoxes' = SumBoxes /\ SumDropped' = SumDropped
      /\ \A c \in Color : SumInBatch(c)' = SumInBatch(c)
  <2>1. \A p \in Mutators : AllocColor(p)' = AllocColor(p)
    BY DEF AllocColor
  <2> QED
    BY <2>1, SumsSame
<1>4. SumUncounted \in Int /\ SumBoxes \in Int /\ \A c \in Color : SumInBatch(c) \in Int
  BY SumTypes, SMTT(60)
<1>5. /\ total.allocated \in Nat /\ total.reclaimed \in Nat /\ col.alloc \in Nat /\ col.recl \in Nat
      /\ total'.allocated \in Nat /\ total'.reclaimed \in Nat /\ col'.alloc \in Nat /\ col'.recl \in Nat
  BY DEF Typed
<1>6. \A c \in {0, 1} : /\ fresh[c] \in Nat /\ marked[c].live \in Nat /\ marked[c].dead \in Nat
                        /\ fresh'[c] \in Nat /\ marked'[c].live \in Nat /\ marked'[c].dead \in Nat
  BY DEF Typed, Color
<1>7. Taken \in Int /\ Taken' \in Int /\ \A c \in Color : Pending(c) \in Int /\ Pending(c)' \in Int
  BY <1>5, SMTT(60), Z3T(60) DEF Taken, Pending
<1>8. /\ Listed(0) + Listed(1) = fresh[0] + fresh[1] + Waiting
      /\ Listed(0)' + Listed(1)' = fresh'[0] + fresh'[1] + Waiting'
      /\ Waiting \in Int /\ Waiting' \in Int /\ Listed(0) \in Int /\ Listed(1) \in Int
      /\ Listed(0)' \in Int /\ Listed(1)' \in Int
  BY <1>6, SMTT(60), Z3T(60) DEF Listed, Waiting
<1>10. fresh[0] \in Int /\ fresh[1] \in Int /\ fresh'[0] \in Int /\ fresh'[1] \in Int
  BY <1>6, SMTT(60)
<1>11. total'.allocated - total'.reclaimed + Taken' + SumUncounted'
         = Listed(0)' + Listed(1)' + SumBoxes'
  <2>1. total.allocated - total.reclaimed + Taken + SumUncounted = Listed(0) + Listed(1) + SumBoxes
    BY Account
  <2> DEFINE x == total.allocated - total.reclaimed
             y == total'.allocated - total'.reclaimed
             f == fresh[0] + fresh[1] + Waiting
             g == fresh'[0] + fresh'[1] + Waiting'
  <2>2. x \in Int /\ y \in Int /\ f \in Int /\ g \in Int
    BY <1>5, <1>8, <1>10, SMTT(60), Z3T(60)
  <2>3. x + Taken + SumUncounted = f + SumBoxes
    BY <1>8, <2>1
  <2>4. y + Taken' - g = x + Taken - f
    <3>1. y + Taken' - fresh'[0] - fresh'[1] - Waiting' = x + Taken - fresh[0] - fresh[1] - Waiting
      OBVIOUS
    <3> HIDE DEF x, y
    <3> QED
      BY <1>7, <1>8, <1>10, <2>2, <3>1, SMTT(60), Z3T(60)
  <2> HIDE DEF x, y, f, g
  <2>5. y + Taken' + SumUncounted' = g + SumBoxes'
    <3>1. /\ Taken \in Int /\ Taken' \in Int /\ SumUncounted \in Int /\ SumBoxes \in Int
          /\ SumUncounted' = SumUncounted /\ SumBoxes' = SumBoxes
      BY <1>1, <1>4, <1>7
    <3>2. y + Taken' + SumUncounted = g + SumBoxes
      <4>1. PICK t \in Int : t = Taken
        BY <3>1
      <4>2. PICK u \in Int : u = Taken'
        BY <3>1
      <4>3. y + u - g = x + t - f /\ x + t + SumUncounted = f + SumBoxes
        BY <2>3, <2>4, <4>1, <4>2
      <4>4. y + u + SumUncounted = g + SumBoxes
        BY ONLY <2>2, <3>1, <4>3, u \in Int, t \in Int, SMTT(60), Z3T(60)
      <4> QED
        BY <4>2, <4>4
    <3> QED
      BY <3>1, <3>2
  <2> QED
    BY <1>8, <2>5 DEF y, g
<1>12. AccountExact'
  BY <1>11 DEF AccountExact, SumUncounted, SumBoxes
<1>13. ASSUME NEW c \in Color
       PROVE  SumInBatch(c)' + Pending(c)' <= fresh'[c]
  <2>1. SumInBatch(c) + Pending(c) <= fresh[c]
    BY DEF Listing
  <2>2. fresh[c] \in Nat /\ fresh'[c] \in Nat
    BY <1>6 DEF Color
  <2> QED
    BY <1>1, <1>4, <1>7, <2>1, <2>2, SMTT(60), Z3T(60)
<1>14. Listing'
  BY <1>13 DEF Listing
<1> QED
  BY <1>1, <1>12, <1>14

\* Steps of the threads that push, drop or count.
LEMMA MutatorCounts ==
  ASSUME Typed, Typed', Guarded, Waits, AccountExact, Listing, Snapshot, NEW p \in Mutators,
         Alloc(p) \/ CountFlushed(p) \/ HelpSweepDead(p) \/ HelpSweepLive(p) \/ CountReclaimed(p)
  PROVE  AccountExact' /\ Listing' /\ Snapshot'
<1>1. UNCHANGED <<guard, epoch, col>>
  BY DEF Alloc, CountFlushed, HelpSweepDead, HelpSweepLive, CountReclaimed, mutatorRest
<1>2. \A c \in {0, 1} : /\ fresh[c] \in Nat /\ marked[c].live \in Nat /\ marked[c].dead \in Nat
                        /\ objs[p][c].boxes \in Nat /\ objs[p][c].bytes \in Nat
  BY TypeFacts DEF Color
<1>3. /\ total.allocated \in Nat /\ total.reclaimed \in Nat /\ m[p].bytes \in Nat
      /\ m[p].new \in {0, 1} /\ col.alloc \in Nat
  BY TypeFacts
<1>4. SumDropped \in Nat
  BY SumTypes
<1>5. Numbers /\ Numbers'
  BY TermTypes, PTL
<1>6. Uncounted(p) \in Int /\ Boxes(p) \in Int /\ Dropped(p) \in Int /\ \A c \in Color : InBatch(p, c) \in Int
  BY <1>5 DEF Numbers
<1>7. \A c \in {0, 1} : fresh'[c] \in Nat
  BY DEF Typed, Color
<1>8. Boxes(p)' \in Int
  BY <1>5 DEF Numbers
<1>9. Waiting \in Int
  BY <1>2, SMTT(60) DEF Waiting
<1>10. ASSUME Alloc(p) \/ HelpSweepLive(p)
       PROVE  AccountExact' /\ Listing' /\ Snapshot'
  <2>1. PICK new \in {0, 1} : /\ guard[p] # NoGuard /\ m[p].pc = "idle" /\ PushFreshObj(p, new)
                              /\ Waiting' = Waiting + new - 1
    <3>1. CASE Alloc(p)
      <4>1. /\ guard[p] # NoGuard /\ m[p].pc = "idle" /\ PushFreshObj(p, 1)
            /\ marked' = marked
        BY <3>1 DEF Alloc, Free
      <4>2. Waiting' = Waiting + 1 - 1
        BY <1>9, <4>1, SMTT(60) DEF Waiting
      <4> QED
        BY <4>1, <4>2
    <3>2. CASE HelpSweepLive(p)
      <4>1. PICK c \in {0, 1} : /\ guard[p] # NoGuard /\ m[p].pc = "idle" /\ PushFreshObj(p, 0)
                                /\ marked' = [marked EXCEPT ![c].live = @ - 1]
        BY <3>2, TypeFacts DEF HelpSweepLive, Free, Color
      <4>2. Waiting' = Waiting + 0 - 1
        <5>1. marked'[c].live = marked[c].live - 1 /\ marked'[c].dead = marked[c].dead
          BY <4>1 DEF Typed, Color
        <5>2. marked'[1 - c] = marked[1 - c] /\ (c = 0 \/ c = 1)
          BY <4>1, SMTT(60) DEF Typed, Color
        <5> QED
          BY <1>2, <5>1, <5>2, SMTT(60), Z3T(60) DEF Waiting
      <4> QED
        BY <4>1, <4>2
    <3> QED
      BY <1>10, <3>1, <3>2
  <2>2. /\ \A q \in Mutators : q # p => m'[q] = m[q] /\ objs'[q] = objs[q]
        /\ Uncounted(p)' = Uncounted(p) + new
        /\ Boxes(p)' + fresh'[0] + fresh'[1] = Boxes(p) + fresh[0] + fresh[1] + 1
        /\ Dropped(p)' = Dropped(p)
        /\ \A c \in Color : InBatch(p, c)' - InBatch(p, c) <= fresh'[c] - fresh[c]
    BY <1>1, <2>1, PushTerms
  <2>3. total' = total
    BY <1>10 DEF Alloc, HelpSweepLive
  <2>4. total'.allocated - total'.reclaimed + Uncounted(p)' - Boxes(p)' - fresh'[0] - fresh'[1] - Waiting'
          = total.allocated - total.reclaimed + Uncounted(p) - Boxes(p) - fresh[0] - fresh[1] - Waiting
    BY <1>2, <1>3, <1>6, <1>7, <1>8, <1>9, <2>1, <2>2, <2>3, SMTT(60), Z3T(60)
  <2>5. AccountExact' /\ Listing' /\ SumDropped' = SumDropped + Dropped(p)' - Dropped(p)
    BY <1>1, <2>2, <2>4, ThreadStep
  <2>6. SumDropped' = SumDropped
    BY <1>4, <1>6, <2>2, <2>5, SMTT(60), Z3T(60)
  <2> QED
    BY <1>1, <2>3, <2>5, <2>6 DEF Snapshot, UsageNeverWraps
<1>11. ASSUME CountFlushed(p)
       PROVE  AccountExact' /\ Listing' /\ Snapshot'
  <2> DEFINE k == AllocColor(p)
  <2>1. /\ m[p].pc = "flushed" /\ k \in {0, 1} /\ objs[p][k] = [boxes |-> 0, bytes |-> 0]
        /\ objs' = [objs EXCEPT ![p][k] = [boxes |-> 1, bytes |-> m[p].new]]
        /\ m' = [m EXCEPT ![p] = Idle] /\ fresh' = fresh /\ marked' = marked
        /\ total' = [total EXCEPT !.allocated = @ + m[p].bytes]
    BY <1>11, TypeFacts DEF CountFlushed, Guarded, Color
  <2> HIDE DEF k
  <2>2. \A q \in Mutators : q # p => m'[q] = m[q] /\ objs'[q] = objs[q]
    BY <2>1 DEF Typed
  <2>3. /\ objs'[p][k] = [boxes |-> 1, bytes |-> m[p].new] /\ objs'[p][1 - k] = objs[p][1 - k]
        /\ m'[p] = Idle
    BY <2>1, SMTT(60) DEF Typed, Color
  <2>4. Uncounted(p)' = Uncounted(p) - m[p].bytes
    <3>1. CASE k = 0
      BY <1>2, <1>3, <2>1, <2>3, <3>1, SMTT(60), Z3T(60) DEF Uncounted, Flushed, Dropped, Idle
    <3>2. CASE k = 1
      BY <1>2, <1>3, <2>1, <2>3, <3>2, SMTT(60), Z3T(60) DEF Uncounted, Flushed, Dropped, Idle
    <3> QED
      BY <2>1, <3>1, <3>2
  <2>5. Boxes(p)' = Boxes(p)
    BY <1>2, <2>1, <2>3, SMTT(60), Z3T(60) DEF Boxes, Idle
  <2>6. Dropped(p)' = 0 /\ Dropped(p) = 0
    BY <2>1, <2>3, SMTT(60), Z3T(60) DEF Dropped, Idle
  <2>7. \A c \in Color : InBatch(p, c)' - InBatch(p, c) <= fresh'[c] - fresh[c]
    BY <1>2, <1>3, <2>1, <2>3, SMTT(60), Z3T(60) DEF InBatch, Idle, Color
  <2>8. total'.allocated = total.allocated + m[p].bytes /\ total'.reclaimed = total.reclaimed
    BY <2>1 DEF Typed
  <2>9. Waiting' = Waiting
    BY <2>1 DEF Waiting
  <2>10. total'.allocated - total'.reclaimed + Uncounted(p)' - Boxes(p)' - fresh'[0] - fresh'[1] - Waiting'
           = total.allocated - total.reclaimed + Uncounted(p) - Boxes(p) - fresh[0] - fresh[1] - Waiting
    BY <1>2, <1>3, <1>6, <1>9, <2>1, <2>4, <2>5, <2>8, <2>9, SMTT(60), Z3T(60)
  <2>11. AccountExact' /\ Listing' /\ SumDropped' = SumDropped + Dropped(p)' - Dropped(p)
    BY <1>1, <2>2, <2>7, <2>10, ThreadStep
  <2>12. SumDropped' = SumDropped
    BY <1>4, <2>6, <2>11, SMTT(60), Z3T(60)
  <2> QED
    BY <1>1, <2>8, <2>11, <2>12 DEF Snapshot, UsageNeverWraps
<1>12. ASSUME HelpSweepDead(p)
       PROVE  AccountExact' /\ Listing' /\ Snapshot'
  <2>1. PICK c \in {0, 1} : /\ c = 1 - guard[p].epoch.white
                            /\ guard[p] # NoGuard /\ m[p].pc = "idle" /\ marked[c].dead > 0
                            /\ marked' = [marked EXCEPT ![c].dead = @ - 1]
    BY <1>12, TypeFacts DEF HelpSweepDead, Free, Color
  <2>2. /\ m' = [m EXCEPT ![p] = [pc |-> "reclaimed", bytes |-> 1, new |-> 0]]
        /\ objs' = objs /\ fresh' = fresh /\ total' = total
    BY <1>12 DEF HelpSweepDead
  <2>3. /\ \A q \in Mutators : q # p => m'[q] = m[q] /\ objs'[q] = objs[q]
        /\ m'[p] = [pc |-> "reclaimed", bytes |-> 1, new |-> 0]
    BY <2>2 DEF Typed
  <2>4. Uncounted(p)' = Uncounted(p) - 1
    BY <1>2, <2>1, <2>2, <2>3, SMTT(60), Z3T(60) DEF Uncounted, Flushed, Dropped
  <2>5. Boxes(p)' = Boxes(p)
    BY <2>1, <2>2, <2>3, SMTT(60), Z3T(60) DEF Boxes
  <2>6. \A d \in Color : InBatch(p, d)' - InBatch(p, d) <= fresh'[d] - fresh[d]
    BY <1>2, <2>1, <2>2, <2>3, SMTT(60), Z3T(60) DEF InBatch, Color
  <2>7. Waiting' = Waiting - 1
    <3>1. marked'[c].dead = marked[c].dead - 1 /\ marked'[c].live = marked[c].live
      BY <2>1 DEF Typed, Color
    <3>2. marked'[1 - c] = marked[1 - c] /\ (c = 0 \/ c = 1)
      BY <2>1, SMTT(60) DEF Typed, Color
    <3> QED
      <4>1. CASE c = 0
        <5>1. marked'[1] = marked[1]
          BY <3>2, <4>1, SMTT(60), Z3T(60)
        <5> QED
          BY <1>2, <3>1, <4>1, <5>1, SMTT(60), Z3T(60) DEF Waiting
      <4>2. CASE c = 1
        <5>1. marked'[0] = marked[0]
          BY <3>2, <4>2, SMTT(60)
        <5> QED
          BY <1>2, <3>1, <4>2, <5>1, SMTT(60), Z3T(60) DEF Waiting
      <4> QED
        BY <3>2, <4>1, <4>2
  <2>8. total'.allocated - total'.reclaimed + Uncounted(p)' - Boxes(p)' - fresh'[0] - fresh'[1] - Waiting'
          = total.allocated - total.reclaimed + Uncounted(p) - Boxes(p) - fresh[0] - fresh[1] - Waiting
    <3>1. total'.allocated - total'.reclaimed = total.allocated - total.reclaimed
      BY <2>2
    <3>2. Uncounted(p)' - Boxes(p)' - fresh'[0] - fresh'[1] - Waiting'
            = Uncounted(p) - Boxes(p) - fresh[0] - fresh[1] - Waiting
      BY <1>2, <1>6, <1>9, <2>2, <2>4, <2>5, <2>7, SMTT(60), Z3T(60)
    <3>3. /\ total.allocated - total.reclaimed \in Int /\ Uncounted(p)' \in Int /\ Boxes(p)' \in Int
          /\ fresh'[0] \in Int /\ fresh'[1] \in Int /\ Waiting' \in Int
      BY <1>2, <1>3, <1>6, <1>9, <2>2, <2>4, <2>5, <2>7, SMTT(60), Z3T(60)
    <3> QED
      BY <1>2, <1>6, <1>9, <3>1, <3>2, <3>3
  <2>9. AccountExact' /\ Listing'
    BY <1>1, <2>3, <2>6, <2>8, ThreadStep
  <2>10. col.pc # "endRecl"
    <3> SUFFICES ASSUME col.pc = "endRecl" PROVE FALSE
      OBVIOUS
    <3>1. Waited /\ marked[1 - epoch.white].dead = 0
      BY DEF Waits
    <3>2. guard[p].epoch = epoch
      BY <2>1, <3>1 DEF Waited, Guarded
    <3> QED
      BY <2>1, <3>1, <3>2, SMTT(60)
  <2> QED
    BY <1>1, <2>9, <2>10 DEF Snapshot, UsageNeverWraps
<1>13. ASSUME CountReclaimed(p)
       PROVE  AccountExact' /\ Listing' /\ Snapshot'
  <2>1. /\ m[p].pc = "reclaimed" /\ m' = [m EXCEPT ![p] = Idle]
        /\ objs' = objs /\ fresh' = fresh /\ marked' = marked
        /\ total' = [total EXCEPT !.reclaimed = @ + m[p].bytes]
    BY <1>13 DEF CountReclaimed, listVars
  <2>2. /\ \A q \in Mutators : q # p => m'[q] = m[q] /\ objs'[q] = objs[q]
        /\ m'[p] = Idle
    BY <2>1 DEF Typed
  <2>3. Uncounted(p)' = Uncounted(p) + m[p].bytes
    BY <1>2, <1>3, <2>1, <2>2, SMTT(60), Z3T(60) DEF Uncounted, Flushed, Dropped, Idle
  <2>4. Boxes(p)' = Boxes(p)
    BY <2>1, <2>2, SMTT(60) DEF Boxes, Idle
  <2>5. Dropped(p)' = 0 /\ Dropped(p) = m[p].bytes
    BY <2>1, <2>2, SMTT(60), Z3T(60) DEF Dropped, Idle
  <2>6. \A c \in Color : InBatch(p, c)' - InBatch(p, c) <= fresh'[c] - fresh[c]
    BY <1>2, <2>1, <2>2, SMTT(60), Z3T(60) DEF InBatch, Idle, Color
  <2>7. total'.allocated = total.allocated /\ total'.reclaimed = total.reclaimed + m[p].bytes
    BY <2>1 DEF Typed
  <2>8. Waiting' = Waiting
    BY <2>1 DEF Waiting
  <2>9. total'.allocated - total'.reclaimed + Uncounted(p)' - Boxes(p)' - fresh'[0] - fresh'[1] - Waiting'
          = total.allocated - total.reclaimed + Uncounted(p) - Boxes(p) - fresh[0] - fresh[1] - Waiting
    BY <1>2, <1>3, <1>6, <1>9, <2>1, <2>3, <2>4, <2>7, <2>8, SMTT(60), Z3T(60)
  <2>10. AccountExact' /\ Listing' /\ SumDropped' = SumDropped + Dropped(p)' - Dropped(p)
    BY <1>1, <2>2, <2>6, <2>9, ThreadStep
  <2>11. total'.reclaimed + SumDropped' = total.reclaimed + SumDropped
    BY <1>3, <1>4, <2>5, <2>7, <2>10, SMTT(60), Z3T(60)
  <2> QED
    BY <1>1, <2>10, <2>11 DEF Snapshot, UsageNeverWraps
<1> QED
  BY <1>10, <1>11, <1>12, <1>13

\* Steps of a cycle that move boxes or count.
LEMMA CycleCounts ==
  ASSUME Typed, Typed', Guarded, Waits, AccountExact, Listing, Snapshot,
         TakePending \/ CountPending \/ Scan \/ Sweep \/ SweepCount
  PROVE  AccountExact' /\ Listing' /\ Snapshot'
<1>0. UNCHANGED <<guard, epoch, m>>
  BY DEF TakePending, CountPending, Scan, Sweep, SweepCount, listVars
<1>1. Snapshot'
  <2>1. col'.pc \notin {"endRecl", "beat", "store"}
    BY DEF TakePending, CountPending, Scan, Sweep, SweepCount, ColGoto, Typed
  <2> QED
    BY <2>1 DEF Snapshot, UsageNeverWraps
<1>2. \A c \in {0, 1} : fresh[c] \in Nat /\ marked[c].live \in Nat /\ marked[c].dead \in Nat
  BY TypeFacts DEF Color
<1>3. total.allocated \in Nat /\ total.reclaimed \in Nat /\ col.alloc \in Nat /\ col.recl \in Nat
  BY TypeFacts
<1>4. Waiting \in Int
  BY <1>2, SMTT(60) DEF Waiting
<1>5. epoch.white \in {0, 1}
  BY TypeFacts DEF Color
<1>6. CASE TakePending
  <2>0. PICK w \in {0, 1} : w = epoch.white
    BY <1>5
  <2>1. PICK p \in Mutators :
          /\ fresh' = [fresh EXCEPT ![w] = @ + objs[p][w].boxes]
          /\ col' = [col EXCEPT !.pc = "countPending", !.todo = @ \ {p}, !.alloc = objs[p][w].bytes]
          /\ objs' = [objs EXCEPT ![p][w] = [boxes |-> 0, bytes |-> 0]]
    BY <1>6, <2>0, TypeFacts DEF TakePending
  <2>2. col.pc = "pending" /\ UNCHANGED <<marked, total>> /\ w \in {0, 1}
    BY <1>5, <1>6 DEF TakePending
  <2>3. Pending(w)' = objs[p][w].bytes /\ Pending(1 - w)' = 0 /\ Pending(w) = 0 /\ Pending(1 - w) = 0
    <3>1. col'.pc = "countPending" /\ col'.alloc = objs[p][w].bytes
      BY <2>1 DEF Typed
    <3>2. 1 - w # w
      BY <2>2, SMTT(60), Z3T(60)
    <3> QED
      BY <1>0, <2>0, <2>2, <3>1, <3>2 DEF Pending
  <2>4. Taken = 0 /\ Taken' = objs[p][w].bytes
    <3>1. col'.pc = "countPending" /\ col'.alloc = objs[p][w].bytes
      BY <2>1 DEF Typed
    <3>2. objs[p][w].bytes \in Nat
      BY <2>2, TypeFacts DEF Color
    <3> QED
      BY <2>2, <3>1, <3>2, SMTT(60), Z3T(60) DEF Taken
  <2>5. /\ objs'[p][w] = [boxes |-> 0, bytes |-> 0] /\ objs'[p][1 - w] = objs[p][1 - w]
        /\ fresh'[w] = fresh[w] + objs[p][w].boxes /\ fresh'[1 - w] = fresh[1 - w]
        /\ \A q \in Mutators : q # p => objs'[q] = objs[q]
    BY <2>1, <2>2, SMTT(60) DEF Typed, Color
  <2>6. \A c \in {0, 1} : /\ objs[p][c].boxes \in Nat /\ objs[p][c].bytes \in Nat
                          /\ objs[p][c].bytes <= objs[p][c].boxes
    BY TypeFacts DEF Color, Guarded
  <2>7. /\ m[p].bytes \in Nat /\ m[p].new \in {0, 1}
    BY TypeFacts
  <2>8. Uncounted(p)' = Uncounted(p) - objs[p][w].bytes
    <3>1. Flushed(p)' = Flushed(p) /\ Dropped(p)' = Dropped(p) /\ Flushed(p) \in Int /\ Dropped(p) \in Int
      BY <1>0, <2>7, SMTT(60), Z3T(60) DEF Flushed, Dropped
    <3>2. CASE w = 0
      BY <2>5, <2>6, <3>1, <3>2, SMTT(60), Z3T(60) DEF Uncounted
    <3>3. CASE w = 1
      BY <2>5, <2>6, <3>1, <3>3, SMTT(60), Z3T(60) DEF Uncounted
    <3> QED
      BY <2>2, <3>2, <3>3
  <2>9. Boxes(p)' = Boxes(p) - objs[p][w].boxes
    BY <1>0, <2>2, <2>5, <2>6, SMTT(60), Z3T(60) DEF Boxes
  <2>10. /\ SumUncounted' = SumUncounted + Uncounted(p)' - Uncounted(p)
         /\ SumBoxes' = SumBoxes + Boxes(p)' - Boxes(p)
         /\ \A c \in Color : SumInBatch(c)' = SumInBatch(c) + InBatch(p, c)' - InBatch(p, c)
    BY <1>0, <2>5, SumsAt
  <2>11. \A c \in Color : InBatch(p, c)' = InBatch(p, c) /\ InBatch(p, c) \in Int /\ SumInBatch(c) \in Int
    BY <1>0, TermTypes, SumTypes, SMTT(60), Z3T(60) DEF InBatch, AllocColor, Numbers
  <2>12. \A c \in Color : SumInBatch(c)' = SumInBatch(c)
    BY <2>10, <2>11, SMTT(60), Z3T(60)
  <2>13. Uncounted(p) \in Int /\ Boxes(p) \in Int /\ SumUncounted \in Int /\ SumBoxes \in Int
    BY TermTypes, SumTypes DEF Numbers
  <2>14. /\ SumUncounted' = SumUncounted - objs[p][w].bytes
         /\ SumBoxes' = SumBoxes - objs[p][w].boxes
    BY <2>2, <2>6, <2>8, <2>9, <2>10, <2>13, SMTT(60), Z3T(60)
  <2>15. Listed(0)' + Listed(1)' = Listed(0) + Listed(1) + objs[p][w].boxes
    BY <1>2, <2>2, <2>5, <2>6, SMTT(60), Z3T(60) DEF Listed
  <2>16. Listed(0) \in Int /\ Listed(1) \in Int
    BY <1>2, SMTT(60) DEF Listed
  <2>17. total.allocated - total.reclaimed + Taken + SumUncounted = Listed(0) + Listed(1) + SumBoxes
    BY Account
  <2>18. total'.allocated - total'.reclaimed + Taken' + SumUncounted'
           = Listed(0)' + Listed(1)' + SumBoxes'
    BY <1>3, <2>2, <2>4, <2>6, <2>13, <2>14, <2>15, <2>16, <2>17, SMTT(60), Z3T(60)
  <2>19. AccountExact'
    BY <2>18 DEF AccountExact, SumUncounted, SumBoxes
  <2>20. \A c \in Color : SumInBatch(c)' + Pending(c)' <= fresh'[c]
    <3>1. SumInBatch(w) + Pending(w) <= fresh[w] /\ SumInBatch(1 - w) + Pending(1 - w) <= fresh[1 - w]
      BY <2>2, SMTT(60), Z3T(60) DEF Listing, Color
    <3>2. SumInBatch(w) \in Int /\ SumInBatch(1 - w) \in Int
      BY <2>2, <2>11, SMTT(60), Z3T(60) DEF Color
    <3>3. SumInBatch(w)' = SumInBatch(w) /\ SumInBatch(1 - w)' = SumInBatch(1 - w)
      <4>1. w \in Color /\ 1 - w \in Color
        BY <2>2, SMTT(60), Z3T(60) DEF Color
      <4> QED
        BY <2>12, <4>1
    <3>4. SumInBatch(w)' + Pending(w)' <= fresh'[w]
      BY <1>2, <2>2, <2>3, <2>5, <2>6, <3>1, <3>2, <3>3, SMTT(60), Z3T(60)
    <3>5. SumInBatch(1 - w)' + Pending(1 - w)' <= fresh'[1 - w]
      BY <1>2, <2>2, <2>3, <2>5, <3>1, <3>2, <3>3
    <3>6. \A c \in Color : c = w \/ c = 1 - w
      BY <2>2, SMTT(60), Z3T(60) DEF Color
    <3> QED
      BY <3>4, <3>5, <3>6
  <2>21. Listing'
    BY <2>20 DEF Listing
  <2> QED
    BY <1>1, <2>19, <2>21
<1>7. CASE CountPending
  <2>1. /\ col.pc = "countPending" /\ UNCHANGED <<objs, fresh, marked>>
        /\ col'.pc \in {"scan", "pending"}
        /\ total'.allocated = total.allocated + col.alloc /\ total'.reclaimed = total.reclaimed
    BY <1>7 DEF CountPending, listVars, Typed
  <2>2. Taken = col.alloc /\ Taken' = 0 /\ Waiting' = Waiting
    BY <1>3, <2>1, SMTT(60) DEF Taken, Waiting
  <2>3. \A c \in Color : Pending(c)' = 0 /\ Pending(c) \in Nat
    BY <1>3, <2>1 DEF Pending
  <2>4. \A c \in Color : Pending(c)' - Pending(c) <= fresh'[c] - fresh[c]
    BY <1>2, <2>1, <2>3, SMTT(60), Z3T(60) DEF Color
  <2>5. total'.allocated - total'.reclaimed + Taken' - fresh'[0] - fresh'[1] - Waiting'
          = total.allocated - total.reclaimed + Taken - fresh[0] - fresh[1] - Waiting
    BY <1>2, <1>3, <1>4, <2>1, <2>2, SMTT(60), Z3T(60)
  <2> QED
    BY <1>0, <1>1, <2>1, <2>4, <2>5, CollectorStep
<1>8. CASE Scan
  <2> DEFINE w == epoch.white
  <2>1. PICK dead \in 0..fresh[w] :
          marked' = [marked EXCEPT ![w] = [live |-> @.live + fresh[w] - dead, dead |-> @.dead + dead]]
    BY <1>8 DEF Scan
  <2>2. /\ col.pc = "scan" /\ col'.pc = "trace" /\ UNCHANGED <<objs, total>>
        /\ fresh' = [fresh EXCEPT ![w] = 0] /\ w \in {0, 1}
    BY <1>5, <1>8 DEF Scan, ColGoto, Typed
  <2>3. SumInBatch(w) = 0
    <3>1. Waited /\ epoch.phase = "RT"
      BY <2>2 DEF Waits
    <3>2. ASSUME NEW p \in Mutators
          PROVE  InBatch(p, w) = 0
      <4>1. m[p].pc = "flushed" => guard[p].epoch = epoch
        BY <3>1 DEF Waited, Guarded
      <4>2. m[p].pc = "flushed" => AllocColor(p) = 1 - w
        BY <3>1, <4>1 DEF AllocColor
      <4>3. 1 - w # w
        BY <2>2, SMTT(60), Z3T(60)
      <4> QED
        BY <4>2, <4>3 DEF InBatch
    <3> DEFINE f == [p \in Mutators |-> InBatch(p, w)]
    <3>3. f \in [Mutators -> Int] /\ \A p \in Mutators : f[p] = 0
      BY <3>2, SMTT(60)
    <3>4. SumInBatch(w) = SumFunction(f)
      BY DEF SumInBatch
    <3> HIDE DEF f
    <3> QED
      BY <3>3, <3>4, SumZero, SchedulingAssumption
  <2>4. \A c \in Color : Pending(c)' = 0 /\ Pending(c) = 0
    BY <2>2 DEF Pending
  <2>5. Taken = 0 /\ Taken' = 0
    BY <2>2, SMTT(60), Z3T(60) DEF Taken
  <2> HIDE DEF w
  <2>6. /\ marked'[w] = [live |-> marked[w].live + fresh[w] - dead, dead |-> marked[w].dead + dead]
        /\ marked'[1 - w] = marked[1 - w]
        /\ fresh'[w] = 0 /\ fresh'[1 - w] = fresh[1 - w]
    BY <2>1, <2>2, SMTT(60), Z3T(60) DEF Typed, Color
  <2>7. Waiting' = Waiting + fresh[w]
    <3>1. dead \in Int
      BY <1>2, <2>2, SMTT(60), Z3T(60)
    <3>2. /\ marked'[w].live + marked'[w].dead = marked[w].live + marked[w].dead + fresh[w]
          /\ marked'[w].live \in Int /\ marked'[w].dead \in Int
      BY <1>2, <2>2, <2>6, <3>1, SMTT(60), Z3T(60)
    <3>3. CASE w = 0
      BY <1>2, <2>6, <3>2, <3>3, SMTT(60), Z3T(60) DEF Waiting
    <3>4. CASE w = 1
      BY <1>2, <2>6, <3>2, <3>4, SMTT(60), Z3T(60) DEF Waiting
    <3> QED
      BY <2>2, <3>3, <3>4
  <2>8. total'.allocated - total'.reclaimed + Taken' - fresh'[0] - fresh'[1] - Waiting'
          = total.allocated - total.reclaimed + Taken - fresh[0] - fresh[1] - Waiting
    BY <1>2, <1>3, <1>4, <2>2, <2>5, <2>6, <2>7, SMTT(60), Z3T(60)
  <2>9. \A c \in Color : \/ Pending(c)' - Pending(c) <= fresh'[c] - fresh[c]
                         \/ SumInBatch(c) = 0 /\ Pending(c)' = 0
    <3>1. \A c \in Color : c = w \/ (c = 1 - w /\ fresh'[c] = fresh[c] /\ fresh[c] \in Nat)
      BY <1>2, <2>2, <2>6, SMTT(60) DEF Color
    <3> QED
      BY <2>3, <2>4, <3>1, SMTT(60), Z3T(60)
  <2> QED
    BY <1>0, <1>1, <2>2, <2>8, <2>9, CollectorStep
<1>9. CASE Sweep
  <2> DEFINE v == 1 - epoch.white
  <2>1. /\ col.pc = "sweep" /\ col'.pc = "sweepCount" /\ col'.recl = marked[v].dead
        /\ UNCHANGED <<objs, total>> /\ v \in {0, 1} /\ 1 - v = epoch.white
    BY <1>5, <1>9, SMTT(60) DEF Sweep, Typed
  <2>2. /\ fresh' = [fresh EXCEPT ![1 - v] = @ + marked[v].live]
        /\ marked' = [marked EXCEPT ![v] = [live |-> 0, dead |-> 0]]
    BY <1>9, <2>1 DEF Sweep
  <2> HIDE DEF v
  <2>3. /\ fresh'[1 - v] = fresh[1 - v] + marked[v].live /\ fresh'[v] = fresh[v]
        /\ marked'[v] = [live |-> 0, dead |-> 0] /\ marked'[1 - v] = marked[1 - v]
    BY <2>1, <2>2, SMTT(60), Z3T(60) DEF Typed, Color
  <2>4. Taken = 0 /\ Taken' = 0 - marked[v].dead
    BY <1>2, <2>1, SMTT(60) DEF Taken
  <2>5. \A c \in Color : Pending(c)' = 0 /\ Pending(c) = 0
    BY <2>1 DEF Pending
  <2>6. Waiting' = Waiting - marked[v].live - marked[v].dead
    <3>1. CASE v = 0
      <4>1. /\ marked'[0] = [live |-> 0, dead |-> 0] /\ marked'[1] = marked[1]
        BY <2>3, <3>1, SMTT(60), Z3T(60)
      <4> QED
        BY <1>2, <3>1, <4>1, SMTT(60), Z3T(60) DEF Waiting
    <3>2. CASE v = 1
      <4>1. /\ marked'[1] = [live |-> 0, dead |-> 0] /\ marked'[0] = marked[0]
        BY <2>3, <3>2, SMTT(60), Z3T(60)
      <4> QED
        BY <1>2, <3>2, <4>1, SMTT(60), Z3T(60) DEF Waiting
    <3> QED
      BY <2>1, <3>1, <3>2
  <2>7. total'.allocated - total'.reclaimed + Taken' - fresh'[0] - fresh'[1] - Waiting'
          = total.allocated - total.reclaimed + Taken - fresh[0] - fresh[1] - Waiting
    BY <1>2, <1>3, <1>4, <2>1, <2>3, <2>4, <2>6, SMTT(60), Z3T(60)
  <2>8. \A c \in Color : Pending(c)' - Pending(c) <= fresh'[c] - fresh[c]
    BY <1>2, <2>1, <2>3, <2>5, SMTT(60), Z3T(60) DEF Color
  <2> QED
    BY <1>0, <1>1, <2>1, <2>7, <2>8, CollectorStep
<1>10. CASE SweepCount
  <2>1. /\ col.pc = "sweepCount" /\ col'.pc = "nWait" /\ UNCHANGED <<objs, fresh, marked>>
        /\ total'.reclaimed = total.reclaimed + col.recl /\ total'.allocated = total.allocated
    BY <1>10 DEF SweepCount, listVars, Typed
  <2>2. Taken = 0 - col.recl /\ Taken' = 0 /\ Waiting' = Waiting
    BY <1>3, <2>1, SMTT(60) DEF Taken, Waiting
  <2>3. \A c \in Color : Pending(c)' = 0 /\ Pending(c) = 0
    BY <2>1 DEF Pending
  <2>4. \A c \in Color : Pending(c)' - Pending(c) <= fresh'[c] - fresh[c]
    BY <1>2, <2>1, <2>3, SMTT(60), Z3T(60) DEF Color
  <2>5. total'.allocated - total'.reclaimed + Taken' - fresh'[0] - fresh'[1] - Waiting'
          = total.allocated - total.reclaimed + Taken - fresh[0] - fresh[1] - Waiting
    BY <1>2, <1>3, <1>4, <2>1, <2>2, SMTT(60), Z3T(60)
  <2> QED
    BY <1>0, <1>1, <2>1, <2>4, <2>5, CollectorStep
<1> QED
  BY <1>6, <1>7, <1>8, <1>9, <1>10

\* Every step keeps the counts.
LEMMA CountsStep ==
  ASSUME Inv, Typed', [Next]_vars
  PROVE  AccountExact' /\ Listing' /\ Snapshot'
<1> USE DEF Inv
<1>1. ASSUME UNCHANGED <<m, objs, total, fresh, marked>>,
             \A p \in Mutators : m[p].pc = "flushed" => AllocColor(p)' = AllocColor(p),
             UNCHANGED <<col, epoch>>
      PROVE  AccountExact' /\ Listing' /\ Snapshot'
  <2>1. AccountExact' /\ Listing' /\ SumDropped' = SumDropped
    BY <1>1, QuietStep
  <2> QED
    BY <1>1, <2>1 DEF Snapshot, UsageNeverWraps
<1>2. ASSUME UNCHANGED <<m, objs, total, fresh, marked>>,
             \A p \in Mutators : m[p].pc = "flushed" => AllocColor(p)' = AllocColor(p),
             col.pc \notin {"countPending", "sweepCount"},
             col'.pc \notin {"countPending", "sweepCount"},
             col'.pc = "endRecl" => col.pc = "endAlloc" /\ col'.alloc = total.allocated,
             col'.pc \in {"beat", "store"} =>
               \/ col.pc = "endRecl" /\ col'.alloc = col.alloc /\ col'.recl = total.reclaimed
               \/ col.pc = "beat" /\ col'.alloc = col.alloc /\ col'.recl = col.recl
      PROVE  AccountExact' /\ Listing' /\ Snapshot'
  <2>1. AccountExact' /\ Listing' /\ SumDropped' = SumDropped
    BY <1>2, QuietStep
  <2>2. SumDropped \in Nat /\ total.reclaimed \in Nat /\ total.allocated \in Nat /\ col.alloc \in Nat
    BY SumTypes, TypeFacts
  <2>3. total.reclaimed + SumDropped + (IF col.pc = "sweepCount" THEN col.recl ELSE 0) <= total.allocated
    BY Ordered
  <2>4. total.reclaimed + SumDropped <= total.allocated
    BY <1>2, <2>2, <2>3, SMTT(60), Z3T(60)
  <2>5. col'.pc = "endRecl" => total'.reclaimed + SumDropped' <= col'.alloc
    BY <1>2, <2>1, <2>4
  <2>6. col'.pc \in {"beat", "store"} => col'.recl <= col'.alloc
    BY <1>2, <2>2, SMTT(60) DEF Snapshot, UsageNeverWraps
  <2> QED
    BY <2>1, <2>5, <2>6 DEF Snapshot, UsageNeverWraps
<1>3. ASSUME UNCHANGED guard PROVE \A p \in Mutators : AllocColor(p)' = AllocColor(p)
  BY <1>3 DEF AllocColor
<1>4. CASE UNCHANGED vars
  BY <1>1, <1>3, <1>4 DEF vars, listVars
<1>5. ASSUME NEW p \in Mutators, MutatorStep(p)
      PROVE  AccountExact' /\ Listing' /\ Snapshot'
  <2>1. CASE Alloc(p) \/ CountFlushed(p) \/ HelpSweepDead(p) \/ HelpSweepLive(p) \/ CountReclaimed(p)
    BY <2>1, MutatorCounts
  <2>2. CASE Initialize(p)
    <3>1. UNCHANGED <<m, objs, total, fresh, marked, guard, col, epoch>>
      BY <2>2 DEF Initialize, listVars
    <3> QED
      BY <1>1, <1>3, <3>1
  <2>3. CASE TryDeployCollector(p)
    <3>1. UNCHANGED <<m, objs, total, fresh, marked, guard, epoch>>
      BY <2>3 DEF TryDeployCollector, listVars
    <3>2. CASE collectorInit
      BY <1>1, <1>3, <2>3, <3>1, <3>2 DEF TryDeployCollector
    <3>3. CASE ~ collectorInit
      <4>1. col'.pc = "start" /\ col.pc = "none"
        BY <2>3, <3>3 DEF TryDeployCollector, ColAt, Locked
      <4> QED
        BY <1>2, <1>3, <3>1, <4>1
    <3> QED
      BY <3>2, <3>3
  <2>4. CASE Pin(p) \/ Unpin(p)
    <3>1. /\ UNCHANGED <<m, objs, total, fresh, marked, col, epoch>> /\ m[p].pc = "idle"
          /\ \A q \in Mutators : q # p => guard'[q] = guard[q]
      BY <2>4 DEF Pin, Unpin, mutatorRest, listVars, Guarded, Typed
    <3>2. \A q \in Mutators : m[q].pc = "flushed" => AllocColor(q)' = AllocColor(q)
      BY <3>1 DEF AllocColor
    <3> QED
      BY <1>1, <3>1, <3>2
  <2> QED
    BY <1>5, <2>1, <2>2, <2>3, <2>4 DEF MutatorStep
<1>6. ASSUME NEW a \in Beaters, BeatLock(a) \/ BeatLoad(a)
      PROVE  AccountExact' /\ Listing' /\ Snapshot'
  <2>1. UNCHANGED <<m, objs, total, fresh, marked, guard, col, epoch>>
    BY <1>6 DEF BeatLock, BeatLoad, hbRest, listVars
  <2> QED
    BY <1>1, <1>3, <2>1
<1>7. ASSUME NEW a \in Beaters, BeatTooSoon(a) \/ BeatUpdate(a)
      PROVE  AccountExact' /\ Listing' /\ Snapshot'
  <2>1. /\ UNCHANGED <<m, objs, total, fresh, marked, guard, epoch>>
        /\ col' = IF a = Coll THEN [col EXCEPT !.pc = "store"] ELSE col
        /\ hb[a].pc # "rest"
    BY <1>7 DEF BeatTooSoon, BeatUpdate, BeatReturn, hbRest, listVars
  <2>2. CASE a = Coll
    <3>1. col.pc = "beat" /\ col'.pc = "store" /\ col'.alloc = col.alloc /\ col'.recl = col.recl
      BY <2>1, <2>2 DEF Locked, Typed
    <3> QED
      BY <1>2, <1>3, <2>1, <3>1
  <2>3. CASE a # Coll
    BY <1>1, <1>3, <2>1, <2>3
  <2> QED
    BY <2>2, <2>3
<1>8. ASSUME Poll
      PROVE  AccountExact' /\ Listing' /\ Snapshot'
  <2>1. UNCHANGED <<m, objs, total, fresh, marked, guard>>
    BY <1>8 DEF Poll, ColStart, PollEnabled, PollRequest, ResetRequest, PollRead, ReadAllocated,
                Decide, pollRest, listVars
  <2>2. /\ col.pc \notin {"countPending", "sweepCount"}
        /\ col'.pc \notin {"countPending", "sweepCount", "endRecl", "beat", "store"}
    <3>1. col.pc \notin {"countPending", "sweepCount"}
      BY <1>8 DEF Poll, ColStart, PollEnabled, PollRequest, ResetRequest, PollRead, ReadAllocated, Decide
    <3> QED
      BY <1>8, <3>1, PollFlow
  <2> QED
    BY <1>2, <1>3, <2>1, <2>2
<1>9. ASSUME BeginCycle \/ BeginCompletion \/ BeginNormal
      PROVE  AccountExact' /\ Listing' /\ Snapshot'
  <2>1. /\ UNCHANGED <<m, objs, total, fresh, marked>>
        /\ guard' = [p \in Mutators |-> IF guard[p] = NoGuard THEN NoGuard
                                        ELSE [guard[p] EXCEPT !.old = TRUE]]
    BY <1>9 DEF BeginCycle, BeginCompletion, BeginNormal, Publish, listVars
  <2>2. ASSUME NEW p \in Mutators, m[p].pc = "flushed"
        PROVE  AllocColor(p)' = AllocColor(p)
    <3>1. guard[p] # NoGuard /\ guard[p] \in Guards
      BY <2>2, TypeFacts DEF Guarded
    <3>2. guard'[p] = [guard[p] EXCEPT !.old = TRUE]
      BY <2>1, <3>1
    <3>3. guard'[p].epoch = guard[p].epoch
      BY <3>1, <3>2 DEF Guards
    <3> QED
      BY <3>3 DEF AllocColor
  <2>3. /\ col.pc \notin {"countPending", "sweepCount"}
        /\ col'.pc \notin {"countPending", "sweepCount", "endRecl", "beat", "store"}
    BY <1>9 DEF BeginCycle, BeginCompletion, BeginNormal, Publish, ColGoto, Typed
  <2> QED
    BY <1>2, <2>1, <2>2, <2>3
<1>10. ASSUME EndWait \/ Refuted \/ EndAllocated \/ EndReclaimed \/ StoreLimit
       PROVE  AccountExact' /\ Listing' /\ Snapshot'
  <2>1. UNCHANGED <<m, objs, total, fresh, marked, guard>>
    BY <1>10 DEF EndWait, Refuted, EndAllocated, EndReclaimed, StoreLimit, pollRest, listVars
  <2>2. /\ col.pc \notin {"countPending", "sweepCount"}
        /\ col'.pc \notin {"countPending", "sweepCount", "store"}
    BY <1>10, StoreFlow DEF EndWait, Refuted, EndAllocated, EndReclaimed, StoreLimit, ColGoto, Typed
  <2>3. col'.pc = "endRecl" => col.pc = "endAlloc" /\ col'.alloc = total.allocated
    BY <1>10, StoreFlow DEF EndWait, Refuted, EndAllocated, EndReclaimed, StoreLimit, ColGoto, Typed
  <2>4. col'.pc = "beat" => col.pc = "endRecl" /\ col'.alloc = col.alloc /\ col'.recl = total.reclaimed
    BY <1>10, StoreFlow DEF EndWait, Refuted, EndAllocated, EndReclaimed, StoreLimit, ColGoto, Typed
  <2> QED
    BY <1>2, <1>3, <2>1, <2>2, <2>3, <2>4
<1>11. ASSUME (\E set \in BOOLEAN : EnableCollection(set)) \/ RequestCollection
       PROVE  AccountExact' /\ Listing' /\ Snapshot'
  <2>1. UNCHANGED <<m, objs, total, fresh, marked, guard, col, epoch>>
    BY <1>11 DEF EnableCollection, RequestCollection, listVars
  <2> QED
    BY <1>1, <1>3, <2>1
<1>12. ASSUME Cycle
       PROVE  AccountExact' /\ Listing' /\ Snapshot'
  BY <1>9, <1>10, <1>12, CycleCounts DEF Cycle
<1> QED
  BY <1>4, <1>5, <1>6, <1>7, <1>8, <1>11, <1>12 DEF Next, Beat

\* The invariant holds at the start, when there is nothing to count.
LEMMA InitInv == Init => Inv
<1> SUFFICES ASSUME Init PROVE Inv
  OBVIOUS
<1>1. Typed
  BY DEF Init, Typed, Epochs, Guards, Batches, Points, Idle, Resting, ColAt, ColPcs, Color
<1>2. Locked
  <2>1. /\ \A a \in Beaters : hb[a].pc = "rest"
        /\ col.pc = "none" /\ statAlloc = 0 /\ total.allocated = 0 /\ Coll \in Beaters
    BY DEF Init, Resting, ColAt, Beaters
  <2>2. statAlloc <= total.allocated
    BY <2>1, SMTT(60)
  <2> QED
    BY <2>1, <2>2 DEF Locked
<1>3. Guarded
  <2>1. \A p \in Mutators : m[p].pc = "idle" /\ guard[p] = NoGuard
    BY DEF Init, Idle
  <2>2. \A p \in Mutators, c \in Color : objs[p][c].bytes = 0 /\ objs[p][c].boxes = 0
    BY DEF Init
  <2>3. \A p \in Mutators, c \in Color : objs[p][c].bytes <= objs[p][c].boxes
    BY <2>2, SMTT(60)
  <2> QED
    BY <2>1, <2>3 DEF Guarded
<1>4. Waits
  BY DEF Init, Waits, ColAt
<1>5. \A p \in Mutators : /\ Uncounted(p) = 0 /\ Boxes(p) = 0 /\ Dropped(p) = 0
                          /\ \A c \in Color : InBatch(p, c) = 0
  BY SMTT(60) DEF Init, Uncounted, Flushed, Dropped, Boxes, InBatch, Idle, Color
<1>6. SumUncounted = 0
  <2> DEFINE f == [p \in Mutators |-> Uncounted(p)]
  <2>1. f \in [Mutators -> Int] /\ (\A p \in Mutators : f[p] = 0) /\ SumUncounted = SumFunction(f)
    BY <1>5, SMTT(60) DEF SumUncounted
  <2> HIDE DEF f
  <2> QED
    BY <2>1, SumZero, SchedulingAssumption
<1>7. SumBoxes = 0
  <2> DEFINE f == [p \in Mutators |-> Boxes(p)]
  <2>1. f \in [Mutators -> Int] /\ (\A p \in Mutators : f[p] = 0) /\ SumBoxes = SumFunction(f)
    BY <1>5, SMTT(60) DEF SumBoxes
  <2> HIDE DEF f
  <2> QED
    BY <2>1, SumZero, SchedulingAssumption
<1>8. ASSUME NEW c \in Color PROVE SumInBatch(c) = 0
  <2> DEFINE f == [p \in Mutators |-> InBatch(p, c)]
  <2>1. f \in [Mutators -> Int] /\ (\A p \in Mutators : f[p] = 0) /\ SumInBatch(c) = SumFunction(f)
    BY <1>5, SMTT(60), Z3T(60) DEF SumInBatch
  <2> HIDE DEF f
  <2> QED
    BY <2>1, SumZero, SchedulingAssumption
<1>9. Taken = 0 /\ Listed(0) = 0 /\ Listed(1) = 0 /\ total.allocated = 0 /\ total.reclaimed = 0
  BY SMTT(60) DEF Init, Taken, Listed, ColAt, Color
<1>10. AccountExact
  <2>1. total.allocated - total.reclaimed + Taken + SumUncounted = Listed(0) + Listed(1) + SumBoxes
    BY <1>6, <1>7, <1>9, SMTT(60), Z3T(60)
  <2> QED
    BY <2>1, Account
<1>11. Listing
  <2>1. \A c \in Color : Pending(c) = 0 /\ fresh[c] = 0
    BY DEF Init, Pending, ColAt
  <2> QED
    BY <1>8, <2>1, SMTT(60), Z3T(60) DEF Listing
<1>12. Snapshot
  BY DEF Init, Snapshot, UsageNeverWraps, ColAt
<1> QED
  BY <1>1, <1>2, <1>3, <1>4, <1>10, <1>11, <1>12 DEF Inv

\* The invariant holds in every state of the specification.
LEMMA Invariant == Spec => []Inv
<1>1. Inv /\ [Next]_vars => Inv'
  <2> SUFFICES ASSUME Inv, [Next]_vars PROVE Inv'
    OBVIOUS
  <2>0. Typed'
    BY TypedStep DEF Inv
  <2>1. Typed' /\ Locked' /\ Guarded' /\ Waits'
    BY <2>0, LockedStep, GuardedStep, WaitsStep DEF Inv
  <2>2. AccountExact' /\ Listing' /\ Snapshot'
    BY <2>1, CountsStep
  <2> QED
    BY <2>1, <2>2 DEF Inv
<1> QED
  BY InitInv, <1>1, PTL DEF Spec

-----------------------------------------------------------------------------
(* The theorems.                                                            *)

\* GlobalStats accounts for every box, for any number of threads and any size of batch.
THEOREM SchedulingAccountExact == Spec => []AccountExact
<1>1. Inv => AccountExact
  BY DEF Inv
<1> QED
  BY <1>1, Invariant, PTL

\* No byte is counted as reclaimed before it was counted as allocated, in whatever order
\* the threads that allocate and sweep come to count (add_allocated, add_reclaimed).
THEOREM SchedulingCountersOrdered == Spec => []CountersOrdered
<1>1. Inv => CountersOrdered
  <2> SUFFICES ASSUME Inv PROVE total.reclaimed <= total.allocated
    BY DEF CountersOrdered
  <2>1. total.reclaimed + SumDropped + (IF col.pc = "sweepCount" THEN col.recl ELSE 0) <= total.allocated
    BY Ordered DEF Inv
  <2>2. SumDropped \in Nat /\ total.reclaimed \in Nat /\ total.allocated \in Nat /\ col.recl \in Nat
    BY SumTypes, TypeFacts DEF Inv
  <2> QED
    BY <2>1, <2>2, SMTT(60)
<1> QED
  BY <1>1, Invariant, PTL

\* The subtraction of record_collection_stats never wraps: its two loads are made after
\* wait_all_mutators_unpin, when the helpers have nothing more to drop.
THEOREM SchedulingUsageNeverWraps == Spec => []UsageNeverWraps
<1>1. Inv => UsageNeverWraps
  BY DEF Inv, Snapshot
<1> QED
  BY <1>1, Invariant, PTL

\* The subtraction alloc_diff of heartbeat() never wraps: the total is loaded under
\* HBSTATS.write().
THEOREM SchedulingAllocDiffNeverWraps == Spec => []AllocDiffNeverWraps
<1>1. Inv => AllocDiffNeverWraps
  BY DEF Inv, Locked, AllocDiffNeverWraps
<1> QED
  BY <1>1, Invariant, PTL
=============================================================================

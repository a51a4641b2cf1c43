---------------------------- MODULE EntriesProof ----------------------------
(***************************************************************************)
(* The entries of the threads, for any number of threads, of entries, of   *)
(* concurrent walks, of objects and of slots: no entry is given to two     *)
(* threads and no walk misses one, the list is no longer than it need be;  *)
(* the slots of hazard pointers stay apart and clear, no destroyed array   *)
(* is read, and a scan finds what stays protected while it goes on.        *)
(***************************************************************************)
EXTENDS Slots, Hazards, FiniteSetTheorems, SequenceTheorems, TLAPS

\* The default prover; a leaf with arithmetic or records names SMT.
USE ZenonT(60)

-----------------------------------------------------------------------------
(* The list of entries (Slots.tla).                                         *)

SlotsType ==
  /\ len \in 0..MaxNodes
  /\ using \in [Index -> BOOLEAN]
  /\ own \in [Threads -> [pc : Points, at : 0..(MaxNodes + 1)]]
  /\ walk \in [Walkers -> [pc : {"off", "load", "test"}, node : Index, curr : Index \cup {0}]]
  /\ seen \in [Walkers -> SUBSET Index]
  /\ since \in [Walkers -> SUBSET Threads]

\* Entries are taken from the list, and a walk does not leave it.
InList ==
  /\ \A t \in Threads :
       /\ own[t].pc \in {"look", "append"} => own[t].at # 0
       /\ own[t].pc = "take" => own[t].at \in 1..len
  /\ \A u \in Walkers : walk[u].curr <= len

\* What a walk has still before it: the entry of a thread that had it when the
\* walk began is among those yielded, is being tested, or is yet to come.
StillToCome ==
  \A u \in Walkers : \A t \in since[u] :
    /\ Owns(t)
    /\ \/ own[t].at \in seen[u]
       \/ walk[u].pc = "test" /\ own[t].at = walk[u].node
       \/ walk[u].curr # 0 /\ own[t].at >= walk[u].curr

\* The inductive invariant.
SlotsInv == SlotsType /\ InList /\ Exclusive /\ StillToCome

\* The empty list of ReusableSlots::default satisfies the invariant.
LEMMA SlotsInitInv == Init => SlotsInv
BY SlotsAssumption, SMTT(60)
DEF Init, SlotsInv, SlotsType, InList, Exclusive, StillToCome, Owners, Owns, Index, Points

\* Every step of acquire_or_default, Entry::drop and SlotIter::next keeps it.
LEMMA SlotsStepInv == SlotsInv /\ [Next]_vars => SlotsInv'
<1> SUFFICES ASSUME SlotsInv, [Next]_vars
             PROVE  SlotsInv'
  OBVIOUS
<1>0. MaxNodes \in Nat
  BY SlotsAssumption
<1> USE <1>0 DEF SlotsInv
<1>1. ASSUME NEW t \in Threads, Acquire(t)
      PROVE  SlotsInv'
  BY <1>1, SMTT(60), Z3T(60) DEF Acquire, Move, At, SlotsType, InList, Exclusive, StillToCome, Owners, Owns,
              Index, Points, walkVars
<1>2. ASSUME NEW t \in Threads, Look(t)
      PROVE  SlotsInv'
  BY <1>2, SMTT(60), Z3T(60) DEF Look, Move, At, SlotsType, InList, Exclusive, StillToCome, Owners, Owns,
              Index, Points, walkVars
<1>3. ASSUME NEW t \in Threads, AppendNode(t)
      PROVE  SlotsInv'
  <2> DEFINE i == own[t].at
  <2>0. i \in Nat /\ i # 0 /\ i <= MaxNodes /\ At(t, "append")
    BY <1>3, SMTT(60) DEF AppendNode, At, SlotsType, InList
  <2>1. CASE len < i
    <3>1. /\ len' = i
          /\ using' = [using EXCEPT ![i] = TRUE]
          /\ own' = [own EXCEPT ![t] = [pc |-> "count", at |-> i]]
          /\ UNCHANGED <<walk, seen, since>>
      BY <1>3, <2>1 DEF AppendNode, Move, walkVars
    <3>4. SlotsType'
      BY <2>0, <2>1, <3>1, SMTT(60), Z3T(60) DEF At, SlotsType, InList, Index, Points
    <3>5. InList'
      BY <2>0, <2>1, <3>1, SMTT(60), Z3T(60) DEF At, SlotsType, InList, Index
    <3>6. Exclusive'
      BY <2>0, <2>1, <3>1, SMTT(60) DEF At, SlotsType, InList, Exclusive, Owners, Owns, Index
    <3>7. StillToCome'
      BY <2>0, <2>1, <3>1 DEF At, SlotsType, StillToCome, Exclusive, Owners, Owns, Index
    <3> QED
      BY <3>4, <3>5, <3>6, <3>7
  <2>2. CASE ~ (len < i)
    <3>1. /\ own' = [own EXCEPT ![t] = [pc |-> "look", at |-> i]]
          /\ UNCHANGED <<len, using, walk, seen, since>>
      BY <1>3, <2>2 DEF AppendNode, Move, walkVars
    <3> QED
      BY <2>0, <3>1 DEF At, SlotsType, InList, Exclusive, StillToCome, Owners, Owns, Index, Points
  <2> QED
    BY <2>1, <2>2
<1>4. ASSUME NEW t \in Threads, Take(t)
      PROVE  SlotsInv'
  <2> DEFINE i == own[t].at
  <2>0. i \in 1..len /\ At(t, "take")
    BY <1>4 DEF Take, At, InList
  <2>1. CASE using[i]
    <3>1. /\ own' = [own EXCEPT ![t] = [pc |-> "look", at |-> i + 1]]
          /\ UNCHANGED <<len, using, walk, seen, since>>
      BY <1>4, <2>1 DEF Take, Move, walkVars
    <3> QED
      BY <2>0, <3>1, SMTT(60), Z3T(60) DEF At, SlotsType, InList, Exclusive, StillToCome, Owners, Owns, Index, Points
  <2>2. CASE ~ using[i]
    <3>1. /\ using' = [using EXCEPT ![i] = TRUE]
          /\ own' = [own EXCEPT ![t] = [pc |-> "count", at |-> i]]
          /\ UNCHANGED <<len, walk, seen, since>>
      BY <1>4, <2>2 DEF Take, Move, walkVars
    <3>4. SlotsType'
      BY <2>0, <2>2, <3>1 DEF At, SlotsType, InList, Index, Points
    <3>5. InList'
      BY <2>0, <2>2, <3>1 DEF At, SlotsType, InList, Index
    <3>6. Exclusive'
      BY <2>0, <2>2, <3>1, SMTT(60) DEF At, SlotsType, InList, Exclusive, Owners, Owns, Index
    <3>7. StillToCome'
      BY <2>0, <2>2, <3>1 DEF At, SlotsType, StillToCome, Exclusive, Owners, Owns, Index
    <3> QED
      BY <3>4, <3>5, <3>6, <3>7
  <2> QED
    BY <2>1, <2>2
<1>5. ASSUME NEW t \in Threads, Count(t)
      PROVE  SlotsInv'
  BY <1>5, SMTT(60), Z3T(60) DEF Count, Move, At, SlotsType, InList, Exclusive, StillToCome, Owners, Owns,
              Index, Points, walkVars
<1>6. ASSUME NEW t \in Threads, Uncount(t)
      PROVE  SlotsInv'
  BY <1>6, SMTT(60), Z3T(60) DEF Uncount, Move, At, SlotsType, InList, Exclusive, StillToCome, Owners, Owns,
              Index, Points, walkVars
<1>7. ASSUME NEW t \in Threads, Clear(t)
      PROVE  SlotsInv'
  BY <1>7, SMTT(60), Z3T(60) DEF Clear, Move, At, SlotsType, InList, Exclusive, StillToCome, Owners, Owns,
              Index, Points
<1>8. ASSUME NEW u \in Walkers, WalkBegin(u)
      PROVE  SlotsInv'
  BY <1>8, SMTT(60) DEF WalkBegin, Walk, SlotsType, InList, Exclusive, StillToCome, Owners, Owns,
              Index, Points
<1>9. ASSUME NEW u \in Walkers, WalkLoad(u)
      PROVE  SlotsInv'
  <2>1. SlotsType'
    BY <1>9, SMTT(60), Z3T(60) DEF WalkLoad, Walk, SlotsType, InList, Index, Points
  <2>2. InList'
    BY <1>9, SMTT(60) DEF WalkLoad, Walk, SlotsType, InList, Index
  <2>3. Exclusive'
    BY <1>9 DEF WalkLoad, Walk, SlotsType, InList, Exclusive, Owners, Owns, Index
  <2>4. StillToCome'
    BY <1>9, SMTT(60), Z3T(60) DEF WalkLoad, Walk, SlotsType, StillToCome, Exclusive, Owners, Owns, Index
  <2> QED
    BY <2>1, <2>2, <2>3, <2>4
<1>10. ASSUME NEW u \in Walkers, WalkTest(u)
       PROVE  SlotsInv'
  BY <1>10, SMTT(60), Z3T(60) DEF WalkTest, Walk, SlotsType, InList, Exclusive, StillToCome, Owners, Owns,
               Index, Points
<1>11. ASSUME NEW u \in Walkers, WalkEnd(u)
       PROVE  SlotsInv'
  BY <1>11, SMTT(60) DEF WalkEnd, WalkOver, Walk, SlotsType, InList, Exclusive, StillToCome, Owners,
               Owns, Index, Points
<1>12. CASE UNCHANGED vars
  BY <1>12 DEF vars, SlotsType, InList, Exclusive, StillToCome, Owners, Owns
<1> QED
  BY <1>1, <1>2, <1>3, <1>4, <1>5, <1>6, <1>7, <1>8, <1>9, <1>10, <1>11, <1>12
  DEF Next, AcquireStep

\* Exclusive holds in every state: acquire_or_default gives an entry to one thread
\* at a time.
THEOREM ExclusiveHolds == Spec => []Exclusive
<1>1. SlotsInv => Exclusive
  BY DEF SlotsInv
<1> QED
  BY <1>1, SlotsInitInv, SlotsStepInv, PTL DEF Spec

\* WalkComplete holds in every state: iter_using misses no thread that had its
\* entry throughout the walk.
THEOREM WalksComplete == Spec => []WalkComplete
<1>1. SlotsInv => WalkComplete
  BY DEF SlotsInv, StillToCome, WalkComplete, WalkOver
<1> QED
  BY <1>1, SlotsInitInv, SlotsStepInv, PTL DEF Spec
-----------------------------------------------------------------------------
\* The threads that look at or have an entry from place i on.
Beyond(i) == {t \in Threads : own[t].at >= i}

\* A thread goes on past an entry only if another thread has it, so the farther along the
\* list, the fewer threads.
Room ==
  /\ \A i \in Index : using[i] => \E t \in Owners : own[t].at = i
  /\ \A i \in Nat \ {0} : Beyond(i) # {} => Cardinality(Beyond(i)) + i <= Cardinality(Threads) + 1
  /\ Compact

\* Nobody has moved on when the list is empty.
LEMMA RoomInit == IsFiniteSet(Threads) /\ Init => Room
<1> SUFFICES ASSUME IsFiniteSet(Threads), Init PROVE Room OBVIOUS
<1>1. \A i \in Nat \ {0} : Beyond(i) = {} BY SMTT(60) DEF Init, Beyond
<1>2. Cardinality(Threads) \in Nat BY FS_CardinalityType
<1> QED BY <1>1, <1>2, SMTT(60) DEF Room, Init, Compact, Index

\* The bound at i when no thread comes to i or beyond.
LEMMA FewerBeyond ==
  ASSUME IsFiniteSet(Threads), Room, NEW i \in Nat \ {0}, Beyond(i)' \subseteq Beyond(i),
         Beyond(i)' # {}
  PROVE  Cardinality(Beyond(i)') + i <= Cardinality(Threads) + 1
<1>1. IsFiniteSet(Beyond(i)) BY FS_Subset DEF Beyond
<1>2. /\ IsFiniteSet(Beyond(i)') /\ Cardinality(Beyond(i)') <= Cardinality(Beyond(i))
  BY <1>1, FS_Subset
<1>3. /\ Cardinality(Beyond(i)') \in Nat /\ Cardinality(Beyond(i)) \in Nat
      /\ Cardinality(Threads) \in Nat
  BY <1>1, <1>2, FS_CardinalityType
<1>4. Cardinality(Beyond(i)) + i <= Cardinality(Threads) + 1 BY DEF Room
<1> QED BY <1>2, <1>3, <1>4, SMTT(60), Z3T(60)

\* The bound at i + 1 when t goes on from i, which s has.
LEMMA OneMoreBeyond ==
  ASSUME IsFiniteSet(Threads), SlotsType, Room, NEW i \in Nat \ {0},
         NEW s \in Threads, NEW t \in Threads, s # t, own[s].at = i, own[t].at = i,
         Beyond(i + 1)' \subseteq Beyond(i + 1) \cup {t}
  PROVE  Cardinality(Beyond(i + 1)') + (i + 1) <= Cardinality(Threads) + 1
<1>1. IsFiniteSet(Beyond(i)) BY FS_Subset DEF Beyond
<1>2. s \in Beyond(i) /\ t \in Beyond(i) BY SMTT(60) DEF Beyond
<1>3. Beyond(i + 1) \subseteq (Beyond(i) \ {s}) \ {t} BY SMTT(60) DEF Beyond, SlotsType
<1>4. /\ IsFiniteSet(Beyond(i) \ {s}) /\ Cardinality(Beyond(i) \ {s}) = Cardinality(Beyond(i)) - 1
  BY <1>1, <1>2, FS_RemoveElement
<1>5. Beyond(i + 1)' \subseteq Beyond(i) \ {s} BY <1>2, <1>3
<1>6. /\ IsFiniteSet(Beyond(i + 1)')
      /\ Cardinality(Beyond(i + 1)') <= Cardinality(Beyond(i) \ {s})
  BY <1>4, <1>5, FS_Subset
<1>7. /\ Cardinality(Beyond(i + 1)') \in Nat /\ Cardinality(Beyond(i)) \in Nat
      /\ Cardinality(Threads) \in Nat
  BY <1>1, <1>6, FS_CardinalityType
<1>8. Cardinality(Beyond(i)) + i <= Cardinality(Threads) + 1 BY <1>2 DEF Room
<1> QED BY <1>4, <1>6, <1>7, <1>8, SMTT(60)

\* Every step keeps the bounds.
LEMMA RoomStep ==
  ASSUME IsFiniteSet(Threads), SlotsInv, SlotsInv', Room, [Next]_vars
  PROVE  Room'
<1> DEFINE N == Cardinality(Threads)
<1>0. N \in Nat /\ MaxNodes \in Nat BY FS_CardinalityType, SlotsAssumption
<1>1. ASSUME NEW t \in Threads, Acquire(t) PROVE Room'
  <2>1. own' = [own EXCEPT ![t] = [pc |-> "look", at |-> 1]] /\ UNCHANGED <<len, using>>
        /\ own[t].pc = "out"
    BY <1>1 DEF Acquire, Move, At
  <2>2. \A i \in Nat \ {0, 1} : Beyond(i)' \subseteq Beyond(i)
    BY <2>1, SMTT(60) DEF Beyond, SlotsInv, SlotsType
  <2>3. Cardinality(Beyond(1)') <= N BY FS_Subset DEF Beyond
  <2>4. Beyond(1)' # {} => Cardinality(Beyond(1)') + 1 <= N + 1
    <3>1. IsFiniteSet(Beyond(1)') BY FS_Subset DEF Beyond
    <3> QED BY <1>0, <2>3, <3>1, FS_CardinalityType, SMTT(60), Z3T(60)
  <2>5. \A i \in Nat \ {0} : Beyond(i)' # {} => Cardinality(Beyond(i)') + i <= N + 1
    BY <2>2, <2>4, FewerBeyond
  <2> QED BY <2>1, <2>5 DEF Room, Compact, Owners, Owns, SlotsInv, SlotsType
<1>2. ASSUME NEW t \in Threads, Take(t), using[own[t].at] PROVE Room'
  <2>0. PICK i : i = own[t].at OBVIOUS
  <2>1. /\ own' = [own EXCEPT ![t] = [pc |-> "look", at |-> i + 1]] /\ UNCHANGED <<len, using>>
        /\ own[t].pc = "take"
    BY <1>2, <2>0 DEF Take, Move, At
  <2>2. i \in Nat \ {0} /\ i \in Index BY <1>0, <2>0, <2>1, SMTT(60) DEF SlotsInv, InList, SlotsType, Index
  <2>3. PICK s \in Owners : own[s].at = i BY <1>2, <2>0, <2>2 DEF Room
  <2>4. s \in Threads /\ s # t BY <2>1 DEF Owners, Owns
  <2>5. Beyond(i + 1)' \subseteq Beyond(i + 1) \cup {t} BY <2>1 DEF Beyond, SlotsInv, SlotsType
  <2>6. Cardinality(Beyond(i + 1)') + (i + 1) <= N + 1
    BY <2>0, <2>2, <2>3, <2>4, <2>5, OneMoreBeyond DEF SlotsInv
  <2>7. \A k \in Nat \ {0} : k # i + 1 => Beyond(k)' \subseteq Beyond(k)
    <3>1. own'[t].at = i + 1 /\ own[t].at = i BY <2>0, <2>1 DEF SlotsInv, SlotsType
    <3>2. \A r \in Threads : r # t => own'[r] = own[r] BY <2>1 DEF SlotsInv, SlotsType
    <3> QED BY <2>2, <3>1, <3>2, SMTT(60) DEF Beyond
  <2>8. \A k \in Nat \ {0} : Beyond(k)' # {} => Cardinality(Beyond(k)') + k <= N + 1
    <3> SUFFICES ASSUME NEW k \in Nat \ {0}, Beyond(k)' # {}
                 PROVE  Cardinality(Beyond(k)') + k <= N + 1
      OBVIOUS
    <3>1. CASE k = i + 1 BY <2>6, <3>1
    <3>2. CASE k # i + 1 BY <2>7, <3>2, FewerBeyond
    <3> QED BY <3>1, <3>2
  <2> QED BY <2>1, <2>8 DEF Room, Compact, Owners, Owns, SlotsInv, SlotsType
<1>3. ASSUME NEW t \in Threads,
             Look(t) \/ AppendNode(t) \/ (Take(t) /\ ~ using[own[t].at]) \/ Count(t)
               \/ Uncount(t) \/ Clear(t)
      PROVE  Room'
  <2>1. \A k \in Nat \ {0} : Beyond(k)' \subseteq Beyond(k)
    BY <1>3, SMTT(60) DEF Look, AppendNode, Take, Count, Uncount, Clear, Move, Beyond, SlotsInv, SlotsType
  <2>2. \A k \in Nat \ {0} : Beyond(k)' # {} => Cardinality(Beyond(k)') + k <= N + 1
    BY <2>1, FewerBeyond
  <2>3. ASSUME NEW i \in Index, using'[i] PROVE \E s \in Owners' : own'[s].at = i
    <3>1. CASE using[i] /\ ~ (Clear(t) /\ own[t].at = i)
      <4>1. PICK s \in Owners : own[s].at = i BY <3>1 DEF Room
      <4>2. s \in Threads /\ own[s].pc \in {"count", "in", "clear"} BY DEF Owners, Owns
      <4>3. CASE s # t
        <5>1. own'[s] = own[s]
          BY <1>3, <4>2, <4>3 DEF Look, AppendNode, Take, Count, Uncount, Clear, Move, SlotsInv,
             SlotsType
        <5> QED BY <4>1, <4>2, <5>1 DEF Owners, Owns
      <4>4. CASE s = t
        <5>1. Count(t) \/ Uncount(t)
          BY <1>3, <3>1, <4>1, <4>2, <4>4 DEF Look, AppendNode, Take, At
        <5>2. own'[t].at = i /\ own'[t].pc \in {"in", "clear"}
          BY <4>1, <4>4, <5>1, SMTT(60), Z3T(60) DEF Count, Uncount, Move, SlotsInv, SlotsType
        <5> QED BY <5>2 DEF Owners, Owns
      <4> QED BY <4>3, <4>4
    <3>2. CASE Clear(t) /\ own[t].at = i
      BY <2>3, <3>2 DEF Clear, SlotsInv, SlotsType
    <3>3. CASE ~ using[i]
      BY <1>3, <2>3, <3>3, SMTT(60), Z3T(60) DEF Look, AppendNode, Take, Count, Uncount, Clear, Move, At,
         Owners, Owns, SlotsInv, SlotsType, Index, InList
    <3> QED BY <3>1, <3>2, <3>3
  <2>4. Compact'
    <3>1. CASE AppendNode(t) /\ len < own[t].at
      <4>1. len' = own[t].at /\ own'[t].at = own[t].at /\ own[t].at \in Nat \ {0}
        BY <1>0, <3>1, SMTT(60), Z3T(60) DEF AppendNode, Move, At, SlotsInv, SlotsType, InList
      <4>2. t \in Beyond(own[t].at) BY <4>1, SMTT(60) DEF Beyond
      <4>3. Cardinality(Beyond(own[t].at)) + own[t].at <= N + 1 BY <4>1, <4>2 DEF Room
      <4>4. IsFiniteSet(Beyond(own[t].at)) BY FS_Subset DEF Beyond
      <4>5. Cardinality(Beyond(own[t].at)) \in Nat \ {0} BY <4>2, <4>4, FS_EmptySet, FS_CardinalityType
      <4> QED BY <1>0, <4>1, <4>3, <4>5, SMTT(60), Z3T(60) DEF Compact
    <3>2. CASE len' = len BY <3>2 DEF Compact, Room
    <3> QED BY <1>3, <3>1, <3>2 DEF Look, AppendNode, Take, Count, Uncount, Clear
  <2> QED BY <2>2, <2>3, <2>4 DEF Room
<1>4. CASE UNCHANGED <<len, using, own>>
  <2>1. \A k \in Nat \ {0} : Beyond(k)' = Beyond(k) BY <1>4 DEF Beyond
  <2>2. \A k \in Nat \ {0} : Beyond(k)' # {} => Cardinality(Beyond(k)') + k <= N + 1
    BY <2>1 DEF Room
  <2> QED BY <1>4, <2>2 DEF Room, Compact, Owners, Owns
<1>5. CASE \E u \in Walkers : WalkBegin(u) \/ WalkLoad(u) \/ WalkTest(u) \/ WalkEnd(u)
  BY <1>4, <1>5 DEF WalkBegin, WalkLoad, WalkTest, WalkEnd
<1> QED BY <1>1, <1>2, <1>3, <1>4, <1>5 DEF Next, AcquireStep, vars

\* Entries are reused: the list never gets longer than the number of threads, for any
\* number of them, although an entry that was passed may be free by the time a new one is
\* appended.
THEOREM CompactHolds == IsFiniteSet(Threads) => (Spec => []Compact)
<1> SUFFICES ASSUME IsFiniteSet(Threads) PROVE Spec => []Compact OBVIOUS
<1>1. Init => SlotsInv /\ Room BY SlotsInitInv, RoomInit
<1>2. SlotsInv /\ Room /\ [Next]_vars => SlotsInv' /\ Room' BY SlotsStepInv, RoomStep
<1>3. Room => Compact BY DEF Room
<1> QED BY <1>1, <1>2, <1>3, PTL DEF Spec

-----------------------------------------------------------------------------
(* The hazard pointers in the entries (Hazards.tla).                        *)

Content == Objs \cup {Null}
Arrays == UNION {[Hids(n) -> Content] : n \in Nat \ {0}}

\* A Local with the array a, the free slots st and the slots h of hazard pointers.
Tidy(a, st, h) ==
  \E n \in Nat \ {0} :
    /\ a \in [Hids(n) -> Content]
    /\ st \in Seq(Hids(n)) /\ h \subseteq Hids(n)
    /\ \A hid \in Hids(n) : hid \in h \/ \E i \in 1..Len(st) : st[i] = hid
    /\ \A i \in 1..Len(st) : st[i] \notin h
    /\ \A i, j \in 1..Len(st) : st[i] = st[j] => i = j
    /\ \A hid \in Hids(n) \ h : a[hid] = Null

TidyInv ==
  /\ hazards \in [Entries -> Seq(Arrays \cup {<<>>})]
  /\ availableHids \in [Entries -> Seq(Nat)]
  /\ hps \in [Entries -> SUBSET Nat]
  /\ \A e \in Entries : Len(hazards[e]) > 0 /\ Tidy(Array(e), availableHids[e], hps[e])

\* The constants a proof needs: threads make hazard pointers for objects, in arrays that
\* Local::default makes with some slots.
Parameters == Null \notin Objs /\ InitHps \in Nat \ {0}

-----------------------------------------------------------------------------
Free(st) == {st[i] : i \in DOMAIN st}

Apart(a, st, h) ==
  /\ Free(st) \cap h = {} /\ Free(st) \cup h = DOMAIN a
  /\ \A i, j \in DOMAIN st : st[i] = st[j] => i = j
  /\ \A hid \in DOMAIN a \ h : a[hid] = Null

\* What Tidy says, without its witness.
LEMMA TidyFacts ==
  ASSUME NEW a, NEW st, NEW h, Tidy(a, st, h)
  PROVE  /\ a \in Arrays /\ a # <<>>
         /\ st \in Seq(Nat) /\ h \in SUBSET Nat
         /\ h \subseteq DOMAIN a
         /\ Apart(a, st, h)
  <1>1. PICK n \in Nat \ {0} :
          /\ a \in [Hids(n) -> Content]
          /\ st \in Seq(Hids(n)) /\ h \subseteq Hids(n)
          /\ \A hid \in Hids(n) : hid \in h \/ \E i \in 1..Len(st) : st[i] = hid
          /\ \A i \in 1..Len(st) : st[i] \notin h
          /\ \A i, j \in 1..Len(st) : st[i] = st[j] => i = j
          /\ \A hid \in Hids(n) \ h : a[hid] = Null
    BY DEF Tidy
  <1>2. a \in Arrays BY <1>1 DEF Arrays
  <1>3. a # <<>>
    <2>1. 0 \in DOMAIN a BY <1>1, SMTT(60) DEF Hids
    <2>2. 0 \notin DOMAIN <<>> BY SMTT(60)
    <2> QED BY <2>1, <2>2
  <1>4. Hids(n) \subseteq Nat BY SMTT(60) DEF Hids
  <1>5. st \in Seq(Nat) BY <1>1, <1>4, SMTT(60), Z3T(60)
  <1>6. DOMAIN st = 1..Len(st) BY <1>1, SMTT(60), Z3T(60)
  <1>7. \A i \in DOMAIN st : st[i] \in Hids(n) BY <1>1, <1>6, SMTT(60), Z3T(60)
  <1> QED BY <1>1, <1>2, <1>3, <1>4, <1>5, <1>6, <1>7, SMTT(60), Z3T(60) DEF Apart, Free

\* acquire_hp with protect: the top of the stack becomes a hazard pointer.
LEMMA TidyStore ==
  ASSUME NEW a, NEW st, NEW h, Tidy(a, st, h), st # <<>>, NEW o \in Content
  PROVE  Tidy([a EXCEPT ![st[Len(st)]] = o], SubSeq(st, 1, Len(st) - 1), h \cup {st[Len(st)]})
  <1>1. PICK n \in Nat \ {0} :
          /\ a \in [Hids(n) -> Content]
          /\ st \in Seq(Hids(n)) /\ h \subseteq Hids(n)
          /\ \A hid \in Hids(n) : hid \in h \/ \E i \in 1..Len(st) : st[i] = hid
          /\ \A i \in 1..Len(st) : st[i] \notin h
          /\ \A i, j \in 1..Len(st) : st[i] = st[j] => i = j
          /\ \A hid \in Hids(n) \ h : a[hid] = Null
    BY DEF Tidy
  <1> DEFINE m == Len(st)
             top == st[m]
             rest == SubSeq(st, 1, m - 1)
  <1>2. m \in Nat /\ m > 0 /\ top \in Hids(n) BY <1>1, SMTT(60), Z3T(60)
  <1>3. rest \in Seq(Hids(n)) /\ Len(rest) = m - 1
    <2>1. \A i \in 1..(m - 1) : st[i] \in Hids(n) BY <1>1, <1>2, SMTT(60), Z3T(60)
    <2>2. 1 \in Int /\ m - 1 \in Int BY <1>2, SMTT(60), Z3T(60)
    <2>3. /\ SubSeq(st, 1, m - 1) \in Seq(Hids(n))
          /\ Len(SubSeq(st, 1, m - 1)) = IF 1 <= m - 1 THEN (m - 1) - 1 + 1 ELSE 0
      BY <2>1, <2>2, SubSeqProperties, SMTT(60), Z3T(60)
    <2> HIDE DEF m
    <2>4. (IF 1 <= m - 1 THEN (m - 1) - 1 + 1 ELSE 0) = m - 1 BY <1>2, SMTT(60), Z3T(60)
    <2> QED BY ONLY <2>3, <2>4, SMTT(60), Z3T(60) DEF rest
  <1>4. \A i \in 1..(m - 1) : rest[i] = st[i] BY <1>1, <1>2, SMTT(60)
  <1>5. [a EXCEPT ![top] = o] \in [Hids(n) -> Content] BY <1>1, <1>2
  <1>6. \A hid \in Hids(n) : hid \in h \cup {top} \/ \E i \in 1..Len(rest) : rest[i] = hid
    <2> SUFFICES ASSUME NEW hid \in Hids(n), hid \notin h, hid # top
                 PROVE  \E i \in 1..Len(rest) : rest[i] = hid
      OBVIOUS
    <2>1. PICK i \in 1..m : st[i] = hid BY <1>1
    <2>2. i \in 1..(m - 1) BY <2>1, <1>2, SMTT(60), Z3T(60)
    <2> QED BY <2>1, <2>2, <1>3, <1>4
  <1>7. \A i \in 1..Len(rest) : rest[i] \notin h \cup {top}
    <2> SUFFICES ASSUME NEW i \in 1..(m - 1) PROVE st[i] \notin h /\ st[i] # top
      BY <1>3, <1>4
    <2> QED BY <1>1, <1>2, SMTT(60)
  <1>8. \A i, j \in 1..Len(rest) : rest[i] = rest[j] => i = j
    <2> SUFFICES ASSUME NEW i \in 1..(m - 1), NEW j \in 1..(m - 1), st[i] = st[j] PROVE i = j
      BY <1>3, <1>4
    <2> QED BY <1>1, <1>2, SMTT(60), Z3T(60)
  <1>9. \A hid \in Hids(n) \ (h \cup {top}) : [a EXCEPT ![top] = o][hid] = Null BY <1>1
  <1>10. h \cup {top} \subseteq Hids(n) BY <1>1, <1>2
  <1> HIDE DEF rest, top, m
  <1>11. Tidy([a EXCEPT ![top] = o], rest, h \cup {top})
    BY <1>3, <1>5, <1>6, <1>7, <1>8, <1>9, <1>10 DEF Tidy
  <1> QED BY <1>11 DEF rest, top, m

\* HazardPointer::drop: the slot is cleared and goes back to the stack.
LEMMA TidyDrop ==
  ASSUME NEW a, NEW st, NEW h, Tidy(a, st, h), NEW hid \in h
  PROVE  Tidy([a EXCEPT ![hid] = Null], Append(st, hid), h \ {hid})
  <1>1. PICK n \in Nat \ {0} :
          /\ a \in [Hids(n) -> Content]
          /\ st \in Seq(Hids(n)) /\ h \subseteq Hids(n)
          /\ \A x \in Hids(n) : x \in h \/ \E i \in 1..Len(st) : st[i] = x
          /\ \A i \in 1..Len(st) : st[i] \notin h
          /\ \A i, j \in 1..Len(st) : st[i] = st[j] => i = j
          /\ \A x \in Hids(n) \ h : a[x] = Null
    BY DEF Tidy
  <1> DEFINE more == Append(st, hid)
  <1>2. hid \in Hids(n) /\ Len(st) \in Nat BY <1>1, SMTT(60)
  <1>3. more \in Seq(Hids(n)) /\ Len(more) = Len(st) + 1 BY <1>1, <1>2, SMTT(60), Z3T(60)
  <1>4. /\ \A i \in 1..Len(st) : more[i] = st[i]
        /\ more[Len(st) + 1] = hid
    BY <1>1, <1>2, SMTT(60)
  <1>5. [a EXCEPT ![hid] = Null] \in [Hids(n) -> Content] BY <1>1, <1>2 DEF Content
  <1>6. \A x \in Hids(n) : x \in h \ {hid} \/ \E i \in 1..Len(more) : more[i] = x
    <2> SUFFICES ASSUME NEW x \in Hids(n), x \notin h \/ x = hid
                 PROVE  \E i \in 1..Len(more) : more[i] = x
      OBVIOUS
    <2>1. CASE x = hid
      <3>1. Len(st) + 1 \in 1..Len(more) BY <1>2, <1>3, SMTT(60)
      <3> QED BY <3>1, <1>4, <2>1
    <2>2. CASE x \notin h
      <3>1. PICK i \in 1..Len(st) : st[i] = x BY <1>1, <2>2
      <3>2. i \in 1..Len(more) BY <1>2, <1>3, SMTT(60), Z3T(60)
      <3> QED BY <3>1, <3>2, <1>4
    <2> QED BY <2>1, <2>2
  <1>7. \A i \in 1..Len(more) : i \in 1..Len(st) \/ i = Len(st) + 1 BY <1>2, <1>3, SMTT(60), Z3T(60)
  <1>8. \A i \in 1..Len(more) : more[i] \notin h \ {hid} BY <1>1, <1>4, <1>7
  <1>9. \A i, j \in 1..Len(more) : more[i] = more[j] => i = j BY <1>1, <1>4, <1>7, SMTT(60)
  <1>10. \A x \in Hids(n) \ (h \ {hid}) : [a EXCEPT ![hid] = Null][x] = Null BY <1>1
  <1> QED BY <1>1, <1>3, <1>5, <1>6, <1>8, <1>9, <1>10 DEF Tidy

\* grow_hazards: the array doubles, and the slots that it gains are free.
LEMMA TidyGrow ==
  ASSUME NEW e, Tidy(Array(e), availableHids[e], hps[e]), availableHids[e] = <<>>
  PROVE  Tidy(Grown(e), availableHids[e] \o NewHids(e), hps[e])
  <1>1. PICK n \in Nat \ {0} :
          /\ Array(e) \in [Hids(n) -> Content]
          /\ availableHids[e] \in Seq(Hids(n)) /\ hps[e] \subseteq Hids(n)
          /\ \A hid \in Hids(n) :
               hid \in hps[e] \/ \E i \in 1..Len(availableHids[e]) : availableHids[e][i] = hid
          /\ \A hid \in Hids(n) \ hps[e] : Array(e)[hid] = Null
    BY DEF Tidy
  <1>2. Size(e) = n
    <2>1. DOMAIN Array(e) = 0..(n - 1) BY <1>1 DEF Hids
    <2>2. Cardinality(0..(n - 1)) = n BY FS_Interval, SMTT(60), Z3T(60)
    <2> QED BY <2>1, <2>2 DEF Size
  <1>3. hps[e] = Hids(n)
    <2>1. Len(availableHids[e]) = 0 BY SMTT(60)
    <2>2. 1..Len(availableHids[e]) = {} BY <2>1, SMTT(60)
    <2> QED BY ONLY <1>1, <2>2, ZenonT(60)
  <1> DEFINE new == [i \in 1..n |-> n + i - 1]
             both == [hid \in Hids(2 * n) |-> IF hid < n THEN Array(e)[hid] ELSE Null]
  <1>4. new \in Seq(Hids(2 * n)) /\ Len(new) = n
    <2>1. \A i \in 1..n : n + i - 1 \in Hids(2 * n) BY SMTT(60) DEF Hids
    <2> QED BY <2>1, SMTT(60)
  <1>5. availableHids[e] \o NewHids(e) = new
    <2>1. NewHids(e) = new BY <1>2 DEF NewHids
    <2> QED BY <2>1, <1>4, ConcatEmptySeq
  <1>6. both \in [Hids(2 * n) -> Content] BY <1>1, SMTT(60) DEF Hids, Content
  <1>7. \A hid \in Hids(2 * n) : hid \in hps[e] \/ \E i \in 1..n : new[i] = hid
    <2> SUFFICES ASSUME NEW hid \in Hids(2 * n), hid \notin Hids(n)
                 PROVE  \E i \in 1..n : new[i] = hid
      BY <1>3
    <2>1. hid - n + 1 \in 1..n BY SMTT(60) DEF Hids
    <2>2. new[hid - n + 1] = hid BY <2>1, SMTT(60) DEF Hids
    <2> QED BY <2>1, <2>2
  <1>8. \A i \in 1..n : new[i] \notin hps[e] BY <1>3, SMTT(60), Z3T(60) DEF Hids
  <1>9. \A i, j \in 1..n : new[i] = new[j] => i = j BY SMTT(60)
  <1>10. \A hid \in Hids(2 * n) \ hps[e] : both[hid] = Null BY <1>3, SMTT(60) DEF Hids
  <1>11. hps[e] \subseteq Hids(2 * n) BY <1>3, SMTT(60) DEF Hids
  <1>12. Grown(e) = both BY <1>2 DEF Grown
  <1> HIDE DEF new, both
  <1>13. 2 * n \in Nat \ {0} BY SMTT(60), Z3T(60)
  <1>14. Tidy(both, new, hps[e])
    BY <1>4, <1>6, <1>7, <1>8, <1>9, <1>10, <1>11, <1>13, SMTT(60), Z3T(60) DEF Tidy
  <1> QED BY <1>5, <1>12, <1>14

-----------------------------------------------------------------------------
LEMMA TidyInit == Parameters /\ HazardsInit => TidyInv
  <1> SUFFICES ASSUME Parameters, HazardsInit PROVE TidyInv OBVIOUS
  <1> DEFINE st == [i \in 1..InitHps |-> i - 1]
  <1>1. InitHps \in Nat \ {0} BY DEF Parameters
  <1>2. Nulls(InitHps) \in [Hids(InitHps) -> Content] BY DEF Nulls, Content
  <1>3. Nulls(InitHps) \in Arrays BY <1>1, <1>2 DEF Arrays
  <1>4. st \in Seq(Hids(InitHps)) /\ st \in Seq(Nat) /\ Len(st) = InitHps
    <2>1. \A i \in 1..InitHps : i - 1 \in Hids(InitHps) /\ i - 1 \in Nat BY <1>1, SMTT(60) DEF Hids
    <2> QED BY <1>1, <2>1, SMTT(60)
  <1>5. \A hid \in Hids(InitHps) : \E i \in 1..Len(st) : st[i] = hid
    <2> SUFFICES ASSUME NEW hid \in Hids(InitHps) PROVE \E i \in 1..InitHps : st[i] = hid
      BY <1>4
    <2>1. hid + 1 \in 1..InitHps /\ st[hid + 1] = hid BY <1>1, SMTT(60) DEF Hids
    <2> QED BY <2>1
  <1>6. \A i, j \in 1..Len(st) : st[i] = st[j] => i = j BY <1>1, <1>4, SMTT(60)
  <1>7. \A hid \in Hids(InitHps) : Nulls(InitHps)[hid] = Null BY DEF Nulls
  <1>8. Tidy(Nulls(InitHps), st, {})
    <2> HIDE DEF st
    <2> QED BY <1>1, <1>2, <1>4, <1>5, <1>6, <1>7 DEF Tidy
  <1>9. <<Nulls(InitHps)>> \in Seq(Arrays \cup {<<>>}) BY <1>3, SMTT(60)
  <1>10. hazards \in [Entries -> Seq(Arrays \cup {<<>>})] BY <1>9 DEF HazardsInit
  <1>11. availableHids \in [Entries -> Seq(Nat)] BY <1>4 DEF HazardsInit
  <1>12. hps \in [Entries -> SUBSET Nat] BY DEF HazardsInit
  <1>13. ASSUME NEW e \in Entries
         PROVE  Len(hazards[e]) > 0 /\ Tidy(Array(e), availableHids[e], hps[e])
    <2>1. /\ hazards[e] = <<Nulls(InitHps)>> /\ availableHids[e] = st /\ hps[e] = {}
      BY DEF HazardsInit
    <2>2. Len(hazards[e]) = 1 /\ Array(e) = Nulls(InitHps) BY <2>1, SMTT(60) DEF Array, Current
    <2> QED BY <1>8, <2>1, <2>2, SMTT(60)
  <1> QED BY <1>10, <1>11, <1>12, <1>13 DEF TidyInv

\* A step that changes one Local and leaves it tidy.
LEMMA OneLocal ==
  ASSUME TidyInv, NEW e \in Entries,
         NEW hs \in Seq(Arrays \cup {<<>>}), Len(hs) > 0,
         NEW st, NEW h, Tidy(hs[Len(hs)], st, h),
         hazards' = [hazards EXCEPT ![e] = hs],
         availableHids' = [availableHids EXCEPT ![e] = st],
         hps' = [hps EXCEPT ![e] = h]
  PROVE  TidyInv'
  <1>1. st \in Seq(Nat) /\ h \in SUBSET Nat BY TidyFacts
  <1>2. /\ hazards' \in [Entries -> Seq(Arrays \cup {<<>>})]
        /\ availableHids' \in [Entries -> Seq(Nat)]
        /\ hps' \in [Entries -> SUBSET Nat]
    BY <1>1 DEF TidyInv
  <1>3. ASSUME NEW x \in Entries
        PROVE  Len(hazards'[x]) > 0 /\ Tidy(hazards'[x][Len(hazards'[x])], availableHids'[x], hps'[x])
    <2>1. CASE x = e
      <3>1. hazards'[x] = hs /\ availableHids'[x] = st /\ hps'[x] = h BY <2>1 DEF TidyInv
      <3> QED BY <3>1
    <2>2. CASE x # e
      <3>1. hazards'[x] = hazards[x] /\ availableHids'[x] = availableHids[x] /\ hps'[x] = hps[x]
        BY <2>2 DEF TidyInv
      <3> QED BY <3>1 DEF TidyInv, Array, Current
    <2> QED BY <2>1, <2>2
  <1> QED BY <1>2, <1>3 DEF TidyInv, Array, Current

\* What TidyInv says of one Local.
LEMMA LocalFacts ==
  ASSUME TidyInv, NEW e \in Entries
  PROVE  /\ hazards[e] \in Seq(Arrays \cup {<<>>})
         /\ Current(e) \in 1..Len(hazards[e]) /\ Current(e) = Len(hazards[e])
         /\ Array(e) = hazards[e][Current(e)]
         /\ Tidy(Array(e), availableHids[e], hps[e])
  BY SMTT(60) DEF TidyInv, Current, Array

\* A step that writes to the current array of one Local.
LEMMA OneArray ==
  ASSUME TidyInv, NEW e \in Entries, NEW a, NEW st, NEW h, Tidy(a, st, h),
         hazards' = [hazards EXCEPT ![e] = [hazards[e] EXCEPT ![Current(e)] = a]],
         availableHids' = [availableHids EXCEPT ![e] = st],
         hps' = [hps EXCEPT ![e] = h]
  PROVE  TidyInv'
  <1> DEFINE hs == [hazards[e] EXCEPT ![Current(e)] = a]
  <1>1. a \in Arrays BY TidyFacts
  <1>2. hs \in Seq(Arrays \cup {<<>>}) /\ Len(hs) = Len(hazards[e]) /\ hs[Current(e)] = a
    BY <1>1, LocalFacts, ExceptSeq, SMTT(60), Z3T(60)
  <1>3. Len(hs) > 0 /\ hs[Len(hs)] = a BY <1>2, LocalFacts, SMTT(60)
  <1> HIDE DEF hs
  <1>4. hazards' = [hazards EXCEPT ![e] = hs] BY DEF hs
  <1> QED BY <1>2, <1>3, <1>4, OneLocal

\* acquire_hp and protect take one free slot.
LEMMA TidyUnderStore ==
  ASSUME TidyInv, NEW e \in Entries, NEW o \in Content, NEW from, Store(e, o, from)
  PROVE  TidyInv'
  <1> DEFINE st == availableHids[e]
             hid == st[Len(st)]
  <1>1. Tidy([Array(e) EXCEPT ![hid] = o], SubSeq(st, 1, Len(st) - 1), hps[e] \cup {hid})
    BY LocalFacts, TidyStore DEF Store
  <1>2. /\ hazards' = [hazards EXCEPT ![e] =
              [hazards[e] EXCEPT ![Current(e)] = [Array(e) EXCEPT ![hid] = o]]]
        /\ availableHids' = [availableHids EXCEPT ![e] = SubSeq(st, 1, Len(st) - 1)]
        /\ hps' = [hps EXCEPT ![e] = hps[e] \cup {hid}]
    BY LocalFacts DEF Store, Array
  <1> HIDE DEF hid, st
  <1> QED BY <1>1, <1>2, OneArray

\* Dropping a hazard pointer clears and frees its slot.
LEMMA TidyUnderDrop ==
  ASSUME TidyInv, NEW e \in Entries, NEW hid, Drop(e, hid)
  PROVE  TidyInv'
  <1>1. Tidy([Array(e) EXCEPT ![hid] = Null], Append(availableHids[e], hid), hps[e] \ {hid})
    BY LocalFacts, TidyDrop DEF Drop
  <1>2. /\ hazards' = [hazards EXCEPT ![e] =
              [hazards[e] EXCEPT ![Current(e)] = [Array(e) EXCEPT ![hid] = Null]]]
        /\ availableHids' = [availableHids EXCEPT ![e] = Append(availableHids[e], hid)]
        /\ hps' = [hps EXCEPT ![e] = hps[e] \ {hid}]
    BY LocalFacts DEF Drop, Dropped, Array
  <1> QED BY <1>1, <1>2, OneArray

\* grow_hazards keeps the slots in use and adds free ones.
LEMMA TidyUnderGrow ==
  ASSUME TidyInv, NEW e \in Entries, GrowHazards(e)
  PROVE  TidyInv'
  <1> DEFINE hs == [hazards[e] EXCEPT ![Current(e)] = Outgrown(e)]
             st == availableHids[e] \o NewHids(e)
  <1>1. Tidy(Grown(e), st, hps[e]) BY LocalFacts, TidyGrow DEF GrowHazards
  <1>2. Outgrown(e) \in Arrays BY LocalFacts, TidyFacts DEF Outgrown
  <1>3. Grown(e) \in Arrays BY <1>1, TidyFacts
  <1>4. hs \in Seq(Arrays \cup {<<>>}) BY <1>2, LocalFacts, ExceptSeq
  <1>5. /\ Append(hs, Grown(e)) \in Seq(Arrays \cup {<<>>})
        /\ Len(Append(hs, Grown(e))) > 0
        /\ Append(hs, Grown(e))[Len(Append(hs, Grown(e)))] = Grown(e)
    <2> HIDE DEF hs
    <2> QED BY <1>3, <1>4, AppendProperties, SMTT(60), Z3T(60)
  <1>6. /\ hazards' = [hazards EXCEPT ![e] = Append(hs, Grown(e))]
        /\ availableHids' = [availableHids EXCEPT ![e] = st]
        /\ hps' = [hps EXCEPT ![e] = hps[e]]
    BY DEF GrowHazards, TidyInv
  <1> HIDE DEF hs, st
  <1> DEFINE more == Append(hs, Grown(e))
  <1>7. more \in Seq(Arrays \cup {<<>>}) /\ Len(more) > 0 /\ Tidy(more[Len(more)], st, hps[e])
    BY <1>1, <1>5
  <1> HIDE DEF more
  <1>8. hazards' = [hazards EXCEPT ![e] = more] BY <1>6 DEF more
  <1> QED BY <1>6, <1>7, <1>8, OneLocal

\* An outgrown array is not the current one.
LEMMA TidyUnderDestroy ==
  ASSUME TidyInv, NEW e \in Entries, NEW n \in 1..Current(e), Destroy(e, n)
  PROVE  TidyInv'
  <1> DEFINE hs == [hazards[e] EXCEPT ![n] = <<>>]
  <1>1. n \in 1..Len(hazards[e]) /\ n # Len(hazards[e]) BY LocalFacts, SMTT(60), Z3T(60) DEF Destroy
  <1>2. /\ hs \in Seq(Arrays \cup {<<>>}) /\ Len(hs) = Len(hazards[e])
        /\ hs[Current(e)] = Array(e)
    BY <1>1, LocalFacts, ExceptSeq, SMTT(60), Z3T(60)
  <1>3. /\ hazards' = [hazards EXCEPT ![e] = hs]
        /\ availableHids' = [availableHids EXCEPT ![e] = availableHids[e]]
        /\ hps' = [hps EXCEPT ![e] = hps[e]]
    BY DEF Destroy, TidyInv
  <1> HIDE DEF hs
  <1>4. Len(hs) > 0 /\ Tidy(hs[Len(hs)], availableHids[e], hps[e]) BY <1>2, LocalFacts, SMTT(60)
  <1> QED BY <1>2, <1>3, <1>4, OneLocal

tidyVars == <<hazards, availableHids, hps>>

LEMMA TidyUnchanged == TidyInv /\ UNCHANGED tidyVars => TidyInv'
  BY DEF TidyInv, tidyVars, Array, Current

\* What a step does to the arrays.
Arrayed ==
  \/ \E e \in Entries : GrowHazards(e)
  \/ \E e \in Entries : \E n \in 1..Current(e) : Destroy(e, n)
  \/ \E e \in Entries, o \in Content : \E from \in {{}} \cup {{hid} : hid \in hps[e]} : Store(e, o, from)
  \/ \E e \in Entries : \E hid \in hps[e] : Drop(e, hid)

Scanning == PublishRT \/ BeginScan \/ ScanEntry \/ ScanSlot \/ EndScan

\* The kinds of steps, by what they do to a Local.
LEMMA StepKinds ==
  ASSUME TidyInv, [HazardsNext]_hazardVars
  PROVE  \/ Arrayed
         \/ UNCHANGED tidyVars /\ Scanning
         \/ UNCHANGED <<tidyVars, scan, deferred>>
  <1>1. CASE \E e \in Entries : Leave(e) \/ Register(e) \/ Pin(e) \/ Unpin(e)
    BY <1>1 DEF Leave, Register, Pin, Unpin, ownVars, tidyVars
  <1>2. CASE \E e \in Entries : \E o \in Objs : Protect(e, o)
    BY <1>2 DEF Protect, Arrayed, Content
  <1>3. CASE \E e \in Entries : \E hid \in hps[e] : Copy(e, hid)
    <2>1. PICK e \in Entries : \E hid \in hps[e] : Copy(e, hid) BY <1>3
    <2>2. PICK hid \in hps[e] : Copy(e, hid) BY <2>1
    <2>3. Array(e)[hid] \in Content BY LocalFacts, SMTT(60) DEF Tidy
    <2> QED BY <2>2, <2>3 DEF Copy, Arrayed
  <1>4. CASE Scanning
    BY <1>4 DEF Scanning, PublishRT, BeginScan, ScanEntry, ScanSlot, EndScan, ownVars, tidyVars
  <1>5. CASE UNCHANGED hazardVars BY <1>5 DEF hazardVars, tidyVars
  <1>6. CASE \E e \in Entries : GrowHazards(e) BY <1>6 DEF Arrayed
  <1>7. CASE \E e \in Entries : \E n \in 1..Current(e) : Destroy(e, n) BY <1>7 DEF Arrayed
  <1>8. CASE \E e \in Entries : \E hid \in hps[e] : Drop(e, hid) BY <1>8 DEF Arrayed
  <1> QED BY <1>1, <1>2, <1>3, <1>4, <1>5, <1>6, <1>7, <1>8 DEF HazardsNext, Scanning

LEMMA TidyStep == TidyInv /\ [HazardsNext]_hazardVars => TidyInv'
  <1> SUFFICES ASSUME TidyInv, [HazardsNext]_hazardVars PROVE TidyInv' OBVIOUS
  <1>1. CASE UNCHANGED tidyVars BY <1>1, TidyUnchanged
  <1>2. CASE Arrayed
    BY <1>2, TidyUnderGrow, TidyUnderDestroy, TidyUnderStore, TidyUnderDrop DEF Arrayed
  <1> QED BY <1>1, <1>2, StepKinds

LEMMA TidyMeans == TidyInv => HidsApart /\ UnusedIsClear
  <1> SUFFICES ASSUME TidyInv PROVE HidsApart /\ UnusedIsClear OBVIOUS
  <1>1. ASSUME NEW e \in Entries
        PROVE  /\ Free(availableHids[e]) \cap hps[e] = {}
               /\ Free(availableHids[e]) \cup hps[e] = DOMAIN Array(e)
               /\ \A i, j \in DOMAIN availableHids[e] :
                    availableHids[e][i] = availableHids[e][j] => i = j
               /\ \A hid \in DOMAIN Array(e) \ hps[e] : Array(e)[hid] = Null
    <2>1. Tidy(Array(e), availableHids[e], hps[e]) BY LocalFacts
    <2>2. Apart(Array(e), availableHids[e], hps[e]) BY <2>1, TidyFacts
    <2> QED BY <2>2 DEF Apart
  <1>2. HidsApart BY <1>1 DEF HidsApart, Free
  <1>3. UnusedIsClear BY <1>1 DEF UnusedIsClear
  <1> QED BY <1>2, <1>3

\* Every slot of a Local's array belongs to one hazard pointer or, once, to
\* available_hids, after any sequence of acquisitions, drops and growths.
THEOREM HidsApartHolds == Parameters => (HazardsSpec => []HidsApart)
  <1> SUFFICES ASSUME Parameters PROVE HazardsSpec => []HidsApart OBVIOUS
  <1>1. HazardsInit => TidyInv BY TidyInit
  <1>2. TidyInv /\ [HazardsNext]_hazardVars => TidyInv' BY TidyStep
  <1>3. TidyInv => HidsApart BY TidyMeans
  <1> QED BY <1>1, <1>2, <1>3, PTL DEF HazardsSpec

\* A slot that no hazard pointer has is null, so a Local that is given back protects
\* nothing.
THEOREM UnusedIsClearHolds == Parameters => (HazardsSpec => []UnusedIsClear)
  <1> SUFFICES ASSUME Parameters PROVE HazardsSpec => []UnusedIsClear OBVIOUS
  <1>1. HazardsInit => TidyInv BY TidyInit
  <1>2. TidyInv /\ [HazardsNext]_hazardVars => TidyInv' BY TidyStep
  <1>3. TidyInv => UnusedIsClear BY TidyMeans
  <1> QED BY <1>1, <1>2, <1>3, PTL DEF HazardsSpec

-----------------------------------------------------------------------------
\* The scan reads the current array of an entry, or one whose destruction is deferred.
ScanInv ==
  /\ scan = [pc |-> scan.pc, e |-> scan.e, array |-> scan.array, hid |-> scan.hid,
             seen |-> scan.seen]
  /\ scan.pc = "slot" =>
       /\ scan.e \in Entries /\ scan.array \in Nat
       /\ scan.array = Current(scan.e) \/ <<scan.e, scan.array>> \in deferred
  /\ \A e \in Entries, k \in Nat :
       <<e, k>> \in deferred => k \in 1..(Current(e) - 1) /\ hazards[e][k] # <<>>

LEMMA ScanInit == HazardsInit => ScanInv
  BY SMTT(60) DEF HazardsInit, ScanInv

\* A step that writes to the current array changes neither its place nor the others.
LEMMA WriteEffect ==
  ASSUME TidyInv, TidyInv', NEW e \in Entries, NEW a,
         hazards' = [hazards EXCEPT ![e] = [hazards[e] EXCEPT ![Current(e)] = a]]
  PROVE  /\ Array(e)' = a
         /\ \A x \in Entries : x # e => Array(x)' = Array(x)
         /\ \A x \in Entries : Current(x)' = Current(x)
         /\ \A x \in Entries : \A k \in 1..(Current(x) - 1) : hazards'[x][k] = hazards[x][k]
  <1>1. ASSUME NEW x \in Entries, x # e PROVE hazards'[x] = hazards[x] BY <1>1 DEF TidyInv
  <1>2. hazards'[e] = [hazards[e] EXCEPT ![Current(e)] = a] BY DEF TidyInv
  <1>3. /\ hazards[e] \in Seq(Arrays \cup {<<>>}) /\ Current(e) = Len(hazards[e])
        /\ Current(e) \in 1..Len(hazards[e])
    BY LocalFacts
  <1>4. hazards'[e] \in Seq(Arrays \cup {<<>>}) BY DEF TidyInv
  <1>5. DOMAIN hazards'[e] = DOMAIN hazards[e] BY <1>2
  <1>6. Len(hazards'[e]) = Len(hazards[e]) BY <1>3, <1>4, <1>5, SMTT(60), Z3T(60)
  <1>7. \A k \in 1..(Len(hazards[e]) - 1) : hazards'[e][k] = hazards[e][k] BY <1>2, <1>3, SMTT(60), Z3T(60)
  <1>8. hazards'[e][Len(hazards[e])] = a BY <1>2, <1>3, SMTT(60), Z3T(60)
  <1> QED BY <1>1, <1>6, <1>7, <1>8 DEF Current, Array

LEMMA ScanOneArray ==
  ASSUME TidyInv, TidyInv', ScanInv, NEW e \in Entries, NEW a,
         hazards' = [hazards EXCEPT ![e] = [hazards[e] EXCEPT ![Current(e)] = a]],
         UNCHANGED <<scan, deferred>>
  PROVE  ScanInv'
  <1>1. /\ \A x \in Entries : Len(hazards'[x]) = Len(hazards[x])
        /\ \A x \in Entries : \A k \in 1..(Len(hazards[x]) - 1) : hazards'[x][k] = hazards[x][k]
    BY WriteEffect DEF Current
  <1> QED BY <1>1 DEF ScanInv, Current

\* A growth appends an array that begins as the one before it.
LEMMA GrowEffect ==
  ASSUME TidyInv, NEW e \in Entries, GrowHazards(e)
  PROVE  /\ Current(e)' = Current(e) + 1
         /\ \A k \in 1..Current(e) : hazards'[e][k] = hazards[e][k]
         /\ \A x \in Entries : x # e => hazards'[x] = hazards[x]
         /\ \A hid \in DOMAIN Array(e) : Array(e)'[hid] = Array(e)[hid]
  <1> DEFINE c == Len(hazards[e])
  <1>1. /\ hazards[e] \in Seq(Arrays \cup {<<>>}) /\ c \in Nat /\ c > 0
        /\ Current(e) = c /\ Array(e) = hazards[e][c]
    BY LocalFacts, SMTT(60)
  <1>2. [hazards[e] EXCEPT ![c] = Outgrown(e)] = hazards[e] BY <1>1, SMTT(60) DEF Outgrown
  <1>3. hazards' = [hazards EXCEPT ![e] = Append(hazards[e], Grown(e))]
    BY <1>1, <1>2 DEF GrowHazards
  <1>4. hazards'[e] = Append(hazards[e], Grown(e)) BY <1>3 DEF TidyInv
  <1>5. Grown(e) \in Arrays
    <2>1. Tidy(Grown(e), availableHids[e] \o NewHids(e), hps[e])
      BY LocalFacts, TidyGrow DEF GrowHazards
    <2> QED BY <2>1, TidyFacts
  <1>6. /\ Len(hazards'[e]) = c + 1 /\ hazards'[e][c + 1] = Grown(e)
        /\ \A k \in 1..c : hazards'[e][k] = hazards[e][k]
    BY <1>1, <1>4, <1>5, AppendProperties, SMTT(60), Z3T(60)
  <1>7. \A x \in Entries : x # e => hazards'[x] = hazards[x] BY <1>3 DEF TidyInv
  <1>8. \A hid \in DOMAIN Array(e) : Grown(e)[hid] = Array(e)[hid]
    <2>1. PICK n \in Nat \ {0} : Array(e) \in [Hids(n) -> Content] BY LocalFacts DEF Tidy
    <2>2. Size(e) = n
      <3>1. DOMAIN Array(e) = 0..(n - 1) BY <2>1 DEF Hids
      <3>2. Cardinality(0..(n - 1)) = n BY FS_Interval, SMTT(60)
      <3> QED BY <3>1, <3>2 DEF Size
    <2> QED BY <2>1, <2>2, SMTT(60) DEF Grown, Hids
  <1> HIDE DEF c
  <1> QED BY <1>1, <1>6, <1>7, <1>8 DEF Current, Array

LEMMA ScanUnderGrow ==
  ASSUME TidyInv, ScanInv, NEW e \in Entries, GrowHazards(e)
  PROVE  ScanInv'
  <1> DEFINE c == Current(e)
  <1>1. c \in Nat /\ c > 0 /\ hazards[e][c] # <<>> BY LocalFacts, TidyFacts, SMTT(60), Z3T(60)
  <1>2. Len(hazards'[e]) = c + 1 /\ \A k \in 1..c : hazards'[e][k] = hazards[e][k]
    BY GrowEffect DEF Current
  <1>3. \A x \in Entries : x # e => hazards'[x] = hazards[x] BY GrowEffect
  <1>4. UNCHANGED scan BY DEF GrowHazards
  <1>5. /\ deferred \subseteq deferred' /\ deferred' \subseteq deferred \cup {<<e, c>>}
        /\ scan.pc = "slot" => <<e, c>> \in deferred'
    BY <1>1 DEF GrowHazards
  <1>6. scan'.pc = "slot" =>
          /\ scan'.e \in Entries /\ scan'.array \in Nat
          /\ scan'.array = Len(hazards'[scan'.e]) \/ <<scan'.e, scan'.array>> \in deferred'
    BY <1>1, <1>3, <1>4, <1>5 DEF ScanInv, Current
  <1>7. ASSUME NEW x \in Entries, NEW k \in Nat, <<x, k>> \in deferred'
        PROVE  k \in 1..(Len(hazards'[x]) - 1) /\ hazards'[x][k] # <<>>
    <2>1. CASE <<x, k>> = <<e, c>>
      <3>1. x = e /\ k = c BY <2>1
      <3> HIDE DEF c
      <3> QED BY <3>1, <1>1, <1>2, SMTT(60), Z3T(60)
    <2>2. CASE <<x, k>> \in deferred
      <3>1. k \in 1..(Len(hazards[x]) - 1) /\ hazards[x][k] # <<>> BY <2>2 DEF ScanInv, Current
      <3>2. CASE x = e BY <3>1, <3>2, <1>1, <1>2, SMTT(60), Z3T(60) DEF Current
      <3>3. CASE x # e BY <3>1, <3>3, <1>3
      <3> QED BY <3>2, <3>3
    <2> QED BY <2>1, <2>2, <1>5, <1>7
  <1> QED BY <1>4, <1>6, <1>7 DEF ScanInv, Current

LEMMA ScanUnderDestroy ==
  ASSUME TidyInv, ScanInv, NEW e \in Entries, NEW n \in 1..Current(e), Destroy(e, n)
  PROVE  ScanInv'
  <1>1. /\ hazards[e] \in Seq(Arrays \cup {<<>>}) /\ Current(e) = Len(hazards[e])
        /\ n \in 1..Len(hazards[e]) /\ <<e, n>> \notin deferred
        /\ UNCHANGED <<scan, deferred>>
    BY LocalFacts DEF Destroy
  <1>2. hazards' = [hazards EXCEPT ![e] = [hazards[e] EXCEPT ![n] = <<>>]]
    BY DEF Destroy
  <1>3. hazards'[e] = [hazards[e] EXCEPT ![n] = <<>>] BY <1>2 DEF TidyInv
  <1>4. /\ Len(hazards'[e]) = Len(hazards[e])
        /\ \A k \in 1..Len(hazards[e]) : k # n => hazards'[e][k] = hazards[e][k]
    BY <1>1, <1>3, ExceptSeq, SMTT(60), Z3T(60)
  <1>5. \A x \in Entries : x # e => hazards'[x] = hazards[x] BY <1>2 DEF TidyInv
  <1>6. \A x \in Entries : Len(hazards'[x]) = Len(hazards[x]) BY <1>4, <1>5
  <1>7. ASSUME NEW x \in Entries, NEW k \in Nat, <<x, k>> \in deferred'
        PROVE  k \in 1..(Len(hazards'[x]) - 1) /\ hazards'[x][k] # <<>>
    <2>1. k \in 1..(Len(hazards[x]) - 1) /\ hazards[x][k] # <<>> /\ <<x, k>> # <<e, n>>
      BY <1>1, <1>7 DEF ScanInv, Current
    <2>2. CASE x = e
      <3>1. k # n /\ Len(hazards[e]) \in Nat BY <2>1, <2>2, <1>1, SMTT(60), Z3T(60)
      <3> QED BY <2>1, <2>2, <3>1, <1>4, SMTT(60), Z3T(60)
    <2>3. CASE x # e BY <2>1, <2>3, <1>5
    <2> QED BY <2>2, <2>3
  <1>8. scan'.pc = "slot" =>
          /\ scan'.e \in Entries /\ scan'.array \in Nat
          /\ scan'.array = Len(hazards'[scan'.e]) \/ <<scan'.e, scan'.array>> \in deferred'
    BY <1>1, <1>6 DEF ScanInv, Current
  <1> QED BY <1>1, <1>7, <1>8 DEF ScanInv, Current

LEMMA ScanUnderScanning ==
  ASSUME TidyInv, ScanInv, Scanning, UNCHANGED tidyVars
  PROVE  ScanInv'
  <1> USE DEF tidyVars
  <1>1. CASE PublishRT BY <1>1 DEF PublishRT, ScanInv, Current
  <1>2. CASE BeginScan BY <1>2 DEF BeginScan, ScanInv, Current
  <1>3. CASE ScanEntry
    <2>1. Current(scan.e) \in Nat BY <1>3, LocalFacts, SMTT(60) DEF ScanEntry
    <2> QED BY <1>3, <2>1 DEF ScanEntry, ScanInv, Current
  <1>4. CASE ScanSlot BY <1>4 DEF ScanSlot, ScanInv, Current
  <1>5. CASE EndScan BY <1>5 DEF EndScan, ScanInv, Current
  <1> QED BY <1>1, <1>2, <1>3, <1>4, <1>5 DEF Scanning

LEMMA ScanUnderWrite ==
  ASSUME TidyInv, TidyInv', ScanInv, NEW e \in Entries,
         (\E o, from : Store(e, o, from)) \/ (\E hid : Drop(e, hid))
  PROVE  ScanInv'
  <1>1. \E a : hazards' = [hazards EXCEPT ![e] = [hazards[e] EXCEPT ![Current(e)] = a]]
    BY LocalFacts DEF Store, Drop, Array
  <1>2. UNCHANGED <<scan, deferred>> BY DEF Store, Drop
  <1> QED BY <1>1, <1>2, ScanOneArray

LEMMA ScanStep == TidyInv /\ TidyInv' /\ ScanInv /\ [HazardsNext]_hazardVars => ScanInv'
  <1> SUFFICES ASSUME TidyInv, TidyInv', ScanInv, [HazardsNext]_hazardVars PROVE ScanInv' OBVIOUS
  <1>1. CASE UNCHANGED <<tidyVars, scan, deferred>> BY <1>1 DEF ScanInv, tidyVars, Current
  <1>2. CASE UNCHANGED tidyVars /\ Scanning BY <1>2, ScanUnderScanning
  <1>3. CASE Arrayed
    BY <1>3, ScanUnderGrow, ScanUnderDestroy, ScanUnderWrite DEF Arrayed
  <1> QED BY <1>1, <1>2, <1>3, StepKinds

\* collect_hps reads no array that has been destroyed, however often grow_hazards replaces
\* it during the walk: the destruction waits for the walk's EBR guard.
THEOREM NoUseAfterFreeHolds == Parameters => (HazardsSpec => []NoUseAfterFree)
  <1> SUFFICES ASSUME Parameters PROVE HazardsSpec => []NoUseAfterFree OBVIOUS
  <1>1. HazardsInit => TidyInv /\ ScanInv BY TidyInit, ScanInit
  <1>2. TidyInv /\ ScanInv /\ [HazardsNext]_hazardVars => (TidyInv /\ ScanInv)' BY TidyStep, ScanStep
  <1>3. TidyInv /\ ScanInv => NoUseAfterFree
    <2> SUFFICES ASSUME TidyInv, ScanInv, scan.pc = "slot" PROVE Scanned # <<>>
      BY DEF NoUseAfterFree
    <2>1. CASE scan.array = Current(scan.e)
      <3>1. Array(scan.e) # <<>> BY LocalFacts, TidyFacts DEF ScanInv
      <3> QED BY <2>1, <3>1 DEF Scanned, Array
    <2>2. CASE <<scan.e, scan.array>> \in deferred BY <2>2 DEF ScanInv, Scanned
    <2> QED BY <2>1, <2>2 DEF ScanInv
  <1> QED BY <1>1, <1>2, <1>3, PTL DEF HazardsSpec
-----------------------------------------------------------------------------
\* Where the object of slot h of the entry e is while the scan goes on: seen already, or
\* in a slot that is still to be read, of the current array or of the one that is read.
Found(e, h) == Array(e)[h] \in scan.seen
Ahead(e, h) ==
  IF scan.array = Current(e) THEN h >= scan.hid \/ Found(e, h)
  ELSE Found(e, h) \/ \E k \in DOMAIN Scanned : k >= scan.hid /\ Scanned[k] = Array(e)[h]
Sought(e, h) ==
  /\ e < scan.e => Found(e, h)
  /\ scan.pc = "slot" /\ e = scan.e => Ahead(e, h)

\* Only a thread has hazard pointers, and they hold objects.
OwnInv ==
  /\ inUse \in [Entries -> BOOLEAN]
  /\ \A e \in Entries : hps[e] # {} => inUse[e]
  /\ \A e \in Entries : \A h \in hps[e] : Array(e)[h] \in Objs

SameInv ==
  /\ same \subseteq Entries \X Nat
  /\ same # {} => scan.pc \in {"entry", "slot"}
  /\ scan.pc \in {"entry", "slot"} => scan.e \in Nat \ {0}
  /\ scan.pc = "slot" => scan.hid \in DOMAIN Scanned
  /\ \A e \in Entries, h \in Nat : <<e, h>> \in same => h \in hps[e] /\ Sought(e, h)

\* The entries are the places of a list.
Listed == \E n \in Nat : Entries = 1..n

\* Nothing is being looked for before the first scan.
LEMMA SameInit == HazardsInit => OwnInv /\ SameInv
  BY SMTT(60) DEF HazardsInit, OwnInv, SameInv

\* The array that the scan reads.
LEMMA ScannedFacts ==
  ASSUME TidyInv, ScanInv, scan.pc = "slot"
  PROVE  /\ scan.e \in Entries /\ scan.array \in 1..Current(scan.e)
         /\ scan.array = Current(scan.e) => Scanned = Array(scan.e)
         /\ scan.array # Current(scan.e) => /\ <<scan.e, scan.array>> \in deferred
                                            /\ scan.array \in 1..(Current(scan.e) - 1)
         /\ Scanned \in Arrays
  <1>1. scan.e \in Entries /\ scan.array \in Nat BY DEF ScanInv
  <1>2. /\ hazards[scan.e] \in Seq(Arrays \cup {<<>>})
        /\ Current(scan.e) = Len(hazards[scan.e]) /\ Current(scan.e) \in 1..Len(hazards[scan.e])
        /\ Array(scan.e) = hazards[scan.e][Current(scan.e)]
    BY <1>1, LocalFacts
  <1>3. CASE scan.array = Current(scan.e)
    <2>1. Array(scan.e) \in Arrays BY <1>1, LocalFacts, TidyFacts
    <2> QED BY <1>1, <1>2, <1>3, <2>1 DEF Scanned
  <1>4. CASE scan.array # Current(scan.e)
    <2>1. /\ <<scan.e, scan.array>> \in deferred
          /\ scan.array \in 1..(Current(scan.e) - 1) /\ Scanned # <<>>
      BY <1>1, <1>4 DEF ScanInv, Scanned
    <2>2. scan.array \in 1..Len(hazards[scan.e]) BY <1>2, <2>1, SMTT(60), Z3T(60)
    <2>3. Scanned \in Arrays \cup {<<>>} BY <1>2, <2>2, SMTT(60), Z3T(60) DEF Scanned
    <2> QED BY <1>1, <1>2, <1>4, <2>1, <2>2, <2>3
  <1> QED BY <1>3, <1>4

\* A slot that Store takes.
LEMMA TopFacts ==
  ASSUME TidyInv, NEW e \in Entries, availableHids[e] # <<>>
  PROVE  LET hid == availableHids[e][Len(availableHids[e])]
         IN  hid \in DOMAIN Array(e) /\ hid \notin hps[e] /\ hid \in Nat
  <1> DEFINE st == availableHids[e]
             hid == st[Len(st)]
  <1>1. st \in Seq(Nat) /\ Apart(Array(e), st, hps[e]) BY LocalFacts, TidyFacts
  <1>2. Len(st) \in DOMAIN st BY <1>1, SMTT(60)
  <1>3. hid \in Free(st) BY <1>2 DEF Free
  <1>4. hid \in Nat BY <1>1, <1>2, SMTT(60)
  <1> HIDE DEF hid, st
  <1>5. hid \in DOMAIN Array(e) /\ hid \notin hps[e] BY <1>1, <1>3 DEF Apart
  <1> QED BY <1>4, <1>5 DEF hid, st

\* What a write to slot hid of the entry e leaves: the other slots, and what is scanned.
LEMMA SlotEffect ==
  ASSUME TidyInv, TidyInv', ScanInv, NEW e \in Entries, NEW hid \in DOMAIN Array(e), NEW v,
         hazards' = [hazards EXCEPT ![e] =
                       [hazards[e] EXCEPT ![Current(e)] = [Array(e) EXCEPT ![hid] = v]]],
         UNCHANGED scan
  PROVE  /\ \A x \in Entries : Current(x)' = Current(x)
         /\ \A x \in Entries, h \in Nat : <<x, h>> # <<e, hid>> => Array(x)'[h] = Array(x)[h]
         /\ Array(e)'[hid] = v
         /\ scan.pc = "slot" => DOMAIN Scanned' = DOMAIN Scanned
         /\ scan.pc = "slot" /\ scan.array # Current(scan.e) => Scanned' = Scanned
  <1> DEFINE a == [Array(e) EXCEPT ![hid] = v]
  <1>1. /\ a[hid] = v /\ DOMAIN a = DOMAIN Array(e)
        /\ \A h \in Nat : h # hid => a[h] = Array(e)[h]
    BY Z3
  <1> HIDE DEF a
  <1>2. hazards' = [hazards EXCEPT ![e] = [hazards[e] EXCEPT ![Current(e)] = a]] BY DEF a
  <1>3. /\ Array(e)' = a
        /\ \A x \in Entries : x # e => Array(x)' = Array(x)
        /\ \A x \in Entries : Current(x)' = Current(x)
        /\ \A x \in Entries : \A k \in 1..(Current(x) - 1) : hazards'[x][k] = hazards[x][k]
    BY <1>2, WriteEffect
  <1>4. ASSUME scan.pc = "slot", scan.array # Current(scan.e) PROVE Scanned' = Scanned
    BY <1>3, <1>4, ScannedFacts DEF Scanned
  <1>5. ASSUME scan.pc = "slot", scan.array = Current(scan.e)
        PROVE  DOMAIN Scanned' = DOMAIN Scanned
    <2>1. scan.e \in Entries /\ Scanned = Array(scan.e) BY <1>5, ScannedFacts
    <2>2. Current(scan.e)' = scan.array BY <1>3, <1>5, <2>1
    <2>3. Scanned' = Array(scan.e)' BY <2>2 DEF Scanned, Array
    <2>4. CASE scan.e = e BY <1>1, <1>3, <2>1, <2>3, <2>4
    <2>5. CASE scan.e # e BY <1>3, <2>1, <2>3, <2>5
    <2> QED BY <2>4, <2>5
  <1>6. ASSUME NEW x \in Entries, NEW h \in Nat, <<x, h>> # <<e, hid>>
        PROVE  Array(x)'[h] = Array(x)[h]
    BY <1>1, <1>3, <1>6
  <1> QED BY <1>1, <1>3, <1>4, <1>5, <1>6

\* What is in sight of the scan stays so, if its object and the scanned slots do.
LEMMA StillSought ==
  ASSUME NEW e \in Entries, NEW h \in Nat, UNCHANGED scan, Sought(e, h),
         Array(e)'[h] = Array(e)[h], Current(e)' = Current(e),
         scan.pc = "slot" /\ e = scan.e /\ scan.array # Current(scan.e) => Scanned' = Scanned
  PROVE  Sought(e, h)'
  <1>1. Found(e, h)' <=> Found(e, h) BY DEF Found
  <1>2. ASSUME scan.pc = "slot", e = scan.e PROVE Ahead(e, h)'
    <2>1. Ahead(e, h) BY <1>2 DEF Sought
    <2>2. CASE scan.array = Current(e) BY <1>1, <2>1, <2>2 DEF Ahead
    <2>3. CASE scan.array # Current(e)
      <3>1. Scanned' = Scanned BY <1>2, <2>3
      <3> QED BY <1>1, <2>1, <2>3, <3>1 DEF Ahead
    <2> QED BY <2>2, <2>3
  <1> QED BY <1>1, <1>2 DEF Sought

\* A new hazard pointer joins only what is found or ahead: it has a higher slot than its source.
LEMMA SameUnderStore ==
  ASSUME TidyInv, TidyInv', ScanInv, OwnInv, SameInv,
         NEW e \in Entries, NEW o \in Objs, NEW from \in SUBSET hps[e],
         \A h \in from : Array(e)[h] = o,
         Store(e, o, from)
  PROVE  OwnInv' /\ SameInv'
  <1>0. PICK hid : hid = availableHids[e][Len(availableHids[e])] OBVIOUS
  <1>1. hid \in DOMAIN Array(e) /\ hid \notin hps[e] /\ hid \in Nat BY <1>0, TopFacts DEF Store
  <1>2. /\ hazards' = [hazards EXCEPT ![e] =
              [hazards[e] EXCEPT ![Current(e)] = [Array(e) EXCEPT ![hid] = o]]]
        /\ hps' = [hps EXCEPT ![e] = hps[e] \cup {hid}]
        /\ same' = IF \E h \in from : h < hid /\ <<e, h>> \in same
                   THEN same \cup {<<e, hid>>} ELSE same
        /\ UNCHANGED <<inUse, scan>> /\ inUse[e]
    BY <1>0, LocalFacts DEF Store, Array
  <1>3. /\ \A x \in Entries : Current(x)' = Current(x)
        /\ \A x \in Entries, h \in Nat : <<x, h>> # <<e, hid>> => Array(x)'[h] = Array(x)[h]
        /\ Array(e)'[hid] = o
        /\ scan.pc = "slot" => DOMAIN Scanned' = DOMAIN Scanned
        /\ scan.pc = "slot" /\ scan.array # Current(scan.e) => Scanned' = Scanned
    BY <1>1, <1>2, SlotEffect
  <1>4. /\ \A x \in Entries : hps[x] \subseteq Nat
        /\ hps'[e] = hps[e] \cup {hid} /\ \A x \in Entries : x # e => hps'[x] = hps[x]
    BY <1>2 DEF TidyInv
  <1>5. OwnInv'
    <2>1. ASSUME NEW x \in Entries, NEW h \in hps'[x] PROVE Array(x)'[h] \in Objs
      <3>1. CASE <<x, h>> = <<e, hid>> BY <1>3, <3>1
      <3>2. CASE <<x, h>> # <<e, hid>>
        <4>1. h \in hps[x] BY <1>4, <2>1, <3>2
        <4>2. Array(x)'[h] = Array(x)[h] BY <1>3, <1>4, <3>2, <4>1
        <4> QED BY <4>1, <4>2 DEF OwnInv
      <3> QED BY <3>1, <3>2
    <2>2. \A x \in Entries : hps'[x] # {} => inUse'[x] BY <1>2, <1>4 DEF OwnInv
    <2> QED BY <1>2, <2>1, <2>2 DEF OwnInv
  <1>6. ASSUME NEW x \in Entries, NEW h \in Nat, <<x, h>> \in same
        PROVE  h \in hps'[x] /\ Sought(x, h)'
    <2>1. h \in hps[x] /\ Sought(x, h) BY <1>6 DEF SameInv
    <2>2. <<x, h>> # <<e, hid>> BY <1>1, <2>1
    <2>3. Array(x)'[h] = Array(x)[h] /\ Current(x)' = Current(x) BY <1>3, <2>2
    <2>4. scan.pc = "slot" /\ x = scan.e /\ scan.array # Current(scan.e) => Scanned' = Scanned
      BY <1>3
    <2>5. Sought(x, h)' BY <1>2, <2>1, <2>3, <2>4, StillSought
    <2> QED BY <1>4, <2>1, <2>5
  <1>7. ASSUME <<e, hid>> \in same' PROVE hid \in hps'[e] /\ Sought(e, hid)'
    <2>1. <<e, hid>> \notin same BY <1>1 DEF SameInv
    <2>2. PICK h \in from : h < hid /\ <<e, h>> \in same BY <1>2, <1>7, <2>1
    <2>3. h \in Nat /\ Array(e)[h] = o /\ h # hid BY <1>1, <1>4, <2>2
    <2>4. Sought(e, h)' BY <1>6, <2>2, <2>3
    <2>5. Array(e)'[hid] = Array(e)'[h] BY <1>3, <2>3
    <2>6. Found(e, h)' <=> Found(e, hid)' BY <2>5 DEF Found
    <2>7. ASSUME scan'.pc = "slot", e = scan'.e PROVE Ahead(e, hid)'
      <3>1. Ahead(e, h)' BY <2>4, <2>7 DEF Sought
      <3>2. CASE scan'.array = Current(e)'
        <4>1. scan'.hid \in Nat
          <5>1. scan.hid \in DOMAIN Scanned /\ Scanned \in Arrays
            BY <1>2, <2>7, ScannedFacts DEF SameInv
          <5> QED BY <1>2, <5>1, SMTT(60), Z3T(60) DEF Arrays, Hids
        <4>2. h >= scan'.hid \/ Found(e, h)' BY <3>1, <3>2 DEF Ahead
        <4>3. hid >= scan'.hid \/ Found(e, hid)' BY <1>1, <2>2, <2>3, <2>6, <4>1, <4>2, SMTT(60), Z3T(60)
        <4> QED BY <3>2, <4>3 DEF Ahead
      <3>3. CASE scan'.array # Current(e)' BY <2>5, <2>6, <3>1, <3>3 DEF Ahead
      <3> QED BY <3>2, <3>3
    <2>8. Sought(e, hid)' BY <2>4, <2>6, <2>7 DEF Sought
    <2> QED BY <1>4, <2>8
  <1>8. same' \subseteq same \cup {<<e, hid>>} BY <1>2
  <1>9. same' \subseteq Entries \X Nat BY <1>1, <1>8, SMTT(60), Z3T(60) DEF SameInv
  <1>10. same' # {} => scan'.pc \in {"entry", "slot"} BY <1>2 DEF SameInv
  <1>11. scan'.pc = "slot" => scan'.hid \in DOMAIN Scanned' BY <1>2, <1>3 DEF SameInv
  <1>12. ASSUME NEW x \in Entries, NEW h \in Nat, <<x, h>> \in same'
         PROVE  h \in hps'[x] /\ Sought(x, h)'
    <2>1. CASE <<x, h>> \in same BY <1>6, <2>1
    <2>2. CASE <<x, h>> = <<e, hid>>
      <3>1. x = e /\ h = hid BY <2>2
      <3> QED BY <1>7, <1>12, <3>1
    <2> QED BY <1>8, <1>12, <2>1, <2>2
  <1> QED BY <1>2, <1>5, <1>9, <1>10, <1>11, <1>12 DEF SameInv

\* A dropped hazard pointer is no longer looked for, and the other slots stay.
LEMMA SameUnderDrop ==
  ASSUME TidyInv, TidyInv', ScanInv, OwnInv, SameInv, NEW e \in Entries, NEW hid, Drop(e, hid)
  PROVE  OwnInv' /\ SameInv'
  <1>1. /\ hazards' = [hazards EXCEPT ![e] =
              [hazards[e] EXCEPT ![Current(e)] = [Array(e) EXCEPT ![hid] = Null]]]
        /\ hps' = [hps EXCEPT ![e] = hps[e] \ {hid}]
        /\ same' = same \ {<<e, hid>>}
        /\ UNCHANGED <<inUse, scan>> /\ hid \in hps[e]
    BY LocalFacts DEF Drop, Dropped, Array
  <1>2. hid \in DOMAIN Array(e) BY <1>1, LocalFacts, TidyFacts
  <1>3. /\ \A x \in Entries : Current(x)' = Current(x)
        /\ \A x \in Entries, h \in Nat : <<x, h>> # <<e, hid>> => Array(x)'[h] = Array(x)[h]
        /\ scan.pc = "slot" => DOMAIN Scanned' = DOMAIN Scanned
        /\ scan.pc = "slot" /\ scan.array # Current(scan.e) => Scanned' = Scanned
    BY <1>1, <1>2, SlotEffect
  <1>4. /\ \A x \in Entries : hps[x] \subseteq Nat
        /\ hps'[e] = hps[e] \ {hid} /\ \A x \in Entries : x # e => hps'[x] = hps[x]
    BY <1>1 DEF TidyInv
  <1>5. OwnInv'
    <2>1. ASSUME NEW x \in Entries, NEW h \in hps'[x] PROVE Array(x)'[h] \in Objs
      <3>1. h \in hps[x] /\ <<x, h>> # <<e, hid>> BY <1>4, <2>1
      <3>2. Array(x)'[h] = Array(x)[h] BY <1>3, <1>4, <3>1
      <3> QED BY <3>1, <3>2 DEF OwnInv
    <2>2. \A x \in Entries : hps'[x] # {} => inUse'[x] BY <1>1, <1>4 DEF OwnInv
    <2> QED BY <1>1, <2>1, <2>2 DEF OwnInv
  <1>6. ASSUME NEW x \in Entries, NEW h \in Nat, <<x, h>> \in same'
        PROVE  h \in hps'[x] /\ Sought(x, h)'
    <2>1. <<x, h>> \in same /\ <<x, h>> # <<e, hid>> BY <1>1, <1>6
    <2>2. h \in hps[x] /\ Sought(x, h) BY <2>1 DEF SameInv
    <2>3. Array(x)'[h] = Array(x)[h] /\ Current(x)' = Current(x) BY <1>3, <2>1
    <2>4. scan.pc = "slot" /\ x = scan.e /\ scan.array # Current(scan.e) => Scanned' = Scanned
      BY <1>3
    <2>5. Sought(x, h)' BY <1>1, <2>2, <2>3, <2>4, StillSought
    <2>6. h \in hps'[x] BY <1>4, <2>1, <2>2
    <2> QED BY <2>5, <2>6
  <1>7. scan'.pc = "slot" => scan'.hid \in DOMAIN Scanned' BY <1>1, <1>3 DEF SameInv
  <1> QED BY <1>1, <1>5, <1>6, <1>7 DEF SameInv

\* grow_hazards: the scan goes on with the outgrown array, whose content the new one has.
LEMMA SameUnderGrow ==
  ASSUME TidyInv, ScanInv, OwnInv, SameInv, NEW e \in Entries, GrowHazards(e)
  PROVE  OwnInv' /\ SameInv'
  <1>1. UNCHANGED <<inUse, hps, scan, same>> BY DEF GrowHazards, historyVars
  <1>2. /\ Current(e)' = Current(e) + 1
        /\ \A k \in 1..Current(e) : hazards'[e][k] = hazards[e][k]
        /\ \A x \in Entries : x # e => hazards'[x] = hazards[x]
        /\ \A hid \in DOMAIN Array(e) : Array(e)'[hid] = Array(e)[hid]
    BY GrowEffect
  <1>3. \A x \in Entries : x # e => Array(x)' = Array(x) /\ Current(x)' = Current(x)
    BY <1>2 DEF Array, Current
  <1>4. \A x \in Entries : hps[x] \subseteq DOMAIN Array(x) BY LocalFacts, TidyFacts
  <1>5. \A x \in Entries : \A h \in hps[x] : Array(x)'[h] = Array(x)[h] BY <1>2, <1>3, <1>4
  <1>6. scan.pc = "slot" => Scanned' = Scanned
    BY <1>1, <1>2, ScannedFacts DEF Scanned
  <1>7. OwnInv' BY <1>1, <1>5 DEF OwnInv
  <1>8. ASSUME NEW x \in Entries, NEW h \in Nat, <<x, h>> \in same PROVE Sought(x, h)'
    <2>1. h \in hps[x] /\ Sought(x, h) BY <1>8 DEF SameInv
    <2>2. Array(x)'[h] = Array(x)[h] BY <1>5, <2>1
    <2>3. CASE x # e
      <3>1. Current(x)' = Current(x) BY <1>3, <2>3
      <3> QED BY <1>1, <1>6, <2>1, <2>2, <3>1, StillSought
    <2>4. CASE x = e
      <3>1. Found(x, h)' <=> Found(x, h) BY <1>1, <2>2 DEF Found
      <3>2. ASSUME scan.pc = "slot", x = scan.e PROVE Ahead(x, h)'
        <4>1. Ahead(x, h) BY <2>1, <3>2 DEF Sought
        <4>2. scan.array # Current(x)'
          <5>1. scan.array \in 1..Current(x) /\ Current(x) \in Nat BY <3>2, ScannedFacts, LocalFacts, SMTT(60), Z3T(60)
          <5> QED BY <1>2, <2>4, <5>1, SMTT(60), Z3T(60)
        <4>3. Scanned' = Scanned BY <1>6, <3>2
        <4>4. CASE scan.array = Current(x)
          <5>1. Scanned = Array(x) BY <3>2, <4>4, ScannedFacts
          <5>2. h \in DOMAIN Scanned BY <1>4, <2>1, <5>1
          <5>3. h >= scan.hid \/ Found(x, h) BY <4>1, <4>4 DEF Ahead
          <5>4. Scanned[h] = Array(x)'[h] BY <2>2, <5>1
          <5> QED BY <1>1, <3>1, <4>2, <4>3, <5>2, <5>3, <5>4 DEF Ahead
        <4>5. CASE scan.array # Current(x)
          BY <1>1, <2>2, <3>1, <4>1, <4>2, <4>3, <4>5 DEF Ahead
        <4> QED BY <4>4, <4>5
      <3> QED BY <1>1, <2>1, <3>1, <3>2 DEF Sought
    <2> QED BY <2>3, <2>4
  <1> QED BY <1>1, <1>6, <1>7, <1>8 DEF SameInv

\* Only arrays that no scan reads are destroyed.
LEMMA SameUnderDestroy ==
  ASSUME TidyInv, ScanInv, OwnInv, SameInv,
         NEW e \in Entries, NEW n \in 1..Current(e), Destroy(e, n)
  PROVE  OwnInv' /\ SameInv'
  <1>1. /\ hazards[e] \in Seq(Arrays \cup {<<>>}) /\ Current(e) = Len(hazards[e])
        /\ n \in 1..Len(hazards[e]) /\ n < Len(hazards[e]) /\ <<e, n>> \notin deferred
        /\ UNCHANGED <<inUse, hps, scan, same>>
    BY LocalFacts DEF Destroy, historyVars
  <1>2. hazards' = [hazards EXCEPT ![e] = [hazards[e] EXCEPT ![n] = <<>>]] BY DEF Destroy
  <1>3. hazards'[e] = [hazards[e] EXCEPT ![n] = <<>>] BY <1>2 DEF TidyInv
  <1>4. /\ Len(hazards'[e]) = Len(hazards[e])
        /\ \A k \in 1..Len(hazards[e]) : k # n => hazards'[e][k] = hazards[e][k]
    BY <1>1, <1>3, ExceptSeq, SMTT(60), Z3T(60)
  <1>5. \A x \in Entries : x # e => hazards'[x] = hazards[x] BY <1>2 DEF TidyInv
  <1>6. Len(hazards[e]) \in 1..Len(hazards[e]) /\ Len(hazards[e]) # n BY <1>1, SMTT(60)
  <1>7. hazards'[e][Len(hazards[e])] = hazards[e][Len(hazards[e])] BY <1>4, <1>6
  <1>8. \A x \in Entries : Array(x)' = Array(x) /\ Current(x)' = Current(x)
    BY <1>4, <1>5, <1>7 DEF Array, Current
  <1>9. ASSUME scan.pc = "slot" PROVE Scanned' = Scanned
    <2>1. /\ scan.e \in Entries /\ scan.array \in 1..Len(hazards[scan.e])
          /\ scan.array # Len(hazards[scan.e]) => <<scan.e, scan.array>> \in deferred
      BY <1>9, ScannedFacts DEF Current
    <2>2. CASE scan.e = e
      <3>1. scan.array # n BY <1>1, <2>1, <2>2, SMTT(60), Z3T(60)
      <3> QED BY <1>1, <1>4, <2>1, <2>2, <3>1 DEF Scanned
    <2>3. CASE scan.e # e BY <1>1, <1>5, <2>1, <2>3 DEF Scanned
    <2> QED BY <2>2, <2>3
  <1>10. OwnInv' BY <1>1, <1>8 DEF OwnInv
  <1>11. ASSUME NEW x \in Entries, NEW h \in Nat, <<x, h>> \in same PROVE Sought(x, h)'
    <2>1. Sought(x, h) BY <1>11 DEF SameInv
    <2>2. Array(x)'[h] = Array(x)[h] /\ Current(x)' = Current(x) BY <1>8
    <2> QED BY <1>1, <1>9, <2>1, <2>2, StillSought
  <1> QED BY <1>1, <1>9, <1>10, <1>11 DEF SameInv

\* A slot is read: what was ahead in it is found, and the rest is still ahead.
LEMMA SameUnderScanSlot ==
  ASSUME Parameters, Listed, TidyInv, ScanInv, OwnInv, SameInv, ScanSlot
  PROVE  SameInv'
  <1>1. /\ UNCHANGED <<inUse, hazards, hps, same>> /\ scan.pc = "slot"
        /\ scan' = LET last == scan.hid + 1 \notin DOMAIN Scanned IN
             [pc    |-> IF last THEN "entry" ELSE "slot",
              e     |-> IF last THEN scan.e + 1 ELSE scan.e,
              array |-> IF last THEN 0 ELSE scan.array,
              hid   |-> IF last THEN 0 ELSE scan.hid + 1,
              seen  |-> scan.seen \cup ({Scanned[scan.hid]} \ {Null})]
    BY DEF ScanSlot, ownVars, historyVars
  <1>2. /\ scan.e \in Entries /\ Scanned \in Arrays /\ scan.hid \in DOMAIN Scanned
        /\ scan.array = Current(scan.e) => Scanned = Array(scan.e)
        /\ scan.e \in Nat \ {0}
    BY <1>1, ScannedFacts DEF SameInv
  <1>3. PICK n \in Nat \ {0} : Scanned \in [Hids(n) -> Content] BY <1>2 DEF Arrays
  <1>4. DOMAIN Scanned = 0..(n - 1) BY <1>3 DEF Hids
  <1>5. \A x \in Entries : Array(x)' = Array(x) /\ Current(x)' = Current(x)
    BY <1>1 DEF Array, Current
  <1>6. \A x \in Entries : hps[x] \subseteq DOMAIN Array(x) BY LocalFacts, TidyFacts
  <1>7. scan'.seen = scan.seen \cup ({Scanned[scan.hid]} \ {Null}) BY <1>1
  <1>8. \A x \in Entries, h \in Nat : Found(x, h) => Found(x, h)' BY <1>5, <1>7 DEF Found
  <1>9. ASSUME NEW h \in Nat, <<scan.e, h>> \in same
        PROVE  \/ Array(scan.e)[h] \in scan'.seen
               \/ /\ scan.hid + 1 \in DOMAIN Scanned
                  /\ IF scan.array = Current(scan.e) THEN h >= scan.hid + 1
                     ELSE \E k \in DOMAIN Scanned : k >= scan.hid + 1 /\ Scanned[k] = Array(scan.e)[h]
    <2>1. h \in hps[scan.e] /\ Ahead(scan.e, h) BY <1>1, <1>2, <1>9 DEF SameInv, Sought
    <2>2. Array(scan.e)[h] \in Objs /\ Array(scan.e)[h] # Null
      BY <1>2, <2>1 DEF OwnInv, Parameters
    <2>3. CASE Found(scan.e, h) BY <1>7, <2>3 DEF Found
    <2>4. CASE scan.array = Current(scan.e) /\ h >= scan.hid
      <3>1. h \in DOMAIN Scanned /\ Scanned[h] = Array(scan.e)[h] BY <1>2, <1>6, <2>1, <2>4
      <3>2. CASE h = scan.hid BY <1>7, <2>2, <3>1, <3>2
      <3>3. CASE h # scan.hid BY <1>2, <1>4, <2>4, <3>1, <3>3, SMTT(60), Z3T(60)
      <3> QED BY <3>2, <3>3
    <2>5. CASE scan.array # Current(scan.e) /\ ~ Found(scan.e, h)
      <3>1. PICK k \in DOMAIN Scanned : k >= scan.hid /\ Scanned[k] = Array(scan.e)[h]
        BY <2>1, <2>5 DEF Ahead
      <3>2. CASE k = scan.hid BY <1>7, <2>2, <3>1, <3>2
      <3>3. CASE k # scan.hid
        <4>1. k >= scan.hid + 1 /\ scan.hid + 1 \in DOMAIN Scanned BY <1>2, <1>4, <3>1, <3>3, SMTT(60), Z3T(60)
        <4> QED BY <2>5, <3>1, <4>1
      <3> QED BY <3>2, <3>3
    <2> QED BY <2>1, <2>3, <2>4, <2>5 DEF Ahead
  <1>10. CASE scan.hid + 1 \notin DOMAIN Scanned
    <2>1. scan'.pc = "entry" /\ scan'.e = scan.e + 1 BY <1>1, <1>10
    <2>2. ASSUME NEW x \in Entries, NEW h \in Nat, <<x, h>> \in same PROVE Sought(x, h)'
      <3>1. Sought(x, h) BY <2>2 DEF SameInv
      <3>2. x \in Nat BY SMTT(60) DEF Listed
      <3>3. CASE x < scan.e BY <1>8, <2>1, <3>1, <3>3 DEF Sought
      <3>4. CASE x = scan.e
        <4>1. Found(x, h)' BY <1>5, <1>9, <1>10, <2>2, <3>4 DEF Found
        <4> QED BY <2>1, <4>1 DEF Sought
      <3>5. CASE x > scan.e
        <4>1. ~ (x < scan'.e) BY <1>2, <2>1, <3>2, <3>5, SMTT(60), Z3T(60)
        <4> QED BY <2>1, <4>1 DEF Sought
      <3> QED BY <1>2, <3>2, <3>3, <3>4, <3>5, SMTT(60), Z3T(60)
    <2> QED BY <1>1, <1>2, <2>1, <2>2, SMTT(60), Z3T(60) DEF SameInv
  <1>11. CASE scan.hid + 1 \in DOMAIN Scanned
    <2>1. /\ scan'.pc = "slot" /\ scan'.e = scan.e /\ scan'.array = scan.array
          /\ scan'.hid = scan.hid + 1
      BY <1>1, <1>11
    <2>2. Scanned' = Scanned BY <1>1, <2>1 DEF Scanned
    <2>3. ASSUME NEW x \in Entries, NEW h \in Nat, <<x, h>> \in same PROVE Sought(x, h)'
      <3>1. Sought(x, h) BY <2>3 DEF SameInv
      <3>2. x < scan.e => Found(x, h)' BY <1>8, <3>1 DEF Sought
      <3>3. ASSUME x = scan.e PROVE Ahead(x, h)'
        <4>1. CASE Found(x, h)' BY <4>1 DEF Ahead
        <4>2. CASE ~ Found(x, h)'
          <5>1. Array(scan.e)[h] \notin scan'.seen BY <1>5, <3>3, <4>2 DEF Found
          <5> QED BY <1>5, <1>9, <2>1, <2>2, <2>3, <3>3, <5>1 DEF Ahead
        <4> QED BY <4>1, <4>2
      <3> QED BY <2>1, <3>2, <3>3 DEF Sought
    <2> QED BY <1>1, <1>2, <1>11, <2>1, <2>2, <2>3 DEF SameInv
  <1> QED BY <1>10, <1>11

\* The scan comes to an entry: all its slots are ahead, or it has no hazard pointer.
LEMMA SameUnderScanEntry ==
  ASSUME Listed, TidyInv, ScanInv, OwnInv, SameInv, ScanEntry
  PROVE  SameInv'
  <1>1. /\ UNCHANGED <<hazards, hps, same>> /\ scan.pc = "entry" /\ scan.e \in Entries
        /\ scan' = IF inUse[scan.e]
                   THEN [scan EXCEPT !.pc = "slot", !.array = Current(scan.e), !.hid = 0]
                   ELSE [scan EXCEPT !.e = @ + 1]
    BY DEF ScanEntry, ownVars, historyVars
  <1>2. \A x \in Entries : Array(x)' = Array(x) /\ Current(x)' = Current(x)
    BY <1>1 DEF Array, Current
  <1>3. \A x \in Entries : x \in Nat BY SMTT(60) DEF Listed
  <1>4. CASE inUse[scan.e]
    <2>1. /\ scan'.pc = "slot" /\ scan'.e = scan.e /\ scan'.array = Current(scan.e)
          /\ scan'.hid = 0 /\ scan'.seen = scan.seen
      BY <1>1, <1>4 DEF ScanInv
    <2>2. 0 \in DOMAIN Array(scan.e) BY <1>1, LocalFacts, SMTT(60), Z3T(60) DEF Tidy, Hids
    <2>3. Scanned' = Array(scan.e) BY <1>1, <2>1 DEF Scanned, Array
    <2>4. ASSUME NEW x \in Entries, NEW h \in Nat, <<x, h>> \in same PROVE Sought(x, h)'
      <3>1. Sought(x, h) BY <2>4 DEF SameInv
      <3>2. x < scan.e => Found(x, h)' BY <1>2, <2>1, <3>1 DEF Sought, Found
      <3>3. x = scan.e => Ahead(x, h)' BY <1>2, <2>1, SMTT(60), Z3T(60) DEF Ahead
      <3> QED BY <2>1, <3>2, <3>3 DEF Sought
    <2> QED BY <1>1, <1>3, <2>1, <2>2, <2>3, <2>4 DEF SameInv
  <1>5. CASE ~ inUse[scan.e]
    <2>1. scan'.pc = "entry" /\ scan'.e = scan.e + 1 /\ scan'.seen = scan.seen
      BY <1>1, <1>5 DEF ScanInv
    <2>2. hps[scan.e] = {} BY <1>1, <1>5 DEF OwnInv
    <2>3. ASSUME NEW x \in Entries, NEW h \in Nat, <<x, h>> \in same PROVE Sought(x, h)'
      <3>1. h \in hps[x] /\ Sought(x, h) BY <2>3 DEF SameInv
      <3>2. x # scan.e BY <2>2, <3>1
      <3>3. x < scan'.e => x < scan.e BY <1>1, <1>3, <2>1, <3>2, SMTT(60), Z3T(60)
      <3> QED BY <1>2, <2>1, <3>1, <3>3 DEF Sought, Found
    <2> QED BY <1>1, <1>3, <2>1, <2>3, SMTT(60), Z3T(60) DEF SameInv
  <1> QED BY <1>4, <1>5

\* When the scan begins, every entry is ahead.
LEMMA SameUnderBeginScan ==
  ASSUME Listed, TidyInv, ScanInv, BeginScan
  PROVE  SameInv'
  <1>1. /\ UNCHANGED hps /\ same' = UNION {{e} \X hps[e] : e \in Entries}
        /\ scan'.pc = "entry" /\ scan'.e = 1
    BY DEF BeginScan, ownVars, ScanInv
  <1>2. \A e \in Entries : e \in Nat /\ ~ (e < 1) BY SMTT(60), Z3T(60) DEF Listed
  <1>3. same' \subseteq Entries \X Nat BY <1>1, SMTT(60), Z3T(60) DEF TidyInv
  <1>4. ASSUME NEW e \in Entries, NEW h \in Nat, <<e, h>> \in same' PROVE h \in hps'[e]
    BY <1>1, <1>4, SMTT(60), Z3T(60)
  <1>5. \A e \in Entries, h \in Nat : Sought(e, h)' BY <1>1, <1>2 DEF Sought
  <1> QED BY <1>1, <1>3, <1>4, <1>5, SMTT(60), Z3T(60) DEF SameInv

\* Steps that leave the Locals alone.
LEMMA OwnUnchanged ==
  ASSUME OwnInv, UNCHANGED tidyVars, UNCHANGED inUse
  PROVE  OwnInv'
  BY DEF OwnInv, tidyVars, Array, Current

\* Steps that leave the Locals and the scan alone.
LEMMA SameUnchanged ==
  ASSUME SameInv, UNCHANGED <<tidyVars, scan, same>>
  PROVE  SameInv'
  BY DEF SameInv, tidyVars, Sought, Ahead, Found, Scanned, Array, Current

\* The steps of collect_hps.
LEMMA SameUnderScanning ==
  ASSUME Parameters, Listed, TidyInv, ScanInv, OwnInv, SameInv, Scanning
  PROVE  OwnInv' /\ SameInv'
  <1>1. UNCHANGED tidyVars /\ UNCHANGED inUse
    BY DEF Scanning, PublishRT, BeginScan, ScanEntry, ScanSlot, EndScan, ownVars, tidyVars
  <1>2. OwnInv' BY <1>1, OwnUnchanged
  <1>3. CASE PublishRT
    <2>1. UNCHANGED same /\ same = {} /\ scan'.pc = "wait"
      BY <1>3 DEF PublishRT, historyVars, SameInv, ScanInv
    <2> QED BY <1>2, <2>1 DEF SameInv
  <1>4. CASE EndScan
    <2>1. same' = {} /\ scan'.pc = "off" BY <1>4 DEF EndScan
    <2> QED BY <1>2, <2>1 DEF SameInv
  <1> QED BY <1>2, <1>3, <1>4, SameUnderBeginScan, SameUnderScanEntry, SameUnderScanSlot DEF Scanning

\* Every step keeps what is looked for ahead of the scan, or found.
LEMMA SameStep ==
  ASSUME Parameters, Listed, TidyInv, TidyInv', ScanInv, OwnInv, SameInv, [HazardsNext]_hazardVars
  PROVE  OwnInv' /\ SameInv'
  <1>1. CASE \E e \in Entries : Leave(e) \/ Register(e) \/ Pin(e) \/ Unpin(e)
    <2>1. UNCHANGED <<tidyVars, scan, same>>
      BY <1>1 DEF Leave, Register, Pin, Unpin, ownVars, historyVars, tidyVars
    <2>2. SameInv' BY <2>1, SameUnchanged
    <2>3. OwnInv'
      <3>1. inUse' \in [Entries -> BOOLEAN]
        BY <1>1 DEF Leave, Register, Pin, Unpin, ownVars, OwnInv
      <3>2. \A e \in Entries : hps[e] # {} => inUse'[e]
        BY <1>1 DEF Leave, Register, Pin, Unpin, ownVars, OwnInv
      <3> QED BY <2>1, <3>1, <3>2 DEF OwnInv, tidyVars, Array, Current
    <2> QED BY <2>2, <2>3
  <1>2. CASE \E e \in Entries : \E o \in Objs : Protect(e, o)
    <2>1. PICK e \in Entries, o \in Objs : Protect(e, o) BY <1>2
    <2>2. Store(e, o, {}) BY <2>1 DEF Protect
    <2> QED BY <2>2, SameUnderStore, SMTT(60), Z3T(60)
  <1>3. CASE \E e \in Entries : \E hid \in hps[e] : Copy(e, hid)
    <2>1. PICK e \in Entries : \E hid \in hps[e] : Copy(e, hid) BY <1>3
    <2>2. PICK hid \in hps[e] : Copy(e, hid) BY <2>1
    <2>3. PICK o : o = Array(e)[hid] OBVIOUS
    <2>4. o \in Objs BY <2>3 DEF OwnInv
    <2>5. Store(e, o, {hid}) BY <2>2, <2>3 DEF Copy
    <2> QED BY <2>3, <2>4, <2>5, SameUnderStore, SMTT(60), Z3T(60)
  <1>4. CASE Scanning BY <1>4, SameUnderScanning
  <1>5. CASE UNCHANGED hazardVars
    BY <1>5, OwnUnchanged, SameUnchanged DEF hazardVars, tidyVars
  <1>6. CASE \E e \in Entries : GrowHazards(e) BY <1>6, SameUnderGrow
  <1>7. CASE \E e \in Entries : \E n \in 1..Current(e) : Destroy(e, n) BY <1>7, SameUnderDestroy
  <1>8. CASE \E e \in Entries : \E hid \in hps[e] : Drop(e, hid) BY <1>8, SameUnderDrop
  <1> QED
    BY <1>1, <1>2, <1>3, <1>4, <1>5, <1>6, <1>7, <1>8 DEF HazardsNext, Scanning

\* collect_hps collects what a hazard pointer protects from the beginning of the walk to
\* its end, or hands on to higher slots, for any number of entries, slots and growths.
THEOREM ScanCompleteHolds == Parameters /\ Listed => (HazardsSpec => []ScanComplete)
  <1> SUFFICES ASSUME Parameters, Listed PROVE HazardsSpec => []ScanComplete OBVIOUS
  <1>1. HazardsInit => TidyInv /\ ScanInv /\ OwnInv /\ SameInv
    BY TidyInit, ScanInit, SameInit
  <1>2. TidyInv /\ ScanInv /\ OwnInv /\ SameInv /\ [HazardsNext]_hazardVars
          => (TidyInv /\ ScanInv /\ OwnInv /\ SameInv)'
    BY TidyStep, ScanStep, SameStep
  <1>3. SameInv => ScanComplete
    <2> SUFFICES ASSUME SameInv, Collected, NEW x \in same
                 PROVE  Array(x[1])[x[2]] \in scan.seen
      BY DEF ScanComplete
    <2>1. x[1] \in Entries /\ x[2] \in Nat /\ x = <<x[1], x[2]>> BY SMTT(60) DEF SameInv
    <2>2. Sought(x[1], x[2]) BY <2>1 DEF SameInv
    <2>3. x[1] < scan.e
      <3>1. PICK n \in Nat : Entries = 1..n BY DEF Listed
      <3>2. scan.e \in Nat \ {0} /\ scan.e \notin 1..n BY <3>1 DEF Collected, SameInv
      <3> QED BY <2>1, <3>1, <3>2, SMTT(60), Z3T(60)
    <2> QED BY <2>2, <2>3 DEF Sought, Found
  <1> QED BY <1>1, <1>2, <1>3, PTL DEF HazardsSpec
=============================================================================

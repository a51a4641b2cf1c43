------------------------- MODULE TypeRegistryProof -------------------------
(***************************************************************************)
(* The guarantees of the type registry, for any number of threads, types   *)
(* and slots and any hash function.                                        *)
(***************************************************************************)
EXTENDS TypeRegistry, TLAPS

\* The default prover; a leaf with arithmetic or records names SMT.
USE ZenonT(60)

RegistryType ==
  /\ slots \in [Index -> Types \cup {NoType}]
  /\ id \in [Index -> Index \cup {Unset}]
  /\ nextId \in Nat
  /\ shadeFn \in [Index -> Types \cup {NoType}]
  /\ r \in [RegThreads -> [pc : Points, type : Types \cup {NoType}, i : 0..N,
                        slot : Index, id : Nat \cup {Unset}]]

\* t has inserted its type and has not published the id.
Inserting(t) == r[t].pc \in {"faa", "storeFn", "storeId"}
HasId(t) == r[t].pc \in {"storeFn", "storeId"}

\* The entry that a thread has inserted is its own until the id is published.
Private ==
  \A t \in RegThreads : Inserting(t) =>
    /\ slots[r[t].slot] = r[t].type
    /\ id[r[t].slot] = Unset
    /\ \A s \in RegThreads : Inserting(s) /\ r[s].slot = r[t].slot => s = t

\* Ids come from one counter, so those being published are distinct and new.
Distinct ==
  /\ \A t \in RegThreads : HasId(t) =>
       /\ r[t].id \in Index /\ r[t].id < nextId
       /\ \A s \in RegThreads : HasId(s) /\ r[s].id = r[t].id => s = t
  /\ \A k \in Index : shadeFn[k] # NoType => k < nextId

\* The function is in the table before anyone can read the id.
FnFirst ==
  /\ \A t \in RegThreads :
       /\ IsAt(t, "storeFn") => shadeFn[r[t].id] = NoType
       /\ IsAt(t, "storeId") => shadeFn[r[t].id] = r[t].type
       /\ IsAt(t, "loadId") => slots[r[t].slot] = r[t].type
       /\ IsAt(t, "done") => r[t].id \in Index /\ shadeFn[r[t].id] = r[t].type
       /\ ~ IsAt(t, "idle") => r[t].type \in Types
  /\ \A i \in Index : id[i] # Unset => shadeFn[id[i]] = slots[i] /\ slots[i] # NoType

\* The inductive invariant.
RegistryInv == RegistryType /\ Private /\ Distinct /\ FnFirst

\* N is a positive number and the sentinels are no types and no indices.
LEMMA Facts == N \in Nat /\ N # 0 /\ NoType \notin Types /\ Unset \notin Index
BY RegistryAssumption

\* The empty table satisfies the invariant.
LEMMA RegistryInitInv == RegistryInit => RegistryInv
BY Facts, SMTT(60) DEF RegistryInit, Unregistered, RegistryInv, RegistryType, Private, Distinct, FnFirst, Inserting, HasId,
             IsAt, Index, Points

\* Masking keeps an index within the table.
LEMMA MaskedIndex == ASSUME NEW k \in Nat PROVE k % N \in Index
BY Facts, SMTT(60) DEF Index

\* A step of a thread that has no unpublished entry afterwards and leaves the shared
\* state alone keeps the invariant, if what it found in the table is there.
LEMMA LocalStep ==
  ASSUME RegistryInv, NEW t \in RegThreads,
         NEW pc \in {"idle", "probe", "claim", "cas", "loadId", "done", "panic"},
         NEW type \in Types \cup {NoType}, NEW i \in 0..N, NEW slot \in Index,
         NEW n \in Nat \cup {Unset},
         Become(t, pc, type, i, slot, n),
         UNCHANGED <<slots, id, nextId, shadeFn>>,
         pc # "idle" => type \in Types,
         pc = "loadId" => slots[slot] = type,
         pc = "done" => n \in Index /\ shadeFn[n] = type
  PROVE  RegistryInv'
<1> USE DEF RegistryInv
<1>1. RegistryType'
  BY DEF RegistryType, Become, Points
<1>2. \A s \in RegThreads : r'[s] = IF s = t THEN [pc |-> pc, type |-> type, i |-> i, slot |-> slot, id |-> n]
                                 ELSE r[s]
  BY DEF RegistryType, Become
<1>3. Private'
  BY <1>2, SMTT(60) DEF Private, Inserting
<1>4. Distinct'
  BY <1>2, SMTT(60) DEF Distinct, HasId
<1>5. FnFirst'
  BY <1>2, SMTT(60) DEF FnFirst, IsAt
<1> QED
  BY <1>1, <1>3, <1>4, <1>5

\* The types that the local variables of a thread have.
LEMMA LocalTypes ==
  ASSUME RegistryInv, NEW t \in RegThreads
  PROVE  /\ r[t].pc \in Points
         /\ r[t].type \in Types \cup {NoType}
         /\ r[t].pc # "idle" => r[t].type \in Types
         /\ r[t].i \in 0..N
         /\ r[t].slot \in Index
         /\ r[t].id \in Nat \cup {Unset}
BY DEF RegistryInv, RegistryType, FnFirst, IsAt

\* Going on from an occupied slot keeps the invariant.
LEMMA OccupiedStep ==
  ASSUME RegistryInv, NEW t \in RegThreads, r[t].pc # "idle",
         Occupied(t), UNCHANGED <<slots, id, nextId, shadeFn>>
  PROVE  RegistryInv'
<1>1. CASE slots[r[t].slot] = r[t].type
  <2>1. Become(t, "loadId", r[t].type, r[t].i, r[t].slot, r[t].id)
    BY <1>1 DEF Occupied, Proceed
  <2> QED
    BY <1>1, <2>1, LocalTypes, LocalStep
<1>2. CASE slots[r[t].slot] # r[t].type
  <2>1. Become(t, "claim", r[t].type, r[t].i, (r[t].slot + 1) % N, r[t].id)
    BY <1>2 DEF Occupied, MoveTo
  <2>2. (r[t].slot + 1) % N \in Index
    <3>1. r[t].slot + 1 \in Nat
      BY LocalTypes, Facts, SMTT(60) DEF Index
    <3> QED
      BY <3>1, MaskedIndex
  <2> QED
    BY <2>1, <2>2, LocalTypes, LocalStep
<1> QED
  BY <1>1, <1>2

\* Each step of get_or_insert that inserts nothing keeps the invariant.
LEMMA LookupInv ==
  ASSUME RegistryInv, NEW t \in RegThreads,
         \/ \E T \in Types : Register(t, T)
         \/ Probe(t) \/ ProbeFull(t) \/ Claim(t)
         \/ LoadId(t) \/ Use(t)
  PROVE  RegistryInv' /\ UNCHANGED <<slots, id, nextId, shadeFn>>
<1>1. ASSUME NEW T \in Types, Register(t, T)
      PROVE  RegistryInv' /\ UNCHANGED <<slots, id, nextId, shadeFn>>
  <2>1. 0 \in 0..N /\ 0 \in Index /\ Unset \in Nat \cup {Unset}
    BY Facts, SMTT(60) DEF Index
  <2>2. Become(t, "probe", T, 0, 0, Unset) /\ UNCHANGED <<slots, id, nextId, shadeFn>>
    BY <1>1 DEF Register
  <2> QED
    BY <2>1, <2>2, LocalStep
<1>2. CASE Probe(t)
  <2> DEFINE idx == ProbeIndex(t)
  <2>1. idx \in Index /\ r[t].i + 1 \in 0..N
    <3>1. Hash[r[t].type] + r[t].i \in Nat /\ r[t].i + 1 \in 0..N
      BY <1>2, LocalTypes, RegistryAssumption, SMTT(60) DEF Probe, IsAt
    <3> QED
      BY <3>1, MaskedIndex DEF ProbeIndex
  <2>2. r[t].pc # "idle" /\ UNCHANGED <<slots, id, nextId, shadeFn>>
    BY <1>2 DEF Probe, IsAt
  <2>3. CASE slots[idx] = NoType
    <3>1. Become(t, "claim", r[t].type, r[t].i, idx, r[t].id)
      BY <1>2, <2>3, LocalTypes, Facts DEF Probe, MoveTo, IsAt
    <3> QED
      BY <2>1, <2>2, <3>1, LocalTypes, LocalStep
  <2>4. CASE slots[idx] # NoType /\ slots[idx] = r[t].type
    <3>1. Become(t, "loadId", r[t].type, r[t].i, idx, r[t].id)
      BY <1>2, <2>4 DEF Probe, MoveTo
    <3> QED
      BY <2>1, <2>2, <2>4, <3>1, LocalTypes, LocalStep
  <2>5. CASE slots[idx] # NoType /\ slots[idx] # r[t].type
    <3>1. Become(t, "probe", r[t].type, r[t].i + 1, r[t].slot, r[t].id)
      BY <1>2, <2>5 DEF Probe
    <3> QED
      BY <2>1, <2>2, <3>1, LocalTypes, LocalStep
  <2> QED
    BY <2>2, <2>3, <2>4, <2>5
<1>3. CASE ProbeFull(t)
  BY <1>3, LocalTypes, LocalStep DEF ProbeFull, Proceed, IsAt
<1>4. CASE Claim(t)
  <2>1. CASE slots[r[t].slot] = NoType
    BY <1>4, <2>1, LocalTypes, LocalStep DEF Claim, Proceed, IsAt
  <2>2. CASE slots[r[t].slot] # NoType
    BY <1>4, <2>2, OccupiedStep DEF Claim, IsAt
  <2> QED
    BY <2>1, <2>2
<1>5. CASE LoadId(t)
  <2>1. id[r[t].slot] \in Index /\ shadeFn[id[r[t].slot]] = r[t].type
    BY <1>5, LocalTypes DEF LoadId, IsAt, RegistryInv, RegistryType, FnFirst
  <2>2. id[r[t].slot] \in Nat
    BY <2>1, Facts, SMTT(60) DEF Index
  <2> QED
    BY <1>5, <2>1, <2>2, LocalTypes, LocalStep DEF LoadId, IsAt
<1>6. CASE Use(t)
  <2>1. 0 \in 0..N /\ 0 \in Index /\ Unset \in Nat \cup {Unset}
    BY Facts, SMTT(60) DEF Index
  <2>2. Become(t, "idle", NoType, 0, 0, Unset) /\ UNCHANGED <<slots, id, nextId, shadeFn>>
    BY <1>6 DEF Use, Unregistered, Become
  <2> QED
    BY <2>1, <2>2, LocalStep
<1> QED
  BY <1>1, <1>2, <1>3, <1>4, <1>5, <1>6

\* What a step may not take back.
Kept ==
  \A i \in Index :
    /\ slots[i] # NoType => slots'[i] = slots[i]
    /\ id[i] # Unset => id'[i] = id[i]
    /\ shadeFn[i] # NoType => shadeFn'[i] = shadeFn[i]

\* How a step of t changes the local variables.
LEMMA LocalUpdate ==
  ASSUME RegistryInv, NEW t \in RegThreads, NEW pc, NEW type, NEW i, NEW slot, NEW n,
         Become(t, pc, type, i, slot, n)
  PROVE  /\ r'[t].pc = pc /\ r'[t].type = type /\ r'[t].slot = slot /\ r'[t].id = n
         /\ \A s \in RegThreads \ {t} : r'[s] = r[s]
BY DEF RegistryInv, RegistryType, Become

\* The CAS that claims a slot makes the entry private to the thread.
LEMMA CasInv ==
  ASSUME RegistryInv, NEW t \in RegThreads, Cas(t)
  PROVE  RegistryInv' /\ Kept
<1> USE DEF RegistryInv
<1>0. r[t].pc = "cas" /\ UNCHANGED <<id, nextId, shadeFn>>
  BY DEF Cas, IsAt
<1>1. CASE slots[r[t].slot] # NoType
  <2>1. Occupied(t) /\ UNCHANGED slots
    BY <1>1 DEF Cas
  <2> QED
    BY <1>0, <2>1, OccupiedStep DEF Kept
<1>2. CASE slots[r[t].slot] = NoType
  <2>1. /\ slots' = [slots EXCEPT ![r[t].slot] = r[t].type]
        /\ Become(t, "faa", r[t].type, r[t].i, r[t].slot, r[t].id)
    BY <1>2 DEF Cas, Proceed
  <2>2. /\ r'[t].pc = "faa" /\ r'[t].type = r[t].type /\ r'[t].slot = r[t].slot
        /\ \A s \in RegThreads \ {t} : r'[s] = r[s]
    BY <2>1, LocalUpdate, SMTT(60)
  <2>3. RegistryType'
    BY <1>0, <2>1, LocalTypes DEF RegistryType, Become, Points
  <2>4. id[r[t].slot] = Unset
    BY <1>2, LocalTypes DEF FnFirst
  <2>5. \A s \in RegThreads : Inserting(s) => r[s].slot # r[t].slot
    BY <1>0, <1>2, LocalTypes, Facts DEF Private, Inserting
  <2>6. /\ slots'[r[t].slot] = r[t].type
        /\ \A i \in Index \ {r[t].slot} : slots'[i] = slots[i]
    BY <2>1, LocalTypes DEF RegistryType
  <2>7. Private'
    BY <1>0, <2>2, <2>4, <2>5, <2>6, LocalTypes, SMTT(60) DEF Private, Inserting
  <2>8. Distinct'
    BY <1>0, <2>2 DEF Distinct, HasId
  <2>9. FnFirst'
    BY <1>0, <1>2, <2>2, <2>4, <2>6, LocalTypes, Facts, SMTT(60) DEF FnFirst, IsAt
  <2> QED
    BY <1>0, <1>2, <2>3, <2>6, <2>7, <2>8, <2>9 DEF Kept
<1> QED
  BY <1>1, <1>2

\* fetch_add gives the inserting thread an id that no other thread has.
LEMMA FaaInv ==
  ASSUME RegistryInv, NEW t \in RegThreads, Faa(t)
  PROVE  RegistryInv' /\ Kept
<1> USE DEF RegistryInv
<1>0. /\ r[t].pc = "faa" /\ UNCHANGED <<slots, id, shadeFn>>
      /\ nextId \in Nat /\ nextId' = nextId + 1
  BY DEF Faa, IsAt, RegistryType
<1> DEFINE pc == IF nextId < N THEN "storeFn" ELSE "panic"
<1>1. Become(t, pc, r[t].type, r[t].i, r[t].slot, nextId)
  BY DEF Faa
<1>2. /\ r'[t].pc = pc /\ r'[t].type = r[t].type
      /\ r'[t].slot = r[t].slot /\ r'[t].id = nextId
      /\ \A s \in RegThreads \ {t} : r'[s] = r[s]
  BY <1>1, LocalUpdate, SMTT(60)
<1>3. RegistryType'
  BY <1>0, <1>1, LocalTypes, SMTT(60) DEF RegistryType, Become, Points
<1>4. Private'
  BY <1>0, <1>2, SMTT(60) DEF Private, Inserting
<1>5. Distinct'
  BY <1>0, <1>2, Facts, SMTT(60) DEF Distinct, HasId, Index
<1>6. FnFirst'
  <2>1. nextId < N => shadeFn[nextId] = NoType
    BY <1>0, Facts, SMTT(60) DEF Distinct, Index
  <2> QED
    BY <1>0, <1>2, <2>1, LocalTypes, SMTT(60) DEF FnFirst, IsAt
<1> QED
  BY <1>0, <1>3, <1>4, <1>5, <1>6 DEF Kept

\* The function goes into an empty place of the table.
LEMMA StoreFnInv ==
  ASSUME RegistryInv, NEW t \in RegThreads, StoreFn(t)
  PROVE  RegistryInv' /\ Kept
<1> USE DEF RegistryInv
<1>0. /\ r[t].pc = "storeFn" /\ UNCHANGED <<slots, id, nextId>>
      /\ shadeFn' = [shadeFn EXCEPT ![r[t].id] = r[t].type]
      /\ Become(t, "storeId", r[t].type, r[t].i, r[t].slot, r[t].id)
  BY DEF StoreFn, IsAt, Proceed
<1>1. r[t].id \in Index /\ r[t].id < nextId /\ shadeFn[r[t].id] = NoType /\ r[t].type \in Types
  BY <1>0, LocalTypes DEF Distinct, FnFirst, HasId, IsAt
<1>2. /\ r'[t].pc = "storeId" /\ r'[t].type = r[t].type
      /\ r'[t].slot = r[t].slot /\ r'[t].id = r[t].id
      /\ \A s \in RegThreads \ {t} : r'[s] = r[s]
  BY <1>0, LocalUpdate, SMTT(60)
<1>3. /\ shadeFn'[r[t].id] = r[t].type
      /\ \A k \in Index \ {r[t].id} : shadeFn'[k] = shadeFn[k]
  BY <1>0, <1>1 DEF RegistryType
<1>4. RegistryType'
  BY <1>0, <1>1, LocalTypes DEF RegistryType, Become, Points
<1>5. Private'
  BY <1>0, <1>2, SMTT(60) DEF Private, Inserting
<1>6. Distinct'
  BY <1>0, <1>1, <1>2, <1>3, SMTT(60) DEF Distinct, HasId
<1>7. FnFirst'
  <2>1. \A s \in RegThreads \ {t} : HasId(s) => r[s].id \in Index /\ r[s].id # r[t].id
    BY <1>0 DEF Distinct, HasId
  <2>2. \A k \in Index : id[k] # Unset => id[k] \in Index /\ id[k] # r[t].id
    BY <1>1, LocalTypes, Facts, SMTT(60) DEF FnFirst, RegistryType
  <2>3. \A s \in RegThreads \ {t} : IsAt(s, "done") => r[s].id \in Index /\ r[s].id # r[t].id
    BY <1>1, LocalTypes, Facts DEF FnFirst, IsAt
  <2> QED
    BY <1>0, <1>2, <1>3, <2>1, <2>2, <2>3, SMTT(60) DEF FnFirst, IsAt, HasId
<1> QED
  BY <1>0, <1>1, <1>3, <1>4, <1>5, <1>6, <1>7 DEF Kept

\* The id becomes visible after the function.
LEMMA StoreIdInv ==
  ASSUME RegistryInv, NEW t \in RegThreads, StoreId(t)
  PROVE  RegistryInv' /\ Kept
<1> USE DEF RegistryInv
<1>0. /\ r[t].pc = "storeId" /\ UNCHANGED <<slots, nextId, shadeFn>>
      /\ id' = [id EXCEPT ![r[t].slot] = r[t].id]
      /\ Become(t, "done", r[t].type, r[t].i, r[t].slot, r[t].id)
  BY DEF StoreId, IsAt, Proceed
<1>1. /\ r[t].id \in Index /\ shadeFn[r[t].id] = r[t].type /\ r[t].type \in Types
      /\ slots[r[t].slot] = r[t].type /\ id[r[t].slot] = Unset
  BY <1>0, LocalTypes DEF Distinct, FnFirst, HasId, IsAt, Private, Inserting
<1>2. /\ r'[t].pc = "done" /\ r'[t].type = r[t].type
      /\ r'[t].slot = r[t].slot /\ r'[t].id = r[t].id
      /\ \A s \in RegThreads \ {t} : r'[s] = r[s]
  BY <1>0, LocalUpdate, SMTT(60)
<1>3. /\ id'[r[t].slot] = r[t].id
      /\ \A k \in Index \ {r[t].slot} : id'[k] = id[k]
  BY <1>0, LocalTypes DEF RegistryType
<1>4. RegistryType'
  BY <1>0, <1>1, LocalTypes DEF RegistryType, Become, Points
<1>5. Private'
  <2>1. \A s \in RegThreads \ {t} : Inserting(s) => r[s].slot \in Index /\ r[s].slot # r[t].slot
    BY <1>0, LocalTypes DEF Private, Inserting
  <2> QED
    BY <1>0, <1>2, <1>3, <2>1, SMTT(60) DEF Private, Inserting
<1>6. Distinct'
  BY <1>0, <1>2, SMTT(60), Z3T(60) DEF Distinct, HasId
<1>7. FnFirst'
  BY <1>0, <1>1, <1>2, <1>3, LocalTypes, Facts, SMTT(60) DEF FnFirst, IsAt
<1> QED
  BY <1>0, <1>1, <1>3, <1>4, <1>5, <1>6, <1>7 DEF Kept

\* Every step of register_type keeps the invariant and takes nothing back.
LEMMA RegistryStepInv == RegistryInv /\ [RegistryNext]_registryVars => RegistryInv' /\ Kept
<1> SUFFICES ASSUME RegistryInv, [RegistryNext]_registryVars
             PROVE  RegistryInv' /\ Kept
  OBVIOUS
<1>1. ASSUME NEW t \in RegThreads,
             \/ \E T \in Types : Register(t, T)
             \/ Probe(t) \/ ProbeFull(t) \/ Claim(t)
             \/ LoadId(t) \/ Use(t)
      PROVE  RegistryInv' /\ Kept
  BY <1>1, LookupInv DEF Kept
<1>2. ASSUME NEW t \in RegThreads, Cas(t) \/ Faa(t) \/ StoreFn(t) \/ StoreId(t)
      PROVE  RegistryInv' /\ Kept
  BY <1>2, CasInv, FaaInv, StoreFnInv, StoreIdInv
<1>3. CASE UNCHANGED registryVars
  BY <1>3 DEF registryVars, Kept, RegistryInv, RegistryType, Private, Distinct, FnFirst, Inserting,
              HasId, IsAt
<1> QED
  BY <1>1, <1>2, <1>3 DEF RegistryNext, RegistryStep

\* An id that register_type has returned leads to the shade function of its type.
THEOREM ShadeFnReadyHolds == RegistrySpec => []ShadeFnReady
<1>1. RegistryInv => ShadeFnReady
  BY DEF RegistryInv, FnFirst, ShadeFnReady
<1> QED
  BY <1>1, RegistryInitInv, RegistryStepInv, PTL DEF RegistrySpec

\* Entries, ids and shade functions never change once they are set: Stable.
THEOREM StableHolds == RegistrySpec => Stable
<1>1. RegistryInv /\ [RegistryNext]_registryVars => [Kept]_registryVars
  BY RegistryStepInv
<1> QED
  BY <1>1, RegistryInitInv, RegistryStepInv, PTL DEF RegistrySpec, Stable, Kept

-----------------------------------------------------------------------------
(* One entry per type.  Linear probing visits Reach(T, 0), Reach(T, 1), ... *)
(* and passes a slot only when it is taken by another type.                 *)

Reach(T, k) == (Hash[T] + k) % N

Passed(T, k) == \A j \in 0..(k - 1) : slots[Reach(T, j)] \notin {NoType, T}

\* A thread has passed every slot before the one it is at.
ProbingAt(t) ==
  /\ r[t].pc = "probe" => Passed(r[t].type, r[t].i)
  /\ r[t].pc \in {"claim", "cas"} =>
       \E k \in Nat : r[t].slot = Reach(r[t].type, k) /\ Passed(r[t].type, k)

\* The thread that made an entry had passed every slot before it.
MadeAfter(i) == \E k \in Nat : i = Reach(slots[i], k) /\ Passed(slots[i], k)

Probing ==
  /\ \A t \in RegThreads : ProbingAt(t)
  /\ \A i \in Index : slots[i] # NoType => MadeAfter(i)

\* Division with remainder.
LEMMA DivMod ==
  ASSUME NEW a \in Nat, NEW n \in Nat \ {0}
  PROVE  a \div n \in Nat /\ a % n \in 0..(n - 1) /\ a = n * (a \div n) + (a % n)
BY SMTT(60)

\* The remainder is the one number below n that fits.
LEMMA ModUnique ==
  ASSUME NEW q \in Nat, NEW m \in Nat, NEW n \in Nat \ {0}, m < n
  PROVE  (n * q + m) % n = m
BY SMTT(60)

\* Masking after each step gives the same slots as masking the sum.
LEMMA ModSucc ==
  ASSUME NEW a \in Nat, NEW n \in Nat \ {0}
  PROVE  ((a % n) + 1) % n = (a + 1) % n
<1> DEFINE q == a \div n
           m == a % n
<1>1. q \in Nat /\ m \in Nat /\ m < n /\ a = n * q + m
  BY DivMod, SMTT(60)
<1> HIDE DEF q, m
<1>2. CASE m + 1 < n
  <2>1. (n * q + (m + 1)) % n = m + 1
    BY <1>1, <1>2, ModUnique, SMTT(60)
  <2>2. (m + 1) % n = m + 1
    BY <1>1, <1>2, SMTT(60)
  <2>3. a + 1 = n * q + (m + 1)
    BY <1>1, SMTT(60)
  <2> QED
    BY <2>1, <2>2, <2>3 DEF m
<1>3. CASE m + 1 = n
  <2>1. (n * (q + 1) + 0) % n = 0
    BY <1>1, ModUnique, SMTT(60)
  <2>2. (m + 1) % n = 0
    BY <1>1, <1>3, SMTT(60)
  <2>3. a + 1 = n * (q + 1) + 0
    BY <1>1, <1>3, SMTT(60)
  <2> QED
    BY <2>1, <2>2, <2>3 DEF m
<1> QED
  BY <1>1, <1>2, <1>3, SMTT(60)

\* The slots that probing reaches are slots, each one next to the one before.
LEMMA ReachFacts ==
  ASSUME NEW T \in Types, NEW k \in Nat
  PROVE  Reach(T, k) \in Index /\ (Reach(T, k) + 1) % N = Reach(T, k + 1)
<1>1. Hash[T] \in Nat /\ Hash[T] + k \in Nat /\ N \in Nat \ {0}
  BY RegistryAssumption, SMTT(60)
<1>2. Reach(T, k) \in Index
  BY <1>1, MaskedIndex DEF Reach
<1>3. (((Hash[T] + k) % N) + 1) % N = ((Hash[T] + k) + 1) % N
  BY <1>1, ModSucc
<1>4. (Hash[T] + k) + 1 = Hash[T] + (k + 1)
  BY <1>1, SMTT(60)
<1> QED
  BY <1>2, <1>3, <1>4 DEF Reach

\* A slot that was passed stays passed.
LEMMA PassedStays ==
  ASSUME Kept, RegistryInv, RegistryInv', NEW T \in Types, NEW k \in Nat, Passed(T, k)
  PROVE  Passed(T, k)'
<1> SUFFICES ASSUME NEW j \in 0..(k - 1)
             PROVE  slots'[Reach(T, j)] \notin {NoType, T}
  BY DEF Passed, Reach
<1>1. Reach(T, j) \in Index
  BY ReachFacts, SMTT(60)
<1> QED
  BY <1>1 DEF Passed, Kept

\* Passing one slot more.
LEMMA PassedNext ==
  ASSUME NEW T \in Types, NEW k \in Nat, Passed(T, k), slots[Reach(T, k)] \notin {NoType, T}
  PROVE  Passed(T, k + 1)
BY SMTT(60) DEF Passed

\* With the invariant of probing there is one entry per type: the later of two
\* entries would have passed the earlier one.
LEMMA ProbingOneEntry == RegistryInv /\ Probing => OneEntryPerType
<1> SUFFICES ASSUME RegistryInv, Probing, NEW x \in Index, NEW y \in Index,
                    slots[x] # NoType, slots[x] = slots[y]
             PROVE  x = y
  BY DEF OneEntryPerType
<1> DEFINE T == slots[x]
<1>1. PICK k \in Nat : x = Reach(T, k) /\ Passed(T, k)
  BY DEF Probing, MadeAfter
<1>2. PICK l \in Nat : y = Reach(T, l) /\ Passed(T, l)
  BY DEF Probing, MadeAfter
<1>3. ~ (k < l) /\ ~ (l < k)
  BY <1>1, <1>2, SMTT(60) DEF Passed
<1> QED
  BY <1>1, <1>2, <1>3, SMTT(60)

\* A step of t leaves the probing of the other threads, and the entries made
\* before, as they were.
LEMMA ProbingFrame ==
  ASSUME RegistryInv, RegistryInv', Kept, Probing, NEW t \in RegThreads,
         \A s \in RegThreads \ {t} : r'[s] = r[s],
         ProbingAt(t)',
         \A i \in Index : slots[i] = NoType /\ slots'[i] # NoType => MadeAfter(i)'
  PROVE  Probing'
<1>1. \A s \in RegThreads : ProbingAt(s)'
  <2>1. ASSUME NEW s \in RegThreads \ {t}
        PROVE  ProbingAt(s)'
    <3>1. ProbingAt(s) /\ r'[s] = r[s]
      BY DEF Probing, ProbingAt
    <3>2. r[s].pc \in {"probe", "claim", "cas"} => r[s].type \in Types
      BY LocalTypes
    <3>3. r[s].i \in Nat
      BY LocalTypes, Facts, SMTT(60)
    <3>4. CASE r[s].pc = "probe"
      <4>1. Passed(r[s].type, r[s].i)'
        <5>1. \A T \in Types, k \in Nat : Passed(T, k) => Passed(T, k)'
          BY PassedStays
        <5>2. r[s].type = r'[s].type /\ r[s].i = r'[s].i
          BY <3>1
        <5> QED
          BY <3>1, <3>2, <3>3, <3>4, <5>1, <5>2 DEF ProbingAt, Passed, Reach
      <4> QED
        BY <3>1, <3>4, <4>1 DEF ProbingAt
    <3>5. CASE r[s].pc \in {"claim", "cas"}
      <4>1. PICK k \in Nat : r[s].slot = Reach(r[s].type, k) /\ Passed(r[s].type, k)
        BY <3>1, <3>5 DEF ProbingAt
      <4>2. \A T \in Types : Passed(T, k) => Passed(T, k)'
        BY PassedStays
      <4>3. \A j \in 0..(k - 1) : slots'[Reach(r[s].type, j)] \notin {NoType, r[s].type}
        BY <3>2, <3>5, <4>1, <4>2 DEF Passed, Reach
      <4> QED
        BY <3>1, <3>5, <4>1, <4>3 DEF ProbingAt, Passed, Reach
    <3> QED
      BY <3>1, <3>4, <3>5 DEF ProbingAt
  <2> QED
    BY <2>1
<1>2. ASSUME NEW i \in Index, slots'[i] # NoType
      PROVE  MadeAfter(i)'
  <2>1. CASE slots[i] = NoType
    BY <1>2, <2>1
  <2>2. CASE slots[i] # NoType
    <3>1. slots'[i] = slots[i] /\ slots[i] \in Types
      BY <2>2 DEF Kept, RegistryInv, RegistryType
    <3>2. PICK k \in Nat : i = Reach(slots[i], k) /\ Passed(slots[i], k)
      BY <2>2 DEF Probing, MadeAfter
    <3>3. \A T \in Types : Passed(T, k) => Passed(T, k)'
      BY PassedStays
    <3>4. \A j \in 0..(k - 1) : slots'[Reach(slots'[i], j)] \notin {NoType, slots'[i]}
      BY <3>1, <3>2, <3>3 DEF Passed, Reach
    <3> QED
      BY <3>1, <3>2, <3>4 DEF MadeAfter, Passed, Reach
  <2> QED
    BY <2>1, <2>2
<1> QED
  BY <1>1, <1>2 DEF Probing

\* A step of t that is not probing afterwards and makes no entry.
LEMMA ProbingOver ==
  ASSUME RegistryInv, RegistryInv', Kept, Probing, NEW t \in RegThreads,
         \A s \in RegThreads \ {t} : r'[s] = r[s],
         r'[t].pc \notin {"probe", "claim", "cas"}, slots' = slots
  PROVE  Probing'
<1>1. ProbingAt(t)'
  BY DEF ProbingAt
<1> QED
  BY <1>1, ProbingFrame

\* A step of t to a slot that probing reaches, past slots of other types.
LEMMA ProbingOn ==
  ASSUME RegistryInv, RegistryInv', Kept, Probing, NEW t \in RegThreads,
         \A s \in RegThreads \ {t} : r'[s] = r[s], slots' = slots,
         NEW T \in Types, NEW k \in Nat, Passed(T, k), r'[t].type = T,
         \/ r'[t].pc = "probe" /\ r'[t].i = k
         \/ r'[t].pc \in {"claim", "cas"} /\ r'[t].slot = Reach(T, k)
  PROVE  Probing'
<1>1. ProbingAt(t)'
  <2>1. \A j \in 0..(k - 1) : slots'[Reach(T, j)] \notin {NoType, T}
    BY DEF Passed
  <2> QED
    BY <2>1 DEF ProbingAt, Passed, Reach
<1> QED
  BY <1>1, ProbingFrame

\* Going on from an occupied slot.
LEMMA ProbingOccupied ==
  ASSUME RegistryInv, RegistryInv', Kept, Probing, NEW t \in RegThreads,
         r[t].pc \in {"claim", "cas"}, slots[r[t].slot] # NoType, Occupied(t), slots' = slots
  PROVE  Probing'
<1>1. PICK k \in Nat : r[t].slot = Reach(r[t].type, k) /\ Passed(r[t].type, k)
  BY DEF Probing, ProbingAt
<1>2. CASE slots[r[t].slot] = r[t].type
  <2>1. Become(t, "loadId", r[t].type, r[t].i, r[t].slot, r[t].id)
    BY <1>2 DEF Occupied, Proceed
  <2>2. r'[t].pc = "loadId" /\ \A s \in RegThreads \ {t} : r'[s] = r[s]
    BY <2>1, LocalUpdate
  <2> QED
    BY <2>2, ProbingOver
<1>3. CASE slots[r[t].slot] # r[t].type
  <2>1. Become(t, "claim", r[t].type, r[t].i, (r[t].slot + 1) % N, r[t].id)
    BY <1>3 DEF Occupied, MoveTo
  <2>2. /\ r'[t].pc = "claim" /\ r'[t].type = r[t].type /\ r'[t].slot = (r[t].slot + 1) % N
        /\ \A s \in RegThreads \ {t} : r'[s] = r[s]
    BY <2>1, LocalUpdate, SMTT(60)
  <2>3. r[t].type \in Types
    BY LocalTypes
  <2>4. r'[t].slot = Reach(r[t].type, k + 1) /\ Passed(r[t].type, k + 1)
    BY <1>1, <1>3, <2>2, <2>3, ReachFacts, PassedNext
  <2> QED
    BY <2>2, <2>3, <2>4, ProbingOn, SMTT(60)
<1> QED
  BY <1>2, <1>3

\* The entry made by a successful CAS.
LEMMA ProbingCas ==
  ASSUME RegistryInv, RegistryInv', Kept, Probing, NEW t \in RegThreads, Cas(t)
  PROVE  Probing'
<1>0. r[t].pc = "cas" /\ r[t].type \in Types /\ r[t].slot \in Index
  BY LocalTypes DEF Cas, IsAt
<1>1. CASE slots[r[t].slot] # NoType
  BY <1>0, <1>1, ProbingOccupied DEF Cas
<1>2. CASE slots[r[t].slot] = NoType
  <2>1. /\ slots' = [slots EXCEPT ![r[t].slot] = r[t].type]
        /\ Become(t, "faa", r[t].type, r[t].i, r[t].slot, r[t].id)
    BY <1>2 DEF Cas, Proceed
  <2>2. r'[t].pc = "faa" /\ \A s \in RegThreads \ {t} : r'[s] = r[s]
    BY <2>1, LocalUpdate, SMTT(60)
  <2>3. ProbingAt(t)'
    BY <2>2 DEF ProbingAt
  <2>4. /\ slots'[r[t].slot] = r[t].type
        /\ \A i \in Index \ {r[t].slot} : slots'[i] = slots[i]
    BY <1>0, <2>1 DEF RegistryInv, RegistryType
  <2>5. ASSUME NEW x \in Index, x = r[t].slot
        PROVE  MadeAfter(x)'
    <3>1. PICK k \in Nat : r[t].slot = Reach(r[t].type, k) /\ Passed(r[t].type, k)
      BY <1>0 DEF Probing, ProbingAt
    <3>2. \A T \in Types : Passed(T, k) => Passed(T, k)'
      BY PassedStays
    <3>3. \A j \in 0..(k - 1) : slots'[Reach(r[t].type, j)] \notin {NoType, r[t].type}
      BY <1>0, <3>1, <3>2 DEF Passed, Reach
    <3> QED
      BY <2>4, <2>5, <3>1, <3>3 DEF MadeAfter, Passed, Reach
  <2> QED
    BY <2>2, <2>3, <2>4, <2>5, ProbingFrame
<1> QED
  BY <1>1, <1>2

\* Every step of get_or_insert and register_type keeps the invariant of probing.
LEMMA ProbingStep ==
  ASSUME RegistryInv, RegistryInv', Kept, Probing, [RegistryNext]_registryVars
  PROVE  Probing'
<1>1. ASSUME NEW t \in RegThreads, NEW T \in Types, Register(t, T)
      PROVE  Probing'
  <2>1. /\ r'[t].pc = "probe" /\ r'[t].type = T /\ r'[t].i = 0
        /\ \A s \in RegThreads \ {t} : r'[s] = r[s]
    BY <1>1 DEF Register, Become, RegistryInv, RegistryType
  <2>2. Passed(T, 0) /\ slots' = slots
    BY <1>1, SMTT(60) DEF Passed, Register
  <2> QED
    BY <2>1, <2>2, ProbingOn, SMTT(60)
<1>2. ASSUME NEW t \in RegThreads, Probe(t)
      PROVE  Probing'
  <2> DEFINE T == r[t].type
             idx == ProbeIndex(t)
  <2>1. /\ T \in Types /\ r[t].i \in Nat /\ idx = Reach(T, r[t].i)
        /\ Passed(T, r[t].i) /\ slots' = slots
    BY <1>2, LocalTypes, Facts, SMTT(60) DEF Probe, IsAt, ProbeIndex, Reach, Probing, ProbingAt
  <2>2. CASE slots[idx] = NoType
    <3>1. Become(t, "claim", T, r[t].i, idx, r[t].id)
      BY <1>2, <2>1, <2>2, Facts DEF Probe, MoveTo
    <3>2. /\ r'[t].pc = "claim" /\ r'[t].type = T /\ r'[t].slot = idx
          /\ \A s \in RegThreads \ {t} : r'[s] = r[s]
      BY <3>1, LocalUpdate, SMTT(60)
    <3> QED
      BY <2>1, <3>2, ProbingOn
  <2>3. CASE slots[idx] # NoType /\ slots[idx] = T
    <3>1. Become(t, "loadId", T, r[t].i, idx, r[t].id)
      BY <1>2, <2>3 DEF Probe, MoveTo
    <3>2. r'[t].pc = "loadId" /\ \A s \in RegThreads \ {t} : r'[s] = r[s]
      BY <3>1, LocalUpdate
    <3> QED
      BY <2>1, <3>2, ProbingOver
  <2>4. CASE slots[idx] # NoType /\ slots[idx] # T
    <3>1. Become(t, "probe", T, r[t].i + 1, r[t].slot, r[t].id)
      BY <1>2, <2>4 DEF Probe
    <3>2. /\ r'[t].pc = "probe" /\ r'[t].type = T /\ r'[t].i = r[t].i + 1
          /\ \A s \in RegThreads \ {t} : r'[s] = r[s]
      BY <3>1 DEF Become, RegistryInv, RegistryType
    <3>3. Passed(T, r[t].i + 1)
      BY <2>1, <2>4, PassedNext
    <3> QED
      BY <2>1, <3>2, <3>3, ProbingOn, SMTT(60)
  <2> QED
    BY <2>2, <2>3, <2>4
<1>3. ASSUME NEW t \in RegThreads, Claim(t)
      PROVE  Probing'
  <2>1. CASE slots[r[t].slot] = NoType
    <3>1. Become(t, "cas", r[t].type, r[t].i, r[t].slot, r[t].id) /\ slots' = slots
      BY <1>3, <2>1 DEF Claim, Proceed
    <3>2. /\ r'[t].pc = "cas" /\ r'[t].type = r[t].type /\ r'[t].slot = r[t].slot
          /\ \A s \in RegThreads \ {t} : r'[s] = r[s]
      BY <3>1, LocalUpdate, SMTT(60)
    <3>3. PICK k \in Nat : r[t].slot = Reach(r[t].type, k) /\ Passed(r[t].type, k)
      BY <1>3 DEF Claim, IsAt, Probing, ProbingAt
    <3>4. r[t].type \in Types
      BY <1>3, LocalTypes DEF Claim, IsAt
    <3> QED
      BY <3>1, <3>2, <3>3, <3>4, ProbingOn
  <2>2. CASE slots[r[t].slot] # NoType
    BY <1>3, <2>2, ProbingOccupied DEF Claim, IsAt
  <2> QED
    BY <2>1, <2>2
<1>4. ASSUME NEW t \in RegThreads,
             ProbeFull(t) \/ Faa(t) \/ StoreFn(t) \/ StoreId(t) \/ LoadId(t) \/ Use(t)
      PROVE  Probing'
  <2>1. /\ \A s \in RegThreads \ {t} : r'[s] = r[s]
        /\ r'[t].pc \notin {"probe", "claim", "cas"} /\ slots' = slots
    BY <1>4, SMTT(60) DEF ProbeFull, Faa, StoreFn, StoreId, LoadId, Use, Proceed, Become, Unregistered, RegistryInv,
                RegistryType
  <2> QED
    BY <2>1, ProbingOver
<1>5. CASE UNCHANGED registryVars
  BY <1>5 DEF registryVars, Probing, ProbingAt, MadeAfter, Passed, Reach
<1> QED
  BY <1>1, <1>2, <1>3, <1>4, <1>5, ProbingCas DEF RegistryNext, RegistryStep

\* get_or_insert never makes two entries for one type, however its callers race.
THEOREM OneEntryPerTypeHolds == RegistrySpec => []OneEntryPerType
<1>1. RegistryInit => RegistryInv /\ Probing
  <2>1. RegistryInit => Probing
    BY SMTT(60) DEF RegistryInit, Unregistered, Probing, ProbingAt
  <2> QED
    BY <2>1, RegistryInitInv
<1>2. RegistryInv /\ Probing /\ [RegistryNext]_registryVars => RegistryInv' /\ Probing'
  BY RegistryStepInv, ProbingStep
<1> QED
  BY <1>1, <1>2, ProbingOneEntry, PTL DEF RegistrySpec

=============================================================================

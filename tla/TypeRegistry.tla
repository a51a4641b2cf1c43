---------------------------- MODULE TypeRegistry ----------------------------
(***************************************************************************)
(* register_type (pointers.rs) on top of FixedHashSet::get_or_insert       *)
(* (sync/hash_set.rs): each managed type gets a small id, with which every *)
(* object finds the shade function of its type.  One step per access to    *)
(* shared memory.  Two TypeRegs are equal when their types are, so a slot  *)
(* holds a type; the id of the entry is apart.                             *)
(***************************************************************************)
EXTENDS Naturals, FiniteSets

CONSTANTS
  RegThreads,     \* the threads that make objects
  Types,
  NoType,         \* what a null slot holds
  N,              \* MAX_TYPE_ID, the number of slots
  Hash,           \* hash_key
  Unset           \* ID_UNSET

Index == 0..(N - 1)

\* The capacity is a power of two: masking is taking the remainder.
ASSUME RegistryAssumption ==
  /\ N \in Nat \ {0}
  /\ Hash \in [Types -> Nat]
  /\ NoType \notin Types
  /\ Unset \notin Index

VARIABLES
  slots,          \* slots[i]: TYPE_SET.slots
  id,             \* id[i]: TypeReg::id of the entry in slot i
  nextId,         \* NEXT_TYPE_ID
  shadeFn,        \* SHADE_FN_TABLE: the type whose function it is
  r               \* r[t]: where t is, with its local variables

registryVars == <<slots, id, nextId, shadeFn, r>>

Points == {"idle", "probe", "claim", "cas", "faa", "storeFn", "storeId", "loadId",
           "done", "panic"}

Unregistered == [pc |-> "idle", type |-> NoType, i |-> 0, slot |-> 0, id |-> Unset]

RegistryInit ==
  /\ slots = [i \in Index |-> NoType]
  /\ id = [i \in Index |-> Unset]
  /\ nextId = 0
  /\ shadeFn = [i \in Index |-> NoType]
  /\ r = [t \in RegThreads |-> Unregistered]

IsAt(t, pc) == r[t].pc = pc
Become(t, pc, type, i, slot, n) ==
  r' = [r EXCEPT ![t] = [pc |-> pc, type |-> type, i |-> i, slot |-> slot, id |-> n]]
Proceed(t, pc) == Become(t, pc, r[t].type, r[t].i, r[t].slot, r[t].id)
MoveTo(t, pc, slot) == Become(t, pc, r[t].type, r[t].i, slot, r[t].id)

-----------------------------------------------------------------------------
(* get_or_insert.                                                           *)

\* ManObj::new of an object of type T.
Register(t, T) ==
  /\ IsAt(t, "idle")
  /\ Become(t, "probe", T, 0, 0, Unset)
  /\ UNCHANGED <<slots, id, nextId, shadeFn>>

ProbeIndex(t) == (Hash[r[t].type] + r[t].i) % N

\* The hot path: one round over the slots, up to the first null one.
Probe(t) ==
  LET idx == ProbeIndex(t) IN
  /\ IsAt(t, "probe")
  /\ r[t].i < N
  /\ CASE slots[idx] = NoType -> MoveTo(t, "claim", idx)
       [] slots[idx] = r[t].type -> MoveTo(t, "loadId", idx)
       [] OTHER -> Become(t, "probe", r[t].type, r[t].i + 1, r[t].slot, r[t].id)
  /\ UNCHANGED <<slots, id, nextId, shadeFn>>

\* expect("FixedHashSet is full").
ProbeFull(t) ==
  /\ IsAt(t, "probe")
  /\ r[t].i = N
  /\ Proceed(t, "panic")
  /\ UNCHANGED <<slots, id, nextId, shadeFn>>

\* What is done about an occupied slot: the entry found is the result, or the
\* probe goes on, without counting.
Occupied(t) ==
  IF slots[r[t].slot] = r[t].type
    THEN Proceed(t, "loadId")
    ELSE MoveTo(t, "claim", (r[t].slot + 1) % N)

\* The cold path: load the slot again.
Claim(t) ==
  /\ IsAt(t, "claim")
  /\ IF slots[r[t].slot] = NoType THEN Proceed(t, "cas") ELSE Occupied(t)
  /\ UNCHANGED <<slots, id, nextId, shadeFn>>

\* Mutant: the winner of the race is taken for a different key.
CasForward(t) ==
  LET s == r[t].slot IN
  /\ IsAt(t, "cas")
  /\ IF slots[s] = NoType
       THEN slots' = [slots EXCEPT ![s] = r[t].type] /\ Proceed(t, "faa")
       ELSE MoveTo(t, "claim", (s + 1) % N) /\ UNCHANGED slots
  /\ UNCHANGED <<id, nextId, shadeFn>>

\* Mutant: the slot is claimed with a store.
CasOverwrites(t) ==
  /\ IsAt(t, "cas")
  /\ slots' = [slots EXCEPT ![r[t].slot] = r[t].type]
  /\ Proceed(t, "faa")
  /\ UNCHANGED <<id, nextId, shadeFn>>

Cas(t) ==
  LET s == r[t].slot IN
  /\ IsAt(t, "cas")
  /\ IF slots[s] = NoType
       THEN slots' = [slots EXCEPT ![s] = r[t].type] /\ Proceed(t, "faa")
       ELSE Occupied(t) /\ UNCHANGED slots
  /\ UNCHANGED <<id, nextId, shadeFn>>

-----------------------------------------------------------------------------
(* register_type after get_or_insert.                                       *)

\* The inserting thread: assert!(new_id < MAX_TYPE_ID).
Faa(t) ==
  /\ IsAt(t, "faa")
  /\ nextId' = nextId + 1
  /\ Become(t, IF nextId < N THEN "storeFn" ELSE "panic",
            r[t].type, r[t].i, r[t].slot, nextId)
  /\ UNCHANGED <<slots, id, shadeFn>>

\* Mutant: the id is published before the function.
StoreFnLate(t) ==
  /\ IsAt(t, "storeFn")
  /\ id' = [id EXCEPT ![r[t].slot] = r[t].id]
  /\ Proceed(t, "storeId")
  /\ UNCHANGED <<slots, nextId, shadeFn>>

StoreFn(t) ==
  /\ IsAt(t, "storeFn")
  /\ shadeFn' = [shadeFn EXCEPT ![r[t].id] = r[t].type]
  /\ Proceed(t, "storeId")
  /\ UNCHANGED <<slots, id, nextId>>

\* Mutant: the id is not published.
StoreIdNever(t) ==
  /\ IsAt(t, "storeId")
  /\ Proceed(t, "done")
  /\ UNCHANGED <<slots, id, nextId, shadeFn>>

StoreId(t) ==
  /\ IsAt(t, "storeId")
  /\ id' = [id EXCEPT ![r[t].slot] = r[t].id]
  /\ Proceed(t, "done")
  /\ UNCHANGED <<slots, nextId, shadeFn>>

\* Any other thread spins until the id is there.
LoadId(t) ==
  LET s == r[t].slot IN
  /\ IsAt(t, "loadId")
  /\ id[s] # Unset
  /\ Become(t, "done", r[t].type, r[t].i, s, id[s])
  /\ UNCHANGED <<slots, id, nextId, shadeFn>>

\* The id is in the header of the object; the thread goes on.
Use(t) ==
  /\ IsAt(t, "done")
  /\ r' = [r EXCEPT ![t] = Unregistered]
  /\ UNCHANGED <<slots, id, nextId, shadeFn>>

-----------------------------------------------------------------------------

RegistryStep(t) ==
  \/ Probe(t) \/ ProbeFull(t) \/ Claim(t) \/ Cas(t)
  \/ Faa(t) \/ StoreFn(t) \/ StoreId(t) \/ LoadId(t)

RegistryNext == \E t \in RegThreads : RegistryStep(t) \/ Use(t) \/ \E T \in Types : Register(t, T)

RegistrySpec == RegistryInit /\ [][RegistryNext]_registryVars


-----------------------------------------------------------------------------

\* An id that register_type has returned is the id of that type alone, and
\* get_shade_fn finds the function of that type under it: the debug_assert of
\* get_shade_fn holds, and the transmuted function is the right one.
ShadeFnReady ==
  \A t \in RegThreads : IsAt(t, "done") => shadeFn[r[t].id] = r[t].type

\* get_or_insert deduplicates by type: two threads that race to insert a type agree
\* on one entry.
OneEntryPerType ==
  \A i, j \in Index : slots[i] # NoType /\ slots[i] = slots[j] => i = j

\* An entry keeps its type and, once it has one, its id; so does the shade function
\* of an id.
Stable ==
  [][\A i \in Index :
       /\ slots[i] # NoType => slots'[i] = slots[i]
       /\ id[i] # Unset => id'[i] = id[i]
       /\ shadeFn[i] # NoType => shadeFn'[i] = shadeFn[i]]_registryVars

\* A thread that spins in register_type for the id of its type gets it: whoever
\* inserted the entry, anywhere between its CAS and its store, publishes the id.
SpinEnds == \A t \in RegThreads : IsAt(t, "loadId") ~> IsAt(t, "done")

\* A registration returns, or panics with "FixedHashSet is full".  This is so only
\* when there is room for every type: the loop of the cold path counts no rounds, and
\* a thread that saw a null slot before the table filled up walks round it for ever.
Returns == \A t \in RegThreads : IsAt(t, "probe") ~> (IsAt(t, "done") \/ IsAt(t, "panic"))
=============================================================================

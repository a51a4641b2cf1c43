--------------------------- MODULE ConcurrentMap ---------------------------
(***************************************************************************)
(* What the trait ConcurrentMap (examples/common/mod.rs) promises of every *)
(* map: each call takes effect at one point between its invocation and its *)
(* response.  A successful insertion or removal changes the binding of its *)
(* key at that point; a call that changes nothing answers with a binding   *)
(* its key had at some moment of the call.                                 *)
(***************************************************************************)
EXTENDS MapCalls

VARIABLES
    contents,  \* the binding of each key
    call       \* the latest call of each thread

vars == <<contents, call>>

Init ==
    /\ contents \in [Keys -> {Prior, Absent}]
    /\ call = [t \in Threads |-> Idle]

Begin(t) ==
    /\ call[t].state # "pending"
    /\ \E op \in Operations, k \in Keys :
         call' = [call EXCEPT ![t] = Pending(op, k, {contents[k]})]
    /\ UNCHANGED contents

MayChange(t) ==
    /\ call[t].state = "pending"
    /\ \/ call[t].op = "insert" /\ contents[call[t].key] = Absent
       \/ call[t].op = "remove" /\ contents[call[t].key] # Absent

(***************************************************************************)
(* The calls of the threads T take effect at once.  One compare-and-swap   *)
(* of a map can complete several removals, of different keys.              *)
(***************************************************************************)
Effect(T) ==
    /\ \A t, u \in T : t # u => call[t].key # call[u].key
    /\ contents' = [k \in Keys |->
         IF \E t \in T : call[t].key = k
         THEN LET t == CHOOSE t \in T : call[t].key = k
              IN  IF call[t].op = "insert" THEN t ELSE Absent
         ELSE contents[k]]
    /\ call' = [t \in Threads |->
         IF t \in T THEN EffectOf(call[t], contents[call[t].key])
                    ELSE See(call[t], contents')]

(***************************************************************************)
(* A call answers without an effect, from what its key was bound to.       *)
(***************************************************************************)
Answer(t) ==
    /\ call[t].state = "pending"
    /\ \E v \in call[t].seen :
         /\ call[t].op = "insert" => v # Absent
         /\ call[t].op = "remove" => v = Absent
         /\ call' = [call EXCEPT ![t] =
              Answered(@, IF @.op = "insert" THEN FALSE ELSE v)]
    /\ UNCHANGED contents

Next ==
    \/ \E t \in Threads : Begin(t) \/ Answer(t)
    \/ \E T \in SUBSET {t \in Threads : MayChange(t)} : T # {} /\ Effect(T)

Spec == Init /\ [][Next]_vars
=============================================================================

------------------------------ MODULE MapCalls ------------------------------
(***************************************************************************)
(* The calls that threads make on a concurrent map, as the trait           *)
(* ConcurrentMap (examples/common/mod.rs) declares them and as the threads *)
(* of its stress test make them: any operation, on any key, one call at a  *)
(* time.  A call is a record that a specification keeps per thread:        *)
(*                                                                         *)
(*   - pending, with the set `seen` of every binding its key has had since *)
(*     the call began;                                                     *)
(*   - answered, with its result, from the step at which it took effect    *)
(*     (or, without an effect, returned) until the thread calls again.     *)
(*                                                                         *)
(* An insertion by thread t binds the key to t, so that a value tells who  *)
(* inserted it.                                                            *)
(***************************************************************************)
CONSTANTS
    Threads,  \* the threads that share the map, integers
    Keys,     \* the keys they use, integers
    Prior,    \* the value of a key bound before the threads start
    Absent    \* "no value": the result None, and the binding of an absent key

Operations == {"get", "insert", "remove"}

Idle == [state |-> "idle"]
Pending(op, k, seen) == [state |-> "pending", op |-> op, key |-> k, seen |-> seen]
Answered(c, r) == [state |-> "answered", op |-> c.op, key |-> c.key, result |-> r]

(***************************************************************************)
(* What a pending call answers when a step changes its key's binding from  *)
(* `old` to `new` on its behalf: `true` for an insertion, the value it     *)
(* removed for a removal.                                                  *)
(***************************************************************************)
EffectOf(c, old) == Answered(c, IF c.op = "insert" THEN TRUE ELSE old)

See(c, new) == IF c.state = "pending" THEN [c EXCEPT !.seen = @ \cup {new[c.key]}] ELSE c
=============================================================================

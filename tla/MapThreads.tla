----------------------------- MODULE MapThreads -----------------------------
(***************************************************************************)
(* The threads of a detailed map: the loop of the stress test              *)
(* (examples/common/mod.rs), which makes calls of random operations on     *)
(* random keys, and the record of those calls.  `contents` and `call` are  *)
(* history variables in the terms of ConcurrentMap: the bindings that the  *)
(* nodes stand for, and the calls, of which a step of a map reads only the *)
(* operation and the key.  A map implements ConcurrentMap when its steps,  *)
(* seen through these two variables, are steps of that specification.      *)
(***************************************************************************)
EXTENDS MapCalls, Integers

CONSTANT Plans  \* how many calls the threads make between them, on which keys (bounds)

VARIABLES
    kind,  \* which map the threads share
    mem,   \* the nodes
    work,  \* the local variables of each thread's call
    plan,  \* the calls that may still be made
    contents,  \* history: the bindings that mem stands for
    call       \* history: the calls, in the terms of ConcurrentMap

vars == <<kind, mem, work, plan, contents, call>>

Null == 0

InitThreads ==
    /\ call = [t \in Threads |-> Idle]
    /\ plan \in Plans

(***************************************************************************)
(* The next call of a thread; `start` is what the operation's first,       *)
(* thread-local, lines leave in its locals.  Threads run the same code, so *)
(* they are numbered in the order of their first calls.                    *)
(***************************************************************************)
Call(t, op, k, start) ==
    /\ work[t].pc = "rest"
    /\ \A u \in Threads : u < t => call[u] # Idle
    /\ plan.calls > 0
    /\ k \in plan.keys
    /\ plan' = [plan EXCEPT !.calls = @ - 1]
    /\ work' = [work EXCEPT ![t] = start]
    /\ call' = [call EXCEPT ![t] = Pending(op, k, {contents[k]})]
    /\ UNCHANGED <<kind, contents>>

(***************************************************************************)
(* The history of a step of thread t after which the nodes stand for       *)
(* `bindings`.  An insertion took effect when its value appeared; a        *)
(* removal when its key lost the binding that Owns(u) says thread u is     *)
(* removing.  A call that returns answers what the code returned, whatever *)
(* was recorded before.                                                    *)
(***************************************************************************)
TookEffect(u, Owns(_)) ==
    LET c == call[u]
    IN  /\ c.state = "pending"
        /\ contents[c.key] # contents'[c.key]
        /\ \/ c.op = "insert" /\ contents'[c.key] = u
           \/ c.op = "remove" /\ contents'[c.key] = Absent /\ Owns(u)

Record(t, bindings, Owns(_)) ==
    /\ UNCHANGED <<kind, plan>>
    /\ contents' = bindings
    /\ call' = [u \in Threads |->
         CASE u = t /\ work'[t].pc = "rest" -> Answered(call[t], work'[t].result)
           [] TookEffect(u, Owns)           -> EffectOf(call[u], contents[call[u].key])
           [] OTHER                         -> See(call[u], contents')]

Rest(r) == [pc |-> "rest", result |-> r]

Running(t) == work[t].pc # "rest"
AllReturned == plan.calls = 0 /\ \A t \in Threads : ~Running(t)
=============================================================================

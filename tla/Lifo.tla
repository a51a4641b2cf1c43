-------------------------------- MODULE Lifo --------------------------------
(***************************************************************************)
(* What a stack promises (examples/stack.rs): a push or a pop takes effect *)
(* at one step, at the top, and a pop answers Absent only if the stack is  *)
(* empty at that step.                                                     *)
(***************************************************************************)
EXTENDS Sequences

CONSTANTS Threads, Items, Absent

VARIABLES
    contents,  \* the items, from the top
    call       \* the latest call of each thread

vars == <<contents, call>>

Idle == [state |-> "idle"]
Pushing(x) == [state |-> "pending", op |-> "push", item |-> x]
Popping == [state |-> "pending", op |-> "pop"]
Answered(r) == [state |-> "answered", result |-> r]

Init == contents = <<>> /\ call = [t \in Threads |-> Idle]

Begin(t) ==
    /\ call[t].state # "pending"
    /\ \E c \in {Pushing(x) : x \in Items} \cup {Popping} : call' = [call EXCEPT ![t] = c]
    /\ UNCHANGED contents

Push(t) ==
    /\ call[t].state = "pending" /\ call[t].op = "push"
    /\ contents' = <<call[t].item>> \o contents
    /\ call' = [call EXCEPT ![t] = Answered(@.item)]

Pop(t) ==
    /\ call[t].state = "pending" /\ call[t].op = "pop"
    /\ \/ contents = <<>> /\ UNCHANGED contents
          /\ call' = [call EXCEPT ![t] = Answered(Absent)]
       \/ contents # <<>> /\ contents' = Tail(contents)
          /\ call' = [call EXCEPT ![t] = Answered(Head(contents))]

Next == \E t \in Threads : Begin(t) \/ Push(t) \/ Pop(t)

Spec == Init /\ [][Next]_vars
=============================================================================

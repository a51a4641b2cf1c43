-------------------------------- MODULE Fifo --------------------------------
(***************************************************************************)
(* What sync/queue.rs promises: a first-in first-out queue whose push and  *)
(* try_pop take effect at one instant between their call and their return. *)
(***************************************************************************)
EXTENDS Sequences

CONSTANTS Threads, Values, None

VARIABLES
  items,          \* the values in the queue, the oldest first
  call            \* call[t]: the call under way, its argument or its result

fifoVars == <<items, call>>

NoCall == [op |-> "none", val |-> None]

FifoInit ==
  /\ items = <<>>
  /\ call = [t \in Threads |-> NoCall]

Become(t, op, v) == call' = [call EXCEPT ![t] = [op |-> op, val |-> v]]

CallPush(t, v) ==
  /\ call[t] = NoCall
  /\ Become(t, "push", v)
  /\ UNCHANGED items

DoPush(t) ==
  /\ call[t].op = "push"
  /\ items' = Append(items, call[t].val)
  /\ Become(t, "done", None)

CallPop(t) ==
  /\ call[t] = NoCall
  /\ Become(t, "pop", None)
  /\ UNCHANGED items

DoPop(t) ==
  /\ call[t].op = "pop"
  /\ items # <<>>
  /\ Become(t, "done", Head(items))
  /\ items' = Tail(items)

\* "Returns `None` if the queue is observed to be empty."
DoPopEmpty(t) ==
  /\ call[t].op = "pop"
  /\ items = <<>>
  /\ Become(t, "done", None)
  /\ UNCHANGED items

Ret(t) ==
  /\ call[t].op = "done"
  /\ call' = [call EXCEPT ![t] = NoCall]
  /\ UNCHANGED items

FifoNext ==
  \E t \in Threads :
    \/ \E v \in Values : CallPush(t, v)
    \/ DoPush(t)
    \/ CallPop(t)
    \/ DoPop(t)
    \/ DoPopEmpty(t)
    \/ Ret(t)

FifoSpec == FifoInit /\ [][FifoNext]_fifoVars
=============================================================================

------------------------------- MODULE Queue -------------------------------
(***************************************************************************)
(* sync/queue.rs: the Michael-Scott queue behind Global::fresh_objs and    *)
(* Global::marked_objs.  One step per access to shared memory.             *)
(*                                                                         *)
(* A node is an address: crossbeam's epoch-based reclamation (external)    *)
(* frees a retired node once every thread that was pinned when it was      *)
(* retired has unpinned, and the allocator may then hand the same address  *)
(* to a later push.  A thread is pinned from its call to its return.       *)
(***************************************************************************)
EXTENDS Naturals, Sequences

CONSTANTS
  Threads, Values, Nodes,
  Null, None,
  Fair,           \* the threads that never stop in the middle of a call
  MaxOps          \* bound on the calls made

ASSUME QueueAssumption ==
  /\ Null \notin Nodes
  /\ None \notin Values
  /\ Fair \subseteq Threads
  /\ MaxOps \in Nat
  /\ Nodes # {}

VARIABLES
  head, tail,
  next, data,     \* the fields of the nodes
  live,           \* nodes allocated and not retired
  waiters,        \* waiters[n]: threads pinned since before n was retired
  w,              \* w[t]: where t is, with its local variables
  ops,            \* calls made so far
  chain           \* history: the sentinel and the nodes linked after it

vars == <<head, tail, next, data, live, waiters, w, ops, chain>>
nodeVars == <<data, live, waiters>>

Quiet == [pc |-> "idle", new |-> Null, onto |-> Null, nx |-> Null, val |-> None]

\* Queue::new: the sentinel is head and tail.
Init ==
  \E s \in Nodes :
    /\ head = s /\ tail = s
    /\ next = [n \in Nodes |-> Null]
    /\ data = [n \in Nodes |-> None]
    /\ live = {s}
    /\ waiters = [n \in Nodes |-> {}]
    /\ w = [t \in Threads |-> Quiet]
    /\ ops = 0
    /\ chain = <<s>>

At(t, pc) == w[t].pc = pc
Goto(t, pc) == w' = [w EXCEPT ![t].pc = pc]
Pinned == {t \in Threads : ~ At(t, "idle")}
Free == {n \in Nodes : n \notin live /\ waiters[n] = {}}

Call(t) == At(t, "idle") /\ ops < MaxOps /\ ops' = ops + 1

-----------------------------------------------------------------------------
(* push and push_internal.                                                  *)

\* The node is built before the loop.
Push(t, v) ==
  /\ Call(t)
  /\ \E n \in Free :
       /\ next' = [next EXCEPT ![n] = Null]
       /\ data' = [data EXCEPT ![n] = v]
       /\ live' = live \cup {n}
       /\ w' = [w EXCEPT ![t] = [Quiet EXCEPT !.pc = "tail", !.new = n]]
  /\ UNCHANGED <<head, tail, waiters, chain>>

LoadTail(t) ==
  /\ At(t, "tail")
  /\ w' = [w EXCEPT ![t].pc = "next", ![t].onto = tail]
  /\ UNCHANGED <<head, tail, next, nodeVars, ops, chain>>

\* Is `onto` the actual tail?
LoadNext(t) ==
  /\ At(t, "next")
  /\ LET nx == next[w[t].onto] IN
       w' = [w EXCEPT ![t].pc = IF nx = Null THEN "link" ELSE "help", ![t].nx = nx]
  /\ UNCHANGED <<head, tail, next, nodeVars, ops, chain>>

\* Mutant: the tail is left to the thread that linked the node.
HelpNothing(t) ==
  /\ At(t, "help")
  /\ Goto(t, "tail")
  /\ UNCHANGED <<head, tail, next, nodeVars, ops, chain>>

\* "Help" by moving the tail forward, then start over.
Help(t) ==
  /\ At(t, "help")
  /\ tail' = IF tail = w[t].onto THEN w[t].nx ELSE tail
  /\ Goto(t, "tail")
  /\ UNCHANGED <<head, next, nodeVars, ops, chain>>

Link(t) ==
  /\ At(t, "link")
  /\ IF next[w[t].onto] = Null
       THEN /\ next' = [next EXCEPT ![w[t].onto] = w[t].new]
            /\ chain' = Append(chain, w[t].new)
            /\ Goto(t, "swing")
       ELSE /\ Goto(t, "tail")
            /\ UNCHANGED <<next, chain>>
  /\ UNCHANGED <<head, tail, nodeVars, ops>>

Swing(t) ==
  /\ At(t, "swing")
  /\ tail' = IF tail = w[t].onto THEN w[t].new ELSE tail
  /\ Goto(t, "ret")
  /\ UNCHANGED <<head, next, nodeVars, ops, chain>>

-----------------------------------------------------------------------------
(* try_pop and pop_internal.                                                *)

Pop(t) ==
  /\ Call(t)
  /\ w' = [w EXCEPT ![t] = [Quiet EXCEPT !.pc = "popHead"]]
  /\ UNCHANGED <<head, tail, next, nodeVars, chain>>

PopLoadHead(t) ==
  /\ At(t, "popHead")
  /\ w' = [w EXCEPT ![t].pc = "popNext", ![t].onto = head]
  /\ UNCHANGED <<head, tail, next, nodeVars, ops, chain>>

\* Ok(None) when there is no next node.
PopLoadNext(t) ==
  /\ At(t, "popNext")
  /\ LET nx == next[w[t].onto] IN
       w' = [w EXCEPT ![t].pc = IF nx = Null THEN "ret" ELSE "popCas", ![t].nx = nx]
  /\ UNCHANGED <<head, tail, next, nodeVars, ops, chain>>

\* Err(()) and another try when the head has moved.
PopCas(t) ==
  /\ At(t, "popCas")
  /\ IF head = w[t].onto
       THEN /\ head' = w[t].nx
            /\ chain' = Tail(chain)
            /\ Goto(t, "popTail")
       ELSE /\ Goto(t, "popHead")
            /\ UNCHANGED <<head, chain>>
  /\ UNCHANGED <<tail, next, nodeVars, ops>>

\* Mutant: the tail may stay behind the head.
PopLoadTailIgnored(t) ==
  /\ At(t, "popTail")
  /\ Goto(t, "popRead")
  /\ UNCHANGED <<head, tail, next, nodeVars, ops, chain>>

PopLoadTail(t) ==
  /\ At(t, "popTail")
  /\ Goto(t, IF tail = w[t].onto THEN "popSwing" ELSE "popRead")
  /\ UNCHANGED <<head, tail, next, nodeVars, ops, chain>>

PopSwing(t) ==
  /\ At(t, "popSwing")
  /\ tail' = IF tail = w[t].onto THEN w[t].nx ELSE tail
  /\ Goto(t, "popRead")
  /\ UNCHANGED <<head, next, nodeVars, ops, chain>>

\* Mutant: the old sentinel is freed at once.
PopReadFrees(t) ==
  /\ At(t, "popRead")
  /\ live' = live \ {w[t].onto}
  /\ w' = [w EXCEPT ![t].pc = "ret", ![t].val = data[w[t].nx]]
  /\ UNCHANGED <<head, tail, next, data, waiters, ops, chain>>

\* Mutant: the value is taken from the old sentinel.
PopReadSentinel(t) ==
  /\ At(t, "popRead")
  /\ live' = live \ {w[t].onto}
  /\ waiters' = [waiters EXCEPT ![w[t].onto] = Pinned]
  /\ w' = [w EXCEPT ![t].pc = "ret", ![t].val = data[w[t].onto]]
  /\ UNCHANGED <<head, tail, next, data, ops, chain>>

\* defer_destroy of the old sentinel, and the value is moved out of the new one.
PopRead(t) ==
  /\ At(t, "popRead")
  /\ live' = live \ {w[t].onto}
  /\ waiters' = [waiters EXCEPT ![w[t].onto] = Pinned]
  /\ w' = [w EXCEPT ![t].pc = "ret", ![t].val = data[w[t].nx]]
  /\ UNCHANGED <<head, tail, next, data, ops, chain>>

\* The call returns and the guard is dropped.
Ret(t) ==
  /\ At(t, "ret")
  /\ w' = [w EXCEPT ![t] = Quiet]
  /\ waiters' = [n \in Nodes |-> waiters[n] \ {t}]
  /\ UNCHANGED <<head, tail, next, data, live, ops, chain>>

-----------------------------------------------------------------------------

Step(t) ==
  \/ LoadTail(t) \/ LoadNext(t) \/ Help(t) \/ Link(t) \/ Swing(t)
  \/ PopLoadHead(t) \/ PopLoadNext(t) \/ PopCas(t)
  \/ PopLoadTail(t) \/ PopSwing(t) \/ PopRead(t)
  \/ Ret(t)

Next ==
  \E t \in Threads :
    \/ \E v \in Values : Push(t, v)
    \/ Pop(t)
    \/ Step(t)

Spec == Init /\ [][Next]_vars

\* A thread that is not in Fair may stop for good in the middle of a call.
FairSpec == Spec /\ \A t \in Fair : WF_vars(Step(t))

-----------------------------------------------------------------------------
(* What the queue promises.                                                 *)

\* The call of t as its caller sees it.  A push has taken effect once its node is
\* linked, a pop once the head has moved or the next pointer was seen null.
CallOf(t) ==
  CASE At(t, "idle") -> [op |-> "none", val |-> None]
    [] w[t].pc \in {"tail", "next", "help", "link"} ->
         [op |-> "push", val |-> data[w[t].new]]
    [] w[t].pc \in {"popHead", "popNext", "popCas"} -> [op |-> "pop", val |-> None]
    [] w[t].pc \in {"popTail", "popSwing", "popRead"} ->
         [op |-> "done", val |-> data[w[t].nx]]
    [] OTHER -> [op |-> "done", val |-> w[t].val]

Items == [i \in 1..(Len(chain) - 1) |-> data[chain[i + 1]]]

Abs == INSTANCE Fifo WITH
  items <- Items,
  call <- [t \in Threads |-> CallOf(t)]

\* Every push and try_pop takes effect at one instant within its call, in first-in
\* first-out order, and a None means that the queue was empty at that instant.
IsFifo == Abs!FifoSpec

\* "Advance the tail so that we don't retire a pointer to a reachable node": no
\* node that the head, the tail or a link reaches has been given to defer_destroy.
ReachableIsLive ==
  /\ tail \in live
  /\ \A i \in DOMAIN chain : chain[i] \in live
  /\ \A i \in 1..(Len(chain) - 1) : next[chain[i]] = chain[i + 1]

\* A node that push_internal or pop_internal is about to dereference, through a
\* pointer it loaded some steps ago, has not been freed meanwhile.
NoUseAfterFree ==
  \A t \in Threads :
    /\ w[t].pc \in {"next", "link", "popNext"} => w[t].onto \notin Free
    /\ At(t, "popRead") => w[t].nx \notin Free

\* Lock-freedom: with finitely many calls, each call of a thread that keeps running
\* returns, wherever the other threads have stopped.
CallsReturn == \A t \in Fair : w[t].pc # "idle" ~> w[t].pc = "idle"
=============================================================================

------------------------------- MODULE Stack -------------------------------
(***************************************************************************)
(* The stack of examples/stack.rs (Treiber's), which has no tag or counter *)
(* against a node being popped, reused and pushed again between a pop's    *)
(* load of the top and its exchange: it relies on the collector not to     *)
(* reuse a node that a thread's Local still refers to.                     *)
(***************************************************************************)
EXTENDS Integers, Sequences

CONSTANTS
    Threads,     \* the threads, integers
    Nodes,       \* addresses, positive integers
    Absent,      \* the result None
    MaxPushPops  \* calls that the threads make between them (a bound)

VARIABLES
    kind, mem, work, plan,  \* as in MapThreads
    contents,  \* history: the items of the stack
    call       \* history: the calls, in the terms of Lifo

vars == <<kind, mem, work, plan, contents, call>>

Null == 0
Top == 0 - 1            \* the field Stack.top, as the link of a node

RECURSIVE From(_)
From(n) == IF n = Null THEN <<>> ELSE <<n>> \o From(mem[n].next)

Contents == LET path == From(mem[Top].next) IN [i \in DOMAIN path |-> mem[path[i]].item]

Running(t) == work[t].pc # "rest"
AllReturned == plan.calls = 0 /\ \A t \in Threads : ~Running(t)

Rest == [pc |-> "rest"]
Loading(op, n) == [pc |-> "load", op |-> op, node |-> n, old |-> Null, new |-> Null]

Reachable(n) == {From(n)[i] : i \in DOMAIN From(n)}

\* Mutant: the Local of a pop does not keep the node that the top is compared with.
HeldToPush(t) == IF Running(t) THEN Reachable(work[t].node) ELSE {}

\* The nodes a thread's Locals keep from being reused.
Held(t) == IF Running(t) THEN UNION {Reachable(n) : n \in {work[t].node, work[t].old, work[t].new}}
                         ELSE {}

\* The addresses an allocation may return: any one used before that is garbage, or
\* a new one (which one makes no difference).
Fresh ==
    LET free == Nodes \ (Reachable(mem[Top].next) \cup UNION {Held(t) : t \in Threads})
        new == {n \in free : mem[n].item = 0}
    IN  (free \ new) \cup {n \in new : \A m \in new : n <= m}

Init ==
    /\ kind = "Stack"
    /\ mem = [n \in Nodes \cup {Top} |-> [item |-> 0, next |-> Null]]
    /\ work = [t \in Threads |-> Rest]
    /\ plan = [calls |-> MaxPushPops, keys |-> {}]
    /\ contents = <<>>
    /\ call = [t \in Threads |-> [state |-> "idle"]]

Set(t, w) == work' = [work EXCEPT ![t] = w]

\* The item a push brings is the number of the call; it allocates its node first.
Begin(t) ==
    /\ ~Running(t)
    /\ plan.calls > 0
    /\ \A u \in Threads : u < t => call[u].state # "idle"
    /\ plan' = [plan EXCEPT !.calls = @ - 1]
    /\ \/ /\ \E n \in Fresh :
               /\ Set(t, Loading("push", n))
               /\ mem' = [mem EXCEPT ![n] = [item |-> plan.calls, next |-> Null]]
          /\ call' = [call EXCEPT ![t] = [state |-> "pending", op |-> "push", item |-> plan.calls]]
       \/ /\ Set(t, Loading("pop", Null))
          /\ call' = [call EXCEPT ![t] = [state |-> "pending", op |-> "pop"]]
          /\ UNCHANGED mem
    /\ UNCHANGED <<kind, contents>>

\* The loop of push and pop up to the exchange; a pop then reads old.next, and
\* a push stores old into its own, private, node.
Load(t) ==
    LET w == work[t]
        old == mem[Top].next
    IN  /\ w.pc = "load"
        /\ Set(t, CASE w.op = "push"                 -> [w EXCEPT !.pc = "exchange", !.old = old, !.new = w.node]
                    [] w.op = "pop" /\ old # Null     -> [w EXCEPT !.pc = "next", !.old = old]
                    [] w.op = "pop" /\ old = Null     -> Rest)
        /\ mem' = IF w.op = "push" THEN [mem EXCEPT ![w.node].next = old] ELSE mem

LoadNext(t) ==
    /\ work[t].pc = "next"
    /\ Set(t, [work[t] EXCEPT !.pc = "exchange", !.new = mem[work[t].old].next])
    /\ UNCHANGED mem

Exchange(t) ==
    LET w == work[t]
    IN  /\ w.pc = "exchange"
        /\ \/ /\ mem[Top].next = w.old
              /\ mem' = [mem EXCEPT ![Top].next = w.new]
              /\ Set(t, Rest)
           \/ /\ mem[Top].next # w.old
              /\ Set(t, Loading(w.op, w.node))
              /\ UNCHANGED mem

\* What the call returns: the item pushed, or the item of the node popped.
ResultOf(w) ==
    CASE w.op = "push"                 -> mem[w.node].item
      [] w.op = "pop" /\ w.old # Null  -> mem[w.old].item
      [] OTHER                         -> Absent

Step(t) ==
    /\ Load(t) \/ LoadNext(t) \/ Exchange(t)
    /\ contents' = Contents'
    /\ call' = IF work'[t].pc = "rest"
               THEN [call EXCEPT ![t] = [state |-> "answered", result |-> ResultOf(work[t])]]
               ELSE call
    /\ UNCHANGED <<kind, plan>>

Done == AllReturned /\ UNCHANGED vars

Next == (\E t \in Threads : Begin(t) \/ Step(t)) \/ Done
=============================================================================

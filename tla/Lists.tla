------------------------------- MODULE Lists -------------------------------
(***************************************************************************)
(* The linked-list maps of examples/ds/lists.rs: HList (Harris), HMList    *)
(* (Harris-Michael), HHSList (Harris with the Herlihy-Shavit get) and the  *)
(* HashMap whose buckets are HHSLists.  A removal marks the node's next    *)
(* link (tag 1), then unlinks the node; traversals unlink marked nodes     *)
(* they meet, each list in its own way.  One action is one access to       *)
(* shared memory with the local computation that follows it.               *)
(*                                                                         *)
(* Memory comes from the collector: a node is allocated where no node is   *)
(* reachable from a list head or from a thread's Locals, and only there.   *)
(***************************************************************************)
EXTENDS MapThreads, FiniteSets

CONSTANTS
    Nodes,     \* addresses, positive integers
    Buckets,   \* the length of HashMap.buckets
    Hash(_)    \* DefaultHasher on a key

Kinds == {"HList", "HMList", "HHSList", "HashMap"}
Heads == {0 - b : b \in 1..Buckets}  \* the dummy head nodes

\* HashMap::get_bucket; the other maps have one list.
HeadOf(k) == 0 - (1 + (IF kind = "HashMap" THEN Hash(k) % Buckets ELSE 0))

Link(to, tag) == [to |-> to, tag |-> tag]
Node(k, v) == [key |-> k, value |-> v, next |-> Link(Null, 0)]

RECURSIVE From(_)
From(n) == IF n = Null THEN {} ELSE {n} \cup From(mem[n].next.to)

\* The map a list stands for: a key is bound by a node whose link is not marked.
Contents ==
    [k \in Keys |->
       LET bound == {n \in From(mem[HeadOf(k)].next.to) :
                       mem[n].key = k /\ mem[n].next.tag = 0}
       IN  IF bound = {} THEN Absent ELSE mem[CHOOSE n \in bound : TRUE].value]

(***************************************************************************)
(* The locals of a call: the Cursor (prev, curr), find_harris' prev_next,  *)
(* the successor that remove or the Michael unlinking read, and the node   *)
(* that insert allocated.                                                  *)
(***************************************************************************)
Start(n) == [pc |-> "head", prev |-> Null, curr |-> Null, prev_next |-> Null,
             next |-> Null, node |-> n, found |-> FALSE]

Held(t) ==
    IF Running(t)
    THEN UNION {From(n) : n \in {work[t].prev, work[t].curr, work[t].prev_next,
                                 work[t].next, work[t].node}}
    ELSE {}

\* Local::new takes memory that the collector has freed or that was never used.
Fresh ==
    LET live == UNION {From(h) : h \in Heads} \cup UNION {Held(t) : t \in Threads}
    IN  CHOOSE n \in Nodes \ live : \A m \in Nodes \ live : n <= m

-----------------------------------------------------------------------------
Init ==
    /\ kind \in Kinds
    /\ InitThreads
    /\ work = [t \in Threads |-> Rest(Absent)]
    /\ \E P \in SUBSET plan.keys :
         LET \* the nodes of the keys P, sorted, as earlier calls left them
             Chain(h) == {k \in P : HeadOf(k) = h}
             NextOf(h, k) == {j \in Chain(h) : k < j}
             Least(S) == IF S = {} THEN Null ELSE CHOOSE i \in S : \A j \in S : i <= j
         IN  mem = [n \in Nodes \cup Heads |->
                      IF n \in Heads
                      THEN [key |-> 0, value |-> Prior, next |-> Link(Least(Chain(n)), 0)]
                      ELSE IF n \in P
                      THEN [key |-> n, value |-> Prior,
                            next |-> Link(Least(NextOf(HeadOf(n), n)), 0)]
                      ELSE [key |-> 0, value |-> Absent, next |-> Link(Null, 0)]]
    /\ contents = Contents

Begin(t) ==
    \E op \in Operations, k \in Keys :
      /\ Call(t, op, k, Start(IF op = "insert" THEN Fresh ELSE Null))
      /\ mem' = IF op = "insert" THEN [mem EXCEPT ![Fresh] = Node(k, t)] ELSE mem

Set(t, w) == work' = [work EXCEPT ![t] = w]
Retry(t) == Start(work[t].node)

\* Cursor::head
LoadHead(t) ==
    LET h == HeadOf(call[t].key)
        first == mem[h].next.to
    IN  /\ work[t].pc = "head"
        /\ Set(t, [work[t] EXCEPT !.pc = "walk", !.prev = h, !.curr = first, !.prev_next = first])
        /\ UNCHANGED mem

\* What get, insert and remove do with the (found, cursor) of their find.
Outcome(w, op, found) ==
    CASE op = "get"                -> Rest(IF found THEN mem[w.curr].value ELSE Absent)
      [] op = "insert" /\ found    -> Rest(FALSE)
      [] op = "insert" /\ ~found   -> [w EXCEPT !.pc = "link"]
      [] op = "remove" /\ found    -> [w EXCEPT !.pc = "mark"]
      [] op = "remove" /\ ~found   -> Rest(Absent)

\* find_harris after its loop: clean up unless prev and curr were adjacent.
AfterHarris(w, op, found) ==
    IF w.prev_next = w.curr THEN Outcome(w, op, found)
    ELSE [w EXCEPT !.pc = "clean", !.found = found]

Find(op) ==
    CASE kind = "HMList" -> "michael"
      [] kind \in {"HHSList", "HashMap"} /\ op = "get" -> "herlihy_shavit"
      [] OTHER -> "harris"

(***************************************************************************)
(* One turn of the loop of the three finds, which loads curr's next link.  *)
(***************************************************************************)
WalkHarris(w, op, key, link) ==
    CASE w.curr = Null         -> AfterHarris(w, op, FALSE)
      [] link.tag # 0          -> [w EXCEPT !.curr = link.to]
      [] mem[w.curr].key < key -> [w EXCEPT !.prev = w.curr, !.curr = link.to, !.prev_next = link.to]
      [] mem[w.curr].key = key -> AfterHarris(w, op, TRUE)
      [] OTHER                 -> AfterHarris(w, op, FALSE)

WalkMichael(w, op, key, link) ==
    CASE w.curr = Null         -> Outcome(w, op, FALSE)
      [] link.tag # 0          -> [w EXCEPT !.pc = "unlink", !.next = link.to]
      [] mem[w.curr].key < key -> [w EXCEPT !.prev = w.curr, !.curr = link.to]
      [] OTHER                 -> Outcome(w, op, mem[w.curr].key = key)

\* Mutant: the node's mark is ignored.
WalkUnmarked(w, op, key, link) ==
    CASE w.curr = Null         -> Outcome(w, op, FALSE)
      [] mem[w.curr].key < key -> [w EXCEPT !.prev = w.curr, !.curr = link.to]
      [] OTHER                 -> Outcome(w, op, mem[w.curr].key = key)

WalkHerlihyShavit(w, op, key, link) ==
    CASE w.curr = Null         -> Outcome(w, op, FALSE)
      [] mem[w.curr].key < key -> [w EXCEPT !.prev = w.curr, !.curr = link.to]
      [] OTHER                 -> Outcome(w, op, mem[w.curr].key = key /\ link.tag = 0)

Walk(t) ==
    LET w == work[t]
        op == call[t].op
        key == call[t].key
        link == IF w.curr = Null THEN Link(Null, 0) ELSE mem[w.curr].next
    IN  /\ w.pc = "walk"
        /\ Set(t, CASE Find(op) = "harris"         -> WalkHarris(w, op, key, link)
                    [] Find(op) = "michael"        -> WalkMichael(w, op, key, link)
                    [] Find(op) = "herlihy_shavit" -> WalkHerlihyShavit(w, op, key, link))
        /\ UNCHANGED mem

\* compare_exchange on a next link: the pointer and the tag must both agree.
Swings(n, old, new) ==
    /\ mem[n].next = Link(old, 0)
    /\ mem' = [mem EXCEPT ![n].next = Link(new, 0)]
Fails(n, old) == mem[n].next # Link(old, 0) /\ UNCHANGED mem

\* find_harris unlinks the whole chain of marked nodes between prev and curr.
CleanUp(t) ==
    LET w == work[t]
    IN  /\ w.pc = "clean"
        /\ \/ Swings(w.prev, w.prev_next, w.curr) /\ Set(t, Outcome(w, call[t].op, w.found))
           \/ Fails(w.prev, w.prev_next) /\ Set(t, Retry(t))

\* Mutant: a failed exchange is tried again from the same cursor.
UnlinkAgain(t) ==
    LET w == work[t]
    IN  /\ w.pc = "unlink"
        /\ \/ Swings(w.prev, w.curr, w.next)
              /\ Set(t, [w EXCEPT !.pc = "walk", !.curr = w.next, !.next = Null])
           \/ Fails(w.prev, w.curr) /\ Set(t, [w EXCEPT !.pc = "walk"])

\* find_harris_michael unlinks the one marked node it stands on.
Unlink(t) ==
    LET w == work[t]
    IN  /\ w.pc = "unlink"
        /\ \/ Swings(w.prev, w.curr, w.next)
              /\ Set(t, [w EXCEPT !.pc = "walk", !.curr = w.next, !.next = Null])
           \/ Fails(w.prev, w.curr) /\ Set(t, Retry(t))

\* insert: the store to the new node, which is still private, and the exchange.
LinkNode(t) ==
    LET w == work[t]
    IN  /\ w.pc = "link"
        /\ \/ /\ mem[w.prev].next = Link(w.curr, 0)
              /\ mem' = [mem EXCEPT ![w.node].next = Link(w.curr, 0),
                                    ![w.prev].next = Link(w.node, 0)]
              /\ Set(t, Rest(TRUE))
           \/ /\ mem[w.prev].next # Link(w.curr, 0)
              /\ mem' = [mem EXCEPT ![w.node].next = Link(w.curr, 0)]
              /\ Set(t, Retry(t))

\* remove marks the node with fetch_tag_or: who sees tag 0 removes it.
Mark(t) ==
    LET w == work[t]
        link == mem[w.curr].next
    IN  /\ w.pc = "mark"
        /\ mem' = [mem EXCEPT ![w.curr].next = Link(link.to, 1)]
        /\ Set(t, IF link.tag = 1 THEN Retry(t)
                  ELSE [w EXCEPT !.pc = "cut", !.next = link.to])

\* remove tries once to unlink the node, and returns it either way.
Cut(t) ==
    LET w == work[t]
    IN  /\ w.pc = "cut"
        /\ Swings(w.prev, w.curr, w.next) \/ Fails(w.prev, w.curr)
        /\ Set(t, Rest(mem[w.curr].value))

\* The thread that marks a node removes the node's key.
Marking(t) == work[t].pc = "mark"

Step(t) ==
    /\ \/ LoadHead(t) \/ Walk(t) \/ CleanUp(t) \/ Unlink(t)
       \/ LinkNode(t) \/ Mark(t) \/ Cut(t)
    /\ LET Acting(u) == u = t /\ Marking(u)
       IN  Record(t, IF mem' = mem THEN contents ELSE Contents', Acting)

Done == AllReturned /\ UNCHANGED vars

Next == (\E t \in Threads : Begin(t) \/ Step(t)) \/ Done
=============================================================================

------------------------------- MODULE NmTree -------------------------------
(***************************************************************************)
(* The lock-free external search tree of examples/ds/nm_tree.rs (Natarajan *)
(* and Mittal).  Keys are in the leaves.  A removal flags the edge to its  *)
(* leaf, tags the edge to the leaf's sibling, and splices the sibling into *)
(* the place of the last ancestor whose edge is not tagged; one splice can *)
(* complete several removals.  An insertion or a removal that meets a      *)
(* marked edge helps it first.  One action is one access to shared memory  *)
(* with the local computation that follows it.                             *)
(***************************************************************************)
EXTENDS MapThreads, Sequences, FiniteSets

CONSTANT Nodes  \* addresses, positive integers

\* The five nodes of an empty tree, and their key.
R == 0 - 1
S == 0 - 2
Inf0 == 0 - 3
Inf1 == 0 - 4
Inf2 == 0 - 5
Sentinels == {R, S, Inf0, Inf1, Inf2}
Inf == 1000

Edge(to) == [to |-> to, flag |-> FALSE, tag |-> FALSE]
Node(k, v, l, r) == [key |-> k, value |-> v, left |-> Edge(l), right |-> Edge(r)]
Leaf(k, v) == Node(k, v, Null, Null)

Dirs == {"left", "right"}
Other(d) == IF d = "left" THEN "right" ELSE "left"

\* Key::cmp, where Inf is greater than every key
DirOf(m, n, k) == IF m[n].key > k THEN "left" ELSE "right"

RECURSIVE Under(_, _)
Under(m, n) == IF n = Null THEN {} ELSE {n} \cup Under(m, m[n].left.to) \cup Under(m, m[n].right.to)

Leaves(m) == {n \in Under(m, R) : m[n].left.to = Null /\ m[n].key # Inf}

Contents ==
    LET leaves == Leaves(mem)
    IN  [k \in Keys |->
           LET bound == {n \in leaves : mem[n].key = k}
           IN  IF bound = {} THEN Absent ELSE mem[CHOOSE n \in bound : TRUE].value]

(***************************************************************************)
(* A thread's locals: the SeekRecord, the pair (curr, curr_tag) that seek  *)
(* loaded last with prev_tag and curr_dir, the nodes that insert makes,    *)
(* the leaf whose edge remove has flagged, and cleanup's choice of edge    *)
(* and what it read there.                                                 *)
(***************************************************************************)
Locals == [pc |-> "root", ancestor |-> Null, successor |-> Null, successor_dir |-> "left",
           parent |-> Null, leaf |-> Null, leaf_dir |-> "left",
           prev_tag |-> FALSE, curr |-> Null, curr_tag |-> FALSE, curr_dir |-> "left",
           new_leaf |-> Null, new_internal |-> Null, mine |-> Null,
           target_dir |-> "left", sibling |-> Null, sibling_flag |-> FALSE]

Refs(w) == {w.ancestor, w.successor, w.parent, w.leaf, w.curr, w.new_leaf, w.new_internal,
            w.mine, w.sibling}

\* Local::new takes memory that no Local and no edge leads to.
Free ==
    Nodes \ (Under(mem, R) \cup
             UNION {UNION {Under(mem, n) : n \in Refs(work[t])} : t \in {u \in Threads : Running(u)}})
Least(X) == CHOOSE n \in X : \A m \in X : n <= m

Set(t, w) == work' = [work EXCEPT ![t] = w]

\* A new seek: what survives of the locals is the nodes made and the leaf flagged.
Again(w) == [Locals EXCEPT !.new_leaf = w.new_leaf, !.new_internal = w.new_internal,
                           !.mine = w.mine]

-----------------------------------------------------------------------------
EmptyTree ==
    [n \in Nodes \cup Sentinels |->
       CASE n = R -> Node(Inf, Absent, S, Inf2)
         [] n = S -> Node(Inf, Absent, Inf0, Inf1)
         [] OTHER -> Leaf(Inf, Absent)]

\* The tree after an undisturbed insertion of k, at the addresses 2k - 1 and 2k.
RECURSIVE InsertBelow(_, _, _, _)
InsertBelow(m, p, d, k) ==
    LET n == m[p][d].to
        leaf == 2 * k - 1
        internal == 2 * k
    IN  IF m[n].left.to # Null THEN InsertBelow(m, n, DirOf(m, n, k), k)
        ELSE [m EXCEPT ![p][d] = Edge(internal), ![leaf] = Leaf(k, Prior),
                       ![internal] = IF m[n].key > k THEN Node(m[n].key, Absent, leaf, n)
                                                     ELSE Node(k, Absent, n, leaf)]

RECURSIVE Grown(_)
Grown(s) == IF s = <<>> THEN EmptyTree ELSE InsertBelow(Grown(Tail(s)), S, "left", Head(s))

\* The tree starts as the insertion of some keys, in some order, leaves it.
Init ==
    /\ kind = "NMTree"
    /\ InitThreads
    /\ work = [t \in Threads |-> Rest(Absent)]
    /\ \E n \in 0..Cardinality(plan.keys) : \E s \in [1..n -> plan.keys] :
         (\A i, j \in 1..n : i # j => s[i] # s[j]) /\ mem = Grown(s)
    /\ contents = Contents

Begin(t) ==
    /\ \E op \in Operations, k \in Keys : Call(t, op, k, Locals)
    /\ UNCHANGED mem

(***************************************************************************)
(* seek and seek_leaf: the load of s.left (r.left never changes), then the *)
(* load of the top node's left edge, then one load per level.              *)
(***************************************************************************)
SeekRoot(t) ==
    LET s == mem[R].left.to
        e == mem[s].left
    IN  /\ work[t].pc = "root"
        /\ Set(t, [work[t] EXCEPT !.pc = "top", !.ancestor = R, !.successor = s, !.parent = s,
                                  !.leaf = e.to, !.prev_tag = e.tag])
        /\ UNCHANGED mem

\* What the caller of the seek does with its record.
Sought(w, op, key) ==
    LET found == mem[w.leaf].key = key
        r == [w EXCEPT !.curr = Null, !.curr_tag = FALSE, !.curr_dir = "left", !.prev_tag = FALSE]
    IN  CASE op = "get"                                     -> Rest(IF found THEN mem[w.leaf].value ELSE Absent)
          [] op = "insert"                                  -> IF found THEN Rest(FALSE) ELSE [r EXCEPT !.pc = "link"]
          [] op = "remove" /\ w.mine = Null                 -> IF found THEN [r EXCEPT !.pc = "flag"] ELSE Rest(Absent)
          [] op = "remove" /\ w.mine \notin {Null, w.leaf}  -> Rest(mem[w.mine].value)
          [] op = "remove" /\ w.mine = w.leaf               -> [r EXCEPT !.pc = "target"]

Loaded(t, w, d, e) ==
    LET v == [w EXCEPT !.pc = "descend", !.curr = e.to, !.curr_tag = e.tag, !.curr_dir = d]
    IN  Set(t, IF e.to = Null THEN Sought(v, call[t].op, call[t].key) ELSE v)

SeekTop(t) ==
    /\ work[t].pc = "top"
    /\ Loaded(t, work[t], "left", mem[work[t].leaf].left)
    /\ UNCHANGED mem

\* An untagged edge advances ancestor and successor.
Advance(w) ==
    LET v == [w EXCEPT !.parent = w.leaf, !.leaf = w.curr, !.leaf_dir = w.curr_dir,
                       !.prev_tag = w.curr_tag]
    IN  IF w.prev_tag THEN v
        ELSE [v EXCEPT !.ancestor = w.parent, !.successor = w.leaf, !.successor_dir = w.leaf_dir]

Descend(t) ==
    LET w == work[t]
        d == DirOf(mem, w.curr, call[t].key)
    IN  /\ w.pc = "descend"
        /\ Loaded(t, Advance(w), d, mem[w.curr][d])
        /\ UNCHANGED mem

\* compare_exchange on the edge to the record's leaf, which expects no mark on it.
\* A conflicting removal of the leaf is helped; for another node, seek again.
LeafEdge(w) == mem[w.parent][w.leaf_dir]
Conflict(w) == IF LeafEdge(w).to = w.leaf THEN [w EXCEPT !.pc = "target"] ELSE Again(w)

\* insert: the new leaf and its parent are made once, and still private here.
LinkNode(t) ==
    /\ work[t].pc = "link"
    /\ LET key == call[t].key
           lf == IF work[t].new_leaf = Null THEN Least(Free) ELSE work[t].new_leaf
           in == IF work[t].new_internal = Null THEN Least(Free \ {lf}) ELSE work[t].new_internal
           w == [work[t] EXCEPT !.new_leaf = lf, !.new_internal = in]
           built == [mem EXCEPT ![lf] = Leaf(key, t),
                                ![in] = IF mem[w.leaf].key > key
                                        THEN Node(mem[w.leaf].key, Absent, lf, w.leaf)
                                        ELSE Node(key, Absent, w.leaf, lf)]
       IN  \/ /\ LeafEdge(w) = Edge(w.leaf)
              /\ mem' = [built EXCEPT ![w.parent][w.leaf_dir] = Edge(in)]
              /\ Set(t, Rest(TRUE))
           \/ /\ LeafEdge(w) # Edge(w.leaf)
              /\ mem' = built
              /\ Set(t, Conflict(w))

\* remove, injection phase
FlagLeaf(t) ==
    LET w == work[t]
    IN  /\ w.pc = "flag"
        /\ \/ /\ LeafEdge(w) = Edge(w.leaf)
              /\ mem' = [mem EXCEPT ![w.parent][w.leaf_dir].flag = TRUE]
              /\ Set(t, [w EXCEPT !.pc = "target", !.mine = w.leaf])
           \/ /\ LeafEdge(w) # Edge(w.leaf)
              /\ Set(t, Conflict(w))
              /\ UNCHANGED mem

(***************************************************************************)
(* cleanup: which of the parent's edges stays, tag it, read it, splice.    *)
(***************************************************************************)
CleanupTarget(t) ==
    LET w == work[t]
    IN  /\ w.pc = "target"
        /\ Set(t, [w EXCEPT !.pc = "tag",
                            !.target_dir = IF LeafEdge(w).flag THEN Other(w.leaf_dir) ELSE w.leaf_dir])
        /\ UNCHANGED mem

CleanupTag(t) ==
    LET w == work[t]
    IN  /\ w.pc = "tag"
        /\ mem' = [mem EXCEPT ![w.parent][w.target_dir].tag = TRUE]
        /\ Set(t, [w EXCEPT !.pc = "sibling"])

CleanupLoad(t) ==
    LET w == work[t]
        e == mem[w.parent][w.target_dir]
    IN  /\ w.pc = "sibling"
        /\ Set(t, [w EXCEPT !.pc = "splice", !.sibling = e.to, !.sibling_flag = e.flag])
        /\ UNCHANGED mem

\* Mutant: the flag of the sibling's edge is lost.
SpliceUnflagged(t) ==
    LET w == work[t]
    IN  /\ w.pc = "splice"
        /\ \/ /\ mem[w.ancestor][w.successor_dir] = Edge(w.successor)
              /\ mem' = [mem EXCEPT ![w.ancestor][w.successor_dir] =
                           [to |-> w.sibling, flag |-> FALSE, tag |-> FALSE]]
              /\ Set(t, IF w.mine # Null THEN Rest(mem[w.mine].value) ELSE Again(w))
           \/ /\ mem[w.ancestor][w.successor_dir] # Edge(w.successor)
              /\ Set(t, Again(w))
              /\ UNCHANGED mem

\* The flag is copied to the new edge, the tag is not.
Splice(t) ==
    LET w == work[t]
    IN  /\ w.pc = "splice"
        /\ \/ /\ mem[w.ancestor][w.successor_dir] = Edge(w.successor)
              /\ mem' = [mem EXCEPT ![w.ancestor][w.successor_dir] =
                           [to |-> w.sibling, flag |-> w.sibling_flag, tag |-> FALSE]]
              /\ Set(t, IF w.mine # Null THEN Rest(mem[w.mine].value) ELSE Again(w))
           \/ /\ mem[w.ancestor][w.successor_dir] # Edge(w.successor)
              /\ Set(t, Again(w))
              /\ UNCHANGED mem

Flagged(t) == Running(t) /\ work[t].mine # Null

Step(t) ==
    /\ \/ SeekRoot(t) \/ SeekTop(t) \/ Descend(t) \/ LinkNode(t) \/ FlagLeaf(t)
       \/ CleanupTarget(t) \/ CleanupTag(t) \/ CleanupLoad(t) \/ Splice(t)
    /\ Record(t, IF mem' = mem THEN contents ELSE Contents', Flagged)

Done == AllReturned /\ UNCHANGED vars

Next == (\E t \in Threads : Begin(t) \/ Step(t)) \/ Done
=============================================================================

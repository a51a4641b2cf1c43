------------------------------ MODULE EfrbTree ------------------------------
(***************************************************************************)
(* The lock-free external search tree of examples/ds/efrb_tree.rs (Ellen,  *)
(* Fatourou, Ruppert and van Breugel).  Before it changes a child link, an *)
(* operation announces itself: it swings the `update` field of the parent  *)
(* (insert) or of the grandparent (delete) to a record that lets any other *)
(* thread finish its work, and a deletion also marks the parent.  A thread *)
(* that meets such a record helps it, and helping may meet a further one:  *)
(* the stack of a thread's locals holds the helping calls that are open.   *)
(* One action is one access to shared memory with the local computation    *)
(* that follows it; keys, values, update records, and whether a node is a  *)
(* leaf, never change, so reading them takes no step of its own.           *)
(***************************************************************************)
EXTENDS MapThreads, Sequences, FiniteSets

CONSTANTS
    Nodes,   \* addresses of nodes, positive integers
    Updates  \* addresses of update records, positive integers

Root == 0 - 1
LeafInf1 == 0 - 2
LeafInf2 == 0 - 3
Inf1 == 1001
Inf2 == 1002

Clean == "CLEAN"
DFlag == "DFLAG"
IFlag == "IFLAG"
Mark == "MARK"

NoUpdate == [to |-> Null, tag |-> Clean]
Upd(op, tag) == [to |-> op, tag |-> tag]
Leaf(k, v) == [key |-> k, value |-> v, update |-> NoUpdate, left |-> Null, right |-> Null]
Internal(k, l, r) == [key |-> k, value |-> Absent, update |-> NoUpdate, left |-> l, right |-> r]
Insert(p, new, l) == [type |-> "Insert", p |-> p, new_internal |-> new, l |-> l]
Delete(gp, p, l, u) == [type |-> "Delete", gp |-> gp, p |-> p, l |-> l, pupdate |-> u]

node(n) == mem.node[n]
upd(u) == mem.upd[u]
IsLeaf(n) == node(n).left = Null
Side(m, n, k) == IF m.node[n].key > k THEN "left" ELSE "right"

RECURSIVE Leaves(_)
Leaves(n) == IF IsLeaf(n) THEN {n} ELSE Leaves(node(n).left) \cup Leaves(node(n).right)

Contents ==
    LET leaves == Leaves(Root)
    IN  [k \in Keys |->
           LET bound == {n \in leaves : node(n).key = k}
           IN  IF bound = {} THEN Absent ELSE node(CHOOSE n \in bound : TRUE).value]

-----------------------------------------------------------------------------
(***************************************************************************)
(* A thread's locals: the Cursor of its search, the record it announced    *)
(* (own), and a stack of frames, one for each open call of help_insert,    *)
(* help_delete or help_marked, innermost first.                            *)
(***************************************************************************)
Cursor == [pc |-> "update", gp |-> Null, p |-> Null, l |-> Root, pupdate |-> NoUpdate,
           gpupdate |-> NoUpdate, own |-> Null, stack |-> <<>>]

Frame(do, op) == [do |-> do, op |-> op, side |-> "left", other |-> Null]

\* help: which call a flagged or marked update leads to; a clean one, to none.
Help(u) ==
    CASE u.tag = IFlag -> <<Frame("ichild", u.to)>>
      [] u.tag = Mark  -> <<Frame("right", u.to)>>
      [] u.tag = DFlag -> <<Frame("mark", u.to)>>
      [] u.tag = Clean -> <<>>

\* The loop of insert and delete starts over once the help, if any, is done.
Helping(w, u) == IF Help(u) = <<>> THEN Cursor
                 ELSE [w EXCEPT !.pc = "help", !.stack = Help(u), !.own = Null]

(***************************************************************************)
(* The nodes and records that the collector must keep: those that the root *)
(* or a thread's Locals lead to, through child links, update fields and    *)
(* the references in update records.  Nodes are <<"n", n>>, records        *)
(* <<"u", u>>.                                                             *)
(***************************************************************************)
RefsOf(x) ==
    CASE x[2] = Null -> {}
      [] x[2] # Null /\ x[1] = "n" ->
           {<<"n", node(x[2]).left>>, <<"n", node(x[2]).right>>, <<"u", node(x[2]).update.to>>}
      [] x[2] # Null /\ x[1] = "u" ->
           LET u == upd(x[2])
           IN  IF u.type = "Insert"
               THEN {<<"n", u.p>>, <<"n", u.new_internal>>, <<"n", u.l>>}
               ELSE {<<"n", u.gp>>, <<"n", u.p>>, <<"n", u.l>>, <<"u", u.pupdate>>}

LocalsOf(w) ==
    {<<"n", w.gp>>, <<"n", w.p>>, <<"n", w.l>>, <<"u", w.pupdate.to>>, <<"u", w.gpupdate.to>>,
     <<"u", w.own>>}
    \cup {<<"u", w.stack[i].op>> : i \in DOMAIN w.stack}
    \cup {<<"n", w.stack[i].other>> : i \in DOMAIN w.stack}

RECURSIVE Closure(_)
Closure(X) == LET Y == X \cup UNION {RefsOf(x) : x \in X} IN IF Y = X THEN X ELSE Closure(Y)

Live == Closure({<<"n", Root>>} \cup UNION {LocalsOf(work[t]) : t \in {u \in Threads : Running(u)}})

Least(X) == CHOOSE n \in X : \A m \in X : n <= m

-----------------------------------------------------------------------------
\* insert's new subtree at leaf l, for key k: a leaf, a copy of l, their parent.
Subtree(nodes, l, k, v, lf, sib, int) ==
    [nodes EXCEPT ![lf] = Leaf(k, v), ![sib] = Leaf(nodes[l].key, nodes[l].value),
                  ![int] = IF k < nodes[l].key THEN Internal(nodes[l].key, lf, sib)
                                               ELSE Internal(k, sib, lf)]

EmptyTree ==
    [node |-> [n \in Nodes \cup {Root, LeafInf1, LeafInf2} |->
                 CASE n = Root     -> Internal(Inf2, LeafInf1, LeafInf2)
                   [] n = LeafInf1 -> Leaf(Inf1, Absent)
                   [] OTHER        -> Leaf(Inf2, Absent)],
     upd |-> [u \in Updates |-> Insert(Null, Null, Null)]]

\* The tree after an undisturbed insertion of k below p, at the addresses
\* 3k - 2, 3k - 1 and 3k, and k for its record.
RECURSIVE InsertBelow(_, _, _)
InsertBelow(m, p, k) ==
    LET d == Side(m, p, k)
        l == m.node[p][d]
    IN  IF m.node[l].left # Null THEN InsertBelow(m, l, k)
        ELSE [node |-> [Subtree(m.node, l, k, Prior, 3*k - 2, 3*k - 1, 3*k)
                          EXCEPT ![p][d] = 3*k, ![p].update = Upd(k, Clean)],
              upd |-> [m.upd EXCEPT ![k] = Insert(p, 3*k, l)]]

RECURSIVE Grown(_)
Grown(s) == IF s = <<>> THEN EmptyTree ELSE InsertBelow(Grown(Tail(s)), Root, Head(s))

\* The tree starts as the insertion of some keys, in some order, leaves it.
Init ==
    /\ kind = "EFRBTree"
    /\ InitThreads
    /\ work = [t \in Threads |-> Rest(Absent)]
    /\ \E n \in 0..Cardinality(plan.keys) : \E s \in [1..n -> plan.keys] :
         (\A i, j \in 1..n : i # j => s[i] # s[j]) /\ mem = Grown(s)
    /\ contents = Contents

Set(t, w) == work' = [work EXCEPT ![t] = w]

Begin(t) ==
    /\ \E op \in Operations, k \in Keys : Call(t, op, k, Cursor)
    /\ UNCHANGED mem

(***************************************************************************)
(* Cursor::search: at each level the update field first, then the child.   *)
(***************************************************************************)
SearchUpdate(t) ==
    LET w == work[t]
    IN  /\ w.pc = "update"
        /\ Set(t, [w EXCEPT !.pc = "child", !.gp = w.p, !.p = w.l,
                            !.gpupdate = w.pupdate, !.pupdate = node(w.l).update])
        /\ UNCHANGED mem

\* What find, insert and delete do with the cursor.
Sought(w, op, key) ==
    LET found == node(w.l).key = key
    IN  CASE op = "get" -> Rest(IF found THEN node(w.l).value ELSE Absent)
          [] op = "insert" ->
               IF found THEN Rest(FALSE)
               ELSE IF w.pupdate.tag # Clean THEN Helping(w, w.pupdate)
               ELSE [w EXCEPT !.pc = "iflag"]
          [] op = "remove" ->
               IF w.gp = Null \/ ~found THEN Rest(Absent)
               ELSE IF w.gpupdate.tag # Clean THEN Helping(w, w.gpupdate)
               ELSE IF w.pupdate.tag # Clean THEN Helping(w, w.pupdate)
               ELSE [w EXCEPT !.pc = "dflag"]

SearchChild(t) ==
    LET w == work[t]
        n == node(w.p)[Side(mem, w.p, call[t].key)]
        v == [w EXCEPT !.l = n, !.pc = "update"]
    IN  /\ w.pc = "child"
        /\ Set(t, IF IsLeaf(n) THEN Sought(v, call[t].op, call[t].key) ELSE v)
        /\ UNCHANGED mem

\* compare_exchange_with_tag on the update field of node n
Update(n, new) == [mem EXCEPT !.node[n].update = new]

(***************************************************************************)
(* insert and delete announce their operation.  What they allocated is     *)
(* garbage again when the exchange fails, so only a success allocates.     *)
(***************************************************************************)
Announced(w, do, op) == [w EXCEPT !.pc = "help", !.own = op, !.stack = <<Frame(do, op)>>]

AnnounceInsert(t) ==
    /\ work[t].pc = "iflag"
    /\ LET w == work[t]
           free == {n \in Nodes : <<"n", n>> \notin Live}
           lf == Least(free)
           sib == Least(free \ {lf})
           int == Least(free \ {lf, sib})
           op == Least({u \in Updates : <<"u", u>> \notin Live})
       IN  \/ /\ node(w.p).update = w.pupdate
              /\ mem' = [node |-> [Subtree(mem.node, w.l, call[t].key, t, lf, sib, int)
                                     EXCEPT ![w.p].update = Upd(op, IFlag)],
                         upd |-> [mem.upd EXCEPT ![op] = Insert(w.p, int, w.l)]]
              /\ Set(t, Announced(w, "ichild", op))
           \/ /\ node(w.p).update # w.pupdate
              /\ Set(t, Helping(w, node(w.p).update))
              /\ UNCHANGED mem

\* Mutant: a deletion announces itself with the flag of an insertion.
AnnounceDeleteIFlag(t) ==
    /\ work[t].pc = "dflag"
    /\ LET w == work[t]
           op == Least({u \in Updates : <<"u", u>> \notin Live})
       IN  /\ node(w.gp).update = w.gpupdate
           /\ mem' = [node |-> [mem.node EXCEPT ![w.gp].update = Upd(op, IFlag)],
                      upd |-> [mem.upd EXCEPT ![op] = Delete(w.gp, w.p, w.l, w.pupdate.to)]]
           /\ Set(t, Announced(w, "mark", op))

AnnounceDelete(t) ==
    /\ work[t].pc = "dflag"
    /\ LET w == work[t]
           op == Least({u \in Updates : <<"u", u>> \notin Live})
       IN  \/ /\ node(w.gp).update = w.gpupdate
              /\ mem' = [node |-> [mem.node EXCEPT ![w.gp].update = Upd(op, DFlag)],
                         upd |-> [mem.upd EXCEPT ![op] = Delete(w.gp, w.p, w.l, w.pupdate.to)]]
              /\ Set(t, Announced(w, "mark", op))
           \/ /\ node(w.gp).update # w.gpupdate
              /\ Set(t, Helping(w, node(w.gp).update))
              /\ UNCHANGED mem

-----------------------------------------------------------------------------
(***************************************************************************)
(* Helping.  `Top` is the innermost call; Then moves it on, Return ends    *)
(* it.  The outermost call decides how the operation goes on: an operation *)
(* whose own record was carried out returns, any other starts over.        *)
(***************************************************************************)
Top(t) == work[t].stack[1]
At(t, do) == work[t].pc = "help" /\ Top(t).do = do
Then(t, frame) == Set(t, [work[t] EXCEPT !.stack[1] = frame])

Return(t) ==
    LET w == work[t]
    IN  Set(t, IF Len(w.stack) > 1 THEN [w EXCEPT !.stack = Tail(@)]
               ELSE CASE w.own # Null /\ Top(t).do = "iclean" -> Rest(TRUE)
                      [] w.own # Null /\ Top(t).do = "dclean" -> Rest(node(w.l).value)
                      [] OTHER                                -> Cursor)

\* cas_child: the side of the parent is the one on which the new child's key lies.
CasChild(parent, old, new) ==
    LET d == IF node(new).key < node(parent).key THEN "left" ELSE "right"
    IN  mem' = IF node(parent)[d] = old THEN [mem EXCEPT !.node[parent][d] = new] ELSE mem

\* The exchange that clears a flag; its result is ignored.
Unflag(n, op, tag) ==
    mem' = IF node(n).update = Upd(op, tag) THEN Update(n, Upd(op, Clean)) ELSE mem

\* help_insert
InsertChild(t) ==
    /\ At(t, "ichild")
    /\ LET op == upd(Top(t).op) IN CasChild(op.p, op.l, op.new_internal)
    /\ Then(t, [Top(t) EXCEPT !.do = "iclean"])

InsertClean(t) ==
    /\ At(t, "iclean")
    /\ Unflag(upd(Top(t).op).p, Top(t).op, IFlag)
    /\ Return(t)

\* help_delete marks the parent, or helps whoever got there first and takes its flag back.
\* An update field never becomes null again, and while it is null it equals pupdate: the
\* exchange fails only against a record, so `if let Some(e)` always holds here.
DeleteMark(t) ==
    /\ At(t, "mark")
    /\ LET f == Top(t)
           op == upd(f.op)
           e == node(op.p).update
       IN  \/ /\ e = Upd(op.pupdate, Clean)
              /\ mem' = Update(op.p, Upd(f.op, Mark))
              /\ Then(t, [f EXCEPT !.do = "right"])
           \/ /\ e = Upd(f.op, Mark)
              /\ Then(t, [f EXCEPT !.do = "right"])
              /\ UNCHANGED mem
           \/ /\ e \notin {Upd(op.pupdate, Clean), Upd(f.op, Mark)}
              /\ Set(t, [work[t] EXCEPT !.stack =
                           Help(e) \o <<[f EXCEPT !.do = "backtrack"]>> \o Tail(@)])
              /\ UNCHANGED mem

\* Mutant: the flag on the grandparent stays.
DeleteNoBacktrack(t) ==
    /\ At(t, "backtrack")
    /\ Return(t)
    /\ UNCHANGED mem

DeleteBacktrack(t) ==
    /\ At(t, "backtrack")
    /\ Unflag(upd(Top(t).op).gp, Top(t).op, DFlag)
    /\ Return(t)

\* help_marked: which child of p is the leaf's sibling, the sibling, the splice.
MarkedRight(t) ==
    /\ At(t, "right")
    /\ LET op == upd(Top(t).op)
       IN  Then(t, [Top(t) EXCEPT !.do = "other",
                      !.side = IF node(op.p).right = op.l THEN "left" ELSE "right"])
    /\ UNCHANGED mem

MarkedOther(t) ==
    /\ At(t, "other")
    /\ Then(t, [Top(t) EXCEPT !.do = "dchild", !.other = node(upd(Top(t).op).p)[Top(t).side]])
    /\ UNCHANGED mem

MarkedChild(t) ==
    /\ At(t, "dchild")
    /\ LET op == upd(Top(t).op) IN CasChild(op.gp, op.p, Top(t).other)
    /\ Then(t, [Top(t) EXCEPT !.do = "dclean"])

MarkedClean(t) ==
    /\ At(t, "dclean")
    /\ Unflag(upd(Top(t).op).gp, Top(t).op, DFlag)
    /\ Return(t)

\* The thread whose deletion has marked its parent, which commits it.
Committed(t) ==
    /\ Running(t) /\ work[t].own # Null
    /\ node(upd(work[t].own).p).update = Upd(work[t].own, Mark)

Step(t) ==
    /\ \/ SearchUpdate(t) \/ SearchChild(t) \/ AnnounceInsert(t) \/ AnnounceDelete(t)
       \/ InsertChild(t) \/ InsertClean(t) \/ DeleteMark(t) \/ DeleteBacktrack(t)
       \/ MarkedRight(t) \/ MarkedOther(t) \/ MarkedChild(t) \/ MarkedClean(t)
    /\ Record(t, IF mem' = mem THEN contents ELSE Contents', Committed)

(***************************************************************************)
(* help_insert runs only on insertion records, help_delete and help_marked *)
(* only on deletion records (their panics), and an exchange on an update   *)
(* field fails only against a record that can be helped (the unwraps of    *)
(* insert and delete): the tag of an update field always fits its record.  *)
(***************************************************************************)
HelpFitsRecord ==
    \A t \in Threads : Running(t) =>
      /\ \A i \in DOMAIN work[t].stack :
           LET f == work[t].stack[i]
           IN  /\ f.op # Null
               /\ upd(f.op).type = IF f.do \in {"ichild", "iclean"} THEN "Insert" ELSE "Delete"
      /\ work[t].pc = "iflag" /\ node(work[t].p).update # work[t].pupdate
           => node(work[t].p).update.to # Null
      /\ work[t].pc = "dflag" /\ node(work[t].gp).update # work[t].gpupdate
           => node(work[t].gp).update.to # Null

Done == AllReturned /\ UNCHANGED vars

Next == (\E t \in Threads : Begin(t) \/ Step(t)) \/ Done
=============================================================================

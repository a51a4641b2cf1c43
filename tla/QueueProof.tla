----------------------------- MODULE QueueProof -----------------------------
(***************************************************************************)
(* The queue never retires a node that is still reachable, never reads a   *)
(* freed one, and implements a first-in first-out queue, for any number of *)
(* threads, nodes and calls.                                               *)
(***************************************************************************)
EXTENDS Queue, SequenceTheorems, TLAPS

\* The default prover; a leaf with arithmetic, sequences or records names SMT.
USE ZenonT(60)

Pushing == {"tail", "next", "help", "link"}
Popped == {"popTail", "popSwing", "popRead"}
Points ==
  Pushing \cup Popped \cup {"idle", "swing", "popHead", "popNext", "popCas", "ret"}
Pointers == Nodes \cup {Null}
Locals == [pc : Points, new : Pointers, onto : Pointers, nx : Pointers, val : Values \cup {None}]

QueueType ==
  /\ head \in Nodes /\ tail \in Nodes
  /\ next \in [Nodes -> Pointers]
  /\ data \in [Nodes -> Values \cup {None}]
  /\ live \subseteq Nodes
  /\ waiters \in [Nodes -> SUBSET Threads]
  /\ w \in [Threads -> Locals]
  /\ chain \in Seq(Nodes)

Last == chain[Len(chain)]
InChain(n) == \E i \in 1..Len(chain) : chain[i] = n

\* The nodes from the head on, each linked to the next.
ChainOK ==
  /\ Len(chain) >= 1
  /\ head = chain[1]
  /\ \A i \in 1..Len(chain) : chain[i] \in live
  /\ \A i, j \in 1..Len(chain) : chain[i] = chain[j] => i = j
  /\ \A i \in 1..(Len(chain) - 1) : next[chain[i]] = chain[i + 1]
  /\ next[Last] = Null

\* The node that only t may link or retire: one not linked yet, or the sentinel it has
\* moved the head from.
Owns(t, n) ==
  \/ w[t].pc \in Pushing /\ n = w[t].new
  \/ w[t].pc \in Popped /\ n = w[t].onto

Ownership ==
  /\ \A t \in Threads, n \in Nodes : Owns(t, n) => n \in live /\ ~ InChain(n)
  /\ \A s, t \in Threads, n \in Nodes : Owns(s, n) /\ Owns(t, n) => s = t
  /\ \A t \in Threads : w[t].pc \in Pushing => w[t].new \in Nodes /\ next[w[t].new] = Null

\* The tail is the last node or the one before it, even when that one is no longer in the
\* chain: then the thread that moved the head past it is yet to look at the tail.
TailOK ==
  /\ tail = Last \/ next[tail] = Last
  /\ InChain(tail) \/ \E t \in Threads : w[t].pc \in {"popTail", "popSwing"} /\ tail = w[t].onto
  /\ \A t \in Threads : At(t, "popRead") => tail # w[t].onto

\* Not destroyed, or not to be destroyed before t unpins.
Safe(t, n) == n \in live \/ t \in waiters[n]

\* What t knows of a node it has loaded a pointer to: it was linked, it is safe and so is
\* the one after it, and only the last one has a null next pointer.
Held(t, n) ==
  /\ n \in Nodes
  /\ Safe(t, n)
  /\ \A s \in Threads : w[s].pc \in Pushing => n # w[s].new
  /\ IF next[n] = Null THEN n = Last ELSE Safe(t, next[n])

Knows(t) ==
  /\ w[t].pc \in Points \ {"idle", "tail", "popHead", "ret"} => Held(t, w[t].onto)
  /\ w[t].pc \in {"next", "link"} => (w[t].onto = Last => tail = Last)
  /\ w[t].pc \in {"popNext", "popCas"} => (InChain(w[t].onto) => w[t].onto = head)
  /\ w[t].pc \in {"help", "popCas"} \cup Popped => next[w[t].onto] = w[t].nx /\ w[t].nx # Null
  /\ At(t, "swing") => next[w[t].onto] = w[t].new /\ w[t].new # Null
  /\ w[t].pc # "ret" => w[t].val = None

\* The inductive invariant.
QueueInv == QueueType /\ ChainOK /\ Ownership /\ TailOK /\ \A t \in Threads : Knows(t)

-----------------------------------------------------------------------------
\* The step of t leaves it at p, with the local variables n, o, x and v.
Steps(t, p, n, o, x, v) ==
  /\ w' \in [Threads -> Locals]
  /\ w'[t].pc = p /\ w'[t].new = n /\ w'[t].onto = o /\ w'[t].nx = x /\ w'[t].val = v
  /\ \A s \in Threads : s # t => w'[s] = w[s]

\* A record of local variables in place of another.
LEMMA StepsTo ==
  ASSUME QueueType, NEW t \in Threads, NEW r \in Locals, w' = [w EXCEPT ![t] = r]
  PROVE  Steps(t, r.pc, r.new, r.onto, r.nx, r.val)
BY DEF QueueType, Steps

\* What each step does to the local variables of its thread.
LEMMA LoadTailSteps ==
  ASSUME QueueType, NEW t \in Threads, LoadTail(t)
  PROVE  Steps(t, "next", w[t].new, tail, w[t].nx, w[t].val)
<1> DEFINE r == [w[t] EXCEPT !.pc = "next", !.onto = tail]
<1>1. w' = [w EXCEPT ![t] = r] BY DEF LoadTail, QueueType
<1>2. r \in Locals BY DEF QueueType, Locals, Points, Pushing, Pointers
<1>3. r.pc = "next" /\ r.new = w[t].new /\ r.onto = tail /\ r.nx = w[t].nx /\ r.val = w[t].val
  BY DEF QueueType, Locals
<1> HIDE DEF r
<1> QED BY <1>1, <1>2, <1>3, StepsTo

LEMMA LoadNextSteps ==
  ASSUME QueueType, NEW t \in Threads, LoadNext(t), w[t].onto \in Nodes
  PROVE  Steps(t, IF next[w[t].onto] = Null THEN "link" ELSE "help", w[t].new, w[t].onto,
               next[w[t].onto], w[t].val)
<1> DEFINE nx == next[w[t].onto]
           p == IF nx = Null THEN "link" ELSE "help"
           r == [w[t] EXCEPT !.pc = p, !.nx = nx]
<1>1. w' = [w EXCEPT ![t] = r] BY DEF LoadNext, QueueType
<1>2. r \in Locals BY DEF QueueType, Locals, Points, Pushing, Pointers
<1>3. r.pc = p /\ r.new = w[t].new /\ r.onto = w[t].onto /\ r.nx = nx /\ r.val = w[t].val
  BY DEF QueueType, Locals
<1> HIDE DEF r
<1> QED BY <1>1, <1>2, <1>3, StepsTo

LEMMA PopLoadHeadSteps ==
  ASSUME QueueType, NEW t \in Threads, PopLoadHead(t)
  PROVE  Steps(t, "popNext", w[t].new, head, w[t].nx, w[t].val)
<1> DEFINE r == [w[t] EXCEPT !.pc = "popNext", !.onto = head]
<1>1. w' = [w EXCEPT ![t] = r] BY DEF PopLoadHead, QueueType
<1>2. r \in Locals BY DEF QueueType, Locals, Points, Pushing, Pointers
<1>3. r.pc = "popNext" /\ r.new = w[t].new /\ r.onto = head /\ r.nx = w[t].nx /\ r.val = w[t].val
  BY DEF QueueType, Locals
<1> HIDE DEF r
<1> QED BY <1>1, <1>2, <1>3, StepsTo

LEMMA PopLoadNextSteps ==
  ASSUME QueueType, NEW t \in Threads, PopLoadNext(t), w[t].onto \in Nodes
  PROVE  Steps(t, IF next[w[t].onto] = Null THEN "ret" ELSE "popCas", w[t].new, w[t].onto,
               next[w[t].onto], w[t].val)
<1> DEFINE nx == next[w[t].onto]
           p == IF nx = Null THEN "ret" ELSE "popCas"
           r == [w[t] EXCEPT !.pc = p, !.nx = nx]
<1>1. w' = [w EXCEPT ![t] = r] BY DEF PopLoadNext, QueueType
<1>2. r \in Locals BY DEF QueueType, Locals, Points, Pushing, Pointers
<1>3. r.pc = p /\ r.new = w[t].new /\ r.onto = w[t].onto /\ r.nx = nx /\ r.val = w[t].val
  BY DEF QueueType, Locals
<1> HIDE DEF r
<1> QED BY <1>1, <1>2, <1>3, StepsTo

LEMMA PopReadSteps ==
  ASSUME QueueType, NEW t \in Threads, PopRead(t), w[t].nx \in Nodes
  PROVE  Steps(t, "ret", w[t].new, w[t].onto, w[t].nx, data[w[t].nx])
<1> DEFINE r == [w[t] EXCEPT !.pc = "ret", !.val = data[w[t].nx]]
<1>1. w' = [w EXCEPT ![t] = r] BY DEF PopRead, QueueType
<1>2. r \in Locals BY DEF QueueType, Locals, Points, Pushing, Pointers
<1>3. r.pc = "ret" /\ r.new = w[t].new /\ r.onto = w[t].onto /\ r.nx = w[t].nx
      /\ r.val = data[w[t].nx]
  BY DEF QueueType, Locals
<1> HIDE DEF r
<1> QED BY <1>1, <1>2, <1>3, StepsTo

\* A step that leaves all the variables but the program counter.
LEMMA GotoSteps ==
  ASSUME QueueType, NEW t \in Threads, NEW p \in Points, Goto(t, p)
  PROVE  Steps(t, p, w[t].new, w[t].onto, w[t].nx, w[t].val)
<1> DEFINE r == [w[t] EXCEPT !.pc = p]
<1>0. w[t] \in Locals BY DEF QueueType
<1>1. w' = [w EXCEPT ![t] = r] BY DEF Goto, QueueType
<1>2. r \in Locals BY <1>0 DEF Locals
<1>3. r.pc = p /\ r.new = w[t].new /\ r.onto = w[t].onto /\ r.nx = w[t].nx /\ r.val = w[t].val
  BY DEF QueueType, Locals
<1> HIDE DEF r
<1> QED BY <1>1, <1>2, <1>3, StepsTo

-----------------------------------------------------------------------------
\* The chain is not empty, and the head and the last node are in it.
LEMMA Ends ==
  ASSUME QueueInv
  PROVE  /\ Len(chain) \in Nat \ {0}
         /\ InChain(head) /\ InChain(Last)
         /\ Last \in Nodes /\ Last \in live /\ next[Last] = Null
         /\ \A n : InChain(n) => n \in Nodes /\ n \in live
BY SMTT(60) DEF QueueInv, QueueType, ChainOK, InChain, Last

\* A step on the local variables alone.
LEMMA LocalStep ==
  ASSUME QueueInv, NEW t \in Threads, NEW p, NEW n, NEW o, NEW x, NEW v,
         Steps(t, p, n, o, x, v),
         UNCHANGED <<head, tail, next, data, live, waiters, chain>>,
         p \in Pushing => w[t].pc \in Pushing /\ n = w[t].new,
         p \in Popped => w[t].pc \in Popped /\ o = w[t].onto,
         w[t].pc \in {"popTail", "popSwing"} /\ tail = w[t].onto => p \in {"popTail", "popSwing"},
         p = "popRead" => tail # o,
         Knows(t)'
  PROVE  QueueInv'
<1> USE DEF QueueInv
<1>1. QueueType' BY DEF Steps, QueueType
<1>2. ChainOK' BY DEF ChainOK, Last
<1>3. Ownership'
  <2>1. \A s \in Threads, m \in Nodes : Owns(s, m)' => Owns(s, m) BY DEF Owns, Steps
  <2>2. \A s \in Threads : w'[s].pc \in Pushing => w[s].pc \in Pushing /\ w'[s].new = w[s].new
    BY DEF Steps
  <2> QED BY <2>1, <2>2 DEF Ownership, InChain
<1>4. TailOK'
  <2>1. InChain(tail)' \/ \E s \in Threads : w'[s].pc \in {"popTail", "popSwing"} /\ tail = w'[s].onto
    <3>1. CASE InChain(tail) BY <3>1 DEF InChain
    <3>2. ASSUME NEW s \in Threads, w[s].pc \in {"popTail", "popSwing"}, tail = w[s].onto
          PROVE  w'[s].pc \in {"popTail", "popSwing"} /\ tail = w'[s].onto
      BY <3>2 DEF Steps, Popped
    <3> QED BY <3>1, <3>2 DEF TailOK
  <2>2. \A s \in Threads : w'[s].pc = "popRead" => tail # w'[s].onto BY DEF Steps, TailOK, At
  <2> QED BY <2>1, <2>2 DEF TailOK, Last, At
<1>5. ASSUME NEW s \in Threads, s # t PROVE Knows(s)'
  <2>1. \A r \in Threads : w'[r].pc \in Pushing => w[r].pc \in Pushing /\ w'[r].new = w[r].new
    BY DEF Steps
  <2>2. \A m : Held(s, m) => Held(s, m)' BY <2>1 DEF Held, Safe, Last
  <2>3. w'[s] = w[s] BY <1>5 DEF Steps
  <2> QED BY <2>2, <2>3 DEF Knows, InChain, Last, At
<1> QED BY <1>1, <1>2, <1>3, <1>4, <1>5
\* What a thread may rely on when it loads the head, the tail or a node of the chain.
LEMMA ChainHeld ==
  ASSUME QueueInv, NEW t \in Threads, NEW n, InChain(n)
  PROVE  Held(t, n)
<1> USE DEF QueueInv
<1>1. PICK i \in 1..Len(chain) : chain[i] = n BY DEF InChain
<1>2. n \in Nodes /\ n \in live BY <1>1, Ends
<1>3. \A s \in Threads : w[s].pc \in Pushing => n # w[s].new
  BY <1>2 DEF Ownership, Owns
<1>4. CASE i = Len(chain)
  BY <1>1, <1>2, <1>3, <1>4, Ends DEF Held, Safe, Last
<1>5. CASE i # Len(chain)
  <2>1. i \in 1..(Len(chain) - 1) /\ i + 1 \in 1..Len(chain) BY <1>5, Ends, SMTT(60)
  <2>2. next[n] = chain[i + 1] /\ chain[i + 1] \in live BY <1>1, <2>1 DEF ChainOK
  <2>3. next[n] # Null BY <2>2, QueueAssumption DEF QueueType
  <2> QED BY <1>2, <1>3, <2>2, <2>3 DEF Held, Safe
<1> QED BY <1>4, <1>5

\* The tail may be loaded although it has fallen behind the head.
LEMMA TailHeld ==
  ASSUME QueueInv, NEW t \in Threads
  PROVE  Held(t, tail)
<1> USE DEF QueueInv
<1>1. CASE InChain(tail) BY <1>1, ChainHeld
<1>2. ASSUME ~ InChain(tail), NEW s \in Threads, w[s].pc \in {"popTail", "popSwing"},
             tail = w[s].onto
      PROVE  Held(t, tail)
  <2>1. tail \in Nodes /\ Owns(s, tail) BY <1>2 DEF QueueType, Owns, Popped
  <2>2. tail \in live BY <2>1 DEF Ownership
  <2>3. ASSUME NEW r \in Threads, w[r].pc \in Pushing PROVE tail # w[r].new
    <3>1. SUFFICES ASSUME tail = w[r].new PROVE FALSE OBVIOUS
    <3>2. r = s BY <2>1, <2>3, <3>1 DEF Ownership, Owns
    <3> QED BY <1>2, <2>3, <3>2 DEF Pushing
  <2>4. next[tail] = Last /\ next[tail] # Null /\ next[tail] \in live
    BY <1>2, Ends, QueueAssumption DEF TailOK
  <2> QED BY <2>1, <2>2, <2>3, <2>4 DEF Held, Safe
<1> QED BY <1>1, <1>2 DEF TailOK

\* The steps of push and try_pop that only load keep the invariant.
LEMMA LoadTailInv ==
  ASSUME QueueInv, NEW t \in Threads, LoadTail(t)
  PROVE  QueueInv'
<1> USE DEF QueueInv
<1>1. Steps(t, "next", w[t].new, tail, w[t].nx, w[t].val) BY LoadTailSteps
<1>2. w[t].pc = "tail" /\ UNCHANGED <<head, tail, next, data, live, waiters, chain>>
  BY DEF LoadTail, At, nodeVars
<1>3. Held(t, tail) BY TailHeld
<1>4. \A r \in Threads : w'[r].pc \in Pushing => w[r].pc \in Pushing /\ w'[r].new = w[r].new
  BY <1>1, <1>2 DEF Steps, Pushing
<1>5. Held(t, tail)' BY <1>2, <1>3, <1>4 DEF Held, Safe, Last
<1>6. Knows(t)' BY <1>1, <1>2, <1>5 DEF Knows, Steps, Last, At, Popped
<1> QED BY <1>1, <1>2, <1>6, LocalStep, SMTT(60) DEF Pushing, Popped

LEMMA LoadNextInv ==
  ASSUME QueueInv, NEW t \in Threads, LoadNext(t)
  PROVE  QueueInv'
<1> USE DEF QueueInv
<1> DEFINE p == IF next[w[t].onto] = Null THEN "link" ELSE "help"
<1>1. w[t].pc = "next" /\ UNCHANGED <<head, tail, next, data, live, waiters, chain>>
  BY DEF LoadNext, At, nodeVars
<1>2. Held(t, w[t].onto) /\ w[t].onto \in Nodes BY <1>1 DEF Knows, Held, Points, Pushing
<1>3. Steps(t, p, w[t].new, w[t].onto, next[w[t].onto], w[t].val) BY <1>2, LoadNextSteps
<1>4. \A r \in Threads : w'[r].pc \in Pushing => w[r].pc \in Pushing /\ w'[r].new = w[r].new
  BY <1>1, <1>3 DEF Steps, Pushing
<1>5. Held(t, w[t].onto)' BY <1>1, <1>2, <1>3, <1>4 DEF Held, Safe, Last, Steps
<1>6. Knows(t)' BY <1>1, <1>3, <1>5 DEF Knows, Steps, Last, At, Popped
<1> QED BY <1>1, <1>3, <1>6, LocalStep, SMTT(60) DEF Pushing, Popped

LEMMA PopInv ==
  ASSUME QueueInv, NEW t \in Threads, Pop(t)
  PROVE  QueueInv'
<1> USE DEF QueueInv
<1>1. w[t].pc = "idle" /\ UNCHANGED <<head, tail, next, data, live, waiters, chain>>
  BY DEF Pop, Call, At, nodeVars
<1> DEFINE r == [Quiet EXCEPT !.pc = "popHead"]
<1>2. /\ w' = [w EXCEPT ![t] = r] /\ r \in Locals
      /\ r.pc = "popHead" /\ r.new = Null /\ r.onto = Null /\ r.nx = Null /\ r.val = None
  BY DEF Pop, Quiet, Locals, Points, Pointers
<1> HIDE DEF r
<1>3. Steps(t, "popHead", Null, Null, Null, None) BY <1>2, StepsTo
<1>4. Knows(t)' BY <1>3 DEF Knows, Steps, At, Popped
<1> QED BY <1>1, <1>3, <1>4, LocalStep DEF Pushing, Popped

LEMMA PopLoadHeadInv ==
  ASSUME QueueInv, NEW t \in Threads, PopLoadHead(t)
  PROVE  QueueInv'
<1> USE DEF QueueInv
<1>1. Steps(t, "popNext", w[t].new, head, w[t].nx, w[t].val) BY PopLoadHeadSteps
<1>2. w[t].pc = "popHead" /\ UNCHANGED <<head, tail, next, data, live, waiters, chain>>
  BY DEF PopLoadHead, At, nodeVars
<1>3. Held(t, head) BY Ends, ChainHeld
<1>4. \A r \in Threads : w'[r].pc \in Pushing => w[r].pc \in Pushing /\ w'[r].new = w[r].new
  BY <1>1, <1>2 DEF Steps, Pushing
<1>5. Held(t, head)' BY <1>2, <1>3, <1>4 DEF Held, Safe, Last
<1>6. Knows(t)' BY <1>1, <1>2, <1>5 DEF Knows, Steps, Last, At, Popped
<1> QED BY <1>1, <1>2, <1>6, LocalStep, SMTT(60) DEF Pushing, Popped

LEMMA PopLoadNextInv ==
  ASSUME QueueInv, NEW t \in Threads, PopLoadNext(t)
  PROVE  QueueInv'
<1> USE DEF QueueInv
<1> DEFINE p == IF next[w[t].onto] = Null THEN "ret" ELSE "popCas"
<1>1. w[t].pc = "popNext" /\ UNCHANGED <<head, tail, next, data, live, waiters, chain>>
  BY DEF PopLoadNext, At, nodeVars
<1>2. Held(t, w[t].onto) /\ w[t].onto \in Nodes BY <1>1 DEF Knows, Held, Points, Pushing
<1>3. Steps(t, p, w[t].new, w[t].onto, next[w[t].onto], w[t].val) BY <1>2, PopLoadNextSteps
<1>4. \A r \in Threads : w'[r].pc \in Pushing => w[r].pc \in Pushing /\ w'[r].new = w[r].new
  BY <1>1, <1>3 DEF Steps, Pushing
<1>5. Held(t, w[t].onto)' BY <1>1, <1>2, <1>3, <1>4 DEF Held, Safe, Last, Steps
<1>6. Knows(t)' BY <1>1, <1>3, <1>5 DEF Knows, Steps, Last, At, Popped, InChain
<1> QED BY <1>1, <1>3, <1>6, LocalStep, SMTT(60) DEF Pushing, Popped

LEMMA PopLoadTailInv ==
  ASSUME QueueInv, NEW t \in Threads, PopLoadTail(t)
  PROVE  QueueInv'
<1> USE DEF QueueInv
<1> DEFINE p == IF tail = w[t].onto THEN "popSwing" ELSE "popRead"
<1>1. w[t].pc = "popTail" /\ UNCHANGED <<head, tail, next, data, live, waiters, chain>>
  BY DEF PopLoadTail, At, nodeVars
<1>2. Goto(t, p) BY DEF PopLoadTail
<1>3. Steps(t, p, w[t].new, w[t].onto, w[t].nx, w[t].val)
  BY <1>2, GotoSteps DEF Points, Popped
<1>4. \A r \in Threads : w'[r].pc \in Pushing => w[r].pc \in Pushing /\ w'[r].new = w[r].new
  BY <1>1, <1>3 DEF Steps, Pushing
<1>5. Held(t, w[t].onto) BY <1>1 DEF Knows, Points, Popped
<1>6. Held(t, w[t].onto)' BY <1>1, <1>3, <1>4, <1>5 DEF Held, Safe, Last, Steps
<1>7. Knows(t)' BY <1>1, <1>3, <1>6 DEF Knows, Steps, Last, At, Popped
<1> QED BY <1>1, <1>3, <1>7, LocalStep, SMTT(60) DEF Pushing, Popped
-----------------------------------------------------------------------------
\* A step that may move the tail to the last node, and goes on at p.
LEMMA TailStep ==
  ASSUME QueueInv, NEW t \in Threads, NEW p,
         Steps(t, p, w[t].new, w[t].onto, w[t].nx, w[t].val),
         UNCHANGED <<head, next, data, live, waiters, chain>>,
         tail' = tail \/ tail' = Last,
         w[t].pc \in {"popTail", "popSwing"} => tail' # w[t].onto,
         p \in Pushing => w[t].pc \in Pushing,
         p \in Popped => w[t].pc \in Popped,
         p \in {"tail", "ret", "popRead"},
         w[t].val = None,
         p = "popRead" => w[t].pc = "popSwing"
  PROVE  QueueInv'
<1> USE DEF QueueInv
<1>0. Last' = Last /\ (\A m : InChain(m)' <=> InChain(m)) BY DEF Last, InChain
<1>1. QueueType' BY Ends DEF Steps, QueueType
<1>2. ChainOK' BY DEF ChainOK, Last
<1>3. Ownership'
  <2>1. \A s \in Threads, m \in Nodes : Owns(s, m)' => Owns(s, m) BY DEF Owns, Steps
  <2>2. \A s \in Threads : w'[s].pc \in Pushing => w[s].pc \in Pushing /\ w'[s].new = w[s].new
    BY DEF Steps
  <2> QED BY <2>1, <2>2 DEF Ownership, InChain
<1>4. TailOK'
  <2>1. CASE tail' = Last
    <3>1. InChain(tail)' BY <1>0, <2>1, Ends
    <3>2. ASSUME NEW s \in Threads, w'[s].pc = "popRead" PROVE tail' # w'[s].onto
      <4>1. w[s].pc \in Popped /\ w'[s].onto = w[s].onto BY <3>2 DEF Steps, Popped
      <4>2. w[s].onto \in Nodes BY <4>1 DEF Knows, Held, Points, Popped
      <4> QED BY <2>1, <4>1, <4>2, Ends DEF Ownership, Owns
    <3> QED BY <1>0, <2>1, <3>1, <3>2 DEF TailOK, At
  <2>2. CASE tail' = tail
    <3>1. InChain(tail)' \/ \E s \in Threads : w'[s].pc \in {"popTail", "popSwing"} /\ tail' = w'[s].onto
      <4>1. CASE InChain(tail) BY <1>0, <2>2, <4>1
      <4>2. ASSUME NEW s \in Threads, w[s].pc \in {"popTail", "popSwing"}, tail = w[s].onto
            PROVE  w'[s] = w[s]
        BY <2>2, <4>2 DEF Steps
      <4> QED BY <2>2, <4>1, <4>2 DEF TailOK
    <3>2. \A s \in Threads : w'[s].pc = "popRead" => tail' # w'[s].onto
      BY <2>2 DEF Steps, TailOK, At
    <3> QED BY <1>0, <2>2, <3>1, <3>2 DEF TailOK, At
  <2> QED BY <2>1, <2>2
<1>5. ASSUME NEW s \in Threads PROVE Knows(s)'
  <2>1. \A r \in Threads : w'[r].pc \in Pushing => w[r].pc \in Pushing /\ w'[r].new = w[r].new
    BY DEF Steps
  <2>2. \A m : Held(s, m) => Held(s, m)' BY <2>1 DEF Held, Safe, Last
  <2>3. CASE s # t
    <3>1. w'[s] = w[s] BY <2>3 DEF Steps
    <3>2. Knows(s) OBVIOUS
    <3> QED BY <1>0, <2>2, <3>1, <3>2 DEF Knows, At
  <2>4. CASE s = t
    <3>1. w'[s].pc = p /\ w'[s].new = w[s].new /\ w'[s].onto = w[s].onto /\ w'[s].nx = w[s].nx
          /\ w'[s].val = None
      BY <2>4 DEF Steps
    <3>2. CASE p = "popRead"
      <4>1. Held(s, w[s].onto) /\ next[w[s].onto] = w[s].nx /\ w[s].nx # Null
        BY <2>4, <3>2 DEF Knows, Points, Popped
      <4> QED BY <2>2, <3>1, <3>2, <4>1 DEF Knows, At, Popped
    <3>3. CASE p \in {"tail", "ret"} BY <3>1, <3>3 DEF Knows, At, Popped
    <3> QED BY <3>2, <3>3
  <2> QED BY <2>3, <2>4
<1> QED BY <1>1, <1>2, <1>3, <1>4, <1>5

\* The three CASes on the tail move it to the last node if at all.
LEMMA HelpInv ==
  ASSUME QueueInv, NEW t \in Threads, Help(t)
  PROVE  QueueInv'
<1> USE DEF QueueInv
<1>1. w[t].pc = "help" /\ UNCHANGED <<head, next, data, live, waiters, chain>>
  BY DEF Help, At, nodeVars
<1>2. Steps(t, "tail", w[t].new, w[t].onto, w[t].nx, w[t].val)
  BY GotoSteps DEF Help, Points, Pushing
<1>3. w[t].val = None /\ next[w[t].onto] = w[t].nx /\ w[t].nx # Null BY <1>1 DEF Knows
<1>4. tail' = tail \/ tail' = Last BY <1>3, Ends DEF Help, TailOK
<1> QED BY <1>1, <1>2, <1>3, <1>4, TailStep DEF Pushing, Popped

LEMMA SwingInv ==
  ASSUME QueueInv, NEW t \in Threads, Swing(t)
  PROVE  QueueInv'
<1> USE DEF QueueInv
<1>1. w[t].pc = "swing" /\ UNCHANGED <<head, next, data, live, waiters, chain>>
  BY DEF Swing, At, nodeVars
<1>2. Steps(t, "ret", w[t].new, w[t].onto, w[t].nx, w[t].val)
  BY GotoSteps DEF Swing, Points
<1>3. w[t].val = None /\ next[w[t].onto] = w[t].new /\ w[t].new # Null BY <1>1 DEF Knows, At
<1>4. tail' = tail \/ tail' = Last BY <1>3, Ends DEF Swing, TailOK
<1> QED BY <1>1, <1>2, <1>3, <1>4, TailStep DEF Pushing, Popped

LEMMA PopSwingInv ==
  ASSUME QueueInv, NEW t \in Threads, PopSwing(t)
  PROVE  QueueInv'
<1> USE DEF QueueInv
<1>1. w[t].pc = "popSwing" /\ UNCHANGED <<head, next, data, live, waiters, chain>>
  BY DEF PopSwing, At, nodeVars
<1>2. Steps(t, "popRead", w[t].new, w[t].onto, w[t].nx, w[t].val)
  BY GotoSteps DEF PopSwing, Points, Popped
<1>3. w[t].val = None /\ next[w[t].onto] = w[t].nx /\ w[t].nx # Null BY <1>1 DEF Knows, Popped
<1>4. tail' = tail \/ tail' = Last BY <1>3, Ends DEF PopSwing, TailOK
<1>5. tail' # w[t].onto
  <2>1. w[t].onto \in Nodes BY <1>1 DEF Knows, Held, Points, Popped
  <2>2. w[t].onto # Last BY <1>1, <2>1, Ends DEF Ownership, Owns, Popped
  <2> QED BY <1>3, <2>2, Ends DEF PopSwing, TailOK
<1> QED BY <1>1, <1>2, <1>3, <1>4, <1>5, TailStep DEF Pushing, Popped
-----------------------------------------------------------------------------
\* Nothing holds, owns or reaches a node that may be allocated.
LEMMA FreeIsApart ==
  ASSUME QueueInv, NEW n \in Free
  PROVE  /\ n \in Nodes /\ n \notin live
         /\ ~ InChain(n) /\ n # tail
         /\ \A s \in Threads : ~ Owns(s, n)
         /\ \A s \in Threads : \A m : Safe(s, m) => m # n
<1> USE DEF QueueInv
<1>1. n \in Nodes /\ n \notin live /\ waiters[n] = {} BY DEF Free
<1>2. ~ InChain(n) BY <1>1, Ends
<1>3. \A s \in Threads : ~ Owns(s, n) BY <1>1 DEF Ownership
<1>4. n # tail
  <2>1. CASE InChain(tail) BY <1>2, <2>1
  <2>2. CASE ~ InChain(tail) BY <1>3, <2>2 DEF TailOK, Owns, Popped
  <2> QED BY <2>1, <2>2
<1> QED BY <1>1, <1>2, <1>3, <1>4 DEF Safe

\* A new node is one that nobody can reach, even when its address was used before.
LEMMA PushInv ==
  ASSUME QueueInv, NEW t \in Threads, NEW v \in Values, Push(t, v)
  PROVE  QueueInv'
<1> USE DEF QueueInv
<1>1. w[t].pc = "idle" /\ UNCHANGED <<head, tail, waiters, chain>> BY DEF Push, Call, At
<1>2. PICK n \in Free :
        /\ next' = [next EXCEPT ![n] = Null]
        /\ data' = [data EXCEPT ![n] = v]
        /\ live' = live \cup {n}
        /\ w' = [w EXCEPT ![t] = [Quiet EXCEPT !.pc = "tail", !.new = n]]
  BY DEF Push
<1>3. n \in Nodes /\ n \notin live /\ ~ InChain(n) /\ n # tail
      /\ (\A s \in Threads : ~ Owns(s, n)) /\ (\A s \in Threads : \A m : Safe(s, m) => m # n)
  BY FreeIsApart
<1> DEFINE r == [Quiet EXCEPT !.pc = "tail", !.new = n]
<1>4. /\ w' = [w EXCEPT ![t] = r] /\ r \in Locals
      /\ r.pc = "tail" /\ r.new = n /\ r.onto = Null /\ r.nx = Null /\ r.val = None
  BY <1>2, <1>3 DEF Quiet, Locals, Points, Pointers, Pushing
<1> HIDE DEF r
<1>5. Steps(t, "tail", n, Null, Null, None) BY <1>4, StepsTo
<1>6. /\ next' \in [Nodes -> Pointers] /\ next'[n] = Null
      /\ \A m \in Nodes : m # n => next'[m] = next[m]
  BY <1>2, <1>3 DEF QueueType, Pointers
<1>7. Last' = Last /\ \A m : InChain(m)' <=> InChain(m) BY <1>1 DEF Last, InChain
<1>8. QueueType' BY <1>1, <1>2, <1>3, <1>5, <1>6 DEF QueueType, Steps
<1>9. ChainOK'
  <2>1. \A i \in 1..Len(chain) : chain[i] # n /\ chain[i] \in Nodes
    BY <1>3, SMTT(60) DEF InChain, QueueType
  <2>2. \A i \in 1..Len(chain) : next'[chain[i]] = next[chain[i]] BY <1>6, <2>1
  <2>3. \A i \in 1..(Len(chain) - 1) : next'[chain[i]] = chain[i + 1]
    BY <2>2, Ends, SMTT(60) DEF ChainOK
  <2>4. next'[Last] = Null BY <2>2, Ends, SMTT(60) DEF Last
  <2> QED BY <1>1, <1>2, <1>7, <2>3, <2>4 DEF ChainOK
<1>10. \A s \in Threads, m \in Nodes : Owns(s, m)' => Owns(s, m) \/ (s = t /\ m = n)
  BY <1>5 DEF Owns, Steps, Pushing, Popped
<1>11. Ownership'
  <2>1. \A s \in Threads, m \in Nodes : Owns(s, m)' => m \in live' /\ ~ InChain(m)'
    BY <1>2, <1>3, <1>7, <1>10 DEF Ownership
  <2>2. \A s, u \in Threads, m \in Nodes : Owns(s, m)' /\ Owns(u, m)' => s = u
    BY <1>3, <1>10 DEF Ownership
  <2>3. ASSUME NEW s \in Threads, w'[s].pc \in Pushing
        PROVE  w'[s].new \in Nodes /\ next'[w'[s].new] = Null
    <3>1. CASE s = t BY <1>3, <1>5, <1>6, <3>1 DEF Steps
    <3>2. CASE s # t BY <1>5, <1>6, <2>3, <3>2 DEF Steps, Ownership
    <3> QED BY <3>1, <3>2
  <2> QED BY <2>1, <2>2, <2>3 DEF Ownership
<1>12. TailOK'
  <2>1. tail' = Last' \/ next'[tail'] = Last'
    BY <1>1, <1>3, <1>6, <1>7 DEF TailOK, QueueType
  <2>2. \A s \in Threads : w[s].pc \in Popped => w'[s] = w[s] BY <1>1, <1>5 DEF Steps, Popped
  <2>3. \A s \in Threads : w'[s].pc = "popRead" => w'[s] = w[s] BY <1>5 DEF Steps
  <2>4. InChain(tail)' \/ \E s \in Threads : w'[s].pc \in {"popTail", "popSwing"} /\ tail' = w'[s].onto
    BY <1>1, <1>7, <2>2 DEF TailOK, Popped
  <2> QED BY <1>1, <2>1, <2>3, <2>4 DEF TailOK, At
<1>13. ASSUME NEW s \in Threads PROVE Knows(s)'
  <2>1. CASE s = t BY <1>5, <2>1 DEF Steps, Knows, At, Popped
  <2>2. CASE s # t
    <3>1. w'[s] = w[s] BY <1>5, <2>2 DEF Steps
    <3>2. ASSUME NEW m, Held(s, m) PROVE Held(s, m)' /\ next'[m] = next[m]
      <4>1. m # n /\ m \in Nodes BY <1>3, <3>2 DEF Held
      <4>2. next'[m] = next[m] BY <1>6, <4>1
      <4>3. \A u \in Threads : w'[u].pc \in Pushing => m # w'[u].new
        BY <1>5, <3>2, <4>1 DEF Steps, Held
      <4>4. \A k : Safe(s, k) => Safe(s, k)' BY <1>1, <1>2 DEF Safe
      <4> QED BY <1>7, <3>2, <4>1, <4>2, <4>3, <4>4 DEF Held
    <3>3. Knows(s) OBVIOUS
    <3> QED BY <1>1, <1>7, <3>1, <3>2, <3>3 DEF Knows, At, Points, Popped, Pushing
  <2> QED BY <2>1, <2>2
<1> QED BY <1>8, <1>9, <1>11, <1>12, <1>13

\* A thread that unpins gives up its claim on retired nodes, not that of the others.
LEMMA RetInv ==
  ASSUME QueueInv, NEW t \in Threads, Ret(t)
  PROVE  QueueInv'
<1> USE DEF QueueInv
<1>1. w[t].pc = "ret" /\ UNCHANGED <<head, tail, next, data, live, chain>> BY DEF Ret, At
<1>2. /\ waiters' \in [Nodes -> SUBSET Threads]
      /\ \A n \in Nodes, s \in Threads : s # t /\ s \in waiters[n] => s \in waiters'[n]
  BY DEF Ret, QueueType
<1>3. Quiet \in Locals /\ w' = [w EXCEPT ![t] = Quiet] BY DEF Ret, Quiet, Locals, Points, Pointers
<1>4. Steps(t, "idle", Null, Null, Null, None) BY <1>3, StepsTo DEF Quiet
<1>5. Last' = Last /\ \A m : InChain(m)' <=> InChain(m) BY <1>1 DEF Last, InChain
<1>6. QueueType' BY <1>1, <1>2, <1>4 DEF QueueType, Steps
<1>7. ChainOK' BY <1>1 DEF ChainOK, Last
<1>8. Ownership'
  <2>1. \A s \in Threads, m \in Nodes : Owns(s, m)' => Owns(s, m)
    BY <1>4 DEF Owns, Steps, Pushing, Popped
  <2>2. \A s \in Threads : w'[s].pc \in Pushing => w[s].pc \in Pushing /\ w'[s].new = w[s].new
    BY <1>4 DEF Steps, Pushing
  <2> QED BY <1>1, <2>1, <2>2 DEF Ownership, InChain
<1>9. TailOK'
  <2>1. \A s \in Threads : w[s].pc \in Popped => w'[s] = w[s] BY <1>1, <1>4 DEF Steps, Popped
  <2>2. \A s \in Threads : w'[s].pc = "popRead" => w'[s] = w[s] BY <1>4 DEF Steps
  <2>3. InChain(tail)' \/ \E s \in Threads : w'[s].pc \in {"popTail", "popSwing"} /\ tail' = w'[s].onto
    BY <1>1, <1>5, <2>1 DEF TailOK, Popped
  <2> QED BY <1>1, <1>5, <2>2, <2>3 DEF TailOK, At
<1>10. ASSUME NEW s \in Threads PROVE Knows(s)'
  <2>1. CASE s = t BY <1>4, <2>1 DEF Steps, Knows, At, Popped
  <2>2. CASE s # t
    <3>1. w'[s] = w[s] BY <1>4, <2>2 DEF Steps
    <3>2. ASSUME NEW m, Held(s, m) PROVE Held(s, m)'
      <4>1. \A u \in Threads : w'[u].pc \in Pushing => m # w'[u].new
        BY <1>4, <3>2 DEF Steps, Held, Pushing
      <4>2. \A k \in Nodes : Safe(s, k) => Safe(s, k)' BY <1>1, <1>2, <2>2 DEF Safe
      <4>3. m \in Nodes /\ (next[m] # Null => next[m] \in Nodes)
        BY <3>2 DEF Held, QueueType, Pointers
      <4> QED BY <1>1, <1>5, <3>2, <4>1, <4>2, <4>3 DEF Held
    <3>3. Knows(s) OBVIOUS
    <3> QED BY <1>1, <1>5, <3>1, <3>2, <3>3 DEF Knows, At
  <2> QED BY <2>1, <2>2
<1> QED BY <1>6, <1>7, <1>8, <1>9, <1>10
-----------------------------------------------------------------------------
\* A CAS that fails: the thread starts over.
LEMMA RetryInv ==
  ASSUME QueueInv, NEW t \in Threads,
         UNCHANGED <<head, tail, next, data, live, waiters, chain>>,
         \/ w[t].pc = "link" /\ Goto(t, "tail")
         \/ w[t].pc = "popCas" /\ Goto(t, "popHead")
  PROVE  QueueInv'
<1> USE DEF QueueInv
<1>1. CASE w[t].pc = "link" /\ Goto(t, "tail")
  <2>1. Steps(t, "tail", w[t].new, w[t].onto, w[t].nx, w[t].val)
    BY <1>1, GotoSteps DEF Points, Pushing
  <2>2. Knows(t)' BY <1>1, <2>1 DEF Knows, Steps, At, Popped
  <2> QED BY <1>1, <2>1, <2>2, LocalStep, SMTT(60) DEF Pushing, Popped
<1>2. CASE w[t].pc = "popCas" /\ Goto(t, "popHead")
  <2>1. Steps(t, "popHead", w[t].new, w[t].onto, w[t].nx, w[t].val)
    BY <1>2, GotoSteps DEF Points
  <2>2. Knows(t)' BY <1>2, <2>1 DEF Knows, Steps, At, Popped
  <2> QED BY <1>2, <2>1, <2>2, LocalStep, SMTT(60) DEF Pushing, Popped
<1> QED BY <1>1, <1>2

\* The CAS that links a node hits the last one, and then the tail is there too.
LEMMA LinkFacts ==
  ASSUME QueueInv, NEW t \in Threads, Link(t), next[w[t].onto] = Null
  PROVE  /\ w[t].pc = "link"
         /\ w[t].onto = Last /\ tail = Last
         /\ w[t].new \in Nodes /\ w[t].new \in live /\ ~ InChain(w[t].new)
         /\ next[w[t].new] = Null
         /\ Last' = w[t].new
         /\ chain' \in Seq(Nodes) /\ Len(chain') = Len(chain) + 1
         /\ \A i \in 1..Len(chain) : chain'[i] = chain[i]
         /\ chain'[Len(chain) + 1] = w[t].new
         /\ \A m : InChain(m)' <=> InChain(m) \/ m = w[t].new
         /\ next' \in [Nodes -> Pointers]
         /\ next'[Last] = w[t].new /\ \A m \in Nodes : m # Last => next'[m] = next[m]
         /\ UNCHANGED <<head, tail, data, live, waiters>>
         /\ Steps(t, "swing", w[t].new, w[t].onto, w[t].nx, w[t].val)
<1> USE DEF QueueInv
<1>1. w[t].pc = "link" /\ UNCHANGED <<head, tail, data, live, waiters>>
  BY DEF Link, At, nodeVars
<1>2. w[t].onto = Last /\ tail = Last BY <1>1 DEF Knows, Held, Points, Pushing
<1>3. w[t].new \in Nodes /\ w[t].new \in live /\ ~ InChain(w[t].new) /\ next[w[t].new] = Null
  BY <1>1 DEF Ownership, Owns, Pushing
<1>4. chain' = Append(chain, w[t].new) BY DEF Link
<1>5. /\ chain' \in Seq(Nodes) /\ Len(chain') = Len(chain) + 1
      /\ \A i \in 1..Len(chain) : chain'[i] = chain[i]
      /\ chain'[Len(chain) + 1] = w[t].new
  BY <1>3, <1>4, SMTT(60) DEF QueueType
<1>6. Last' = w[t].new BY <1>5 DEF Last
<1>7. ASSUME NEW m PROVE InChain(m)' <=> InChain(m) \/ m = w[t].new
  <2>1. Len(chain) \in Nat BY Ends
  <2>2. ASSUME NEW i \in 1..Len(chain'), chain'[i] = m PROVE InChain(m) \/ m = w[t].new
    <3>1. i \in 1..Len(chain) \/ i = Len(chain) + 1 BY <1>5, <2>1, SMTT(60)
    <3> QED BY <1>5, <2>2, <3>1 DEF InChain
  <2>3. ASSUME NEW i \in 1..Len(chain), chain[i] = m PROVE InChain(m)'
    <3>1. i \in 1..Len(chain') /\ chain'[i] = m BY <1>5, <2>1, <2>3, SMTT(60)
    <3> QED BY <3>1 DEF InChain
  <2>4. Len(chain) + 1 \in 1..Len(chain') BY <1>5, <2>1, SMTT(60)
  <2>5. m = w[t].new => InChain(m)' BY <1>5, <2>4 DEF InChain
  <2> QED BY <2>2, <2>3, <2>5 DEF InChain
<1>8. next' = [next EXCEPT ![Last] = w[t].new] BY <1>2 DEF Link
<1>9. /\ next' \in [Nodes -> Pointers]
      /\ next'[Last] = w[t].new /\ \A m \in Nodes : m # Last => next'[m] = next[m]
  BY <1>3, <1>8, Ends DEF QueueType, Pointers
<1>10. Steps(t, "swing", w[t].new, w[t].onto, w[t].nx, w[t].val)
  BY GotoSteps DEF Link, Points
<1> QED BY <1>1, <1>2, <1>3, <1>5, <1>6, <1>7, <1>9, <1>10

\* push_internal links its node at the end of the chain.
LEMMA LinkInv ==
  ASSUME QueueInv, NEW t \in Threads, Link(t)
  PROVE  QueueInv'
<1> USE DEF QueueInv
<1>0. CASE next[w[t].onto] # Null BY <1>0, RetryInv DEF Link, At, nodeVars
<1>1. CASE next[w[t].onto] = Null
  <2> DEFINE n == w[t].new
  <2>1. /\ w[t].pc = "link"
        /\ w[t].onto = Last /\ tail = Last
        /\ n \in Nodes /\ n \in live /\ ~ InChain(n) /\ next[n] = Null
        /\ UNCHANGED <<head, tail, data, live, waiters>>
    BY <1>1, LinkFacts
  <2>2. /\ chain' \in Seq(Nodes) /\ Len(chain') = Len(chain) + 1
        /\ \A i \in 1..Len(chain) : chain'[i] = chain[i]
        /\ chain'[Len(chain) + 1] = n
    BY <1>1, LinkFacts
  <2>3. Last' = n /\ \A m : InChain(m)' <=> InChain(m) \/ m = n BY <1>1, LinkFacts
  <2>4. /\ next' \in [Nodes -> Pointers]
        /\ next'[Last] = n /\ \A m \in Nodes : m # Last => next'[m] = next[m]
    BY <1>1, LinkFacts
  <2>5. Steps(t, "swing", n, w[t].onto, w[t].nx, w[t].val) BY <1>1, LinkFacts
  <2>6. Len(chain) \in Nat \ {0} /\ InChain(Last) /\ Last \in Nodes BY Ends
  <2>7. QueueType' BY <2>1, <2>2, <2>4, <2>5 DEF QueueType, Steps
  <2>8. ChainOK'
    <3>1. Len(chain') >= 1 /\ head' = chain'[1] BY <2>1, <2>2, <2>6, SMTT(60) DEF ChainOK
    <3>2. ASSUME NEW i \in 1..Len(chain') PROVE chain'[i] \in live'
      <4>1. i \in 1..Len(chain) \/ i = Len(chain) + 1 BY <2>2, <2>6, SMTT(60)
      <4> QED BY <2>1, <2>2, <4>1 DEF ChainOK
    <3>3. ASSUME NEW i \in 1..Len(chain'), NEW j \in 1..Len(chain'), chain'[i] = chain'[j]
          PROVE  i = j
      <4>1. i \in 1..Len(chain) \/ i = Len(chain) + 1 BY <2>2, <2>6, SMTT(60)
      <4>2. j \in 1..Len(chain) \/ j = Len(chain) + 1 BY <2>2, <2>6, SMTT(60)
      <4> QED BY <2>1, <2>2, <3>3, <4>1, <4>2 DEF ChainOK, InChain
    <3>4. ASSUME NEW i \in 1..(Len(chain') - 1) PROVE next'[chain'[i]] = chain'[i + 1]
      <4>1. CASE i = Len(chain) BY <2>2, <2>4, <2>6, <4>1, SMTT(60) DEF Last
      <4>2. CASE i # Len(chain)
        <5>1. i \in 1..(Len(chain) - 1) /\ i \in 1..Len(chain) /\ i + 1 \in 1..Len(chain)
          BY <2>2, <2>6, <4>2, SMTT(60)
        <5>2. chain[i] \in Nodes /\ chain[i] # Last BY <2>6, <4>2, <5>1, SMTT(60) DEF ChainOK, Last, QueueType
        <5> QED BY <2>2, <2>4, <5>1, <5>2 DEF ChainOK
      <4> QED BY <4>1, <4>2
    <3>5. next'[Last'] = Null BY <2>1, <2>3, <2>4, <2>6
    <3> QED BY <3>1, <3>2, <3>3, <3>4, <3>5 DEF ChainOK
  <2>9. \A s \in Threads, m \in Nodes : Owns(s, m)' => Owns(s, m) /\ m # n
    <3> SUFFICES ASSUME NEW s \in Threads, NEW m \in Nodes, Owns(s, m)'
                 PROVE  Owns(s, m) /\ m # n
      OBVIOUS
    <3>1. s # t /\ Owns(s, m) BY <2>5 DEF Owns, Steps, Pushing, Popped
    <3>2. Owns(t, n) BY <2>1 DEF Owns, Pushing
    <3> QED BY <3>1, <3>2 DEF Ownership
  <2>10. Ownership'
    <3>1. \A s \in Threads, m \in Nodes : Owns(s, m)' => m \in live' /\ ~ InChain(m)'
      BY <2>1, <2>3, <2>9 DEF Ownership
    <3>2. \A s, u \in Threads, m \in Nodes : Owns(s, m)' /\ Owns(u, m)' => s = u
      BY <2>9 DEF Ownership
    <3>3. ASSUME NEW s \in Threads, w'[s].pc \in Pushing
          PROVE  w'[s].new \in Nodes /\ next'[w'[s].new] = Null
      <4>1. s # t /\ w'[s] = w[s] BY <2>5, <3>3 DEF Steps, Pushing
      <4>2. w[s].new \in Nodes /\ next[w[s].new] = Null BY <3>3, <4>1 DEF Ownership
      <4>3. w[s].new # Last BY <2>6, <3>3, <4>1, <4>2 DEF Ownership, Owns
      <4> QED BY <2>4, <4>1, <4>2, <4>3
    <3> QED BY <3>1, <3>2, <3>3 DEF Ownership
  <2>11. TailOK'
    <3>1. next'[tail'] = Last' BY <2>1, <2>3, <2>4
    <3>2. InChain(tail)' BY <2>1, <2>3, <2>6
    <3>3. \A s \in Threads : w'[s].pc = "popRead" => w'[s] = w[s] BY <2>5 DEF Steps
    <3> QED BY <2>1, <3>1, <3>2, <3>3 DEF TailOK, At
  <2>12. ASSUME NEW s \in Threads, NEW m, Held(s, m) PROVE Held(s, m)' /\ m # n
    <3>1. m # n BY <2>1, <2>12 DEF Held, Pushing
    <3>2. \A u \in Threads : w'[u].pc \in Pushing => m # w'[u].new
      BY <2>5, <2>12 DEF Held, Steps, Pushing
    <3>3. \A k : Safe(s, k)' <=> Safe(s, k) BY <2>1 DEF Safe
    <3>4. CASE m = Last
      BY <2>1, <2>3, <2>4, <2>6, <2>12, <3>1, <3>2, <3>3, <3>4, QueueAssumption DEF Held, Safe
    <3>5. CASE m # Last
      BY <2>4, <2>12, <3>1, <3>2, <3>3, <3>5 DEF Held
    <3> QED BY <3>1, <3>4, <3>5
  <2>13. ASSUME NEW s \in Threads PROVE Knows(s)'
    <3>1. CASE s = t
      <4>0. PICK o : o = w[t].onto OBVIOUS
      <4>1. Held(t, o)' BY <2>1, <2>12, <4>0 DEF Knows, Points, Pushing
      <4>2. w'[t].pc = "swing" /\ w'[t].new = n /\ w'[t].onto = o /\ w'[t].val = None
        BY <2>1, <2>5, <4>0 DEF Steps, Knows
      <4>3. n # Null BY <2>1, QueueAssumption
      <4> QED BY <2>1, <2>4, <3>1, <4>0, <4>1, <4>2, <4>3 DEF Knows, At, Popped
    <3>2. CASE s # t
      <4>1. w'[s] = w[s] /\ Knows(s) BY <2>5, <3>2 DEF Steps
      <4>2. PICK o : o = w[s].onto OBVIOUS
      <4>3. ASSUME w[s].pc \in Points \ {"idle", "tail", "popHead", "ret"}
            PROVE  Held(s, o)' /\ o # n /\ (next[o] # Null => next'[o] = next[o])
        <5>1. Held(s, o) BY <4>1, <4>2, <4>3 DEF Knows
        <5>2. o \in Nodes BY <5>1 DEF Held
        <5> QED BY <2>4, <2>12, <5>1, <5>2, Ends
      <4> QED BY <2>1, <2>3, <4>1, <4>2, <4>3 DEF Knows, At, Points, Popped, Pushing
    <3> QED BY <3>1, <3>2
  <2> QED BY <2>7, <2>8, <2>10, <2>11, <2>13
<1> QED BY <1>0, <1>1
-----------------------------------------------------------------------------
\* The CAS that moves the head takes the first node off the chain, which is not the last.
LEMMA PopCasFacts ==
  ASSUME QueueInv, NEW t \in Threads, PopCas(t), head = w[t].onto
  PROVE  /\ w[t].pc = "popCas"
         /\ Len(chain) \in Nat /\ Len(chain) >= 2
         /\ head = chain[1] /\ w[t].nx = chain[2] /\ head' = chain[2]
         /\ chain' \in Seq(Nodes) /\ Len(chain') = Len(chain) - 1
         /\ \A i \in 1..(Len(chain) - 1) : chain'[i] = chain[i + 1]
         /\ Last' = Last /\ head # Last
         /\ \A m : InChain(m)' <=> InChain(m) /\ m # head
         /\ UNCHANGED <<tail, next, data, live, waiters>>
         /\ Steps(t, "popTail", w[t].new, w[t].onto, w[t].nx, w[t].val)
<1> USE DEF QueueInv
<1>1. w[t].pc = "popCas" /\ UNCHANGED <<tail, next, data, live, waiters>>
  BY DEF PopCas, At, nodeVars
<1>2. next[head] = w[t].nx /\ w[t].nx # Null BY <1>1 DEF Knows
<1>3. head # Last /\ head = chain[1] BY <1>2, Ends DEF ChainOK
<1>4. Len(chain) \in Nat /\ Len(chain) >= 2 BY <1>3, Ends, SMTT(60) DEF Last
<1>5. w[t].nx = chain[2]
  <2>1. 1 \in 1..(Len(chain) - 1) BY <1>4, SMTT(60)
  <2>2. next[chain[1]] = chain[1 + 1] BY <2>1 DEF ChainOK
  <2> QED BY <1>2, <1>3, <2>2, SMTT(60)
<1>6. chain' = Tail(chain) /\ head' = chain[2] BY <1>5 DEF PopCas
<1>7. /\ chain' \in Seq(Nodes) /\ Len(chain') = Len(chain) - 1
      /\ \A i \in 1..(Len(chain) - 1) : chain'[i] = chain[i + 1]
  BY <1>4, <1>6, SMTT(60) DEF QueueType
<1>8. Last' = Last BY <1>4, <1>7, SMTT(60) DEF Last
<1>9. ASSUME NEW m PROVE InChain(m)' <=> InChain(m) /\ m # head
  <2>1. ASSUME NEW i \in 1..Len(chain'), chain'[i] = m PROVE InChain(m) /\ m # head
    <3>1. i + 1 \in 1..Len(chain) /\ 1 \in 1..Len(chain) /\ i + 1 # 1 /\ chain[i + 1] = m
      BY <1>4, <1>7, <2>1, SMTT(60)
    <3> QED BY <1>3, <3>1 DEF InChain, ChainOK
  <2>2. ASSUME NEW j \in 1..Len(chain), chain[j] = m, m # head PROVE InChain(m)'
    <3>1. j # 1 BY <1>3, <2>2
    <3>2. j - 1 \in 1..Len(chain') /\ j - 1 \in 1..(Len(chain) - 1) /\ (j - 1) + 1 = j
      BY <1>4, <1>7, <3>1, SMTT(60)
    <3>3. chain'[j - 1] = m BY <1>7, <2>2, <3>2
    <3> QED BY <3>2, <3>3 DEF InChain
  <2> QED BY <2>1, <2>2 DEF InChain
<1>10. Steps(t, "popTail", w[t].new, w[t].onto, w[t].nx, w[t].val)
  BY GotoSteps DEF PopCas, Points, Popped
<1> QED BY <1>1, <1>3, <1>4, <1>5, <1>6, <1>7, <1>8, <1>9, <1>10

\* The old sentinel leaves the chain and belongs to the thread that moved the head.
LEMMA PopCasInv ==
  ASSUME QueueInv, NEW t \in Threads, PopCas(t)
  PROVE  QueueInv'
<1> USE DEF QueueInv
<1>0. CASE head # w[t].onto BY <1>0, RetryInv DEF PopCas, At, nodeVars
<1>1. CASE head = w[t].onto
  <2>0. PICK h : h = head OBVIOUS
  <2>1. /\ w[t].pc = "popCas" /\ h = w[t].onto /\ h \in Nodes /\ h \in live /\ InChain(h)
        /\ UNCHANGED <<tail, next, data, live, waiters>>
    BY <1>1, <2>0, PopCasFacts, Ends
  <2>2. /\ Len(chain) \in Nat /\ Len(chain) >= 2
        /\ h = chain[1] /\ w[t].nx = chain[2] /\ head' = chain[2]
        /\ chain' \in Seq(Nodes) /\ Len(chain') = Len(chain) - 1
        /\ \A i \in 1..(Len(chain) - 1) : chain'[i] = chain[i + 1]
    BY <1>1, <2>0, PopCasFacts
  <2>3. Last' = Last /\ h # Last /\ \A m : InChain(m)' <=> InChain(m) /\ m # h
    BY <1>1, <2>0, PopCasFacts
  <2>4. Steps(t, "popTail", w[t].new, h, w[t].nx, w[t].val) BY <1>1, <2>0, PopCasFacts
  <2>5. QueueType'
    <3>1. head' \in Nodes BY <2>2, SMTT(60) DEF QueueType
    <3> QED BY <2>1, <2>2, <2>4, <3>1 DEF QueueType, Steps
  <2>6. ChainOK'
    <3>1. Len(chain') >= 1 /\ head' = chain'[1] BY <2>2, SMTT(60)
    <3>2. ASSUME NEW i \in 1..Len(chain') PROVE chain'[i] \in live'
      BY <2>1, <2>2, SMTT(60) DEF ChainOK
    <3>3. ASSUME NEW i \in 1..Len(chain'), NEW j \in 1..Len(chain'), chain'[i] = chain'[j]
          PROVE  i = j
      <4>1. i + 1 \in 1..Len(chain) /\ j + 1 \in 1..Len(chain) /\ chain[i + 1] = chain[j + 1]
        BY <2>2, <3>3, SMTT(60)
      <4>2. i + 1 = j + 1 BY <4>1 DEF ChainOK
      <4> QED BY <4>2, SMTT(60)
    <3>4. ASSUME NEW i \in 1..(Len(chain') - 1) PROVE next'[chain'[i]] = chain'[i + 1]
      <4>1. i + 1 \in 1..(Len(chain) - 1) /\ i \in 1..(Len(chain) - 1) BY <2>2, SMTT(60)
      <4>2. next[chain[i + 1]] = chain[(i + 1) + 1] BY <4>1 DEF ChainOK
      <4> QED BY <2>1, <2>2, <4>1, <4>2
    <3>5. next'[Last'] = Null BY <2>1, <2>3, Ends
    <3> QED BY <3>1, <3>2, <3>3, <3>4, <3>5 DEF ChainOK
  <2>7. \A s \in Threads, m \in Nodes : Owns(s, m)' => (s # t /\ Owns(s, m)) \/ (s = t /\ m = h)
    BY <2>4 DEF Owns, Steps, Pushing, Popped
  <2>8. \A s \in Threads : w'[s].pc \in Pushing => w'[s] = w[s] BY <2>4 DEF Steps, Pushing
  <2>9. Ownership'
    <3>1. \A s \in Threads, m \in Nodes : Owns(s, m)' => m \in live' /\ ~ InChain(m)'
      BY <2>1, <2>3, <2>7 DEF Ownership
    <3>2. \A s, u \in Threads, m \in Nodes : Owns(s, m)' /\ Owns(u, m)' => s = u
      BY <2>1, <2>7 DEF Ownership
    <3> QED BY <2>1, <2>8, <3>1, <3>2 DEF Ownership
  <2>10. TailOK'
    <3>1. tail' = Last' \/ next'[tail'] = Last' BY <2>1, <2>3 DEF TailOK
    <3>2. InChain(tail)' \/ \E s \in Threads : w'[s].pc \in {"popTail", "popSwing"} /\ tail' = w'[s].onto
      <4>1. CASE tail = h
        <5>1. w'[t].pc = "popTail" /\ tail' = w'[t].onto BY <2>1, <2>4, <4>1 DEF Steps
        <5> QED BY <5>1
      <4>2. CASE InChain(tail) /\ tail # h
        <5>1. InChain(tail)' BY <2>1, <2>3, <4>2
        <5> QED BY <5>1
      <4>3. ASSUME NEW s \in Threads, w[s].pc \in {"popTail", "popSwing"}, tail = w[s].onto
            PROVE  w'[s].pc \in {"popTail", "popSwing"} /\ tail' = w'[s].onto
        BY <2>1, <2>4, <4>3 DEF Steps
      <4> QED BY <4>1, <4>2, <4>3 DEF TailOK
    <3>3. \A s \in Threads : w'[s].pc = "popRead" => w'[s] = w[s] BY <2>4 DEF Steps
    <3> QED BY <2>1, <3>1, <3>2, <3>3 DEF TailOK, At
  <2>11. ASSUME NEW s \in Threads, NEW m, Held(s, m) PROVE Held(s, m)'
    BY <2>1, <2>3, <2>8, <2>11 DEF Held, Safe
  <2>12. ASSUME NEW s \in Threads PROVE Knows(s)'
    <3>1. CASE s = t
      <4>1. Held(t, h) /\ next[h] = w[t].nx /\ w[t].nx # Null /\ w[t].val = None
        BY <2>1 DEF Knows, Points
      <4>2. Held(t, h)' BY <2>11, <4>1
      <4>3. w'[t].pc = "popTail" /\ w'[t].onto = h /\ w'[t].nx = w[t].nx /\ w'[t].val = None
        BY <2>4, <4>1 DEF Steps
      <4> QED BY <2>1, <3>1, <4>1, <4>2, <4>3 DEF Knows, At
    <3>2. CASE s # t
      <4>1. w'[s] = w[s] /\ Knows(s) BY <2>4, <3>2 DEF Steps
      <4>2. PICK o : o = w[s].onto OBVIOUS
      <4>3. Held(s, o) => Held(s, o)' BY <2>11
      <4> QED BY <2>0, <2>1, <2>3, <4>1, <4>2, <4>3 DEF Knows, At
    <3> QED BY <3>1, <3>2
  <2> QED BY <2>5, <2>6, <2>9, <2>10, <2>12
<1> QED BY <1>0, <1>1

\* The old sentinel is retired; whoever still holds it is pinned and waited for.
LEMMA PopReadInv ==
  ASSUME QueueInv, NEW t \in Threads, PopRead(t)
  PROVE  QueueInv'
<1> USE DEF QueueInv
<1>0. PICK o : o = w[t].onto OBVIOUS
<1>1. w[t].pc = "popRead" /\ UNCHANGED <<head, tail, next, data, chain>> BY DEF PopRead, At
<1>2. Held(t, o) /\ o \in Nodes /\ next[o] = w[t].nx /\ w[t].nx # Null
  BY <1>0, <1>1 DEF Knows, Held, Points, Popped
<1>3. w[t].nx \in Nodes BY <1>2 DEF QueueType, Pointers
<1>4. Owns(t, o) /\ o \in live /\ ~ InChain(o) BY <1>0, <1>1, <1>2 DEF Owns, Popped, Ownership
<1>5. o # tail BY <1>0, <1>1 DEF TailOK, At
<1>6. Steps(t, "ret", w[t].new, o, w[t].nx, data[w[t].nx]) BY <1>0, <1>3, PopReadSteps
<1>7. /\ live' = live \ {o}
      /\ waiters' \in [Nodes -> SUBSET Threads]
      /\ \A m \in Nodes : m # o => waiters'[m] = waiters[m]
      /\ waiters'[o] = Pinned
  <2>1. live' = live \ {o} /\ waiters' = [waiters EXCEPT ![o] = Pinned] BY <1>0 DEF PopRead
  <2>2. Pinned \subseteq Threads BY DEF Pinned
  <2> QED BY <1>2, <2>1, <2>2 DEF QueueType
<1>8. Last' = Last /\ \A m : InChain(m)' <=> InChain(m) BY <1>1 DEF Last, InChain
<1>9. QueueType' BY <1>1, <1>6, <1>7 DEF QueueType, Steps
<1>10. ChainOK'
  <2>1. \A i \in 1..Len(chain) : chain[i] # o BY <1>4 DEF InChain
  <2> QED BY <1>1, <1>7, <1>8, <2>1 DEF ChainOK
<1>11. \A s \in Threads, m \in Nodes : Owns(s, m)' => s # t /\ Owns(s, m)
  BY <1>6 DEF Owns, Steps, Pushing, Popped
<1>12. \A s \in Threads : w'[s].pc \in Pushing => w'[s] = w[s] BY <1>6 DEF Steps, Pushing
<1>13. Ownership'
  <2>1. \A s \in Threads, m \in Nodes : Owns(s, m)' => m # o BY <1>4, <1>11 DEF Ownership
  <2>2. \A s \in Threads, m \in Nodes : Owns(s, m)' => m \in live' /\ ~ InChain(m)'
    BY <1>7, <1>8, <1>11, <2>1 DEF Ownership
  <2>3. \A s, u \in Threads, m \in Nodes : Owns(s, m)' /\ Owns(u, m)' => s = u
    BY <1>11 DEF Ownership
  <2> QED BY <1>1, <1>12, <2>2, <2>3 DEF Ownership
<1>14. TailOK'
  <2>1. \A s \in Threads : w[s].pc \in {"popTail", "popSwing"} => w'[s] = w[s]
    BY <1>1, <1>6 DEF Steps
  <2>2. \A s \in Threads : w'[s].pc = "popRead" => w'[s] = w[s] BY <1>6 DEF Steps
  <2>3. InChain(tail)' \/ \E s \in Threads : w'[s].pc \in {"popTail", "popSwing"} /\ tail' = w'[s].onto
    BY <1>1, <1>8, <2>1 DEF TailOK
  <2> QED BY <1>1, <1>8, <2>2, <2>3 DEF TailOK, At
<1>15. ASSUME NEW s \in Threads PROVE Knows(s)'
  <2>1. CASE s = t BY <1>6, <2>1 DEF Steps, Knows, At, Popped
  <2>2. CASE s # t
    <3>1. w'[s] = w[s] /\ Knows(s) BY <1>6, <2>2 DEF Steps
    <3>2. PICK p : p = w[s].onto OBVIOUS
    <3>3. ASSUME Held(s, p), w[s].pc # "idle" PROVE Held(s, p)'
      <4>1. s \in Pinned BY <3>3 DEF Pinned, At
      <4>2. \A k \in Nodes : Safe(s, k) => Safe(s, k)' BY <1>7, <4>1 DEF Safe
      <4>3. \A u \in Threads : w'[u].pc \in Pushing => p # w'[u].new
        BY <1>12, <3>3 DEF Held
      <4>4. p \in Nodes /\ (next[p] # Null => next[p] \in Nodes)
        BY <3>3 DEF Held, QueueType, Pointers
      <4> QED BY <1>1, <1>8, <3>3, <4>2, <4>3, <4>4 DEF Held
    <3> QED BY <1>1, <1>8, <3>1, <3>2, <3>3 DEF Knows, At
  <2> QED BY <2>1, <2>2
<1> QED BY <1>9, <1>10, <1>13, <1>14, <1>15
-----------------------------------------------------------------------------
\* A new queue satisfies the invariant, and every step keeps it.
LEMMA QueueInitInv == Init => QueueInv
<1> SUFFICES ASSUME Init PROVE QueueInv OBVIOUS
<1>1. PICK s \in Nodes :
        /\ head = s /\ tail = s
        /\ next = [n \in Nodes |-> Null]
        /\ data = [n \in Nodes |-> None]
        /\ live = {s}
        /\ waiters = [n \in Nodes |-> {}]
        /\ w = [t \in Threads |-> Quiet]
        /\ chain = <<s>>
  BY DEF Init
<1>2. Quiet \in Locals /\ Quiet.pc = "idle" /\ Quiet.val = None
  BY DEF Quiet, Locals, Points, Pointers
<1>3. chain \in Seq(Nodes) /\ Len(chain) = 1 /\ chain[1] = s BY <1>1, SMTT(60)
<1>4. QueueType BY <1>1, <1>2, <1>3 DEF QueueType, Pointers
<1>5. ChainOK /\ TailOK BY <1>1, <1>2, <1>3, SMTT(60) DEF ChainOK, TailOK, Last, InChain, At
<1>6. Ownership /\ \A t \in Threads : Knows(t)
  BY <1>1, <1>2 DEF Ownership, Owns, Knows, Pushing, Popped, At
<1> QED BY <1>4, <1>5, <1>6 DEF QueueInv

LEMMA QueueStepInv == QueueInv /\ [Next]_vars => QueueInv'
<1> SUFFICES ASSUME QueueInv, [Next]_vars PROVE QueueInv' OBVIOUS
<1>1. CASE UNCHANGED vars
  <2>1. Last' = Last /\ \A m : InChain(m)' <=> InChain(m) BY <1>1 DEF vars, Last, InChain
  <2>2. QueueType' /\ ChainOK' BY <1>1, <2>1 DEF vars, QueueInv, QueueType, ChainOK
  <2>3. Ownership' /\ TailOK' BY <1>1, <2>1 DEF vars, QueueInv, Ownership, Owns, TailOK, At
  <2>4. \A t \in Threads : Knows(t)'
    BY <1>1, <2>1 DEF vars, QueueInv, Knows, Held, Safe, At
  <2> QED BY <2>2, <2>3, <2>4 DEF QueueInv
<1>2. CASE Next
  BY <1>2, PushInv, PopInv, LoadTailInv, LoadNextInv, HelpInv, LinkInv, SwingInv, PopLoadHeadInv,
     PopLoadNextInv, PopCasInv, PopLoadTailInv, PopSwingInv, PopReadInv, RetInv DEF Next, Step
<1> QED BY <1>1, <1>2

\* pop_internal retires the old sentinel only once the tail has left it, so that neither the
\* head, nor the tail, nor a link ever leads to a retired node.
THEOREM ReachableStaysLive == Spec => []ReachableIsLive
<1>1. QueueInv => ReachableIsLive
  <2> SUFFICES ASSUME QueueInv PROVE ReachableIsLive OBVIOUS
  <2>1. tail \in live
    BY Ends DEF QueueInv, QueueType, TailOK, Ownership, Owns, Popped
  <2>2. DOMAIN chain = 1..Len(chain) BY SMTT(60) DEF QueueInv, QueueType
  <2> QED BY <2>1, <2>2 DEF QueueInv, ChainOK, ReachableIsLive
<1> QED BY <1>1, QueueInitInv, QueueStepInv, PTL DEF Spec

\* No node is dereferenced after it was freed: a pointer that was loaded while pinned stays
\* good until the thread unpins, wherever the other threads are, and addresses may be reused.
THEOREM QueueNoUseAfterFree == Spec => []NoUseAfterFree
<1>1. QueueInv => NoUseAfterFree
  <2> SUFFICES ASSUME QueueInv, NEW t \in Threads
               PROVE  /\ w[t].pc \in {"next", "link", "popNext"} => w[t].onto \notin Free
                      /\ w[t].pc = "popRead" => w[t].nx \notin Free
    BY DEF NoUseAfterFree, At
  <2>1. \A n \in Free : ~ Safe(t, n) BY DEF Free, Safe
  <2>2. w[t].pc \in {"next", "link", "popNext"} => w[t].onto \notin Free
    BY <2>1 DEF QueueInv, Knows, Held, Points, Pushing
  <2>3. w[t].pc = "popRead" => w[t].nx \notin Free
    BY <2>1 DEF QueueInv, Knows, Held, Points, Popped
  <2> QED BY <2>2, <2>3
<1> QED BY <1>1, QueueInitInv, QueueStepInv, PTL DEF Spec

-----------------------------------------------------------------------------
(* The queue implements Fifo.                                               *)

Calls == [t \in Threads |-> CallOf(t)]
Cells == Values \cup {None}

\* What the caller sees, by where the call is.
LEMMA CallAt ==
  ASSUME NEW t \in Threads
  PROVE  /\ w[t].pc = "idle" => CallOf(t) = [op |-> "none", val |-> None]
         /\ w[t].pc \in Pushing => CallOf(t) = [op |-> "push", val |-> data[w[t].new]]
         /\ w[t].pc \in {"popHead", "popNext", "popCas"} => CallOf(t) = [op |-> "pop", val |-> None]
         /\ w[t].pc \in Popped => CallOf(t) = [op |-> "done", val |-> data[w[t].nx]]
         /\ w[t].pc \in {"swing", "ret"} => CallOf(t) = [op |-> "done", val |-> w[t].val]
BY DEF CallOf, At, Pushing, Popped

\* The step of t does not show in the calls of the others.
LEMMA OtherCalls ==
  ASSUME NEW t \in Threads, NEW c, CallOf(t)' = c,
         \A s \in Threads : s # t => CallOf(s)' = CallOf(s)
  PROVE  Calls' = [Calls EXCEPT ![t] = c]
BY DEF Calls

\* The same when no value is written.
LEMMA SameCall ==
  ASSUME NEW t \in Threads, NEW p, NEW n, NEW o, NEW x, NEW v, Steps(t, p, n, o, x, v), data' = data,
         NEW c, CallOf(t)' = c
  PROVE  Calls' = [Calls EXCEPT ![t] = c]
<1>1. ASSUME NEW s \in Threads, s # t PROVE CallOf(s)' = CallOf(s)
  <2>1. w'[s] = w[s] BY <1>1 DEF Steps
  <2> QED BY <2>1 DEF CallOf, At
<1> QED BY <1>1, OtherCalls

ItemsOK ==
  /\ Items \in Seq(Cells) /\ Len(Items) = Len(chain) - 1
  /\ \A i \in 1..(Len(chain) - 1) : Items[i] = data[chain[i + 1]]

\* The values in the queue are those of the nodes after the sentinel.
LEMMA ItemsType == QueueInv => ItemsOK
<1> SUFFICES ASSUME QueueInv PROVE ItemsOK OBVIOUS
<1>1. Len(chain) - 1 \in Nat BY Ends, SMTT(60)
<1>2. \A i \in 1..(Len(chain) - 1) : data[chain[i + 1]] \in Cells
  BY Ends, SMTT(60) DEF QueueInv, QueueType, Cells
<1>3. Items \in [1..(Len(chain) - 1) -> Cells] BY <1>2 DEF Items
<1>4. Items \in Seq(Cells) BY <1>1, <1>3, SeqDef
<1>5. Len(Items) \in Nat /\ 1..Len(Items) = 1..(Len(chain) - 1) BY <1>3, <1>4, LenProperties
<1>6. Len(Items) = Len(chain) - 1 BY <1>1, <1>5, SMTT(60)
<1> QED BY <1>4, <1>6 DEF Items, ItemsOK

\* They change only with the chain, whatever is written to nodes not linked yet.
LEMMA SameItems ==
  ASSUME QueueInv, UNCHANGED chain, \A n : InChain(n) => data'[n] = data[n]
  PROVE  Items' = Items
<1>1. \A i \in 1..(Len(chain) - 1) : data'[chain[i + 1]] = data[chain[i + 1]]
  BY Ends, SMTT(60) DEF InChain
<1> QED BY <1>1 DEF Items

\* The steps that change nothing of what the callers see.
LEMMA HiddenStep ==
  ASSUME QueueInv, NEW t \in Threads,
         \/ LoadTail(t) \/ LoadNext(t) \/ Help(t) \/ Swing(t)
         \/ PopLoadHead(t) \/ PopLoadTail(t) \/ PopSwing(t) \/ PopRead(t)
         \/ Link(t) /\ next[w[t].onto] # Null
         \/ PopLoadNext(t) /\ next[w[t].onto] # Null
         \/ PopCas(t) /\ head # w[t].onto
  PROVE  UNCHANGED <<Items, Calls>>
<1> USE DEF QueueInv
<1>1. data' = data /\ chain' = chain
  BY DEF LoadTail, LoadNext, Help, Swing, PopLoadHead, PopLoadTail, PopSwing, PopRead, Link,
         PopLoadNext, PopCas, nodeVars
<1>2. Items' = Items BY <1>1, SameItems
<1>3. w[t].pc \in Points \ {"idle", "tail", "popHead", "ret"} => w[t].onto \in Nodes
  BY DEF Knows, Held
<1>4. Calls' = [Calls EXCEPT ![t] = CallOf(t)]
  <2>0. PICK c : c = CallOf(t) OBVIOUS
  <2>1. CASE LoadTail(t)
    <3>1. Steps(t, "next", w[t].new, tail, w[t].nx, w[t].val) /\ w[t].pc = "tail"
      BY <2>1, LoadTailSteps DEF LoadTail, At
    <3>2. CallOf(t)' = c BY <1>1, <2>0, <3>1, CallAt DEF Steps, CallOf, At, Pushing
    <3> QED BY <1>1, <2>0, <3>1, <3>2, SameCall
  <2>2. CASE LoadNext(t)
    <3>1. w[t].pc = "next" BY <2>2 DEF LoadNext, At
    <3>2. Steps(t, IF next[w[t].onto] = Null THEN "link" ELSE "help", w[t].new, w[t].onto,
                next[w[t].onto], w[t].val)
      BY <1>3, <2>2, <3>1, LoadNextSteps DEF Points, Pushing
    <3>3. CallOf(t)' = c BY <1>1, <2>0, <3>1, <3>2 DEF Steps, CallOf, At
    <3> QED BY <1>1, <2>0, <3>2, <3>3, SameCall
  <2>3. CASE PopLoadHead(t)
    <3>1. Steps(t, "popNext", w[t].new, head, w[t].nx, w[t].val) /\ w[t].pc = "popHead"
      BY <2>3, PopLoadHeadSteps DEF PopLoadHead, At
    <3>2. CallOf(t)' = c BY <1>1, <2>0, <3>1 DEF Steps, CallOf, At
    <3> QED BY <1>1, <2>0, <3>1, <3>2, SameCall
  <2>4. CASE PopLoadNext(t) /\ next[w[t].onto] # Null
    <3>1. w[t].pc = "popNext" BY <2>4 DEF PopLoadNext, At
    <3>2. Steps(t, "popCas", w[t].new, w[t].onto, next[w[t].onto], w[t].val)
      BY <1>3, <2>4, <3>1, PopLoadNextSteps DEF Points
    <3>3. CallOf(t)' = c BY <1>1, <2>0, <3>1, <3>2 DEF Steps, CallOf, At
    <3> QED BY <1>1, <2>0, <3>2, <3>3, SameCall
  <2>5. CASE PopRead(t)
    <3>1. w[t].pc = "popRead" BY <2>5 DEF PopRead, At
    <3>2. w[t].nx \in Nodes BY <1>3, <3>1 DEF Knows, QueueType, Pointers, Points, Popped
    <3>3. Steps(t, "ret", w[t].new, w[t].onto, w[t].nx, data[w[t].nx])
      BY <2>5, <3>2, PopReadSteps
    <3>4. CallOf(t)' = c BY <1>1, <2>0, <3>1, <3>3 DEF Steps, CallOf, At
    <3> QED BY <1>1, <2>0, <3>3, <3>4, SameCall
  <2>6. ASSUME NEW p \in Points, Goto(t, p),
               \/ w[t].pc \in Pushing /\ p \in Pushing
               \/ w[t].pc \in Popped /\ p \in Popped
               \/ w[t].pc = "swing" /\ p = "ret"
               \/ w[t].pc = "popCas" /\ p = "popHead"
        PROVE  Calls' = [Calls EXCEPT ![t] = CallOf(t)]
    <3>1. Steps(t, p, w[t].new, w[t].onto, w[t].nx, w[t].val) BY <2>6, GotoSteps
    <3>2. CallOf(t)' = c BY <1>1, <2>0, <2>6, <3>1 DEF Steps, CallOf, At, Pushing, Popped
    <3> QED BY <1>1, <2>0, <3>1, <3>2, SameCall
  <2>7. CASE Help(t) \/ (Link(t) /\ next[w[t].onto] # Null)
    BY <2>6, <2>7 DEF Help, Link, At, Points, Pushing
  <2>8. CASE Swing(t) BY <2>6, <2>8 DEF Swing, At, Points
  <2>9. CASE PopLoadTail(t) \/ PopSwing(t)
    BY <2>6, <2>9 DEF PopLoadTail, PopSwing, At, Points, Popped
  <2>10. CASE PopCas(t) /\ head # w[t].onto BY <2>6, <2>10 DEF PopCas, At, Points
  <2> QED BY <2>1, <2>2, <2>3, <2>4, <2>5, <2>7, <2>8, <2>9, <2>10
<1>5. Calls' = Calls BY <1>4 DEF Calls
<1> QED BY <1>2, <1>5
\* The steps at which a call begins, takes effect and ends.
LEMMA PushRefines ==
  ASSUME QueueInv, NEW t \in Threads, NEW v \in Values, Push(t, v)
  PROVE  Abs!CallPush(t, v)
<1> USE DEF QueueInv
<1>1. w[t].pc = "idle" /\ UNCHANGED <<chain, tail>> BY DEF Push, Call, At
<1>2. PICK n \in Free :
        /\ data' = [data EXCEPT ![n] = v]
        /\ w' = [w EXCEPT ![t] = [Quiet EXCEPT !.pc = "tail", !.new = n]]
  BY DEF Push
<1>3. n \in Nodes /\ ~ InChain(n) /\ (\A s \in Threads : ~ Owns(s, n))
      /\ (\A s \in Threads : \A m : Safe(s, m) => m # n)
  BY FreeIsApart
<1> DEFINE r == [Quiet EXCEPT !.pc = "tail", !.new = n]
<1>4. /\ w' = [w EXCEPT ![t] = r] /\ r \in Locals
      /\ r.pc = "tail" /\ r.new = n /\ r.onto = Null /\ r.nx = Null /\ r.val = None
  BY <1>2, <1>3 DEF Quiet, Locals, Points, Pointers, Pushing
<1> HIDE DEF r
<1>5. Steps(t, "tail", n, Null, Null, None) BY <1>4, StepsTo
<1>6. data'[n] = v /\ \A m \in Nodes : m # n => data'[m] = data[m] BY <1>2, <1>3 DEF QueueType
<1>7. Items' = Items
  <2>1. \A m : InChain(m) => data'[m] = data[m] BY <1>3, <1>6, Ends
  <2> QED BY <1>1, <2>1, SameItems
<1>8. CallOf(t) = [op |-> "none", val |-> None] BY <1>1, CallAt
<1>9. CallOf(t)' = [op |-> "push", val |-> v] BY <1>5, <1>6 DEF Steps, CallOf, At
<1>10. ASSUME NEW s \in Threads, s # t PROVE CallOf(s)' = CallOf(s)
  <2>1. w'[s] = w[s] BY <1>5, <1>10 DEF Steps
  <2>2. w[s].pc \in Pushing => data'[w[s].new] = data[w[s].new]
    BY <1>3, <1>6 DEF Ownership, Owns
  <2>3. w[s].pc \in Popped => data'[w[s].nx] = data[w[s].nx]
    <3> HAVE w[s].pc \in Popped
    <3>1. Held(s, w[s].onto) /\ next[w[s].onto] = w[s].nx /\ w[s].nx # Null
      BY DEF Knows, Points, Popped
    <3>2. w[s].nx \in Nodes /\ Safe(s, w[s].nx) BY <3>1 DEF Held, QueueType, Pointers
    <3> QED BY <1>3, <1>6, <3>2
  <2> QED BY <2>1, <2>2, <2>3 DEF CallOf, At, Pushing, Popped
<1>11. Calls' = [Calls EXCEPT ![t] = [op |-> "push", val |-> v]] BY <1>9, <1>10, OtherCalls
<1> QED BY <1>7, <1>8, <1>11 DEF Calls, Abs!CallPush, Abs!NoCall, Abs!Become

LEMMA PopRefines ==
  ASSUME QueueInv, NEW t \in Threads, Pop(t)
  PROVE  Abs!CallPop(t)
<1> USE DEF QueueInv
<1>1. w[t].pc = "idle" /\ UNCHANGED <<data, chain>> BY DEF Pop, Call, At, nodeVars
<1> DEFINE r == [Quiet EXCEPT !.pc = "popHead"]
<1>2. /\ w' = [w EXCEPT ![t] = r] /\ r \in Locals
      /\ r.pc = "popHead" /\ r.new = Null /\ r.onto = Null /\ r.nx = Null /\ r.val = None
  BY DEF Pop, Quiet, Locals, Points, Pointers
<1> HIDE DEF r
<1>3. Steps(t, "popHead", Null, Null, Null, None) BY <1>2, StepsTo
<1>4. CallOf(t)' = [op |-> "pop", val |-> None] BY <1>3 DEF Steps, CallOf, At
<1>5. Calls' = [Calls EXCEPT ![t] = [op |-> "pop", val |-> None]] BY <1>1, <1>3, <1>4, SameCall
<1>6. Items' = Items BY <1>1, SameItems
<1>7. CallOf(t) = [op |-> "none", val |-> None] BY <1>1, CallAt
<1> QED BY <1>5, <1>6, <1>7 DEF Calls, Abs!CallPop, Abs!NoCall, Abs!Become

LEMMA RetRefines ==
  ASSUME QueueInv, NEW t \in Threads, Ret(t)
  PROVE  Abs!Ret(t)
<1> USE DEF QueueInv
<1>1. w[t].pc = "ret" /\ UNCHANGED <<data, chain>> BY DEF Ret, At
<1>2. Quiet \in Locals /\ w' = [w EXCEPT ![t] = Quiet] BY DEF Ret, Quiet, Locals, Points, Pointers
<1>3. Steps(t, "idle", Null, Null, Null, None) BY <1>2, StepsTo DEF Quiet
<1>4. CallOf(t)' = [op |-> "none", val |-> None] BY <1>3 DEF Steps, CallOf, At
<1>5. Calls' = [Calls EXCEPT ![t] = [op |-> "none", val |-> None]] BY <1>1, <1>3, <1>4, SameCall
<1>6. Items' = Items BY <1>1, SameItems
<1>7. CallOf(t).op = "done" BY <1>1, CallAt, SMTT(60)
<1> QED BY <1>5, <1>6, <1>7 DEF Calls, Abs!Ret, Abs!NoCall

\* A push takes effect with the CAS that links its node.
LEMMA LinkRefines ==
  ASSUME QueueInv, QueueInv', NEW t \in Threads, Link(t), next[w[t].onto] = Null
  PROVE  Abs!DoPush(t)
<1> USE DEF QueueInv
<1> DEFINE n == w[t].new
<1>1. /\ w[t].pc = "link" /\ n \in Nodes /\ data' = data
      /\ Len(chain') = Len(chain) + 1
      /\ \A i \in 1..Len(chain) : chain'[i] = chain[i]
      /\ chain'[Len(chain) + 1] = n
      /\ Steps(t, "swing", n, w[t].onto, w[t].nx, w[t].val)
  BY LinkFacts
<1>2. CallOf(t) = [op |-> "push", val |-> data[n]] BY <1>1, CallAt DEF Pushing
<1>3. w[t].val = None BY <1>1 DEF Knows
<1>4. CallOf(t)' = [op |-> "done", val |-> None] BY <1>1, <1>3 DEF Steps, CallOf, At
<1>5. Calls' = [Calls EXCEPT ![t] = [op |-> "done", val |-> None]] BY <1>1, <1>4, SameCall
<1>6. Items' = Append(Items, data[n])
  <2>1. /\ Items \in Seq(Cells) /\ Len(Items) = Len(chain) - 1
        /\ \A i \in 1..(Len(chain) - 1) : Items[i] = data[chain[i + 1]]
    BY ItemsType DEF ItemsOK
  <2>2. /\ Items' \in Seq(Cells) /\ Len(Items') = Len(chain') - 1
        /\ \A i \in 1..(Len(chain') - 1) : Items'[i] = data'[chain'[i + 1]]
    <3>1. ItemsOK' BY ItemsType, PTL
    <3> QED BY <3>1 DEF ItemsOK
  <2>3. data[n] \in Cells BY <1>1 DEF QueueType, Cells
  <2> DEFINE a == Append(Items, data[n])
  <2>4. /\ a \in Seq(Cells) /\ Len(a) = Len(Items) + 1
        /\ \A i \in 1..Len(Items) : a[i] = Items[i]
        /\ a[Len(Items) + 1] = data[n]
    BY <2>1, <2>3, AppendProperties, SMTT(60)
  <2> HIDE DEF a
  <2>5. Len(chain) \in Nat \ {0} BY Ends
  <2>6. Len(Items') = Len(a) BY <1>1, <2>1, <2>2, <2>4, <2>5, SMTT(60)
  <2>7. ASSUME NEW i \in 1..Len(Items') PROVE Items'[i] = a[i]
    <3>1. i \in 1..Len(chain) /\ Items'[i] = data[chain'[i + 1]] BY <1>1, <2>2, <2>5, SMTT(60), Z3T(60)
    <3>2. CASE i = Len(chain) BY <1>1, <2>1, <2>4, <2>5, <3>1, <3>2, SMTT(60)
    <3>3. CASE i # Len(chain)
      <4>1. i \in 1..(Len(chain) - 1) /\ i + 1 \in 1..Len(chain) /\ i \in 1..Len(Items)
        BY <2>1, <2>5, <3>1, <3>3, SMTT(60)
      <4> QED BY <1>1, <2>1, <2>4, <3>1, <4>1
    <3> QED BY <3>2, <3>3
  <2>8. Items' = a BY <2>2, <2>4, <2>6, <2>7, SeqEqual
  <2> QED BY <2>8 DEF a
<1> QED BY <1>2, <1>5, <1>6, SMTT(60) DEF Calls, Abs!DoPush, Abs!Become

\* A try_pop takes effect with the CAS that moves the head.
LEMMA PopCasRefines ==
  ASSUME QueueInv, QueueInv', NEW t \in Threads, PopCas(t), head = w[t].onto
  PROVE  Abs!DoPop(t)
<1> USE DEF QueueInv
<1>1. /\ w[t].pc = "popCas" /\ data' = data
      /\ Len(chain) \in Nat /\ Len(chain) >= 2 /\ w[t].nx = chain[2]
      /\ Len(chain') = Len(chain) - 1
      /\ \A i \in 1..(Len(chain) - 1) : chain'[i] = chain[i + 1]
      /\ Steps(t, "popTail", w[t].new, w[t].onto, w[t].nx, w[t].val)
  BY PopCasFacts
<1>2. /\ Items \in Seq(Cells) /\ Len(Items) = Len(chain) - 1
      /\ \A i \in 1..(Len(chain) - 1) : Items[i] = data[chain[i + 1]]
  BY ItemsType DEF ItemsOK
<1>3. /\ Items' \in Seq(Cells) /\ Len(Items') = Len(chain') - 1
      /\ \A i \in 1..(Len(chain') - 1) : Items'[i] = data'[chain'[i + 1]]
  <2>1. ItemsOK' BY ItemsType, PTL
  <2> QED BY <2>1 DEF ItemsOK
<1>4. CallOf(t).op = "pop" BY <1>1, CallAt, SMTT(60), Z3T(60)
<1>5. Items # <<>> /\ Head(Items) = data[w[t].nx]
  <2>1. Items # <<>> BY <1>1, <1>2, SMTT(60)
  <2>2. Head(Items) = Items[1] BY <1>2, <2>1, SMTT(60)
  <2>3. 1 \in 1..(Len(chain) - 1) BY <1>1, SMTT(60)
  <2>4. Items[1] = data[chain[1 + 1]] BY <1>2, <2>3
  <2> QED BY <1>1, <2>1, <2>2, <2>4, SMTT(60)
<1>6. CallOf(t)' = [op |-> "done", val |-> data[w[t].nx]] BY <1>1 DEF Steps, CallOf, At
<1>7. Calls' = [Calls EXCEPT ![t] = [op |-> "done", val |-> Head(Items)]]
  BY <1>1, <1>5, <1>6, SameCall
<1>8. Items' = Tail(Items)
  <2> DEFINE a == Tail(Items)
  <2>1. a \in Seq(Cells) /\ Len(a) = Len(Items) - 1 /\ \A i \in 1..Len(a) : a[i] = Items[i + 1]
    BY <1>2, <1>5, HeadTailProperties
  <2> HIDE DEF a
  <2>2. Len(Items') = Len(a) BY <1>1, <1>2, <1>3, <2>1
  <2>3. ASSUME NEW i \in 1..Len(Items') PROVE Items'[i] = a[i]
    <3>1. i \in 1..(Len(chain') - 1) /\ i + 1 \in 1..(Len(chain) - 1) BY <1>1, <1>3, SMTT(60)
    <3>2. Items'[i] = data[chain'[i + 1]] BY <1>1, <1>3, <3>1
    <3>3. chain'[i + 1] = chain[(i + 1) + 1] BY <1>1, <3>1
    <3>4. Items[i + 1] = data[chain[(i + 1) + 1]] BY <1>2, <3>1
    <3> QED BY <2>1, <2>2, <3>2, <3>3, <3>4
  <2>4. Items' = a BY <1>3, <2>1, <2>2, <2>3, SeqEqual
  <2> QED BY <2>4 DEF a
<1> QED BY <1>4, <1>5, <1>7, <1>8 DEF Calls, Abs!DoPop, Abs!Become

\* A null next pointer means that the node loaded from the head is still the only one.
LEMMA PopEmptyRefines ==
  ASSUME QueueInv, NEW t \in Threads, PopLoadNext(t), next[w[t].onto] = Null
  PROVE  Abs!DoPopEmpty(t)
<1> USE DEF QueueInv
<1>1. w[t].pc = "popNext" /\ UNCHANGED <<data, chain>> BY DEF PopLoadNext, At, nodeVars
<1>2. w[t].onto \in Nodes /\ w[t].onto = Last /\ w[t].onto = head
  BY <1>1, Ends DEF Knows, Held, Points
<1>3. Steps(t, "ret", w[t].new, w[t].onto, next[w[t].onto], w[t].val)
  BY <1>2, PopLoadNextSteps
<1>4. Len(chain) = 1
  <2>1. Len(chain) \in 1..Len(chain) /\ 1 \in 1..Len(chain) BY Ends, SMTT(60)
  <2>2. chain[Len(chain)] = chain[1] BY <1>2 DEF Last, ChainOK
  <2> QED BY <2>1, <2>2 DEF ChainOK
<1>5. Items = <<>> BY <1>4, ItemsType, SMTT(60) DEF ItemsOK
<1>6. CallOf(t).op = "pop" BY <1>1, CallAt, SMTT(60)
<1>7. w[t].val = None BY <1>1 DEF Knows
<1>8. CallOf(t)' = [op |-> "done", val |-> None] BY <1>3, <1>7 DEF Steps, CallOf, At
<1>9. Calls' = [Calls EXCEPT ![t] = [op |-> "done", val |-> None]] BY <1>1, <1>3, <1>8, SameCall
<1>10. Items' = Items BY <1>1, SameItems
<1> QED BY <1>5, <1>6, <1>9, <1>10 DEF Calls, Abs!DoPopEmpty, Abs!Become

LEMMA FifoInitRefines == Init => Abs!FifoInit
<1> SUFFICES ASSUME Init PROVE Abs!FifoInit OBVIOUS
<1>1. QueueInv /\ Len(chain) = 1 BY QueueInitInv DEF Init
<1>2. Items = <<>> BY <1>1, ItemsType, SMTT(60) DEF ItemsOK
<1>3. \A t \in Threads : CallOf(t) = [op |-> "none", val |-> None]
  <2>1. Quiet.pc = "idle" BY DEF Quiet
  <2>2. \A t \in Threads : w[t].pc = "idle" BY <2>1 DEF Init
  <2> QED BY <2>2, CallAt
<1> QED BY <1>2, <1>3 DEF Abs!FifoInit, Abs!NoCall

\* Every step is a step of Fifo or does not show.
LEMMA FifoStepRefines ==
  ASSUME QueueInv, QueueInv', [Next]_vars
  PROVE  [Abs!FifoNext]_(Abs!fifoVars)
<1>1. CASE UNCHANGED vars
  <2>1. Items' = Items BY <1>1 DEF vars, Items
  <2>2. \A t \in Threads : CallOf(t)' = CallOf(t) BY <1>1 DEF vars, CallOf, At
  <2> QED BY <2>1, <2>2 DEF Abs!fifoVars
<1>2. ASSUME NEW t \in Threads, UNCHANGED <<Items, Calls>> PROVE UNCHANGED Abs!fifoVars
  BY <1>2 DEF Calls, Abs!fifoVars
<1>3. ASSUME NEW t \in Threads,
             \/ \E v \in Values : Push(t, v)
             \/ Pop(t)
             \/ Step(t)
      PROVE  [Abs!FifoNext]_(Abs!fifoVars)
  <2>1. CASE \E v \in Values : Push(t, v) BY <2>1, PushRefines DEF Abs!FifoNext
  <2>2. CASE Pop(t) BY <2>2, PopRefines DEF Abs!FifoNext
  <2>3. CASE Ret(t) BY <2>3, RetRefines DEF Abs!FifoNext
  <2>4. CASE Link(t) /\ next[w[t].onto] = Null BY <2>4, LinkRefines DEF Abs!FifoNext
  <2>5. CASE PopCas(t) /\ head = w[t].onto BY <2>5, PopCasRefines DEF Abs!FifoNext
  <2>6. CASE PopLoadNext(t) /\ next[w[t].onto] = Null BY <2>6, PopEmptyRefines DEF Abs!FifoNext
  <2>7. CASE \/ LoadTail(t) \/ LoadNext(t) \/ Help(t) \/ Swing(t)
             \/ PopLoadHead(t) \/ PopLoadTail(t) \/ PopSwing(t) \/ PopRead(t)
             \/ Link(t) /\ next[w[t].onto] # Null
             \/ PopLoadNext(t) /\ next[w[t].onto] # Null
             \/ PopCas(t) /\ head # w[t].onto
    BY <1>2, <2>7, HiddenStep
  <2> QED BY <1>3, <2>1, <2>2, <2>3, <2>4, <2>5, <2>6, <2>7 DEF Step
<1> QED BY <1>1, <1>3 DEF Next

\* Queue<T> is linearizable: every push and try_pop takes effect at one instant between its
\* call and its return, in first-in first-out order, and None is returned only for a queue
\* that was empty, for any number of threads and calls.
THEOREM ImplementsFifo == Spec => IsFifo
<1>1. QueueInv /\ QueueInv' /\ [Next]_vars => [Abs!FifoNext]_(Abs!fifoVars) BY FifoStepRefines
<1> QED
  BY <1>1, QueueInitInv, QueueStepInv, FifoInitRefines, PTL DEF Spec, IsFifo, Abs!FifoSpec
=============================================================================

------------------------------- MODULE MCSync -------------------------------
(***************************************************************************)
(* The two lock-free structures of src/sync that hold what many threads    *)
(* put there: the queue of batches (Queue.tla), or the table of managed    *)
(* types (TypeRegistry.tla).  Init chooses which of the two takes steps.   *)
(***************************************************************************)
EXTENDS Queue, TypeRegistry, TLC

CONSTANTS t1, t2, t3, n1, n2, n3, v1, v2, A, B, C

VARIABLE part

allVars == <<part, vars, registryVars>>

QueuePart(step) == part = "queue" /\ step /\ UNCHANGED <<part, registryVars>>
RegistryPart(step) == part = "registry" /\ step /\ UNCHANGED <<part, vars>>

MCInit ==
  /\ part \in {"queue", "registry"} /\ Init /\ RegistryInit
  /\ head = n1  \* one of the first sentinels, which differ only in their address
MCNext == QueuePart(Next) \/ RegistryPart(RegistryNext)

\* The threads of Fair never stop within a call of the queue; a registration that has
\* begun goes on.
MCSpec ==
  /\ MCInit /\ [][MCNext]_allVars
  /\ \A t \in Fair : WF_allVars(QueuePart(Step(t)))
  /\ \A t \in RegThreads : WF_allVars(RegistryPart(RegistryStep(t)))

\* Collisions, and probes that wrap around the end of the table.
HashABC == A :> 7 @@ B :> 3 @@ C :> 0
=============================================================================

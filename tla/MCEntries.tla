----------------------------- MODULE MCEntries ------------------------------
(***************************************************************************)
(* What threads share outside the heap's graph: the list of their entries, *)
(* taken, given back and walked (Slots.tla), the hazard pointers in them   *)
(* (Hazards.tla), or the packed words of a link and of an object's header  *)
(* (Words.tla).  Init chooses which of the three takes steps.              *)
(***************************************************************************)
EXTENDS Slots, Hazards, TLC

CONSTANTS t1, t2, t3, u1, o1, o2, WordThreads, W, AlignBits, TypeIdBits, TagOps, MaxRoots

VARIABLES part, link, header, w, fields, wanted

Packed == INSTANCE Words WITH Threads <- WordThreads

wordVars == <<link, header, w, fields, wanted>>
allVars == <<part, vars, hazardVars, wordVars>>

MCInit ==
  /\ part \in {"slots", "hazards", "words"} /\ Init /\ HazardsInit /\ Packed!Init
  /\ part # "words" => link = 0 /\ header = 1  \* where the words only stand by
MCNext ==
  \/ part = "slots" /\ Next /\ UNCHANGED <<part, hazardVars, wordVars>>
  \/ part = "hazards" /\ HazardsNext /\ UNCHANGED <<part, vars, wordVars>>
  \/ part = "words" /\ Packed!Next /\ UNCHANGED <<part, vars, hazardVars>>

MCSpec == MCInit /\ [][MCNext]_allVars

Symmetry == Permutations(Objs)

\* However the threads interleave, a link decodes to the address, the tag and the color
\* that its last exchange, shading, fetch_tag_or and fetch_tag_xor gave it.
LinkDecodes == part = "words" => Packed!LinkDecodes

\* However marking, root counting and decrements interleave, a header decodes to its
\* type, the count of its roots and the color it was marked with (AtomicObjMeta).
HeaderDecodes == part = "words" => Packed!HeaderDecodes
=============================================================================

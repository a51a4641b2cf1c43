----------------------------- MODULE MCHazards ------------------------------
(* Small arrays of hazard pointers. *)
EXTENDS Hazards, TLC

CONSTANTS o1, o2

Symmetry == Permutations(Objs)
=============================================================================

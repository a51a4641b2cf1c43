---------------------------- MODULE MCScheduling ----------------------------
(* Instances of Scheduling.tla for TLC.                                     *)
EXTENDS Scheduling

CONSTANTS p1, p2

MCPlans ==
  {[mutators |-> {p1}, allocs |-> 2, switches |-> 1, beats |-> TRUE],
   [mutators |-> {p1, p2}, allocs |-> 2, switches |-> 0, beats |-> FALSE],
   [mutators |-> {p1, p2}, allocs |-> 0, switches |-> 2, beats |-> TRUE]}
=============================================================================

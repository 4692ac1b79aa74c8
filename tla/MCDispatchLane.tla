--------------------------- MODULE MCDispatchLane ---------------------------
(***************************************************************************)
(* Small instances of DispatchLane: two sessions, one after the other or   *)
(* both at once, a hold generation each, a queue shorter than the number   *)
(* of commands; and the contract that the lane is to implement.            *)
(***************************************************************************)
EXTENDS LaneImplements, TLC

\* No action singles out an owner or a generation.
LaneSymmetry == Permutations(Owners) \cup Permutations(Generations)
=============================================================================

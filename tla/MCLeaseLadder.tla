---------------------------- MODULE MCLeaseLadder ----------------------------
(* Constants for the runs of LeaseLadder. *)
EXTENDS LeaseLadder, TLC

LegSymmetry == Permutations(Legs)
=============================================================================

----------------------------- MODULE MCKeyLeases -----------------------------
(* The constants of KeyLeases.cfg: the calls are interchangeable. *)
EXTENDS KeyLeases, TLC

CallSymmetry == Permutations(Calls)
=============================================================================

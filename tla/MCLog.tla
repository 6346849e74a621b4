------------------------------- MODULE MCLog -------------------------------
(* Model checking of Log. *)
EXTENDS Log, TLC

LogSymmetry == Permutations(Procs) \cup Permutations(Blocks)
=============================================================================

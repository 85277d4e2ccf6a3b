--------------------------- MODULE MCGbtSolveHeard ---------------------------
(* GbtSolveWrapper with what its slices heard, and processes that are alike. *)
EXTENDS GbtSolveHeard, TLC

ProcSymmetry == Permutations(Procs)
==============================================================================

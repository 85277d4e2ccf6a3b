-------------------------- MODULE MCGbtSolveWrapper --------------------------
(* Model-checking instance of GbtSolveWrapper, for the runs without history. *)
EXTENDS GbtSolveWrapper
==============================================================================

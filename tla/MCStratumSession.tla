--------------------------- MODULE MCStratumSession ---------------------------
(***************************************************************************)
(* Model-checking instance of StratumSession.                              *)
(***************************************************************************)
EXTENDS StratumSession
=============================================================================

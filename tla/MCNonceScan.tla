----------------------------- MODULE MCNonceScan -----------------------------
(***************************************************************************)
(* Model-checking instance of NonceScan.                                   *)
(***************************************************************************)
EXTENDS NonceScan
=============================================================================

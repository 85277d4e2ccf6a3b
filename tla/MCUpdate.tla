------------------------------- MODULE MCUpdate -------------------------------
(***************************************************************************)
(* Model-checking instance of Update: a broken release of the wrapper that *)
(* comes with a mandatory solver, and a good one that takes it back.       *)
(***************************************************************************)
EXTENDS Update

CONSTANTS b0, b1

Releases ==
  {[version |-> 0, sha |-> None, floor |-> None],
   [version |-> 1, sha |-> b1, floor |-> b1],
   [version |-> 2, sha |-> b0, floor |-> None]}
=============================================================================

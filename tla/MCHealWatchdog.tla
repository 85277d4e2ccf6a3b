--------------------------- MODULE MCHealWatchdog ---------------------------
(***************************************************************************)
(* Model-checking instance of HealWatchdog.                                *)
(***************************************************************************)
EXTENDS HealWatchdog
=============================================================================

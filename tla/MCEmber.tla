------------------------------- MODULE MCEmber -------------------------------
(***************************************************************************)
(* One rig; the default configuration is among those that are tried.       *)
(***************************************************************************)
EXTENDS Ember

CONSTANTS b1, b2, w1, w2

Batches == <<b1, b2>>
Workers == <<w1, w2>>
TrialRates == {0, 1}
TrialPowers == {1, 2, None}
=============================================================================

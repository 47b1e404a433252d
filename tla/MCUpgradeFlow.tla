------------------------------ MODULE MCUpgradeFlow ------------------------------
(* Three runs, so that a run can follow one that followed an interrupted   *)
(* one, and power cuts in two of them.                                     *)
EXTENDS UpgradeFlow
=============================================================================

------------------------------- MODULE MCAtChannel -------------------------------
(* Two information lines and two unsolicited ones are enough to have lines *)
(* of either kind around, between and instead of each other.               *)
EXTENDS AtChannel
=============================================================================

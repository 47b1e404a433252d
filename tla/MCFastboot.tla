-------------------------------- MODULE MCFastboot --------------------------------
(* A stage image and the MIBIB, which fastboot leaves alone, between three *)
(* images: a first, one with a predecessor and a successor, and a last.    *)
EXTENDS Fastboot

MCMibib == {4}
MCStage == {2}
=============================================================================

-------------------------------- MODULE MCFirehose --------------------------------
(* Two erases and two programs in mixed order, with other lines and a      *)
(* blank program between: a first and a next of each loop. Images of up to *)
(* two whole sectors and a rest, cut in writes of one or two sectors. They *)
(* may be missing.                                                         *)
EXTENDS Firehose

MCTag      == <<"program", "erase", "program", "other", "program", "erase">>
MCFilename == <<"boot", "", "", "", "rootfs", "">>
MCSectored == [n \in 1..6 |-> TRUE]
=============================================================================

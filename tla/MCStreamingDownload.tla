-------------------------- MODULE MCStreamingDownload --------------------------
(* Three images behind misc: a stage image of two chunks, the MIBIB that   *)
(* is never flashed, and an image of three chunks that only the streaming  *)
(* method sends; an invalid boot image of one chunk.                       *)
EXTENDS StreamingDownload

MCMibib == {2}
MCStage == {1}
MCChunks == [i \in Partitions |-> CASE i = 1 -> 2 [] i = 3 -> 3 [] OTHER -> 1]
=============================================================================

------------------------------- MODULE MCHandshake -------------------------------
(* Two waits per answer: the first may time out and the second succeed,    *)
(* and every handler may give up.                                          *)
EXTENDS Handshake
=============================================================================

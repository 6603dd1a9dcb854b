----------------------------- MODULE MCNioServer -----------------------------
(* Two testers, so that one can disturb the other. *)
EXTENDS NioServer

CONSTANTS c1, c2
==============================================================================

--------------------------- MODULE MCServerProcess ---------------------------
(* ServerProcess checked by TLC. *)
EXTENDS ServerProcess
=============================================================================

------------------------------- MODULE MCTui -------------------------------
(* Tui checked by TLC. *)
EXTENDS Tui
=============================================================================

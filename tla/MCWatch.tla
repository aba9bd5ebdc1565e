------------------------------- MODULE MCWatch -------------------------------
(* Small instances of Watch with EnvSync for TLC. *)
EXTENDS EnvSync
=============================================================================

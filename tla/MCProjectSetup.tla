--------------------------- MODULE MCProjectSetup ---------------------------
(* ProjectSetup checked by TLC. *)
EXTENDS ProjectSetup

MCEnvNames == {"dev", "stg", "STG"}
MCSlugOf == [n \in MCEnvNames |-> IF n = "STG" THEN "stg" ELSE n]
MCWanted == {{"stg"}}
=============================================================================

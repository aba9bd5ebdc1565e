--------------------------- MODULE MCServerSecrets ---------------------------
(* Small instances of ServerSecrets for TLC. *)
EXTENDS ServerSecrets, TLC

\* Clients, keys and environments are interchangeable.
Symmetry == Permutations(Clients) \cup Permutations(Keys) \cup Permutations(Envs)
=============================================================================

----------------------------- MODULE MCAccounts -----------------------------
(* Small instances of IdentitySetup and Accounts for TLC. *)
EXTENDS IdentitySetup, TLC

\* Nothing in the code tells two members of one of these sets apart.
Symmetry == UNION {Permutations(S) : S \in {Orgs, Emails, SSHKeys, Invites, Clients}}
=============================================================================

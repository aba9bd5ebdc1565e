---------------------------- MODULE VersionedStore ----------------------------
(***************************************************************************)
(* What the secrets API promises of an environment, with no database in    *)
(* sight: every key has a log of the ciphertexts ever stored under it      *)
(* (version i is entry i) and at most one current ciphertext.  A write     *)
(* appends to the log of every key it names, in one step, and makes the    *)
(* new entries current; a rollback appends an old entry again; a delete    *)
(* clears the current entry and keeps the log; dropping the environment    *)
(* loses both, for ever.                                                   *)
(***************************************************************************)
EXTENDS Naturals, Sequences

CONSTANTS Envs,     \* environment identities, never reused
          Keys,     \* secret names
          Values    \* ciphertexts, Nothing is none of them

Nothing == 0        \* no current ciphertext

VARIABLES log,      \* log[e][k]: the ciphertexts of k, version 1 first
          current,  \* current[e][k]: the ciphertext Get returns, or Nothing
          dropped   \* the environments that were deleted

vars == <<log, current, dropped>>

Init ==
    /\ log = [e \in Envs |-> [k \in Keys |-> <<>>]]
    /\ current = [e \in Envs |-> [k \in Keys |-> Nothing]]
    /\ dropped = {}

Logged(v) == \E e \in Envs, k \in Keys :
                \E i \in DOMAIN log[e][k] : log[e][k][i] = v

\* Append v to the log of every key of K and make it current there.
Extend(e, K, v) ==
    /\ e \notin dropped
    /\ log' = [log EXCEPT ![e] =
                 [k \in Keys |-> IF k \in K THEN Append(@[k], v) ELSE @[k]]]
    /\ current' = [current EXCEPT ![e] =
                 [k \in Keys |-> IF k \in K THEN v ELSE @[k]]]
    /\ UNCHANGED dropped

\* Set and BulkSet: a ciphertext never stored before, all keys or none.
Put(e, K, v) ==
    /\ K # {}
    /\ ~Logged(v)
    /\ Extend(e, K, v)

\* Rollback: version i becomes the newest version as well.
Restore(e, k, i) ==
    /\ i \in DOMAIN log[e][k]
    /\ Extend(e, {k}, log[e][k][i])

Remove(e, k) ==
    /\ current[e][k] # Nothing
    /\ current' = [current EXCEPT ![e][k] = Nothing]
    /\ UNCHANGED <<log, dropped>>

Drop(e) ==
    /\ e \notin dropped
    /\ dropped' = dropped \cup {e}
    /\ log' = [log EXCEPT ![e] = [k \in Keys |-> <<>>]]
    /\ current' = [current EXCEPT ![e] = [k \in Keys |-> Nothing]]

Next ==
    \E e \in Envs :
        \/ \E K \in SUBSET Keys, v \in Values : Put(e, K, v)
        \/ \E k \in Keys : \/ \E i \in DOMAIN log[e][k] : Restore(e, k, i)
                           \/ Remove(e, k)
        \/ Drop(e)

Spec == Init /\ [][Next]_vars
=============================================================================

-------------------------------- MODULE Vault --------------------------------
(***************************************************************************)
(* The vault of one organisation: the admin requests Set, Delete and       *)
(* Rollback (internal/service/vault.go) as the SQL statements they issue   *)
(* (internal/repo/vault.go), interleaved statement by statement under READ *)
(* COMMITTED.                                                              *)
(*                                                                         *)
(* Unlike the secrets of an environment (ServerSecrets), a write does not  *)
(* look at the history first: it inserts version 1, or adds 1 to the       *)
(* version of the live row.  It locks that row, or the index entry it      *)
(* inserts, with its first statement and keeps it until it ends, so two    *)
(* writes of a key never overlap; organisations are never deleted.         *)
(***************************************************************************)
EXTENDS Naturals, FiniteSets

CONSTANTS Keys,         \* vault keys
          Clients,      \* requests in flight at once
          MaxRequests   \* bound: writes accepted in one behaviour

ASSUME KeysAssumption == Keys # {}
ASSUME MaxRequestsAssumption == MaxRequests \in Nat

VARIABLES live,     \* live[k]: the row of vault_secrets with deleted_at IS NULL
          hist,     \* hist[k]: the rows of vault_secret_history
          pc,       \* pc[c]: the statement the request of c is at
          tx,       \* tx[c]: that request, and its open transaction
          issued,   \* number of write requests accepted so far
          acked     \* rows whose version number was returned to a client

vars == <<live, hist, pc, tx, issued, acked>>

NoRow == [version |-> 0, value |-> 0]

Versions(rows) == {r.version : r \in rows}

Kinds == {"none", "set", "delete", "rollback"}
Steps == {"idle", "target", "delete", "row", "hist", "commit", "reply"}

Blank == [id |-> 0, kind |-> "none", key |-> CHOOSE k \in Keys : TRUE,
          target |-> 0, value |-> 0, version |-> 0]

\* Row lock of the transaction of c.
Holds(c, k) == pc[c] \in {"hist", "commit"} /\ tx[c].key = k
LockedByOther(c) == \E d \in Clients \ {c} : Holds(d, tx[c].key)

Init ==
    /\ live = [k \in Keys |-> NoRow]
    /\ hist = [k \in Keys |-> {}]
    /\ pc = [c \in Clients |-> "idle"]
    /\ tx = [c \in Clients |-> Blank]
    /\ issued = 0
    /\ acked = {}

------------------------------------------------------------------------------
(* Accepting a request.  A caller that is not an admin, an empty key or    *)
(* payload and a version <= 0 are rejected before anything is read.        *)

Accept(c, first, request) ==
    /\ pc[c] = "idle"
    /\ pc' = [pc EXCEPT ![c] = first]
    /\ tx' = [tx EXCEPT ![c] = request]
    /\ UNCHANGED <<live, hist, acked>>

AcceptWrite(c, first, kind, k, target) ==
    /\ issued < MaxRequests
    /\ issued' = issued + 1
    /\ Accept(c, first, [Blank EXCEPT !.id = issued + 1, !.kind = kind,
                            !.key = k, !.target = target, !.value = issued + 1])

Set(c, k) == AcceptWrite(c, "row", "set", k, 0)

Rollback(c, k, target) ==
    target > 0 /\ AcceptWrite(c, "target", "rollback", k, target)

Delete(c, k) ==
    /\ Accept(c, "delete", [Blank EXCEPT !.kind = "delete", !.key = k])
    /\ UNCHANGED issued

\* An error response; an open transaction is rolled back.
Abort(c) ==
    /\ pc' = [pc EXCEPT ![c] = "idle"]
    /\ tx' = [tx EXCEPT ![c] = Blank]
    /\ UNCHANGED <<live, hist, issued, acked>>

Fail(c) == pc[c] # "idle" /\ Abort(c)

------------------------------------------------------------------------------
(* Statements.                                                             *)

\* GetHistoryVersion, before the transaction.
ReadTarget(c) ==
    /\ pc[c] = "target"
    /\ \E r \in hist[tx[c].key] :
         /\ r.version = tx[c].target
         /\ tx' = [tx EXCEPT ![c].value = r.value]
    /\ pc' = [pc EXCEPT ![c] = "row"]
    /\ UNCHANGED <<live, hist, issued, acked>>

TargetNotFound(c) ==
    /\ pc[c] = "target"
    /\ tx[c].target \notin Versions(hist[tx[c].key])
    /\ Abort(c)

\* Mutant: deleting a key removes its history too.
DeleteRow_WipesHistory(c) ==
    /\ pc[c] = "delete"
    /\ live[tx[c].key] # NoRow
    /\ ~LockedByOther(c)
    /\ live' = [live EXCEPT ![tx[c].key] = NoRow]
    /\ hist' = [hist EXCEPT ![tx[c].key] = {}]
    /\ pc' = [pc EXCEPT ![c] = "idle"]
    /\ tx' = [tx EXCEPT ![c] = Blank]
    /\ UNCHANGED <<issued, acked>>

\* UPDATE vault_secrets SET deleted_at, its own transaction.
DeleteRow(c) ==
    /\ pc[c] = "delete"
    /\ live[tx[c].key] # NoRow
    /\ ~LockedByOther(c)
    /\ live' = [live EXCEPT ![tx[c].key] = NoRow]
    /\ pc' = [pc EXCEPT ![c] = "idle"]
    /\ tx' = [tx EXCEPT ![c] = Blank]
    /\ UNCHANGED <<hist, issued, acked>>

DeleteNotFound(c) ==
    /\ pc[c] = "delete"
    /\ live[tx[c].key] = NoRow
    /\ Abort(c)

\* INSERT version 1 ON CONFLICT DO UPDATE SET version = version + 1: it
\* waits while another transaction holds the row, then sees what that one
\* committed.
NextVersion(c) == live[tx[c].key].version + 1

UpsertRow(c) ==
    /\ pc[c] = "row"
    /\ ~LockedByOther(c)
    /\ tx' = [tx EXCEPT ![c].version = NextVersion(c)]
    /\ pc' = [pc EXCEPT ![c] = "hist"]
    /\ UNCHANGED <<live, hist, issued, acked>>

\* UNIQUE(org_id, key, version).  Mutant: the table without it.
VersionTaken_Unchecked(c) == FALSE
VersionTaken(c) == tx[c].version \in Versions(hist[tx[c].key])

\* Mutant: the response is sent and the transaction never committed.
InsertHistory_NoCommit(c) ==
    /\ pc[c] = "hist"
    /\ ~VersionTaken(c)
    /\ pc' = [pc EXCEPT ![c] = "reply"]
    /\ UNCHANGED <<live, hist, tx, issued, acked>>

InsertHistory(c) ==
    /\ pc[c] = "hist"
    /\ ~VersionTaken(c)
    /\ pc' = [pc EXCEPT ![c] = "commit"]
    /\ UNCHANGED <<live, hist, tx, issued, acked>>

UniqueViolation(c) ==
    /\ pc[c] = "hist"
    /\ VersionTaken(c)
    /\ Abort(c)

Commit(c) ==
    LET k == tx[c].key
    IN  /\ pc[c] = "commit"
        /\ live' = [live EXCEPT ![k] = [version |-> tx[c].version, value |-> tx[c].value]]
        /\ hist' = [hist EXCEPT ![k] = @ \cup
              {[version |-> tx[c].version, value |-> tx[c].value, by |-> tx[c].id]}]
        /\ pc' = [pc EXCEPT ![c] = "reply"]
        /\ UNCHANGED <<tx, issued, acked>>

Reply(c) ==
    /\ pc[c] = "reply"
    /\ acked' = acked \cup {[key |-> tx[c].key, version |-> tx[c].version,
                             value |-> tx[c].value, by |-> tx[c].id]}
    /\ pc' = [pc EXCEPT ![c] = "idle"]
    /\ tx' = [tx EXCEPT ![c] = Blank]
    /\ UNCHANGED <<live, hist, issued>>

Next ==
    \E c \in Clients :
        \/ \E k \in Keys : \/ Set(c, k)
                           \/ Delete(c, k)
                           \/ \E v \in 1..MaxRequests : Rollback(c, k, v)
        \/ ReadTarget(c) \/ TargetNotFound(c)
        \/ DeleteRow(c) \/ DeleteNotFound(c)
        \/ UpsertRow(c) \/ InsertHistory(c) \/ UniqueViolation(c)
        \/ Commit(c) \/ Reply(c)
        \/ Fail(c)

Spec == Init /\ [][Next]_vars

------------------------------------------------------------------------------
(* Properties.                                                             *)

\* Every variable keeps its type; a stored version is positive.
TypeOK ==
    /\ live \in [Keys -> [version : Nat, value : Nat]]
    /\ hist \in [Keys -> SUBSET [version : Nat \ {0}, value : Nat, by : Nat]]
    /\ pc \in [Clients -> Steps]
    /\ tx \in [Clients -> [id : Nat, kind : Kinds, key : Keys, target : Nat,
                           value : Nat, version : Nat]]
    /\ issued \in Nat
    /\ acked \subseteq [key : Keys, version : Nat, value : Nat, by : Nat]

\* No version number of a key is used twice, none is skipped and the first
\* is 1: two admins who set the same new key at once get versions 1 and 2.
\* The live row is the newest entry, although a write takes its version from
\* the live row alone: a version given up by a delete cannot be handed out
\* again under another ciphertext.
HistoryIsALog ==
    \A k \in Keys :
        /\ \A r \in hist[k] :
             /\ \A s \in hist[k] : r.version = s.version => r = s
             /\ \A v \in 1..r.version : v \in Versions(hist[k])
        /\ live[k] # NoRow =>
             /\ \E r \in hist[k] : r.version = live[k].version /\ r.value = live[k].value
             /\ \A s \in hist[k] : s.version <= live[k].version

\* The version number returned to an admin names that ciphertext in the
\* history for ever.
AckedWritesAreRecorded ==
    \A a \in acked : \E r \in hist[a.key] :
        r.version = a.version /\ r.value = a.value /\ r.by = a.by

\* The database accepts the history row of every upsert: "Upsert inserts a
\* new vault secret or bumps the version of an existing one, atomically
\* writing a matching vault_secret_history row" (internal/repo/vault.go:39).
\* It does not hold: the version of a re-inserted key restarts at 1, which
\* its history already has.
UpsertsSucceed == \A c \in Clients : pc[c] = "hist" => ~VersionTaken(c)

------------------------------------------------------------------------------
(* The vault implements the versioned store, as one environment of it that *)
(* is never dropped.                                                       *)

LogOf(rows) ==
    [i \in 1..Cardinality(rows) |-> (CHOOSE r \in rows : r.version = i).value]

Store == INSTANCE VersionedStore WITH
    Envs    <- {"org"},
    Values  <- 1..MaxRequests,
    log     <- [e \in {"org"} |-> [k \in Keys |-> LogOf(hist[k])]],
    current <- [e \in {"org"} |-> [k \in Keys |-> live[k].value]],
    dropped <- {}

\* What admins observe of the tables is a run of the abstract store: every
\* commit and every delete is one of its atomic operations.
ImplementsStore == Store!Spec
=============================================================================

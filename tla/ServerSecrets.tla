---------------------------- MODULE ServerSecrets ----------------------------
(***************************************************************************)
(* The secrets of one project's environment slug on the server: the HTTP   *)
(* requests Set, BulkSet, Delete and Rollback (internal/service/secrets.go) *)
(* as the SQL statements they issue (internal/repo/secrets.go) against     *)
(* PostgreSQL at its default isolation level READ COMMITTED, interleaved   *)
(* statement by statement, with the deletion and the re-creation of the    *)
(* environment going on meanwhile.                                         *)
(*                                                                         *)
(* A write is a transaction of three statements per key: SELECT the newest *)
(* history version, INSERT ... ON CONFLICT DO UPDATE the live row, INSERT   *)
(* the history row.  What a statement locks is kept until the transaction  *)
(* ends; what it writes is private until COMMIT.                           *)
(*                                                                         *)
(* A ciphertext is the number of the request that sent it: each encryption *)
(* draws a fresh nonce, so no two requests send the same bytes.            *)
(***************************************************************************)
EXTENDS Naturals, Sequences, FiniteSets

CONSTANTS Envs,         \* environment ids; a re-created environment has a new one
          Keys,         \* secret names
          Clients,      \* requests in flight at once
          NoEnv,
          MaxBulk,      \* maxBulkSecrets
          MaxRequests   \* bound: writes accepted in one behaviour

ASSUME NoEnvAssumption == NoEnv \notin Envs
ASSUME BoundsAssumption == MaxBulk \in Nat \ {0} /\ MaxRequests \in Nat

VARIABLES env,      \* env[e]: the environments row of id e
          live,     \* live[e][k]: the row of secrets with deleted_at IS NULL
          hist,     \* hist[e][k]: the rows of secret_history
          pc,       \* pc[c]: the statement the request of c is at
          tx,       \* tx[c]: that request, and its open transaction
          issued,   \* number of write requests accepted so far
          acked     \* rows whose version number was returned to a client

vars == <<env, live, hist, pc, tx, issued, acked>>

------------------------------------------------------------------------------
(* Rows. Version 0 stands for "no live row".                               *)

LiveRow == [version : Nat, value : Nat]
NoRow == [version |-> 0, value |-> 0]

HistoryRow == [version : Nat, value : Nat, by : Nat]
PendingRow == [key : Keys, version : Nat, value : Nat]

Versions(rows) == {r.version : r \in rows}

\* Mutant: no look at the history.
MaxVersion_Skipped(rows) == 0

\* SELECT COALESCE(MAX(version), 0)
MaxVersion(rows) ==
    IF rows = {} THEN 0
    ELSE CHOOSE v \in Versions(rows) : \A w \in Versions(rows) : w <= v

------------------------------------------------------------------------------
(* Requests.                                                               *)

Kinds == {"none", "set", "bulk", "delete", "rollback"}
Steps == {"idle", "resolve", "target", "delete",
          "max", "row", "hist", "commit", "reply"}

\* The steps with an open transaction.
OpenSteps == {"max", "row", "hist", "commit"}

Request == [id : Nat, kind : Kinds, keys : Seq(Keys), next : Nat,
            env : Envs \cup {NoEnv}, target : Nat, value : Nat, seen : Nat,
            rows : SUBSET PendingRow, shared : BOOLEAN, disturbed : BOOLEAN]

Blank == [id |-> 0, kind |-> "none", keys |-> <<>>, next |-> 1,
          env |-> NoEnv, target |-> 0, value |-> 0, seen |-> 0,
          rows |-> {}, shared |-> FALSE, disturbed |-> FALSE]

\* The key whose statements c is running.
Key(c) == tx[c].keys[tx[c].next]

\* The keys c has written in its transaction, and what it wrote.
Written(c) == {r.key : r \in tx[c].rows}
RowOf(c, k) == CHOOSE r \in tx[c].rows : r.key = k
Pending(c) == RowOf(c, Key(c))

\* Row lock of the transaction of c on the live row (or index entry) of k.
Holds(c, e, k) ==
    /\ pc[c] \in OpenSteps
    /\ tx[c].env = e
    /\ k \in Written(c)

LockedByOther(c, e, k) == \E d \in Clients \ {c} : Holds(d, e, k)

\* A foreign key to the environments row can be checked and holds.
\* Mutant: the tables without their REFERENCES clauses.
EnvPresent_Unchecked(e) == TRUE
EnvPresent(e) == env[e] = "live"

\* The environments row is visible: a deletion counts once it commits.
Visible(e) == env[e] \in {"live", "dropping"}

Init ==
    /\ \E e \in Envs :
         env = [f \in Envs |-> IF f = e THEN "live" ELSE "free"]
    /\ live = [e \in Envs |-> [k \in Keys |-> NoRow]]
    /\ hist = [e \in Envs |-> [k \in Keys |-> {}]]
    /\ pc = [c \in Clients |-> "idle"]
    /\ tx = [c \in Clients |-> Blank]
    /\ issued = 0
    /\ acked = {}

------------------------------------------------------------------------------
(* Accepting a request.  Requests the handlers and services reject before  *)
(* they touch the database (empty or repeated keys, too many keys, version *)
(* <= 0) change nothing and are not actions.                               *)

Accept(c, request) ==
    /\ pc[c] = "idle"
    /\ pc' = [pc EXCEPT ![c] = "resolve"]
    /\ tx' = [tx EXCEPT ![c] = request]
    /\ UNCHANGED <<env, live, hist, acked>>

AcceptWrite(c, kind, keys, target) ==
    /\ issued < MaxRequests
    /\ issued' = issued + 1
    /\ Accept(c, [Blank EXCEPT !.id = issued + 1, !.kind = kind,
                               !.keys = keys, !.target = target,
                               !.value = issued + 1])

Set(c, k) == AcceptWrite(c, "set", <<k>>, 0)

\* 1 to maxBulkSecrets items, no key twice.
ValidBulk(keys) ==
    /\ Len(keys) \in 1..MaxBulk
    /\ \A i, j \in DOMAIN keys : keys[i] = keys[j] => i = j

BulkSet(c, keys) ==
    /\ ValidBulk(keys)
    /\ AcceptWrite(c, "bulk", keys, 0)

Rollback(c, k, target) ==
    /\ target > 0
    /\ AcceptWrite(c, "rollback", <<k>>, target)

Delete(c, k) ==
    /\ Accept(c, [Blank EXCEPT !.kind = "delete", !.keys = <<k>>])
    /\ UNCHANGED issued

------------------------------------------------------------------------------
(* Ending a request without writing: an error response, or the process,    *)
(* the connection or the request's context ending.  An open transaction is *)
(* rolled back and its locks are released.                                 *)

Abort(c) ==
    /\ pc' = [pc EXCEPT ![c] = "idle"]
    /\ tx' = [tx EXCEPT ![c] = Blank]
    /\ UNCHANGED <<env, live, hist, issued, acked>>

Fail(c) == pc[c] # "idle" /\ Abort(c)

------------------------------------------------------------------------------
(* Statements outside a transaction.                                       *)

\* resolveEnv: the slug names the visible environment, if there is one.
FirstStep(kind) ==
    CASE kind = "delete" -> "delete"
      [] kind = "rollback" -> "target"
      [] OTHER -> "max"

ResolveEnv(c) ==
    /\ pc[c] = "resolve"
    /\ \E e \in Envs :
         /\ Visible(e)
         /\ pc' = [pc EXCEPT ![c] = FirstStep(tx[c].kind)]
         /\ tx' = [tx EXCEPT ![c].env = e]
    /\ UNCHANGED <<env, live, hist, issued, acked>>

EnvNotFound(c) ==
    /\ pc[c] = "resolve"
    /\ \A e \in Envs : ~Visible(e)
    /\ Abort(c)

\* Mutant: the query takes the newest version, not the one asked for.
ReadTarget_Newest(c) ==
    /\ pc[c] = "target"
    /\ \E r \in hist[tx[c].env][Key(c)] :
         /\ r.version = MaxVersion(hist[tx[c].env][Key(c)])
         /\ tx' = [tx EXCEPT ![c].value = r.value]
    /\ pc' = [pc EXCEPT ![c] = "max"]
    /\ UNCHANGED <<env, live, hist, issued, acked>>

\* GetHistoryVersion: Rollback reads the old ciphertext before its
\* transaction starts.
ReadTarget(c) ==
    /\ pc[c] = "target"
    /\ \E r \in hist[tx[c].env][Key(c)] :
         /\ r.version = tx[c].target
         /\ tx' = [tx EXCEPT ![c].value = r.value]
    /\ pc' = [pc EXCEPT ![c] = "max"]
    /\ UNCHANGED <<env, live, hist, issued, acked>>

TargetNotFound(c) ==
    /\ pc[c] = "target"
    /\ tx[c].target \notin Versions(hist[tx[c].env][Key(c)])
    /\ Abort(c)

\* Auxiliary: another request changed the key that d is writing.
Disturb(d, e, K) ==
    IF pc[d] \in {"row", "hist"} /\ tx[d].env = e /\ Key(d) \in K
    THEN [tx[d] EXCEPT !.disturbed = TRUE]
    ELSE tx[d]

\* Mutant: deleting a secret removes its history too.
DeleteRow_WipesHistory(c) ==
    LET e == tx[c].env
        k == Key(c)
    IN  /\ pc[c] = "delete"
        /\ live[e][k] # NoRow
        /\ ~LockedByOther(c, e, k)
        /\ live' = [live EXCEPT ![e][k] = NoRow]
        /\ hist' = [hist EXCEPT ![e][k] = {}]
        /\ pc' = [pc EXCEPT ![c] = "idle"]
        /\ tx' = [d \in Clients |-> IF d = c THEN Blank ELSE Disturb(d, e, {k})]
        /\ UNCHANGED <<env, issued, acked>>

\* UPDATE secrets SET deleted_at, its own transaction: it waits for a
\* transaction that holds the row.
DeleteRow(c) ==
    LET e == tx[c].env
        k == Key(c)
    IN  /\ pc[c] = "delete"
        /\ live[e][k] # NoRow
        /\ ~LockedByOther(c, e, k)
        /\ live' = [live EXCEPT ![e][k] = NoRow]
        /\ pc' = [pc EXCEPT ![c] = "idle"]
        /\ tx' = [d \in Clients |-> IF d = c THEN Blank ELSE Disturb(d, e, {k})]
        /\ UNCHANGED <<env, hist, issued, acked>>

DeleteNotFound(c) ==
    /\ pc[c] = "delete"
    /\ live[tx[c].env][Key(c)] = NoRow
    /\ Abort(c)

------------------------------------------------------------------------------
(* The write transaction, upsertTx for each key in turn.                   *)

SelectMaxVersion(c) ==
    /\ pc[c] = "max"
    /\ pc' = [pc EXCEPT ![c] = "row"]
    /\ tx' = [tx EXCEPT ![c].seen = MaxVersion(hist[tx[c].env][Key(c)]),
                        ![c].disturbed = FALSE]
    /\ UNCHANGED <<env, live, hist, issued, acked>>

\* INSERT ... ON CONFLICT DO UPDATE ... RETURNING version.  It waits while
\* another transaction holds the row, then sees what that one committed.
WriteRow(c, version) ==
    /\ pc' = [pc EXCEPT ![c] = "hist"]
    /\ UNCHANGED <<env, live, hist, issued, acked>>
    /\ LET row == [key |-> Key(c), version |-> version, value |-> tx[c].value]
           inserted == live[tx[c].env][Key(c)] = NoRow
       IN  tx' = [tx EXCEPT ![c].rows = @ \cup {row},
                            ![c].shared = @ \/ inserted]

\* DO UPDATE SET version = secrets.version + 1
UpdateLiveRow(c) ==
    /\ pc[c] = "row"
    /\ ~LockedByOther(c, tx[c].env, Key(c))
    /\ live[tx[c].env][Key(c)] # NoRow
    /\ WriteRow(c, live[tx[c].env][Key(c)].version + 1)

\* INSERT: the foreign key locks the environments row FOR KEY SHARE, and
\* waits for a deletion of it in progress.
InsertLiveRow(c) ==
    /\ pc[c] = "row"
    /\ ~LockedByOther(c, tx[c].env, Key(c))
    /\ live[tx[c].env][Key(c)] = NoRow
    /\ EnvPresent(tx[c].env)
    /\ WriteRow(c, tx[c].seen + 1)

\* The environment is gone: foreign key violation.
EnvGone(c) ==
    /\ pc[c] = "row"
    /\ ~LockedByOther(c, tx[c].env, Key(c))
    /\ env[tx[c].env] = "gone"
    /\ Abort(c)

\* UNIQUE(env_id, key, version).  Mutant: the table without it.
VersionTaken_Unchecked(c) == FALSE
VersionTaken(c) ==
    Pending(c).version \in Versions(hist[tx[c].env][Key(c)])

\* Mutant: every item of a bulk write is committed on its own.
InsertHistory_AutoCommit(c) ==
    /\ pc[c] = "hist"
    /\ EnvPresent(tx[c].env)
    /\ ~VersionTaken(c)
    /\ hist' = [hist EXCEPT ![tx[c].env][Key(c)] = @ \cup
          {[version |-> Pending(c).version, value |-> tx[c].value, by |-> tx[c].id]}]
    /\ pc' = [pc EXCEPT ![c] = IF tx[c].next = Len(tx[c].keys)
                               THEN "commit" ELSE "max"]
    /\ tx' = [tx EXCEPT ![c].next = @ + 1, ![c].shared = TRUE]
    /\ UNCHANGED <<env, live, issued, acked>>

InsertHistory(c) ==
    /\ pc[c] = "hist"
    /\ EnvPresent(tx[c].env)
    /\ ~VersionTaken(c)
    /\ pc' = [pc EXCEPT ![c] = IF tx[c].next = Len(tx[c].keys)
                               THEN "commit" ELSE "max"]
    /\ tx' = [tx EXCEPT ![c].next = @ + 1, ![c].shared = TRUE]
    /\ UNCHANGED <<env, live, hist, issued, acked>>

\* Mutant: the insert is tried again instead of failing the request.
UniqueViolation_Retries(c) ==
    /\ pc[c] = "hist" /\ EnvPresent(tx[c].env) /\ VersionTaken(c)
    /\ UNCHANGED <<env, live, hist, pc, tx, issued, acked>>

UniqueViolation(c) ==
    /\ pc[c] = "hist"
    /\ EnvPresent(tx[c].env)
    /\ VersionTaken(c)
    /\ Abort(c)

\* The live row after the upsert of r.  Mutant: DO UPDATE leaves out
\* ciphertext = EXCLUDED.ciphertext.
Upserted_KeepsCiphertext(old, r) ==
    [version |-> r.version, value |-> IF old = NoRow THEN r.value ELSE old.value]
Upserted(old, r) == [version |-> r.version, value |-> r.value]

\* The history row of r.
Recorded(c, r) == [version |-> r.version, value |-> r.value, by |-> tx[c].id]

\* COMMIT publishes every row of the transaction.
Commit(c) ==
    LET e == tx[c].env
        K == Written(c)
    IN  /\ pc[c] = "commit"
        /\ live' = [live EXCEPT ![e] = [k \in Keys |->
              IF k \in K THEN Upserted(@[k], RowOf(c, k)) ELSE @[k]]]
        /\ hist' = [hist EXCEPT ![e] = [k \in Keys |->
              IF k \in K THEN @[k] \cup {Recorded(c, RowOf(c, k))} ELSE @[k]]]
        /\ pc' = [pc EXCEPT ![c] = "reply"]
        /\ tx' = [d \in Clients |-> IF d = c THEN [tx[c] EXCEPT !.shared = FALSE]
                                             ELSE Disturb(d, e, K)]
        /\ UNCHANGED <<env, issued, acked>>

\* The version scanned from RETURNING.  Mutant: the one computed from MAX.
Returned_Computed(c, r) == tx[c].seen + 1
Returned(c, r) == r.version

\* The response carries the version of every key written.
Reply(c) ==
    /\ pc[c] = "reply"
    /\ acked' = acked \cup
         {[env |-> tx[c].env, key |-> r.key, version |-> Returned(c, r),
           value |-> r.value, by |-> tx[c].id] : r \in tx[c].rows}
    /\ pc' = [pc EXCEPT ![c] = "idle"]
    /\ tx' = [tx EXCEPT ![c] = Blank]
    /\ UNCHANGED <<env, live, hist, issued>>

------------------------------------------------------------------------------
(* The environment (internal/service/projects.go, Environments): DELETE    *)
(* FROM environments locks its row, which waits for every FOR KEY SHARE    *)
(* lock, and then cascades to the rows of secrets and secret_history,      *)
(* which waits for every row lock.                                         *)

CreateEnv(e) ==
    /\ env[e] = "free"
    /\ \A f \in Envs : ~Visible(f)
    /\ env' = [env EXCEPT ![e] = "live"]
    /\ UNCHANGED <<live, hist, pc, tx, issued, acked>>

LockEnv(e) ==
    /\ env[e] = "live"
    /\ \A c \in Clients : ~(tx[c].env = e /\ tx[c].shared)
    /\ env' = [env EXCEPT ![e] = "dropping"]
    /\ UNCHANGED <<live, hist, pc, tx, issued, acked>>

RowsLocked(e) == \E c \in Clients, k \in Keys : Holds(c, e, k)

CascadeEnv(e) ==
    /\ env[e] = "dropping"
    /\ ~RowsLocked(e)
    /\ env' = [env EXCEPT ![e] = "gone"]
    /\ live' = [live EXCEPT ![e] = [k \in Keys |-> NoRow]]
    /\ hist' = [hist EXCEPT ![e] = [k \in Keys |-> {}]]
    /\ UNCHANGED <<pc, tx, issued, acked>>

CancelDrop(e) ==
    /\ env[e] = "dropping"
    /\ env' = [env EXCEPT ![e] = "live"]
    /\ UNCHANGED <<live, hist, pc, tx, issued, acked>>

------------------------------------------------------------------------------
(* PostgreSQL aborts a transaction of every cycle of waiting ones.  A      *)
(* deletion of environment e is named by e.                                *)

BlockedOnEnv(c, e) ==
    /\ tx[c].env = e
    /\ env[e] = "dropping"
    /\ \/ pc[c] = "hist"
       \/ pc[c] = "row" /\ live[e][Key(c)] = NoRow

WaitsFor(p, q) ==
    \/ /\ p \in Clients /\ q \in Clients \ {p}
       /\ pc[p] = "row"
       /\ Holds(q, tx[p].env, Key(p))
    \/ p \in Clients /\ q \in Envs /\ BlockedOnEnv(p, q)
    \/ /\ p \in Envs /\ q \in Clients
       /\ env[p] = "dropping"
       /\ \E k \in Keys : Holds(q, p, k)

Deadlocked(p) ==
    \E S \in SUBSET (Clients \cup Envs) :
        /\ p \in S
        /\ \A q \in S : /\ \E r \in S : WaitsFor(q, r)
                        /\ \E r \in S : WaitsFor(r, q)

DeadlockVictim(c) == Deadlocked(c) /\ Abort(c)
DropVictim(e) == Deadlocked(e) /\ CancelDrop(e)

------------------------------------------------------------------------------

NewRequest(c) ==
    \/ \E k \in Keys : \/ Set(c, k)
                       \/ Delete(c, k)
                       \/ \E v \in 1..MaxRequests : Rollback(c, k, v)
    \/ \E n \in 0..MaxBulk + 1 : \E keys \in [1..n -> Keys] : BulkSet(c, keys)

Progress(c) ==
    \/ ResolveEnv(c) \/ EnvNotFound(c)
    \/ ReadTarget(c) \/ TargetNotFound(c)
    \/ DeleteRow(c) \/ DeleteNotFound(c)
    \/ SelectMaxVersion(c)
    \/ UpdateLiveRow(c) \/ InsertLiveRow(c) \/ EnvGone(c)
    \/ InsertHistory(c) \/ UniqueViolation(c)
    \/ Commit(c) \/ Reply(c)

EnvStep(e) == CreateEnv(e) \/ LockEnv(e) \/ CascadeEnv(e) \/ CancelDrop(e)

BreakDeadlock ==
    \/ \E c \in Clients : DeadlockVictim(c)
    \/ \E e \in Envs : DropVictim(e)

Next ==
    \/ \E c \in Clients : NewRequest(c) \/ Progress(c) \/ Fail(c)
    \/ \E e \in Envs : EnvStep(e)
    \/ BreakDeadlock

Spec == Init /\ [][Next]_vars

(* The server keeps running the statements of a request, the database      *)
(* keeps running a cascade, serves its lock queues in order (a waiting     *)
(* statement gets its turn: strong fairness) and detects deadlocks.        *)
Fairness ==
    /\ \A c \in Clients : SF_vars(Progress(c))
    /\ \A e \in Envs : WF_vars(CascadeEnv(e))
    /\ WF_vars(BreakDeadlock)

FairSpec == Spec /\ Fairness

------------------------------------------------------------------------------
(* Properties.                                                             *)

\* Every variable keeps its type: rows are rows, requests are requests.
TypeOK ==
    /\ env \in [Envs -> {"free", "live", "dropping", "gone"}]
    /\ live \in [Envs -> [Keys -> LiveRow]]
    /\ hist \in [Envs -> [Keys -> SUBSET HistoryRow]]
    /\ pc \in [Clients -> Steps]
    /\ tx \in [Clients -> Request]
    /\ issued \in Nat
    /\ acked \subseteq [env : Envs, key : Keys, version : Nat, value : Nat, by : Nat]

\* The history of a key is a log: no version number is used twice, none is
\* skipped and the first is 1, whatever writes, deletes and re-insertions
\* interleaved.  (The MAX(version) a write starts from may be stale by the
\* time it inserts.)
HistoryIsALog ==
    \A e \in Envs, k \in Keys :
        \A r \in hist[e][k] :
            /\ r.version >= 1
            /\ \A s \in hist[e][k] : r.version = s.version => r = s
            /\ \A v \in 1..r.version : v \in Versions(hist[e][k])

\* The live row is the newest history row: Get never returns a ciphertext
\* that History would not list first, and a version that was given up by a
\* delete never comes back.
LiveIsNewest ==
    \A e \in Envs, k \in Keys : live[e][k] # NoRow =>
        /\ \E r \in hist[e][k] : /\ r.version = live[e][k].version
                                 /\ r.value = live[e][k].value
        /\ \A s \in hist[e][k] : s.version <= live[e][k].version

\* A version number the server returned names that ciphertext in the history
\* for as long as the environment exists: no acknowledged write is lost or
\* overwritten by a concurrent one.
AckedWritesAreRecorded ==
    \A a \in acked :
        \/ env[a.env] = "gone"
        \/ \E r \in hist[a.env][a.key] :
             r.version = a.version /\ r.value = a.value /\ r.by = a.by

\* A bulk write lands whole: none of its keys has a history row before its
\* transaction committed, and each has one when the response is sent.
BulkIsAtomic ==
    \A c \in Clients : tx[c].kind = "bulk" =>
        \A i \in DOMAIN tx[c].keys :
            LET written == \E e \in Envs : \E r \in hist[e][tx[c].keys[i]] :
                               r.by = tx[c].id
            IN  IF pc[c] = "reply" THEN written \/ env[tx[c].env] = "gone"
                                   ELSE ~written

\* Rows exist only in an environment that exists: a write that resolved the
\* environment before it was deleted leaves nothing behind, and a re-created
\* environment starts empty.
NoOrphanRows ==
    \A e \in Envs : ~Visible(e) =>
        \A k \in Keys : live[e][k] = NoRow /\ hist[e][k] = {}

\* A write fails on the version number only if another request changed the
\* key during its transaction: re-inserting a deleted key in a quiet
\* environment always works ("handle re-insert after delete",
\* internal/repo/secrets.go:83).
QuietWritesSucceed ==
    \A c \in Clients :
        pc[c] = "hist" /\ ~tx[c].disturbed => ~VersionTaken(c)

\* A rollback that succeeded made the requested version's ciphertext the
\* one of its new version, although it read it before its transaction.
RollbackRestoresTarget ==
    \A c \in Clients : tx[c].kind = "rollback" /\ pc[c] = "reply" =>
        \/ env[tx[c].env] = "gone"
        \/ \E old \in hist[tx[c].env][tx[c].keys[1]] :
             \E new \in hist[tx[c].env][tx[c].keys[1]] :
                /\ old.version = tx[c].target
                /\ new.by = tx[c].id
                /\ new.value = old.value
                /\ new.version > old.version

\* Every request ends, whatever the others do: transactions that wait for
\* each other (two bulk writes that name their keys in different orders, a
\* write and the deletion of its environment) do not wait for ever.
EveryRequestEnds == \A c \in Clients : pc[c] # "idle" ~> pc[c] = "idle"

------------------------------------------------------------------------------
(* The statement-level system implements the versioned store.              *)

LogOf(rows) ==
    [i \in 1..Cardinality(rows) |-> (CHOOSE r \in rows : r.version = i).value]

Store == INSTANCE VersionedStore WITH
    Values  <- 1..MaxRequests,
    log     <- [e \in Envs |-> [k \in Keys |-> LogOf(hist[e][k])]],
    current <- [e \in Envs |-> [k \in Keys |-> live[e][k].value]],
    dropped <- {e \in Envs : env[e] = "gone"}

\* What clients observe of the tables is a run of the abstract store: every
\* commit, delete and cascade is one of its atomic operations, every other
\* statement is invisible.
ImplementsStore == Store!Spec
=============================================================================

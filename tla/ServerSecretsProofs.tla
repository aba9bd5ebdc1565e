------------------------- MODULE ServerSecretsProofs -------------------------
(***************************************************************************)
(* Proofs, for any number of environments, keys and clients, that the      *)
(* statement-level model of the secrets API keeps its types and its        *)
(* version history in order, that bulk writes are atomic and rollbacks     *)
(* restore what they were asked for, and that it implements the versioned  *)
(* store.                                                                  *)
(***************************************************************************)
EXTENDS ServerSecrets, FiniteSetTheorems, TLAPS

------------------------------------------------------------------------------
(* The inductive invariant: what holds of each request on its own          *)
(* (RequestOK), of what it has written but not committed (PendingOK,       *)
(* SeenOK, RepliedOK), of two transactions (LocksExclusive) and of the     *)
(* tables (TablesOK).                                                      *)

\* Requests walk through their keys in order and hold one row per key done.
RequestOK(c) ==
    /\ \A i, j \in 1..Len(tx[c].keys) : tx[c].keys[i] = tx[c].keys[j] => i = j
    /\ pc[c] \in {"resolve", "target", "delete", "max", "row", "hist"}
         => tx[c].next \in 1..Len(tx[c].keys)
    /\ pc[c] \in {"commit", "reply"} => tx[c].next = Len(tx[c].keys) + 1
    /\ pc[c] \notin {"idle", "resolve"} => tx[c].env \in Envs
    /\ pc[c] \in {"idle", "resolve", "target", "delete"} => tx[c].rows = {}
    /\ pc[c] \in {"resolve", "target", "delete"} => tx[c].next = 1
    /\ pc[c] = "hist" => \E r \in tx[c].rows : r.key = Key(c)
    /\ \A r \in tx[c].rows :
         /\ \E i \in 1..Len(tx[c].keys) :
              /\ r.key = tx[c].keys[i]
              /\ i < tx[c].next \/ (i = tx[c].next /\ pc[c] = "hist")
         /\ \A s \in tx[c].rows : r.key = s.key => r = s

\* An uncommitted row continues the log of its key, whose rows are locked.
PendingOK(c) ==
    pc[c] \in OpenSteps => \A r \in tx[c].rows :
        LET e == tx[c].env
            used == Versions(hist[e][r.key])
        IN  /\ Visible(e)
            /\ r.version >= 1
            /\ r.version = 1 \/ r.version - 1 \in used
            /\ live[e][r.key] # NoRow => r.version = live[e][r.key].version + 1
            /\ r.version \notin used \/ (pc[c] = "hist" /\ r.key = Key(c))

\* The maximum a write read was a version, and is still the newest unless
\* somebody changed the key.
SeenOK(c) ==
    pc[c] = "row" =>
        LET rows == hist[tx[c].env][Key(c)]
        IN  \/ env[tx[c].env] = "gone"
            \/ /\ tx[c].seen = 0 \/ tx[c].seen \in Versions(rows)
               /\ ~tx[c].disturbed => \A s \in rows : s.version <= tx[c].seen

QuietOK(c) == pc[c] = "hist" /\ ~tx[c].disturbed => ~VersionTaken(c)

\* What a response will name is recorded.
RepliedOK(c) ==
    pc[c] = "reply" => \A r \in tx[c].rows :
        \/ env[tx[c].env] = "gone"
        \/ \E h \in hist[tx[c].env][r.key] :
             h.version = r.version /\ h.value = r.value /\ h.by = tx[c].id

ClientOK(c) ==
    RequestOK(c) /\ PendingOK(c) /\ SeenOK(c) /\ QuietOK(c) /\ RepliedOK(c)

LocksExclusive ==
    \A c, d \in Clients, e \in Envs, k \in Keys :
        Holds(c, e, k) /\ Holds(d, e, k) => c = d

HasNewest(rows) ==
    rows = {} \/ \E r \in rows : \A s \in rows : s.version <= r.version

TablesOK ==
    /\ \A e \in Envs, k \in Keys : HasNewest(hist[e][k])
    /\ HistoryIsALog
    /\ LiveIsNewest
    /\ NoOrphanRows
    /\ AckedWritesAreRecorded

IndInv ==
    /\ TypeOK
    /\ \A c \in Clients : ClientOK(c)
    /\ LocksExclusive
    /\ TablesOK

------------------------------------------------------------------------------
(* Lemmas on rows.                                                         *)

\* The newest version of a history is a natural number, is 0 exactly for an
\* empty history, and bounds every version of it.
LEMMA MaxVersionIsNewest ==
    ASSUME NEW rows \in SUBSET HistoryRow, HasNewest(rows)
    PROVE  /\ MaxVersion(rows) \in Nat
           /\ MaxVersion(rows) = 0 \/ MaxVersion(rows) \in Versions(rows)
           /\ \A s \in rows : s.version <= MaxVersion(rows)
<1>1. CASE rows = {}
  BY <1>1 DEF MaxVersion
<1>2. CASE rows # {}
  <2>1. PICK r \in rows : \A s \in rows : s.version <= r.version
    BY <1>2 DEF HasNewest
  <2>2. r.version \in Versions(rows) /\ \A w \in Versions(rows) : w <= r.version
    BY <2>1 DEF Versions
  <2>3. /\ MaxVersion(rows) \in Versions(rows)
        /\ \A w \in Versions(rows) : w <= MaxVersion(rows)
    BY <1>2, <2>2 DEF MaxVersion
  <2>4. QED
    BY <2>3 DEF Versions, HistoryRow
<1>3. QED
  BY <1>1, <1>2

\* What a request that does nothing looks like.
LEMMA BlankIsARequest == Blank \in Request
BY DEF Blank, Request, Kinds

\* The key a request is at is one of the keys.
LEMMA KeyIsAKey ==
    ASSUME TypeOK, NEW c \in Clients, RequestOK(c),
           pc[c] \in {"target", "delete", "max", "row", "hist"}
    PROVE  Key(c) \in Keys /\ tx[c].env \in Envs
BY DEF TypeOK, RequestOK, Key, Request

\* A client whose state and whose tables stay as they are stays consistent.
LEMMA ClientFrame ==
    ASSUME NEW d \in Clients, ClientOK(d),
           tx'[d] = tx[d], pc'[d] = pc[d], env' = env, live' = live, hist' = hist
    PROVE  ClientOK(d)'
<1>1. RequestOK(d)'
  BY DEF ClientOK, RequestOK, Key
<1>2. PendingOK(d)'
  BY DEF ClientOK, PendingOK, Visible, Key
<1>3. SeenOK(d)'
  BY DEF ClientOK, SeenOK, Key
<1>4. QuietOK(d)'
  BY DEF ClientOK, QuietOK, Key, VersionTaken, Pending, RowOf
<1>5. RepliedOK(d)'
  BY DEF ClientOK, RepliedOK
<1>6. QED
  BY <1>1, <1>2, <1>3, <1>4, <1>5 DEF ClientOK

\* Nor do the tables, if no row and no acknowledgement changes.
LEMMA TablesFrame ==
    ASSUME TablesOK, UNCHANGED <<env, live, hist, acked>>
    PROVE  TablesOK'
BY DEF TablesOK, HistoryIsALog, LiveIsNewest, NoOrphanRows, AckedWritesAreRecorded,
       Visible

------------------------------------------------------------------------------
(* Steps of one client that leave the tables alone.                        *)

\* If only c moves, keeps itself consistent and takes no lock that another
\* client holds, the whole invariant is kept.
LEMMA LocalStep ==
    ASSUME IndInv, NEW c \in Clients,
           UNCHANGED <<env, live, hist>>,
           TypeOK', ClientOK(c)', AckedWritesAreRecorded',
           \A d \in Clients \ {c} : tx'[d] = tx[d] /\ pc'[d] = pc[d],
           \A e \in Envs, k \in Keys :
               Holds(c, e, k)' => Holds(c, e, k) \/ ~LockedByOther(c, e, k)
    PROVE  IndInv'
<1>1. \A d \in Clients : ClientOK(d)'
  <2> SUFFICES ASSUME NEW d \in Clients PROVE ClientOK(d)'
    OBVIOUS
  <2>1. CASE d = c
    BY <2>1
  <2>2. CASE d # c
    <3>1. ClientOK(d) /\ tx'[d] = tx[d] /\ pc'[d] = pc[d]
      BY <2>2 DEF IndInv
    <3>2. QED
      BY <3>1, ClientFrame
  <2>3. QED
    BY <2>1, <2>2
<1>2. LocksExclusive'
  <2>1. \A d \in Clients \ {c}, e \in Envs, k \in Keys : Holds(d, e, k)' <=> Holds(d, e, k)
    BY DEF Written, Holds
  <2>2. \A d \in Clients \ {c}, e \in Envs, k \in Keys :
           ~(Holds(c, e, k)' /\ Holds(d, e, k)')
    BY <2>1 DEF IndInv, LocksExclusive, LockedByOther
  <2>3. SUFFICES ASSUME NEW a \in Clients, NEW d \in Clients, NEW e \in Envs, NEW k \in Keys,
                        Holds(a, e, k)', Holds(d, e, k)', a # d
                 PROVE  FALSE
    BY DEF LocksExclusive
  <2>4. CASE a = c \/ d = c
    BY <2>2, <2>3, <2>4
  <2>5. CASE a # c /\ d # c
    BY <2>1, <2>3, <2>5 DEF IndInv, LocksExclusive
  <2>6. QED
    BY <2>4, <2>5
<1>3. TablesOK'
  BY DEF IndInv, TablesOK, HistoryIsALog, LiveIsNewest, NoOrphanRows, Visible
<1>4. QED
  BY <1>1, <1>2, <1>3 DEF IndInv

\* A client that has written nothing holds no lock and owes nothing.
LEMMA BlankIsOK ==
    ASSUME NEW c \in Clients, pc[c] = "idle", tx[c] = Blank
    PROVE  ClientOK(c)
BY DEF ClientOK, RequestOK, PendingOK, SeenOK, QuietOK, RepliedOK, Blank, OpenSteps

\* Giving a request up, at whatever statement it is.
LEMMA AbortStep ==
    ASSUME IndInv, NEW c \in Clients, Abort(c)
    PROVE  IndInv'
<1>1. TypeOK'
  BY BlankIsARequest DEF IndInv, TypeOK, Abort, Steps
<1>2. pc'[c] = "idle" /\ tx'[c] = Blank
  BY DEF IndInv, TypeOK, Abort
<1>3. ClientOK(c)'
  BY <1>2 DEF ClientOK, RequestOK, PendingOK, SeenOK, QuietOK, RepliedOK, Blank, OpenSteps
<1>4. \A e \in Envs, k \in Keys : ~Holds(c, e, k)'
  BY <1>2 DEF Written, Holds, OpenSteps
<1>5. AckedWritesAreRecorded'
  BY DEF IndInv, TablesOK, Abort, AckedWritesAreRecorded
<1>6. \A d \in Clients \ {c} : tx'[d] = tx[d] /\ pc'[d] = pc[d]
  BY DEF IndInv, TypeOK, Abort
<1>7. UNCHANGED <<env, live, hist>>
  BY DEF Abort
<1>8. QED
  BY <1>1, <1>3, <1>4, <1>5, <1>6, <1>7, LocalStep

\* Accepting a well-formed request.
LEMMA AcceptStep ==
    ASSUME IndInv, NEW c \in Clients, NEW request \in Request,
           Accept(c, request), issued' \in Nat,
           request.next = 1, request.rows = {}, Len(request.keys) >= 1,
           \A i, j \in 1..Len(request.keys) :
               request.keys[i] = request.keys[j] => i = j
    PROVE  IndInv'
<1>1. TypeOK'
  BY DEF IndInv, TypeOK, Accept, Steps
<1>2. pc'[c] = "resolve" /\ tx'[c] = request
  BY DEF IndInv, TypeOK, Accept
<1>3. ClientOK(c)'
  BY <1>2 DEF ClientOK, RequestOK, PendingOK, SeenOK, QuietOK, RepliedOK, Request, OpenSteps
<1>4. \A e \in Envs, k \in Keys : ~Holds(c, e, k)'
  BY <1>2 DEF Written, Holds, OpenSteps
<1>5. AckedWritesAreRecorded'
  BY DEF IndInv, TablesOK, Accept, AckedWritesAreRecorded
<1>6. \A d \in Clients \ {c} : tx'[d] = tx[d] /\ pc'[d] = pc[d]
  BY DEF IndInv, TypeOK, Accept
<1>7. UNCHANGED <<env, live, hist>>
  BY DEF Accept
<1>8. QED
  BY <1>1, <1>3, <1>4, <1>5, <1>6, <1>7, LocalStep

\* Every request the handlers let through is well-formed.
LEMMA RequestStep ==
    ASSUME IndInv, NEW c \in Clients, NewRequest(c)
    PROVE  IndInv'
<1>1. ASSUME NEW kind \in Kinds, NEW keys \in Seq(Keys), NEW target \in Nat,
             Len(keys) >= 1,
             \A i, j \in 1..Len(keys) : keys[i] = keys[j] => i = j,
             AcceptWrite(c, kind, keys, target)
      PROVE  IndInv'
  <2> DEFINE request == [Blank EXCEPT !.id = issued + 1, !.kind = kind,
                               !.keys = keys, !.target = target,
                               !.value = issued + 1]
  <2>1. issued \in Nat /\ issued' = issued + 1 /\ Accept(c, request)
    BY <1>1 DEF AcceptWrite, IndInv, TypeOK
  <2>2. request \in Request
    <3>1. Blank \in Request /\ issued + 1 \in Nat
      BY <2>1, BlankIsARequest
    <3>2. QED
      BY <3>1 DEF Request
  <2>3. request.next = 1 /\ request.rows = {} /\ request.keys = keys
    BY DEF Blank
  <2> HIDE DEF request
  <2>4. QED
    BY <1>1, <2>1, <2>2, <2>3, AcceptStep
<1>2. ASSUME NEW k \in Keys, Set(c, k) PROVE IndInv'
  <2>1. <<k>> \in Seq(Keys) /\ Len(<<k>>) = 1
    OBVIOUS
  <2>2. "set" \in Kinds /\ 0 \in Nat
    BY DEF Kinds
  <2>3. \A i, j \in 1..Len(<<k>>) : <<k>>[i] = <<k>>[j] => i = j
    OBVIOUS
  <2>4. AcceptWrite(c, "set", <<k>>, 0)
    BY <1>2 DEF Set
  <2>5. Len(<<k>>) >= 1
    BY <2>1
  <2>6. QED
    BY <1>1, <2>1, <2>2, <2>3, <2>4, <2>5
<1>3. ASSUME NEW k \in Keys, NEW v \in 1..MaxRequests, Rollback(c, k, v) PROVE IndInv'
  <2>1. <<k>> \in Seq(Keys) /\ Len(<<k>>) = 1
    OBVIOUS
  <2>2. v \in Nat
    BY BoundsAssumption
  <2>3. "rollback" \in Kinds
    BY DEF Kinds
  <2>4. Len(<<k>>) >= 1 /\ \A i, j \in 1..Len(<<k>>) : <<k>>[i] = <<k>>[j] => i = j
    OBVIOUS
  <2>5. AcceptWrite(c, "rollback", <<k>>, v)
    BY <1>3 DEF Rollback
  <2>6. QED
    BY <1>1, <2>1, <2>2, <2>3, <2>4, <2>5
<1>4. ASSUME NEW k \in Keys, Delete(c, k) PROVE IndInv'
  <2> DEFINE request == [Blank EXCEPT !.kind = "delete", !.keys = <<k>>]
  <2>1. request \in Request
    <3>1. Blank \in Request /\ <<k>> \in Seq(Keys) /\ "delete" \in Kinds
      BY BlankIsARequest DEF Kinds
    <3>2. QED
      BY <3>1 DEF Request
  <2>2. request.next = 1 /\ request.rows = {} /\ request.keys = <<k>>
    BY DEF Blank
  <2>3. Accept(c, request) /\ issued' \in Nat
    BY <1>4 DEF Delete, IndInv, TypeOK
  <2> HIDE DEF request
  <2>4. /\ Len(request.keys) >= 1
        /\ \A i, j \in 1..Len(request.keys) : request.keys[i] = request.keys[j] => i = j
    BY <2>2
  <2>5. QED
    BY <2>1, <2>2, <2>3, <2>4, AcceptStep
<1>5. ASSUME NEW n \in 0..MaxBulk + 1, NEW keys \in [1..n -> Keys], BulkSet(c, keys)
      PROVE  IndInv'
  <2>1. n \in Nat /\ keys \in Seq(Keys)
    BY BoundsAssumption
  <2>2. Len(keys) >= 1 /\ \A i, j \in 1..Len(keys) : keys[i] = keys[j] => i = j
    BY <1>5, <2>1 DEF BulkSet, ValidBulk
  <2>3. QED
    BY <1>1, <1>5, <2>1, <2>2 DEF BulkSet, Kinds
<1>6. QED
  BY <1>2, <1>3, <1>4, <1>5 DEF NewRequest

\* resolveEnv finds the environment.
LEMMA ResolveEnvStep ==
    ASSUME IndInv, NEW c \in Clients, ResolveEnv(c)
    PROVE  IndInv'
<1> USE DEF ResolveEnv
<1>1. PICK e \in Envs : /\ pc' = [pc EXCEPT ![c] = FirstStep(tx[c].kind)]
                        /\ tx' = [tx EXCEPT ![c].env = e]
  OBVIOUS
<1>2. FirstStep(tx[c].kind) \in {"delete", "target", "max"}
  BY DEF FirstStep
<1>3. tx[c] \in Request /\ RequestOK(c) /\ pc[c] = "resolve"
  BY DEF IndInv, TypeOK, ClientOK
<1>4. /\ tx'[c] = [tx[c] EXCEPT !.env = e] /\ tx'[c] \in Request
      /\ pc'[c] = FirstStep(tx[c].kind)
  BY <1>1, <1>3 DEF IndInv, TypeOK, Request
<1>5. TypeOK'
  BY <1>1, <1>2, <1>4 DEF IndInv, TypeOK, Steps
<1>6. ClientOK(c)'
  BY <1>2, <1>3, <1>4 DEF ClientOK, RequestOK, PendingOK, SeenOK, QuietOK, RepliedOK, Request
<1>7. \A f \in Envs, k \in Keys : ~Holds(c, f, k)'
  BY <1>3, <1>4 DEF Written, Holds, RequestOK, Request
<1>8. AckedWritesAreRecorded'
  BY DEF IndInv, TablesOK, AckedWritesAreRecorded
<1>9. \A d \in Clients \ {c} : tx'[d] = tx[d] /\ pc'[d] = pc[d]
  BY <1>1 DEF IndInv, TypeOK
<1>10. QED
  BY <1>5, <1>6, <1>7, <1>8, <1>9, LocalStep

\* GetHistoryVersion finds the version.
LEMMA ReadTargetStep ==
    ASSUME IndInv, NEW c \in Clients, ReadTarget(c)
    PROVE  IndInv'
<1> USE DEF ReadTarget
<1>1. tx[c] \in Request /\ RequestOK(c) /\ pc[c] = "target"
  BY DEF IndInv, TypeOK, ClientOK
<1>2. Key(c) \in Keys /\ tx[c].env \in Envs
  BY <1>1, KeyIsAKey DEF IndInv
<1>3. PICK r \in hist[tx[c].env][Key(c)] : tx' = [tx EXCEPT ![c].value = r.value]
  OBVIOUS
<1>4. r.value \in Nat
  BY <1>2 DEF IndInv, TypeOK, HistoryRow
<1>5. /\ tx'[c] = [tx[c] EXCEPT !.value = r.value] /\ tx'[c] \in Request
      /\ pc'[c] = "max"
  BY <1>1, <1>3, <1>4 DEF IndInv, TypeOK, Request
<1>6. TypeOK'
  BY <1>3, <1>5 DEF IndInv, TypeOK, Steps
<1>7. ClientOK(c)'
  BY <1>1, <1>5 DEF ClientOK, RequestOK, PendingOK, SeenOK, QuietOK, RepliedOK, Request
<1>8. \A f \in Envs, k \in Keys : ~Holds(c, f, k)'
  BY <1>1, <1>5 DEF Written, Holds, RequestOK, Request
<1>9. AckedWritesAreRecorded'
  BY DEF IndInv, TablesOK, AckedWritesAreRecorded
<1>10. \A d \in Clients \ {c} : tx'[d] = tx[d] /\ pc'[d] = pc[d]
  BY <1>3 DEF IndInv, TypeOK
<1>11. QED
  BY <1>6, <1>7, <1>8, <1>9, <1>10, LocalStep

\* SELECT COALESCE(MAX(version), 0).
LEMMA SelectMaxVersionStep ==
    ASSUME IndInv, NEW c \in Clients, SelectMaxVersion(c)
    PROVE  IndInv'
<1> DEFINE rows == hist[tx[c].env][Key(c)]
           m == MaxVersion(rows)
<1>1. /\ tx[c] \in Request /\ RequestOK(c) /\ PendingOK(c) /\ pc[c] = "max"
      /\ UNCHANGED <<env, live, hist, acked>>
  BY DEF IndInv, TypeOK, ClientOK, SelectMaxVersion
<1>2. Key(c) \in Keys /\ tx[c].env \in Envs
  BY <1>1, KeyIsAKey DEF IndInv
<1>3. rows \in SUBSET HistoryRow /\ HasNewest(rows)
  BY <1>2 DEF IndInv, TypeOK, TablesOK
<1>4. /\ m \in Nat
      /\ m = 0 \/ m \in Versions(rows)
      /\ \A s \in rows : s.version <= m
  <2> HIDE DEF rows
  <2>1. QED
    BY <1>3, MaxVersionIsNewest
<1>5. /\ tx'[c] = [tx[c] EXCEPT !.seen = m, !.disturbed = FALSE]
      /\ pc'[c] = "row"
  BY DEF SelectMaxVersion, IndInv, TypeOK
<1> HIDE DEF m
<1>6. /\ tx'[c] \in Request
      /\ tx'[c].seen = m /\ tx'[c].env = tx[c].env /\ tx'[c].keys = tx[c].keys
      /\ tx'[c].next = tx[c].next /\ tx'[c].rows = tx[c].rows /\ tx'[c].disturbed = FALSE
      /\ Key(c)' = Key(c)
  BY <1>1, <1>4, <1>5 DEF Request, Key
<1>7. TypeOK'
  BY <1>1, <1>6 DEF IndInv, TypeOK, Steps, SelectMaxVersion
<1>8. ClientOK(c)'
  <2>1. RequestOK(c)'
    BY <1>1, <1>5, <1>6 DEF RequestOK
  <2>2. PendingOK(c)'
    BY <1>1, <1>5, <1>6 DEF PendingOK, OpenSteps, Visible
  <2>3. SeenOK(c)'
    BY <1>1, <1>4, <1>5, <1>6 DEF SeenOK
  <2>4. QED
    BY <1>5, <2>1, <2>2, <2>3 DEF ClientOK, QuietOK, RepliedOK
<1>9. \A f \in Envs, k \in Keys : Holds(c, f, k)' => Holds(c, f, k)
  BY <1>1, <1>6 DEF Written, Holds, OpenSteps
<1>10. AckedWritesAreRecorded'
  BY <1>1 DEF IndInv, TablesOK, AckedWritesAreRecorded
<1>11. \A d \in Clients \ {c} : tx'[d] = tx[d] /\ pc'[d] = pc[d]
  BY DEF SelectMaxVersion, IndInv, TypeOK
<1>12. QED
  BY <1>1, <1>7, <1>8, <1>9, <1>10, <1>11, LocalStep

\* INSERT ... ON CONFLICT DO UPDATE, whichever branch it takes, given a
\* version that continues the log of the key.
LEMMA WriteRowStep ==
    ASSUME IndInv, NEW c \in Clients, NEW version \in Nat,
           WriteRow(c, version), pc[c] = "row",
           ~LockedByOther(c, tx[c].env, Key(c)),
           Visible(tx[c].env),
           version >= 1,
           version = 1 \/ version - 1 \in Versions(hist[tx[c].env][Key(c)]),
           live[tx[c].env][Key(c)] # NoRow
             => version = live[tx[c].env][Key(c)].version + 1,
           ~tx[c].disturbed => version \notin Versions(hist[tx[c].env][Key(c)])
    PROVE  IndInv'
<1> DEFINE row == [key |-> Key(c), version |-> version, value |-> tx[c].value]
           sh == tx[c].shared \/ live[tx[c].env][Key(c)] = NoRow
<1>1. /\ tx[c] \in Request /\ RequestOK(c) /\ PendingOK(c)
      /\ UNCHANGED <<env, live, hist, acked>>
  BY DEF IndInv, TypeOK, ClientOK, WriteRow
<1>2. Key(c) \in Keys /\ tx[c].env \in Envs
  BY <1>1, KeyIsAKey DEF IndInv
<1>3. row \in PendingRow /\ sh \in BOOLEAN
  BY <1>1, <1>2 DEF PendingRow, Request
<1>4. /\ tx'[c] = [tx[c] EXCEPT !.rows = @ \cup {row}, !.shared = sh]
      /\ pc'[c] = "hist"
  BY DEF WriteRow, IndInv, TypeOK
<1>5. row.key = Key(c) /\ row.version = version /\ row.value = tx[c].value
  OBVIOUS
<1>6. /\ tx'[c] \in Request
      /\ tx'[c].rows = tx[c].rows \cup {row}
      /\ tx'[c].env = tx[c].env /\ tx'[c].keys = tx[c].keys
      /\ tx'[c].next = tx[c].next /\ tx'[c].disturbed = tx[c].disturbed
      /\ Key(c)' = Key(c)
  <2> HIDE DEF row, sh
  <2>1. tx[c].rows \cup {row} \in SUBSET PendingRow
    BY <1>1, <1>3 DEF Request
  <2>2. [tx[c] EXCEPT !.rows = tx[c].rows \cup {row}, !.shared = sh] \in Request
    BY <1>1, <1>3, <2>1 DEF Request
  <2>3. QED
    BY <1>1, <1>4, <2>2 DEF Request, Key
<1>7. \A r \in tx[c].rows : r.key # Key(c)
  <2>1. /\ tx[c].next \in 1..Len(tx[c].keys)
        /\ \A i, j \in 1..Len(tx[c].keys) : tx[c].keys[i] = tx[c].keys[j] => i = j
    BY <1>1 DEF RequestOK
  <2>2. \A r \in tx[c].rows : \E i \in 1..Len(tx[c].keys) :
           r.key = tx[c].keys[i] /\ i < tx[c].next
    BY <1>1 DEF RequestOK
  <2> HIDE DEF row, sh
  <2>3. \A i \in 1..Len(tx[c].keys) : i < tx[c].next => i # tx[c].next
    OBVIOUS
  <2>4. QED
    BY <2>1, <2>2, <2>3 DEF Key
<1> HIDE DEF row, sh
<1>8. TypeOK'
  BY <1>1, <1>6 DEF IndInv, TypeOK, Steps, WriteRow
<1>9. Pending(c)' = row
  BY <1>5, <1>6, <1>7 DEF Pending, RowOf
<1>10. ClientOK(c)'
  <2>1. RequestOK(c)'
    <3>1. tx[c].next \in 1..Len(tx[c].keys)
      BY <1>1 DEF RequestOK
    <3>2. \A r \in tx[c].rows \cup {row} :
             \E i \in 1..Len(tx[c].keys) :
               /\ r.key = tx[c].keys[i]
               /\ i < tx[c].next \/ i = tx[c].next
      BY <1>1, <1>5, <3>1 DEF RequestOK, Key
    <3>3. \A r, s \in tx[c].rows \cup {row} : r.key = s.key => r = s
      BY <1>1, <1>5, <1>7 DEF RequestOK
    <3>4. QED
      BY <1>1, <1>2, <1>4, <1>5, <1>6, <3>1, <3>2, <3>3 DEF RequestOK
  <2>2. PendingOK(c)'
    <3>1. \A r \in tx[c].rows :
             LET used == Versions(hist[tx[c].env][r.key])
             IN  /\ Visible(tx[c].env) /\ r.version >= 1
                 /\ r.version = 1 \/ r.version - 1 \in used
                 /\ live[tx[c].env][r.key] # NoRow
                      => r.version = live[tx[c].env][r.key].version + 1
                 /\ r.version \notin used
      BY <1>1, <1>7 DEF PendingOK, OpenSteps
    <3>2. Visible(tx[c].env)' <=> Visible(tx[c].env)
      BY <1>1, <1>6 DEF Visible
    <3>3. QED
      <4>1. /\ Visible(tx[c].env) /\ row.version >= 1
            /\ row.version = 1 \/ row.version - 1 \in Versions(hist[tx[c].env][row.key])
            /\ live[tx[c].env][row.key] # NoRow
                 => row.version = live[tx[c].env][row.key].version + 1
            /\ pc'[c] = "hist" /\ row.key = Key(c)'
        BY <1>4, <1>5, <1>6
      <4>2. /\ tx'[c].rows = tx[c].rows \cup {row} /\ tx'[c].env = tx[c].env
            /\ hist' = hist /\ live' = live
        BY <1>1, <1>6
      <4>3. QED
        BY <3>1, <3>2, <4>1, <4>2 DEF PendingOK
  <2>3. QuietOK(c)'
    BY <1>1, <1>5, <1>6, <1>9 DEF QuietOK, VersionTaken
  <2>4. QED
    BY <1>4, <2>1, <2>2, <2>3 DEF ClientOK, SeenOK, RepliedOK
<1>11. \A f \in Envs, k \in Keys :
          Holds(c, f, k)' => Holds(c, f, k) \/ ~LockedByOther(c, f, k)
  BY <1>1, <1>5, <1>6 DEF Written, Holds, OpenSteps
<1>12. AckedWritesAreRecorded'
  BY <1>1 DEF IndInv, TablesOK, AckedWritesAreRecorded
<1>13. \A d \in Clients \ {c} : tx'[d] = tx[d] /\ pc'[d] = pc[d]
  BY DEF WriteRow, IndInv, TypeOK
<1>14. QED
  BY <1>1, <1>8, <1>10, <1>11, <1>12, <1>13, LocalStep

\* ON CONFLICT DO UPDATE: the live row is the newest, so its version plus
\* one is new.
LEMMA UpdateLiveRowStep ==
    ASSUME IndInv, NEW c \in Clients, UpdateLiveRow(c)
    PROVE  IndInv'
<1> DEFINE e == tx[c].env
           k == Key(c)
           version == live[e][k].version + 1
<1>1. /\ pc[c] = "row" /\ ~LockedByOther(c, e, k) /\ live[e][k] # NoRow
      /\ WriteRow(c, version)
  BY DEF UpdateLiveRow
<1>2. k \in Keys /\ e \in Envs
  BY <1>1, KeyIsAKey DEF IndInv, ClientOK
<1>3. live[e][k] \in LiveRow /\ hist[e][k] \in SUBSET HistoryRow
  BY <1>2 DEF IndInv, TypeOK
<1>4. Visible(e)
  BY <1>1, <1>2 DEF IndInv, TablesOK, NoOrphanRows
<1>5. version - 1 \in Versions(hist[e][k]) /\ version \notin Versions(hist[e][k])
  <2>1. live[e][k].version \in Nat
    BY <1>3 DEF LiveRow
  <2>2. /\ live[e][k].version \in Versions(hist[e][k])
        /\ \A s \in hist[e][k] : s.version <= live[e][k].version
    BY <1>1, <1>2 DEF IndInv, TablesOK, LiveIsNewest, Versions
  <2>3. \A s \in hist[e][k] : s.version # version
    BY <2>1, <2>2
  <2>4. QED
    BY <2>1, <2>2, <2>3 DEF Versions
<1>6. version \in Nat /\ version >= 1
  BY <1>3 DEF LiveRow
<1>7. QED
  BY <1>1, <1>4, <1>5, <1>6, WriteRowStep

\* INSERT: the version follows the maximum that was read.
LEMMA InsertLiveRowStep ==
    ASSUME IndInv, NEW c \in Clients, InsertLiveRow(c)
    PROVE  IndInv'
<1> DEFINE e == tx[c].env
           k == Key(c)
           version == tx[c].seen + 1
<1>1. /\ pc[c] = "row" /\ ~LockedByOther(c, e, k) /\ live[e][k] = NoRow
      /\ env[e] = "live" /\ WriteRow(c, version)
  BY DEF InsertLiveRow, EnvPresent
<1>2. k \in Keys /\ e \in Envs
  BY <1>1, KeyIsAKey DEF IndInv, ClientOK
<1>3. tx[c].seen \in Nat /\ hist[e][k] \in SUBSET HistoryRow
  BY <1>2 DEF IndInv, TypeOK, Request
<1>4. Visible(e)
  BY <1>1 DEF Visible
<1>5. /\ tx[c].seen = 0 \/ tx[c].seen \in Versions(hist[e][k])
      /\ ~tx[c].disturbed => \A s \in hist[e][k] : s.version <= tx[c].seen
  BY <1>1 DEF IndInv, ClientOK, SeenOK
<1>6. version = 1 \/ version - 1 \in Versions(hist[e][k])
  BY <1>3, <1>5
<1>7. ~tx[c].disturbed => version \notin Versions(hist[e][k])
  BY <1>3, <1>5 DEF Versions, HistoryRow
<1>8. version \in Nat /\ version >= 1
  BY <1>3
<1>9. QED
  BY <1>1, <1>4, <1>6, <1>7, <1>8, WriteRowStep

\* INSERT INTO secret_history succeeds: the version was free.
LEMMA InsertHistoryStep ==
    ASSUME IndInv, NEW c \in Clients, InsertHistory(c)
    PROVE  IndInv'
<1> DEFINE step == IF tx[c].next = Len(tx[c].keys) THEN "commit" ELSE "max"
<1>1. /\ tx[c] \in Request /\ RequestOK(c) /\ PendingOK(c) /\ pc[c] = "hist"
      /\ UNCHANGED <<env, live, hist, acked>> /\ ~VersionTaken(c)
  BY DEF IndInv, TypeOK, ClientOK, InsertHistory
<1>2. /\ tx'[c] = [tx[c] EXCEPT !.next = @ + 1, !.shared = TRUE]
      /\ pc'[c] = step
  BY DEF InsertHistory, IndInv, TypeOK
<1>3. /\ tx'[c] \in Request
      /\ tx'[c].rows = tx[c].rows /\ tx'[c].env = tx[c].env
      /\ tx'[c].keys = tx[c].keys /\ tx'[c].next = tx[c].next + 1
  <2>1. tx[c].next + 1 \in Nat
    BY <1>1 DEF Request
  <2>2. [tx[c] EXCEPT !.next = tx[c].next + 1, !.shared = TRUE] \in Request
    BY <1>1, <2>1 DEF Request
  <2>3. QED
    BY <1>1, <1>2, <2>2 DEF Request
<1>4. \A r \in tx[c].rows : r.key = Key(c) => r = Pending(c)
  BY <1>1 DEF RequestOK, Pending, RowOf
<1>5. TypeOK'
  BY <1>1, <1>3 DEF IndInv, TypeOK, Steps, InsertHistory
<1>6. ClientOK(c)'
  <2>1. RequestOK(c)'
    <3>1. Len(tx[c].keys) \in Nat /\ tx[c].next \in 1..Len(tx[c].keys)
      BY <1>1 DEF RequestOK, Request
    <3>2. \A i \in 1..Len(tx[c].keys) : i <= tx[c].next => i < tx'[c].next
      BY <1>3, <3>1
    <3>3. QED
      BY <1>1, <1>2, <1>3, <3>1, <3>2 DEF RequestOK
  <2>2. PendingOK(c)'
    BY <1>1, <1>2, <1>3, <1>4 DEF PendingOK, OpenSteps, Visible, VersionTaken
  <2>3. QED
    BY <1>2, <2>1, <2>2 DEF ClientOK, SeenOK, QuietOK, RepliedOK
<1>7. \A f \in Envs, k \in Keys : Holds(c, f, k)' => Holds(c, f, k)
  BY <1>1, <1>3 DEF Written, Holds, OpenSteps
<1>8. AckedWritesAreRecorded'
  BY <1>1 DEF IndInv, TablesOK, AckedWritesAreRecorded
<1>9. \A d \in Clients \ {c} : tx'[d] = tx[d] /\ pc'[d] = pc[d]
  BY DEF InsertHistory, IndInv, TypeOK
<1>10. QED
  BY <1>1, <1>5, <1>6, <1>7, <1>8, <1>9, LocalStep

\* The response names rows that are recorded.
LEMMA ReplyStep ==
    ASSUME IndInv, NEW c \in Clients, Reply(c)
    PROVE  IndInv'
<1> DEFINE named == {[env |-> tx[c].env, key |-> r.key, version |-> Returned(c, r),
                      value |-> r.value, by |-> tx[c].id] : r \in tx[c].rows}
<1>1. /\ tx[c] \in Request /\ RequestOK(c) /\ RepliedOK(c) /\ pc[c] = "reply"
      /\ UNCHANGED <<env, live, hist, issued>>
      /\ acked' = acked \cup named
  BY DEF IndInv, TypeOK, ClientOK, Reply
<1>2. pc'[c] = "idle" /\ tx'[c] = Blank
  BY DEF IndInv, TypeOK, Reply
<1>3. tx[c].env \in Envs
  BY <1>1 DEF RequestOK
<1>4. \A a \in named :
         /\ a \in [env : Envs, key : Keys, version : Nat, value : Nat, by : Nat]
         /\ \/ env[a.env] = "gone"
            \/ \E r \in hist[a.env][a.key] :
                 r.version = a.version /\ r.value = a.value /\ r.by = a.by
  <2> SUFFICES ASSUME NEW r \in tx[c].rows
               PROVE  LET a == [env |-> tx[c].env, key |-> r.key, version |-> r.version,
                                value |-> r.value, by |-> tx[c].id]
                      IN  /\ a \in [env : Envs, key : Keys, version : Nat,
                                    value : Nat, by : Nat]
                          /\ \/ env[a.env] = "gone"
                             \/ \E h \in hist[a.env][a.key] :
                                  h.version = a.version /\ h.value = a.value /\ h.by = a.by
    BY DEF Returned
  <2>1. r \in PendingRow /\ tx[c].id \in Nat
    BY <1>1 DEF Request
  <2>2. QED
    BY <1>1, <1>3, <2>1 DEF RepliedOK, PendingRow
<1> HIDE DEF named
<1>5. TypeOK'
  BY <1>1, <1>4, BlankIsARequest DEF IndInv, TypeOK, Reply, Steps
<1>6. ClientOK(c)'
  BY <1>2 DEF ClientOK, RequestOK, PendingOK, SeenOK, QuietOK, RepliedOK, Blank, OpenSteps
<1>7. \A f \in Envs, k \in Keys : ~Holds(c, f, k)'
  BY <1>2 DEF Written, Holds, OpenSteps
<1>8. AckedWritesAreRecorded'
  BY <1>1, <1>4 DEF IndInv, TablesOK, AckedWritesAreRecorded
<1>9. \A d \in Clients \ {c} : tx'[d] = tx[d] /\ pc'[d] = pc[d]
  BY DEF Reply, IndInv, TypeOK
<1>10. QED
  BY <1>1, <1>5, <1>6, <1>7, <1>8, <1>9, LocalStep

------------------------------------------------------------------------------
(* Steps that change the tables.                                           *)

\* Being disturbed changes nothing of a request but the flag.
LEMMA DisturbFrame ==
    ASSUME TypeOK, NEW d \in Clients, NEW e, NEW K
    PROVE  /\ Disturb(d, e, K) \in Request
           /\ Disturb(d, e, K).id = tx[d].id
           /\ Disturb(d, e, K).keys = tx[d].keys
           /\ Disturb(d, e, K).next = tx[d].next
           /\ Disturb(d, e, K).env = tx[d].env
           /\ Disturb(d, e, K).rows = tx[d].rows
           /\ Disturb(d, e, K).seen = tx[d].seen
           /\ tx[d].disturbed => Disturb(d, e, K).disturbed
           /\ pc[d] \in {"row", "hist"} /\ tx[d].env = e /\ Key(d) \in K
                => Disturb(d, e, K).disturbed
BY DEF TypeOK, Disturb, Request

\* UPDATE secrets SET deleted_at: no history changes, and a pending row that
\* continued the deleted row still continues the log.
LEMMA DeleteRowStep ==
    ASSUME IndInv, NEW c \in Clients, DeleteRow(c)
    PROVE  IndInv'
<1> DEFINE e == tx[c].env
           k == Key(c)
<1>1. k \in Keys /\ e \in Envs /\ TypeOK
  BY KeyIsAKey DEF IndInv, ClientOK, DeleteRow
<1>2. /\ live' = [live EXCEPT ![e][k] = NoRow]
      /\ UNCHANGED <<env, hist, issued, acked>>
      /\ pc' = [pc EXCEPT ![c] = "idle"]
      /\ tx' = [d \in Clients |-> IF d = c THEN Blank ELSE Disturb(d, e, {k})]
  BY DEF DeleteRow
<1> HIDE DEF e, k
<1>3. pc'[c] = "idle" /\ tx'[c] = Blank
  BY <1>1, <1>2 DEF TypeOK
<1>4. \A d \in Clients \ {c} : pc'[d] = pc[d] /\ tx'[d] = Disturb(d, e, {k})
  BY <1>1, <1>2 DEF TypeOK
<1>5. \A f \in Envs, j \in Keys :
         live'[f][j] = IF f = e /\ j = k THEN NoRow ELSE live[f][j]
  BY <1>1, <1>2 DEF TypeOK
<1>6. TypeOK'
  <2>1. tx' \in [Clients -> Request]
    BY <1>1, <1>2, BlankIsARequest, DisturbFrame
  <2>2. live' \in [Envs -> [Keys -> LiveRow]]
    BY <1>1, <1>2 DEF TypeOK, LiveRow, NoRow
  <2>3. QED
    BY <1>1, <1>2, <2>1, <2>2 DEF TypeOK, Steps
<1>7. ASSUME NEW d \in Clients PROVE ClientOK(d)'
  <2>1. CASE d = c
    BY <1>3, <2>1 DEF ClientOK, RequestOK, PendingOK, SeenOK, QuietOK, RepliedOK,
                      Blank, OpenSteps
  <2>2. CASE d # c
    <3>1. /\ pc'[d] = pc[d] /\ tx'[d].id = tx[d].id /\ tx'[d].keys = tx[d].keys
          /\ tx'[d].next = tx[d].next /\ tx'[d].env = tx[d].env
          /\ tx'[d].rows = tx[d].rows /\ tx'[d].seen = tx[d].seen
          /\ tx[d].disturbed => tx'[d].disturbed
      BY <1>1, <1>4, <2>2, DisturbFrame
    <3>2. ClientOK(d) /\ tx[d] \in Request
      BY <1>1 DEF IndInv, TypeOK
    <3>3. RequestOK(d)'
      BY <3>1, <3>2 DEF ClientOK, RequestOK, Key
    <3>4. PendingOK(d)'
      <4> SUFFICES ASSUME pc[d] \in OpenSteps, NEW r \in tx[d].rows
                   PROVE  LET f == tx[d].env
                              used == Versions(hist[f][r.key])
                          IN  /\ Visible(f)
                              /\ r.version >= 1
                              /\ r.version = 1 \/ r.version - 1 \in used
                              /\ live'[f][r.key] # NoRow
                                   => r.version = live'[f][r.key].version + 1
                              /\ \/ r.version \notin used
                                 \/ (pc[d] = "hist" /\ r.key = Key(d))
        BY <1>2, <3>1 DEF PendingOK, Key, Visible
      <4>1. r.key \in Keys /\ tx[d].env \in Envs
        BY <3>2 DEF ClientOK, RequestOK, Request, PendingRow, OpenSteps
      <4>2. QED
        BY <1>5, <3>2, <4>1 DEF ClientOK, PendingOK, NoRow
    <3>5. SeenOK(d)'
      BY <1>2, <3>1, <3>2 DEF ClientOK, SeenOK, Key
    <3>6. QuietOK(d)'
      BY <1>2, <3>1, <3>2 DEF ClientOK, QuietOK, Key, VersionTaken, Pending, RowOf
    <3>7. RepliedOK(d)'
      <4>1. env' = env /\ hist' = hist
        BY <1>2
      <4>2. QED
        BY <3>1, <3>2, <4>1 DEF ClientOK, RepliedOK
    <3>8. QED
      BY <3>3, <3>4, <3>5, <3>6, <3>7 DEF ClientOK
  <2>3. QED
    BY <2>1, <2>2
<1>8. LocksExclusive'
  <2>1. \A d \in Clients, f \in Envs, j \in Keys : Holds(d, f, j)' => Holds(d, f, j)
    BY <1>1, <1>3, <1>4, DisturbFrame DEF Written, Holds, OpenSteps
  <2>2. QED
    BY <2>1 DEF IndInv, LocksExclusive
<1>9. TablesOK'
  BY <1>2, <1>5 DEF IndInv, TablesOK, HistoryIsALog, LiveIsNewest, NoOrphanRows,
                    AckedWritesAreRecorded, Visible
<1>10. QED
  BY <1>6, <1>7, <1>8, <1>9 DEF IndInv

\* COMMIT: each row it publishes is newer than all the others of its key.
LEMMA CommitStep ==
    ASSUME IndInv, NEW c \in Clients, Commit(c)
    PROVE  IndInv'
<1> DEFINE e == tx[c].env
           K == Written(c)
           New(k) == Recorded(c, RowOf(c, k))
<1>1. /\ TypeOK /\ tx[c] \in Request /\ RequestOK(c) /\ PendingOK(c) /\ pc[c] = "commit"
      /\ e \in Envs
  BY DEF IndInv, TypeOK, ClientOK, RequestOK, Commit
<1>2. ASSUME NEW k \in K
      PROVE  /\ k \in Keys
             /\ RowOf(c, k) \in tx[c].rows /\ RowOf(c, k).key = k
             /\ RowOf(c, k) \in PendingRow
             /\ \A s \in tx[c].rows : s.key = k => s = RowOf(c, k)
             /\ New(k) \in HistoryRow
             /\ New(k).version = RowOf(c, k).version /\ New(k).value = RowOf(c, k).value
             /\ New(k).by = tx[c].id
  <2>1. PICK r \in tx[c].rows : r.key = k
    BY DEF Written
  <2>2. RowOf(c, k) \in tx[c].rows /\ RowOf(c, k).key = k
    BY <2>1 DEF RowOf
  <2>3. RowOf(c, k) \in PendingRow /\ tx[c].id \in Nat
    BY <1>1, <2>2 DEF Request
  <2>4. \A s \in tx[c].rows : s.key = k => s = RowOf(c, k)
    BY <1>1, <2>2 DEF RequestOK
  <2>5. QED
    BY <2>2, <2>3, <2>4 DEF PendingRow, HistoryRow, Recorded
<1>3. /\ live' = [live EXCEPT ![e] = [k \in Keys |->
              IF k \in K THEN Upserted(@[k], RowOf(c, k)) ELSE @[k]]]
      /\ hist' = [hist EXCEPT ![e] = [k \in Keys |->
              IF k \in K THEN @[k] \cup {New(k)} ELSE @[k]]]
  BY DEF Commit
<1>4. /\ UNCHANGED <<env, issued, acked>>
      /\ pc'[c] = "reply" /\ tx'[c] = [tx[c] EXCEPT !.shared = FALSE]
      /\ \A d \in Clients \ {c} : pc'[d] = pc[d] /\ tx'[d] = Disturb(d, e, K)
  BY <1>1 DEF Commit, TypeOK
<1>5. /\ tx'[c] \in Request
      /\ tx'[c].id = tx[c].id /\ tx'[c].keys = tx[c].keys /\ tx'[c].next = tx[c].next
      /\ tx'[c].env = e /\ tx'[c].rows = tx[c].rows
  BY <1>1, <1>4 DEF Request
<1> HIDE DEF K, New
<1>6. ASSUME NEW f \in Envs, NEW k \in Keys
      PROVE  /\ live'[f][k] = IF f = e /\ k \in K
                              THEN Upserted(live[f][k], RowOf(c, k)) ELSE live[f][k]
             /\ hist'[f][k] = IF f = e /\ k \in K
                              THEN hist[f][k] \cup {New(k)} ELSE hist[f][k]
  BY <1>1, <1>3 DEF TypeOK
<1>7. TypeOK'
  <2>1. tx' \in [Clients -> Request]
    BY <1>1, <1>4, <1>5, DisturbFrame DEF Commit
  <2>2. live' \in [Envs -> [Keys -> LiveRow]]
    <3>1. \A k \in K : Upserted(live[e][k], RowOf(c, k)) \in LiveRow
      BY <1>2 DEF Upserted, LiveRow, PendingRow
    <3>2. QED
      BY <1>1, <1>2, <1>3, <3>1 DEF TypeOK
  <2>3. hist' \in [Envs -> [Keys -> SUBSET HistoryRow]]
    <3>1. \A k \in K : New(k) \in HistoryRow
      BY <1>2
    <3>2. QED
      BY <1>1, <1>3, <3>1 DEF TypeOK
  <2>4. QED
    BY <1>1, <1>4, <2>1, <2>2, <2>3 DEF TypeOK, Steps, Commit
<1>8. ASSUME NEW k \in K
      PROVE  LET r == RowOf(c, k)
                 used == Versions(hist[e][k])
             IN  /\ Visible(e)
                 /\ r.version \in Nat /\ r.version >= 1 /\ r.version \notin used
                 /\ r.version = 1 \/ r.version - 1 \in used
                 /\ \A s \in hist[e][k] : s.version < r.version
  <2>1. /\ Visible(e) /\ RowOf(c, k).version \in Nat /\ RowOf(c, k).version >= 1
        /\ RowOf(c, k).version \notin Versions(hist[e][k])
        /\ RowOf(c, k).version = 1 \/ RowOf(c, k).version - 1 \in Versions(hist[e][k])
    BY <1>1, <1>2 DEF PendingOK, OpenSteps, PendingRow
  <2>2. ASSUME NEW s \in hist[e][k] PROVE s.version < RowOf(c, k).version
    <3>1. s.version \in Nat
      <4>1. hist[e][k] \in SUBSET HistoryRow
        BY <1>1, <1>2 DEF TypeOK
      <4>2. QED
        BY <4>1 DEF HistoryRow
    <3>2. CASE s.version >= RowOf(c, k).version
      <4>1. RowOf(c, k).version \in 1..s.version
        BY <2>1, <3>1, <3>2
      <4>2. RowOf(c, k).version \in Versions(hist[e][k])
        BY <1>1, <1>2, <4>1 DEF IndInv, TablesOK, HistoryIsALog
      <4>3. QED
        BY <2>1, <4>2
    <3>3. QED
      BY <2>1, <3>1, <3>2
  <2>3. QED
    BY <2>1, <2>2
<1>9. \A f \in Envs, k \in Keys : hist[f][k] \subseteq hist'[f][k]
  BY <1>6
<1>10. ClientOK(c)'
  <2>1. RequestOK(c)'
    BY <1>1, <1>4, <1>5 DEF RequestOK
  <2>2. RepliedOK(c)'
    <3>1. ASSUME NEW r \in tx[c].rows
          PROVE  \E h \in hist'[e][r.key] :
                    h.version = r.version /\ h.value = r.value /\ h.by = tx[c].id
      <4>1. r.key \in K /\ r.key \in Keys /\ r = RowOf(c, r.key)
        BY <1>2 DEF K, Written
      <4>2. New(r.key) \in hist'[e][r.key]
        BY <1>1, <1>6, <4>1
      <4>3. QED
        BY <1>2, <4>1, <4>2
    <3>2. QED
      BY <1>5, <3>1 DEF RepliedOK
  <2>3. QED
    BY <1>4, <2>1, <2>2 DEF ClientOK, PendingOK, SeenOK, QuietOK, OpenSteps
<1>11. ASSUME NEW d \in Clients, d # c
       PROVE  ClientOK(d)'
  <2>1. /\ pc'[d] = pc[d] /\ tx'[d].id = tx[d].id /\ tx'[d].keys = tx[d].keys
        /\ tx'[d].next = tx[d].next /\ tx'[d].env = tx[d].env
        /\ tx'[d].rows = tx[d].rows /\ tx'[d].seen = tx[d].seen
        /\ tx[d].disturbed => tx'[d].disturbed
        /\ pc[d] \in {"row", "hist"} /\ tx[d].env = e /\ Key(d) \in K => tx'[d].disturbed
    BY <1>1, <1>4, <1>11, DisturbFrame
  <2>2. ClientOK(d) /\ tx[d] \in Request /\ env' = env
    BY <1>1, <1>4 DEF IndInv, TypeOK
  <2>3. RequestOK(d)'
    BY <2>1, <2>2 DEF ClientOK, RequestOK, Key
  <2>4. ASSUME pc[d] \in OpenSteps, NEW r \in tx[d].rows
        PROVE  /\ tx[d].env \in Envs /\ r.key \in Keys
               /\ live'[tx[d].env][r.key] = live[tx[d].env][r.key]
               /\ hist'[tx[d].env][r.key] = hist[tx[d].env][r.key]
    <3>1. tx[d].env \in Envs /\ r.key \in Keys
      BY <2>2, <2>4 DEF ClientOK, RequestOK, Request, PendingRow, OpenSteps
    <3>2. Holds(d, tx[d].env, r.key)
      BY <2>4 DEF Holds, Written
    <3>3. ~(tx[d].env = e /\ r.key \in K)
      <4>1. r.key \in K /\ tx[d].env = e => Holds(c, tx[d].env, r.key)
        BY <1>1 DEF Holds, K, OpenSteps
      <4>2. QED
        BY <1>11, <3>1, <3>2, <4>1 DEF IndInv, LocksExclusive
    <3>4. QED
      BY <1>6, <3>1, <3>3
  <2>5. PendingOK(d)'
    BY <2>1, <2>2, <2>4 DEF ClientOK, PendingOK, Visible, Key
  <2>6. SeenOK(d)'
    <3>1. CASE pc[d] = "row"
      <4>1. Key(d) \in Keys /\ tx[d].env \in Envs
        BY <1>1, <2>2, <3>1, KeyIsAKey DEF ClientOK
      <4>2. CASE tx[d].env = e /\ Key(d) \in K
        BY <1>9, <2>1, <2>2, <3>1, <4>1, <4>2 DEF ClientOK, SeenOK, Key, Versions
      <4>3. CASE ~(tx[d].env = e /\ Key(d) \in K)
        <5>1. hist'[tx[d].env][Key(d)] = hist[tx[d].env][Key(d)]
          BY <1>6, <4>1, <4>3
        <5>2. QED
          BY <2>1, <2>2, <5>1 DEF ClientOK, SeenOK, Key
      <4>4. QED
        BY <4>2, <4>3
    <3>2. CASE pc[d] # "row"
      BY <2>1, <3>2 DEF SeenOK
    <3>3. QED
      BY <3>1, <3>2
  <2>7. QuietOK(d)'
    <3>1. CASE pc[d] = "hist"
      <4>1. PICK r \in tx[d].rows : r.key = Key(d)
        BY <2>2, <3>1 DEF ClientOK, RequestOK
      <4>2. hist'[tx[d].env][Key(d)] = hist[tx[d].env][Key(d)]
        BY <2>4, <3>1, <4>1 DEF OpenSteps
      <4>3. QED
        BY <2>1, <2>2, <4>2 DEF ClientOK, QuietOK, Key, VersionTaken, Pending, RowOf
    <3>2. CASE pc[d] # "hist"
      BY <2>1, <3>2 DEF QuietOK
    <3>3. QED
      BY <3>1, <3>2
  <2>8. RepliedOK(d)'
    <3>1. ASSUME pc[d] = "reply", NEW r \in tx[d].rows
          PROVE  tx[d].env \in Envs /\ r.key \in Keys
      BY <2>2, <3>1 DEF ClientOK, RequestOK, Request, PendingRow
    <3>2. QED
      BY <1>9, <2>1, <2>2, <3>1 DEF ClientOK, RepliedOK
  <2>9. QED
    BY <2>3, <2>5, <2>6, <2>7, <2>8 DEF ClientOK
<1>12. LocksExclusive'
  <2>1. \A d \in Clients, f \in Envs, k \in Keys : Holds(d, f, k)' => Holds(d, f, k)
    BY <1>1, <1>4, DisturbFrame DEF Written, Holds, OpenSteps
  <2>2. QED
    BY <2>1 DEF IndInv, LocksExclusive
<1>13. TablesOK'
  <2>1. ASSUME NEW f \in Envs, NEW k \in Keys PROVE HasNewest(hist[f][k])'
    <3>1. CASE f = e /\ k \in K
      <4>1. \A s \in hist[e][k] : s.version < New(k).version
        BY <1>2, <1>8, <3>1
      <4>2. New(k).version \in Nat
        BY <1>2, <3>1 DEF HistoryRow
      <4>3. hist'[e][k] = hist[e][k] \cup {New(k)}
        BY <1>6, <3>1
      <4>4. \A s \in hist'[e][k] : s.version <= New(k).version
        <5>1. \A s \in hist[e][k] : s.version \in Nat
          <6>1. hist[e][k] \in SUBSET HistoryRow
            BY <1>1 DEF TypeOK
          <6>2. QED
            BY <6>1 DEF HistoryRow
        <5>2. QED
          BY <4>1, <4>2, <4>3, <5>1
      <4>5. QED
        BY <3>1, <4>3, <4>4 DEF HasNewest
    <3>2. CASE ~(f = e /\ k \in K)
      <4>1. hist'[f][k] = hist[f][k] /\ HasNewest(hist[f][k])
        BY <1>6, <3>2 DEF IndInv, TablesOK
      <4>2. QED
        BY <4>1 DEF HasNewest
    <3>3. QED
      BY <3>1, <3>2
  <2>2. HistoryIsALog'
    <3> SUFFICES ASSUME NEW f \in Envs, NEW k \in Keys, NEW r \in hist'[f][k]
                 PROVE  /\ r.version >= 1
                        /\ \A s \in hist'[f][k] : r.version = s.version => r = s
                        /\ \A v \in 1..r.version : v \in Versions(hist'[f][k])
      BY DEF HistoryIsALog
    <3>1. /\ \A s, t \in hist[f][k] : s.version = t.version => s = t
          /\ \A s \in hist[f][k] : /\ s.version >= 1
                                   /\ \A v \in 1..s.version : v \in Versions(hist[f][k])
      BY DEF IndInv, TablesOK, HistoryIsALog
    <3>2. CASE f = e /\ k \in K
      <4> DEFINE n == New(k)
      <4>1. hist'[f][k] = hist[f][k] \cup {n}
        BY <1>6, <3>2
      <4>2. /\ n.version \in Nat /\ n.version >= 1
            /\ n.version = 1 \/ n.version - 1 \in Versions(hist[f][k])
            /\ \A s \in hist[f][k] : s.version < n.version
        BY <1>2, <1>8, <3>2
      <4>3. \A s \in hist[f][k] : s.version \in Nat
        <5>1. hist[f][k] \in SUBSET HistoryRow
          BY <1>1 DEF TypeOK
        <5>2. QED
          BY <5>1 DEF HistoryRow
      <4> HIDE DEF n
      <4>4. \A v \in 1..n.version : v \in Versions(hist'[f][k])
        <5>1. SUFFICES ASSUME NEW v \in 1..n.version PROVE v \in Versions(hist'[f][k])
          OBVIOUS
        <5>2. CASE v = n.version
          BY <4>1, <5>2 DEF Versions
        <5>3. CASE v # n.version
          <6>1. n.version - 1 \in Versions(hist[f][k]) /\ v \in 1..n.version - 1
            BY <4>2, <5>1, <5>3
          <6>2. PICK s \in hist[f][k] : s.version = n.version - 1
            BY <6>1 DEF Versions
          <6>3. v \in Versions(hist[f][k])
            BY <3>1, <6>1, <6>2
          <6>4. QED
            BY <4>1, <6>3 DEF Versions
        <5>4. QED
          BY <5>2, <5>3
      <4>5. CASE r = n
        <5>1. \A s \in hist'[f][k] : r.version = s.version => r = s
          BY <4>1, <4>2, <4>3, <4>5
        <5>2. QED
          BY <4>2, <4>4, <4>5, <5>1
      <4>6. CASE r \in hist[f][k]
        <5>1. r.version >= 1 /\ r.version < n.version
          BY <3>1, <4>2, <4>6
        <5>2. \A s \in hist'[f][k] : r.version = s.version => r = s
          BY <3>1, <4>1, <4>2, <4>3, <4>6, <5>1
        <5>3. \A v \in 1..r.version : v \in Versions(hist'[f][k])
          BY <3>1, <4>1, <4>6 DEF Versions
        <5>4. QED
          BY <5>1, <5>2, <5>3
      <4>7. QED
        BY <4>1, <4>5, <4>6
    <3>3. CASE ~(f = e /\ k \in K)
      <4>1. hist'[f][k] = hist[f][k]
        BY <1>6, <3>3
      <4>2. QED
        BY <3>1, <4>1
    <3>4. QED
      BY <3>2, <3>3
  <2>3. LiveIsNewest'
    <3> SUFFICES ASSUME NEW f \in Envs, NEW k \in Keys, live'[f][k] # NoRow
                 PROVE  /\ \E r \in hist'[f][k] : /\ r.version = live'[f][k].version
                                                  /\ r.value = live'[f][k].value
                        /\ \A s \in hist'[f][k] : s.version <= live'[f][k].version
      BY DEF LiveIsNewest
    <3>1. CASE f = e /\ k \in K
      <4>1. /\ live'[f][k].version = New(k).version /\ live'[f][k].value = New(k).value
            /\ hist'[f][k] = hist[f][k] \cup {New(k)}
        <5>1. live'[f][k] = Upserted(live[f][k], RowOf(c, k))
          BY <1>6, <3>1
        <5>2. hist'[f][k] = hist[f][k] \cup {New(k)}
          BY <1>6, <3>1
        <5>3. New(k).version = RowOf(c, k).version /\ New(k).value = RowOf(c, k).value
          BY <1>2, <3>1
        <5>4. QED
          BY <5>1, <5>2, <5>3 DEF Upserted
      <4>2. /\ New(k).version \in Nat
            /\ \A s \in hist[f][k] : s.version < New(k).version
        BY <1>2, <1>8, <3>1
      <4>3. \A s \in hist[f][k] : s.version \in Nat
        <5>1. hist[f][k] \in SUBSET HistoryRow
          BY <1>1 DEF TypeOK
        <5>2. QED
          BY <5>1 DEF HistoryRow
      <4>4. QED
        BY <4>1, <4>2, <4>3
    <3>2. CASE ~(f = e /\ k \in K)
      <4>1. live'[f][k] = live[f][k] /\ hist'[f][k] = hist[f][k]
        BY <1>6, <3>2
      <4>2. QED
        BY <4>1 DEF IndInv, TablesOK, LiveIsNewest
    <3>3. QED
      BY <3>1, <3>2
  <2>4. NoOrphanRows'
    <3> SUFFICES ASSUME NEW f \in Envs, ~Visible(f), NEW k \in Keys
                 PROVE  live'[f][k] = NoRow /\ hist'[f][k] = {}
      BY <1>4 DEF NoOrphanRows, Visible
    <3>1. ~(f = e /\ k \in K)
      BY <1>8
    <3>2. QED
      BY <1>6, <3>1 DEF IndInv, TablesOK, NoOrphanRows
  <2>5. AckedWritesAreRecorded'
    <3>1. \A a \in acked : a.env \in Envs /\ a.key \in Keys
      BY <1>1 DEF TypeOK
    <3>2. QED
      BY <1>4, <1>9, <3>1 DEF IndInv, TablesOK, AckedWritesAreRecorded
  <2>6. QED
    BY <2>1, <2>2, <2>3, <2>4, <2>5 DEF TablesOK
<1>14. \A d \in Clients : ClientOK(d)'
  BY <1>10, <1>11
<1>15. QED
  BY <1>7, <1>12, <1>13, <1>14 DEF IndInv

\* Creating the environment, locking its row for deletion and giving the
\* deletion up change no row; a visible environment stays visible.
LEMMA EnvRowStep ==
    ASSUME IndInv, NEW e \in Envs,
           CreateEnv(e) \/ LockEnv(e) \/ CancelDrop(e)
    PROVE  IndInv'
<1>1. /\ UNCHANGED <<live, hist, pc, tx, issued, acked>>
      /\ env' \in [Envs -> {"free", "live", "dropping", "gone"}]
      /\ \A f \in Envs : Visible(f) => Visible(f)'
      /\ \A f \in Envs : (env[f] = "gone") <=> (env'[f] = "gone")
  BY DEF IndInv, TypeOK, CreateEnv, LockEnv, CancelDrop, Visible
<1>2. TypeOK'
  BY <1>1 DEF IndInv, TypeOK
<1>3. ASSUME NEW d \in Clients PROVE ClientOK(d)'
  <2>1. ClientOK(d)
    BY DEF IndInv
  <2>2. RequestOK(d)' /\ QuietOK(d)'
    BY <1>1, <2>1 DEF ClientOK, RequestOK, QuietOK, Key, VersionTaken, Pending, RowOf
  <2>3. pc[d] \notin {"idle", "resolve"} => tx[d].env \in Envs
    BY <2>1 DEF ClientOK, RequestOK
  <2>4. PendingOK(d)'
    BY <1>1, <2>1, <2>3 DEF ClientOK, PendingOK, OpenSteps, Key
  <2>5. SeenOK(d)' /\ RepliedOK(d)'
    BY <1>1, <2>1, <2>3 DEF ClientOK, SeenOK, RepliedOK, Key
  <2>6. QED
    BY <2>2, <2>4, <2>5 DEF ClientOK
<1>4. LocksExclusive'
  BY <1>1 DEF IndInv, LocksExclusive, Holds, Written
<1>5. TablesOK'
  <2>1. \A a \in acked : a.env \in Envs
    BY DEF IndInv, TypeOK
  <2>2. QED
    BY <1>1, <2>1 DEF IndInv, TablesOK, HasNewest, HistoryIsALog, LiveIsNewest,
                      NoOrphanRows, AckedWritesAreRecorded
<1>6. QED
  BY <1>2, <1>3, <1>4, <1>5 DEF IndInv

\* ON DELETE CASCADE: no transaction has written in the environment, so none
\* loses the row it continues.
LEMMA CascadeEnvStep ==
    ASSUME IndInv, NEW e \in Envs, CascadeEnv(e)
    PROVE  IndInv'
<1>1. /\ UNCHANGED <<pc, tx, issued, acked>>
      /\ \A f \in Envs : env'[f] = IF f = e THEN "gone" ELSE env[f]
      /\ \A f \in Envs : f # e => live'[f] = live[f] /\ hist'[f] = hist[f]
      /\ \A k \in Keys : live'[e][k] = NoRow /\ hist'[e][k] = {}
  BY DEF IndInv, TypeOK, CascadeEnv
<1>2. TypeOK'
  BY DEF IndInv, TypeOK, CascadeEnv, NoRow, LiveRow
<1>3. ASSUME NEW d \in Clients PROVE ClientOK(d)'
  <2>1. ClientOK(d) /\ tx[d] \in Request
    BY DEF IndInv, TypeOK
  <2>2. pc[d] \notin {"idle", "resolve"} => tx[d].env \in Envs
    BY <2>1 DEF ClientOK, RequestOK
  <2>3. pc[d] \in OpenSteps /\ tx[d].env = e => tx[d].rows = {}
    <3>1. SUFFICES ASSUME pc[d] \in OpenSteps, tx[d].env = e, NEW r \in tx[d].rows
                   PROVE  FALSE
      OBVIOUS
    <3>2. Holds(d, e, r.key) /\ r.key \in Keys
      BY <2>1, <3>1 DEF Holds, Written, Request, PendingRow
    <3>3. QED
      BY <3>2 DEF CascadeEnv, RowsLocked
  <2>4. RequestOK(d)'
    BY <1>1, <2>1 DEF ClientOK, RequestOK, Key
  <2>5. PendingOK(d)'
    BY <1>1, <2>1, <2>2, <2>3 DEF ClientOK, PendingOK, OpenSteps, Key, Visible
  <2>6. SeenOK(d)'
    BY <1>1, <2>1, <2>2 DEF ClientOK, SeenOK, Key
  <2>7. QuietOK(d)'
    <3>1. CASE pc[d] = "hist"
      <4>1. tx[d].env # e
        BY <2>1, <2>3, <3>1 DEF ClientOK, RequestOK, OpenSteps
      <4>2. hist'[tx[d].env] = hist[tx[d].env]
        BY <1>1, <2>2, <3>1, <4>1
      <4>3. QED
        BY <1>1, <2>1, <4>2 DEF ClientOK, QuietOK, Key, VersionTaken, Pending, RowOf
    <3>2. CASE pc[d] # "hist"
      BY <1>1, <3>2 DEF QuietOK
    <3>3. QED
      BY <3>1, <3>2
  <2>8. RepliedOK(d)'
    BY <1>1, <2>1, <2>2 DEF ClientOK, RepliedOK
  <2>9. QED
    BY <2>4, <2>5, <2>6, <2>7, <2>8 DEF ClientOK
<1>4. LocksExclusive'
  BY <1>1 DEF IndInv, LocksExclusive, Holds, Written
<1>5. TablesOK'
  <2>1. \A a \in acked : a.env \in Envs
    BY DEF IndInv, TypeOK
  <2>2. \A f \in Envs, k \in Keys :
           \/ live'[f][k] = live[f][k] /\ hist'[f][k] = hist[f][k]
           \/ live'[f][k] = NoRow /\ hist'[f][k] = {}
    BY <1>1
  <2>3. (\A f \in Envs, k \in Keys : HasNewest(hist[f][k]))'
    BY <2>2 DEF IndInv, TablesOK, HasNewest
  <2>4. HistoryIsALog'
    BY <2>2 DEF IndInv, TablesOK, HistoryIsALog
  <2>5. LiveIsNewest'
    BY <2>2 DEF IndInv, TablesOK, LiveIsNewest
  <2>6. NoOrphanRows' /\ AckedWritesAreRecorded'
    BY <1>1, <2>1 DEF IndInv, TablesOK, NoOrphanRows, AckedWritesAreRecorded, Visible
  <2>7. QED
    BY <2>3, <2>4, <2>5, <2>6 DEF TablesOK
<1>6. QED
  BY <1>2, <1>3, <1>4, <1>5 DEF IndInv

------------------------------------------------------------------------------
(* The theorems.                                                           *)

\* The empty database with one environment satisfies the invariant.
LEMMA InitIndInv == Init => IndInv
<1> SUFFICES ASSUME Init PROVE IndInv
  OBVIOUS
<1>1. TypeOK
  BY BlankIsARequest DEF Init, TypeOK, Steps, NoRow, LiveRow
<1>2. \A c \in Clients : ClientOK(c)
  BY BlankIsOK DEF Init
<1>3. LocksExclusive
  BY DEF Init, LocksExclusive, Holds, OpenSteps
<1>4. TablesOK
  BY DEF Init, TablesOK, HasNewest, HistoryIsALog, LiveIsNewest, NoOrphanRows,
         AckedWritesAreRecorded
<1>5. QED
  BY <1>1, <1>2, <1>3, <1>4 DEF IndInv

\* Every statement of every client, every step of the environment's
\* life and every deadlock abort preserves the invariant.
LEMMA NextIndInv == IndInv /\ [Next]_vars => IndInv'
<1> SUFFICES ASSUME IndInv, [Next]_vars PROVE IndInv'
  OBVIOUS
<1>1. ASSUME NEW c \in Clients, Progress(c) PROVE IndInv'
  <2>1. CASE ResolveEnv(c)
    BY <2>1, ResolveEnvStep
  <2>2. CASE ReadTarget(c)
    BY <2>2, ReadTargetStep
  <2>3. CASE DeleteRow(c)
    BY <2>3, DeleteRowStep
  <2>4. CASE SelectMaxVersion(c)
    BY <2>4, SelectMaxVersionStep
  <2>5. CASE UpdateLiveRow(c)
    BY <2>5, UpdateLiveRowStep
  <2>6. CASE InsertLiveRow(c)
    BY <2>6, InsertLiveRowStep
  <2>7. CASE InsertHistory(c)
    BY <2>7, InsertHistoryStep
  <2>8. CASE Commit(c)
    BY <2>8, CommitStep
  <2>9. CASE Reply(c)
    BY <2>9, ReplyStep
  <2>10. CASE \/ EnvNotFound(c) \/ TargetNotFound(c) \/ DeleteNotFound(c)
              \/ EnvGone(c) \/ UniqueViolation(c)
    BY <2>10, AbortStep
       DEF EnvNotFound, TargetNotFound, DeleteNotFound, EnvGone, UniqueViolation
  <2>11. QED
    BY <1>1, <2>1, <2>2, <2>3, <2>4, <2>5, <2>6, <2>7, <2>8, <2>9, <2>10 DEF Progress
<1>2. ASSUME NEW c \in Clients, NewRequest(c) PROVE IndInv'
  BY <1>2, RequestStep
<1>3. ASSUME NEW c \in Clients, Fail(c) \/ DeadlockVictim(c) PROVE IndInv'
  BY <1>3, AbortStep DEF Fail, DeadlockVictim
<1>4. ASSUME NEW e \in Envs, EnvStep(e) \/ DropVictim(e) PROVE IndInv'
  BY <1>4, EnvRowStep, CascadeEnvStep DEF EnvStep, DropVictim
<1>5. CASE UNCHANGED vars
  <2>1. \A d \in Clients : ClientOK(d)'
    BY <1>5, ClientFrame DEF vars, IndInv
  <2>2. TablesOK'
    BY <1>5, TablesFrame DEF vars, IndInv
  <2>3. TypeOK' /\ LocksExclusive'
    BY <1>5 DEF vars, IndInv, TypeOK, LocksExclusive, Holds, Written
  <2>4. QED
    BY <2>1, <2>2, <2>3 DEF IndInv
<1>6. QED
  BY <1>1, <1>2, <1>3, <1>4, <1>5 DEF Next, BreakDeadlock

\* The inductive invariant holds of every behaviour.
THEOREM IndInvHolds == Spec => []IndInv
<1>1. QED
  BY InitIndInv, NextIndInv, PTL DEF Spec

\* Types: in every reachable state rows are rows and requests are requests,
\* the key a request is at is one it names, and every version is a number.
THEOREM TypeCorrect == Spec => []TypeOK
<1>1. IndInv => TypeOK
  BY DEF IndInv
<1>2. QED
  BY <1>1, IndInvHolds, PTL

\* Version numbers of a key are 1, 2, 3, ... each used once, for any number
\* of concurrent writers and any stale MAX(version) they start from.
THEOREM HistoryStaysALog == Spec => []HistoryIsALog
<1>1. IndInv => HistoryIsALog
  BY DEF IndInv, TablesOK
<1>2. QED
  BY <1>1, IndInvHolds, PTL

\* The live row is always the newest version of its key.
THEOREM LiveStaysNewest == Spec => []LiveIsNewest
<1>1. IndInv => LiveIsNewest
  BY DEF IndInv, TablesOK
<1>2. QED
  BY <1>1, IndInvHolds, PTL

\* No acknowledged write is ever lost while its environment exists.
THEOREM AckedWritesStayRecorded == Spec => []AckedWritesAreRecorded
<1>1. IndInv => AckedWritesAreRecorded
  BY DEF IndInv, TablesOK
<1>2. QED
  BY <1>1, IndInvHolds, PTL

\* A deleted or not yet created environment never has rows.
THEOREM OrphansNeverExist == Spec => []NoOrphanRows
<1>1. IndInv => NoOrphanRows
  BY DEF IndInv, TablesOK
<1>2. QED
  BY <1>1, IndInvHolds, PTL

\* A write that nobody disturbed never fails on its version number: re-insert
\* after delete works for any key, any history and any number of clients.
THEOREM QuietWritesAlwaysSucceed == Spec => []QuietWritesSucceed
<1>1. IndInv => QuietWritesSucceed
  BY DEF IndInv, ClientOK, QuietOK, QuietWritesSucceed
<1>2. QED
  BY <1>1, IndInvHolds, PTL

------------------------------------------------------------------------------
(* Whole writes and rollbacks: which rows of the history are a request's.  *)

\* A request and what it has written so far; only an accepted write has a number.
OwnOK(c) ==
    /\ pc[c] = "idle" <=> tx[c].kind = "none"
    /\ pc[c] = "delete" => tx[c].kind = "delete"
    /\ tx[c].kind = "delete" => pc[c] \in {"resolve", "delete"}
    /\ tx[c].kind \in {"set", "bulk", "rollback"} => tx[c].id >= 1
    /\ tx[c].id <= issued
    /\ tx[c].kind = "rollback" => Len(tx[c].keys) = 1
    /\ \A i \in 1..Len(tx[c].keys) :
         i < tx[c].next \/ (i = tx[c].next /\ pc[c] = "hist") =>
             \E r \in tx[c].rows : r.key = tx[c].keys[i]
    /\ \A r \in tx[c].rows : r.value = tx[c].value

\* The version a rollback read stays in the history, below the one it makes.
TargetOK(c) ==
    tx[c].kind = "rollback" /\ pc[c] \in OpenSteps \cup {"reply"} /\ env[tx[c].env] # "gone" =>
        /\ \E old \in hist[tx[c].env][tx[c].keys[1]] :
             old.version = tx[c].target /\ old.value = tx[c].value
        /\ pc[c] = "reply" => \A r \in tx[c].rows : r.version > tx[c].target

\* Nothing of a request is in the history before it commits.
UnseenOK(c) ==
    pc[c] # "reply" /\ tx[c].id # 0 =>
        \A e \in Envs, k \in Keys : \A h \in hist[e][k] : h.by # tx[c].id

Numbered ==
    /\ \A e \in Envs, k \in Keys : \A h \in hist[e][k] : h.by <= issued
    /\ \A c, d \in Clients : tx[c].id = tx[d].id /\ tx[c].id # 0 => c = d

WholeInv ==
    /\ \A c \in Clients : OwnOK(c) /\ TargetOK(c) /\ UnseenOK(c)
    /\ Numbered

\* A client that stays as it is, while no history that it may read loses rows.
LEMMA OwnFrame ==
    ASSUME NEW d \in Clients, OwnOK(d),
           issued \in Nat, issued' \in Nat, issued <= issued', tx[d].id \in Nat,
           pc'[d] = pc[d],
           tx'[d].id = tx[d].id, tx'[d].kind = tx[d].kind, tx'[d].keys = tx[d].keys,
           tx'[d].next = tx[d].next, tx'[d].rows = tx[d].rows, tx'[d].value = tx[d].value
    PROVE  OwnOK(d)'
BY DEF OwnOK

LEMMA BlankIsWhole ==
    ASSUME NEW c \in Clients, pc[c] = "idle", tx[c] = Blank, issued \in Nat
    PROVE  OwnOK(c) /\ TargetOK(c) /\ UnseenOK(c)
BY DEF OwnOK, TargetOK, UnseenOK, Blank, OpenSteps

\* A step of c that leaves the history and the environments alone.
LEMMA WholeLocal ==
    ASSUME IndInv, WholeInv, NEW c \in Clients, UNCHANGED <<env, hist, issued>>,
           OwnOK(c)', TargetOK(c)', UnseenOK(c)', tx'[c].id \in {0, tx[c].id},
           \A d \in Clients \ {c} : tx'[d] = tx[d] /\ pc'[d] = pc[d]
    PROVE  WholeInv'
<1>1. ASSUME NEW d \in Clients, d # c PROVE OwnOK(d)' /\ TargetOK(d)' /\ UnseenOK(d)'
  <2>1. tx'[d] = tx[d] /\ pc'[d] = pc[d] /\ OwnOK(d) /\ TargetOK(d) /\ UnseenOK(d)
    BY <1>1 DEF WholeInv
  <2>2. OwnOK(d)'
    BY <2>1 DEF OwnOK
  <2>3. TargetOK(d)' /\ UnseenOK(d)'
    BY <2>1 DEF TargetOK, UnseenOK
  <2>4. QED
    BY <2>2, <2>3
<1>2. Numbered'
  BY DEF WholeInv, Numbered
<1>3. QED
  BY <1>1, <1>2 DEF WholeInv

LEMMA AbortWhole == ASSUME IndInv, WholeInv, NEW c \in Clients, Abort(c) PROVE WholeInv'
<1>1. /\ pc'[c] = "idle" /\ tx'[c] = Blank /\ UNCHANGED <<env, hist, issued>>
      /\ \A d \in Clients \ {c} : tx'[d] = tx[d] /\ pc'[d] = pc[d]
  BY DEF Abort, IndInv, TypeOK
<1>2. tx'[c].id = 0 /\ issued' \in Nat
  BY <1>1 DEF Blank, IndInv, TypeOK
<1>3. OwnOK(c)' /\ TargetOK(c)' /\ UnseenOK(c)'
  BY <1>1, <1>2 DEF OwnOK, TargetOK, UnseenOK, Blank, OpenSteps
<1>4. QED
  BY <1>1, <1>2, <1>3, WholeLocal

LEMMA ReplyWhole == ASSUME IndInv, WholeInv, NEW c \in Clients, Reply(c) PROVE WholeInv'
<1>1. /\ pc'[c] = "idle" /\ tx'[c] = Blank /\ UNCHANGED <<env, hist, issued>>
      /\ \A d \in Clients \ {c} : tx'[d] = tx[d] /\ pc'[d] = pc[d]
  BY DEF Reply, IndInv, TypeOK
<1>2. tx'[c].id = 0 /\ issued' \in Nat
  BY <1>1 DEF Blank, IndInv, TypeOK
<1>3. OwnOK(c)' /\ TargetOK(c)' /\ UnseenOK(c)'
  BY <1>1, <1>2 DEF OwnOK, TargetOK, UnseenOK, Blank, OpenSteps
<1>4. QED
  BY <1>1, <1>2, <1>3, WholeLocal

LEMMA ResolveWhole ==
    ASSUME IndInv, WholeInv, NEW c \in Clients, ResolveEnv(c) PROVE WholeInv'
<1>1. PICK e \in Envs : /\ pc' = [pc EXCEPT ![c] = FirstStep(tx[c].kind)]
                        /\ tx' = [tx EXCEPT ![c].env = e]
  BY DEF ResolveEnv
<1>2. /\ tx[c] \in Request /\ RequestOK(c) /\ pc[c] = "resolve" /\ OwnOK(c) /\ UnseenOK(c)
      /\ UNCHANGED <<env, hist, issued>>
  BY DEF IndInv, TypeOK, ClientOK, WholeInv, ResolveEnv
<1>3. pc'[c] = FirstStep(tx[c].kind) /\ tx'[c] = [tx[c] EXCEPT !.env = e]
  BY <1>1 DEF IndInv, TypeOK
<1>4. /\ tx'[c].id = tx[c].id /\ tx'[c].kind = tx[c].kind /\ tx'[c].keys = tx[c].keys
      /\ tx'[c].next = tx[c].next /\ tx'[c].rows = tx[c].rows /\ tx'[c].value = tx[c].value
  BY <1>2, <1>3 DEF Request
<1>5. /\ tx[c].kind = "delete" <=> pc'[c] = "delete"
      /\ tx[c].kind = "rollback" <=> pc'[c] = "target"
      /\ pc'[c] \in {"delete", "target", "max"}
  BY <1>3 DEF FirstStep
<1>6. OwnOK(c)'
  <2>1. tx[c].next = 1 /\ tx[c].rows = {} /\ Len(tx[c].keys) \in Nat
    BY <1>2 DEF RequestOK, Request
  <2>2. QED
    BY <1>2, <1>4, <1>5, <2>1 DEF OwnOK
<1>7. TargetOK(c)' /\ UnseenOK(c)'
  BY <1>2, <1>4, <1>5 DEF TargetOK, UnseenOK, OpenSteps
<1>8. \A d \in Clients \ {c} : tx'[d] = tx[d] /\ pc'[d] = pc[d]
  BY <1>1 DEF IndInv, TypeOK
<1>9. QED
  BY <1>2, <1>4, <1>6, <1>7, <1>8, WholeLocal

LEMMA ReadTargetWhole ==
    ASSUME IndInv, WholeInv, NEW c \in Clients, ReadTarget(c) PROVE WholeInv'
<1>1. /\ tx[c] \in Request /\ RequestOK(c) /\ pc[c] = "target" /\ OwnOK(c) /\ UnseenOK(c)
      /\ UNCHANGED <<env, hist, issued>>
  BY DEF IndInv, TypeOK, ClientOK, WholeInv, ReadTarget
<1>2. PICK r \in hist[tx[c].env][Key(c)] :
        r.version = tx[c].target /\ tx' = [tx EXCEPT ![c].value = r.value]
  BY DEF ReadTarget
<1>3. pc'[c] = "max" /\ tx'[c] = [tx[c] EXCEPT !.value = r.value]
  BY <1>2 DEF ReadTarget, IndInv, TypeOK
<1>4. /\ tx'[c].id = tx[c].id /\ tx'[c].kind = tx[c].kind /\ tx'[c].keys = tx[c].keys
      /\ tx'[c].next = tx[c].next /\ tx'[c].rows = tx[c].rows /\ tx'[c].value = r.value
      /\ tx'[c].env = tx[c].env /\ tx'[c].target = tx[c].target
  BY <1>1, <1>3 DEF Request
<1>5. tx[c].next = 1 /\ tx[c].rows = {} /\ Len(tx[c].keys) \in Nat /\ Key(c) = tx[c].keys[1]
  BY <1>1 DEF RequestOK, Request, Key
<1>6. OwnOK(c)'
  BY <1>1, <1>3, <1>4, <1>5 DEF OwnOK
<1>7. TargetOK(c)' /\ UnseenOK(c)'
  BY <1>1, <1>2, <1>3, <1>4, <1>5 DEF TargetOK, UnseenOK
<1>8. \A d \in Clients \ {c} : tx'[d] = tx[d] /\ pc'[d] = pc[d]
  BY <1>2 DEF ReadTarget, IndInv, TypeOK
<1>9. QED
  BY <1>1, <1>4, <1>6, <1>7, <1>8, WholeLocal

\* The statements of the transaction up to COMMIT.
LEMMA StatementWhole ==
    ASSUME IndInv, WholeInv, NEW c \in Clients,
           UNCHANGED <<env, hist, issued>>,
           pc[c] \in {"max", "row", "hist"}, pc'[c] \in OpenSteps,
           tx'[c].id = tx[c].id, tx'[c].kind = tx[c].kind, tx'[c].keys = tx[c].keys,
           tx'[c].env = tx[c].env, tx'[c].target = tx[c].target,
           tx'[c].value = tx[c].value,
           \A i \in 1..Len(tx[c].keys) :
               i < tx'[c].next \/ (i = tx'[c].next /\ pc'[c] = "hist") =>
                   \E r \in tx'[c].rows : r.key = tx[c].keys[i],
           \A r \in tx'[c].rows : r.value = tx[c].value,
           \A d \in Clients \ {c} : tx'[d] = tx[d] /\ pc'[d] = pc[d]
    PROVE  WholeInv'
<1>1. OwnOK(c) /\ TargetOK(c) /\ UnseenOK(c)
  BY DEF WholeInv
<1>2. pc[c] \in OpenSteps /\ pc[c] \notin {"idle", "delete", "resolve", "reply"}
  BY DEF OpenSteps
<1>3. pc'[c] \notin {"idle", "delete", "resolve", "reply"}
  BY DEF OpenSteps
<1>4. OwnOK(c)'
  BY <1>1, <1>2, <1>3 DEF OwnOK
<1>5. TargetOK(c)'
  BY <1>1, <1>2, <1>3 DEF TargetOK
<1>6. UnseenOK(c)'
  BY <1>1, <1>2, <1>3 DEF UnseenOK
<1>7. QED
  BY <1>4, <1>5, <1>6, WholeLocal

LEMMA SelectMaxWhole ==
    ASSUME IndInv, WholeInv, NEW c \in Clients, SelectMaxVersion(c) PROVE WholeInv'
<1>1. /\ tx[c] \in Request /\ pc[c] = "max" /\ OwnOK(c)
      /\ UNCHANGED <<env, hist, issued>>
  BY DEF IndInv, TypeOK, WholeInv, SelectMaxVersion
<1>2. PICK m : tx' = [tx EXCEPT ![c].seen = m, ![c].disturbed = FALSE]
  BY DEF SelectMaxVersion
<1>3. pc'[c] = "row" /\ tx'[c] = [tx[c] EXCEPT !.seen = m, !.disturbed = FALSE]
  BY <1>2 DEF SelectMaxVersion, IndInv, TypeOK
<1>4. /\ tx'[c].id = tx[c].id /\ tx'[c].kind = tx[c].kind /\ tx'[c].keys = tx[c].keys
      /\ tx'[c].next = tx[c].next /\ tx'[c].rows = tx[c].rows /\ tx'[c].value = tx[c].value
      /\ tx'[c].env = tx[c].env /\ tx'[c].target = tx[c].target
  BY <1>1, <1>3 DEF Request
<1>5. \A d \in Clients \ {c} : tx'[d] = tx[d] /\ pc'[d] = pc[d]
  BY <1>2 DEF SelectMaxVersion, IndInv, TypeOK
<1>6. pc'[c] \in OpenSteps
  BY <1>3 DEF OpenSteps
<1>7. \A i \in 1..Len(tx[c].keys) :
         i < tx'[c].next \/ (i = tx'[c].next /\ pc'[c] = "hist") =>
             \E r \in tx'[c].rows : r.key = tx[c].keys[i]
  BY <1>1, <1>3, <1>4 DEF OwnOK
<1>8. \A r \in tx'[c].rows : r.value = tx[c].value
  BY <1>1, <1>4 DEF OwnOK
<1>9. QED
  BY <1>1, <1>4, <1>5, <1>6, <1>7, <1>8, StatementWhole

LEMMA WriteRowWhole ==
    ASSUME IndInv, WholeInv, NEW c \in Clients, NEW version, pc[c] = "row",
           WriteRow(c, version)
    PROVE  WholeInv'
<1>1. /\ tx[c] \in Request /\ OwnOK(c) /\ RequestOK(c)
      /\ UNCHANGED <<env, hist, issued>>
  BY DEF IndInv, TypeOK, ClientOK, WholeInv, WriteRow
<1>2. PICK row, sh : /\ row = [key |-> Key(c), version |-> version, value |-> tx[c].value]
                     /\ tx' = [tx EXCEPT ![c].rows = @ \cup {row}, ![c].shared = sh]
  BY DEF WriteRow
<1>3. row.key = Key(c) /\ row.value = tx[c].value
  BY <1>2
<1>4. pc'[c] = "hist" /\ tx'[c] = [tx[c] EXCEPT !.rows = @ \cup {row}, !.shared = sh]
  BY <1>2 DEF WriteRow, IndInv, TypeOK
<1>5. /\ tx'[c].id = tx[c].id /\ tx'[c].kind = tx[c].kind /\ tx'[c].keys = tx[c].keys
      /\ tx'[c].next = tx[c].next /\ tx'[c].rows = tx[c].rows \cup {row}
      /\ tx'[c].value = tx[c].value
      /\ tx'[c].env = tx[c].env /\ tx'[c].target = tx[c].target
  BY <1>1, <1>4 DEF Request
<1>6. \A d \in Clients \ {c} : tx'[d] = tx[d] /\ pc'[d] = pc[d]
  BY <1>2 DEF WriteRow, IndInv, TypeOK
<1>7. pc'[c] \in OpenSteps
  BY <1>4 DEF OpenSteps
<1>8. ASSUME NEW i \in 1..Len(tx[c].keys), i < tx[c].next \/ i = tx[c].next
      PROVE  \E r \in tx'[c].rows : r.key = tx[c].keys[i]
  <2>1. CASE i = tx[c].next
    BY <1>3, <1>5, <2>1 DEF Key
  <2>2. CASE i < tx[c].next
    BY <1>1, <1>5, <2>2 DEF OwnOK
  <2>3. QED
    BY <1>8, <2>1, <2>2
<1>9. \A i \in 1..Len(tx[c].keys) :
         i < tx'[c].next \/ (i = tx'[c].next /\ pc'[c] = "hist") =>
             \E r \in tx'[c].rows : r.key = tx[c].keys[i]
  BY <1>5, <1>8
<1>10. \A r \in tx'[c].rows : r.value = tx[c].value
  BY <1>1, <1>3, <1>5 DEF OwnOK
<1>11. QED
  BY <1>1, <1>5, <1>6, <1>7, <1>9, <1>10, StatementWhole

LEMMA InsertHistoryWhole ==
    ASSUME IndInv, WholeInv, NEW c \in Clients, InsertHistory(c) PROVE WholeInv'
<1>1. /\ tx[c] \in Request /\ pc[c] = "hist" /\ OwnOK(c) /\ RequestOK(c)
      /\ UNCHANGED <<env, hist, issued>>
  BY DEF IndInv, TypeOK, ClientOK, WholeInv, InsertHistory
<1>2. /\ pc'[c] \in {"commit", "max"}
      /\ tx'[c] = [tx[c] EXCEPT !.next = @ + 1, !.shared = TRUE]
      /\ \A d \in Clients \ {c} : tx'[d] = tx[d] /\ pc'[d] = pc[d]
  BY DEF InsertHistory, IndInv, TypeOK
<1>3. /\ tx'[c].id = tx[c].id /\ tx'[c].kind = tx[c].kind /\ tx'[c].keys = tx[c].keys
      /\ tx'[c].next = tx[c].next + 1 /\ tx'[c].rows = tx[c].rows
      /\ tx'[c].value = tx[c].value
      /\ tx'[c].env = tx[c].env /\ tx'[c].target = tx[c].target
  BY <1>1, <1>2 DEF Request
<1>4. pc'[c] \in OpenSteps /\ pc'[c] # "hist"
  BY <1>2 DEF OpenSteps
<1>5. ASSUME NEW i \in 1..Len(tx[c].keys), i < tx[c].next + 1
      PROVE  \E r \in tx[c].rows : r.key = tx[c].keys[i]
  <2>1. i < tx[c].next \/ i = tx[c].next
    BY <1>1, <1>5 DEF Request
  <2>2. QED
    BY <1>1, <2>1 DEF OwnOK
<1>6. \A i \in 1..Len(tx[c].keys) :
         i < tx'[c].next \/ (i = tx'[c].next /\ pc'[c] = "hist") =>
             \E r \in tx'[c].rows : r.key = tx[c].keys[i]
  BY <1>3, <1>4, <1>5
<1>7. \A r \in tx'[c].rows : r.value = tx[c].value
  BY <1>1, <1>3 DEF OwnOK
<1>8. QED
  BY <1>1, <1>2, <1>3, <1>4, <1>6, <1>7, StatementWhole

\* A new request has the next number, or none.
LEMMA AcceptWhole ==
    ASSUME IndInv, IndInv', WholeInv, NEW c \in Clients, NEW request \in Request,
           Accept(c, request),
           \/ issued' = issued + 1 /\ request.id = issued' /\ request.kind # "delete"
           \/ UNCHANGED issued /\ request.id = 0 /\ request.kind = "delete",
           request.kind # "none",
           request.kind = "rollback" => Len(request.keys) = 1,
           request.next = 1, request.rows = {}
    PROVE  WholeInv'
<1>1. /\ pc'[c] = "resolve" /\ tx'[c] = request /\ UNCHANGED <<env, hist>>
      /\ \A d \in Clients \ {c} : tx'[d] = tx[d] /\ pc'[d] = pc[d]
  BY DEF Accept, IndInv, TypeOK
<1>2. issued \in Nat /\ issued' \in Nat /\ issued <= issued' /\ request.id <= issued'
  BY DEF IndInv, TypeOK
<1>3. Len(request.keys) \in Nat
  BY DEF Request
<1>4. ASSUME NEW f \in Envs, NEW k \in Keys, NEW h \in hist[f][k]
      PROVE  h.by \in Nat /\ h.by <= issued
  <2>1. hist[f][k] \in SUBSET HistoryRow
    BY DEF IndInv, TypeOK
  <2>2. QED
    BY <2>1 DEF HistoryRow, WholeInv, Numbered
<1>5. OwnOK(c)'
  BY <1>1, <1>2, <1>3 DEF OwnOK, Request, Kinds
<1>6. TargetOK(c)'
  BY <1>1 DEF TargetOK, OpenSteps
<1>7. UnseenOK(c)'
  <2>1. ASSUME request.id # 0, NEW f \in Envs, NEW k \in Keys, NEW h \in hist[f][k]
        PROVE  h.by # request.id
    BY <1>2, <1>4, <2>1
  <2>2. QED
    BY <1>1, <2>1 DEF UnseenOK
<1>8. ASSUME NEW d \in Clients, d # c PROVE OwnOK(d)' /\ TargetOK(d)' /\ UnseenOK(d)'
  <2>1. tx'[d] = tx[d] /\ pc'[d] = pc[d] /\ OwnOK(d) /\ TargetOK(d) /\ UnseenOK(d)
    BY <1>1, <1>8 DEF WholeInv
  <2>2. tx[d].id \in Nat
    BY DEF IndInv, TypeOK, Request
  <2>3. OwnOK(d)'
    BY <1>2, <2>1, <2>2, OwnFrame
  <2>4. TargetOK(d)' /\ UnseenOK(d)'
    BY <1>1, <2>1 DEF TargetOK, UnseenOK
  <2>5. QED
    BY <2>3, <2>4
<1>9. Numbered'
  <2>1. \A f \in Envs, k \in Keys : \A h \in hist'[f][k] : h.by <= issued'
    BY <1>1, <1>2, <1>4
  <2>2. ASSUME NEW a \in Clients, NEW d \in Clients, tx'[a].id = tx'[d].id, tx'[a].id # 0
        PROVE  a = d
    <3>1. \A x \in Clients \ {c} : tx[x].id <= issued /\ tx[x].id \in Nat
      BY DEF WholeInv, OwnOK, IndInv, TypeOK, Request
    <3>2. CASE a # c /\ d # c
      BY <1>1, <2>2, <3>2 DEF WholeInv, Numbered
    <3>3. CASE (a = c /\ d # c) \/ (a # c /\ d = c)
      BY <1>1, <1>2, <2>2, <3>1, <3>3
    <3>4. QED
      BY <3>2, <3>3
  <2>3. QED
    BY <2>1, <2>2 DEF Numbered
<1>10. QED
  BY <1>5, <1>6, <1>7, <1>8, <1>9 DEF WholeInv

LEMMA NewRequestWhole ==
    ASSUME IndInv, IndInv', WholeInv, NEW c \in Clients, NewRequest(c) PROVE WholeInv'
<1>1. issued \in Nat
  BY DEF IndInv, TypeOK
<1>2. ASSUME NEW kind \in {"set", "bulk", "rollback"}, NEW keys \in Seq(Keys), NEW target \in Nat,
             kind = "rollback" => Len(keys) = 1, AcceptWrite(c, kind, keys, target)
      PROVE  WholeInv'
  <2>1. PICK n \in Nat : n = issued + 1 /\ n = issued'
    BY <1>1, <1>2 DEF AcceptWrite
  <2>2. PICK request : request = [Blank EXCEPT !.id = n, !.kind = kind, !.keys = keys,
                                               !.target = target, !.value = n]
    OBVIOUS
  <2>3. /\ request \in Request /\ request.id = n /\ request.kind = kind
        /\ request.keys = keys /\ request.next = 1 /\ request.rows = {}
    BY <2>2, BlankIsARequest DEF Blank, Request, Kinds
  <2>4. Accept(c, request)
    BY <1>2, <2>1, <2>2 DEF AcceptWrite
  <2>5. QED
    BY <1>2, <2>1, <2>3, <2>4, AcceptWhole
<1>3. ASSUME NEW k \in Keys, Set(c, k) PROVE WholeInv'
  <2>1. <<k>> \in Seq(Keys) /\ AcceptWrite(c, "set", <<k>>, 0)
    BY <1>3 DEF Set
  <2>2. QED
    BY <1>2, <2>1
<1>4. ASSUME NEW k \in Keys, NEW v \in 1..MaxRequests, Rollback(c, k, v) PROVE WholeInv'
  <2>1. <<k>> \in Seq(Keys) /\ Len(<<k>>) = 1 /\ AcceptWrite(c, "rollback", <<k>>, v)
    BY <1>4 DEF Rollback
  <2>2. v \in Nat
    BY BoundsAssumption
  <2>3. QED
    BY <1>2, <2>1, <2>2
<1>5. ASSUME NEW n \in 0..MaxBulk + 1, NEW keys \in [1..n -> Keys], BulkSet(c, keys)
      PROVE  WholeInv'
  <2>1. keys \in Seq(Keys)
    BY <1>5, BoundsAssumption
  <2>2. QED
    BY <1>2, <1>5, <2>1 DEF BulkSet
<1>6. ASSUME NEW k \in Keys, Delete(c, k) PROVE WholeInv'
  <2>1. PICK request : request = [Blank EXCEPT !.kind = "delete", !.keys = <<k>>]
    OBVIOUS
  <2>2. /\ request \in Request /\ request.id = 0 /\ request.kind = "delete"
        /\ request.next = 1 /\ request.rows = {}
    <3>1. <<k>> \in Seq(Keys) /\ Blank \in Request /\ "delete" \in Kinds
      BY BlankIsARequest DEF Kinds
    <3>2. request \in Request
      BY <2>1, <3>1 DEF Request
    <3>3. QED
      BY <2>1, <3>2 DEF Blank
  <2>3. Accept(c, request) /\ UNCHANGED issued
    BY <1>6, <2>1 DEF Delete
  <2>4. QED
    BY <2>2, <2>3, AcceptWhole
<1>7. QED
  BY <1>3, <1>4, <1>5, <1>6 DEF NewRequest

\* Being disturbed changes nothing the invariant looks at.
LEMMA DisturbKeeps ==
    ASSUME TypeOK, NEW d \in Clients, NEW e, NEW K
    PROVE  /\ Disturb(d, e, K).id = tx[d].id /\ Disturb(d, e, K).kind = tx[d].kind
           /\ Disturb(d, e, K).keys = tx[d].keys /\ Disturb(d, e, K).next = tx[d].next
           /\ Disturb(d, e, K).rows = tx[d].rows /\ Disturb(d, e, K).value = tx[d].value
           /\ Disturb(d, e, K).env = tx[d].env /\ Disturb(d, e, K).target = tx[d].target
BY DEF TypeOK, Disturb, Request

LEMMA DeleteRowWhole ==
    ASSUME IndInv, WholeInv, NEW c \in Clients, DeleteRow(c) PROVE WholeInv'
<1>1. PICK e, K : tx' = [d \in Clients |-> IF d = c THEN Blank ELSE Disturb(d, e, K)]
  BY DEF DeleteRow
<1>2. /\ pc'[c] = "idle" /\ tx'[c] = Blank /\ UNCHANGED <<env, hist, issued>>
      /\ \A d \in Clients \ {c} : tx'[d] = Disturb(d, e, K) /\ pc'[d] = pc[d]
      /\ issued \in Nat /\ TypeOK
  BY <1>1 DEF DeleteRow, IndInv, TypeOK
<1>3. OwnOK(c)' /\ TargetOK(c)' /\ UnseenOK(c)' /\ tx'[c].id = 0
  BY <1>2 DEF OwnOK, TargetOK, UnseenOK, Blank, OpenSteps
<1>4. ASSUME NEW d \in Clients, d # c
      PROVE  OwnOK(d)' /\ TargetOK(d)' /\ UnseenOK(d)' /\ tx'[d].id = tx[d].id
  <2>1. /\ pc'[d] = pc[d] /\ OwnOK(d) /\ TargetOK(d) /\ UnseenOK(d)
        /\ tx'[d].id = tx[d].id /\ tx'[d].kind = tx[d].kind /\ tx'[d].keys = tx[d].keys
        /\ tx'[d].next = tx[d].next /\ tx'[d].rows = tx[d].rows /\ tx'[d].value = tx[d].value
        /\ tx'[d].env = tx[d].env /\ tx'[d].target = tx[d].target
    BY <1>2, <1>4, DisturbKeeps DEF WholeInv
  <2>2. OwnOK(d)'
    BY <1>2, <2>1 DEF OwnOK
  <2>3. TargetOK(d)' /\ UnseenOK(d)'
    BY <1>2, <2>1 DEF TargetOK, UnseenOK
  <2>4. QED
    BY <2>1, <2>2, <2>3
<1>5. Numbered'
  BY <1>2, <1>3, <1>4 DEF WholeInv, Numbered
<1>6. QED
  BY <1>3, <1>4, <1>5 DEF WholeInv

\* COMMIT adds one row per key to the history, with the request's number.
LEMMA CommitWhole ==
    ASSUME IndInv, IndInv', WholeInv, NEW c \in Clients, Commit(c) PROVE WholeInv'
<1>1. PICK e, K : /\ e = tx[c].env /\ K = Written(c)
                  /\ hist' = [hist EXCEPT ![e] = [k \in Keys |->
                       IF k \in K THEN @[k] \cup {Recorded(c, RowOf(c, k))} ELSE @[k]]]
                  /\ tx' = [d \in Clients |-> IF d = c THEN [tx[c] EXCEPT !.shared = FALSE]
                                                       ELSE Disturb(d, e, K)]
  BY DEF Commit
<1>2. /\ TypeOK /\ tx[c] \in Request /\ RequestOK(c) /\ PendingOK(c) /\ pc[c] = "commit"
      /\ e \in Envs /\ OwnOK(c) /\ TargetOK(c) /\ UnseenOK(c) /\ issued \in Nat
      /\ UNCHANGED <<env, issued>>
  BY <1>1 DEF IndInv, TypeOK, ClientOK, RequestOK, Commit, WholeInv
<1>3. /\ pc'[c] = "reply" /\ tx'[c] = [tx[c] EXCEPT !.shared = FALSE]
      /\ \A d \in Clients \ {c} : pc'[d] = pc[d] /\ tx'[d] = Disturb(d, e, K)
  BY <1>1, <1>2 DEF Commit, TypeOK
<1>4. /\ tx'[c].id = tx[c].id /\ tx'[c].kind = tx[c].kind /\ tx'[c].keys = tx[c].keys
      /\ tx'[c].next = tx[c].next /\ tx'[c].rows = tx[c].rows /\ tx'[c].value = tx[c].value
      /\ tx'[c].env = tx[c].env /\ tx'[c].target = tx[c].target
  BY <1>2, <1>3 DEF Request
<1>5. ASSUME NEW f \in Envs, NEW k \in Keys
      PROVE  hist[f][k] \subseteq hist'[f][k]
  BY <1>1, <1>2 DEF TypeOK
<1>6. ASSUME NEW f \in Envs, NEW k \in Keys, NEW h \in hist'[f][k], h \notin hist[f][k]
      PROVE  h.by = tx[c].id
  <2>1. hist'[f][k] = hist[f][k] \/ hist'[f][k] = hist[f][k] \cup {Recorded(c, RowOf(c, k))}
    BY <1>1, <1>2 DEF TypeOK
  <2>2. h = Recorded(c, RowOf(c, k))
    BY <1>6, <2>1
  <2>3. QED
    BY <2>2 DEF Recorded
<1>7. tx[c].id # 0
  BY <1>2 DEF OwnOK, Request, Kinds
<1>8. ASSUME NEW r \in tx[c].rows, tx[c].kind = "rollback"
      PROVE  r.key = tx[c].keys[1]
  BY <1>2, <1>8 DEF RequestOK, OwnOK
<1>9. OwnOK(c)'
  BY <1>2, <1>3, <1>4 DEF OwnOK
<1>10. UnseenOK(c)'
  BY <1>3 DEF UnseenOK
<1>11. TargetOK(c)'
  <2> SUFFICES ASSUME tx[c].kind = "rollback", env[e] # "gone"
               PROVE  /\ \E old \in hist'[e][tx[c].keys[1]] :
                           old.version = tx[c].target /\ old.value = tx[c].value
                      /\ \A r \in tx[c].rows : r.version > tx[c].target
    <3>1. tx'[c].env = e /\ env' = env
      BY <1>1, <1>2, <1>4
    <3>2. QED
      BY <1>4, <3>1 DEF TargetOK
  <2>1. tx[c].keys[1] \in Keys
    BY <1>2 DEF OwnOK, Request
  <2>2. PICK old \in hist[e][tx[c].keys[1]] : old.version = tx[c].target /\ old.value = tx[c].value
    BY <1>1, <1>2 DEF TargetOK, OpenSteps
  <2>3. old \in hist'[e][tx[c].keys[1]]
    BY <1>2, <1>5, <2>1
  <2>4. ASSUME NEW r \in tx[c].rows PROVE r.version > old.version
    <3>1. r.key = tx[c].keys[1] /\ r \in PendingRow
      BY <1>2, <1>8 DEF Request
    <3>2. r.version \in Nat /\ r.version >= 1 /\ r.version \notin Versions(hist[e][tx[c].keys[1]])
      BY <1>1, <1>2, <3>1 DEF PendingOK, PendingRow, OpenSteps
    <3>3. old.version \in Nat
      <4>1. hist[e][tx[c].keys[1]] \in SUBSET HistoryRow
        BY <1>2, <2>1 DEF TypeOK
      <4>2. QED
        BY <4>1 DEF HistoryRow
    <3>4. ASSUME r.version <= old.version PROVE FALSE
      <4>1. r.version \in 1..old.version
        BY <3>2, <3>3, <3>4
      <4>2. r.version \in Versions(hist[e][tx[c].keys[1]])
        BY <1>2, <2>1, <4>1 DEF IndInv, TablesOK, HistoryIsALog
      <4>3. QED
        BY <3>2, <4>2
    <3>5. QED
      BY <3>2, <3>3, <3>4
  <2>5. QED
    BY <2>2, <2>3, <2>4
<1>12. ASSUME NEW d \in Clients, d # c
       PROVE  OwnOK(d)' /\ TargetOK(d)' /\ UnseenOK(d)' /\ tx'[d].id = tx[d].id
  <2>1. /\ pc'[d] = pc[d] /\ OwnOK(d) /\ TargetOK(d) /\ UnseenOK(d)
        /\ tx'[d].id = tx[d].id /\ tx'[d].kind = tx[d].kind /\ tx'[d].keys = tx[d].keys
        /\ tx'[d].next = tx[d].next /\ tx'[d].rows = tx[d].rows /\ tx'[d].value = tx[d].value
        /\ tx'[d].env = tx[d].env /\ tx'[d].target = tx[d].target
    BY <1>2, <1>3, <1>12, DisturbKeeps DEF WholeInv
  <2>2. OwnOK(d)'
    BY <1>2, <2>1 DEF OwnOK
  <2>3. TargetOK(d)'
    <3>1. tx[d].kind = "rollback" /\ pc[d] \in OpenSteps \cup {"reply"} =>
             tx[d].env \in Envs /\ tx[d].keys[1] \in Keys
      <4> SUFFICES ASSUME tx[d].kind = "rollback", pc[d] \in OpenSteps \cup {"reply"}
                   PROVE  tx[d].env \in Envs /\ tx[d].keys[1] \in Keys
        OBVIOUS
      <4>1. tx[d].env \in Envs
        BY DEF IndInv, ClientOK, RequestOK, OpenSteps
      <4>2. tx[d].keys \in Seq(Keys) /\ Len(tx[d].keys) = 1
        BY <1>2, <2>1 DEF OwnOK, TypeOK, Request
      <4>3. QED
        BY <4>1, <4>2
    <3>2. QED
      BY <1>2, <1>5, <2>1, <3>1 DEF TargetOK
  <2>4. UnseenOK(d)'
    <3>1. ASSUME tx[d].id # 0 PROVE tx[c].id # tx[d].id
      BY <1>12, <3>1 DEF WholeInv, Numbered
    <3>2. QED
      BY <1>6, <2>1, <3>1 DEF UnseenOK
  <2>5. QED
    BY <2>1, <2>2, <2>3, <2>4
<1>13. Numbered'
  <2>1. \A f \in Envs, k \in Keys : \A h \in hist'[f][k] : h.by <= issued'
    BY <1>2, <1>6 DEF WholeInv, Numbered, OwnOK
  <2>2. \A a, d \in Clients : tx'[a].id = tx'[d].id /\ tx'[a].id # 0 => a = d
    BY <1>4, <1>12 DEF WholeInv, Numbered
  <2>3. QED
    BY <2>1, <2>2 DEF Numbered
<1>14. QED
  BY <1>9, <1>10, <1>11, <1>12, <1>13 DEF WholeInv

\* The environment's row comes and goes; its cascade takes history away.
LEMMA EnvWhole ==
    ASSUME IndInv, WholeInv, NEW e \in Envs,
           CreateEnv(e) \/ LockEnv(e) \/ CascadeEnv(e) \/ CancelDrop(e)
    PROVE  WholeInv'
<1>1. /\ UNCHANGED <<pc, tx, issued>> /\ issued \in Nat
      /\ \A f \in Envs : env'[f] # "gone" => env[f] # "gone" /\ hist'[f] = hist[f]
      /\ \A f \in Envs, k \in Keys : hist'[f][k] \subseteq hist[f][k]
  BY DEF IndInv, TypeOK, CreateEnv, LockEnv, CascadeEnv, CancelDrop
<1>2. ASSUME NEW d \in Clients PROVE OwnOK(d)' /\ TargetOK(d)' /\ UnseenOK(d)'
  <2>1. OwnOK(d) /\ TargetOK(d) /\ UnseenOK(d) /\ ClientOK(d)
    BY DEF WholeInv, IndInv
  <2>2. OwnOK(d)'
    BY <1>1, <2>1 DEF OwnOK
  <2>3. pc[d] \in OpenSteps \cup {"reply"} => tx[d].env \in Envs
    BY <2>1 DEF ClientOK, RequestOK, OpenSteps
  <2>4. TargetOK(d)'
    BY <1>1, <2>1, <2>3 DEF TargetOK
  <2>5. UnseenOK(d)'
    BY <1>1, <2>1 DEF UnseenOK
  <2>6. QED
    BY <2>2, <2>4, <2>5
<1>3. Numbered'
  BY <1>1 DEF WholeInv, Numbered
<1>4. QED
  BY <1>2, <1>3 DEF WholeInv

LEMMA WholeInit == Init => WholeInv
<1> SUFFICES ASSUME Init PROVE WholeInv
  OBVIOUS
<1>1. \A c \in Clients : OwnOK(c) /\ TargetOK(c) /\ UnseenOK(c)
  BY BlankIsWhole DEF Init
<1>2. Numbered
  BY DEF Init, Numbered, Blank
<1>3. QED
  BY <1>1, <1>2 DEF WholeInv

LEMMA WholeNext == IndInv /\ IndInv' /\ WholeInv /\ [Next]_vars => WholeInv'
<1> SUFFICES ASSUME IndInv, IndInv', WholeInv, [Next]_vars PROVE WholeInv'
  OBVIOUS
<1>1. ASSUME NEW c \in Clients, Progress(c) PROVE WholeInv'
  <2>1. CASE ResolveEnv(c) \/ ReadTarget(c) \/ DeleteRow(c) \/ SelectMaxVersion(c)
    BY <2>1, ResolveWhole, ReadTargetWhole, DeleteRowWhole, SelectMaxWhole
  <2>2. CASE UpdateLiveRow(c) \/ InsertLiveRow(c)
    BY <2>2, WriteRowWhole DEF UpdateLiveRow, InsertLiveRow
  <2>3. CASE InsertHistory(c) \/ Commit(c) \/ Reply(c)
    BY <2>3, InsertHistoryWhole, CommitWhole, ReplyWhole
  <2>4. CASE \/ EnvNotFound(c) \/ TargetNotFound(c) \/ DeleteNotFound(c)
             \/ EnvGone(c) \/ UniqueViolation(c)
    BY <2>4, AbortWhole
       DEF EnvNotFound, TargetNotFound, DeleteNotFound, EnvGone, UniqueViolation
  <2>5. QED
    BY <1>1, <2>1, <2>2, <2>3, <2>4 DEF Progress
<1>2. ASSUME NEW c \in Clients, NewRequest(c) PROVE WholeInv'
  BY <1>2, NewRequestWhole
<1>3. ASSUME NEW c \in Clients, Fail(c) \/ DeadlockVictim(c) PROVE WholeInv'
  BY <1>3, AbortWhole DEF Fail, DeadlockVictim
<1>4. ASSUME NEW e \in Envs, EnvStep(e) \/ DropVictim(e) PROVE WholeInv'
  BY <1>4, EnvWhole DEF EnvStep, DropVictim
<1>5. CASE UNCHANGED vars
  BY <1>5 DEF vars, WholeInv, OwnOK, TargetOK, UnseenOK, Numbered
<1>6. QED
  BY <1>1, <1>2, <1>3, <1>4, <1>5 DEF Next, BreakDeadlock

THEOREM WholeInvHolds == Spec => []WholeInv
  BY WholeInit, WholeNext, IndInvHolds, PTL DEF Spec

\* A bulk write lands whole: no key of it before its commit, every key after.
THEOREM BulkWritesAreAtomic == Spec => []BulkIsAtomic
<1>1. IndInv /\ WholeInv => BulkIsAtomic
  <2> SUFFICES ASSUME IndInv, WholeInv, NEW c \in Clients, tx[c].kind = "bulk",
                      NEW i \in DOMAIN tx[c].keys
               PROVE  LET written == \E e \in Envs : \E r \in hist[e][tx[c].keys[i]] :
                                         r.by = tx[c].id
                      IN  IF pc[c] = "reply" THEN written \/ env[tx[c].env] = "gone"
                                             ELSE ~written
    BY DEF BulkIsAtomic
  <2>1. tx[c].keys \in Seq(Keys) /\ tx[c].id \in Nat
    BY DEF IndInv, TypeOK, Request
  <2>2. i \in 1..Len(tx[c].keys) /\ tx[c].keys[i] \in Keys /\ Len(tx[c].keys) \in Nat
    BY <2>1
  <2>3. OwnOK(c) /\ UnseenOK(c) /\ RequestOK(c) /\ RepliedOK(c)
    BY DEF WholeInv, IndInv, ClientOK
  <2>4. CASE pc[c] = "reply"
    <3>1. tx[c].next = Len(tx[c].keys) + 1 /\ tx[c].env \in Envs
      BY <2>3, <2>4 DEF RequestOK
    <3>2. PICK r \in tx[c].rows : r.key = tx[c].keys[i]
      BY <2>2, <2>3, <3>1 DEF OwnOK
    <3>3. QED
      BY <2>3, <2>4, <3>1, <3>2 DEF RepliedOK
  <2>5. CASE pc[c] # "reply"
    <3>1. tx[c].id # 0
      BY <2>1, <2>3 DEF OwnOK
    <3>2. QED
      BY <2>2, <2>3, <2>5, <3>1 DEF UnseenOK
  <2>6. QED
    BY <2>4, <2>5
<1>2. QED
  BY <1>1, IndInvHolds, WholeInvHolds, PTL

\* A rollback that succeeded made the version it was asked for the newest one.
THEOREM RollbacksRestore == Spec => []RollbackRestoresTarget
<1>1. IndInv /\ WholeInv => RollbackRestoresTarget
  <2> SUFFICES ASSUME IndInv, WholeInv, NEW c \in Clients, tx[c].kind = "rollback",
                      pc[c] = "reply", env[tx[c].env] # "gone"
               PROVE  \E old \in hist[tx[c].env][tx[c].keys[1]] :
                        \E new \in hist[tx[c].env][tx[c].keys[1]] :
                          /\ old.version = tx[c].target
                          /\ new.by = tx[c].id
                          /\ new.value = old.value
                          /\ new.version > old.version
    BY DEF RollbackRestoresTarget
  <2>1. OwnOK(c) /\ TargetOK(c) /\ RequestOK(c) /\ RepliedOK(c)
    BY DEF WholeInv, IndInv, ClientOK
  <2>2. Len(tx[c].keys) = 1 /\ tx[c].next = Len(tx[c].keys) + 1
    <3>1. Len(tx[c].keys) = 1
      BY <2>1 DEF OwnOK
    <3>2. tx[c].next = Len(tx[c].keys) + 1
      BY <2>1 DEF RequestOK
    <3>3. QED
      BY <3>1, <3>2
  <2>3. PICK r \in tx[c].rows : r.key = tx[c].keys[1]
    <3>1. 1 \in 1..Len(tx[c].keys) /\ 1 < tx[c].next
      BY <2>2
    <3>2. QED
      BY <2>1, <3>1 DEF OwnOK
  <2>4. r.value = tx[c].value /\ r.version > tx[c].target
    BY <2>1, <2>3 DEF OwnOK, TargetOK
  <2>5. PICK new \in hist[tx[c].env][tx[c].keys[1]] :
           new.version = r.version /\ new.value = r.value /\ new.by = tx[c].id
    BY <2>1, <2>3 DEF RepliedOK
  <2>6. PICK old \in hist[tx[c].env][tx[c].keys[1]] :
           old.version = tx[c].target /\ old.value = tx[c].value
    BY <2>1 DEF TargetOK
  <2>7. QED
    BY <2>4, <2>5, <2>6
<1>2. QED
  BY <1>1, IndInvHolds, WholeInvHolds, PTL

------------------------------------------------------------------------------
(* The secrets API implements the versioned store.  The store's log of a   *)
(* key is read off the history by version numbers, so the history must     *)
(* have as many rows as versions (Counted), and a set or bulk write must   *)
(* commit a ciphertext that was never stored before (FreshOK).             *)

Counted ==
    \A e \in Envs, k \in Keys :
        /\ IsFiniteSet(hist[e][k])
        /\ Versions(hist[e][k]) = 1..Cardinality(hist[e][k])

Issued ==
    /\ issued \in 0..MaxRequests
    /\ \A e \in Envs, k \in Keys : \A h \in hist[e][k] : h.value \in 1..issued

Stores(c) == tx[c].kind \in {"set", "bulk"}

FreshOK(c) ==
    Stores(c) =>
        /\ tx[c].value = tx[c].id
        /\ pc[c] # "reply" =>
             \A e \in Envs, k \in Keys : \A h \in hist[e][k] : h.value # tx[c].id

\* Only a rollback reads the ciphertext it stores.
TargetIsRollback(c) == pc[c] = "target" => ~Stores(c)

StoreInv ==
    /\ Counted
    /\ Issued
    /\ \A c \in Clients : FreshOK(c) /\ TargetIsRollback(c)

LEMMA NoRows == IsFiniteSet({}) /\ Cardinality({}) = 0 /\ Versions({}) = 1..0
<1>1. IsFiniteSet({}) /\ Cardinality({}) = 0
  BY FS_EmptySet
<1>2. Versions({}) = {} /\ 1..0 = {}
  BY DEF Versions
<1>3. QED
  BY <1>1, <1>2

LEMMA StoreInvInit == Init => StoreInv
<1> SUFFICES ASSUME Init PROVE StoreInv
  OBVIOUS
<1>1. \A e \in Envs, k \in Keys : hist[e][k] = {}
  BY DEF Init
<1>2. Counted
  BY <1>1, NoRows DEF Counted
<1>3. Issued
  BY <1>1, BoundsAssumption DEF Issued, Init
<1>4. \A c \in Clients : FreshOK(c) /\ TargetIsRollback(c)
  BY DEF Init, FreshOK, TargetIsRollback, Stores, Blank
<1>5. QED
  BY <1>2, <1>3, <1>4 DEF StoreInv

\* A step that adds no row to the history and sends no new ciphertext.
LEMMA QuietStore ==
    ASSUME StoreInv, issued' = issued, hist' = hist,
           \A d \in Clients : Stores(d)' =>
               /\ Stores(d) /\ tx'[d].id = tx[d].id /\ tx'[d].value = tx[d].value
               /\ pc[d] = "reply" => pc'[d] = "reply"
               /\ pc'[d] = "target" => pc[d] = "target"
    PROVE  StoreInv'
<1>1. Counted' /\ Issued'
  BY DEF StoreInv, Counted, Issued
<1>2. \A d \in Clients : FreshOK(d)' /\ TargetIsRollback(d)'
  BY DEF StoreInv, FreshOK, TargetIsRollback
<1>3. QED
  BY <1>1, <1>2 DEF StoreInv

\* A write is accepted: its number is no ciphertext yet.
LEMMA AcceptStore ==
    ASSUME IndInv, StoreInv, NEW c \in Clients, NEW request \in Request,
           Accept(c, request), issued' \in {issued, issued + 1}, issued' \in 0..MaxRequests,
           request.kind \in {"set", "bulk"} =>
               issued' = issued + 1 /\ request.id = issued' /\ request.value = issued'
    PROVE  StoreInv'
<1>1. /\ pc' = [pc EXCEPT ![c] = "resolve"] /\ tx' = [tx EXCEPT ![c] = request]
      /\ UNCHANGED hist /\ issued \in Nat
  BY DEF Accept, IndInv, TypeOK
<1>2. /\ pc'[c] = "resolve" /\ tx'[c] = request
      /\ \A d \in Clients \ {c} : pc'[d] = pc[d] /\ tx'[d] = tx[d]
  BY <1>1 DEF IndInv, TypeOK
<1>3. \A v \in 1..issued : v \in 1..issued' /\ v # issued + 1
  BY <1>1
<1>4. Counted' /\ Issued'
  BY <1>1, <1>3 DEF StoreInv, Counted, Issued
<1>5. FreshOK(c)' /\ TargetIsRollback(c)'
  BY <1>1, <1>2, <1>3 DEF StoreInv, Issued, FreshOK, TargetIsRollback, Stores
<1>6. \A d \in Clients \ {c} : FreshOK(d)' /\ TargetIsRollback(d)'
  BY <1>1, <1>2 DEF StoreInv, FreshOK, TargetIsRollback, Stores
<1>7. QED
  BY <1>4, <1>5, <1>6 DEF StoreInv

LEMMA NewRequestStore ==
    ASSUME IndInv, StoreInv, NEW c \in Clients, NewRequest(c) PROVE StoreInv'
<1>1. issued \in Nat
  BY DEF IndInv, TypeOK
<1>2. ASSUME NEW kind \in {"set", "bulk", "rollback"}, NEW keys \in Seq(Keys), NEW target \in Nat,
             AcceptWrite(c, kind, keys, target)
      PROVE  StoreInv'
  <2>1. PICK n \in Nat : n = issued + 1 /\ n = issued'
    BY <1>1, <1>2 DEF AcceptWrite
  <2>2. PICK request : request = [Blank EXCEPT !.id = n, !.kind = kind, !.keys = keys,
                                               !.target = target, !.value = n]
    OBVIOUS
  <2>3. request \in Request /\ request.id = n /\ request.value = n
    BY <2>2, BlankIsARequest DEF Blank, Request, Kinds
  <2>4. Accept(c, request)
    BY <1>2, <2>1, <2>2 DEF AcceptWrite
  <2>5. issued' \in 0..MaxRequests
    BY <1>1, <1>2, BoundsAssumption DEF AcceptWrite
  <2>6. QED
    BY <2>1, <2>3, <2>4, <2>5, AcceptStore
<1>3. ASSUME NEW k \in Keys, Set(c, k) PROVE StoreInv'
  <2>1. <<k>> \in Seq(Keys) /\ AcceptWrite(c, "set", <<k>>, 0)
    BY <1>3 DEF Set
  <2>2. QED
    BY <1>2, <2>1
<1>4. ASSUME NEW k \in Keys, NEW v \in 1..MaxRequests, Rollback(c, k, v) PROVE StoreInv'
  <2>1. v \in Nat /\ <<k>> \in Seq(Keys)
    BY BoundsAssumption
  <2>2. QED
    BY <1>2, <1>4, <2>1 DEF Rollback
<1>5. ASSUME NEW n \in 0..MaxBulk + 1, NEW keys \in [1..n -> Keys], BulkSet(c, keys)
      PROVE  StoreInv'
  <2>1. keys \in Seq(Keys)
    BY <1>5, BoundsAssumption
  <2>2. QED
    BY <1>2, <1>5, <2>1 DEF BulkSet
<1>6. ASSUME NEW k \in Keys, Delete(c, k) PROVE StoreInv'
  <2>1. PICK request : request = [Blank EXCEPT !.kind = "delete", !.keys = <<k>>]
    OBVIOUS
  <2>2. <<k>> \in Seq(Keys) /\ Blank \in Request /\ "delete" \in Kinds
    BY BlankIsARequest DEF Kinds
  <2>3. request \in Request /\ request.kind = "delete"
    BY <2>1, <2>2 DEF Request
  <2>4. Accept(c, request) /\ issued' = issued /\ issued' \in 0..MaxRequests
    BY <1>6, <2>1 DEF Delete, StoreInv, Issued
  <2>5. QED
    BY <2>3, <2>4, AcceptStore
<1>7. QED
  BY <1>3, <1>4, <1>5, <1>6 DEF NewRequest

\* The statements of a request before and after its commit.
LEMMA StatementStore ==
    ASSUME IndInv, WholeInv, StoreInv, NEW c \in Clients,
           \/ ResolveEnv(c) \/ ReadTarget(c) \/ DeleteRow(c) \/ SelectMaxVersion(c)
           \/ UpdateLiveRow(c) \/ InsertLiveRow(c) \/ InsertHistory(c)
           \/ Reply(c) \/ Abort(c)
    PROVE  StoreInv'
<1>1. TypeOK /\ tx[c] \in Request
  BY DEF IndInv, TypeOK
<1>2. CASE DeleteRow(c)
  <2>1. PICK e, K : tx' = [d \in Clients |-> IF d = c THEN Blank ELSE Disturb(d, e, K)]
    BY <1>2 DEF DeleteRow
  <2>2. /\ UNCHANGED <<hist, issued>> /\ tx'[c] = Blank
        /\ \A d \in Clients \ {c} : tx'[d] = Disturb(d, e, K) /\ pc'[d] = pc[d]
    BY <1>1, <1>2, <2>1 DEF DeleteRow, TypeOK
  <2>3. ~Stores(c)'
    BY <2>2 DEF Stores, Blank
  <2>4. \A d \in Clients \ {c} : /\ tx'[d].kind = tx[d].kind /\ tx'[d].id = tx[d].id
                                 /\ tx'[d].value = tx[d].value
    BY <1>1, <2>2, DisturbKeeps
  <2>5. QED
    BY <2>2, <2>3, <2>4, QuietStore DEF Stores
<1>3. CASE Reply(c) \/ Abort(c)
  <2>1. /\ UNCHANGED <<hist, issued>> /\ tx'[c] = Blank
        /\ \A d \in Clients \ {c} : tx'[d] = tx[d] /\ pc'[d] = pc[d]
    BY <1>1, <1>3 DEF Reply, Abort, TypeOK
  <2>2. ~Stores(c)'
    BY <2>1 DEF Stores, Blank
  <2>3. QED
    BY <2>1, <2>2, QuietStore DEF Stores
<1>4. CASE ReadTarget(c)
  <2>1. PICK r \in hist[tx[c].env][Key(c)] : tx' = [tx EXCEPT ![c].value = r.value]
    BY <1>4 DEF ReadTarget
  <2>2. /\ UNCHANGED <<hist, issued>> /\ pc[c] = "target" /\ tx'[c].kind = tx[c].kind
        /\ \A d \in Clients \ {c} : tx'[d] = tx[d] /\ pc'[d] = pc[d]
    BY <1>1, <1>4, <2>1 DEF ReadTarget, TypeOK, Request
  <2>3. ~Stores(c)
    BY <2>2 DEF StoreInv, TargetIsRollback, Stores
  <2>4. QED
    BY <2>2, <2>3, QuietStore DEF Stores
<1>5. CASE ResolveEnv(c) \/ SelectMaxVersion(c) \/ InsertHistory(c)
  <2>1. /\ UNCHANGED <<hist, issued>> /\ pc[c] # "reply" /\ tx'[c].kind = tx[c].kind
        /\ tx'[c].id = tx[c].id /\ tx'[c].value = tx[c].value
        /\ \A d \in Clients \ {c} : tx'[d] = tx[d] /\ pc'[d] = pc[d]
    BY <1>1, <1>5 DEF ResolveEnv, SelectMaxVersion, InsertHistory, TypeOK, Request
  <2>2. pc'[c] = "target" => ~Stores(c)
    <3>1. ResolveEnv(c) => pc'[c] = FirstStep(tx[c].kind)
      BY <1>1 DEF ResolveEnv, TypeOK
    <3>2. SelectMaxVersion(c) \/ InsertHistory(c) => pc'[c] # "target"
      BY <1>1 DEF SelectMaxVersion, InsertHistory, TypeOK
    <3>3. QED
      BY <1>5, <3>1, <3>2 DEF FirstStep, Stores
  <2>3. QED
    BY <2>1, <2>2, QuietStore DEF Stores
<1>6. CASE UpdateLiveRow(c) \/ InsertLiveRow(c)
  <2>1. PICK version : WriteRow(c, version) /\ pc[c] = "row"
    BY <1>6 DEF UpdateLiveRow, InsertLiveRow
  <2>2. /\ UNCHANGED <<hist, issued>> /\ pc[c] # "reply" /\ tx'[c].kind = tx[c].kind
        /\ tx'[c].id = tx[c].id /\ tx'[c].value = tx[c].value /\ pc'[c] = "hist"
        /\ \A d \in Clients \ {c} : tx'[d] = tx[d] /\ pc'[d] = pc[d]
    BY <1>1, <2>1 DEF WriteRow, TypeOK, Request
  <2>3. QED
    BY <2>2, QuietStore DEF Stores
<1>7. QED
  BY <1>2, <1>3, <1>4, <1>5, <1>6

\* A set of versions 1..n grows by n + 1.
LEMMA NextVersion ==
    ASSUME NEW n \in Nat, NEW v \in Nat, v >= 1, v = 1 \/ v - 1 \in 1..n, v \notin 1..n
    PROVE  v = n + 1 /\ (1..n) \cup {v} = 1..(n + 1)
OBVIOUS

\* Every row a commit adds is the next version of its key.
LEMMA CommitAdds ==
    ASSUME IndInv, WholeInv, StoreInv, NEW c \in Clients, Commit(c),
           NEW k \in Written(c), NEW e, e = tx[c].env
    PROVE  LET row == Recorded(c, RowOf(c, k))
           IN  /\ e \in Envs /\ k \in Keys /\ env[e] # "gone"
               /\ row \in HistoryRow /\ row.value = tx[c].value
               /\ hist[e][k] \in SUBSET HistoryRow /\ IsFiniteSet(hist[e][k])
               /\ row.version = Cardinality(hist[e][k]) + 1
               /\ hist'[e][k] = hist[e][k] \cup {row}
               /\ live'[e][k].value = tx[c].value
               /\ IsFiniteSet(hist'[e][k])
               /\ Cardinality(hist'[e][k]) = Cardinality(hist[e][k]) + 1
               /\ Versions(hist'[e][k]) = 1..Cardinality(hist'[e][k])
<1> DEFINE r == RowOf(c, k)
           row == Recorded(c, r)
           n == Cardinality(hist[e][k])
<1>1. /\ pc[c] = "commit" /\ tx[c] \in Request /\ e \in Envs
      /\ RequestOK(c) /\ PendingOK(c) /\ OwnOK(c) /\ TypeOK
  BY DEF Commit, IndInv, TypeOK, ClientOK, RequestOK, WholeInv
<1>2. r \in tx[c].rows /\ r.key = k
  BY DEF Written, RowOf
<1>3. r \in PendingRow /\ r.value = tx[c].value
  BY <1>1, <1>2 DEF Request, OwnOK
<1>4. k \in Keys /\ r.version \in Nat /\ r.value \in Nat
  BY <1>2, <1>3 DEF PendingRow
<1>5. /\ env[e] # "gone" /\ r.version >= 1
      /\ r.version = 1 \/ r.version - 1 \in Versions(hist[e][k])
      /\ r.version \notin Versions(hist[e][k])
  BY <1>1, <1>2 DEF PendingOK, OpenSteps, Visible
<1>6. /\ hist[e][k] \in SUBSET HistoryRow /\ IsFiniteSet(hist[e][k])
      /\ Versions(hist[e][k]) = 1..n
  BY <1>1, <1>4 DEF TypeOK, StoreInv, Counted
<1>7. n \in Nat
  BY <1>6, FS_CardinalityType
<1>8. r.version = n + 1 /\ (1..n) \cup {r.version} = 1..(n + 1)
  <2> HIDE DEF r, n
  <2>1. QED
    BY <1>4, <1>5, <1>6, <1>7, NextVersion
<1>9. row.version = r.version /\ row.value = r.value /\ row \in HistoryRow
  BY <1>1, <1>4 DEF Recorded, HistoryRow, Request
<1>10. hist'[e][k] = hist[e][k] \cup {row} /\ live'[e][k] = Upserted(live[e][k], r)
  BY <1>1, <1>4 DEF Commit, TypeOK
<1> HIDE DEF r
<1>11. row \notin hist[e][k]
  BY <1>5, <1>9 DEF Versions
<1>12. /\ IsFiniteSet(hist[e][k] \cup {row})
       /\ Cardinality(hist[e][k] \cup {row}) = n + 1
  BY <1>6, <1>11, FS_AddElement
<1>13. Versions(hist[e][k] \cup {row}) = Versions(hist[e][k]) \cup {r.version}
  BY <1>9 DEF Versions
<1>14. live'[e][k].value = r.value
  BY <1>10 DEF Upserted
<1>15. QED
  BY <1>1, <1>3, <1>4, <1>5, <1>6, <1>8, <1>9, <1>10, <1>12, <1>13, <1>14 DEF r

\* A commit changes nothing else.
LEMMA CommitKeeps ==
    ASSUME IndInv, NEW c \in Clients, Commit(c), NEW f \in Envs, NEW k \in Keys,
           f # tx[c].env \/ k \notin Written(c)
    PROVE  hist'[f][k] = hist[f][k] /\ live'[f][k] = live[f][k]
BY DEF Commit, IndInv, TypeOK

LEMMA CommitStore ==
    ASSUME IndInv, WholeInv, StoreInv, NEW c \in Clients, Commit(c)
    PROVE  StoreInv'
<1>1. PICK e, K : e = tx[c].env /\ K = Written(c)
  OBVIOUS
<1>2. /\ TypeOK /\ tx[c] \in Request /\ pc[c] = "commit" /\ OwnOK(c) /\ TargetOK(c)
      /\ RequestOK(c) /\ FreshOK(c) /\ issued' = issued /\ issued \in Nat
      /\ tx' = [d \in Clients |-> IF d = c THEN [tx[c] EXCEPT !.shared = FALSE]
                                           ELSE Disturb(d, e, K)]
  BY <1>1 DEF Commit, IndInv, TypeOK, ClientOK, WholeInv, StoreInv
<1>3. /\ pc'[c] = "reply" /\ tx'[c] = [tx[c] EXCEPT !.shared = FALSE]
      /\ \A d \in Clients \ {c} : pc'[d] = pc[d] /\ tx'[d] = Disturb(d, e, K)
  BY <1>2 DEF Commit, TypeOK
<1>4. \A d \in Clients : /\ tx'[d].kind = tx[d].kind /\ tx'[d].id = tx[d].id
                         /\ tx'[d].value = tx[d].value
  <2>1. /\ tx'[c].kind = tx[c].kind /\ tx'[c].id = tx[c].id
        /\ tx'[c].value = tx[c].value
    BY <1>2, <1>3 DEF Request
  <2>2. QED
    BY <1>2, <1>3, <2>1, DisturbKeeps
<1>5. ASSUME NEW f \in Envs, NEW k \in Keys, NEW h \in hist'[f][k], h \notin hist[f][k]
      PROVE  k \in K /\ f = e /\ h.value = tx[c].value
  <2>1. f = e /\ k \in K
    BY <1>1, <1>5, CommitKeeps
  <2>2. h = Recorded(c, RowOf(c, k)) /\ Recorded(c, RowOf(c, k)).value = tx[c].value
    BY <1>1, <1>5, <2>1, CommitAdds
  <2>3. QED
    BY <2>1, <2>2
<1>6. ~Stores(c) /\ K # {} => \E k \in Keys : \E old \in hist[e][k] : old.value = tx[c].value
  <2> SUFFICES ASSUME ~Stores(c), NEW k \in K
               PROVE  \E x \in Keys : \E old \in hist[e][x] : old.value = tx[c].value
    OBVIOUS
  <2>1. tx[c].kind = "rollback"
    BY <1>2 DEF OwnOK, Stores, Request, Kinds
  <2>2. tx[c].keys[1] \in Keys
    BY <1>2, <2>1 DEF OwnOK, Request
  <2>3. env[e] # "gone"
    BY <1>1, CommitAdds
  <2>4. QED
    BY <1>1, <1>2, <2>1, <2>2, <2>3 DEF TargetOK, OpenSteps
<1>7. Counted'
  BY <1>1, CommitAdds, CommitKeeps DEF StoreInv, Counted
<1>8. K # {} => tx[c].value \in 1..issued
  <2>1. CASE Stores(c)
    BY <1>2, <2>1 DEF FreshOK, OwnOK, Stores, Request
  <2>2. CASE ~Stores(c)
    BY <1>1, <1>2, <1>6, <2>2 DEF StoreInv, Issued, RequestOK
  <2>3. QED
    BY <2>1, <2>2
<1>9. Issued'
  <2>1. ASSUME NEW f \in Envs, NEW k \in Keys, NEW h \in hist'[f][k]
        PROVE  h.value \in 1..issued
    <3>1. CASE h \in hist[f][k]
      BY <3>1 DEF StoreInv, Issued
    <3>2. CASE h \notin hist[f][k]
      BY <1>5, <1>8, <3>2
    <3>3. QED
      BY <3>1, <3>2
  <2>2. QED
    BY <1>2, <2>1 DEF StoreInv, Issued
<1>10. FreshOK(c)' /\ TargetIsRollback(c)'
  BY <1>2, <1>3, <1>4 DEF FreshOK, TargetIsRollback, Stores
<1>11. ASSUME NEW d \in Clients \ {c} PROVE FreshOK(d)' /\ TargetIsRollback(d)'
  <2>1. FreshOK(d) /\ TargetIsRollback(d) /\ OwnOK(d) /\ pc'[d] = pc[d]
    BY <1>3 DEF StoreInv, WholeInv
  <2>2. Stores(d)' <=> Stores(d)
    BY <1>4 DEF Stores
  <2>3. ASSUME Stores(d), pc[d] # "reply", NEW f \in Envs, NEW k \in Keys, NEW h \in hist'[f][k]
        PROVE  h.value # tx[d].id
    <3>1. CASE h \in hist[f][k]
      BY <2>1, <2>3, <3>1 DEF FreshOK
    <3>2. CASE h \notin hist[f][k] /\ Stores(c)
      <4>1. h.value = tx[c].id
        BY <1>2, <1>5, <3>2 DEF FreshOK
      <4>2. tx[c].id # 0
        BY <1>2, <3>2 DEF OwnOK, Stores, Request
      <4>3. QED
        BY <4>1, <4>2 DEF WholeInv, Numbered
    <3>3. CASE h \notin hist[f][k] /\ ~Stores(c)
      <4>1. K # {} /\ h.value = tx[c].value /\ e \in Envs
        BY <1>1, <1>2, <1>5, <3>3 DEF RequestOK
      <4>2. QED
        BY <1>6, <2>1, <2>3, <3>3, <4>1 DEF FreshOK
    <3>4. QED
      BY <3>1, <3>2, <3>3
  <2>4. QED
    BY <1>4, <2>1, <2>2, <2>3 DEF FreshOK, TargetIsRollback
<1>12. QED
  BY <1>7, <1>9, <1>10, <1>11 DEF StoreInv

\* The environment's row comes and goes; its cascade empties its histories.
LEMMA EnvStore ==
    ASSUME IndInv, StoreInv, NEW e \in Envs,
           CreateEnv(e) \/ LockEnv(e) \/ CascadeEnv(e) \/ CancelDrop(e)
    PROVE  StoreInv'
<1>1. /\ UNCHANGED <<pc, tx, issued>>
      /\ \A f \in Envs, k \in Keys : hist'[f][k] = hist[f][k] \/ hist'[f][k] = {}
  BY DEF IndInv, TypeOK, CreateEnv, LockEnv, CascadeEnv, CancelDrop
<1>2. Counted'
  BY <1>1, NoRows DEF StoreInv, Counted
<1>3. Issued'
  BY <1>1 DEF StoreInv, Issued
<1>4. \A c \in Clients : FreshOK(c)' /\ TargetIsRollback(c)'
  BY <1>1 DEF StoreInv, FreshOK, TargetIsRollback, Stores
<1>5. QED
  BY <1>2, <1>3, <1>4 DEF StoreInv

LEMMA StoreInvNext == IndInv /\ WholeInv /\ StoreInv /\ [Next]_vars => StoreInv'
<1> SUFFICES ASSUME IndInv, WholeInv, StoreInv, [Next]_vars PROVE StoreInv'
  OBVIOUS
<1>1. ASSUME NEW c \in Clients, Progress(c) PROVE StoreInv'
  BY <1>1, StatementStore, CommitStore
     DEF Progress, EnvNotFound, TargetNotFound, DeleteNotFound, EnvGone, UniqueViolation
<1>2. ASSUME NEW c \in Clients, NewRequest(c) PROVE StoreInv'
  BY <1>2, NewRequestStore
<1>3. ASSUME NEW c \in Clients, Fail(c) \/ DeadlockVictim(c) PROVE StoreInv'
  BY <1>3, StatementStore DEF Fail, DeadlockVictim
<1>4. ASSUME NEW e \in Envs, EnvStep(e) \/ DropVictim(e) PROVE StoreInv'
  BY <1>4, EnvStore DEF EnvStep, DropVictim
<1>5. CASE UNCHANGED vars
  BY <1>5 DEF vars, StoreInv, Counted, Issued, FreshOK, TargetIsRollback, Stores
<1>6. QED
  BY <1>1, <1>2, <1>3, <1>4, <1>5 DEF Next, BreakDeadlock

\* The invariant the refinement needs: a set or bulk write commits what was
\* never stored, and the history has as many rows as versions.
THEOREM StoreInvHolds == Spec => []StoreInv
BY StoreInvInit, StoreInvNext, IndInvHolds, WholeInvHolds, PTL DEF Spec

------------------------------------------------------------------------------
(* The steps of the store.                                                 *)

IsLog(rows) ==
    \A r \in rows : /\ \A s \in rows : r.version = s.version => r = s
                    /\ \A x \in 1..r.version : x \in Versions(rows)

\* The log of a history, and what another row makes of it.
LEMMA LogLength ==
    ASSUME NEW rows \in SUBSET HistoryRow, IsFiniteSet(rows)
    PROVE  /\ Cardinality(rows) \in Nat
           /\ DOMAIN LogOf(rows) = 1..Cardinality(rows)
BY FS_CardinalityType DEF LogOf

LEMMA LogEntry ==
    ASSUME NEW rows \in SUBSET HistoryRow, IsLog(rows), NEW r \in rows,
           r.version \in 1..Cardinality(rows)
    PROVE  LogOf(rows)[r.version] = r.value
<1>1. (CHOOSE s \in rows : s.version = r.version) = r
  BY DEF IsLog
<1>2. QED
  BY <1>1 DEF LogOf

LEMMA LogAppends ==
    ASSUME NEW rows \in SUBSET HistoryRow, NEW row \in HistoryRow, IsFiniteSet(rows),
           IsLog(rows), IsLog(rows \cup {row}),
           Versions(rows) = 1..Cardinality(rows),
           row.version = Cardinality(rows) + 1,
           Cardinality(rows \cup {row}) = Cardinality(rows) + 1
    PROVE  LogOf(rows \cup {row}) = Append(LogOf(rows), row.value)
<1> DEFINE n == Cardinality(rows)
           more == rows \cup {row}
<1>1. n \in Nat
  BY LogLength
<1>2. ASSUME NEW i \in 1..n
      PROVE  LogOf(more)[i] = LogOf(rows)[i] /\ LogOf(rows)[i] \in Nat
  <2>1. PICK r \in rows : r.version = i
    BY DEF Versions
  <2>2. LogOf(rows)[i] = r.value
    BY <2>1, LogEntry
  <2>3. i \in 1..(n + 1) /\ more \in SUBSET HistoryRow /\ r \in more /\ r.value \in Nat
    BY <1>1 DEF HistoryRow
  <2>4. LogOf(more)[i] = r.value
    <3> HIDE DEF more
    <3>1. QED
      BY <2>1, <2>3, LogEntry DEF more
  <2>5. QED
    BY <2>2, <2>3, <2>4
<1>3. LogOf(more)[n + 1] = row.value
  <2>1. n + 1 \in 1..(n + 1) /\ more \in SUBSET HistoryRow /\ row \in more
    BY <1>1
  <2>2. QED
    BY <2>1, LogEntry
<1>4. LogOf(rows) \in [1..n -> Nat] /\ LogOf(more) = [i \in 1..(n + 1) |-> LogOf(more)[i]]
  <2>1. DOMAIN LogOf(rows) = 1..n /\ LogOf(rows) = [i \in 1..n |-> LogOf(rows)[i]]
    BY DEF LogOf
  <2>2. LogOf(more) = [i \in 1..(n + 1) |-> LogOf(more)[i]]
    BY DEF LogOf
  <2>3. QED
    BY <1>2, <2>1, <2>2
<1>5. LogOf(rows) \in Seq(Nat) /\ Len(LogOf(rows)) = n
  <2> HIDE DEF n
  <2>1. QED
    BY <1>1, <1>4
<1>6. LogOf(more) \in [1..(n + 1) -> Nat]
  <2>1. row.value \in Nat
    BY DEF HistoryRow
  <2>2. \A i \in 1..(n + 1) : i \in 1..n \/ i = n + 1
    BY <1>1
  <2>3. QED
    BY <1>2, <1>3, <1>4, <2>1, <2>2
<1>7. QED
  <2>1. row.value \in Nat
    BY DEF HistoryRow
  <2> HIDE DEF n, more
  <2>2. LogOf(more) \in Seq(Nat) /\ Len(LogOf(more)) = n + 1
    BY <1>1, <1>6
  <2>3. LogOf(more) = Append(LogOf(rows), row.value)
    BY <1>1, <1>2, <1>3, <1>5, <2>1, <2>2
  <2>4. QED
    BY <2>3 DEF more

LEMMA QuietStutters ==
    ASSUME UNCHANGED <<live, hist>>, \A e \in Envs : env'[e] = "gone" <=> env[e] = "gone"
    PROVE  UNCHANGED Store!vars
BY DEF Store!vars

\* Every history is the log of a store.
LEMMA HistoryRows ==
    ASSUME IndInv, StoreInv, NEW e \in Envs, NEW k \in Keys
    PROVE  /\ hist[e][k] \in SUBSET HistoryRow /\ IsFiniteSet(hist[e][k])
           /\ IsLog(hist[e][k]) /\ Versions(hist[e][k]) = 1..Cardinality(hist[e][k])
BY DEF IndInv, TypeOK, TablesOK, HistoryIsALog, IsLog, StoreInv, Counted

\* A table that differs from another one in a single row.
LEMMA RowReplaced ==
    ASSUME NEW A, NEW old, NEW new, NEW e \in A,
           old = [f \in A |-> old[f]], new = [f \in A |-> new[f]],
           \A f \in A \ {e} : new[f] = old[f]
    PROVE  new = [old EXCEPT ![e] = new[e]]
<1>1. [old EXCEPT ![e] = new[e]] = [f \in A |-> IF f = e THEN new[e] ELSE old[f]]
  BY Zenon
<1>2. [f \in A |-> new[f]] = [f \in A |-> IF f = e THEN new[e] ELSE old[f]]
  OBVIOUS
<1>3. QED
  BY <1>1, <1>2

\* A delete is the store's Remove: a live row has a ciphertext.
LEMMA DeleteRemoves ==
    ASSUME IndInv, StoreInv, NEW c \in Clients, DeleteRow(c),
           NEW e \in Envs, NEW k \in Keys, e = tx[c].env, k = Key(c)
    PROVE  Store!Remove(e, k)
<1> DEFINE current == [f \in Envs |-> [x \in Keys |-> live[f][x].value]]
<1>1. /\ live[e][k] # NoRow /\ live' = [live EXCEPT ![e][k] = NoRow]
      /\ UNCHANGED <<env, hist>>
  BY DEF DeleteRow
<1>2. PICK r \in hist[e][k] : r.value = live[e][k].value
  BY <1>1 DEF IndInv, TablesOK, LiveIsNewest
<1>3. live[e][k].value # 0
  BY <1>1, <1>2 DEF StoreInv, Issued
<1>4. \A f \in Envs, x \in Keys :
         live'[f][x].value = IF f = e /\ x = k THEN 0 ELSE live[f][x].value
  BY <1>1 DEF IndInv, TypeOK, NoRow
<1> DEFINE new == [f \in Envs |-> [x \in Keys |-> live'[f][x].value]]
<1>5. new = [current EXCEPT ![e][k] = 0]
  <2>1. /\ current = [f \in Envs |-> current[f]] /\ new = [f \in Envs |-> new[f]]
        /\ e \in Envs
    BY DEF DeleteRow, IndInv, ClientOK, RequestOK
  <2>2. \A f \in Envs \ {e} : new[f] = current[f]
    <3>1. \A f \in Envs \ {e} : live'[f] = live[f]
      BY <1>1 DEF IndInv, TypeOK
    <3>2. QED
      BY <3>1
  <2>3. new[e] = [current[e] EXCEPT ![k] = 0]
    <3>1. current[e] = [x \in Keys |-> live[e][x].value]
      BY <2>1
    <3>2. new[e] = [x \in Keys |-> live'[e][x].value]
      BY <2>1
    <3>3. \A x \in Keys : live'[e][x].value = IF x = k THEN 0 ELSE live[e][x].value
      BY <1>4, <2>1
    <3> HIDE DEF new, current
    <3>4. new[e] = [x \in Keys |-> IF x = k THEN 0 ELSE live[e][x].value]
      BY <3>2, <3>3
    <3>5. [current[e] EXCEPT ![k] = 0] = [x \in Keys |-> IF x = k THEN 0 ELSE live[e][x].value]
      BY <3>1
    <3>6. QED
      BY <3>4, <3>5
  <2> HIDE DEF new, current
  <2>4. QED
    BY <2>1, <2>2, <2>3, RowReplaced
<1>6. current[e][k] # 0
  BY <1>3 DEF DeleteRow, IndInv, ClientOK, RequestOK
<1>7. UNCHANGED <<[f \in Envs |-> [x \in Keys |-> LogOf(hist[f][x])]],
                 {f \in Envs : env[f] = "gone"}>>
  BY <1>1
<1>8. QED
  BY <1>5, <1>6, <1>7 DEF Store!Remove, Store!Nothing

\* The cascade is the store's Drop.
LEMMA CascadeDrops ==
    ASSUME IndInv, NEW e \in Envs, CascadeEnv(e)
    PROVE  Store!Drop(e)
<1>1. /\ env[e] = "dropping" /\ env' = [env EXCEPT ![e] = "gone"]
      /\ live' = [live EXCEPT ![e] = [k \in Keys |-> NoRow]]
      /\ hist' = [hist EXCEPT ![e] = [k \in Keys |-> {}]]
  BY DEF CascadeEnv
<1>2. LogOf({}) = <<>>
  <2>1. Cardinality({}) = 0 /\ 1..0 = {}
    BY FS_EmptySet
  <2>2. QED
    BY <2>1 DEF LogOf
<1>3. {f \in Envs : env'[f] = "gone"} = {f \in Envs : env[f] = "gone"} \cup {e}
  BY <1>1 DEF IndInv, TypeOK
<1> DEFINE log == [f \in Envs |-> [k \in Keys |-> LogOf(hist[f][k])]]
           current == [f \in Envs |-> [k \in Keys |-> live[f][k].value]]
<1>4. [f \in Envs |-> [k \in Keys |-> LogOf(hist'[f][k])]]
        = [log EXCEPT ![e] = [k \in Keys |-> <<>>]]
  <2>1. \A k \in Keys : LogOf(hist'[e][k]) = <<>>
    BY <1>1, <1>2 DEF IndInv, TypeOK
  <2>2. \A f \in Envs \ {e} : hist'[f] = hist[f]
    BY <1>1 DEF IndInv, TypeOK
  <2>3. QED
    BY <2>1, <2>2
<1>5. [f \in Envs |-> [k \in Keys |-> live'[f][k].value]]
        = [current EXCEPT ![e] = [k \in Keys |-> 0]]
  <2>1. \A k \in Keys : live'[e][k].value = 0
    BY <1>1 DEF IndInv, TypeOK, NoRow
  <2>2. \A f \in Envs \ {e} : live'[f] = live[f]
    BY <1>1 DEF IndInv, TypeOK
  <2>3. QED
    BY <2>1, <2>2
<1>6. e \notin {f \in Envs : env[f] = "gone"}
  BY <1>1
<1>7. QED
  BY <1>3, <1>4, <1>5, <1>6 DEF Store!Drop, Store!Nothing

\* A commit extends the log of every key written, by one ciphertext.
LEMMA CommitExtends ==
    ASSUME IndInv, IndInv', WholeInv, StoreInv, StoreInv', NEW c \in Clients, Commit(c),
           NEW e \in Envs, e = tx[c].env, NEW K \in SUBSET Keys, K = Written(c), K # {},
           NEW v, v = tx[c].value
    PROVE  Store!Extend(e, K, v)
<1> DEFINE log == [f \in Envs |-> [x \in Keys |-> LogOf(hist[f][x])]]
           current == [f \in Envs |-> [x \in Keys |-> live[f][x].value]]
<1>1. e \notin {f \in Envs : env[f] = "gone"} /\ UNCHANGED env
  BY CommitAdds DEF Commit
<1>2. ASSUME NEW k \in K
      PROVE  LogOf(hist'[e][k]) = Append(LogOf(hist[e][k]), v) /\ live'[e][k].value = v
  <2>1. PICK row : row = Recorded(c, RowOf(c, k))
    OBVIOUS
  <2>2. /\ row \in HistoryRow /\ row.value = v /\ k \in Keys
        /\ row.version = Cardinality(hist[e][k]) + 1
        /\ hist'[e][k] = hist[e][k] \cup {row}
        /\ live'[e][k].value = v
        /\ Cardinality(hist'[e][k]) = Cardinality(hist[e][k]) + 1
    BY <2>1, CommitAdds
  <2>3. /\ hist[e][k] \in SUBSET HistoryRow /\ IsFiniteSet(hist[e][k])
        /\ IsLog(hist[e][k]) /\ Versions(hist[e][k]) = 1..Cardinality(hist[e][k])
    BY <2>2, HistoryRows
  <2>4. IsLog(hist'[e][k])
    BY <2>2 DEF IndInv, TablesOK, HistoryIsALog, IsLog
  <2>5. LogOf(hist[e][k] \cup {row}) = Append(LogOf(hist[e][k]), row.value)
    <3>1. /\ IsLog(hist[e][k] \cup {row})
          /\ Cardinality(hist[e][k] \cup {row}) = Cardinality(hist[e][k]) + 1
      BY <2>2, <2>4
    <3>2. QED
      BY <2>2, <2>3, <3>1, LogAppends
  <2>6. QED
    BY <2>2, <2>5
<1>3. \A f \in Envs, x \in Keys : f # e \/ x \notin K =>
         hist'[f][x] = hist[f][x] /\ live'[f][x] = live[f][x]
  BY CommitKeeps
<1> DEFINE newLog == [f \in Envs |-> [x \in Keys |-> LogOf(hist'[f][x])]]
           new == [f \in Envs |-> [x \in Keys |-> live'[f][x].value]]
<1>4. e \in Envs
  BY CommitAdds
<1>5. newLog = [log EXCEPT ![e] = [x \in Keys |-> IF x \in K THEN Append(@[x], v) ELSE @[x]]]
  <2>1. log = [f \in Envs |-> log[f]] /\ newLog = [f \in Envs |-> newLog[f]]
    OBVIOUS
  <2>2. ASSUME NEW f \in Envs \ {e} PROVE newLog[f] = log[f]
    <3>1. \A x \in Keys : hist'[f][x] = hist[f][x]
      BY <1>3
    <3>2. QED
      BY <3>1
  <2>3. newLog[e] = [x \in Keys |-> IF x \in K THEN Append(log[e][x], v) ELSE log[e][x]]
    <3>1. log[e] = [x \in Keys |-> LogOf(hist[e][x])]
      BY <1>4
    <3>2. newLog[e] = [x \in Keys |-> LogOf(hist'[e][x])]
      BY <1>4
    <3>3. \A x \in Keys : LogOf(hist'[e][x]) =
            IF x \in K THEN Append(LogOf(hist[e][x]), v) ELSE LogOf(hist[e][x])
      BY <1>2, <1>3, <1>4
    <3> HIDE DEF log, newLog
    <3>4. QED
      BY <3>1, <3>2, <3>3
  <2> HIDE DEF log, newLog
  <2>4. QED
    BY <1>4, <2>1, <2>2, <2>3, RowReplaced
<1>6. new = [current EXCEPT ![e] = [x \in Keys |-> IF x \in K THEN v ELSE @[x]]]
  <2>1. current = [f \in Envs |-> current[f]] /\ new = [f \in Envs |-> new[f]]
    OBVIOUS
  <2>2. ASSUME NEW f \in Envs \ {e} PROVE new[f] = current[f]
    <3>1. \A x \in Keys : live'[f][x] = live[f][x]
      BY <1>3
    <3>2. QED
      BY <3>1
  <2>3. new[e] = [x \in Keys |-> IF x \in K THEN v ELSE current[e][x]]
    <3>1. current[e] = [x \in Keys |-> live[e][x].value]
      BY <1>4
    <3>2. new[e] = [x \in Keys |-> live'[e][x].value]
      BY <1>4
    <3>3. \A x \in Keys : live'[e][x].value = IF x \in K THEN v ELSE live[e][x].value
      BY <1>2, <1>3, <1>4
    <3> HIDE DEF current, new
    <3>4. QED
      BY <3>1, <3>2, <3>3
  <2> HIDE DEF current, new
  <2>4. QED
    BY <1>4, <2>1, <2>2, <2>3, RowReplaced
<1>7. QED
  BY <1>1, <1>5, <1>6 DEF Store!Extend

\* A commit of a set or bulk write is the store's Put, one of a rollback its
\* Restore.
LEMMA CommitIsAStep ==
    ASSUME IndInv, IndInv', WholeInv, StoreInv, StoreInv', NEW c \in Clients, Commit(c)
    PROVE  Store!Next \/ UNCHANGED Store!vars
<1>1. /\ TypeOK /\ tx[c] \in Request /\ pc[c] = "commit" /\ tx[c].env \in Envs
      /\ RequestOK(c) /\ OwnOK(c) /\ TargetOK(c) /\ FreshOK(c)
  BY DEF Commit, IndInv, TypeOK, ClientOK, RequestOK, WholeInv, StoreInv
<1>2. Written(c) \in SUBSET Keys
  BY <1>1 DEF Written, Request, PendingRow
<1>3. PICK e \in Envs, K \in SUBSET Keys : e = tx[c].env /\ K = Written(c)
  BY <1>1, <1>2
<1>4. CASE K = {}
  <2>1. \A f \in Envs, k \in Keys : hist'[f][k] = hist[f][k] /\ live'[f][k] = live[f][k]
    BY <1>3, <1>4, CommitKeeps
  <2>2. UNCHANGED env /\ hist' = hist /\ live' = live
    <3>1. TypeOK /\ TypeOK'
      BY DEF IndInv
    <3>2. UNCHANGED env
      BY DEF Commit
    <3>3. \A f \in Envs : hist'[f] = hist[f] /\ live'[f] = live[f]
      BY <2>1, <3>1 DEF TypeOK
    <3>4. QED
      BY <3>1, <3>2, <3>3 DEF TypeOK
  <2>3. QED
    BY <2>2, QuietStutters
<1>5. CASE K # {}
  <2>1. PICK x \in K : TRUE
    BY <1>5
  <2>2. tx[c].value \in 1..MaxRequests /\ env[e] # "gone"
    <3>1. /\ hist'[e][x] = hist[e][x] \cup {Recorded(c, RowOf(c, x))}
          /\ Recorded(c, RowOf(c, x)).value = tx[c].value
          /\ env[e] # "gone"
      BY <1>3, <2>1, CommitAdds
    <3>2. issued' \in 0..MaxRequests /\ \A h \in hist'[e][x] : h.value \in 1..issued'
      BY <1>3, <2>1 DEF StoreInv, Issued
    <3>3. tx[c].value \in 1..issued'
      BY <3>1, <3>2
    <3>4. QED
      BY <3>1, <3>2, <3>3, BoundsAssumption
  <2>3. PICK v \in 1..MaxRequests : v = tx[c].value
    BY <2>2
  <2>4. Store!Extend(e, K, v)
    BY <1>3, <1>5, <2>3, CommitExtends
  <2>5. CASE Stores(c)
    <3>1. ASSUME NEW f \in Envs, NEW k \in Keys, NEW i \in DOMAIN LogOf(hist[f][k])
          PROVE  LogOf(hist[f][k])[i] # v
      <4>1. i \in 1..Cardinality(hist[f][k]) /\ i \in Versions(hist[f][k])
        BY HistoryRows, LogLength
      <4>2. PICK r \in hist[f][k] : r.version = i
        BY <4>1 DEF Versions
      <4>3. LogOf(hist[f][k])[i] = r.value
        BY <4>1, <4>2, HistoryRows, LogEntry
      <4>4. QED
        BY <1>1, <2>3, <2>5, <4>3 DEF FreshOK
    <3>2. ~Store!Logged(v)
      BY <3>1 DEF Store!Logged
    <3>3. Store!Put(e, K, v)
      BY <1>5, <2>4, <3>2 DEF Store!Put
    <3>4. Store!Next
      BY <3>3 DEF Store!Next
    <3>5. QED
      BY <3>4
  <2>6. CASE ~Stores(c)
    <3> DEFINE log == [f \in Envs |-> [y \in Keys |-> LogOf(hist[f][y])]]
    <3>1. tx[c].kind = "rollback"
      BY <1>1, <2>6 DEF OwnOK, Stores, Request, Kinds
    <3>2. PICK k \in Keys : k = tx[c].keys[1]
      BY <1>1, <3>1 DEF OwnOK, Request
    <3>3. K = {k}
      BY <1>1, <1>3, <1>5, <3>1, <3>2 DEF Written, OwnOK, RequestOK
    <3>4. PICK r \in hist[e][k] : r.value = v
      BY <1>1, <1>3, <2>2, <2>3, <3>1, <3>2 DEF TargetOK, OpenSteps
    <3>5. r.version \in 1..Cardinality(hist[e][k])
      BY HistoryRows DEF Versions
    <3>6. r.version \in DOMAIN LogOf(hist[e][k]) /\ LogOf(hist[e][k])[r.version] = v
      BY <3>4, <3>5, HistoryRows, LogEntry, LogLength
    <3>7. PICK i \in DOMAIN log[e][k] : log[e][k][i] = v
      BY <3>6
    <3>8. Store!Extend(e, {k}, v)
      BY <2>4, <3>3
    <3>9. Store!Restore(e, k, i)
      BY <3>7, <3>8 DEF Store!Restore, Store!Extend
    <3>10. Store!Next
      BY <3>7, <3>9 DEF Store!Next
    <3>11. QED
      BY <3>10
  <2>7. QED
    BY <2>5, <2>6
<1>6. QED
  BY <1>4, <1>5

\* Every other step of a request is invisible, save the delete.
LEMMA ProgressIsAStep ==
    ASSUME IndInv, IndInv', WholeInv, StoreInv, StoreInv', NEW c \in Clients, Progress(c)
    PROVE  Store!Next \/ UNCHANGED Store!vars
<1>1. CASE Commit(c)
  BY <1>1, CommitIsAStep
<1>2. CASE DeleteRow(c)
  <2>1. Key(c) \in Keys /\ tx[c].env \in Envs
    BY <1>2, KeyIsAKey DEF DeleteRow, IndInv, ClientOK
  <2>2. PICK e \in Envs, k \in Keys : e = tx[c].env /\ k = Key(c)
    BY <2>1
  <2>3. Store!Remove(e, k)
    BY <1>2, <2>2, DeleteRemoves
  <2>4. Store!Next
    BY <2>3 DEF Store!Next
  <2>5. QED
    BY <2>4
<1>3. CASE ~(Commit(c) \/ DeleteRow(c))
  <2>1. UNCHANGED <<env, live, hist>>
    BY <1>3 DEF Progress, ResolveEnv, EnvNotFound, ReadTarget, TargetNotFound,
                DeleteNotFound, SelectMaxVersion, UpdateLiveRow, InsertLiveRow, WriteRow,
                EnvGone, InsertHistory, UniqueViolation, Reply, Abort
  <2>2. QED
    BY <2>1, QuietStutters
<1>4. QED
  BY <1>1, <1>2, <1>3

LEMMA StoreStep ==
    IndInv /\ IndInv' /\ WholeInv /\ StoreInv /\ StoreInv' /\ [Next]_vars
        => [Store!Next]_(Store!vars)
<1> SUFFICES ASSUME IndInv, IndInv', WholeInv, StoreInv, StoreInv', [Next]_vars
             PROVE  Store!Next \/ UNCHANGED Store!vars
  OBVIOUS
<1>1. ASSUME NEW c \in Clients, Progress(c) PROVE Store!Next \/ UNCHANGED Store!vars
  BY <1>1, ProgressIsAStep
<1>2. ASSUME NEW c \in Clients, NewRequest(c) \/ Fail(c) \/ DeadlockVictim(c)
      PROVE  UNCHANGED Store!vars
  <2>1. UNCHANGED <<env, live, hist>>
    BY <1>2 DEF NewRequest, Set, Delete, Rollback, BulkSet, AcceptWrite, Accept,
                Fail, DeadlockVictim, Abort
  <2>2. QED
    BY <2>1, QuietStutters
<1>3. ASSUME NEW e \in Envs, CascadeEnv(e) PROVE Store!Next
  <2>1. Store!Drop(e)
    BY <1>3, CascadeDrops
  <2>2. QED
    BY <2>1 DEF Store!Next
<1>4. ASSUME NEW e \in Envs, CreateEnv(e) \/ LockEnv(e) \/ CancelDrop(e)
      PROVE  UNCHANGED Store!vars
  <2>1. UNCHANGED <<live, hist>> /\ \A f \in Envs : env'[f] = "gone" <=> env[f] = "gone"
    BY <1>4 DEF CreateEnv, LockEnv, CancelDrop, IndInv, TypeOK
  <2>2. QED
    BY <2>1, QuietStutters
<1>5. CASE UNCHANGED vars
  BY <1>5, QuietStutters DEF vars
<1>6. QED
  BY <1>1, <1>2, <1>3, <1>4, <1>5 DEF Next, BreakDeadlock, EnvStep, DropVictim

LEMMA StoreInit == Init => Store!Init
<1> SUFFICES ASSUME Init PROVE Store!Init
  OBVIOUS
<1>1. LogOf({}) = <<>>
  <2>1. Cardinality({}) = 0 /\ 1..0 = {}
    BY FS_EmptySet
  <2>2. QED
    BY <2>1 DEF LogOf
<1>2. \A e \in Envs, k \in Keys : hist[e][k] = {} /\ live[e][k].value = 0
  BY DEF Init, NoRow
<1>3. {e \in Envs : env[e] = "gone"} = {}
  BY DEF Init
<1>4. QED
  BY <1>1, <1>2, <1>3 DEF Store!Init, Store!Nothing

\* The secrets API implements the versioned store: every commit, whatever
\* transactions it interleaved with, is one Put or Restore, every delete one
\* Remove, every cascade one Drop, and no other statement shows
\* (internal/service/secrets.go, internal/repo/secrets.go).
THEOREM SecretsAreAStore == Spec => ImplementsStore
<1>1. Spec => Store!Init
  BY StoreInit DEF Spec
<1>2. QED
  BY <1>1, IndInvHolds, WholeInvHolds, StoreInvHolds, StoreStep, PTL
     DEF Spec, ImplementsStore, Store!Spec
=============================================================================

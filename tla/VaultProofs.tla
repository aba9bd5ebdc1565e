----------------------------- MODULE VaultProofs -----------------------------
(***************************************************************************)
(* Proofs, for any number of keys and admins, that what the vault commits  *)
(* is a gapless log, that acknowledged writes stay in it, and that the     *)
(* vault implements the versioned store.                                   *)
(***************************************************************************)
EXTENDS Vault, Sequences, FiniteSetTheorems, TLAPS

------------------------------------------------------------------------------
(* The inductive invariant.  A transaction that holds a key's row has the  *)
(* version after the live one; nobody else can change the row before it    *)
(* ends (LocksExclusive), so the version that the unique index has let     *)
(* through is still the next of the log when it commits.                   *)

RequestOK(c) ==
    /\ pc[c] \in {"hist", "commit"} =>
         tx[c].version = live[tx[c].key].version + 1
    /\ pc[c] = "commit" => ~VersionTaken(c)
    /\ pc[c] = "reply" => \E r \in hist[tx[c].key] :
         r.version = tx[c].version /\ r.value = tx[c].value /\ r.by = tx[c].id

LocksExclusive ==
    \A c, d \in Clients, k \in Keys : Holds(c, k) /\ Holds(d, k) => c = d

IndInv ==
    /\ TypeOK
    /\ \A c \in Clients : RequestOK(c)
    /\ LocksExclusive
    /\ HistoryIsALog
    /\ AckedWritesAreRecorded

Request == [id : Nat, kind : Kinds, key : Keys, target : Nat, value : Nat, version : Nat]
HistoryRow == [version : Nat \ {0}, value : Nat, by : Nat]

LEMMA BlankIsARequest == Blank \in Request
BY KeysAssumption DEF Blank, Request, Kinds

------------------------------------------------------------------------------
(* Steps that leave the tables alone.                                      *)

\* A request that moves on, and takes no lock that another one holds, keeps
\* the invariant.
LEMMA LocalStep ==
    ASSUME IndInv, NEW c \in Clients, UNCHANGED <<live, hist, acked>>,
           NEW s \in Steps, NEW t \in Request,
           pc' = [pc EXCEPT ![c] = s], tx' = [tx EXCEPT ![c] = t],
           issued' \in Nat, RequestOK(c)',
           s \in {"hist", "commit"} => \A d \in Clients \ {c} : ~Holds(d, t.key)
    PROVE  IndInv'
<1>1. TypeOK'
  BY DEF IndInv, TypeOK, Request
<1>2. /\ pc'[c] = s /\ tx'[c] = t
      /\ \A d \in Clients \ {c} : pc'[d] = pc[d] /\ tx'[d] = tx[d]
  BY DEF IndInv, TypeOK
<1>3. \A d \in Clients : RequestOK(d)'
  BY <1>2 DEF IndInv, RequestOK, VersionTaken
<1>4. LocksExclusive'
  BY <1>2 DEF IndInv, LocksExclusive, Holds
<1>5. HistoryIsALog' /\ AckedWritesAreRecorded'
  BY DEF IndInv, HistoryIsALog, AckedWritesAreRecorded
<1>6. QED
  BY <1>1, <1>3, <1>4, <1>5 DEF IndInv

\* Giving a request up.
LEMMA AbortStep ==
    ASSUME IndInv, NEW c \in Clients, Abort(c)
    PROVE  IndInv'
<1>1. pc'[c] = "idle"
  BY DEF Abort, IndInv, TypeOK
<1>2. RequestOK(c)'
  BY <1>1 DEF RequestOK
<1>3. "idle" \in Steps /\ issued' \in Nat
  BY DEF Steps, Abort, IndInv, TypeOK
<1>4. QED
  BY <1>2, <1>3, BlankIsARequest, LocalStep DEF Abort

\* Accepting a request.
LEMMA AcceptStep ==
    ASSUME IndInv, NEW c \in Clients, NEW s \in {"row", "target", "delete"},
           NEW t \in Request, Accept(c, s, t), issued' \in Nat
    PROVE  IndInv'
<1>1. pc'[c] = s
  BY DEF Accept, IndInv, TypeOK
<1>2. RequestOK(c)'
  BY <1>1 DEF RequestOK
<1>3. s \in Steps
  BY DEF Steps
<1>4. QED
  BY <1>2, <1>3, LocalStep DEF Accept

LEMMA RequestStep ==
    ASSUME IndInv, NEW c \in Clients, NEW k \in Keys,
           \/ Set(c, k) \/ Delete(c, k)
           \/ \E v \in 1..MaxRequests : Rollback(c, k, v)
    PROVE  IndInv'
<1>1. ASSUME NEW s \in {"row", "target"}, NEW kind \in Kinds, NEW target \in Nat,
             AcceptWrite(c, s, kind, k, target)
      PROVE  IndInv'
  <2> DEFINE t == [Blank EXCEPT !.id = issued + 1, !.kind = kind, !.key = k,
                              !.target = target, !.value = issued + 1]
  <2>1. issued + 1 \in Nat /\ issued' = issued + 1 /\ Accept(c, s, t)
    BY <1>1 DEF AcceptWrite, IndInv, TypeOK
  <2>2. t \in Request
    BY <2>1, BlankIsARequest DEF Request
  <2> HIDE DEF t
  <2>3. QED
    BY <2>1, <2>2, AcceptStep
<1>2. CASE Set(c, k)
  BY <1>1, <1>2 DEF Set, Kinds
<1>3. ASSUME NEW v \in 1..MaxRequests, Rollback(c, k, v) PROVE IndInv'
  BY <1>1, <1>3, MaxRequestsAssumption DEF Rollback, Kinds
<1>4. CASE Delete(c, k)
  <2> DEFINE t == [Blank EXCEPT !.kind = "delete", !.key = k]
  <2>1. t \in Request
    BY BlankIsARequest DEF Request, Kinds
  <2>2. Accept(c, "delete", t) /\ issued' \in Nat
    BY <1>4 DEF Delete, IndInv, TypeOK
  <2> HIDE DEF t
  <2>3. QED
    BY <2>1, <2>2, AcceptStep
<1>5. QED
  BY <1>2, <1>3, <1>4

\* The statements before the commit.
LEMMA ReadTargetStep ==
    ASSUME IndInv, NEW c \in Clients, ReadTarget(c)
    PROVE  IndInv'
<1>1. PICK r \in hist[tx[c].key] : tx' = [tx EXCEPT ![c].value = r.value]
  BY DEF ReadTarget
<1> DEFINE t == [tx[c] EXCEPT !.value = r.value]
<1>2. tx[c] \in Request /\ r.value \in Nat
  BY DEF IndInv, TypeOK, Request
<1>3. t \in Request /\ tx' = [tx EXCEPT ![c] = t]
  BY <1>1, <1>2 DEF IndInv, TypeOK, Request
<1>4. pc' = [pc EXCEPT ![c] = "row"] /\ UNCHANGED <<live, hist, issued, acked>>
  BY DEF ReadTarget
<1>5. RequestOK(c)' /\ "row" \in Steps /\ issued' \in Nat
  BY <1>4 DEF RequestOK, Steps, IndInv, TypeOK
<1> HIDE DEF t
<1>6. QED
  BY <1>3, <1>4, <1>5, LocalStep

LEMMA UpsertRowStep ==
    ASSUME IndInv, NEW c \in Clients, UpsertRow(c)
    PROVE  IndInv'
<1> DEFINE t == [tx[c] EXCEPT !.version = NextVersion(c)]
<1>1. tx[c] \in Request /\ NextVersion(c) \in Nat
  BY DEF IndInv, TypeOK, Request, NextVersion
<1>2. /\ t \in Request /\ tx' = [tx EXCEPT ![c] = t]
      /\ t.key = tx[c].key /\ t.version = live[t.key].version + 1
  BY <1>1 DEF UpsertRow, IndInv, TypeOK, Request, NextVersion
<1>3. pc' = [pc EXCEPT ![c] = "hist"] /\ UNCHANGED <<live, hist, issued, acked>>
  BY DEF UpsertRow
<1>4. pc'[c] = "hist" /\ tx'[c] = t
  BY <1>2, <1>3 DEF IndInv, TypeOK
<1>5. \A d \in Clients \ {c} : ~Holds(d, t.key)
  BY <1>2 DEF UpsertRow, LockedByOther
<1> HIDE DEF t
<1>6. RequestOK(c)' /\ "hist" \in Steps /\ issued' \in Nat
  BY <1>2, <1>3, <1>4 DEF RequestOK, Steps, IndInv, TypeOK
<1>7. QED
  BY <1>2, <1>3, <1>5, <1>6, LocalStep

LEMMA InsertHistoryStep ==
    ASSUME IndInv, NEW c \in Clients, InsertHistory(c)
    PROVE  IndInv'
<1>1. /\ pc' = [pc EXCEPT ![c] = "commit"] /\ UNCHANGED <<live, hist, tx, issued, acked>>
      /\ pc[c] = "hist" /\ ~VersionTaken(c)
  BY DEF InsertHistory
<1>2. tx[c] \in Request /\ tx' = [tx EXCEPT ![c] = tx[c]] /\ "commit" \in Steps
  BY <1>1 DEF IndInv, TypeOK, Request, Steps
<1>3. \A d \in Clients \ {c} : ~Holds(d, tx[c].key)
  BY <1>1, <1>2 DEF IndInv, LocksExclusive, Holds, Request
<1>4. RequestOK(c)' /\ issued' \in Nat
  BY <1>1 DEF IndInv, TypeOK, RequestOK, VersionTaken
<1>5. QED
  BY <1>1, <1>2, <1>3, <1>4, LocalStep

------------------------------------------------------------------------------
(* Steps that change the tables.                                           *)

\* Versions are unique, and none is skipped.
IsLog(rows) ==
    \A r \in rows : /\ \A s \in rows : r.version = s.version => r = s
                    /\ \A x \in 1..r.version : x \in Versions(rows)

\* The row after the newest one continues a log.
LEMMA LogGrows ==
    ASSUME NEW rows \in SUBSET HistoryRow, NEW row \in HistoryRow, IsLog(rows),
           \A s \in rows : s.version < row.version,
           \A x \in 1..(row.version - 1) : x \in Versions(rows)
    PROVE  IsLog(rows \cup {row})
<1> DEFINE more == rows \cup {row}
<1>1. \A x \in Versions(rows) : x \in Versions(more)
  BY DEF Versions
<1>2. row.version \in Versions(more)
  BY DEF Versions
<1>3. \A x \in 1..row.version : x \in Versions(more)
  <2>1. row.version \in Nat
    BY DEF HistoryRow
  <2>2. \A x \in 1..row.version : x = row.version \/ x \in 1..(row.version - 1)
    BY <2>1
  <2> HIDE DEF more
  <2>3. QED
    BY <1>1, <1>2, <2>2
<1>4. \A r \in rows : \A x \in 1..r.version : x \in Versions(more)
  BY <1>1 DEF IsLog
<1>5. \A r, s \in more : r.version = s.version => r = s
  BY DEF IsLog, HistoryRow
<1>6. QED
  BY <1>3, <1>4, <1>5 DEF IsLog

\* A delete waits for the transaction that holds the row.
LEMMA DeleteRowStep ==
    ASSUME IndInv, NEW c \in Clients, DeleteRow(c)
    PROVE  IndInv'
<1> DEFINE k == tx[c].key
<1>1. /\ k \in Keys /\ live' = [live EXCEPT ![k] = NoRow]
      /\ pc' = [pc EXCEPT ![c] = "idle"] /\ tx' = [tx EXCEPT ![c] = Blank]
      /\ UNCHANGED <<hist, issued, acked>>
      /\ \A d \in Clients \ {c} : ~Holds(d, k)
  BY DEF DeleteRow, LockedByOther, IndInv, TypeOK
<1>2. TypeOK'
  BY <1>1, BlankIsARequest DEF IndInv, TypeOK, Request, Steps, NoRow
<1>3. \A d \in Clients : RequestOK(d)'
  <2> SUFFICES ASSUME NEW d \in Clients PROVE RequestOK(d)'
    OBVIOUS
  <2>1. CASE d = c
    BY <1>1, <2>1 DEF IndInv, TypeOK, RequestOK
  <2>2. CASE d # c
    <3>1. RequestOK(d) /\ pc'[d] = pc[d] /\ tx'[d] = tx[d] /\ tx[d].key \in Keys
      BY <1>1, <2>2 DEF IndInv, TypeOK
    <3>2. pc[d] \in {"hist", "commit"} => live'[tx[d].key] = live[tx[d].key]
      BY <1>1, <2>2, <3>1 DEF IndInv, TypeOK, Holds
    <3>3. QED
      BY <1>1, <3>1, <3>2 DEF RequestOK, VersionTaken
  <2>3. QED
    BY <2>1, <2>2
<1>4. LocksExclusive'
  BY <1>1 DEF IndInv, TypeOK, LocksExclusive, Holds
<1>5. HistoryIsALog' /\ AckedWritesAreRecorded'
  BY <1>1 DEF IndInv, TypeOK, HistoryIsALog, AckedWritesAreRecorded
<1>6. QED
  BY <1>2, <1>3, <1>4, <1>5 DEF IndInv

\* The row that is committed is the next of its key's log.
LEMMA CommitStep ==
    ASSUME IndInv, NEW c \in Clients, Commit(c)
    PROVE  IndInv'
<1> DEFINE k == tx[c].key
           v == tx[c].version
           row == [version |-> v, value |-> tx[c].value, by |-> tx[c].id]
<1>1. /\ pc[c] = "commit" /\ k \in Keys /\ tx[c].value \in Nat /\ tx[c].id \in Nat
      /\ v = live[k].version + 1 /\ live[k].version \in Nat
      /\ v \notin Versions(hist[k])
  BY DEF Commit, IndInv, TypeOK, RequestOK, VersionTaken
<1>2. /\ live' = [live EXCEPT ![k] = [version |-> v, value |-> tx[c].value]]
      /\ hist' = [hist EXCEPT ![k] = @ \cup {row}]
      /\ pc' = [pc EXCEPT ![c] = "reply"] /\ UNCHANGED <<tx, issued, acked>>
  BY DEF Commit
<1>3. /\ live'[k] = [version |-> v, value |-> tx[c].value]
      /\ hist'[k] = hist[k] \cup {row}
      /\ \A x \in Keys \ {k} : live'[x] = live[x] /\ hist'[x] = hist[x]
  BY <1>1, <1>2 DEF IndInv, TypeOK
<1>4. row \in HistoryRow /\ hist[k] \subseteq HistoryRow
  BY <1>1 DEF HistoryRow, IndInv, TypeOK
<1>5. TypeOK'
  <2>1. live' \in [Keys -> [version : Nat, value : Nat]]
    BY <1>1, <1>2 DEF IndInv, TypeOK
  <2>2. hist' \in [Keys -> SUBSET HistoryRow]
    BY <1>1, <1>2, <1>4 DEF IndInv, TypeOK, HistoryRow
  <2>3. QED
    BY <1>2, <2>1, <2>2 DEF IndInv, TypeOK, HistoryRow, Steps
<1>6. HistoryIsALog'
  <2>1. /\ \A r, s \in hist[k] : r.version = s.version => r = s
        /\ \A r \in hist[k] : \A x \in 1..r.version : x \in Versions(hist[k])
        /\ live[k] # NoRow =>
             /\ \E r \in hist[k] : r.version = live[k].version
             /\ \A s \in hist[k] : s.version <= live[k].version
    BY <1>1 DEF IndInv, HistoryIsALog
  <2>2. \A s \in hist[k] : s.version < v
    <3>1. CASE live[k] # NoRow
      BY <1>1, <1>4, <2>1, <3>1 DEF HistoryRow
    <3>2. CASE live[k] = NoRow
      <4>1. v = 1
        BY <1>1, <3>2 DEF NoRow
      <4>2. \A s \in hist[k] : 1 \in 1..s.version
        BY <1>4 DEF HistoryRow
      <4>3. QED
        BY <1>1, <2>1, <4>1, <4>2
    <3>3. QED
      BY <3>1, <3>2
  <2>3. \A x \in 1..(v - 1) : x \in Versions(hist[k])
    <3>1. CASE live[k] # NoRow
      BY <1>1, <2>1, <3>1
    <3>2. CASE live[k] = NoRow
      BY <1>1, <3>2 DEF NoRow
    <3>3. QED
      BY <3>1, <3>2
  <2>4. row \in HistoryRow /\ row.version = v /\ row.value = tx[c].value
    BY <1>4
  <2>5. hist[k] \in SUBSET HistoryRow /\ IsLog(hist[k])
    BY <1>4, <2>1 DEF IsLog
  <2>6. IsLog(hist'[k])
    <3>1. IsLog(hist[k] \cup {row})
      <4> HIDE DEF k, v, row
      <4>1. QED
        BY <2>2, <2>3, <2>4, <2>5, LogGrows
    <3>2. QED
      BY <1>3, <3>1
  <2>7. /\ \E r \in hist'[k] : r.version = live'[k].version /\ r.value = live'[k].value
        /\ \A s \in hist'[k] : s.version <= live'[k].version
    <3>1. live'[k].version = v /\ live'[k].value = tx[c].value
      BY <1>3
    <3>2. \A s \in hist[k] : s.version \in Nat
      BY <1>4 DEF HistoryRow
    <3> HIDE DEF k, v, row
    <3>3. QED
      BY <1>1, <1>3, <2>2, <2>4, <3>1, <3>2
  <2>8. \A x \in Keys \ {k} : live'[x] = live[x] /\ hist'[x] = hist[x]
    BY <1>3
  <2> HIDE DEF k, v, row
  <2>9. QED
    BY <1>1, <2>6, <2>7, <2>8 DEF IndInv, HistoryIsALog, IsLog
<1>7. \A x \in Keys : hist[x] \subseteq hist'[x]
  BY <1>3
<1>8. AckedWritesAreRecorded'
  BY <1>2, <1>7 DEF IndInv, TypeOK, AckedWritesAreRecorded
<1>9. LocksExclusive'
  BY <1>2 DEF IndInv, TypeOK, LocksExclusive, Holds
<1>10. \A d \in Clients : RequestOK(d)'
  <2> SUFFICES ASSUME NEW d \in Clients PROVE RequestOK(d)'
    OBVIOUS
  <2>1. CASE d = c
    <3>1. pc'[c] = "reply" /\ tx' = tx
      BY <1>2 DEF IndInv, TypeOK
    <3>2. row \in hist'[k] /\ row.version = v /\ row.value = tx[c].value /\ row.by = tx[c].id
      BY <1>3
    <3>3. QED
      BY <2>1, <3>1, <3>2 DEF RequestOK
  <2>2. CASE d # c
    <3>1. RequestOK(d) /\ pc'[d] = pc[d] /\ tx'[d] = tx[d] /\ tx[d].key \in Keys
      BY <1>2, <2>2 DEF IndInv, TypeOK
    <3>2. pc[d] \in {"hist", "commit"} => tx[d].key # k
      BY <1>1, <2>2 DEF IndInv, LocksExclusive, Holds
    <3>3. QED
      BY <1>3, <1>7, <3>1, <3>2 DEF RequestOK, VersionTaken
  <2>3. QED
    BY <2>1, <2>2
<1>11. QED
  BY <1>5, <1>6, <1>8, <1>9, <1>10 DEF IndInv

\* The response names a row that is there.
LEMMA ReplyStep ==
    ASSUME IndInv, NEW c \in Clients, Reply(c)
    PROVE  IndInv'
<1>1. /\ pc[c] = "reply" /\ UNCHANGED <<live, hist, issued>>
      /\ pc' = [pc EXCEPT ![c] = "idle"] /\ tx' = [tx EXCEPT ![c] = Blank]
      /\ acked' = acked \cup {[key |-> tx[c].key, version |-> tx[c].version,
                               value |-> tx[c].value, by |-> tx[c].id]}
  BY DEF Reply
<1>2. TypeOK'
  BY <1>1, BlankIsARequest DEF IndInv, TypeOK, Request, Steps
<1>3. /\ pc'[c] = "idle"
      /\ \A d \in Clients \ {c} : pc'[d] = pc[d] /\ tx'[d] = tx[d]
  BY <1>1 DEF IndInv, TypeOK
<1>4. \A d \in Clients : RequestOK(d)'
  BY <1>1, <1>3 DEF IndInv, RequestOK, VersionTaken
<1>5. LocksExclusive'
  BY <1>3 DEF IndInv, LocksExclusive, Holds
<1>6. HistoryIsALog'
  BY <1>1 DEF IndInv, HistoryIsALog
<1>7. AckedWritesAreRecorded'
  BY <1>1 DEF IndInv, RequestOK, AckedWritesAreRecorded
<1>8. QED
  BY <1>2, <1>4, <1>5, <1>6, <1>7 DEF IndInv

------------------------------------------------------------------------------
(* The theorems.                                                           *)

LEMMA InitOK == Init => IndInv
<1> SUFFICES ASSUME Init PROVE IndInv
  OBVIOUS
<1>1. TypeOK
  BY BlankIsARequest DEF Init, TypeOK, Request, Steps, NoRow
<1>2. \A c \in Clients : pc[c] = "idle"
  BY DEF Init
<1>3. (\A c \in Clients : RequestOK(c)) /\ LocksExclusive
  BY <1>2 DEF RequestOK, LocksExclusive, Holds
<1>4. HistoryIsALog /\ AckedWritesAreRecorded
  BY DEF Init, HistoryIsALog, AckedWritesAreRecorded
<1>5. QED
  BY <1>1, <1>3, <1>4 DEF IndInv

LEMMA NextOK == IndInv /\ [Next]_vars => IndInv'
<1> SUFFICES ASSUME IndInv, [Next]_vars PROVE IndInv'
  OBVIOUS
<1>1. CASE Next
  <2>1. PICK c \in Clients :
          \/ \E k \in Keys : \/ Set(c, k) \/ Delete(c, k)
                             \/ \E v \in 1..MaxRequests : Rollback(c, k, v)
          \/ ReadTarget(c) \/ TargetNotFound(c) \/ DeleteRow(c) \/ DeleteNotFound(c)
          \/ UpsertRow(c) \/ InsertHistory(c) \/ UniqueViolation(c)
          \/ Commit(c) \/ Reply(c) \/ Fail(c)
    BY <1>1 DEF Next
  <2>2. CASE TargetNotFound(c) \/ DeleteNotFound(c) \/ UniqueViolation(c) \/ Fail(c)
    BY <2>2, AbortStep DEF TargetNotFound, DeleteNotFound, UniqueViolation, Fail
  <2>3. CASE DeleteRow(c) \/ Commit(c) \/ Reply(c)
    BY <2>3, DeleteRowStep, CommitStep, ReplyStep
  <2>4. CASE ReadTarget(c) \/ UpsertRow(c) \/ InsertHistory(c)
    BY <2>4, ReadTargetStep, UpsertRowStep, InsertHistoryStep
  <2>5. QED
    BY <2>1, <2>2, <2>3, <2>4, RequestStep
<1>2. CASE UNCHANGED vars
  BY <1>2 DEF vars, IndInv, TypeOK, RequestOK, VersionTaken, LocksExclusive, Holds,
              HistoryIsALog, AckedWritesAreRecorded
<1>3. QED
  BY <1>1, <1>2

\* The inductive invariant holds: a transaction that holds a row has the
\* version after it.
THEOREM IndInvHolds == Spec => []IndInv
BY InitOK, NextOK, PTL DEF Spec

\* Every variable keeps its type.
THEOREM TypeCorrect == Spec => []TypeOK
<1>1. IndInv => TypeOK
  BY DEF IndInv
<1>2. QED
  BY <1>1, IndInvHolds, PTL

\* Version numbers are unique, gapless and start at 1, whatever admins set,
\* delete and roll back at once (vault.go:46-60).
THEOREM HistoryStaysALog == Spec => []HistoryIsALog
<1>1. IndInv => HistoryIsALog
  BY DEF IndInv
<1>2. QED
  BY <1>1, IndInvHolds, PTL

\* A version number that an admin was given names its ciphertext for ever.
THEOREM AckedWritesStayRecorded == Spec => []AckedWritesAreRecorded
<1>1. IndInv => AckedWritesAreRecorded
  BY DEF IndInv
<1>2. QED
  BY <1>1, IndInvHolds, PTL

------------------------------------------------------------------------------
(* The vault implements the versioned store.  Its log of a key is read off *)
(* the history by version numbers, so the history must have as many rows   *)
(* as versions (Counted); a set must write a ciphertext that was never     *)
(* stored, and a rollback one that its key's history has (WritesOK).       *)

Writing(c) == pc[c] \in {"row", "hist", "commit"}
Stores(c) == Writing(c) /\ tx[c].kind = "set"

Counted ==
    \A k \in Keys : /\ IsFiniteSet(hist[k])
                    /\ Versions(hist[k]) = 1..Cardinality(hist[k])

Issued ==
    /\ issued \in 0..MaxRequests
    /\ \A k \in Keys : \A r \in hist[k] : r.value \in 1..issued

WritesOK(c) ==
    /\ pc[c] = "target" => tx[c].kind = "rollback"
    /\ Writing(c) => tx[c].value \in 1..issued
    /\ Writing(c) /\ ~Stores(c) => \E r \in hist[tx[c].key] : r.value = tx[c].value
    /\ Stores(c) =>
         /\ \A k \in Keys : \A r \in hist[k] : r.value # tx[c].value
         /\ \A d \in Clients \ {c} : Stores(d) => tx[d].value # tx[c].value

StoreInv == Counted /\ Issued /\ \A c \in Clients : WritesOK(c)

LEMMA StoreInvInit == Init => StoreInv
<1> SUFFICES ASSUME Init PROVE StoreInv
  OBVIOUS
<1>1. \A k \in Keys : hist[k] = {}
  BY DEF Init
<1>2. IsFiniteSet({}) /\ Cardinality({}) = 0 /\ Versions({}) = {}
  BY FS_EmptySet DEF Versions
<1>3. 1..0 = {}
  OBVIOUS
<1>4. Counted
  BY <1>1, <1>2, <1>3 DEF Counted
<1>5. Issued
  BY <1>1, MaxRequestsAssumption DEF Issued, Init
<1>6. \A c \in Clients : WritesOK(c)
  BY DEF Init, WritesOK, Writing, Stores
<1>7. QED
  BY <1>4, <1>5, <1>6 DEF StoreInv

\* A request that goes on without writing anything new.
LEMMA QuietStoreInv ==
    ASSUME IndInv, StoreInv, NEW c \in Clients, UNCHANGED hist,
           issued' \in 0..MaxRequests, issued <= issued',
           \A d \in Clients \ {c} : pc'[d] = pc[d] /\ tx'[d] = tx[d],
           WritesOK(c)', Stores(c)' => Stores(c) /\ tx'[c].value = tx[c].value
    PROVE  StoreInv'
<1>1. Counted' /\ Issued'
  BY DEF StoreInv, Counted, Issued
<1>2. ASSUME NEW d \in Clients \ {c} PROVE WritesOK(d)'
  <2>1. WritesOK(d) /\ pc'[d] = pc[d] /\ tx'[d] = tx[d]
    BY DEF StoreInv
  <2>2. \A e \in Clients \ {d} : Stores(e)' => Stores(e) /\ tx'[e].value = tx[e].value
    BY DEF Stores, Writing
  <2>3. (Stores(d)' <=> Stores(d)) /\ (Writing(d)' <=> Writing(d))
    BY <2>1 DEF Stores, Writing
  <2>4. \A v \in 1..issued : v \in 1..issued'
    BY DEF IndInv, TypeOK
  <2>5. QED
    BY <2>1, <2>2, <2>3, <2>4 DEF WritesOK
<1>3. QED
  BY <1>1, <1>2 DEF StoreInv

\* The new request of a set has a number that no ciphertext has yet.
LEMMA AcceptStoreInv ==
    ASSUME IndInv, StoreInv, NEW c \in Clients, NEW k \in Keys, Set(c, k)
    PROVE  StoreInv'
<1>1. /\ pc' = [pc EXCEPT ![c] = "row"] /\ UNCHANGED <<live, hist, acked>>
      /\ issued < MaxRequests /\ issued' = issued + 1
      /\ tx' = [tx EXCEPT ![c] = [Blank EXCEPT !.id = issued + 1, !.kind = "set",
                                     !.key = k, !.target = 0, !.value = issued + 1]]
  BY DEF Set, AcceptWrite, Accept
<1>2. /\ pc'[c] = "row" /\ tx'[c].kind = "set" /\ tx'[c].value = issued + 1
      /\ \A d \in Clients \ {c} : pc'[d] = pc[d] /\ tx'[d] = tx[d]
  BY <1>1 DEF IndInv, TypeOK, Blank
<1>3. issued \in Nat /\ \A v \in 1..issued : v \in 1..issued' /\ v # issued + 1
  BY <1>1 DEF IndInv, TypeOK
<1>4. Counted' /\ Issued'
  BY <1>1, <1>3, MaxRequestsAssumption DEF StoreInv, Counted, Issued
<1>5. \A d \in Clients \ {c} : /\ Stores(d)' <=> Stores(d)
                               /\ Writing(d)' <=> Writing(d)
  BY <1>2 DEF Stores, Writing
<1>6. ASSUME NEW d \in Clients \ {c} PROVE WritesOK(d)'
  <2>1. WritesOK(d) /\ pc'[d] = pc[d] /\ tx'[d] = tx[d]
    BY <1>2 DEF StoreInv
  <2>2. Stores(d) => tx[d].value # tx'[c].value
    BY <1>2, <1>3, <2>1 DEF WritesOK, Stores
  <2>3. Writing(d) => tx[d].value \in 1..issued'
    BY <1>3, <2>1 DEF WritesOK
  <2>4. Writing(d)' /\ ~Stores(d)' => \E r \in hist'[tx'[d].key] : r.value = tx'[d].value
    BY <1>1, <1>5, <2>1 DEF WritesOK
  <2>5. Stores(d)' =>
          /\ \A x \in Keys : \A r \in hist'[x] : r.value # tx'[d].value
          /\ \A e \in Clients \ {d} : Stores(e)' => tx'[e].value # tx'[d].value
    BY <1>1, <1>2, <1>5, <2>1, <2>2 DEF WritesOK
  <2>6. QED
    BY <1>5, <2>1, <2>3, <2>4, <2>5 DEF WritesOK
<1>7. WritesOK(c)'
  <2>1. \A x \in Keys : \A r \in hist[x] : r.value # tx'[c].value
    BY <1>2, <1>3 DEF StoreInv, Issued
  <2>2. \A d \in Clients \ {c} : Stores(d) => tx[d].value # tx'[c].value
    BY <1>2, <1>3 DEF StoreInv, WritesOK, Stores
  <2>3. QED
    BY <1>1, <1>2, <1>3, <1>5, <2>1, <2>2 DEF WritesOK, Stores, Writing
<1>8. QED
  BY <1>4, <1>6, <1>7 DEF StoreInv

LEMMA RequestStoreInv ==
    ASSUME IndInv, StoreInv, NEW c \in Clients, NEW k \in Keys,
           \/ Set(c, k) \/ Delete(c, k)
           \/ \E v \in 1..MaxRequests : Rollback(c, k, v)
    PROVE  StoreInv'
<1>1. CASE Set(c, k)
  BY <1>1, AcceptStoreInv
<1>2. CASE Delete(c, k)
  <2>1. /\ pc'[c] = "delete" /\ UNCHANGED <<hist, issued>>
        /\ \A d \in Clients \ {c} : pc'[d] = pc[d] /\ tx'[d] = tx[d]
    BY <1>2 DEF Delete, Accept, IndInv, TypeOK
  <2>2. WritesOK(c)' /\ ~Stores(c)'
    BY <2>1 DEF WritesOK, Stores, Writing
  <2>3. QED
    BY <2>1, <2>2, QuietStoreInv DEF StoreInv, Issued
<1>3. ASSUME NEW v \in 1..MaxRequests, Rollback(c, k, v) PROVE StoreInv'
  <2>1. /\ pc' = [pc EXCEPT ![c] = "target"] /\ UNCHANGED <<live, hist, acked>>
        /\ issued < MaxRequests /\ issued' = issued + 1
        /\ tx' = [tx EXCEPT ![c] = [Blank EXCEPT !.id = issued + 1, !.kind = "rollback",
                                       !.key = k, !.target = v, !.value = issued + 1]]
    BY <1>3 DEF Rollback, AcceptWrite, Accept
  <2>2. /\ pc'[c] = "target" /\ tx'[c].kind = "rollback"
        /\ \A d \in Clients \ {c} : pc'[d] = pc[d] /\ tx'[d] = tx[d]
    BY <2>1 DEF IndInv, TypeOK, Blank
  <2>3. WritesOK(c)' /\ ~Stores(c)'
    BY <2>2 DEF WritesOK, Stores, Writing
  <2>4. issued' \in 0..MaxRequests /\ issued <= issued'
    BY <2>1, MaxRequestsAssumption DEF StoreInv, Issued
  <2>5. QED
    BY <2>1, <2>2, <2>3, <2>4, QuietStoreInv
<1>4. QED
  BY <1>1, <1>2, <1>3

LEMMA StatementStoreInv ==
    ASSUME IndInv, StoreInv, NEW c \in Clients,
           \/ ReadTarget(c) \/ UpsertRow(c) \/ InsertHistory(c)
           \/ DeleteRow(c) \/ Reply(c) \/ Abort(c)
    PROVE  StoreInv'
<1>1. UNCHANGED <<hist, issued>> /\ \A d \in Clients \ {c} : pc'[d] = pc[d] /\ tx'[d] = tx[d]
  BY DEF IndInv, TypeOK, ReadTarget, UpsertRow, InsertHistory, DeleteRow, Reply, Abort
<1>2. CASE DeleteRow(c) \/ Reply(c) \/ Abort(c)
  <2>1. pc'[c] = "idle"
    BY <1>2 DEF IndInv, TypeOK, DeleteRow, Reply, Abort
  <2>2. WritesOK(c)' /\ ~Stores(c)'
    BY <2>1 DEF WritesOK, Stores, Writing
  <2>3. QED
    BY <1>1, <2>2, QuietStoreInv DEF StoreInv, Issued
<1>3. CASE UpsertRow(c) \/ InsertHistory(c)
  <2>1. /\ Writing(c) /\ Writing(c)'
        /\ tx'[c].value = tx[c].value /\ tx'[c].kind = tx[c].kind /\ tx'[c].key = tx[c].key
    BY <1>3 DEF UpsertRow, InsertHistory, Writing, IndInv, TypeOK
  <2>2. (Stores(c)' <=> Stores(c)) /\ pc'[c] # "target"
    BY <2>1 DEF Stores, Writing
  <2>3. \A d \in Clients \ {c} : Stores(d)' <=> Stores(d)
    BY <1>1 DEF Stores, Writing
  <2>4. WritesOK(c)'
    BY <1>1, <2>1, <2>2, <2>3 DEF StoreInv, WritesOK
  <2>5. QED
    BY <1>1, <2>1, <2>2, <2>4, QuietStoreInv DEF StoreInv, Issued
<1>4. CASE ReadTarget(c)
  <2>1. PICK r \in hist[tx[c].key] :
          tx' = [tx EXCEPT ![c].value = r.value] /\ pc' = [pc EXCEPT ![c] = "row"]
    BY <1>4 DEF ReadTarget
  <2>2. /\ tx'[c].value = r.value /\ tx'[c].key = tx[c].key /\ tx[c].key \in Keys
        /\ tx'[c].kind = "rollback" /\ pc'[c] = "row"
    BY <1>4, <2>1 DEF ReadTarget, IndInv, TypeOK, StoreInv, WritesOK
  <2>3. r.value \in 1..issued /\ ~Stores(c)'
    BY <2>2 DEF StoreInv, Issued, Stores
  <2>4. WritesOK(c)'
    BY <1>1, <2>2, <2>3 DEF WritesOK
  <2>5. QED
    BY <1>1, <2>3, <2>4, QuietStoreInv DEF StoreInv, Issued
<1>5. QED
  BY <1>2, <1>3, <1>4

\* The row a commit adds, and the version it gets.
LEMMA CommitAdds ==
    ASSUME IndInv, StoreInv, NEW c \in Clients, Commit(c)
    PROVE  LET k == tx[c].key
               row == [version |-> tx[c].version, value |-> tx[c].value, by |-> tx[c].id]
           IN  /\ k \in Keys /\ hist' = [hist EXCEPT ![k] = hist[k] \cup {row}]
               /\ live' = [live EXCEPT ![k] = [version |-> row.version, value |-> row.value]]
               /\ IsFiniteSet(hist[k]) /\ hist[k] \subseteq HistoryRow /\ row \in HistoryRow
               /\ row \notin hist[k] /\ row.version = Cardinality(hist[k]) + 1
               /\ row.version \notin Versions(hist[k])
               /\ Cardinality(hist'[k]) = Cardinality(hist[k]) + 1
               /\ IsFiniteSet(hist'[k]) /\ hist'[k] = hist[k] \cup {row}
<1> DEFINE k == tx[c].key
           n == Cardinality(hist[k])
           row == [version |-> tx[c].version, value |-> tx[c].value, by |-> tx[c].id]
<1>1. /\ k \in Keys /\ hist' = [hist EXCEPT ![k] = hist[k] \cup {row}]
      /\ live' = [live EXCEPT ![k] = [version |-> row.version, value |-> row.value]]
      /\ hist[k] \subseteq HistoryRow /\ row.version = live[k].version + 1
      /\ row.version \notin Versions(hist[k]) /\ live[k].version \in Nat
      /\ row \in HistoryRow
  BY DEF Commit, IndInv, TypeOK, RequestOK, VersionTaken, HistoryRow
<1>2. IsFiniteSet(hist[k]) /\ Versions(hist[k]) = 1..n /\ n \in Nat
  BY <1>1, FS_CardinalityType DEF StoreInv, Counted
<1>3. live[k].version = n
  <2>1. CASE live[k] = NoRow
    <3>1. row.version = 1
      BY <1>1, <2>1 DEF NoRow
    <3>2. 1 \notin 1..n
      BY <1>1, <1>2, <3>1
    <3>3. QED
      BY <1>2, <2>1, <3>2 DEF NoRow
  <2>2. CASE live[k] # NoRow
    <3>1. PICK r \in hist[k] : r.version = live[k].version
      BY <1>1, <2>2 DEF IndInv, HistoryIsALog
    <3>2. live[k].version \in 1..n
      BY <1>2, <3>1 DEF Versions
    <3>3. live[k].version + 1 \notin 1..n
      BY <1>1, <1>2
    <3>4. QED
      BY <1>2, <3>2, <3>3
  <2>3. QED
    BY <2>1, <2>2
<1>4. row \notin hist[k]
  BY <1>1 DEF Versions
<1>5. /\ IsFiniteSet(hist[k] \cup {row}) /\ Cardinality(hist[k] \cup {row}) = n + 1
  BY <1>2, <1>4, FS_AddElement
<1>6. hist'[k] = hist[k] \cup {row}
  BY <1>1 DEF IndInv, TypeOK
<1>7. QED
  BY <1>1, <1>2, <1>3, <1>4, <1>5, <1>6

LEMMA CommitStoreInv ==
    ASSUME IndInv, StoreInv, NEW c \in Clients, Commit(c)
    PROVE  StoreInv'
<1> DEFINE k == tx[c].key
           row == [version |-> tx[c].version, value |-> tx[c].value, by |-> tx[c].id]
<1>1. /\ k \in Keys /\ hist' = [hist EXCEPT ![k] = hist[k] \cup {row}]
      /\ IsFiniteSet(hist[k]) /\ row.version = Cardinality(hist[k]) + 1
      /\ Cardinality(hist'[k]) = Cardinality(hist[k]) + 1
      /\ IsFiniteSet(hist'[k]) /\ hist'[k] = hist[k] \cup {row}
  BY CommitAdds
<1>2. /\ pc[c] = "commit" /\ pc'[c] = "reply" /\ UNCHANGED <<tx, issued>>
      /\ \A d \in Clients \ {c} : pc'[d] = pc[d]
      /\ \A x \in Keys \ {k} : hist'[x] = hist[x]
  BY <1>1 DEF Commit, IndInv, TypeOK
<1>3. row.value \in 1..issued /\ row.value = tx[c].value
  BY <1>2 DEF StoreInv, WritesOK, Writing
<1>4. Counted'
  <2>1. Versions(hist'[k]) = 1..Cardinality(hist'[k])
    <3>1. Versions(hist[k] \cup {row}) = Versions(hist[k]) \cup {row.version}
      BY DEF Versions
    <3>2. Cardinality(hist[k]) \in Nat
      BY <1>1, FS_CardinalityType
    <3>3. Versions(hist[k]) = 1..Cardinality(hist[k])
      BY <1>1 DEF StoreInv, Counted
    <3>4. \A n \in Nat : (1..n) \cup {n + 1} = 1..(n + 1)
      OBVIOUS
    <3>5. QED
      BY <1>1, <3>1, <3>2, <3>3, <3>4
  <2>2. QED
    BY <1>1, <1>2, <2>1 DEF StoreInv, Counted
<1>5. Issued'
  BY <1>1, <1>2, <1>3 DEF StoreInv, Issued
<1>6. ASSUME NEW d \in Clients \ {c} PROVE WritesOK(d)'
  <2>1. WritesOK(d) /\ pc'[d] = pc[d] /\ tx'[d] = tx[d] /\ tx[d].key \in Keys
    BY <1>2 DEF StoreInv, IndInv, TypeOK
  <2>2. (Stores(d)' <=> Stores(d)) /\ (Writing(d)' <=> Writing(d))
    BY <2>1 DEF Stores, Writing
  <2>3. \A e \in Clients : Stores(e)' => Stores(e)
    BY <1>2 DEF Stores, Writing
  <2>4. Stores(d) => tx[d].value # row.value
    <3>1. CASE Stores(c)
      BY <1>3, <2>1, <3>1 DEF WritesOK
    <3>2. CASE ~Stores(c)
      <4>1. \E r \in hist[k] : r.value = tx[c].value
        BY <1>2, <3>2 DEF StoreInv, WritesOK, Writing
      <4>2. QED
        BY <1>1, <1>3, <2>1, <4>1 DEF WritesOK
    <3>3. QED
      BY <3>1, <3>2
  <2>5. Stores(d) => \A x \in Keys : \A r \in hist'[x] : r.value # tx[d].value
    BY <1>1, <1>2, <2>1, <2>4 DEF WritesOK
  <2>6. Writing(d) /\ ~Stores(d) => \E r \in hist'[tx[d].key] : r.value = tx[d].value
    BY <1>1, <1>2, <2>1 DEF WritesOK
  <2>7. QED
    BY <1>2, <2>1, <2>2, <2>3, <2>5, <2>6 DEF WritesOK
<1>7. WritesOK(c)'
  BY <1>2 DEF WritesOK, Stores, Writing
<1>8. QED
  BY <1>4, <1>5, <1>6, <1>7 DEF StoreInv

LEMMA StoreInvNext == IndInv /\ StoreInv /\ [Next]_vars => StoreInv'
<1> SUFFICES ASSUME IndInv, StoreInv, [Next]_vars PROVE StoreInv'
  OBVIOUS
<1>1. CASE Next
  <2>1. PICK c \in Clients :
          \/ \E k \in Keys : \/ Set(c, k) \/ Delete(c, k)
                             \/ \E v \in 1..MaxRequests : Rollback(c, k, v)
          \/ ReadTarget(c) \/ DeleteRow(c) \/ UpsertRow(c) \/ InsertHistory(c)
          \/ Commit(c) \/ Reply(c) \/ Abort(c)
    BY <1>1 DEF Next, TargetNotFound, DeleteNotFound, UniqueViolation, Fail
  <2>2. QED
    BY <2>1, RequestStoreInv, StatementStoreInv, CommitStoreInv
<1>2. CASE UNCHANGED vars
  BY <1>2 DEF vars, StoreInv, Counted, Issued, WritesOK, Writing, Stores
<1>3. QED
  BY <1>1, <1>2

\* The log of a history, and what another row makes of it.
LEMMA LogLength ==
    ASSUME NEW rows \in SUBSET HistoryRow, IsFiniteSet(rows)
    PROVE  /\ Cardinality(rows) \in Nat
           /\ DOMAIN LogOf(rows) = 1..Cardinality(rows)
BY FS_CardinalityType DEF LogOf

LEMMA LogEntry ==
    ASSUME NEW rows \in SUBSET HistoryRow, IsLog(rows), NEW r \in rows,
           r.version \in 1..Cardinality(rows)
    PROVE  LogOf(rows)[r.version] = r.value
<1>1. (CHOOSE s \in rows : s.version = r.version) = r
  BY DEF IsLog
<1>2. QED
  BY <1>1 DEF LogOf

LEMMA LogAppends ==
    ASSUME NEW rows \in SUBSET HistoryRow, NEW row \in HistoryRow, IsFiniteSet(rows),
           IsLog(rows), IsLog(rows \cup {row}),
           Versions(rows) = 1..Cardinality(rows),
           row.version = Cardinality(rows) + 1,
           Cardinality(rows \cup {row}) = Cardinality(rows) + 1
    PROVE  LogOf(rows \cup {row}) = Append(LogOf(rows), row.value)
<1> DEFINE n == Cardinality(rows)
           more == rows \cup {row}
<1>1. n \in Nat
  BY LogLength
<1>2. ASSUME NEW i \in 1..n
      PROVE  LogOf(more)[i] = LogOf(rows)[i] /\ LogOf(rows)[i] \in Nat
  <2>1. PICK r \in rows : r.version = i
    BY DEF Versions
  <2>2. LogOf(rows)[i] = r.value
    BY <2>1, LogEntry
  <2>3. i \in 1..(n + 1) /\ more \in SUBSET HistoryRow /\ r \in more /\ r.value \in Nat
    BY <1>1 DEF HistoryRow
  <2>4. LogOf(more)[i] = r.value
    <3> HIDE DEF more
    <3>1. QED
      BY <2>1, <2>3, LogEntry DEF more
  <2>5. QED
    BY <2>2, <2>3, <2>4
<1>3. LogOf(more)[n + 1] = row.value
  <2>1. n + 1 \in 1..(n + 1) /\ more \in SUBSET HistoryRow /\ row \in more
    BY <1>1
  <2>2. QED
    BY <2>1, LogEntry
<1>4. LogOf(rows) \in [1..n -> Nat] /\ LogOf(more) = [i \in 1..(n + 1) |-> LogOf(more)[i]]
  <2>1. DOMAIN LogOf(rows) = 1..n /\ LogOf(rows) = [i \in 1..n |-> LogOf(rows)[i]]
    BY DEF LogOf
  <2>2. LogOf(more) = [i \in 1..(n + 1) |-> LogOf(more)[i]]
    BY DEF LogOf
  <2>3. QED
    BY <1>2, <2>1, <2>2
<1>5. LogOf(rows) \in Seq(Nat) /\ Len(LogOf(rows)) = n
  <2> HIDE DEF n
  <2>1. QED
    BY <1>1, <1>4
<1>6. LogOf(more) \in [1..(n + 1) -> Nat]
  <2>1. row.value \in Nat
    BY DEF HistoryRow
  <2>2. \A i \in 1..(n + 1) : i \in 1..n \/ i = n + 1
    BY <1>1
  <2>3. QED
    BY <1>2, <1>3, <1>4, <2>1, <2>2
<1>7. QED
  <2>1. row.value \in Nat
    BY DEF HistoryRow
  <2> HIDE DEF n, more
  <2>2. LogOf(more) \in Seq(Nat) /\ Len(LogOf(more)) = n + 1
    BY <1>1, <1>6
  <2>3. LogOf(more) = Append(LogOf(rows), row.value)
    BY <1>1, <1>2, <1>3, <1>5, <2>1, <2>2
  <2>4. QED
    BY <2>3 DEF more

LEMMA QuietStutters == ASSUME UNCHANGED <<live, hist>> PROVE UNCHANGED Store!vars
BY DEF Store!vars

\* A delete is the store's Remove: a live row has a ciphertext.
LEMMA DeleteRemoves ==
    ASSUME IndInv, StoreInv, NEW c \in Clients, DeleteRow(c),
           NEW k \in Keys, k = tx[c].key
    PROVE  Store!Remove("org", k)
<1> DEFINE current == [e \in {"org"} |-> [x \in Keys |-> live[x].value]]
<1>1. /\ k \in Keys /\ live[k] # NoRow /\ live' = [live EXCEPT ![k] = NoRow]
      /\ UNCHANGED hist
  BY DEF DeleteRow, IndInv, TypeOK
<1>2. PICK r \in hist[k] : r.value = live[k].value
  BY <1>1 DEF IndInv, HistoryIsALog
<1>3. live[k].value # 0
  BY <1>1, <1>2 DEF StoreInv, Issued
<1>4. \A x \in Keys : live'[x].value = IF x = k THEN 0 ELSE live[x].value
  BY <1>1 DEF IndInv, TypeOK, NoRow
<1>5. [e \in {"org"} |-> [x \in Keys |-> live'[x].value]]
        = [current EXCEPT !["org"][k] = 0]
  <2>1. [x \in Keys |-> live'[x].value] = [[x \in Keys |-> live[x].value] EXCEPT ![k] = 0]
    BY <1>1, <1>4
  <2>2. current["org"] = [x \in Keys |-> live[x].value]
    OBVIOUS
  <2>3. [current EXCEPT !["org"][k] = 0]
          = [e \in {"org"} |-> [[x \in Keys |-> live[x].value] EXCEPT ![k] = 0]]
    BY <2>2
  <2>4. QED
    BY <2>1, <2>3
<1>6. QED
  BY <1>1, <1>3, <1>5 DEF Store!Remove, Store!Nothing

\* A commit extends the log of its key, and nothing else.
LEMMA CommitExtends ==
    ASSUME IndInv, IndInv', StoreInv, NEW c \in Clients, Commit(c),
           NEW k \in Keys, k = tx[c].key, NEW v, v = tx[c].value
    PROVE  Store!Extend("org", {k}, v)
<1> DEFINE row == [version |-> tx[c].version, value |-> tx[c].value, by |-> tx[c].id]
           log == [e \in {"org"} |-> [x \in Keys |-> LogOf(hist[x])]]
           current == [e \in {"org"} |-> [x \in Keys |-> live[x].value]]
<1>1. /\ hist' = [hist EXCEPT ![k] = hist[k] \cup {row}]
      /\ live' = [live EXCEPT ![k] = [version |-> row.version, value |-> row.value]]
      /\ IsFiniteSet(hist[k]) /\ hist[k] \subseteq HistoryRow /\ row \in HistoryRow
      /\ row.version = Cardinality(hist[k]) + 1
      /\ Cardinality(hist'[k]) = Cardinality(hist[k]) + 1
      /\ hist'[k] = hist[k] \cup {row}
  BY CommitAdds
<1>2. IsLog(hist[k]) /\ IsLog(hist'[k]) /\ Versions(hist[k]) = 1..Cardinality(hist[k])
  <2>1. IsLog(hist[k]) /\ IsLog(hist'[k])
    BY DEF IndInv, HistoryIsALog, IsLog
  <2>2. QED
    BY <2>1 DEF StoreInv, Counted
<1>3. LogOf(hist'[k]) = Append(LogOf(hist[k]), v)
  <2>1. row.value = v /\ hist[k] \in SUBSET HistoryRow
    BY <1>1
  <2> HIDE DEF row
  <2>2. QED
    BY <1>1, <1>2, <2>1, LogAppends
<1>4. \A x \in Keys \ {k} : hist'[x] = hist[x] /\ live'[x] = live[x]
  BY <1>1 DEF IndInv, TypeOK
<1>5. live'[k].value = v
  BY <1>1 DEF IndInv, TypeOK
<1> HIDE DEF row
<1>6. [e \in {"org"} |-> [x \in Keys |-> LogOf(hist'[x])]]
        = [log EXCEPT !["org"] = [x \in Keys |-> IF x \in {k} THEN Append(@[x], v)
                                                ELSE @[x]]]
  <2>1. \A x \in Keys : LogOf(hist'[x]) =
          IF x \in {k} THEN Append(log["org"][x], v) ELSE log["org"][x]
    <3>1. \A x \in Keys : log["org"][x] = LogOf(hist[x])
      OBVIOUS
    <3> HIDE DEF log
    <3>2. QED
      BY <1>1, <1>3, <1>4, <3>1
  <2> HIDE DEF log
  <2>2. [x \in Keys |-> LogOf(hist'[x])] =
          [x \in Keys |-> IF x \in {k} THEN Append(log["org"][x], v)
                          ELSE log["org"][x]]
    BY <2>1
  <2>3. DOMAIN log = {"org"}
    BY DEF log
  <2>4. QED
    BY <2>2, <2>3, Zenon
<1>7. [e \in {"org"} |-> [x \in Keys |-> live'[x].value]]
        = [current EXCEPT !["org"] = [x \in Keys |-> IF x \in {k} THEN v ELSE @[x]]]
  <2>1. \A x \in Keys : live'[x].value =
          IF x \in {k} THEN v ELSE current["org"][x]
    <3>1. \A x \in Keys : current["org"][x] = live[x].value
      OBVIOUS
    <3> HIDE DEF current
    <3>2. QED
      BY <1>4, <1>5, <3>1
  <2> HIDE DEF current
  <2>2. [x \in Keys |-> live'[x].value] =
          [x \in Keys |-> IF x \in {k} THEN v ELSE current["org"][x]]
    BY <2>1
  <2>3. DOMAIN current = {"org"}
    BY DEF current
  <2>4. QED
    BY <2>2, <2>3
<1>8. QED
  BY <1>6, <1>7 DEF Store!Extend

\* A commit of a set is the store's Put, one of a rollback its Restore.
LEMMA CommitIsAStep ==
    ASSUME IndInv, IndInv', StoreInv, NEW c \in Clients, Commit(c)
    PROVE  Store!Next
<1>1. tx[c].key \in Keys /\ Writing(c)
  BY DEF Commit, Writing, IndInv, TypeOK
<1>2. tx[c].value \in 1..MaxRequests
  BY <1>1, MaxRequestsAssumption DEF StoreInv, WritesOK, Issued
<1>3. PICK k \in Keys, v \in 1..MaxRequests : k = tx[c].key /\ v = tx[c].value
  BY <1>1, <1>2
<1>4. Store!Extend("org", {k}, v)
  BY <1>3, CommitExtends
<1>5. \A x \in Keys : /\ hist[x] \in SUBSET HistoryRow /\ IsFiniteSet(hist[x])
                      /\ IsLog(hist[x]) /\ Versions(hist[x]) = 1..Cardinality(hist[x])
  BY DEF IndInv, TypeOK, HistoryRow, HistoryIsALog, IsLog, StoreInv, Counted
<1>6. CASE Stores(c)
  <2>1. ASSUME NEW x \in Keys, NEW i \in DOMAIN LogOf(hist[x]) PROVE LogOf(hist[x])[i] # v
    <3>1. i \in Versions(hist[x])
      BY <1>5, LogLength
    <3>2. PICK r \in hist[x] : r.version = i
      BY <3>1 DEF Versions
    <3>3. LogOf(hist[x])[i] = r.value
      BY <1>5, <3>1, <3>2, LogEntry
    <3>4. QED
      BY <1>3, <1>6, <3>3 DEF StoreInv, WritesOK
  <2>2. ~Store!Logged(v)
    BY <2>1 DEF Store!Logged
  <2>3. Store!Put("org", {k}, v)
    BY <1>4, <2>2 DEF Store!Put
  <2>4. QED
    BY <2>3 DEF Store!Next
<1>7. CASE ~Stores(c)
  <2> DEFINE log == [e \in {"org"} |-> [x \in Keys |-> LogOf(hist[x])]]
  <2>1. PICK r \in hist[k] : r.value = v
    BY <1>1, <1>3, <1>7 DEF StoreInv, WritesOK
  <2>2. r.version \in Versions(hist[k])
    BY DEF Versions
  <2>3. r.version \in DOMAIN LogOf(hist[k]) /\ LogOf(hist[k])[r.version] = v
    BY <1>5, <2>1, <2>2, LogEntry, LogLength
  <2>4. PICK i \in DOMAIN log["org"][k] : log["org"][k][i] = v
    BY <2>3
  <2>5. Store!Restore("org", k, i)
    BY <1>4, <2>4 DEF Store!Restore, Store!Extend
  <2>6. QED
    BY <2>4, <2>5 DEF Store!Next
<1>8. QED
  BY <1>6, <1>7

LEMMA StoreStep == IndInv /\ IndInv' /\ StoreInv /\ [Next]_vars => [Store!Next]_(Store!vars)
<1> SUFFICES ASSUME IndInv, IndInv', StoreInv, [Next]_vars
             PROVE  Store!Next \/ UNCHANGED Store!vars
  OBVIOUS
<1>1. CASE Next
  <2>1. PICK c \in Clients :
          \/ \E k \in Keys : \/ Set(c, k) \/ Delete(c, k)
                             \/ \E v \in 1..MaxRequests : Rollback(c, k, v)
          \/ ReadTarget(c) \/ DeleteRow(c) \/ UpsertRow(c) \/ InsertHistory(c)
          \/ Commit(c) \/ Reply(c) \/ Abort(c)
    BY <1>1 DEF Next, TargetNotFound, DeleteNotFound, UniqueViolation, Fail
  <2>2. CASE Commit(c)
    BY <2>2, CommitIsAStep
  <2>3. CASE DeleteRow(c)
    <3>1. PICK k \in Keys : k = tx[c].key
      BY <2>3 DEF IndInv, TypeOK
    <3>2. Store!Remove("org", k)
      BY <2>3, <3>1, DeleteRemoves
    <3>3. Store!Next
      BY <3>2 DEF Store!Next
    <3>4. QED
      BY <3>3
  <2>4. CASE ~(DeleteRow(c) \/ Commit(c))
    <3>1. UNCHANGED <<live, hist>>
      BY <2>1, <2>4 DEF Set, Delete, Rollback, AcceptWrite, Accept, ReadTarget,
                        UpsertRow, InsertHistory, Reply, Abort
    <3>2. QED
      BY <3>1, QuietStutters
  <2>5. QED
    BY <2>2, <2>3, <2>4
<1>2. CASE UNCHANGED vars
  BY <1>2, QuietStutters DEF vars
<1>3. QED
  BY <1>1, <1>2

LEMMA StoreInit == Init => Store!Init
<1> SUFFICES ASSUME Init PROVE Store!Init
  OBVIOUS
<1>1. LogOf({}) = <<>>
  <2>1. Cardinality({}) = 0 /\ 1..0 = {}
    BY FS_EmptySet
  <2>2. QED
    BY <2>1 DEF LogOf
<1>2. \A k \in Keys : hist[k] = {} /\ live[k].value = 0
  BY DEF Init, NoRow
<1>3. QED
  BY <1>1, <1>2 DEF Store!Init, Store!Nothing

\* The strengthened invariant holds: a set writes what was never stored, a
\* rollback what was.
THEOREM StoreInvHolds == Spec => []StoreInv
BY InitOK, NextOK, StoreInvInit, StoreInvNext, PTL DEF Spec

\* The vault implements the versioned store: every commit is one Put or
\* Restore, every delete one Remove, and no other statement shows
\* (repo/vault.go:41-128).
THEOREM VaultIsAStore == Spec => ImplementsStore
<1>1. Spec => Store!Init
  BY StoreInit DEF Spec
<1>2. QED
  BY <1>1, IndInvHolds, StoreInvHolds, StoreStep, PTL DEF Spec, ImplementsStore, Store!Spec
=============================================================================

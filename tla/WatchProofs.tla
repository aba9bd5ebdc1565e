----------------------------- MODULE WatchProofs -----------------------------
(***************************************************************************)
(* Proofs, for any number of keys, changes and commands: the consumer of a *)
(* watch is not woken up for nothing, a sync is seen whole, and a command  *)
(* that says it is done has given the server the file's values. A watch    *)
(* that has nothing left to send has told its consumer all.                *)
(***************************************************************************)
EXTENDS EnvSync, TLAPS

------------------------------------------------------------------------------
(* The snapshots under way.                                                *)

Latest == IF ch # <<>> THEN ch[1] ELSE seen[1]

\* Each snapshot differs from the one before, and last is the newest one's.
Chain ==
    /\ ch = <<>> \/ ch = <<ch[1]>>
    /\ seen = <<>> \/ seen = <<seen[1]>>
    /\ pc \in {"start", "failed"} => ch = <<>> /\ seen = <<>>
    /\ pc \notin {"start", "failed"} => ch # <<>> \/ seen # <<>>
    /\ pc \in {"wait", "poll"} => last = VersionsOf(Latest)
    /\ pc = "send" => last = VersionsOf(snap) /\ last # VersionsOf(Latest)
    /\ ch # <<>> /\ seen # <<>> => VersionsOf(ch[1]) # VersionsOf(seen[1])

\* A step of the server or of a command leaves the watch alone.
LEMMA ChainKept == Chain /\ UNCHANGED <<client, seen>> => Chain'
  BY DEF Chain, client, Latest, VersionsOf

LEMMA EqualVersions == ASSUME NEW a, NEW b, ~versionsEqual(a, b) PROVE a # b
  BY DEF versionsEqual

LEMMA OneElement ==
    ASSUME NEW x
    PROVE  /\ <<x>> # <<>> /\ <<x>>[1] = x /\ Head(<<x>>) = x /\ Tail(<<x>>) = <<>>
           /\ Append(<<>>, x) = <<x>> /\ Len(<<x>>) = 1 /\ Len(<<>>) = 0
  OBVIOUS

LEMMA WatcherChain == ASSUME Chain, Watcher PROVE Chain'
<1>1. CASE Start
  <2>1. /\ ch' = <<rows>> /\ last' = VersionsOf(rows) /\ pc' = "wait" /\ seen' = <<>>
    BY <1>1 DEF Start, Chain
  <2>2. PICK r : r = rows
    OBVIOUS
  <2>3. ch' = <<r>> /\ ch'[1] = r /\ ch' # <<>> /\ last' = VersionsOf(r)
    BY <2>1, <2>2, OneElement
  <2>4. QED
    BY <2>1, <2>3 DEF Chain, Latest, VersionsOf
<1>2. CASE StartFails \/ Tick \/ PollFails \/ Stop \/ Cancel
  BY <1>2 DEF StartFails, Tick, PollFails, Stop, Cancel, client, Chain, Latest, VersionsOf
<1>3. CASE Poll
  <2>1. CASE pc' = "wait" /\ UNCHANGED <<last, snap, ch, seen>>
    BY <1>3, <2>1 DEF Poll, Chain, Latest, VersionsOf
  <2>2. CASE /\ pc' = "send" /\ last' = VersionsOf(rows) /\ snap' = rows
             /\ UNCHANGED <<ch, seen>> /\ ~versionsEqual(last, VersionsOf(rows))
    <3>1. last # VersionsOf(rows) /\ last = VersionsOf(Latest)
      BY <1>3, <2>2, EqualVersions DEF Poll, Chain
    <3>2. PICK l : l = Latest /\ Latest' = l
      BY <2>2 DEF Latest
    <3>3. PICK r : r = rows /\ snap' = r
      BY <2>2
    <3>4. last' = VersionsOf(r) /\ last' # VersionsOf(l)
      BY <2>2, <3>1, <3>2, <3>3
    <3>5. QED
      BY <1>3, <2>2, <3>2, <3>3, <3>4 DEF Poll, Chain, VersionsOf
  <2>3. QED
    BY <1>3, <2>1, <2>2 DEF Poll
<1>4. CASE Send
  <2>1. /\ pc = "send" /\ pc' = "wait" /\ Len(ch) < 1 /\ ch' = Append(ch, snap)
        /\ UNCHANGED <<last, snap, seen>>
    BY <1>4 DEF Send
  <2>2. ch = <<>> /\ seen # <<>>
    BY <2>1, OneElement DEF Chain
  <2>3. PICK x : x = snap
    OBVIOUS
  <2>4. PICK y : y = seen[1]
    OBVIOUS
  <2>5. ch' = <<x>> /\ ch'[1] = x /\ ch' # <<>> /\ seen'[1] = y /\ seen' # <<>>
    BY <2>1, <2>2, <2>3, <2>4, OneElement
  <2>6. last = VersionsOf(x) /\ last # VersionsOf(y) /\ last' = last
    BY <2>1, <2>2, <2>3, <2>4 DEF Chain, Latest
  <2>7. QED
    BY <2>1, <2>5, <2>6 DEF Chain, Latest, VersionsOf
<1>5. CASE Receive
  <2>1. PICK x : ch = <<x>> /\ ch[1] = x
    BY <1>5 DEF Receive, Chain
  <2>2. /\ seen' = <<x>> /\ seen' # <<>> /\ seen'[1] = x /\ ch' = <<>> /\ ch # <<>>
        /\ UNCHANGED <<pc, last, snap>>
    BY <1>5, <2>1, OneElement DEF Receive
  <2>3. Latest = x /\ Latest' = x
    BY <2>1, <2>2 DEF Latest
  <2>4. QED
    BY <2>2, <2>3 DEF Chain, VersionsOf
<1>6. QED
  BY <1>1, <1>2, <1>3, <1>4, <1>5 DEF Watcher

\* The steps of the others.
LEMMA OthersChain == ASSUME Command \/ Elsewhere PROVE UNCHANGED <<client, seen>>
  BY DEF Command, StartSync, StartSet, StartDelete, Begin, Pull, Upload, remoteSet,
         remoteDelete, Remove, Answer, Fails, Elsewhere, Change, Put, Recreate, vars, watching

LEMMA ChainNext == Chain /\ [SyncNext]_allVars => Chain'
<1> SUFFICES ASSUME Chain, [SyncNext]_allVars PROVE Chain'
  OBVIOUS
<1>1. CASE UNCHANGED allVars
  BY <1>1, ChainKept DEF allVars, vars
<1>2. CASE SyncNext
  BY <1>2, WatcherChain, OthersChain, ChainKept DEF SyncNext
<1>3. QED
  BY <1>1, <1>2

LEMMA ChainInit == SyncInit => Chain
  BY DEF SyncInit, Init, Chain

\* A consumer is not woken up for nothing: each snapshot it receives has other
\* versions than the one before, however long it let it wait in the channel.
EachSnapshotIsNews ==
    [][Len(ch') < Len(ch) /\ seen # <<>> =>
         VersionsOf(Head(ch)) # VersionsOf(seen[1])]_vars

\* The channel hands on no two snapshots with the same versions (watch.go:74-84).
THEOREM SnapshotsAreNews == SyncSpec => EachSnapshotIsNews
<1>1. Chain /\ Chain' =>
        [Len(ch') < Len(ch) /\ seen # <<>> =>
           VersionsOf(Head(ch)) # VersionsOf(seen[1])]_vars
  <2>1. Chain /\ ch # <<>> /\ seen # <<>> => VersionsOf(Head(ch)) # VersionsOf(seen[1])
    <3> SUFFICES ASSUME Chain, ch # <<>>, seen # <<>>
                 PROVE  VersionsOf(Head(ch)) # VersionsOf(seen[1])
      OBVIOUS
    <3>1. PICK x : ch = <<x>> /\ ch[1] = x
      BY DEF Chain
    <3>2. Head(ch) = x
      BY <3>1, OneElement
    <3>3. QED
      BY <3>1, <3>2 DEF Chain
  <2>2. Chain' /\ ch = <<>> => ~(Len(ch') < Len(ch))
    <3> SUFFICES ASSUME Chain', ch = <<>> PROVE ~(Len(ch') < Len(ch))
      OBVIOUS
    <3>1. CASE ch' = <<>>
      BY <3>1, OneElement
    <3>2. CASE ch' # <<>>
      <4>1. PICK x : ch' = <<x>>
        BY <3>2 DEF Chain
      <4>2. QED
        BY <4>1, OneElement
    <3>3. QED
      BY <3>1, <3>2
  <2>3. QED
    BY <2>1, <2>2
<1>2. QED
  BY <1>1, ChainInit, ChainNext, PTL DEF SyncSpec, EachSnapshotIsNews

------------------------------------------------------------------------------
(* The command and the server.                                             *)

PairSets == UNION {[K -> Nat] : K \in SUBSET Keys}

Pairs(f) ==
    /\ f \in PairSets
    /\ DOMAIN f \subseteq Keys
    /\ \A k \in DOMAIN f : f[k] \in Nat

LEMMA PairFacts ==
    /\ \A f \in PairSets : Pairs(f)
    /\ \A K \in SUBSET Keys : \A f \in [K -> Nat] : f \in PairSets
    /\ NoPairs \in PairSets /\ DOMAIN NoPairs = {}
<1>1. ASSUME NEW f \in PairSets PROVE Pairs(f)
  <2>1. PICK K \in SUBSET Keys : f \in [K -> Nat]
    BY DEF PairSets
  <2>2. QED
    BY <2>1 DEF Pairs
<1>2. \A K \in SUBSET Keys : \A f \in [K -> Nat] : f \in PairSets
  BY DEF PairSets
<1>3. NoPairs \in [{} -> Nat] /\ DOMAIN NoPairs = {}
  BY DEF NoPairs
<1>4. QED
  BY <1>1, <1>2, <1>3

LEMMA WithoutFacts ==
    ASSUME NEW f \in PairSets, NEW K
    PROVE  /\ Without(f, K) \in PairSets
           /\ DOMAIN Without(f, K) = DOMAIN f \ K
           /\ \A k \in DOMAIN f \ K : Without(f, K)[k] = f[k]
<1>1. Pairs(f)
  BY PairFacts
<1>2. /\ DOMAIN Without(f, K) = DOMAIN f \ K
      /\ \A k \in DOMAIN f \ K : Without(f, K)[k] = f[k]
  BY DEF Without
<1>3. Without(f, K) \in [DOMAIN f \ K -> Nat] /\ DOMAIN f \ K \in SUBSET Keys
  BY <1>1 DEF Pairs, Without
<1>4. QED
  BY <1>2, <1>3, PairFacts

LEMMA FilesArePairs == \A f \in Files : f \in PairSets
<1> SUFFICES ASSUME NEW f \in Files PROVE f \in PairSets
  OBVIOUS
<1>1. PICK K \in SUBSET Keys : f \in [K -> Values]
  BY DEF Files
<1>2. f \in [K -> Nat]
  BY <1>1, ValuesAssumption
<1>3. QED
  BY <1>2 DEF PairSets

StoreTyped ==
    /\ rows \in Snapshot
    /\ newest \in [Keys -> Nat]
    /\ changes \in Nat
    /\ recreated \in Nat
    /\ \A k \in Keys : rows[k].version <= newest[k]

LEMMA UpsertFacts ==
    ASSUME StoreTyped, NEW items, Pairs(items), Upsert(items)
    PROVE  /\ StoreTyped' /\ UNCHANGED recreated
           /\ \A k \in DOMAIN items :
                /\ k \in Keys /\ newest'[k] = newest[k] + 1
                /\ rows'[k].version = newest'[k] /\ rows'[k].value = items[k]
           /\ \A k \in Keys \ DOMAIN items : rows'[k] = rows[k] /\ newest'[k] = newest[k]
<1>1. newest \in [Keys -> Nat] /\ rows \in [Keys -> [version : Nat, value : Nat]]
  BY DEF StoreTyped, Snapshot
<1>2. \A k \in Keys : newest[k] \in Nat /\ newest[k] + 1 \in Nat
  BY <1>1
<1>3. newest' = [k \in Keys |-> IF k \in DOMAIN items THEN newest[k] + 1 ELSE newest[k]]
  BY DEF Upsert
<1>4. rows' = [k \in Keys |-> IF k \in DOMAIN items
                              THEN [version |-> newest[k] + 1, value |-> items[k]]
                              ELSE rows[k]]
  BY DEF Upsert
<1>5. newest' \in [Keys -> Nat] /\ changes' \in Nat /\ UNCHANGED recreated
  BY <1>2, <1>3 DEF Upsert, StoreTyped
<1>6. \A k \in DOMAIN items : k \in Keys /\ items[k] \in Nat
  BY DEF Pairs
<1>7. ASSUME NEW k \in DOMAIN items
      PROVE  /\ newest'[k] = newest[k] + 1
             /\ rows'[k] = [version |-> newest[k] + 1, value |-> items[k]]
  BY <1>3, <1>4, <1>6
<1>8. ASSUME NEW k \in Keys, k \notin DOMAIN items
      PROVE  rows'[k] = rows[k] /\ newest'[k] = newest[k]
  <2>1. newest'[k] = newest[k]
    BY <1>3, <1>8
  <2>2. rows'[k] = rows[k]
    BY <1>4, <1>8, Zenon
  <2>3. QED
    BY <2>1, <2>2
<1>9. ASSUME NEW k \in Keys
      PROVE  rows'[k] \in [version : Nat, value : Nat] /\ rows'[k].version <= newest'[k]
  <2>1. CASE k \in DOMAIN items
    <3>1. PICK n \in Nat, v \in Nat : n = newest[k] + 1 /\ v = items[k]
      BY <1>2, <1>6, <2>1
    <3>2. rows'[k] = [version |-> n, value |-> v] /\ newest'[k] = n
      BY <1>7, <2>1, <3>1
    <3>3. QED
      BY <3>2
  <2>2. CASE k \notin DOMAIN items
    BY <1>1, <1>8, <2>2 DEF StoreTyped
  <2>3. QED
    BY <2>1, <2>2
<1>10. rows' \in Snapshot
  BY <1>4, <1>9 DEF Snapshot
<1>11. StoreTyped'
  BY <1>5, <1>9, <1>10 DEF StoreTyped
<1>12. ASSUME NEW k \in DOMAIN items
       PROVE  rows'[k].version = newest'[k] /\ rows'[k].value = items[k]
  <2>1. PICK n, v : n = newest[k] + 1 /\ v = items[k]
    OBVIOUS
  <2>2. rows'[k] = [version |-> n, value |-> v] /\ newest'[k] = n
    BY <1>7, <2>1
  <2>3. QED
    BY <2>1, <2>2
<1>13. QED
  BY <1>5, <1>6, <1>7, <1>8, <1>11, <1>12

LEMMA RemoveTyped ==
    ASSUME StoreTyped, NEW key \in Keys, rows' = [rows EXCEPT ![key] = NoRow],
           UNCHANGED <<newest, changes, recreated>>
    PROVE  StoreTyped'
<1>1. rows \in [Keys -> [version : Nat, value : Nat]] /\ newest \in [Keys -> Nat]
  BY DEF StoreTyped, Snapshot
<1>2. NoRow \in [version : Nat, value : Nat] /\ NoRow.version = 0
  BY DEF NoRow
<1>3. rows' \in [Keys -> [version : Nat, value : Nat]]
  BY <1>1, <1>2
<1>4. ASSUME NEW k \in Keys PROVE rows'[k].version <= newest[k]
  <2>1. CASE k = key
    <3>1. rows'[k] = NoRow /\ newest[k] \in Nat
      BY <1>1, <2>1
    <3>2. QED
      BY <1>2, <3>1
  <2>2. CASE k # key
    BY <1>1, <2>2 DEF StoreTyped
  <2>3. QED
    BY <2>1, <2>2
<1>5. QED
  BY <1>3, <1>4 DEF StoreTyped, Snapshot

LEMMA RecreateTyped == ASSUME StoreTyped, Recreate PROVE StoreTyped'
<1>1. NoRow \in [version : Nat, value : Nat] /\ NoRow.version = 0
  BY DEF NoRow
<1>2. rows' \in [Keys -> [version : Nat, value : Nat]] /\ newest' \in [Keys -> Nat]
  BY <1>1 DEF Recreate
<1>3. \A k \in Keys : rows'[k].version <= newest'[k]
  BY <1>1 DEF Recreate
<1>4. QED
  BY <1>2, <1>3 DEF StoreTyped, Snapshot, Recreate

Cmds == [op : {"none", "sync", "set", "delete"},
         at : {"idle", "pull", "send", "reply", "done"},
         file : PairSets, todo : PairSets, wrote : PairSets, moved : SUBSET Keys]

\* The command's fields; what is to be sent is of its file.
CmdTyped ==
    /\ cmd \in Cmds
    /\ \A k \in DOMAIN cmd.todo : k \in DOMAIN cmd.file /\ cmd.todo[k] = cmd.file[k]

\* What need not be sent any more is on the server, unless others moved it.
Sent ==
    cmd.op \in {"sync", "set"} /\ cmd.at \in {"send", "reply"} =>
        \A k \in DOMAIN cmd.file :
            k \notin DOMAIN cmd.todo /\ k \notin cmd.moved => rows[k].value = cmd.file[k]

\* A sync writes once, and what it wrote is not overtaken by older rows.
Wrote ==
    cmd.op = "sync" =>
        /\ cmd.at \in {"pull", "send"} => DOMAIN cmd.wrote = {}
        /\ cmd.at = "reply" => DOMAIN cmd.todo = {}
        /\ recreated = 0 => \A k \in DOMAIN cmd.wrote : cmd.wrote[k] <= rows[k].version

SyncInv ==
    /\ StoreTyped
    /\ CmdTyped
    /\ Sent
    /\ Wrote

\* How a command ends, wherever it does.
LEMMA OverFacts ==
    ASSUME CmdTyped, NEW at \in {"idle", "done"}, cmd' = Over(at)
    PROVE  /\ CmdTyped' /\ cmd'.op = cmd.op /\ cmd'.at = at /\ cmd'.wrote = cmd.wrote
           /\ cmd'.file = NoPairs /\ cmd'.todo = NoPairs
<1>1. /\ cmd'.op = cmd.op /\ cmd'.at = at /\ cmd'.file = NoPairs /\ cmd'.todo = NoPairs
      /\ cmd'.wrote = cmd.wrote /\ cmd' \in Cmds
  BY PairFacts DEF CmdTyped, Cmds, Over, NoCmd
<1>2. QED
  BY <1>1, PairFacts DEF CmdTyped

LEMMA OverInv ==
    ASSUME SyncInv, NEW at \in {"idle", "done"}, cmd' = Over(at), UNCHANGED vars
    PROVE  SyncInv'
<1>1. /\ CmdTyped' /\ cmd'.op = cmd.op /\ cmd'.at \notin {"pull", "send", "reply"}
      /\ cmd'.wrote = cmd.wrote
  BY OverFacts DEF SyncInv
<1>2. QED
  BY <1>1 DEF SyncInv, StoreTyped, Sent, Wrote, vars, server

LEMMA BeginInv ==
    ASSUME SyncInv,
           NEW op \in {"sync", "set", "delete"}, NEW at \in {"pull", "send"},
           NEW file \in PairSets, Begin(op, at, file)
    PROVE  SyncInv'
<1>1. /\ cmd'.op = op /\ cmd'.at = at /\ cmd'.file = file /\ cmd'.todo = file
      /\ cmd'.wrote = NoPairs /\ cmd' \in Cmds
  BY PairFacts DEF Begin, NoCmd, Cmds
<1>2. UNCHANGED vars
  BY DEF Begin
<1>3. QED
  <2>1. CmdTyped'
    BY <1>1, PairFacts DEF CmdTyped
  <2>2. StoreTyped'
    BY <1>2 DEF SyncInv, StoreTyped, vars, server
  <2>3. Sent' /\ Wrote'
    BY <1>1, PairFacts DEF Sent, Wrote
  <2>4. QED
    BY <2>1, <2>2, <2>3 DEF SyncInv

LEMMA PullInv == ASSUME SyncInv, Pull PROVE SyncInv'
<1> DEFINE same == {k \in DOMAIN cmd.file : ~Differs(cmd.file, k)}
<1>1. CASE cmd' = Over("done")
  BY <1>1, OverInv DEF Pull
<1>2. CASE cmd' = [cmd EXCEPT !.at = "send", !.todo = Without(cmd.file, same)]
  <2> HIDE DEF same
  <2>0. cmd.file \in PairSets
    BY DEF SyncInv, CmdTyped, Cmds
  <2>1. PICK todo :
          /\ todo = Without(cmd.file, same)
          /\ todo \in PairSets /\ DOMAIN todo = DOMAIN cmd.file \ same
          /\ \A k \in DOMAIN cmd.file \ same : todo[k] = cmd.file[k]
    <3>1. /\ Without(cmd.file, same) \in PairSets
          /\ DOMAIN Without(cmd.file, same) = DOMAIN cmd.file \ same
          /\ \A k \in DOMAIN cmd.file \ same : Without(cmd.file, same)[k] = cmd.file[k]
      BY <2>0, WithoutFacts
    <3>2. QED
      BY <3>1
  <2>2. \A k \in DOMAIN todo : k \in DOMAIN cmd.file /\ todo[k] = cmd.file[k]
    BY <2>1
  <2>3. /\ cmd'.op = cmd.op /\ cmd'.at = "send" /\ cmd'.file = cmd.file /\ cmd'.todo = todo
        /\ cmd'.wrote = cmd.wrote /\ cmd'.moved = cmd.moved /\ cmd' \in Cmds
    BY <1>2, <2>1 DEF SyncInv, CmdTyped, Cmds
  <2>4. \A k \in DOMAIN cmd.file \ DOMAIN todo : rows[k].value = cmd.file[k]
    BY <2>1 DEF Differs, same
  <2>5. UNCHANGED vars /\ cmd.at = "pull"
    BY DEF Pull
  <2>6. CmdTyped'
    BY <2>2, <2>3 DEF CmdTyped
  <2>7. QED
    BY <2>1, <2>3, <2>4, <2>5, <2>6 DEF SyncInv, StoreTyped, Sent, Wrote, vars, server
<1>3. QED
  BY <1>1, <1>2 DEF Pull

\* What a served request does to the command.
LEMMA DeliveredFacts ==
    ASSUME CmdTyped, newest' \in [Keys -> Nat], NEW K \in SUBSET Keys, Delivered(K)
    PROVE  /\ CmdTyped' /\ cmd'.op = cmd.op /\ cmd'.at = "reply" /\ cmd'.file = cmd.file
           /\ DOMAIN cmd'.todo = DOMAIN cmd.todo \ K /\ cmd'.moved = cmd.moved \ K
           /\ DOMAIN cmd'.wrote = DOMAIN cmd.wrote \cup K
           /\ \A k \in K : cmd'.wrote[k] = newest'[k]
           /\ \A k \in DOMAIN cmd.wrote \ K : cmd'.wrote[k] = cmd.wrote[k]
<1>0. cmd.todo \in PairSets
  BY DEF CmdTyped, Cmds
<1>1. Pairs(cmd.wrote)
  BY PairFacts DEF CmdTyped, Cmds
<1>2. PICK todo :
        /\ todo = Without(cmd.todo, K)
        /\ todo \in PairSets /\ DOMAIN todo = DOMAIN cmd.todo \ K
        /\ \A k \in DOMAIN cmd.todo \ K : todo[k] = cmd.todo[k]
  <2>1. /\ Without(cmd.todo, K) \in PairSets
        /\ DOMAIN Without(cmd.todo, K) = DOMAIN cmd.todo \ K
        /\ \A k \in DOMAIN cmd.todo \ K : Without(cmd.todo, K)[k] = cmd.todo[k]
    BY <1>0, WithoutFacts
  <2>2. QED
    BY <2>1, Zenon
<1>3. \A k \in DOMAIN todo : k \in DOMAIN cmd.file /\ todo[k] = cmd.file[k]
  BY <1>2 DEF CmdTyped
<1>4. PICK wrote : wrote = [k \in DOMAIN cmd.wrote \cup K |->
                              IF k \in K THEN newest'[k] ELSE cmd.wrote[k]]
  OBVIOUS
<1>5. /\ DOMAIN wrote = DOMAIN cmd.wrote \cup K /\ \A k \in K : wrote[k] = newest'[k]
      /\ \A k \in DOMAIN cmd.wrote \ K : wrote[k] = cmd.wrote[k]
      /\ wrote \in [DOMAIN cmd.wrote \cup K -> Nat]
  BY <1>1, <1>4 DEF Pairs
<1>6. wrote \in PairSets
  BY <1>1, <1>5, PairFacts DEF Pairs
<1>7. cmd' = [cmd EXCEPT !.at = "reply", !.todo = todo, !.moved = @ \ K, !.wrote = wrote]
  BY <1>2, <1>4 DEF Delivered, CmdTyped, Cmds
<1>8. /\ cmd'.op = cmd.op /\ cmd'.at = "reply" /\ cmd'.file = cmd.file /\ cmd'.todo = todo
      /\ cmd'.moved = cmd.moved \ K /\ cmd'.wrote = wrote /\ cmd' \in Cmds
  BY <1>2, <1>6, <1>7 DEF CmdTyped, Cmds
<1>9. QED
  BY <1>2, <1>3, <1>5, <1>8 DEF CmdTyped

LEMMA UploadInv == ASSUME SyncInv, Upload PROVE SyncInv'
<1>1. /\ cmd.op = "sync" /\ cmd.at = "send" /\ Upsert(cmd.todo) /\ Delivered(DOMAIN cmd.todo)
      /\ cmd.todo \in PairSets /\ Pairs(cmd.todo) /\ DOMAIN cmd.wrote = {}
  BY PairFacts DEF Upload, SyncInv, CmdTyped, Cmds, Wrote
<1>2. PICK K \in SUBSET Keys : K = DOMAIN cmd.todo
  BY <1>1 DEF Pairs
<1>3. /\ StoreTyped' /\ UNCHANGED recreated
      /\ \A k \in K : rows'[k].version = newest'[k] /\ rows'[k].value = cmd.todo[k]
      /\ \A k \in Keys \ K : rows'[k] = rows[k]
  BY <1>1, <1>2, UpsertFacts DEF SyncInv
<1>4. newest' \in [Keys -> Nat]
  BY <1>3 DEF StoreTyped
<1>5. /\ CmdTyped' /\ cmd'.op = cmd.op /\ cmd'.at = "reply" /\ cmd'.file = cmd.file
      /\ DOMAIN cmd'.todo = {} /\ cmd'.moved = cmd.moved \ K /\ DOMAIN cmd'.wrote = K
      /\ \A k \in K : cmd'.wrote[k] = newest'[k]
  BY <1>1, <1>2, <1>4, DeliveredFacts DEF SyncInv
<1>6. Sent'
  <2>1. ASSUME NEW k \in DOMAIN cmd.file, k \notin cmd.moved \ K
        PROVE  rows'[k].value = cmd.file[k]
    <3>1. CASE k \in K
      BY <1>2, <1>3, <3>1 DEF SyncInv, CmdTyped
    <3>2. CASE k \notin K
      <4>1. k \in Keys
        BY PairFacts DEF SyncInv, CmdTyped, Cmds, Pairs
      <4>2. rows[k].value = cmd.file[k] /\ rows'[k] = rows[k]
        BY <1>1, <1>2, <1>3, <2>1, <3>2, <4>1 DEF SyncInv, Sent
      <4>3. QED
        BY <4>2
    <3>3. QED
      BY <3>1, <3>2
  <2>2. QED
    BY <1>5, <2>1 DEF Sent
<1>7. Wrote'
  <2>1. \A k \in K : cmd'.wrote[k] \in Nat /\ cmd'.wrote[k] <= rows'[k].version
    BY <1>3, <1>4, <1>5
  <2>2. QED
    BY <1>5, <2>1 DEF Wrote
<1>8. QED
  BY <1>3, <1>5, <1>6, <1>7 DEF SyncInv

LEMMA SetInv == ASSUME SyncInv, remoteSet PROVE SyncInv'
<1>1. PICK key \in DOMAIN cmd.todo : Upsert([x \in {key} |-> cmd.todo[key]]) /\ Delivered({key})
  BY DEF remoteSet
<1>2. PICK v \in Nat : v = cmd.todo[key] /\ v = cmd.file[key] /\ key \in Keys
  BY PairFacts DEF SyncInv, CmdTyped, Cmds, Pairs
<1>3. PICK items : items = [x \in {key} |-> cmd.todo[key]]
  OBVIOUS
<1>4. /\ DOMAIN items = {key} /\ items[key] = v /\ Upsert(items) /\ Pairs(items)
  <2>1. items \in [{key} -> Nat] /\ {key} \in SUBSET Keys
    BY <1>2, <1>3
  <2>2. Pairs(items)
    BY <2>1, PairFacts
  <2>3. QED
    BY <1>1, <1>2, <1>3, <2>2
<1>5. /\ StoreTyped' /\ UNCHANGED recreated
      /\ rows'[key].value = v
      /\ \A k \in Keys \ {key} : rows'[k] = rows[k]
  BY <1>4, UpsertFacts DEF SyncInv
<1>6. newest' \in [Keys -> Nat] /\ {key} \in SUBSET Keys /\ CmdTyped
  BY <1>2, <1>5 DEF StoreTyped, SyncInv
<1>7. /\ CmdTyped' /\ cmd'.op = cmd.op /\ cmd'.at = "reply" /\ cmd'.file = cmd.file
      /\ DOMAIN cmd'.todo = DOMAIN cmd.todo \ {key} /\ cmd'.moved = cmd.moved \ {key}
  BY <1>1, <1>6, DeliveredFacts
<1>8. Sent'
  <2>1. ASSUME NEW k \in DOMAIN cmd.file, k \notin DOMAIN cmd.todo \ {key},
               k \notin cmd.moved \ {key}
        PROVE  rows'[k].value = cmd.file[k]
    <3>1. CASE k = key
      BY <1>2, <1>5, <3>1
    <3>2. CASE k # key
      <4>1. k \in Keys
        BY PairFacts DEF SyncInv, CmdTyped, Cmds, Pairs
      <4>2. cmd.op = "set" /\ cmd.at = "send"
        BY DEF remoteSet
      <4>3. rows[k].value = cmd.file[k] /\ rows'[k] = rows[k]
        BY <1>5, <2>1, <3>2, <4>1, <4>2 DEF SyncInv, Sent
      <4>4. QED
        BY <4>3
    <3>3. QED
      BY <3>1, <3>2
  <2>2. QED
    BY <1>7, <2>1 DEF Sent
<1>9. cmd'.op # "sync"
  BY <1>7 DEF remoteSet
<1>10. QED
  BY <1>5, <1>7, <1>8, <1>9 DEF SyncInv, Wrote

LEMMA DeleteInv == ASSUME SyncInv, remoteDelete PROVE SyncInv'
<1>1. PICK key \in DOMAIN cmd.todo : Remove(key)
  BY DEF remoteDelete
<1>2. /\ rows' = [rows EXCEPT ![key] = NoRow] /\ UNCHANGED <<newest, changes, recreated>>
      /\ key \in Keys
  BY <1>1, PairFacts DEF Remove, SyncInv, CmdTyped, Cmds, Pairs
<1>3. StoreTyped'
  BY <1>2, RemoveTyped DEF SyncInv
<1>4. CmdTyped' /\ cmd'.op = "delete"
  <2>1. /\ cmd'.op = "delete" /\ cmd'.todo = NoPairs /\ cmd' \in Cmds
    BY PairFacts DEF remoteDelete, SyncInv, CmdTyped, Cmds
  <2>2. QED
    BY <2>1, PairFacts DEF CmdTyped
<1>5. QED
  BY <1>3, <1>4 DEF SyncInv, Sent, Wrote

LEMMA AnswerInv == ASSUME SyncInv, Answer PROVE SyncInv'
<1>1. CASE cmd' = Over("done")
  BY <1>1, OverInv DEF Answer
<1>2. CASE DOMAIN cmd.todo # {} /\ cmd' = [cmd EXCEPT !.at = "send"]
  <2>1. cmd' = [cmd EXCEPT !.at = "send"] /\ cmd \in Cmds
    BY <1>2 DEF SyncInv, CmdTyped
  <2>2. /\ cmd'.op = cmd.op /\ cmd'.at = "send" /\ cmd'.file = cmd.file
        /\ cmd'.todo = cmd.todo /\ cmd'.wrote = cmd.wrote /\ cmd'.moved = cmd.moved
        /\ cmd' \in Cmds
    BY <2>1 DEF Cmds
  <2>3. cmd.op # "sync" /\ cmd.at = "reply" /\ UNCHANGED vars
    BY <1>2 DEF Answer, SyncInv, Wrote
  <2>4. QED
    BY <2>2, <2>3 DEF SyncInv, StoreTyped, CmdTyped, Sent, Wrote, vars, server
<1>3. QED
  BY <1>1, <1>2 DEF Answer

\* What the other clients do to the command: nothing but its auxiliary fields.
LEMMA ElsewhereFacts ==
    ASSUME CmdTyped, rows \in Snapshot, rows' \in Snapshot, Elsewhere,
           NEW K, K = {k \in Keys : rows'[k] # rows[k]}
    PROVE  /\ CmdTyped' /\ cmd'.op = cmd.op /\ cmd'.at = cmd.at /\ cmd'.file = cmd.file
           /\ cmd'.todo = cmd.todo
           /\ cmd.at \in {"send", "reply"} => cmd'.moved = cmd.moved \cup K
           /\ DOMAIN cmd'.wrote = DOMAIN cmd.wrote \ {k \in K : rows'[k] = NoRow}
           /\ \A k \in DOMAIN cmd'.wrote : cmd'.wrote[k] = cmd.wrote[k]
<1>1. cmd.wrote \in PairSets /\ cmd \in Cmds
  BY DEF CmdTyped, Cmds
<1>2. PICK gone : gone = {k \in K : rows'[k] = NoRow}
  OBVIOUS
<1>3. /\ Without(cmd.wrote, gone) \in PairSets
      /\ DOMAIN Without(cmd.wrote, gone) = DOMAIN cmd.wrote \ gone
      /\ \A k \in DOMAIN cmd.wrote \ gone : Without(cmd.wrote, gone)[k] = cmd.wrote[k]
  BY <1>1, WithoutFacts
<1>4. PICK wrote :
        /\ wrote = Without(cmd.wrote, gone)
        /\ wrote \in PairSets /\ DOMAIN wrote = DOMAIN cmd.wrote \ gone
        /\ \A k \in DOMAIN cmd.wrote \ gone : wrote[k] = cmd.wrote[k]
  BY <1>3, Zenon
<1>5. PICK moved \in SUBSET Keys :
        moved = IF cmd.at \in {"send", "reply"} THEN cmd.moved \cup K ELSE cmd.moved
  BY <1>1 DEF Cmds
<1>6. cmd' = [cmd EXCEPT !.moved = moved, !.wrote = wrote]
  BY <1>1, <1>2, <1>4, <1>5 DEF Elsewhere, Cmds
<1>7. /\ cmd'.op = cmd.op /\ cmd'.at = cmd.at /\ cmd'.file = cmd.file
      /\ cmd'.todo = cmd.todo /\ cmd'.moved = moved /\ cmd'.wrote = wrote /\ cmd' \in Cmds
  BY <1>1, <1>4, <1>6 DEF Cmds
<1>8. QED
  BY <1>2, <1>4, <1>5, <1>7 DEF CmdTyped

\* A change by others, other than a re-creation, takes rows away or ahead.
LEMMA ChangeFacts ==
    ASSUME StoreTyped, Change
    PROVE  /\ StoreTyped'
           /\ recreated' = 0 =>
                /\ recreated = 0
                /\ \A k \in Keys :
                     /\ newest[k] <= newest'[k]
                     /\ rows'[k] = NoRow \/ rows[k].version <= rows'[k].version
<1>1. /\ rows \in [Keys -> [version : Nat, value : Nat]]
      /\ newest \in [Keys -> Nat] /\ changes \in Nat /\ recreated \in Nat
  BY DEF StoreTyped, Snapshot
<1>2. ASSUME NEW key \in Keys, Put(key) PROVE
        /\ StoreTyped' /\ UNCHANGED recreated
        /\ \A k \in Keys : newest[k] <= newest'[k] /\ rows[k].version <= rows'[k].version
  <2>1. PICK items : items = [x \in {key} |-> changes + 1]
    OBVIOUS
  <2>2. items \in [{key} -> Nat] /\ {key} \in SUBSET Keys
    BY <1>1, <2>1
  <2>3. Pairs(items) /\ Upsert(items) /\ DOMAIN items = {key}
    BY <1>2, <2>1, <2>2, PairFacts DEF Put
  <2>4. /\ StoreTyped' /\ UNCHANGED recreated
        /\ newest'[key] = newest[key] + 1 /\ rows'[key].version = newest'[key]
        /\ \A k \in Keys \ {key} : rows'[k] = rows[k] /\ newest'[k] = newest[k]
    BY <2>3, UpsertFacts
  <2>5. ASSUME NEW k \in Keys
        PROVE  newest[k] <= newest'[k] /\ rows[k].version <= rows'[k].version
    <3>1. newest[k] \in Nat /\ rows[k].version \in Nat /\ rows[k].version <= newest[k]
      BY <1>1 DEF StoreTyped
    <3>2. CASE k = key
      BY <2>4, <3>1, <3>2
    <3>3. CASE k # key
      BY <2>4, <3>1, <3>3
    <3>4. QED
      BY <3>2, <3>3
  <2>6. QED
    BY <2>4, <2>5
<1>3. ASSUME NEW key \in Keys, Remove(key) PROVE
        /\ StoreTyped' /\ UNCHANGED recreated
        /\ \A k \in Keys :
             /\ newest[k] <= newest'[k]
             /\ rows'[k] = NoRow \/ rows[k].version <= rows'[k].version
  <2>1. /\ rows' = [rows EXCEPT ![key] = NoRow] /\ UNCHANGED <<newest, changes, recreated>>
    BY <1>3 DEF Remove
  <2>2. StoreTyped'
    BY <2>1, RemoveTyped
  <2>3. ASSUME NEW k \in Keys
        PROVE  /\ newest[k] <= newest'[k]
               /\ rows'[k] = NoRow \/ rows[k].version <= rows'[k].version
    <3>1. newest[k] \in Nat /\ rows[k].version \in Nat
      BY <1>1
    <3>2. rows'[k] = NoRow \/ rows'[k] = rows[k]
      BY <1>1, <2>1
    <3>3. QED
      BY <2>1, <3>1, <3>2
  <2>4. QED
    BY <2>1, <2>2, <2>3
<1>4. CASE Recreate
  <2>1. recreated' # 0
    BY <1>1, <1>4 DEF Recreate
  <2>2. QED
    BY <1>4, <2>1, RecreateTyped
<1>5. QED
  BY <1>2, <1>3, <1>4 DEF Change

LEMMA ElsewhereInv == ASSUME SyncInv, Elsewhere PROVE SyncInv'
<1>1. PICK K : K = {k \in Keys : rows'[k] # rows[k]}
  OBVIOUS
<1>2. /\ StoreTyped /\ CmdTyped /\ Change
  BY DEF SyncInv, Elsewhere
<1>3. /\ StoreTyped'
      /\ recreated' = 0 =>
           /\ recreated = 0
           /\ \A k \in Keys : rows'[k] = NoRow \/ rows[k].version <= rows'[k].version
  BY <1>2, ChangeFacts
<1>4. /\ CmdTyped' /\ cmd'.op = cmd.op /\ cmd'.at = cmd.at /\ cmd'.file = cmd.file
      /\ cmd'.todo = cmd.todo
      /\ cmd.at \in {"send", "reply"} => cmd'.moved = cmd.moved \cup K
      /\ DOMAIN cmd'.wrote = DOMAIN cmd.wrote \ {k \in K : rows'[k] = NoRow}
      /\ \A k \in DOMAIN cmd'.wrote : cmd'.wrote[k] = cmd.wrote[k]
  BY <1>1, <1>2, <1>3, ElsewhereFacts DEF StoreTyped
<1>5. Sent'
  <2>1. ASSUME NEW k \in DOMAIN cmd.file, k \notin K PROVE rows'[k] = rows[k]
    <3>1. k \in Keys
      BY PairFacts DEF SyncInv, CmdTyped, Cmds, Pairs
    <3>2. QED
      BY <1>1, <2>1, <3>1
  <2>2. QED
    BY <1>4, <2>1 DEF Sent, SyncInv
<1>6. Wrote'
  <2>1. ASSUME cmd.op = "sync", recreated' = 0, NEW k \in DOMAIN cmd'.wrote
        PROVE  cmd'.wrote[k] <= rows'[k].version
    <3>1. k \in DOMAIN cmd.wrote /\ k \in Keys /\ cmd.wrote[k] \in Nat
      BY <1>4, PairFacts DEF SyncInv, CmdTyped, Cmds, Pairs
    <3>2. cmd.wrote[k] <= rows[k].version
      BY <1>3, <2>1, <3>1 DEF SyncInv, Wrote
    <3>3. rows[k].version \in Nat /\ rows'[k].version \in Nat
      BY <1>2, <1>3, <3>1 DEF StoreTyped, Snapshot
    <3>4. CASE k \in K
      <4>1. rows'[k] # NoRow
        BY <1>4, <3>4
      <4>2. rows[k].version <= rows'[k].version
        BY <1>3, <2>1, <3>1, <4>1
      <4>3. QED
        BY <1>4, <3>1, <3>2, <3>3, <4>2
    <3>5. CASE k \notin K
      BY <1>1, <1>4, <3>1, <3>2, <3>5
    <3>6. QED
      BY <3>4, <3>5
  <2>2. QED
    BY <1>4, <2>1 DEF Wrote, SyncInv
<1>7. QED
  BY <1>3, <1>4, <1>5, <1>6 DEF SyncInv

LEMMA WatcherInv == ASSUME SyncInv, UNCHANGED <<server, cmd>> PROVE SyncInv'
  BY DEF SyncInv, StoreTyped, CmdTyped, Sent, Wrote, server

LEMMA WatcherLeaves == ASSUME Watcher PROVE UNCHANGED <<server, cmd>>
  BY DEF Watcher, Start, StartFails, Tick, Poll, PollFails, Send, Stop, Receive, Cancel

LEMMA SyncInvNext == SyncInv /\ [SyncNext]_allVars => SyncInv'
<1> SUFFICES ASSUME SyncInv, [SyncNext]_allVars PROVE SyncInv'
  OBVIOUS
<1>1. CASE StartSync \/ StartSet
  BY <1>1, BeginInv, FilesArePairs DEF StartSync, StartSet
<1>2. CASE StartDelete
  <2>1. PICK k \in Keys : Begin("delete", "send", [x \in {k} |-> 0])
    BY <1>2 DEF StartDelete
  <2>2. PICK f : f = [x \in {k} |-> 0]
    OBVIOUS
  <2>3. f \in [{k} -> Nat] /\ {k} \in SUBSET Keys
    BY <2>2
  <2>4. f \in PairSets
    BY <2>3, PairFacts
  <2>5. QED
    BY <2>1, <2>2, <2>4, BeginInv
<1>3. CASE Pull \/ Upload \/ remoteSet \/ remoteDelete \/ Answer
  BY <1>3, PullInv, UploadInv, SetInv, DeleteInv, AnswerInv
<1>4. CASE Fails
  BY <1>4, OverInv DEF Fails
<1>5. CASE Elsewhere
  BY <1>5, ElsewhereInv
<1>6. CASE Watcher
  BY <1>6, WatcherInv, WatcherLeaves
<1>7. CASE UNCHANGED allVars
  BY <1>7, WatcherInv DEF allVars, vars
<1>8. QED
  BY <1>1, <1>2, <1>3, <1>4, <1>5, <1>6, <1>7 DEF SyncNext, Command

LEMMA SyncInvInit == SyncInit => SyncInv
<1> SUFFICES ASSUME SyncInit PROVE SyncInv
  OBVIOUS
<1>1. NoRow \in [version : Nat, value : Nat] /\ NoRow.version = 0
  BY DEF NoRow
<1>2. rows = [k \in Keys |-> NoRow] /\ newest = [k \in Keys |-> 0]
  BY DEF SyncInit, Init
<1>3. /\ rows \in [Keys -> [version : Nat, value : Nat]] /\ newest \in [Keys -> Nat]
      /\ \A k \in Keys : rows[k].version <= newest[k]
  BY <1>1, <1>2
<1>4. StoreTyped
  BY <1>3 DEF StoreTyped, Snapshot, SyncInit, Init
<1>5. cmd = NoCmd /\ cmd \in Cmds
  BY PairFacts DEF SyncInit, NoCmd, Cmds
<1>6. cmd.op = "none" /\ DOMAIN cmd.todo = {}
  BY <1>5, PairFacts DEF NoCmd
<1>7. QED
  BY <1>4, <1>5, <1>6 DEF SyncInv, CmdTyped, Sent, Wrote

THEOREM SyncInvHolds == SyncSpec => []SyncInv
  BY SyncInvInit, SyncInvNext, PTL DEF SyncSpec

\* A command that says it is done has given the server the file's values.
THEOREM DoneIsSynced == SyncSpec => DoneMeansSynced
<1> DEFINE A == cmd.at # "done" /\ cmd'.at = "done" /\ cmd.op \in {"sync", "set"} =>
                  \A k \in DOMAIN cmd.file \ cmd.moved : rows[k].value = cmd.file[k]
<1>1. SyncInv /\ [SyncNext]_allVars => [A]_allVars
  <2> SUFFICES ASSUME SyncInv, SyncNext, cmd.at # "done", cmd'.at = "done",
                      cmd.op \in {"sync", "set"},
                      NEW k \in DOMAIN cmd.file \ cmd.moved
               PROVE  rows[k].value = cmd.file[k]
    OBVIOUS
  <2>1. cmd \in Cmds
    BY DEF SyncInv, CmdTyped
  <2>2. ~(StartSync \/ StartSet \/ StartDelete)
    <3>1. ASSUME NEW op, NEW at \in {"pull", "send"}, NEW file, Begin(op, at, file) PROVE FALSE
      <4>1. cmd'.at = at
        BY <3>1 DEF Begin, NoCmd
      <4>2. QED
        BY <4>1
    <3>2. QED
      BY <3>1 DEF StartSync, StartSet, StartDelete
  <2>3. ~(Upload \/ remoteSet \/ remoteDelete)
    <3>1. ASSUME NEW K, Delivered(K) PROVE FALSE
      <4>1. cmd'.at = "reply"
        BY <2>1, <3>1 DEF Delivered, Cmds
      <4>2. QED
        BY <4>1
    <3>2. ~remoteDelete
      BY DEF remoteDelete
    <3>3. QED
      BY <3>1, <3>2 DEF Upload, remoteSet
  <2>4. ~Fails
    BY DEF Fails, Over, NoCmd
  <2>5. ~Elsewhere
    <3>1. ASSUME Elsewhere PROVE cmd'.at = cmd.at
      BY <2>1, <3>1 DEF Elsewhere, Cmds
    <3>2. QED
      BY <3>1
  <2>6. ~Watcher
    BY WatcherLeaves
  <2>7. CASE Pull
    <3>1. cmd' = Over("done")
      <4>1. ASSUME NEW t, cmd' = [cmd EXCEPT !.at = "send", !.todo = t] PROVE FALSE
        <5>1. cmd'.at = "send"
          BY <2>1, <4>1 DEF Cmds
        <5>2. QED
          BY <5>1
      <4>2. QED
        BY <2>7, <4>1 DEF Pull
    <3>2. {x \in DOMAIN cmd.file : ~Differs(cmd.file, x)} = DOMAIN cmd.file
      <4>1. ASSUME NEW t, cmd' = [cmd EXCEPT !.at = "send", !.todo = t] PROVE FALSE
        <5>1. cmd'.at = "send"
          BY <2>1, <4>1 DEF Cmds
        <5>2. QED
          BY <5>1
      <4>2. QED
        BY <2>7, <4>1 DEF Pull
    <3>3. ~Differs(cmd.file, k)
      BY <3>2
    <3>4. QED
      BY <3>3 DEF Differs
  <2>8. CASE Answer
    <3>1. DOMAIN cmd.todo = {} /\ cmd.at = "reply"
      <4>1. ASSUME cmd' = [cmd EXCEPT !.at = "send"] PROVE FALSE
        <5>1. cmd'.at = "send"
          BY <2>1, <4>1 DEF Cmds
        <5>2. QED
          BY <5>1
      <4>2. QED
        BY <2>8, <4>1 DEF Answer
    <3>2. QED
      BY <3>1 DEF SyncInv, Sent
  <2>9. QED
    BY <2>2, <2>3, <2>4, <2>5, <2>6, <2>7, <2>8 DEF SyncNext, Command
<1>2. QED
  BY <1>1, SyncInvHolds, PTL DEF SyncSpec, DoneMeansSynced

------------------------------------------------------------------------------
(* The snapshots and the command.                                          *)

\* A snapshot has no version the server has not given, and no half of a sync.
Whole(s) ==
    /\ \A k \in Keys : s[k].version \in Nat /\ s[k].version <= newest[k]
    /\ cmd.op = "sync" =>
         \/ \A k \in DOMAIN cmd.wrote : s[k].version < cmd.wrote[k]
         \/ \A k \in DOMAIN cmd.wrote : s[k].version >= cmd.wrote[k]

AllWhole == recreated = 0 => \A s \in Snapshots : Whole(s)

\* A step keeps a snapshot whole when versions grow and the sync's record shrinks.
LEMMA WholeFrom ==
    ASSUME newest \in [Keys -> Nat], newest' \in [Keys -> Nat],
           \A k \in Keys : newest[k] <= newest'[k],
           cmd'.op = "sync" => \/ DOMAIN cmd'.wrote = {}
                               \/ /\ cmd.op = "sync"
                                  /\ DOMAIN cmd'.wrote \subseteq DOMAIN cmd.wrote
                                  /\ \A k \in DOMAIN cmd'.wrote : cmd'.wrote[k] = cmd.wrote[k],
           NEW s, Whole(s)
    PROVE  Whole(s)'
<1>1. \A k \in Keys : s[k].version \in Nat /\ s[k].version <= newest'[k]
  BY DEF Whole
<1>2. cmd'.op = "sync" =>
         \/ \A k \in DOMAIN cmd'.wrote : s[k].version < cmd'.wrote[k]
         \/ \A k \in DOMAIN cmd'.wrote : s[k].version >= cmd'.wrote[k]
  BY DEF Whole
<1>3. QED
  BY <1>1, <1>2 DEF Whole

\* Neither the server nor a command takes a snapshot's wholeness away.
LEMMA WholeKept ==
    ASSUME SyncInv, SyncInv', Command \/ Elsewhere, recreated' = 0, NEW s,
           recreated = 0 => Whole(s)
    PROVE  Whole(s)'
<1>1. /\ newest \in [Keys -> Nat] /\ newest' \in [Keys -> Nat] /\ cmd \in Cmds
  BY DEF SyncInv, StoreTyped, CmdTyped
<1>2. CASE StartSync \/ StartSet \/ StartDelete
  <2>1. ASSUME NEW op, NEW at, NEW file, Begin(op, at, file)
        PROVE  DOMAIN cmd'.wrote = {} /\ UNCHANGED vars
    BY <2>1, PairFacts DEF Begin, NoCmd
  <2>2. DOMAIN cmd'.wrote = {} /\ UNCHANGED vars
    BY <1>2, <2>1 DEF StartSync, StartSet, StartDelete
  <2>3. \A k \in Keys : newest[k] <= newest'[k]
    BY <1>1, <2>2 DEF vars, server
  <2>4. QED
    BY <1>1, <2>2, <2>3, WholeFrom DEF vars, server
<1>3. CASE Pull \/ Answer \/ Fails
  <2>1. cmd'.op = cmd.op /\ cmd'.wrote = cmd.wrote
    BY <1>1, <1>3 DEF Pull, Answer, Fails, Over, NoCmd, Cmds
  <2>2. UNCHANGED <<newest, recreated>>
    BY <1>3 DEF Pull, Answer, Fails, vars, server
  <2>3. \A k \in Keys : newest[k] <= newest'[k]
    BY <1>1, <2>2
  <2>4. QED
    BY <1>1, <2>1, <2>2, <2>3, WholeFrom
<1>4. CASE Upload
  <2>1. /\ Upsert(cmd.todo) /\ Delivered(DOMAIN cmd.todo)
        /\ Pairs(cmd.todo) /\ DOMAIN cmd.wrote = {} /\ StoreTyped /\ CmdTyped
    BY <1>4, PairFacts DEF Upload, SyncInv, CmdTyped, Cmds, Wrote
  <2>2. PICK K \in SUBSET Keys : K = DOMAIN cmd.todo
    BY <2>1 DEF Pairs
  <2>3. /\ UNCHANGED recreated
        /\ \A k \in K : newest'[k] = newest[k] + 1
        /\ \A k \in Keys \ K : newest'[k] = newest[k]
    BY <2>1, <2>2, UpsertFacts
  <2>4. /\ DOMAIN cmd'.wrote = K /\ \A k \in K : cmd'.wrote[k] = newest'[k]
    BY <1>1, <2>1, <2>2, DeliveredFacts
  <2>5. ASSUME NEW k \in Keys
        PROVE  /\ s[k].version \in Nat /\ s[k].version <= newest'[k]
               /\ k \in K => s[k].version < newest'[k]
    <3>1. s[k].version \in Nat /\ s[k].version <= newest[k] /\ newest[k] \in Nat
      BY <1>1, <2>3 DEF Whole
    <3>2. QED
      BY <2>3, <3>1
  <2>6. \A k \in DOMAIN cmd'.wrote : s[k].version < cmd'.wrote[k]
    BY <2>4, <2>5
  <2>7. QED
    BY <2>5, <2>6 DEF Whole
<1>5. CASE remoteSet
  <2>1. PICK key \in DOMAIN cmd.todo :
          Upsert([x \in {key} |-> cmd.todo[key]]) /\ Delivered({key})
    BY <1>5 DEF remoteSet
  <2>2. cmd'.op = "set"
    BY <1>1, <1>5, <2>1 DEF Delivered, remoteSet, Cmds
  <2>3. UNCHANGED recreated
    BY <2>1 DEF Upsert
  <2>4. \A k \in Keys : newest[k] <= newest'[k]
    <3>1. PICK items : items = [x \in {key} |-> cmd.todo[key]]
      OBVIOUS
    <3>2. newest' = [k \in Keys |-> IF k \in DOMAIN items THEN newest[k] + 1 ELSE newest[k]]
      BY <2>1, <3>1 DEF Upsert
    <3>3. QED
      BY <1>1, <3>2
  <2>5. QED
    BY <1>1, <2>2, <2>3, <2>4, WholeFrom
<1>6. CASE remoteDelete
  <2>1. cmd'.op = "delete"
    BY <1>1, <1>6 DEF remoteDelete, Cmds
  <2>2. UNCHANGED <<newest, recreated>>
    BY <1>6 DEF remoteDelete, Remove
  <2>3. \A k \in Keys : newest[k] <= newest'[k]
    BY <1>1, <2>2
  <2>4. QED
    BY <1>1, <2>1, <2>2, <2>3, WholeFrom
<1>7. CASE Elsewhere
  <2>1. PICK K : K = {k \in Keys : rows'[k] # rows[k]}
    OBVIOUS
  <2>2. StoreTyped /\ StoreTyped' /\ CmdTyped /\ Change
    BY <1>7 DEF SyncInv, Elsewhere
  <2>3. recreated = 0 /\ \A k \in Keys : newest[k] <= newest'[k]
    BY <2>2, ChangeFacts
  <2>4. /\ cmd'.op = cmd.op
        /\ DOMAIN cmd'.wrote = DOMAIN cmd.wrote \ {k \in K : rows'[k] = NoRow}
        /\ \A k \in DOMAIN cmd'.wrote : cmd'.wrote[k] = cmd.wrote[k]
    BY <1>7, <2>1, <2>2, ElsewhereFacts DEF StoreTyped
  <2>5. DOMAIN cmd'.wrote \subseteq DOMAIN cmd.wrote
    BY <2>4
  <2>6. QED
    BY <1>1, <2>3, <2>4, <2>5, WholeFrom
<1>8. QED
  BY <1>2, <1>3, <1>4, <1>5, <1>6, <1>7 DEF Command

\* What a watch pulls is whole when it is pulled.
LEMMA RowsAreWhole == ASSUME SyncInv, recreated = 0 PROVE Whole(rows)
<1>1. \A k \in Keys : rows[k].version \in Nat /\ rows[k].version <= newest[k]
  BY DEF SyncInv, StoreTyped, Snapshot
<1>2. cmd.op = "sync" => \A k \in DOMAIN cmd.wrote : rows[k].version >= cmd.wrote[k]
  <2> SUFFICES ASSUME cmd.op = "sync", NEW k \in DOMAIN cmd.wrote
               PROVE  rows[k].version >= cmd.wrote[k]
    OBVIOUS
  <2>1. k \in Keys /\ cmd.wrote[k] \in Nat /\ rows[k].version \in Nat
    BY <1>1, PairFacts DEF SyncInv, CmdTyped, Cmds, Pairs
  <2>2. QED
    BY <2>1 DEF SyncInv, Wrote
<1>3. QED
  BY <1>1, <1>2 DEF Whole

\* The watch makes no snapshot of anything but the rows it pulls.
LEMMA WatcherSnapshots ==
    ASSUME Chain, Watcher PROVE \A s \in Snapshots' : s \in Snapshots \/ s = rows
<1>1. CASE Start
  <2>1. ch' = <<rows>> /\ pc' # "send" /\ UNCHANGED seen
    BY <1>1 DEF Start
  <2>2. QED
    BY <2>1 DEF Snapshots
<1>2. CASE StartFails \/ Tick \/ PollFails \/ Stop \/ Cancel
  BY <1>2 DEF StartFails, Tick, PollFails, Stop, Cancel, client, Snapshots
<1>3. CASE Poll
  BY <1>3 DEF Poll, Snapshots
<1>4. CASE Send
  <2>1. pc = "send" /\ pc' # "send" /\ Len(ch) < 1 /\ ch' = Append(ch, snap) /\ UNCHANGED seen
    BY <1>4 DEF Send
  <2>2. ch = <<>>
    BY <2>1, OneElement DEF Chain
  <2>3. ch' = <<snap>>
    BY <2>1, <2>2, OneElement
  <2>4. QED
    BY <2>1, <2>3 DEF Snapshots
<1>5. CASE Receive
  <2>1. PICK x : ch = <<x>>
    BY <1>5 DEF Receive, Chain
  <2>2. seen' = <<x>> /\ ch' = <<>> /\ UNCHANGED <<pc, snap>>
    BY <1>5, <2>1, OneElement DEF Receive
  <2>3. x \in Snapshots
    BY <2>1 DEF Snapshots
  <2>4. QED
    BY <2>2, <2>3 DEF Snapshots
<1>6. QED
  BY <1>1, <1>2, <1>3, <1>4, <1>5 DEF Watcher

LEMMA AllWholeNext ==
    SyncInv /\ SyncInv' /\ Chain /\ AllWhole /\ [SyncNext]_allVars => AllWhole'
<1> SUFFICES ASSUME SyncInv, SyncInv', Chain, AllWhole, [SyncNext]_allVars, recreated' = 0,
                    NEW s \in Snapshots'
             PROVE  Whole(s)'
  BY DEF AllWhole
<1>1. CASE Command \/ Elsewhere
  <2>1. UNCHANGED <<client, seen>>
    BY <1>1, OthersChain
  <2>2. s \in Snapshots
    BY <2>1 DEF Snapshots, client
  <2>3. recreated = 0 => Whole(s)
    BY <2>2 DEF AllWhole
  <2>4. QED
    BY <1>1, <2>3, WholeKept
<1>2. CASE Watcher
  <2>1. recreated = 0 /\ UNCHANGED <<server, cmd>>
    BY <1>2, WatcherLeaves DEF server
  <2>2. Whole(s)
    BY <1>2, <2>1, WatcherSnapshots, RowsAreWhole DEF AllWhole
  <2>3. QED
    BY <2>1, <2>2 DEF Whole, server
<1>3. CASE UNCHANGED allVars
  <2>1. Snapshots' = Snapshots
    BY <1>3 DEF allVars, vars, client, Snapshots
  <2>2. UNCHANGED <<server, cmd>>
    BY <1>3 DEF allVars, vars
  <2>3. Whole(s)
    BY <2>1, <2>2 DEF AllWhole, server
  <2>4. QED
    BY <2>2, <2>3 DEF Whole, server
<1>4. QED
  BY <1>1, <1>2, <1>3 DEF SyncNext

\* The SDK sees what a sync uploaded whole.
THEOREM WatchSeesWholeSyncs == SyncSpec => []SyncsAreSeenWhole
<1>1. SyncInit => AllWhole
  BY DEF SyncInit, Init, AllWhole, Snapshots
<1>2. AllWhole => SyncsAreSeenWhole
  BY DEF AllWhole, Whole, SyncsAreSeenWhole
<1>3. SyncSpec => []Chain
  BY ChainInit, ChainNext, PTL DEF SyncSpec
<1>4. SyncSpec => []AllWhole
  BY <1>1, <1>3, SyncInvHolds, AllWholeNext, PTL DEF SyncSpec
<1>5. QED
  BY <1>2, <1>4, PTL

------------------------------------------------------------------------------
(* What convergence rests on: why comparing versions is enough             *)
(* (watch.go:74), and why a watch that has nothing left to do has told all.*)

\* In one life of the environment a version number names one value: snapshots
\* and rows that agree on the version of a key agree on the key.
VersionsNameValues ==
    recreated = 0 => \A s, t \in Snapshots \cup {rows} : \A k \in Keys :
        s[k].version = t[k].version => s[k] = t[k]

\* t has a newer row of each key than s, the same, or none.
Forward(s, t) == \A k \in Keys : t[k] = NoRow \/ s[k].version <= t[k].version

\* In one life of the environment a consumer is not shown an older row of a
\* key after a newer one, however late it receives.
SnapshotsMoveForward ==
    recreated = 0 /\ ch # <<>> /\ seen # <<>> => Forward(seen[1], ch[1])

\* The key's row stays, goes, or is replaced by its next version.
RowMoves(k) ==
    \/ rows'[k] = rows[k] /\ newest'[k] = newest[k]
    \/ rows'[k] = NoRow /\ newest'[k] = newest[k]
    \/ rows'[k].version = newest'[k] /\ newest'[k] = newest[k] + 1

LEMMA UpsertMoves ==
    ASSUME StoreTyped, NEW items, Pairs(items), Upsert(items)
    PROVE  UNCHANGED recreated /\ \A k \in Keys : RowMoves(k)
<1>1. ASSUME NEW k \in Keys PROVE RowMoves(k)
  <2>1. CASE k \in DOMAIN items
    BY <2>1, UpsertFacts DEF RowMoves
  <2>2. CASE k \notin DOMAIN items
    BY <2>2, UpsertFacts DEF RowMoves
  <2>3. QED
    BY <2>1, <2>2
<1>2. QED
  BY <1>1, UpsertFacts

LEMMA OnePair ==
    ASSUME NEW key \in Keys, NEW v \in Nat
    PROVE  Pairs([x \in {key} |-> v])
<1>1. [x \in {key} |-> v] \in [{key} -> Nat] /\ {key} \in SUBSET Keys
  OBVIOUS
<1>2. QED
  BY <1>1, PairFacts

LEMMA RemoveMoves ==
    ASSUME StoreTyped, NEW key \in Keys, Remove(key)
    PROVE  UNCHANGED recreated /\ \A k \in Keys : RowMoves(k)
<1>1. rows' = [rows EXCEPT ![key] = NoRow] /\ UNCHANGED <<newest, recreated>>
  BY DEF Remove
<1>2. ASSUME NEW k \in Keys PROVE rows'[k] = NoRow \/ rows'[k] = rows[k]
  BY <1>1 DEF StoreTyped, Snapshot
<1>3. QED
  BY <1>1, <1>2 DEF RowMoves

\* What a request, the machine's or another's, does to the rows.
LEMMA ServerMoves ==
    ASSUME SyncInv, Command \/ Elsewhere
    PROVE  Recreate \/ (UNCHANGED recreated /\ \A k \in Keys : RowMoves(k))
<1>1. StoreTyped /\ CmdTyped /\ cmd \in Cmds /\ recreated \in Nat
  BY DEF SyncInv, StoreTyped, CmdTyped
<1>2. Pairs(cmd.todo)
  BY <1>1, PairFacts DEF Cmds
<1>3. CASE UNCHANGED server
  BY <1>3 DEF server, RowMoves
<1>4. CASE Upload
  BY <1>1, <1>2, <1>4, UpsertMoves DEF Upload
<1>5. CASE remoteSet
  <2>1. PICK key \in DOMAIN cmd.todo : Upsert([x \in {key} |-> cmd.todo[key]])
    BY <1>5 DEF remoteSet
  <2>2. PICK v \in Nat : v = cmd.todo[key]
    BY <1>2 DEF Pairs
  <2>3. key \in Keys /\ Upsert([x \in {key} |-> v])
    BY <1>2, <2>1, <2>2 DEF Pairs
  <2>4. QED
    BY <1>1, <2>3, OnePair, UpsertMoves
<1>6. CASE remoteDelete
  <2>1. PICK key \in Keys : Remove(key)
    BY <1>2, <1>6 DEF remoteDelete, Pairs
  <2>2. QED
    BY <1>1, <2>1, RemoveMoves
<1>7. CASE Elsewhere
  <2>1. ASSUME NEW key \in Keys, Put(key) PROVE UNCHANGED recreated /\ \A k \in Keys : RowMoves(k)
    <3>1. PICK v \in Nat : v = changes + 1
      BY <1>1 DEF StoreTyped
    <3>2. Upsert([x \in {key} |-> v])
      BY <2>1, <3>1 DEF Put
    <3>3. QED
      BY <1>1, <3>2, OnePair, UpsertMoves
  <2>2. Recreate \/ \E key \in Keys : Put(key) \/ Remove(key)
    BY <1>7 DEF Elsewhere, Change
  <2>3. QED
    BY <1>1, <2>1, <2>2, RemoveMoves
<1>8. CASE StartSync \/ StartSet \/ StartDelete \/ Pull \/ Answer \/ Fails
  <2>1. UNCHANGED server
    BY <1>8 DEF StartSync, StartSet, StartDelete, Begin, Pull, Answer, Fails, vars
  <2>2. QED
    BY <1>3, <2>1
<1>9. QED
  BY <1>4, <1>5, <1>6, <1>7, <1>8 DEF Command


\* A row that is there is the newest of its key; a snapshot has it, or an older one.
RowsAreNewest == \A k \in Keys : rows[k] = NoRow \/ (rows[k].version = newest[k] /\ newest[k] > 0)

Known(s) ==
    \A k \in Keys :
        /\ s[k].version \in Nat /\ s[k].version <= newest[k]
        /\ s[k] = NoRow \/ s[k].version > 0
        /\ s[k].version = rows[k].version => s[k] = rows[k]

Before(s) == (ch # <<>> /\ s = ch[1]) \/ (seen # <<>> /\ s = seen[1])

OrderInv ==
    recreated = 0 =>
        /\ RowsAreNewest
        /\ \A s \in Snapshots : Known(s)
        /\ \A s, t \in Snapshots : \A k \in Keys : s[k].version = t[k].version => s[k] = t[k]
        /\ ch # <<>> /\ seen # <<>> => Forward(seen[1], ch[1])
        /\ pc = "send" => \A s : Before(s) => Forward(s, snap)

LEMMA KnownKept ==
    ASSUME StoreTyped, StoreTyped', RowsAreNewest, \A k \in Keys : RowMoves(k)
    PROVE  RowsAreNewest' /\ \A s : Known(s) => Known(s)'
<1>0. NoRow.version = 0
  BY DEF NoRow
<1>1. \A k \in Keys : newest[k] \in Nat /\ newest'[k] \in Nat
  BY DEF StoreTyped
<1>2. RowsAreNewest'
  BY <1>1 DEF RowsAreNewest, RowMoves
<1>3. ASSUME NEW s, Known(s), NEW k \in Keys
      PROVE  /\ s[k].version \in Nat /\ s[k].version <= newest'[k]
             /\ s[k] = NoRow \/ s[k].version > 0
             /\ s[k].version = rows'[k].version => s[k] = rows'[k]
  <2>1. /\ s[k].version \in Nat /\ s[k].version <= newest[k]
        /\ s[k] = NoRow \/ s[k].version > 0
        /\ s[k].version = rows[k].version => s[k] = rows[k]
    BY <1>3 DEF Known
  <2>2. CASE rows'[k] = rows[k] /\ newest'[k] = newest[k]
    BY <2>1, <2>2
  <2>3. CASE rows'[k] = NoRow /\ newest'[k] = newest[k]
    BY <1>0, <2>1, <2>3
  <2>4. CASE rows'[k].version = newest'[k] /\ newest'[k] = newest[k] + 1
    BY <1>1, <2>1, <2>4
  <2>5. QED
    BY <2>2, <2>3, <2>4 DEF RowMoves
<1>4. QED
  BY <1>2, <1>3 DEF Known

\* The rows a poll returns are ahead of every snapshot.
LEMMA RowsAreKnown ==
    ASSUME StoreTyped, RowsAreNewest
    PROVE  Known(rows) /\ \A s : Known(s) => Forward(s, rows)
<1>1. \A k \in Keys : rows[k].version \in Nat /\ rows[k].version <= newest[k] /\ newest[k] \in Nat
  BY DEF StoreTyped, Snapshot
<1>2. Known(rows)
  BY <1>1 DEF Known, RowsAreNewest
<1>3. ASSUME NEW s, Known(s), NEW k \in Keys PROVE rows[k] = NoRow \/ s[k].version <= rows[k].version
  BY <1>1, <1>3 DEF Known, RowsAreNewest
<1>4. QED
  BY <1>2, <1>3 DEF Forward

LEMMA BeforeIsASnapshot ==
    ASSUME Chain, NEW s, Before(s)
    PROVE  s \in Snapshots
<1>1. CASE ch # <<>> /\ s = ch[1]
  BY <1>1 DEF Chain, Snapshots
<1>2. CASE seen # <<>> /\ s = seen[1]
  BY <1>2 DEF Chain, Snapshots
<1>3. QED
  BY <1>1, <1>2 DEF Before

LEMMA OrderWatcher ==
    ASSUME SyncInv, Chain, OrderInv, Watcher, recreated = 0
    PROVE  OrderInv'
<1>0. /\ StoreTyped /\ RowsAreNewest /\ UNCHANGED server
      /\ \A s \in Snapshots : Known(s)
      /\ \A s, t \in Snapshots : \A k \in Keys : s[k].version = t[k].version => s[k] = t[k]
  BY WatcherLeaves DEF SyncInv, OrderInv
<1>1. Known(rows) /\ \A s : Known(s) => Forward(s, rows)
  BY <1>0, RowsAreKnown
<1>2. \A s \in Snapshots' : s \in Snapshots \/ s = rows
  BY WatcherSnapshots
<1>3. RowsAreNewest' /\ \A s : Known(s)' <=> Known(s)
  BY <1>0 DEF server, RowsAreNewest, Known
<1>4. \A s \in Snapshots' : Known(s)'
  BY <1>0, <1>1, <1>2, <1>3
<1>5. ASSUME NEW s \in Snapshots', NEW t \in Snapshots', NEW k \in Keys,
             s[k].version = t[k].version
      PROVE  s[k] = t[k]
  BY <1>0, <1>1, <1>2, <1>5 DEF Known
<1>6. CASE Start
  <2>1. PICK r : r = rows
    OBVIOUS
  <2>2. ch' = <<r>> /\ pc' = "wait" /\ seen' = <<>>
    BY <1>6, <2>1 DEF Start, Chain
  <2>3. QED
    BY <1>3, <1>4, <1>5, <2>2 DEF OrderInv
<1>7. CASE StartFails \/ Tick \/ PollFails \/ Stop \/ Cancel
  <2>1. UNCHANGED <<ch, seen, snap>> /\ (pc' = "send" => pc = "send")
    BY <1>7 DEF StartFails, Tick, PollFails, Stop, Cancel, client
  <2>2. /\ ch' # <<>> /\ seen' # <<>> => Forward(seen'[1], ch'[1])
        /\ pc' = "send" => \A s : Before(s)' => Forward(s, snap')
    BY <2>1 DEF OrderInv, Before, Forward
  <2>3. QED
    BY <1>3, <1>4, <1>5, <2>2 DEF OrderInv, Forward
<1>8. CASE Poll
  <2>1. UNCHANGED <<ch, seen>> /\ (pc' = "send" => snap' = rows)
    BY <1>8 DEF Poll
  <2>2. ASSUME pc' = "send", NEW s, Before(s) PROVE Forward(s, rows)
    BY <1>0, <1>1, <2>2, BeforeIsASnapshot
  <2>3. /\ ch' # <<>> /\ seen' # <<>> => Forward(seen'[1], ch'[1])
        /\ pc' = "send" => \A s : Before(s)' => Forward(s, snap')
    BY <2>1, <2>2 DEF OrderInv, Before, Forward
  <2>4. QED
    BY <1>3, <1>4, <1>5, <2>3 DEF OrderInv, Forward
<1>9. CASE Send
  <2>1. pc = "send" /\ pc' = "wait" /\ Len(ch) < 1 /\ ch' = Append(ch, snap) /\ UNCHANGED seen
    BY <1>9 DEF Send
  <2>2. PICK x : x = snap
    OBVIOUS
  <2>3. ch = <<>>
    BY <2>1, OneElement DEF Chain
  <2>4. ch' = <<x>> /\ ch'[1] = x
    BY <2>1, <2>2, <2>3, OneElement
  <2>5. seen # <<>> => Forward(seen[1], x)
    BY <2>1, <2>2 DEF OrderInv, Before
  <2>6. QED
    BY <1>3, <1>4, <1>5, <2>1, <2>4, <2>5 DEF OrderInv, Forward
<1>10. CASE Receive
  <2>1. PICK x : ch = <<x>> /\ ch[1] = x
    BY <1>10 DEF Receive, Chain
  <2>2. /\ seen' = <<x>> /\ seen'[1] = x /\ ch' = <<>> /\ ch # <<>> /\ UNCHANGED <<pc, snap>>
    BY <1>10, <2>1, OneElement DEF Receive
  <2>3. pc = "send" => Forward(x, snap)
    BY <2>1, <2>2 DEF OrderInv, Before
  <2>4. \A s : Before(s)' => s = x
    BY <2>2 DEF Before
  <2>5. pc' = "send" => \A s : Before(s)' => Forward(s, snap')
    BY <2>2, <2>3, <2>4 DEF Forward
  <2>6. QED
    BY <1>3, <1>4, <1>5, <2>2, <2>5 DEF OrderInv
<1>11. QED
  BY <1>6, <1>7, <1>8, <1>9, <1>10 DEF Watcher

LEMMA OrderNext ==
    SyncInv /\ SyncInv' /\ Chain /\ OrderInv /\ [SyncNext]_allVars => OrderInv'
<1> SUFFICES ASSUME SyncInv, SyncInv', Chain, OrderInv, [SyncNext]_allVars, recreated' = 0
             PROVE  OrderInv'
  BY DEF OrderInv
<1>1. CASE Command \/ Elsewhere
  <2>1. UNCHANGED <<client, seen>> /\ recreated = 0 /\ \A k \in Keys : RowMoves(k)
    <3>1. recreated \in Nat
      BY DEF SyncInv, StoreTyped
    <3>2. ~Recreate
      BY <3>1 DEF Recreate
    <3>3. QED
      BY <1>1, <3>2, OthersChain, ServerMoves
  <2>2. RowsAreNewest' /\ \A s : Known(s) => Known(s)'
    BY <2>1, KnownKept DEF SyncInv, OrderInv
  <2>3. Snapshots' = Snapshots /\ UNCHANGED <<pc, ch, seen, snap>>
    BY <2>1 DEF Snapshots, client
  <2>4. \A s \in Snapshots' : Known(s)'
    BY <2>1, <2>2, <2>3 DEF OrderInv
  <2>5. \A s, t \in Snapshots' : \A k \in Keys : s[k].version = t[k].version => s[k] = t[k]
    BY <2>1, <2>3 DEF OrderInv
  <2>6. /\ ch' # <<>> /\ seen' # <<>> => Forward(seen'[1], ch'[1])
        /\ pc' = "send" => \A s : Before(s)' => Forward(s, snap')
    BY <2>1, <2>3 DEF OrderInv, Before, Forward
  <2>7. QED
    BY <2>2, <2>4, <2>5, <2>6 DEF OrderInv, Forward
<1>2. CASE Watcher
  <2>1. recreated = 0
    BY <1>2, WatcherLeaves DEF server
  <2>2. QED
    BY <1>2, <2>1, OrderWatcher
<1>3. CASE UNCHANGED allVars
  BY <1>3 DEF allVars, vars, server, client, OrderInv, RowsAreNewest, Known, Snapshots,
              Forward, Before
<1>4. QED
  BY <1>1, <1>2, <1>3 DEF SyncNext

LEMMA OrderInvHolds == SyncSpec => []OrderInv
<1>1. SyncInit => OrderInv
  BY DEF SyncInit, Init, OrderInv, RowsAreNewest, Snapshots, NoRow, Before
<1>2. SyncSpec => []Chain
  BY ChainInit, ChainNext, PTL DEF SyncSpec
<1>3. QED
  BY <1>1, <1>2, SyncInvHolds, OrderNext, PTL DEF SyncSpec


\* While the environment in which it was read lives, the snapshot under way, or
\* the last one sent, has the newest row of a key or an older one.
LifeInv ==
    /\ life \in 0 .. recreated
    /\ RowsAreNewest
    /\ life = recreated =>
          /\ pc = "send" => Known(snap)
          /\ pc \in {"wait", "poll"} => Known(Latest)

LEMMA LifeWatcher ==
    ASSUME SyncInv, Chain, LifeInv, Watcher
    PROVE  LifeInv'
<1>1. StoreTyped /\ RowsAreNewest /\ UNCHANGED server /\ recreated \in Nat
  BY WatcherLeaves DEF SyncInv, StoreTyped, LifeInv
<1>2. Known(rows)
  BY <1>1, RowsAreKnown
<1>3. RowsAreNewest' /\ UNCHANGED recreated /\ \A s : Known(s)' <=> Known(s)
  BY <1>1 DEF server, RowsAreNewest, Known
<1>4. CASE Start
  <2>1. PICK r : r = rows
    OBVIOUS
  <2>2. ch' = <<r>> /\ pc' = "wait" /\ life' = recreated
    BY <1>4, <2>1 DEF Start
  <2>3. Latest' = r
    BY <2>2 DEF Latest
  <2>4. QED
    BY <1>1, <1>2, <1>3, <2>1, <2>2, <2>3 DEF LifeInv
<1>5. CASE StartFails \/ Tick \/ PollFails \/ Stop \/ Cancel
  <2>1. /\ UNCHANGED <<life, snap, ch, seen>> /\ Latest' = Latest
        /\ pc' = pc \/ pc' \in {"failed", "closed"} \/ {pc, pc'} = {"wait", "poll"}
    BY <1>5 DEF StartFails, Tick, PollFails, Stop, Cancel, client, Latest
  <2>2. QED
    BY <1>1, <1>3, <2>1 DEF LifeInv
<1>6. CASE Poll
  <2>1. CASE pc' = "wait" /\ UNCHANGED <<life, snap, ch, seen>>
    BY <1>1, <1>3, <1>6, <2>1 DEF Poll, LifeInv, Latest
  <2>2. CASE pc' = "send" /\ life' = recreated /\ snap' = rows
    BY <1>1, <1>2, <1>3, <2>2 DEF LifeInv
  <2>3. QED
    BY <1>6, <2>1, <2>2 DEF Poll
<1>7. CASE Send
  <2>1. /\ pc = "send" /\ pc' = "wait" /\ Len(ch) < 1 /\ ch' = Append(ch, snap)
        /\ UNCHANGED <<life, snap>>
    BY <1>7 DEF Send
  <2>2. PICK x : x = snap
    OBVIOUS
  <2>3. ch = <<>>
    BY <2>1, OneElement DEF Chain
  <2>4. ch' = <<x>> /\ ch'[1] = x
    BY <2>1, <2>2, <2>3, OneElement
  <2>5. Latest' = x
    BY <2>4 DEF Latest
  <2>6. QED
    BY <1>1, <1>3, <2>1, <2>2, <2>5 DEF LifeInv
<1>8. CASE Receive
  <2>1. PICK x : ch = <<x>> /\ ch[1] = x
    BY <1>8 DEF Receive, Chain
  <2>2. seen' = <<x>> /\ seen'[1] = x /\ ch' = <<>> /\ UNCHANGED <<pc, life, snap>>
    BY <1>8, <2>1, OneElement DEF Receive
  <2>3. Latest = x /\ Latest' = x
    BY <2>1, <2>2 DEF Latest
  <2>4. QED
    BY <1>1, <1>3, <2>2, <2>3 DEF LifeInv
<1>9. QED
  BY <1>4, <1>5, <1>6, <1>7, <1>8 DEF Watcher

LEMMA LifeNext ==
    SyncInv /\ SyncInv' /\ Chain /\ LifeInv /\ [SyncNext]_allVars => LifeInv'
<1> SUFFICES ASSUME SyncInv, SyncInv', Chain, LifeInv, [SyncNext]_allVars PROVE LifeInv'
  OBVIOUS
<1>1. StoreTyped /\ StoreTyped' /\ recreated \in Nat
  BY DEF SyncInv, StoreTyped
<1>2. CASE UNCHANGED <<client, seen, recreated>> /\ \A k \in Keys : RowMoves(k)
  <2>1. RowsAreNewest' /\ \A s : Known(s) => Known(s)'
    BY <1>1, <1>2, KnownKept DEF LifeInv
  <2>2. Latest' = Latest /\ UNCHANGED <<pc, life, snap>>
    BY <1>2 DEF Latest, client
  <2>3. QED
    BY <1>2, <2>1, <2>2 DEF LifeInv
<1>3. CASE Recreate
  <2>1. RowsAreNewest'
    BY <1>3 DEF Recreate, RowsAreNewest
  <2>2. recreated' = recreated + 1 /\ life' = life
    BY <1>3 DEF Recreate, client
  <2>3. QED
    BY <1>1, <2>1, <2>2 DEF LifeInv
<1>4. CASE Watcher
  BY <1>4, LifeWatcher
<1>5. CASE UNCHANGED allVars
  BY <1>5 DEF allVars, vars, server, client, LifeInv, RowsAreNewest, Known, Latest
<1>6. CASE Command \/ Elsewhere
  BY <1>2, <1>3, <1>6, OthersChain, ServerMoves
<1>7. QED
  BY <1>4, <1>5, <1>6 DEF SyncNext

LEMMA LifeInvHolds == SyncSpec => []LifeInv
<1>1. SyncInit => LifeInv
  BY DEF SyncInit, Init, LifeInv, RowsAreNewest
<1>2. SyncSpec => []Chain
  BY ChainInit, ChainNext, PTL DEF SyncSpec
<1>3. QED
  BY <1>1, <1>2, SyncInvHolds, LifeNext, PTL DEF SyncSpec

\* A version number names one value (repo/secrets.go:82-112 never uses one twice).
THEOREM VersionsName == SyncSpec => []VersionsNameValues
<1>1. SyncInv /\ OrderInv => VersionsNameValues
  <2> SUFFICES ASSUME SyncInv, OrderInv, recreated = 0,
                      NEW s \in Snapshots \cup {rows}, NEW t \in Snapshots \cup {rows},
                      NEW k \in Keys, s[k].version = t[k].version
               PROVE  s[k] = t[k]
    BY DEF VersionsNameValues
  <2>1. CASE s \in Snapshots /\ t \in Snapshots
    BY <2>1 DEF OrderInv
  <2>2. CASE t = rows /\ s \in Snapshots
    BY <2>2 DEF OrderInv, Known
  <2>3. CASE s = rows /\ t \in Snapshots
    BY <2>3 DEF OrderInv, Known
  <2>4. QED
    BY <2>1, <2>2, <2>3
<1>2. QED
  BY <1>1, SyncInvHolds, OrderInvHolds, PTL

\* Snapshots arrive in the order of the versions they have (watch.go:66-84).
THEOREM WatchMovesForward == SyncSpec => []SnapshotsMoveForward
<1>1. OrderInv => SnapshotsMoveForward
  BY DEF OrderInv, SnapshotsMoveForward
<1>2. QED
  BY <1>1, OrderInvHolds, PTL

------------------------------------------------------------------------------
(* Types.                                                                  *)

WatchTyped ==
    /\ pc \in {"start", "failed", "wait", "poll", "send", "closed"}
    /\ last \in [Keys -> Nat] /\ snap \in Snapshot
    /\ ch # <<>> => ch[1] \in Snapshot
    /\ seen # <<>> => seen[1] \in Snapshot
    /\ cancelled \in BOOLEAN

LEMMA RowVersions == rows \in Snapshot => VersionsOf(rows) \in [Keys -> Nat]
  BY DEF Snapshot, VersionsOf

LEMMA WatchTypedNext ==
    ASSUME WatchTyped, SyncInv, Chain, [SyncNext]_allVars
    PROVE  WatchTyped'
<1>1. rows \in Snapshot /\ VersionsOf(rows) \in [Keys -> Nat]
  BY RowVersions DEF SyncInv, StoreTyped
<1>2. CASE UNCHANGED <<client, seen, cancelled>>
  BY <1>2, Zenon DEF WatchTyped, client
<1>3. CASE Start
  <2>1. PICK r : r = rows
    OBVIOUS
  <2>2. ch'[1] = r /\ last' = VersionsOf(rows) /\ pc' = "wait" /\ UNCHANGED <<snap, seen, cancelled>>
    BY <1>3, <2>1, OneElement DEF Start
  <2>3. ch'[1] \in Snapshot /\ last' \in [Keys -> Nat]
    BY <1>1, <2>1, <2>2
  <2>4. QED
    BY <2>2, <2>3, Zenon DEF WatchTyped
<1>4. CASE StartFails \/ Tick \/ PollFails \/ Stop
  BY <1>4, Zenon DEF StartFails, Tick, PollFails, Stop, WatchTyped
<1>5. CASE Cancel
  BY <1>5, Zenon DEF Cancel, client, WatchTyped
<1>6. CASE Poll
  <2>1. UNCHANGED <<ch, seen, cancelled>>
    BY <1>6 DEF Poll
  <2>2. pc' \in {"start", "failed", "wait", "poll", "send", "closed"}
    BY <1>6 DEF Poll
  <2>3. last' \in [Keys -> Nat] /\ snap' \in Snapshot
    BY <1>1, <1>6, Zenon DEF Poll, WatchTyped
  <2>4. QED
    BY <2>1, <2>2, <2>3, Zenon DEF WatchTyped
<1>7. CASE Send
  <2>1. ch = <<>> /\ pc' = "wait" /\ UNCHANGED <<last, snap, seen, cancelled>>
    BY <1>7, OneElement DEF Send, Chain
  <2>2. PICK x : x = snap
    OBVIOUS
  <2>3. ch'[1] = x
    BY <1>7, <2>1, <2>2, OneElement DEF Send
  <2>4. ch'[1] \in Snapshot
    BY <2>2, <2>3, Zenon DEF WatchTyped
  <2>5. QED
    BY <2>1, <2>4, Zenon DEF WatchTyped
<1>8. CASE Receive
  <2>1. PICK x : ch = <<x>> /\ ch[1] = x
    BY <1>8 DEF Receive, Chain
  <2>2. seen'[1] = x /\ ch' = <<>> /\ ch # <<>> /\ UNCHANGED <<pc, last, snap, cancelled>>
    BY <1>8, <2>1, OneElement DEF Receive
  <2>3. seen'[1] \in Snapshot
    BY <2>1, <2>2, Zenon DEF WatchTyped
  <2>4. QED
    BY <2>2, <2>3, Zenon DEF WatchTyped
<1>9. Command \/ Elsewhere => UNCHANGED <<client, seen, cancelled>>
  BY DEF Command, StartSync, StartSet, StartDelete, Begin, Pull, Upload, remoteSet,
         remoteDelete, Remove, Answer, Fails, Elsewhere, Change, Put, Recreate, vars, watching
<1>10. CASE UNCHANGED allVars
  BY <1>2, <1>10 DEF allVars, vars
<1>11. QED
  BY <1>2, <1>3, <1>4, <1>5, <1>6, <1>7, <1>8, <1>9, <1>10 DEF SyncNext, Watcher

\* The rows a command remembers to have written are live, and not newer than
\* the history.
WroteTyped ==
    /\ \A k \in DOMAIN cmd.wrote :
          k \in Keys /\ 0 < cmd.wrote[k] /\ cmd.wrote[k] <= newest[k] /\ 0 < rows[k].version
    /\ cmd.op = "delete" => DOMAIN cmd.wrote = {}
    /\ cmd.op # "delete" => cmd.file \in Files \cup {NoPairs}

LEMMA WroteKept ==
    ASSUME WroteTyped, cmd'.op = cmd.op, cmd'.wrote = cmd.wrote,
           cmd'.file = cmd.file \/ cmd'.file = NoPairs, UNCHANGED server
    PROVE  WroteTyped'
<1>1. cmd.op # "delete" => cmd'.file \in Files \cup {NoPairs}
  BY DEF WroteTyped
<1>2. QED
  BY <1>1 DEF WroteTyped, server

\* The command's own requests.
LEMMA WroteUpsert ==
    ASSUME WroteTyped, SyncInv, cmd.op # "delete", NEW items \in PairSets, Upsert(items),
           Delivered(DOMAIN items)
    PROVE  WroteTyped'
<1>1. PICK K \in SUBSET Keys : K = DOMAIN items
  BY PairFacts DEF Pairs
<1>2. /\ StoreTyped'
      /\ \A k \in K : newest'[k] = newest[k] + 1 /\ rows'[k].version = newest'[k]
      /\ \A k \in Keys \ K : rows'[k] = rows[k] /\ newest'[k] = newest[k]
  BY <1>1, PairFacts, UpsertFacts DEF SyncInv
<1>3. newest' \in [Keys -> Nat] /\ newest \in [Keys -> Nat]
  BY <1>2 DEF StoreTyped, SyncInv
<1>4. /\ cmd'.op = cmd.op /\ cmd'.file = cmd.file /\ DOMAIN cmd'.wrote = DOMAIN cmd.wrote \cup K
      /\ \A k \in K : cmd'.wrote[k] = newest'[k]
      /\ \A k \in DOMAIN cmd.wrote \ K : cmd'.wrote[k] = cmd.wrote[k]
  BY <1>1, <1>3, DeliveredFacts DEF SyncInv
<1>5. ASSUME NEW k \in DOMAIN cmd'.wrote
      PROVE  k \in Keys /\ 0 < cmd'.wrote[k] /\ cmd'.wrote[k] <= newest'[k] /\ 0 < rows'[k].version
  <2>1. CASE k \in K
    <3>1. k \in Keys /\ newest[k] \in Nat /\ cmd'.wrote[k] = newest[k] + 1
          /\ newest'[k] = newest[k] + 1 /\ rows'[k].version = newest[k] + 1
      BY <1>2, <1>3, <1>4, <2>1
    <3>2. QED
      BY <3>1
  <2>2. CASE k \notin K
    <3>1. k \in DOMAIN cmd.wrote /\ k \in Keys \ K
      BY <1>4, <2>2 DEF WroteTyped
    <3>2. cmd'.wrote[k] = cmd.wrote[k] /\ rows'[k] = rows[k] /\ newest'[k] = newest[k]
      BY <1>2, <1>4, <3>1
    <3>3. QED
      BY <3>1, <3>2 DEF WroteTyped
  <2>3. QED
    BY <2>1, <2>2
<1>6. cmd'.op # "delete" /\ cmd'.file \in Files \cup {NoPairs}
  BY <1>4 DEF WroteTyped
<1>7. QED
  BY <1>5, <1>6 DEF WroteTyped

\* The changes of others: what they delete, the command forgets.
LEMMA WroteElsewhere == ASSUME WroteTyped, SyncInv, Elsewhere PROVE WroteTyped'
<1>1. PICK K : K = {k \in Keys : rows'[k] # rows[k]}
  OBVIOUS
<1>2. StoreTyped /\ StoreTyped' /\ CmdTyped /\ Change
  BY ElsewhereInv DEF SyncInv, Elsewhere
<1>3. /\ cmd'.op = cmd.op /\ cmd'.file = cmd.file
      /\ DOMAIN cmd'.wrote = DOMAIN cmd.wrote \ {k \in K : rows'[k] = NoRow}
      /\ \A k \in DOMAIN cmd'.wrote : cmd'.wrote[k] = cmd.wrote[k]
  BY <1>1, <1>2, ElsewhereFacts DEF StoreTyped
<1>4. ASSUME NEW k \in DOMAIN cmd'.wrote
      PROVE  cmd.wrote[k] <= newest'[k] /\ 0 < rows'[k].version
  <2>1. /\ k \in Keys /\ k \in DOMAIN cmd.wrote /\ k \notin {x \in K : rows'[x] = NoRow}
        /\ 0 < rows[k].version /\ cmd.wrote[k] <= newest[k] /\ cmd.wrote[k] \in Nat
    BY <1>2, <1>3, PairFacts DEF WroteTyped, CmdTyped, Cmds, Pairs
  <2>2. /\ newest[k] \in Nat /\ rows[k].version \in Nat
        /\ newest'[k] \in Nat /\ rows'[k].version \in Nat
    BY <1>2, <2>1 DEF StoreTyped, Snapshot
  <2>3. NoRow.version = 0
    BY DEF NoRow
  <2>4. rows'[k] # NoRow
    BY <1>1, <2>1, <2>3
  <2>5. newest[k] <= newest'[k] /\ rows[k].version <= rows'[k].version
    <3>1. CASE Recreate
      BY <2>1, <2>4, <3>1 DEF Recreate
    <3>2. ASSUME NEW key \in Keys, Remove(key)
          PROVE  newest[k] <= newest'[k] /\ rows[k].version <= rows'[k].version
      <4>1. UNCHANGED newest /\ (rows'[k] = NoRow \/ rows'[k] = rows[k])
        BY <1>2, <2>1, <3>2 DEF Remove, StoreTyped, Snapshot
      <4>2. QED
        BY <2>2, <2>4, <4>1
    <3>3. ASSUME NEW key \in Keys, Put(key)
          PROVE  newest[k] <= newest'[k] /\ rows[k].version <= rows'[k].version
      <4>1. PICK items : items = [x \in {key} |-> changes + 1]
        OBVIOUS
      <4>2. items \in [{key} -> Nat] /\ {key} \in SUBSET Keys
        BY <1>2, <4>1 DEF StoreTyped
      <4>3. Pairs(items) /\ Upsert(items) /\ DOMAIN items = {key}
        BY <3>3, <4>1, <4>2, PairFacts DEF Put
      <4>4. /\ newest'[key] = newest[key] + 1 /\ rows'[key].version = newest'[key]
            /\ \A q \in Keys \ {key} : rows'[q] = rows[q] /\ newest'[q] = newest[q]
        BY <1>2, <4>3, UpsertFacts
      <4>5. rows[k].version <= newest[k]
        BY <1>2, <2>1 DEF StoreTyped
      <4>6. CASE k = key
        BY <2>2, <4>4, <4>5, <4>6
      <4>7. CASE k # key
        BY <2>1, <2>2, <4>4, <4>7
      <4>8. QED
        BY <4>6, <4>7
    <3>4. QED
      BY <1>2, <3>1, <3>2, <3>3 DEF Change
  <2>6. QED
    BY <2>1, <2>2, <2>5
<1>5. \A k \in DOMAIN cmd'.wrote : k \in Keys /\ 0 < cmd'.wrote[k]
  BY <1>3 DEF WroteTyped
<1>6. QED
  BY <1>3, <1>4, <1>5 DEF WroteTyped

LEMMA WroteNext ==
    ASSUME WroteTyped, SyncInv, [SyncNext]_allVars
    PROVE  WroteTyped'
<1>0. CmdTyped /\ cmd \in Cmds
  BY DEF SyncInv, CmdTyped
<1>1. ASSUME NEW op, NEW at, NEW file, Begin(op, at, file), op = "delete" \/ file \in Files
      PROVE  WroteTyped'
  <2>1. cmd'.op = op /\ cmd'.file = file /\ cmd'.wrote = NoPairs
    BY <1>1 DEF Begin, NoCmd
  <2>2. QED
    BY <1>1, <2>1, PairFacts DEF WroteTyped
<1>2. ASSUME NEW at \in {"idle", "done"}, cmd' = Over(at), UNCHANGED vars PROVE WroteTyped'
  BY <1>0, <1>2, OverFacts, WroteKept DEF vars
<1>3. ASSUME UNCHANGED vars, cmd' = [cmd EXCEPT !.at = "send"]
      PROVE  WroteTyped'
  BY <1>0, <1>3, WroteKept DEF vars, Cmds
<1>4. ASSUME UNCHANGED vars, NEW todo, cmd' = [cmd EXCEPT !.at = "send", !.todo = todo]
      PROVE  WroteTyped'
  BY <1>0, <1>4, WroteKept DEF vars, Cmds
<1>5. CASE StartSync \/ StartSet \/ StartDelete
  BY <1>1, <1>5 DEF StartSync, StartSet, StartDelete
<1>6. CASE Pull
  <2>1. CASE cmd' = Over("done")
    BY <1>2, <1>6, <2>1 DEF Pull
  <2>2. CASE cmd' # Over("done")
    <3>1. \E todo : cmd' = [cmd EXCEPT !.at = "send", !.todo = todo]
      BY <1>6, <2>2 DEF Pull
    <3>2. QED
      BY <1>4, <1>6, <3>1 DEF Pull
  <2>3. QED
    BY <2>1, <2>2
<1>7. CASE Upload
  BY <1>0, <1>7, WroteUpsert DEF Upload, Cmds
<1>8. CASE remoteSet
  <2>1. PICK key \in DOMAIN cmd.todo : Upsert([x \in {key} |-> cmd.todo[key]]) /\ Delivered({key})
    BY <1>8 DEF remoteSet
  <2>2. key \in Keys /\ cmd.todo[key] \in Nat
    BY <1>0, PairFacts DEF Cmds, Pairs
  <2>3. PICK items : items = [x \in {key} |-> cmd.todo[key]]
    OBVIOUS
  <2>4. items \in [{key} -> Nat] /\ {key} \in SUBSET Keys /\ DOMAIN items = {key}
    BY <2>2, <2>3
  <2>5. items \in PairSets
    BY <2>4, PairFacts
  <2>6. Upsert(items) /\ Delivered(DOMAIN items)
    BY <2>1, <2>3, <2>4
  <2>7. QED
    BY <1>8, <2>5, <2>6, WroteUpsert DEF remoteSet
<1>9. CASE remoteDelete
  <2>1. cmd.op = "delete" /\ cmd'.op = "delete" /\ cmd'.wrote = cmd.wrote
    BY <1>0, <1>9 DEF remoteDelete, Cmds
  <2>2. QED
    BY <2>1 DEF WroteTyped
<1>10. CASE Answer
  BY <1>2, <1>3, <1>10 DEF Answer
<1>11. CASE Fails
  BY <1>2, <1>11 DEF Fails
<1>12. CASE Watcher \/ UNCHANGED allVars
  BY <1>12, WatcherLeaves, WroteKept DEF allVars, vars
<1>13. QED
  BY <1>5, <1>6, <1>7, <1>8, <1>9, <1>10, <1>11, <1>12, WroteElsewhere DEF SyncNext, Command

LEMMA TypesInit == SyncInit => WatchTyped /\ WroteTyped
<1> SUFFICES ASSUME SyncInit PROVE WatchTyped /\ WroteTyped
  OBVIOUS
<1>1. rows \in Snapshot /\ VersionsOf(rows) \in [Keys -> Nat]
  BY SyncInvInit, RowVersions DEF SyncInv, StoreTyped
<1>2. pc = "start" /\ last = VersionsOf(rows) /\ snap = rows /\ ch = <<>> /\ seen = <<>>
  BY DEF SyncInit, Init
<1>3. cancelled = FALSE
  BY Zenon DEF SyncInit, Init
<1>4. WatchTyped
  BY <1>1, <1>2, <1>3, Zenon DEF WatchTyped
<1>5. cmd.op = "none" /\ cmd.wrote = NoPairs /\ cmd.file = NoPairs
  BY DEF SyncInit, NoCmd
<1>6. QED
  BY <1>4, <1>5, PairFacts DEF WroteTyped

\* Every variable keeps its type, the channel its size of one snapshot, and the
\* versions a command wrote are in the history for as long as their rows live
\* (watch.go:36-85, sync.go:44-106).
THEOREM TypeCorrect == SyncSpec => []SyncTypeOK
<1>1. WatchTyped /\ WroteTyped /\ SyncInv /\ Chain /\ LifeInv => SyncTypeOK
  <2> SUFFICES ASSUME WatchTyped, WroteTyped, SyncInv, Chain, LifeInv PROVE SyncTypeOK
    OBVIOUS
  <2>1. Len(ch) <= 1 /\ \A i \in DOMAIN ch : ch[i] \in Snapshot
    <3>1. CASE ch = <<>>
      BY <3>1
    <3>2. CASE ch # <<>>
      <4>1. PICK x : ch = <<x>> /\ x = ch[1]
        BY <3>2 DEF Chain
      <4>2. x \in Snapshot
        BY <3>2, <4>1, Zenon DEF WatchTyped
      <4>3. QED
        BY <4>1, <4>2
    <3>3. QED
      BY <3>1, <3>2
  <2>2. rows \in Snapshot /\ newest \in [Keys -> Nat]
    BY DEF SyncInv, StoreTyped
  <2>3. TypeOK
    BY <2>1, <2>2, Zenon DEF TypeOK, WatchTyped, LifeInv
  <2>4. /\ cmd.op \in {"none", "sync", "set", "delete"}
        /\ cmd.at \in {"idle", "pull", "send", "reply", "done"}
        /\ DOMAIN cmd.todo \subseteq DOMAIN cmd.file
        /\ DOMAIN cmd.wrote \cup cmd.moved \subseteq Keys
    BY PairFacts DEF SyncInv, CmdTyped, Cmds, Pairs
  <2>5. \A k \in DOMAIN cmd.wrote : cmd.wrote[k] \in 1 .. newest[k]
    <3>1. \A k \in DOMAIN cmd.wrote : k \in Keys /\ cmd.wrote[k] \in Nat /\ newest[k] \in Nat
      BY <2>2, PairFacts DEF SyncInv, CmdTyped, Cmds, Pairs
    <3>2. QED
      BY <3>1 DEF WroteTyped
  <2>6. QED
    BY <2>3, <2>4, <2>5 DEF SyncTypeOK, WroteTyped
<1>2. SyncSpec => []Chain
  BY ChainInit, ChainNext, PTL DEF SyncSpec
<1>3. QED
  BY <1>1, <1>2, SyncInvHolds, LifeInvHolds, TypesInit, WatchTypedNext, WroteNext, PTL DEF SyncSpec

\* A watch with nothing left to send has told its consumer every version, and every
\* value of the life of the environment in which it last read it (watch.go:66-84).
THEOREM QuietWatchIsCurrent == SyncSpec => []QuietMeansCurrent
<1>1. SyncTypeOK /\ Chain /\ LifeInv => QuietMeansCurrent
  <2> SUFFICES ASSUME SyncTypeOK, Chain, LifeInv, pc \in {"wait", "poll"},
                      ch = <<>>, versionsEqual(last, VersionsOf(rows))
               PROVE  /\ seen # <<>> /\ VersionsOf(seen[1]) = VersionsOf(rows)
                      /\ life = recreated => seen = <<rows>>
    BY DEF QuietMeansCurrent
  <2>1. PICK x : seen = <<x>> /\ x = seen[1]
    BY DEF Chain
  <2>2. Latest = x /\ last = VersionsOf(x)
    BY <2>1 DEF Chain, Latest
  <2>3. \A k \in Keys : x[k].version = rows[k].version
    <3>1. \A k \in Keys : last[k] = x[k].version /\ VersionsOf(rows)[k] = rows[k].version
      BY <2>2 DEF VersionsOf
    <3>2. \A k \in Keys : last[k] = VersionsOf(rows)[k]
      BY DEF versionsEqual
    <3>3. QED
      BY <3>1, <3>2
  <2>4. seen # <<>> /\ VersionsOf(x) = VersionsOf(rows)
    BY <2>1, <2>3 DEF VersionsOf
  <2>5. ASSUME life = recreated PROVE x = rows
    <3>1. \A k \in Keys : x[k] = rows[k]
      BY <2>2, <2>3, <2>5 DEF LifeInv, Known
    <3>2. x \in Snapshot /\ rows \in Snapshot
      BY <2>1 DEF SyncTypeOK, TypeOK
    <3>3. QED
      BY <3>1, <3>2 DEF Snapshot
  <2>6. QED
    BY <2>1, <2>4, <2>5
<1>2. SyncSpec => []Chain
  BY ChainInit, ChainNext, PTL DEF SyncSpec
<1>3. QED
  BY <1>1, <1>2, TypeCorrect, LifeInvHolds, PTL
=============================================================================

-------------------------------- MODULE Watch --------------------------------
(***************************************************************************)
(* Client.Watch of the Go SDK (sdk/go/watch.go): a goroutine that polls    *)
(* the secrets of an environment and sends a Snapshot on a channel of      *)
(* capacity 1 when the versions it got differ from the last ones it sent,  *)
(* a consumer that receives from the channel whenever it likes, and the    *)
(* server whose secrets change meanwhile.                                  *)
(*                                                                         *)
(* The server is the versioned store that ServerSecrets implements: a new  *)
(* version is one more than any the key has had in this environment.       *)
(***************************************************************************)
EXTENDS Naturals, Sequences

CONSTANTS Keys,            \* secret names
          MaxChanges,      \* bound: changes of the secrets
          MaxRecreations   \* bound: times the environment is deleted and re-created

VARIABLES rows,        \* rows[k]: the live row of k on the server
          newest,      \* newest[k]: the newest version in the history of k
          changes,     \* number of changes so far
          recreated,   \* number of re-creations so far
          pc,          \* where the goroutine is; "closed": ch is closed
          last,        \* versions of the last snapshot it set out to send
          life,        \* history: recreated, when that snapshot was read
          snap,        \* the snapshot it is sending
          ch,          \* the channel
          seen,        \* the snapshot the consumer received last
          cancelled    \* the context is done

server == <<rows, newest, changes, recreated>>
client == <<pc, last, life, snap, ch>>
vars == <<server, client, seen, cancelled>>

NoRow == [version |-> 0, value |-> 0]
Snapshot == [Keys -> [version : Nat, value : Nat]]

\* A key without a live row is not in the map of versions (0 stands for it).
VersionsOf(s) == [k \in Keys |-> s[k].version]

Init ==
    /\ rows = [k \in Keys |-> NoRow]
    /\ newest = [k \in Keys |-> 0]
    /\ changes = 0
    /\ recreated = 0
    /\ pc = "start"
    /\ last = VersionsOf(rows)
    /\ life = recreated
    /\ snap = rows
    /\ ch = <<>>
    /\ seen = <<>>
    /\ cancelled = FALSE

------------------------------------------------------------------------------
(* The server.                                                             *)

\* One transaction gives the keys of items their values.
Upsert(items) ==
    /\ changes < MaxChanges
    /\ changes' = changes + 1
    /\ newest' = [k \in Keys |-> IF k \in DOMAIN items THEN newest[k] + 1 ELSE newest[k]]
    /\ rows' = [k \in Keys |-> IF k \in DOMAIN items
                               THEN [version |-> newest[k] + 1, value |-> items[k]]
                               ELSE rows[k]]
    /\ UNCHANGED recreated

Put(k) == Upsert([x \in {k} |-> changes + 1]) /\ UNCHANGED <<client, seen, cancelled>>

\* Mutant: the history goes with the row, and version numbers start again.
Remove_WipesHistory(k) ==
    /\ rows[k] # NoRow
    /\ rows' = [rows EXCEPT ![k] = NoRow]
    /\ newest' = [newest EXCEPT ![k] = 0]
    /\ UNCHANGED <<changes, recreated, client, seen, cancelled>>

Remove(k) ==
    /\ rows[k] # NoRow
    /\ rows' = [rows EXCEPT ![k] = NoRow]
    /\ UNCHANGED <<newest, changes, recreated, client, seen, cancelled>>

\* The environment is deleted, and created again under its slug.
Recreate ==
    /\ recreated < MaxRecreations
    /\ recreated' = recreated + 1
    /\ rows' = [k \in Keys |-> NoRow]
    /\ newest' = [k \in Keys |-> 0]
    /\ UNCHANGED <<changes, client, seen, cancelled>>

------------------------------------------------------------------------------
(* The goroutine.                                                          *)

\* The first snapshot is sent before Watch returns.
Start ==
    /\ pc = "start"
    /\ ~cancelled
    /\ ch' = <<rows>>
    /\ last' = VersionsOf(rows)
    /\ life' = recreated
    /\ pc' = "wait"
    /\ UNCHANGED <<server, snap, seen, cancelled>>

\* The first pull fails: Watch returns the error and no channel.
StartFails ==
    /\ pc = "start"
    /\ pc' = "failed"
    /\ UNCHANGED <<server, last, life, snap, ch, seen, cancelled>>

Tick ==
    /\ pc = "wait"
    /\ pc' = "poll"
    /\ UNCHANGED <<server, last, life, snap, ch, seen, cancelled>>

versionsEqual(a, b) ==
    /\ {k \in Keys : a[k] # 0} = {k \in Keys : b[k] # 0}
    /\ \A k \in Keys : a[k] # 0 => b[k] = a[k]

Poll ==
    /\ pc = "poll"
    /\ ~cancelled
    /\ IF versionsEqual(last, VersionsOf(rows))
       THEN pc' = "wait" /\ UNCHANGED <<last, life, snap>>
       ELSE pc' = "send" /\ last' = VersionsOf(rows) /\ life' = recreated /\ snap' = rows
    /\ UNCHANGED <<server, ch, seen, cancelled>>

\* A network or server error, a 404 in between, or the context.
PollFails ==
    /\ pc = "poll"
    /\ pc' = "wait"
    /\ UNCHANGED <<server, last, life, snap, ch, seen, cancelled>>

\* Mutant: a snapshot that finds the channel full is dropped.
Send_Drops ==
    /\ pc = "send"
    /\ ch' = IF Len(ch) < 1 THEN Append(ch, snap) ELSE ch
    /\ pc' = "wait"
    /\ UNCHANGED <<server, last, life, snap, seen, cancelled>>

Send ==
    /\ pc = "send"
    /\ Len(ch) < 1
    /\ ch' = Append(ch, snap)
    /\ pc' = "wait"
    /\ UNCHANGED <<server, last, life, snap, seen, cancelled>>

\* Mutant: the send does not look at ctx.Done().
Stop_AtTickOnly ==
    /\ pc = "wait"
    /\ cancelled
    /\ pc' = "closed"
    /\ UNCHANGED <<server, last, life, snap, ch, seen, cancelled>>

Stop ==
    /\ pc \in {"wait", "send"}
    /\ cancelled
    /\ pc' = "closed"
    /\ UNCHANGED <<server, last, life, snap, ch, seen, cancelled>>

------------------------------------------------------------------------------
(* The consumer.                                                           *)

Receive ==
    /\ ch # <<>>
    /\ seen' = <<Head(ch)>>
    /\ ch' = Tail(ch)
    /\ UNCHANGED <<server, pc, last, life, snap, cancelled>>

Cancel ==
    /\ ~cancelled
    /\ cancelled' = TRUE
    /\ UNCHANGED <<server, client, seen>>

Change == (\E k \in Keys : Put(k) \/ Remove(k)) \/ Recreate

Next ==
    \/ Change
    \/ Start \/ StartFails \/ Tick \/ Poll \/ PollFails \/ Send \/ Stop
    \/ Receive \/ Cancel

(* The goroutine runs; a pull ends, by its timeout at the latest; a select *)
(* with two ready cases picks one at random (strong fairness of Stop).     *)
Running ==
    /\ WF_vars(Start \/ StartFails)
    /\ WF_vars(Tick)
    /\ WF_vars(Poll \/ PollFails)
    /\ WF_vars(Send)
    /\ SF_vars(Stop)

(* What convergence asks of its surroundings: polls do not fail for ever,  *)
(* the consumer keeps receiving, and nobody ends the watch.                *)
Served ==
    /\ SF_vars(Poll)
    /\ WF_vars(Receive)
    /\ [](~cancelled /\ pc # "failed")

Spec == Init /\ [][Next]_vars
FairSpec == Spec /\ Running

------------------------------------------------------------------------------
(* Properties.                                                             *)

\* Every variable keeps its type; the channel holds one snapshot at most.
TypeOK ==
    /\ rows \in Snapshot
    /\ newest \in [Keys -> Nat]
    /\ pc \in {"start", "failed", "wait", "poll", "send", "closed"}
    /\ last \in [Keys -> Nat]
    /\ life \in 0 .. recreated
    /\ snap \in Snapshot
    /\ Len(ch) <= 1 /\ \A i \in DOMAIN ch : ch[i] \in Snapshot
    /\ seen = <<>> \/ seen[1] \in Snapshot
    /\ cancelled \in BOOLEAN

\* Whatever the consumer's speed, the failed polls and the changes in between:
\* once a poll would find nothing new and the channel is empty, the consumer has
\* the server's versions. It has its values, too, unless the environment was
\* deleted and created again after the consumer's snapshot was read: the keys may
\* have got their old version numbers again (watch.go:74).
QuietMeansCurrent ==
    pc \in {"wait", "poll"} /\ ch = <<>> /\ versionsEqual(last, VersionsOf(rows)) =>
        /\ seen # <<>> /\ VersionsOf(seen[1]) = VersionsOf(rows)
        /\ life = recreated => seen = <<rows>>

\* Once the secrets settle, a consumer that keeps receiving ends up with
\* their versions: a change is not lost in a failed poll, behind a full
\* channel or under a later change.
Converges ==
    Served => <>[](seen # <<>> /\ VersionsOf(seen[1]) = VersionsOf(rows))

\* ... and with their values: comparing versions is enough, because one life of
\* the environment uses a version number once. Only a snapshot of an earlier life
\* may be taken for the present one.
ConvergesOnValues ==
    Served => <>[](life = recreated => seen = <<rows>>)

\* "The returned channel is closed when ctx is canceled"
\* (sdk/go/watch.go:27), also when nobody receives from it any more and
\* when the server does not answer.
ChannelCloses == cancelled ~> pc \in {"closed", "failed"}
=============================================================================

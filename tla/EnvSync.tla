------------------------------- MODULE EnvSync -------------------------------
(* Commands that bring secrets from a machine to the server, while other     *)
(* clients change them and the SDK watches them (Watch): environment_sync of *)
(* the MCP server (internal/mcpserver/sync.go), which reads a dotenv file,   *)
(* pulls, and uploads in one request what differs; and set --remote and      *)
(* delete --remote of the command line (cli/set.go, cli/delete.go), the      *)
(* former with one request per key.                                           *)
(*                                                                            *)
(* Values are numbers, 0 the empty string. One machine runs one command after *)
(* the other; those of other machines are Watch's Put, Remove and Recreate.   *)
EXTENDS Watch

CONSTANTS
    Values,      \* of the machine's files and arguments
    MaxCommands  \* bound: commands the machine runs

ASSUME ValuesAssumption == Values \subseteq Nat

VARIABLES
    cmd,         \* the command the machine runs
    commands     \* how many it has begun

watching == <<client, seen, cancelled>>
allVars == <<vars, cmd, commands>>

\* The pairs of a dotenv file or of the command's arguments: each key once.
Files == UNION {[K -> Values] : K \in SUBSET Keys \ {{}}}
NoPairs == [k \in {} |-> 0]

\* todo: the pairs still to be sent. wrote and moved are auxiliary: the versions
\* the command gave its keys, and the keys that others have changed since it
\* looked at them or wrote them.
NoCmd == [op |-> "none", at |-> "idle", file |-> NoPairs, todo |-> NoPairs,
          wrote |-> NoPairs, moved |-> {}]

Without(pairs, K) == [k \in DOMAIN pairs \ K |-> pairs[k]]

\* Mutant: keys the server does not have are left alone.
Differs_Present(file, k) == rows[k] # NoRow /\ rows[k].value # file[k]
\* current[key] == value: a key the pull does not find reads as empty.
Differs(file, k) == rows[k].value # file[k]

-----------------------------------------------------------------------------

\* The command is over; what it wrote is remembered until the next begins.
Over(at) == [NoCmd EXCEPT !.op = cmd.op, !.at = at, !.wrote = cmd.wrote]

Begin(op, at, file) ==
    /\ cmd.at \in {"idle", "done"} /\ commands < MaxCommands
    /\ commands' = commands + 1
    /\ cmd' = [NoCmd EXCEPT !.op = op, !.at = at, !.file = file, !.todo = file]
    /\ UNCHANGED vars

StartSync == \E file \in Files : Begin("sync", "pull", file)
StartSet == \E file \in Files : Begin("set", "send", file)
StartDelete == \E k \in Keys : Begin("delete", "send", [x \in {k} |-> 0])

Pull ==
    /\ cmd.at = "pull"
    /\ LET same == {k \in DOMAIN cmd.file : ~Differs(cmd.file, k)}
       IN  cmd' = IF same = DOMAIN cmd.file THEN Over("done")
                  ELSE [cmd EXCEPT !.at = "send", !.todo = Without(cmd.file, same)]
    /\ UNCHANGED <<vars, commands>>

\* The request is served: its keys are the command's, its answer is under way.
Delivered(K) ==
    cmd' = [cmd EXCEPT !.at = "reply", !.todo = Without(@, K), !.moved = @ \ K,
                       !.wrote = [k \in DOMAIN @ \cup K |-> IF k \in K THEN newest'[k] ELSE @[k]]]

\* Mutant: the changed keys are uploaded one by one.
Upload_OneByOne ==
    /\ cmd.op = "sync" /\ cmd.at = "send"
    /\ \E k \in DOMAIN cmd.todo : Upsert([x \in {k} |-> cmd.todo[k]]) /\ Delivered({k})
    /\ UNCHANGED <<watching, commands>>

Upload ==
    /\ cmd.op = "sync" /\ cmd.at = "send"
    /\ Upsert(cmd.todo) /\ Delivered(DOMAIN cmd.todo)
    /\ UNCHANGED <<watching, commands>>

remoteSet ==
    /\ cmd.op = "set" /\ cmd.at = "send"
    /\ \E k \in DOMAIN cmd.todo : Upsert([x \in {k} |-> cmd.todo[k]]) /\ Delivered({k})
    /\ UNCHANGED <<watching, commands>>

remoteDelete ==
    /\ cmd.op = "delete" /\ cmd.at = "send"
    /\ \E k \in DOMAIN cmd.todo : Remove(k)
    /\ cmd' = [cmd EXCEPT !.at = "reply", !.todo = NoPairs]
    /\ UNCHANGED commands

Answer ==
    /\ cmd.at = "reply"
    /\ cmd' = IF DOMAIN cmd.todo = {} THEN Over("done") ELSE [cmd EXCEPT !.at = "send"]
    /\ UNCHANGED <<vars, commands>>

\* A request or its answer is lost, or refused; the command stops there.
Fails ==
    /\ cmd.at \in {"pull", "send", "reply"}
    /\ cmd' = Over("idle")
    /\ UNCHANGED <<vars, commands>>

Elsewhere ==
    /\ Change
    /\ LET K == {k \in Keys : rows'[k] # rows[k]}
       IN  cmd' = [cmd EXCEPT !.moved = IF cmd.at \in {"send", "reply"} THEN @ \cup K ELSE @,
                              !.wrote = Without(@, {k \in K : rows'[k] = NoRow})]
    /\ UNCHANGED commands

-----------------------------------------------------------------------------

SyncInit == Init /\ cmd = NoCmd /\ commands = 0

Command ==
    \/ StartSync \/ StartSet \/ StartDelete
    \/ Pull \/ Upload \/ remoteSet \/ remoteDelete \/ Answer \/ Fails
Watcher ==
    (Start \/ StartFails \/ Tick \/ Poll \/ PollFails \/ Send \/ Stop \/ Receive \/ Cancel)
    /\ UNCHANGED <<cmd, commands>>

SyncNext == Command \/ Elsewhere \/ Watcher

SyncSpec == SyncInit /\ [][SyncNext]_allVars
FairSyncSpec == SyncSpec /\ Running

-----------------------------------------------------------------------------
(* Properties *)

\* Every variable keeps its type; a command's version numbers exist.
SyncTypeOK ==
    /\ TypeOK
    /\ cmd.op \in {"none", "sync", "set", "delete"}
    /\ cmd.at \in {"idle", "pull", "send", "reply", "done"}
    /\ cmd.op # "delete" => cmd.file \in Files \cup {NoPairs}
    /\ DOMAIN cmd.todo \subseteq DOMAIN cmd.file
    /\ DOMAIN cmd.wrote \cup cmd.moved \subseteq Keys
    /\ \A k \in DOMAIN cmd.wrote : cmd.wrote[k] \in 1 .. newest[k]

\* When environment_sync or set --remote says it is done, the server's values
\* are the file's, except for keys that somebody else changed since the command
\* pulled or wrote them (sync.go:85-104, set.go:68-73).
DoneMeansSynced ==
    [][cmd.at # "done" /\ cmd'.at = "done" /\ cmd.op \in {"sync", "set"} =>
         \A k \in DOMAIN cmd.file \ cmd.moved : rows[k].value = cmd.file[k]]_allVars

\* What a sync uploaded is seen whole by the SDK: no snapshot, however long it
\* is under way, has one of its keys as uploaded and another still as before.
\* (Keys that were removed since are not in wrote; an environment that is
\* created again counts its versions from 1, and snapshots of both compare to nothing.)
Snapshots == {ch[i] : i \in DOMAIN ch} \cup {seen[i] : i \in DOMAIN seen}
             \cup (IF pc = "send" THEN {snap} ELSE {})
SyncsAreSeenWhole ==
    cmd.op = "sync" /\ recreated = 0 => \A s \in Snapshots :
        \/ \A k \in DOMAIN cmd.wrote : s[k].version < cmd.wrote[k]
        \/ \A k \in DOMAIN cmd.wrote : s[k].version >= cmd.wrote[k]
=============================================================================

----------------------------- MODULE LocalStore -----------------------------
(***************************************************************************)
(* The encrypted files of the local store (~/.foostash/projects/*/*.enc    *)
(* and globals.enc) and the commands that change them: set, import,        *)
(* rollback and delete (internal/secrets/service.go), and                  *)
(* creating, cloning and deleting an environment                           *)
(* (internal/envs/manager.go).  Every command is a process of its own;     *)
(* nothing locks a file.  A process may be killed between any two system   *)
(* calls.                                                                  *)
(*                                                                         *)
(* A command loads the whole file, changes it in memory and saves it       *)
(* (internal/store/store.go): it writes path.tmp, then renames it to path. *)
(* The name of the temporary file is the same for every process, so the    *)
(* model keeps file names and file contents (inodes) apart.                *)
(***************************************************************************)
EXTENDS Naturals, Sequences

CONSTANTS Paths,         \* one per environment, and the globals
          Keys,          \* secret names
          Procs,         \* foostash processes running at once
          Inodes,        \* bound: file contents that exist at once
          Nil,           \* no inode
          MaxHistory,    \* maxHistoryPerKey
          MaxCommands    \* bound: commands in one behaviour

ASSUME MaxHistoryAssumption == MaxHistory \in Nat \ {0}
ASSUME NilAssumption == Nil \notin Inodes

VARIABLES file,      \* file[f]: the inode that the name f leads to
          tmp,       \* tmp[f]: the inode that the name f.tmp leads to
          data,      \* data[i]: the content of an inode
          pc,        \* pc[p]: the system call p is at
          cmd,       \* cmd[p]: the command p runs
          sf,        \* sf[p]: the SecretFile in the memory of p
          fd,        \* fd[p]: the inode p has open for writing
          issued,    \* number of commands started so far
          alone      \* auxiliary: p has run its command with no other running

vars == <<file, tmp, data, pc, cmd, sf, fd, issued, alone>>

------------------------------------------------------------------------------
(* Contents.  A slot is what a SecretFile holds of a key: the live entry    *)
(* (version 0: none) and the history.                                      *)

EmptySlot == [version |-> 0, value |-> 0, history |-> <<>>]
NewSecretFile == [k \in Keys |-> EmptySlot]

\* A file may hold no bytes yet, or bytes of two writes; Load fails on both.
Whole(s) == [state |-> "whole", slots |-> s]
Empty == [state |-> "empty", slots |-> NewSecretFile]
Torn == [state |-> "torn", slots |-> NewSecretFile]

Load(f) == IF file[f] = Nil THEN NewSecretFile ELSE data[file[f]].slots
Readable(f) == file[f] # Nil => data[file[f]].state = "whole"

\* Mutant: the cap keeps the oldest entries.
Capped_Oldest(h) == IF Len(h) > MaxHistory THEN SubSeq(h, 1, MaxHistory) ELSE h

\* The last MaxHistory entries.
Capped(h) ==
    IF Len(h) > MaxHistory THEN SubSeq(h, Len(h) - MaxHistory + 1, Len(h)) ELSE h

NextVersion(slot) == slot.version + 1

Stored(slot, value) ==
    LET entry == [version |-> NextVersion(slot), value |-> value]
    IN  [version |-> entry.version, value |-> value,
         history |-> Capped(Append(slot.history, entry))]

\* The first entry of the history with that version.
Target(slot, version) ==
    CHOOSE i \in DOMAIN slot.history :
        /\ slot.history[i].version = version
        /\ \A j \in 1..i - 1 : slot.history[j].version # version

Deleted(slot) == [slot EXCEPT !.version = 0, !.value = 0]

\* The command c finds what it needs in the store s ...
Applies(c, s) ==
    CASE c.kind = "rollback" ->
            \A k \in c.keys : \E i \in DOMAIN s[k].history :
                s[k].history[i].version = c.target
      [] c.kind = "delete" -> \A k \in c.keys : s[k].version # 0
      [] OTHER -> TRUE

\* ... and turns it into the store it saves.
Apply(c, s) ==
    CASE c.kind = "set" ->
            [k \in Keys |-> IF k \in c.keys THEN Stored(s[k], c.id) ELSE s[k]]
      [] c.kind = "rollback" ->
            [k \in Keys |-> IF k \in c.keys
                THEN Stored(s[k], s[k].history[Target(s[k], c.target)].value)
                ELSE s[k]]
      [] c.kind = "delete" ->
            [k \in Keys |-> IF k \in c.keys THEN Deleted(s[k]) ELSE s[k]]
      [] OTHER -> s

Idle == [id |-> 0, kind |-> "none", path |-> Nil, source |-> Nil,
         keys |-> {}, target |-> 0]

Init ==
    /\ file = [f \in Paths |-> Nil]
    /\ tmp = [f \in Paths |-> Nil]
    /\ data = [i \in Inodes |-> Empty]
    /\ pc = [p \in Procs |-> "idle"]
    /\ cmd = [p \in Procs |-> Idle]
    /\ sf = [p \in Procs |-> NewSecretFile]
    /\ fd = [p \in Procs |-> Nil]
    /\ issued = 0
    /\ alone = [p \in Procs |-> FALSE]

------------------------------------------------------------------------------
(* Starting and ending a command.                                          *)

Running == {p \in Procs : pc[p] # "idle"}

Start(p, first, command) ==
    /\ pc[p] = "idle"
    /\ issued < MaxCommands
    /\ issued' = issued + 1
    /\ pc' = [pc EXCEPT ![p] = first]
    /\ cmd' = [cmd EXCEPT ![p] = [command EXCEPT !.id = issued + 1]]
    /\ alone' = [q \in Procs |-> IF q = p THEN Running = {}
                                          ELSE alone[q] /\ q \notin Running]
    /\ UNCHANGED <<file, tmp, data, sf, fd>>

Set(p, f, K) ==
    Start(p, "load", [Idle EXCEPT !.kind = "set", !.path = f,
                                  !.source = f, !.keys = K])
Rollback(p, f, k, version) ==
    Start(p, "load", [Idle EXCEPT !.kind = "rollback", !.path = f, !.source = f,
                                  !.keys = {k}, !.target = version])
Delete(p, f, k) ==
    Start(p, "load", [Idle EXCEPT !.kind = "delete", !.path = f,
                                  !.source = f, !.keys = {k}])
Create(p, f) == Start(p, "stat", [Idle EXCEPT !.kind = "create", !.path = f])
Clone(p, src, dest) ==
    Start(p, "stat", [Idle EXCEPT !.kind = "clone", !.path = dest, !.source = src])
DeleteEnv(p, f) == Start(p, "remove", [Idle EXCEPT !.kind = "drop", !.path = f])

Finish(p) ==
    /\ pc' = [pc EXCEPT ![p] = "idle"]
    /\ cmd' = [cmd EXCEPT ![p] = Idle]
    /\ sf' = [sf EXCEPT ![p] = NewSecretFile]
    /\ fd' = [fd EXCEPT ![p] = Nil]
    /\ UNCHANGED <<issued, alone>>

Abort(p) == Finish(p) /\ UNCHANGED <<file, tmp, data>>

GoTo(p, step) ==
    /\ pc' = [pc EXCEPT ![p] = step]
    /\ UNCHANGED <<cmd, issued, alone>>

\* The process is killed; a write may have been cut short.
Crash(p) ==
    /\ pc[p] # "idle"
    /\ Finish(p)
    /\ \/ UNCHANGED data
       \/ pc[p] = "write" /\ data' = [data EXCEPT ![fd[p]] = Torn]
    /\ UNCHANGED <<file, tmp>>

------------------------------------------------------------------------------
(* System calls before the save.                                           *)

\* Create and Clone refuse a path that exists.
Stat(p) ==
    /\ pc[p] = "stat"
    /\ IF file[cmd[p].path] # Nil THEN Abort(p)
       ELSE /\ GoTo(p, IF cmd[p].kind = "clone" THEN "load" ELSE "open")
            /\ UNCHANGED <<file, tmp, data, sf, fd>>

\* A file that does not exist loads as an empty one.
LoadAndApply(p) ==
    LET s == Load(cmd[p].source)
    IN  /\ pc[p] = "load"
        /\ Readable(cmd[p].source)
        /\ Applies(cmd[p], s)
        /\ sf' = [sf EXCEPT ![p] = Apply(cmd[p], s)]
        /\ GoTo(p, "open")
        /\ UNCHANGED <<file, tmp, data, fd>>

LoadFails(p) ==
    /\ pc[p] = "load"
    /\ Readable(cmd[p].source) => ~Applies(cmd[p], Load(cmd[p].source))
    /\ Abort(p)

RemoveFile(p) ==
    /\ pc[p] = "remove"
    /\ file' = [file EXCEPT ![cmd[p].path] = Nil]
    /\ Finish(p)
    /\ UNCHANGED <<tmp, data>>

------------------------------------------------------------------------------
(* Save.                                                                   *)

Unused == {i \in Inodes : \A f \in Paths : file[f] # i /\ tmp[f] # i}
              \ {fd[p] : p \in Procs}

\* os.WriteFile opens path.tmp with O_CREATE and O_TRUNC.
OpenNew(p, i) ==
    /\ fd' = [fd EXCEPT ![p] = i]
    /\ data' = [data EXCEPT ![i] = Empty]
    /\ GoTo(p, "write")

\* Mutant: the save writes path itself.
OpenTmp_InPlace(p) ==
    LET f == cmd[p].path
    IN  /\ pc[p] = "open"
        /\ IF file[f] # Nil
           THEN OpenNew(p, file[f]) /\ UNCHANGED file
           ELSE \E i \in Unused : OpenNew(p, i) /\ file' = [file EXCEPT ![f] = i]
        /\ UNCHANGED <<tmp, sf>>

OpenTmp(p) ==
    LET f == cmd[p].path
    IN  /\ pc[p] = "open"
        /\ IF tmp[f] # Nil
           THEN OpenNew(p, tmp[f]) /\ UNCHANGED tmp
           ELSE \E i \in Unused : OpenNew(p, i) /\ tmp' = [tmp EXCEPT ![f] = i]
        /\ UNCHANGED <<file, sf>>

\* The write starts at offset 0: over the bytes another process wrote there
\* since, the result is torn when the new content is the shorter one.
Write(p) ==
    /\ pc[p] = "write"
    /\ \/ data' = [data EXCEPT ![fd[p]] = Whole(sf[p])]
       \/ data[fd[p]] # Empty /\ data' = [data EXCEPT ![fd[p]] = Torn]
    /\ fd' = [fd EXCEPT ![p] = Nil]
    /\ GoTo(p, "rename")
    /\ UNCHANGED <<file, tmp, sf>>

Rename(p) ==
    LET f == cmd[p].path
    IN  /\ pc[p] = "rename"
        /\ tmp[f] # Nil
        /\ file' = [file EXCEPT ![f] = tmp[f]]
        /\ tmp' = [tmp EXCEPT ![f] = Nil]
        /\ Finish(p)
        /\ UNCHANGED data

\* Another process has renamed it: the command fails, and removes
\* path.tmp, which may be a third one's by then.
RenameFails(p) ==
    /\ pc[p] = "rename"
    /\ tmp[cmd[p].path] = Nil
    /\ GoTo(p, "cleanup")
    /\ UNCHANGED <<file, tmp, data, sf, fd>>

RemoveTmp(p) ==
    /\ pc[p] = "cleanup"
    /\ tmp' = [tmp EXCEPT ![cmd[p].path] = Nil]
    /\ Finish(p)
    /\ UNCHANGED <<file, data>>

------------------------------------------------------------------------------

\* The commands, for an environment or with --global.
SetCmd(p, f) == \E K \in SUBSET Keys \ {{}} : Set(p, f, K)

\* The pairs of a .env file or bundle, if it has any, are set in one save.
ImportCmd(p, f) == \E K \in SUBSET Keys : K # {} /\ Set(p, f, K)

RollbackCmd(p, f) == \E k \in Keys, v \in 1..MaxCommands : Rollback(p, f, k, v)
DeleteCmd(p, f) == \E k \in Keys : Delete(p, f, k)

\* The environments' commands are envs.Manager's, which no command calls yet.
Command(p) ==
    \E f \in Paths :
        \/ SetCmd(p, f) \/ ImportCmd(p, f) \/ RollbackCmd(p, f) \/ DeleteCmd(p, f)
        \/ Create(p, f) \/ DeleteEnv(p, f)
        \/ \E dest \in Paths : Clone(p, f, dest)

Next ==
    \E p \in Procs :
        \/ Command(p)
        \/ Stat(p) \/ LoadAndApply(p) \/ LoadFails(p) \/ RemoveFile(p)
        \/ OpenTmp(p) \/ Write(p) \/ Rename(p) \/ RenameFails(p) \/ RemoveTmp(p)
        \/ Crash(p)

Spec == Init /\ [][Next]_vars

------------------------------------------------------------------------------
(* Properties.                                                             *)

Slots == [version : Nat, value : Nat, history : Seq([version : Nat \ {0}, value : Nat])]
SecretFiles == [Keys -> Slots]

\* Every variable keeps its type; versions in a history are positive.
TypeOK ==
    /\ file \in [Paths -> Inodes \cup {Nil}]
    /\ tmp \in [Paths -> Inodes \cup {Nil}]
    /\ \A i \in Inodes : /\ data[i].state \in {"empty", "torn", "whole"}
                       /\ data[i].slots \in SecretFiles
    /\ pc \in [Procs -> {"idle", "stat", "load", "remove", "open", "write",
                         "rename", "cleanup"}]
    /\ \A p \in Procs : sf[p] \in SecretFiles
    /\ fd \in [Procs -> Inodes \cup {Nil}]
    /\ alone \in [Procs -> BOOLEAN]

\* The file of an environment is always a whole one, wherever a process is
\* killed: "Save encrypts and writes a SecretFile atomically (write to tmp,
\* then rename)", internal/store/store.go:84.  It does not hold: two processes
\* that save the same file at once share path.tmp, and one may rename what
\* the other has truncated.
FilesAreWhole == \A f \in Paths : Readable(f)

\* In every file, a live secret is the newest entry of its history, which
\* the cap does not cut off.
HistoryEndsWithLive ==
    \A f \in Paths, k \in Keys :
        LET h == Load(f)[k].history
        IN  /\ Len(h) <= MaxHistory
            /\ Load(f)[k].version # 0 =>
                 /\ h # <<>>
                 /\ h[Len(h)] = [version |-> Load(f)[k].version,
                                 value |-> Load(f)[k].value]

\* A command that ran with no other changes its own path only, at once, to
\* a whole file with the result of that command on what its source held,
\* whatever killed or racing commands left behind.
AloneCommandsAreAtomic ==
    [][\A p \in Procs : alone[p] /\ pc[p] # "idle" =>
         \A f \in Paths :
            file'[f] # file[f] \/ Load(f)' # Load(f) \/ Readable(f)' # Readable(f) =>
                /\ f = cmd[p].path
                /\ Readable(f)'
                /\ \/ cmd[p].kind = "drop" /\ file'[f] = Nil
                   \/ cmd[p].kind = "create" /\ Load(f)' = NewSecretFile
                   \/ /\ Applies(cmd[p], Load(cmd[p].source))
                      /\ Load(f)' = Apply(cmd[p], Load(cmd[p].source))]_vars
=============================================================================

------------------------------ MODULE MasterKey ------------------------------
(***************************************************************************)
(* The master key of the local store (internal/crypto/key.go, engine.go):  *)
(* every process reads ~/.foostash/master.key before its command, or       *)
(* generates a key and writes the file, and seals and opens the files of   *)
(* LocalStore with what it got.  Nothing locks the key's file either, and  *)
(* it is written in place.                                                 *)
(*                                                                         *)
(* FOOSTASH_MASTER_KEY, which takes the place of the file, is not set.     *)
(***************************************************************************)
EXTENDS LocalStore

CONSTANT MaxKeys       \* bound: keys generated in one behaviour

VARIABLES keyFile,     \* master.key: whether it exists, and its key (0: empty)
          startup,     \* startup[p]: how far p is before its command
          engine,      \* engine[p]: the key p seals and opens with (0: none)
          sealed,      \* sealed[i]: the key under which inode i was sealed
          generated,   \* number of keys generated so far
          contested    \* auxiliary: keys of first runs that overlapped, any of which
                       \* may be lost

keyVars == <<keyFile, startup, engine, sealed, generated, contested>>
keyedVars == <<vars, keyVars>>

Generating == {p \in Procs : startup[p] \in {"create", "write"}}

\* When the last first run is over, the key it leaves in master.key is safe.
Settle(p) ==
    contested' = IF Generating \subseteq {p} THEN contested \ {keyFile'.key} ELSE contested

KeyInit ==
    /\ Init
    /\ keyFile = [exists |-> FALSE, key |-> 0]
    /\ startup = [p \in Procs |-> "none"]
    /\ engine = [p \in Procs |-> 0]
    /\ sealed = [i \in Inodes |-> 0]
    /\ generated = 0
    /\ contested = {}

------------------------------------------------------------------------------
(* Before the command.                                                     *)

Begins(p) ==
    /\ startup[p] = "none"
    /\ issued < MaxCommands
    /\ UNCHANGED <<vars, keyFile, sealed>>

\* An empty or short key is an error of NewEngine: the command ends here.
ReadKey(p) ==
    /\ Begins(p)
    /\ keyFile.exists /\ keyFile.key # 0
    /\ startup' = [startup EXCEPT ![p] = "ready"]
    /\ engine' = [engine EXCEPT ![p] = keyFile.key]
    /\ UNCHANGED <<generated, contested>>

GenerateKey(p) ==
    /\ Begins(p)
    /\ ~keyFile.exists
    /\ generated < MaxKeys
    /\ generated' = generated + 1
    /\ engine' = [engine EXCEPT ![p] = generated + 1]
    /\ startup' = [startup EXCEPT ![p] = "create"]
    /\ contested' = IF Generating = {} THEN contested
                    ELSE contested \cup {engine[q] : q \in Generating} \cup {generated + 1}

\* os.WriteFile creates or truncates the file, then writes it.
CreateKeyFile(p) ==
    /\ startup[p] = "create"
    /\ keyFile' = [exists |-> TRUE, key |-> 0]
    /\ startup' = [startup EXCEPT ![p] = "write"]
    /\ UNCHANGED <<vars, engine, sealed, generated, contested>>

WriteKeyFile(p) ==
    /\ startup[p] = "write"
    /\ keyFile' = [exists |-> TRUE, key |-> engine[p]]
    /\ startup' = [startup EXCEPT ![p] = "ready"]
    /\ Settle(p)
    /\ UNCHANGED <<vars, engine, sealed, generated>>

Forget(p) ==
    /\ startup' = [startup EXCEPT ![p] = "none"]
    /\ engine' = [engine EXCEPT ![p] = 0]

\* Mutant: the error of the write is ignored, and the key used.
Exit_KeepsKey(p) ==
    /\ pc[p] = "idle" /\ startup[p] \in {"create", "write"}
    /\ startup' = [startup EXCEPT ![p] = "ready"]
    /\ UNCHANGED <<vars, keyFile, engine, sealed, generated, contested>>

\* The write fails or the process is killed; or its command reads only.
Exit(p) ==
    /\ pc[p] = "idle" /\ startup[p] # "none"
    /\ Forget(p)
    /\ UNCHANGED <<vars, keyFile, sealed, generated>>
    /\ Settle(p)

------------------------------------------------------------------------------
(* The command, with the key p has got.                                    *)

Opens(p, f) == file[f] # Nil => sealed[file[f]] = engine[p]

KeyedCommand(p) ==
    /\ startup[p] = "ready"
    /\ Command(p)
    /\ UNCHANGED keyVars

KeyedLoad(p) ==
    /\ LoadAndApply(p) /\ Opens(p, cmd[p].source)
    /\ UNCHANGED keyVars

\* GCM refuses to open a file that was sealed with another key.
KeyedLoadFails(p) ==
    /\ \/ LoadFails(p)
       \/ pc[p] = "load" /\ ~Opens(p, cmd[p].source) /\ Abort(p)
    /\ Forget(p)
    /\ UNCHANGED <<keyFile, sealed, generated, contested>>

KeyedWrite(p) ==
    /\ Write(p)
    /\ sealed' = [sealed EXCEPT ![fd[p]] = engine[p]]
    /\ UNCHANGED <<keyFile, startup, engine, generated, contested>>

Elsewise(p) ==
    /\ \/ Stat(p) \/ RemoveFile(p) \/ OpenTmp(p)
       \/ Rename(p) \/ RenameFails(p) \/ RemoveTmp(p) \/ Crash(p)
    /\ IF pc'[p] = "idle" THEN Forget(p) ELSE UNCHANGED <<startup, engine>>
    /\ UNCHANGED <<keyFile, sealed, generated, contested>>

KeyedProc(p) ==
    \/ ReadKey(p) \/ GenerateKey(p) \/ CreateKeyFile(p) \/ WriteKeyFile(p) \/ Exit(p)
    \/ KeyedCommand(p) \/ KeyedLoad(p) \/ KeyedLoadFails(p) \/ KeyedWrite(p)
    \/ Elsewise(p)

KeyedNext == \E p \in Procs : KeyedProc(p)

KeyedSpec == KeyInit /\ [][KeyedNext]_keyedVars

------------------------------------------------------------------------------
(* Properties.                                                             *)

\* What is stored can be opened: every file was sealed with the key that
\* master.key holds, except with a key of first runs that overlapped, for as
\* long as they are not over or if master.key holds another's when they are
\* ("Losing it means losing local data", docs/security.md:4).  So a race of
\* first runs costs what was sealed during it at most: whatever is sealed with
\* the key they left behind can be opened for ever, and so can what a first
\* run seals after others that gave up.  A first run that is killed half-way
\* leaves an empty key, which stops every command, but no file sealed with a
\* key that is gone.
FilesOpenWithTheKey ==
    \A f \in Paths :
        (file[f] # Nil /\ data[file[f]].state = "whole" /\ sealed[file[f]] \notin contested)
            => (keyFile.exists /\ sealed[file[f]] = keyFile.key)
==============================================================================

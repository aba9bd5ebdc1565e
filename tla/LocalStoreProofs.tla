--------------------------- MODULE LocalStoreProofs ---------------------------
(***************************************************************************)
(* Proofs, for any number of files, keys and processes: a secret is the    *)
(* newest entry of its capped history, a command that runs alone happens   *)
(* at once or not at all, and what is stored can be opened with the master *)
(* key unless two first runs raced for it.  At the end, for any number of  *)
(* plans and apply calls: the containers of a provisioned server are only  *)
(* created with the password of the volume, and that password stays in the *)
(* compose file, unless two plans both found no file or a call is cut      *)
(* short between truncating the file and writing it.                       *)
(***************************************************************************)
EXTENDS MasterKey, Provisioning, SequenceTheorems, WellFoundedInduction, TLAPS

------------------------------------------------------------------------------
(* Histories.                                                              *)

Entry == [version : Nat \ {0}, value : Nat]

\* A live secret is the newest entry of its history, which fits the cap.
SlotOK(s) ==
    /\ s \in Slots
    /\ Len(s.history) <= MaxHistory
    /\ s.version # 0 => /\ s.history # <<>>
                        /\ s.history[Len(s.history)] =
                             [version |-> s.version, value |-> s.value]

FileOK(s) == s \in SecretFiles /\ \A k \in Keys : SlotOK(s[k])

\* The cap keeps the newest entry.
LEMMA CappedKeepsNewest ==
    ASSUME NEW h \in Seq(Entry), h # <<>>
    PROVE  /\ Capped(h) \in Seq(Entry) /\ Capped(h) # <<>>
           /\ Len(Capped(h)) <= MaxHistory
           /\ Capped(h)[Len(Capped(h))] = h[Len(h)]
<1>1. Len(h) \in Nat /\ Len(h) >= 1 /\ \A i \in 1..Len(h) : h[i] \in Entry
  OBVIOUS
<1>2. CASE Len(h) <= MaxHistory
  BY <1>1, <1>2, MaxHistoryAssumption DEF Capped
<1>3. CASE Len(h) > MaxHistory
  <2> DEFINE m == Len(h) - MaxHistory + 1
             g == SubSeq(h, m, Len(h))
  <2>1. m \in Int /\ m \in 1..Len(h)
    BY <1>1, <1>3, MaxHistoryAssumption
  <2>2. /\ g \in Seq(Entry) /\ Len(g) = Len(h) - m + 1
        /\ \A i \in 1..(Len(h) - m + 1) : g[i] = h[m + i - 1]
    <3>1. \A i \in m..Len(h) : h[i] \in Entry
      BY <1>1, <2>1
    <3>2. Len(h) \in Int /\ m <= Len(h)
      BY <1>1, <2>1
    <3> HIDE DEF m
    <3>3. QED
      BY <2>1, <3>1, <3>2, SubSeqProperties
  <2>3. Capped(h) = g
    BY <1>3 DEF Capped
  <2>4. Len(h) - m + 1 = MaxHistory
    BY <1>1, MaxHistoryAssumption
  <2> HIDE DEF g
  <2>5. g[MaxHistory] = h[Len(h)]
    BY <1>1, <2>2, <2>4, MaxHistoryAssumption
  <2>6. QED
    BY <2>2, <2>3, <2>4, <2>5, MaxHistoryAssumption
<1>4. QED
  BY <1>1, <1>2, <1>3, MaxHistoryAssumption

LEMMA SlotTypes == Slots = [version : Nat, value : Nat, history : Seq(Entry)]
  BY DEF Slots, Entry

\* What set and rollback store.
LEMMA StoredIsOK ==
    ASSUME NEW s, SlotOK(s), NEW v \in Nat
    PROVE  SlotOK(Stored(s, v))
<1> DEFINE entry == [version |-> s.version + 1, value |-> v]
           h == Append(s.history, entry)
<1>1. s.history \in Seq(Entry) /\ s.version \in Nat
  BY SlotTypes DEF SlotOK
<1>2. entry \in Entry
  BY <1>1 DEF Entry
<1>3. h \in Seq(Entry) /\ h # <<>> /\ h[Len(h)] = entry
  <2> HIDE DEF entry
  <2>1. QED
    BY <1>1, <1>2, AppendProperties
<1>4. Stored(s, v) = [version |-> s.version + 1, value |-> v, history |-> Capped(h)]
  BY DEF Stored, NextVersion
<1> HIDE DEF h
<1>5. /\ Capped(h) \in Seq(Entry) /\ Capped(h) # <<>> /\ Len(Capped(h)) <= MaxHistory
      /\ Capped(h)[Len(Capped(h))] = entry
  BY <1>3, CappedKeepsNewest
<1>6. QED
  BY <1>1, <1>4, <1>5, SlotTypes DEF SlotOK

\* What delete leaves of a key is its history.
LEMMA DeletedIsOK ==
    ASSUME NEW s, SlotOK(s)
    PROVE  SlotOK(Deleted(s))
<1>1. s \in [version : Nat, value : Nat, history : Seq(Entry)]
  BY SlotTypes DEF SlotOK
<1>2. /\ Deleted(s) \in [version : Nat, value : Nat, history : Seq(Entry)]
      /\ Deleted(s).version = 0 /\ Deleted(s).history = s.history
  <2> HIDE DEF Entry
  <2> DEFINE S == Seq(Entry)
  <2>1. s \in [version : Nat, value : Nat, history : S]
    BY <1>1
  <2> HIDE DEF S
  <2>2. QED
    BY <2>1 DEF Deleted, S
<1>3. QED
  BY <1>2, SlotTypes DEF SlotOK

\* A set of natural numbers has a smallest one.
LEMMA Smallest ==
    ASSUME NEW S \in SUBSET Nat, S # {}
    PROVE  \E i \in S : \A j \in S : i <= j
<1> DEFINE Less == {ss \in Nat \X Nat : ss[1] < ss[2]}
<1>1. IsWellFoundedOn(Less, Nat)
  BY NatLessThanWellFounded DEF OpToRel
<1>2. PICK i \in S : \A j \in S : <<j, i>> \notin Less
  <2> HIDE DEF Less
  <2>1. QED
    BY <1>1, WFMin
<1>3. \A j \in S : ~(j < i)
  BY <1>2
<1>4. \A j \in S : i <= j
  BY <1>3
<1>5. QED
  BY <1>4

\* The first entry with a version is there when some entry has it.
LEMMA TargetExists ==
    ASSUME NEW s, SlotOK(s), NEW v \in Nat,
           \E i \in DOMAIN s.history : s.history[i].version = v
    PROVE  Target(s, v) \in DOMAIN s.history
<1> DEFINE S == {i \in DOMAIN s.history : s.history[i].version = v}
<1>1. s.history \in Seq(Entry)
  BY SlotTypes DEF SlotOK
<1>2. S \in SUBSET Nat /\ S # {}
  BY <1>1
<1>3. PICK i \in S : \A j \in S : i <= j
  <2> HIDE DEF S
  <2>1. QED
    BY <1>2, Smallest
<1>4. i \in DOMAIN s.history /\ i \in Nat /\ s.history[i].version = v
  BY <1>1, <1>3
<1>5. \A j \in 1..i - 1 : s.history[j].version # v
  BY <1>1, <1>3, <1>4
<1>6. QED
  BY <1>4, <1>5 DEF Target

\* A store is in order when each of its slots is.
LEMMA SlotsMakeAFile ==
    ASSUME NEW f, f = [k \in Keys |-> f[k]], \A k \in Keys : SlotOK(f[k])
    PROVE  FileOK(f)
<1>1. \A k \in Keys : f[k] \in Slots
  BY DEF SlotOK
<1>2. f \in SecretFiles
  BY <1>1 DEF SecretFiles
<1>3. QED
  BY <1>2 DEF FileOK

\* Every command leaves histories in order.
LEMMA ApplyIsOK ==
    ASSUME NEW c, c.id \in Nat, c.target \in Nat,
           NEW s, FileOK(s), Applies(c, s)
    PROVE  FileOK(Apply(c, s))
<1>1. CASE c.kind = "set"
  <2>1. Apply(c, s) = [k \in Keys |-> IF k \in c.keys THEN Stored(s[k], c.id) ELSE s[k]]
    BY <1>1 DEF Apply
  <2>2. \A k \in Keys : SlotOK(s[k]) /\ SlotOK(Stored(s[k], c.id))
    BY StoredIsOK DEF FileOK
  <2> DEFINE f == Apply(c, s)
  <2>3. f = [k \in Keys |-> f[k]] /\ \A k \in Keys : SlotOK(f[k])
    BY <2>1, <2>2
  <2>4. QED
    BY <2>3, SlotsMakeAFile
<1>2. CASE c.kind = "rollback"
  <2>1. Apply(c, s) = [k \in Keys |-> IF k \in c.keys
             THEN Stored(s[k], s[k].history[Target(s[k], c.target)].value) ELSE s[k]]
    BY <1>2 DEF Apply
  <2>2. ASSUME NEW k \in Keys, k \in c.keys
        PROVE  SlotOK(Stored(s[k], s[k].history[Target(s[k], c.target)].value))
    <3>1. \E i \in DOMAIN s[k].history : s[k].history[i].version = c.target
      BY <1>2, <2>2 DEF Applies
    <3>2. SlotOK(s[k]) /\ s[k].history \in Seq(Entry)
      BY SlotTypes DEF FileOK, SlotOK
    <3>3. Target(s[k], c.target) \in DOMAIN s[k].history
      BY <3>1, <3>2, TargetExists
    <3> DEFINE h == s[k].history
               i == Target(s[k], c.target)
    <3>4. h[i].value \in Nat
      <4>1. h \in Seq(Entry) /\ i \in DOMAIN h
        BY <3>2, <3>3
      <4> HIDE DEF h, i
      <4>2. h[i] \in Entry
        BY <4>1
      <4>3. QED
        BY <4>2 DEF Entry
    <3>5. QED
      BY <3>2, <3>4, StoredIsOK
  <2>3. \A k \in Keys : SlotOK(s[k])
    BY DEF FileOK
  <2> DEFINE f == Apply(c, s)
  <2>4. f = [k \in Keys |-> f[k]] /\ \A k \in Keys : SlotOK(f[k])
    BY <2>1, <2>2, <2>3
  <2>5. QED
    BY <2>4, SlotsMakeAFile
<1>3. CASE c.kind = "delete"
  <2>1. Apply(c, s) = [k \in Keys |-> IF k \in c.keys THEN Deleted(s[k]) ELSE s[k]]
    BY <1>3 DEF Apply
  <2>2. ASSUME NEW k \in Keys
        PROVE  SlotOK(Deleted(s[k]))
    <3>1. SlotOK(s[k])
      BY DEF FileOK
    <3>2. QED
      BY <3>1, DeletedIsOK
  <2>3. \A k \in Keys : SlotOK(s[k])
    BY DEF FileOK
  <2> DEFINE f == Apply(c, s)
  <2>4. f = [k \in Keys |-> f[k]] /\ \A k \in Keys : SlotOK(f[k])
    BY <2>1, <2>2, <2>3
  <2>5. QED
    BY <2>4, SlotsMakeAFile
<1>4. CASE c.kind \notin {"set", "rollback", "delete"}
  BY <1>4 DEF Apply
<1>5. QED
  BY <1>1, <1>2, <1>3, <1>4

LEMMA NewFileIsOK == FileOK(NewSecretFile)
  BY MaxHistoryAssumption DEF FileOK, SlotOK, SecretFiles, Slots, NewSecretFile, EmptySlot

------------------------------------------------------------------------------
(* Types and histories, in every interleaving and after every kill.         *)

Contents == [state : {"empty", "torn", "whole"}, slots : SecretFiles]
Kinds == {"none", "set", "rollback", "delete", "create", "clone", "drop"}
CmdTypes == [id : Nat, kind : Kinds, path : Paths \cup {Nil},
             source : Paths \cup {Nil}, keys : SUBSET Keys, target : Nat]

Typed ==
    /\ file \in [Paths -> Inodes \cup {Nil}]
    /\ tmp \in [Paths -> Inodes \cup {Nil}]
    /\ data \in [Inodes -> Contents]
    /\ pc \in [Procs -> {"idle", "stat", "load", "remove", "open", "write",
                         "rename", "cleanup"}]
    /\ cmd \in [Procs -> CmdTypes]
    /\ sf \in [Procs -> SecretFiles]
    /\ fd \in [Procs -> Inodes \cup {Nil}]
    /\ issued \in Nat
    /\ alone \in [Procs -> BOOLEAN]

Placed ==
    \A p \in Procs :
        /\ pc[p] # "idle" => cmd[p].path \in Paths
        /\ pc[p] = "load" => cmd[p].source \in Paths
        /\ pc[p] = "load" => cmd[p].kind \in {"set", "rollback", "delete", "clone"}
        /\ pc[p] = "stat" => cmd[p].kind \in {"create", "clone"}
        /\ pc[p] = "stat" /\ cmd[p].kind = "clone" => cmd[p].source \in Paths
        /\ pc[p] = "remove" => cmd[p].kind = "drop"
        /\ pc[p] = "write" => fd[p] \in Inodes
        /\ pc[p] \in {"idle", "stat"} => sf[p] = NewSecretFile

Ordered ==
    /\ \A i \in Inodes : FileOK(data[i].slots)
    /\ \A p \in Procs : FileOK(sf[p])

IndInv == Typed /\ Placed /\ Ordered

LEMMA ContentsTypes ==
    /\ Empty \in Contents /\ Torn \in Contents
    /\ FileOK(Empty.slots) /\ FileOK(Torn.slots)
    /\ \A s : FileOK(s) => Whole(s) \in Contents /\ Whole(s).slots = s
<1>1. NewSecretFile \in SecretFiles
  BY NewFileIsOK DEF FileOK
<1>2. QED
  BY <1>1, NewFileIsOK DEF Empty, Torn, Whole, Contents, FileOK

LEMMA InitInv == Init => IndInv
<1> SUFFICES ASSUME Init PROVE IndInv
  OBVIOUS
<1>1. Typed
  BY ContentsTypes, NewFileIsOK DEF Init, Typed, Idle, CmdTypes, Kinds, FileOK
<1>2. Placed
  BY DEF Init, Placed
<1>3. Ordered
  BY ContentsTypes, NewFileIsOK DEF Init, Ordered
<1>4. QED
  BY <1>1, <1>2, <1>3 DEF IndInv

LEMMA StutterInv == IndInv /\ UNCHANGED vars => IndInv'
<1> SUFFICES ASSUME IndInv, UNCHANGED vars PROVE IndInv'
  OBVIOUS
<1> USE DEF vars
<1>1. Typed'
  BY DEF IndInv, Typed
<1>2. Placed'
  BY DEF IndInv, Placed
<1>3. Ordered'
  BY DEF IndInv, Ordered
<1>4. QED
  BY <1>1, <1>2, <1>3 DEF IndInv

\* Starting a command.
LEMMA StartInv ==
    ASSUME IndInv, NEW p \in Procs, NEW first, NEW c \in CmdTypes, Start(p, first, c),
           first \in {"stat", "load", "remove"}, c.path \in Paths,
           first = "load" => /\ c.source \in Paths
                             /\ c.kind \in {"set", "rollback", "delete", "clone"},
           first = "stat" => c.kind \in {"create", "clone"},
           first = "stat" /\ c.kind = "clone" => c.source \in Paths,
           first = "remove" => c.kind = "drop"
    PROVE  IndInv'
<1> DEFINE d == [c EXCEPT !.id = issued + 1]
<1>1. d \in CmdTypes /\ d.path = c.path /\ d.source = c.source /\ d.kind = c.kind
  <2>1. issued + 1 \in Nat
    BY DEF IndInv, Typed
  <2>2. /\ c.kind \in Kinds /\ c.path \in Paths \cup {Nil} /\ c.source \in Paths \cup {Nil}
        /\ c.keys \in SUBSET Keys /\ c.target \in Nat
    BY DEF CmdTypes
  <2>3. d = [id |-> issued + 1, kind |-> c.kind, path |-> c.path,
             source |-> c.source, keys |-> c.keys, target |-> c.target]
    BY DEF CmdTypes
  <2>4. QED
    BY <2>1, <2>2, <2>3 DEF CmdTypes
<1>2. cmd' = [cmd EXCEPT ![p] = d] /\ pc' = [pc EXCEPT ![p] = first] /\ pc[p] = "idle"
  BY DEF Start
<1>3. UNCHANGED <<file, tmp, data, sf, fd>> /\ issued' = issued + 1
  BY DEF Start
<1> HIDE DEF d
<1>4. Typed'
  <2>1. alone' \in [Procs -> BOOLEAN]
    BY DEF Start, IndInv, Typed
  <2>2. /\ cmd' \in [Procs -> CmdTypes] /\ issued' \in Nat
        /\ pc' \in [Procs -> {"idle", "stat", "load", "remove", "open", "write",
                             "rename", "cleanup"}]
    BY <1>1, <1>2, <1>3 DEF IndInv, Typed
  <2>3. QED
    BY <1>3, <2>1, <2>2 DEF IndInv, Typed
<1>5. Placed'
  BY <1>1, <1>2, <1>3 DEF IndInv, Typed, Placed
<1>6. Ordered'
  BY <1>3 DEF IndInv, Ordered
<1>7. QED
  BY <1>4, <1>5, <1>6 DEF IndInv

LEMMA CommandInv ==
    ASSUME IndInv, NEW p \in Procs, Command(p)
    PROVE  IndInv'
<1>1. ASSUME NEW f \in Paths, NEW K \in SUBSET Keys, Set(p, f, K) PROVE IndInv'
  <2> DEFINE c == [Idle EXCEPT !.kind = "set", !.path = f, !.source = f, !.keys = K]
  <2>1. c \in CmdTypes /\ c.kind = "set" /\ c.path = f /\ c.source = f
    BY DEF CmdTypes, Kinds, Idle
  <2>2. Start(p, "load", c)
    BY <1>1 DEF Set
  <2> HIDE DEF c
  <2>3. QED
    BY <2>1, <2>2, StartInv
<1>2. ASSUME NEW f \in Paths, NEW k \in Keys, NEW v \in Nat, Rollback(p, f, k, v)
      PROVE  IndInv'
  <2> DEFINE c == [Idle EXCEPT !.kind = "rollback", !.path = f, !.source = f,
                               !.keys = {k}, !.target = v]
  <2>1. c \in CmdTypes /\ c.kind = "rollback" /\ c.path = f /\ c.source = f
    BY DEF CmdTypes, Kinds, Idle
  <2>2. Start(p, "load", c)
    BY <1>2 DEF Rollback
  <2> HIDE DEF c
  <2>3. QED
    BY <2>1, <2>2, StartInv
<1>3. ASSUME NEW f \in Paths, NEW k \in Keys, Delete(p, f, k) PROVE IndInv'
  <2> DEFINE c == [Idle EXCEPT !.kind = "delete", !.path = f,
                               !.source = f, !.keys = {k}]
  <2>1. c \in CmdTypes /\ c.kind = "delete" /\ c.path = f /\ c.source = f
    BY DEF CmdTypes, Kinds, Idle
  <2>2. Start(p, "load", c)
    BY <1>3 DEF Delete
  <2> HIDE DEF c
  <2>3. QED
    BY <2>1, <2>2, StartInv
<1>4. ASSUME NEW f \in Paths, Create(p, f) PROVE IndInv'
  <2> DEFINE c == [Idle EXCEPT !.kind = "create", !.path = f]
  <2>1. c \in CmdTypes /\ c.kind = "create" /\ c.path = f
    BY DEF CmdTypes, Kinds, Idle
  <2>2. Start(p, "stat", c)
    BY <1>4 DEF Create
  <2> HIDE DEF c
  <2>3. QED
    BY <2>1, <2>2, StartInv
<1>5. ASSUME NEW f \in Paths, NEW dest \in Paths, Clone(p, f, dest) PROVE IndInv'
  <2> DEFINE c == [Idle EXCEPT !.kind = "clone", !.path = dest, !.source = f]
  <2>1. c \in CmdTypes /\ c.kind = "clone" /\ c.path = dest /\ c.source = f
    BY DEF CmdTypes, Kinds, Idle
  <2>2. Start(p, "stat", c)
    BY <1>5 DEF Clone
  <2> HIDE DEF c
  <2>3. QED
    BY <2>1, <2>2, StartInv
<1>6. ASSUME NEW f \in Paths, DeleteEnv(p, f) PROVE IndInv'
  <2> DEFINE c == [Idle EXCEPT !.kind = "drop", !.path = f]
  <2>1. c \in CmdTypes /\ c.kind = "drop" /\ c.path = f
    BY DEF CmdTypes, Kinds, Idle
  <2>2. Start(p, "remove", c)
    BY <1>6 DEF DeleteEnv
  <2> HIDE DEF c
  <2>3. QED
    BY <2>1, <2>2, StartInv
<1>7. \A v \in 1..MaxCommands : v \in Nat
  OBVIOUS
<1>8. QED
  BY <1>1, <1>2, <1>3, <1>4, <1>5, <1>6, <1>7 DEF Command, SetCmd, ImportCmd, RollbackCmd, DeleteCmd

\* Ending one, however it ends.
LEMMA FinishInv ==
    ASSUME IndInv, NEW p \in Procs, Finish(p),
           file' \in [Paths -> Inodes \cup {Nil}], tmp' \in [Paths -> Inodes \cup {Nil}],
           \/ UNCHANGED data
           \/ pc[p] = "write" /\ data' = [data EXCEPT ![fd[p]] = Torn]
    PROVE  IndInv'
<1>1. /\ pc' = [pc EXCEPT ![p] = "idle"] /\ cmd' = [cmd EXCEPT ![p] = Idle]
      /\ sf' = [sf EXCEPT ![p] = NewSecretFile] /\ fd' = [fd EXCEPT ![p] = Nil]
      /\ UNCHANGED <<issued, alone>>
  BY DEF Finish
<1>2. Idle \in CmdTypes
  BY DEF Idle, CmdTypes, Kinds
<1>3. /\ data' \in [Inodes -> Contents]
      /\ \A i \in Inodes : data'[i] = data[i] \/ data'[i] = Torn
  BY ContentsTypes DEF IndInv, Typed
<1>4. Typed'
  BY <1>1, <1>2, <1>3, NewFileIsOK DEF IndInv, Typed, FileOK
<1>5. Placed'
  BY <1>1 DEF IndInv, Typed, Placed
<1>6. Ordered'
  BY <1>1, <1>3, NewFileIsOK, ContentsTypes DEF IndInv, Typed, Ordered
<1>7. QED
  BY <1>4, <1>5, <1>6 DEF IndInv

\* Opening path.tmp, the inode it has or a new one.
LEMMA OpenInv ==
    ASSUME IndInv, NEW p \in Procs, OpenTmp(p)
    PROVE  IndInv'
<1>1. /\ pc[p] = "open" /\ cmd[p].path \in Paths
      /\ pc' = [pc EXCEPT ![p] = "write"] /\ UNCHANGED <<cmd, issued, alone, file, sf>>
  BY DEF OpenTmp, OpenNew, GoTo, IndInv, Placed
<1>2. PICK i \in Inodes : /\ fd' = [fd EXCEPT ![p] = i] /\ data' = [data EXCEPT ![i] = Empty]
                         /\ tmp' \in [Paths -> Inodes \cup {Nil}]
  <2>1. CASE tmp[cmd[p].path] # Nil
    <3>1. tmp[cmd[p].path] \in Inodes
      BY <1>1, <2>1 DEF IndInv, Typed
    <3>2. QED
      BY <2>1, <3>1 DEF OpenTmp, OpenNew, IndInv, Typed
  <2>2. CASE tmp[cmd[p].path] = Nil
    <3>1. PICK i \in Unused : OpenNew(p, i) /\ tmp' = [tmp EXCEPT ![cmd[p].path] = i]
      BY <2>2 DEF OpenTmp
    <3>2. i \in Inodes
      BY DEF Unused
    <3>3. QED
      BY <1>1, <3>1, <3>2 DEF OpenNew, IndInv, Typed
  <2>3. QED
    BY <2>1, <2>2
<1>3. Typed'
  BY <1>1, <1>2, ContentsTypes DEF IndInv, Typed
<1>4. Placed'
  BY <1>1, <1>2 DEF IndInv, Typed, Placed
<1>5. Ordered'
  BY <1>1, <1>2, ContentsTypes DEF IndInv, Typed, Ordered
<1>6. QED
  BY <1>3, <1>4, <1>5 DEF IndInv

LEMMA WriteInv ==
    ASSUME IndInv, NEW p \in Procs, Write(p)
    PROVE  IndInv'
<1>1. /\ pc[p] = "write" /\ fd[p] \in Inodes /\ fd' = [fd EXCEPT ![p] = Nil]
      /\ pc' = [pc EXCEPT ![p] = "rename"]
      /\ UNCHANGED <<cmd, issued, alone, file, tmp, sf>>
  BY DEF Write, GoTo, IndInv, Placed
<1>2. FileOK(sf[p])
  BY DEF IndInv, Ordered
<1>3. /\ data' \in [Inodes -> Contents]
      /\ \A i \in Inodes : \/ data'[i] = data[i]
                           \/ data'[i] = Torn
                           \/ data'[i] = Whole(sf[p])
  BY <1>1, <1>2, ContentsTypes DEF Write, IndInv, Typed
<1>4. Typed'
  BY <1>1, <1>3 DEF IndInv, Typed
<1>5. Placed'
  BY <1>1 DEF IndInv, Typed, Placed
<1>6. Ordered'
  BY <1>1, <1>2, <1>3, ContentsTypes DEF IndInv, Ordered
<1>7. QED
  BY <1>4, <1>5, <1>6 DEF IndInv

LEMMA LoadIsOK ==
    ASSUME IndInv, NEW f \in Paths
    PROVE  FileOK(Load(f))
  BY NewFileIsOK DEF IndInv, Typed, Ordered, Load

LEMMA LoadInv ==
    ASSUME IndInv, NEW p \in Procs, LoadAndApply(p)
    PROVE  IndInv'
<1> DEFINE s == Load(cmd[p].source)
           r == Apply(cmd[p], s)
<1>1. /\ pc[p] = "load" /\ cmd[p].source \in Paths
      /\ sf' = [sf EXCEPT ![p] = r] /\ pc' = [pc EXCEPT ![p] = "open"]
      /\ UNCHANGED <<cmd, issued, alone, file, tmp, data, fd>>
  BY DEF LoadAndApply, GoTo, IndInv, Placed
<1>2. FileOK(r)
  <2>1. FileOK(s) /\ Applies(cmd[p], s)
    BY <1>1, LoadIsOK DEF LoadAndApply
  <2>2. cmd[p].id \in Nat /\ cmd[p].target \in Nat
    BY DEF IndInv, Typed, CmdTypes
  <2> HIDE DEF s
  <2>3. QED
    BY <2>1, <2>2, ApplyIsOK
<1> HIDE DEF r
<1>3. Typed'
  BY <1>1, <1>2 DEF IndInv, Typed, FileOK
<1>4. Placed'
  BY <1>1 DEF IndInv, Typed, Placed
<1>5. Ordered'
  BY <1>1, <1>2 DEF IndInv, Typed, Ordered
<1>6. QED
  BY <1>3, <1>4, <1>5 DEF IndInv

\* The steps that only move the process.
LEMMA GoToInv ==
    ASSUME IndInv, NEW p \in Procs, (Stat(p) /\ file[cmd[p].path] = Nil) \/ RenameFails(p)
    PROVE  IndInv'
<1>1. PICK next \in {"load", "open", "cleanup"} :
        /\ pc' = [pc EXCEPT ![p] = next] /\ pc[p] \in {"stat", "rename"}
        /\ next = "load" => pc[p] = "stat" /\ cmd[p].kind = "clone"
        /\ UNCHANGED <<cmd, issued, alone, file, tmp, data, sf, fd>>
  BY DEF Stat, RenameFails, GoTo
<1>2. Typed'
  BY <1>1 DEF IndInv, Typed
<1>3. Placed'
  BY <1>1 DEF IndInv, Typed, Placed
<1>4. Ordered'
  BY <1>1 DEF IndInv, Ordered
<1>5. QED
  BY <1>2, <1>3, <1>4 DEF IndInv

LEMMA NextInv == IndInv /\ [Next]_vars => IndInv'
<1> SUFFICES ASSUME IndInv, [Next]_vars PROVE IndInv'
  OBVIOUS
<1>1. CASE UNCHANGED vars
  BY <1>1, StutterInv
<1>2. CASE Next
  <2>1. PICK p \in Procs :
          \/ Command(p)
          \/ Stat(p) \/ LoadAndApply(p) \/ LoadFails(p) \/ RemoveFile(p)
          \/ OpenTmp(p) \/ Write(p) \/ Rename(p) \/ RenameFails(p) \/ RemoveTmp(p)
          \/ Crash(p)
    BY <1>2 DEF Next
  <2>2. /\ file \in [Paths -> Inodes \cup {Nil}] /\ tmp \in [Paths -> Inodes \cup {Nil}]
        /\ pc[p] # "idle" => cmd[p].path \in Paths
    BY DEF IndInv, Typed, Placed
  <2>3. CASE Command(p)
    BY <2>3, CommandInv
  <2>4. CASE Stat(p)
    BY <2>2, <2>4, GoToInv, FinishInv DEF Stat, Abort
  <2>5. CASE LoadAndApply(p)
    BY <2>5, LoadInv
  <2>6. CASE LoadFails(p)
    BY <2>2, <2>6, FinishInv DEF LoadFails, Abort
  <2>7. CASE RemoveFile(p)
    <3>1. file' \in [Paths -> Inodes \cup {Nil}]
      BY <2>2, <2>7 DEF RemoveFile
    <3>2. QED
      BY <2>2, <2>7, <3>1, FinishInv DEF RemoveFile
  <2>8. CASE OpenTmp(p)
    BY <2>8, OpenInv
  <2>9. CASE Write(p)
    BY <2>9, WriteInv
  <2>10. CASE Rename(p)
    <3>1. /\ file' \in [Paths -> Inodes \cup {Nil}]
          /\ tmp' \in [Paths -> Inodes \cup {Nil}]
      BY <2>2, <2>10 DEF Rename
    <3>2. QED
      BY <2>10, <3>1, FinishInv DEF Rename
  <2>11. CASE RenameFails(p)
    BY <2>11, GoToInv
  <2>12. CASE RemoveTmp(p)
    <3>1. tmp' \in [Paths -> Inodes \cup {Nil}]
      BY <2>2, <2>12 DEF RemoveTmp
    <3>2. QED
      BY <2>2, <2>12, <3>1, FinishInv DEF RemoveTmp
  <2>13. CASE Crash(p)
    BY <2>2, <2>13, FinishInv DEF Crash
  <2>14. QED
    BY <2>1, <2>3, <2>4, <2>5, <2>6, <2>7, <2>8, <2>9, <2>10, <2>11, <2>12, <2>13
<1>3. QED
  BY <1>1, <1>2

\* Every variable keeps its type and every stored history its order.
THEOREM IndInvHolds == Spec => []IndInv
<1>1. Init => IndInv
  BY InitInv
<1>2. IndInv /\ [Next]_vars => IndInv'
  BY NextInv
<1>3. QED
  BY <1>1, <1>2, PTL DEF Spec

\* In every file a live secret is the newest entry of its history, whatever
\* the processes that saved it at the same time, and wherever they died.
THEOREM HistoriesEndWithLive == Spec => []HistoryEndsWithLive
<1>1. IndInv => HistoryEndsWithLive
  BY LoadIsOK DEF HistoryEndsWithLive, FileOK, SlotOK
<1>2. QED
  BY <1>1, IndInvHolds, PTL

\* The declared types hold.
THEOREM TypeCorrect == Spec => []TypeOK
<1>1. IndInv => TypeOK
  BY DEF IndInv, Typed, TypeOK, Contents
<1>2. QED
  BY <1>1, IndInvHolds, PTL

------------------------------------------------------------------------------
(* A command that runs alone.                                              *)

\* No two names lead to one inode.
Distinct ==
    /\ \A f, g \in Paths : file[f] # Nil => file[f] # tmp[g]
    /\ \A f, g \in Paths : file[f] # Nil /\ f # g => file[f] # file[g]
    /\ \A f, g \in Paths : tmp[f] # Nil /\ f # g => tmp[f] # tmp[g]

\* What p is about to save, when no process has run since it started.
Prepared(p) ==
    \/ cmd[p].kind = "create" /\ sf[p] = NewSecretFile
    \/ /\ cmd[p].source \in Paths
       /\ Applies(cmd[p], Load(cmd[p].source))
       /\ sf[p] = Apply(cmd[p], Load(cmd[p].source))

Unshared(p) ==
    /\ \A q \in Procs \ {p} : pc[q] = "idle"
    /\ pc[p] \in {"open", "write", "rename"} => Prepared(p)
    /\ pc[p] = "write" => /\ fd[p] = tmp[cmd[p].path]
                          /\ data[fd[p]] = Empty
    /\ pc[p] = "rename" => /\ tmp[cmd[p].path] # Nil
                           /\ data[tmp[cmd[p].path]] = Whole(sf[p])

AloneInv == Distinct /\ \A p \in Procs : alone[p] /\ pc[p] # "idle" => Unshared(p)

\* The content of a file is that of its inode.
LEMMA FilesKept ==
    ASSUME UNCHANGED file,
           \A f \in Paths : file[f] # Nil => data'[file[f]] = data[file[f]]
    PROVE  \A f \in Paths : Load(f)' = Load(f) /\ Readable(f)' = Readable(f)
  BY DEF Load, Readable

\* A step before the rename disturbs no file.
LEMMA FilesKeptBefore ==
    ASSUME IndInv, Distinct, NEW p \in Procs, OpenTmp(p) \/ (Write(p) /\ Unshared(p))
    PROVE  \A f \in Paths : Load(f)' = Load(f) /\ Readable(f)' = Readable(f)
<1>1. CASE OpenTmp(p)
  <2>1. PICK i \in Inodes : /\ data' = [data EXCEPT ![i] = Empty]
                           /\ \A f \in Paths : file[f] # Nil => file[f] # i
    <3>1. CASE tmp[cmd[p].path] # Nil
      <4>1. cmd[p].path \in Paths /\ tmp[cmd[p].path] \in Inodes
        BY <1>1, <3>1 DEF OpenTmp, IndInv, Placed, Typed
      <4>2. QED
        BY <1>1, <3>1, <4>1 DEF OpenTmp, OpenNew, Distinct
    <3>2. CASE tmp[cmd[p].path] = Nil
      <4>1. PICK i \in Unused : OpenNew(p, i)
        BY <1>1, <3>2 DEF OpenTmp
      <4>2. QED
        BY <4>1 DEF OpenNew, Unused
    <3>3. QED
      BY <3>1, <3>2
  <2>2. UNCHANGED file
    BY <1>1 DEF OpenTmp
  <2>3. \A f \in Paths : file[f] # Nil => data'[file[f]] = data[file[f]]
    BY <2>1 DEF IndInv, Typed
  <2>4. QED
    BY <2>2, <2>3, FilesKept
<1>2. CASE Write(p) /\ Unshared(p)
  <2>1. /\ UNCHANGED file
        /\ fd[p] = tmp[cmd[p].path] /\ cmd[p].path \in Paths
        /\ \A i \in Inodes : i # fd[p] => data'[i] = data[i]
    BY <1>2 DEF Write, Unshared, IndInv, Typed, Placed
  <2>2. \A f \in Paths : file[f] # Nil => file[f] \in Inodes /\ file[f] # fd[p]
    BY <2>1 DEF Distinct, IndInv, Typed
  <2>3. QED
    BY <2>1, <2>2, FilesKept
<1>3. QED
  BY <1>1, <1>2

LEMMA DistinctNext == IndInv /\ Distinct /\ [Next]_vars => Distinct'
<1> SUFFICES ASSUME IndInv, Distinct, [Next]_vars PROVE Distinct'
  OBVIOUS
<1>1. CASE UNCHANGED <<file, tmp>>
  BY <1>1 DEF Distinct
<1>2. ASSUME NEW p \in Procs, RemoveFile(p) PROVE Distinct'
  BY <1>2 DEF RemoveFile, IndInv, Typed, Distinct
<1>3. ASSUME NEW p \in Procs, OpenTmp(p) PROVE Distinct'
  <2>1. CASE tmp[cmd[p].path] # Nil
    BY <1>3, <2>1, <1>1 DEF OpenTmp
  <2>2. CASE tmp[cmd[p].path] = Nil
    <3>1. PICK i \in Unused : tmp' = [tmp EXCEPT ![cmd[p].path] = i]
      BY <1>3, <2>2 DEF OpenTmp
    <3>2. \A f \in Paths : file[f] # i /\ tmp[f] # i
      BY DEF Unused
    <3>3. UNCHANGED file
      BY <1>3 DEF OpenTmp
    <3>4. QED
      BY <3>1, <3>2, <3>3 DEF IndInv, Typed, Distinct
  <2>3. QED
    BY <2>1, <2>2
<1>4. ASSUME NEW p \in Procs, Rename(p) PROVE Distinct'
  <2>1. cmd[p].path \in Paths
    BY <1>4 DEF Rename, IndInv, Placed
  <2>2. /\ tmp[cmd[p].path] # Nil
        /\ file' = [file EXCEPT ![cmd[p].path] = tmp[cmd[p].path]]
        /\ tmp' = [tmp EXCEPT ![cmd[p].path] = Nil]
    BY <1>4 DEF Rename
  <2>3. QED
    BY <2>1, <2>2 DEF IndInv, Typed, Distinct
<1>5. ASSUME NEW p \in Procs, RemoveTmp(p) PROVE Distinct'
  BY <1>5 DEF RemoveTmp, IndInv, Typed, Distinct
<1>6. ASSUME NEW p \in Procs,
             \/ Command(p) \/ Stat(p) \/ LoadAndApply(p) \/ LoadFails(p) \/ Write(p)
             \/ RenameFails(p) \/ Crash(p)
      PROVE  UNCHANGED <<file, tmp>>
  BY <1>6 DEF Command, SetCmd, ImportCmd, RollbackCmd, DeleteCmd, Set, Rollback, Delete, Create,
              DeleteEnv, Clone, Start, Stat, LoadAndApply, LoadFails, Write, RenameFails,
              Crash, Abort
<1>7. QED
  BY <1>1, <1>2, <1>3, <1>4, <1>5, <1>6 DEF Next, vars

LEMMA PreparedKept ==
    ASSUME NEW p \in Procs, Prepared(p), UNCHANGED <<cmd, sf>>,
           \A f \in Paths : Load(f)' = Load(f)
    PROVE  Prepared(p)'
  BY DEF Prepared, Load

\* A step of the process itself.
LEMMA OwnStep ==
    ASSUME IndInv, Distinct, NEW p \in Procs, Unshared(p), pc'[p] # "idle",
           \/ Stat(p) \/ LoadAndApply(p) \/ OpenTmp(p) \/ Write(p) \/ RenameFails(p)
    PROVE  Unshared(p)'
<1>1. /\ \A q \in Procs \ {p} : pc'[q] = "idle"
      /\ UNCHANGED cmd /\ cmd[p].path \in Paths
  BY DEF Unshared, IndInv, Typed, Placed, Stat, Abort, Finish, LoadAndApply, OpenTmp,
         OpenNew, Write, RenameFails, GoTo
<1>2. CASE Stat(p)
  <2>1. /\ pc' = [pc EXCEPT ![p] = IF cmd[p].kind = "clone" THEN "load" ELSE "open"]
        /\ UNCHANGED <<file, data, sf>>
    BY <1>2 DEF Stat, GoTo, Abort, Finish, IndInv, Typed
  <2>2. pc'[p] = "load" \/ (pc'[p] = "open" /\ cmd[p].kind = "create")
    BY <1>2, <2>1 DEF Stat, IndInv, Typed, Placed
  <2>3. sf[p] = NewSecretFile
    BY <1>2 DEF Stat, IndInv, Placed
  <2>4. QED
    BY <1>1, <2>1, <2>2, <2>3 DEF Unshared, Prepared
<1>3. CASE LoadAndApply(p)
  <2>1. /\ cmd[p].source \in Paths /\ Applies(cmd[p], Load(cmd[p].source))
        /\ sf'[p] = Apply(cmd[p], Load(cmd[p].source)) /\ UNCHANGED <<file, data>>
        /\ pc'[p] = "open"
    BY <1>3 DEF LoadAndApply, GoTo, IndInv, Typed, Placed
  <2>2. Prepared(p)'
    BY <1>1, <2>1 DEF Prepared, Load
  <2>3. QED
    BY <1>1, <2>1, <2>2 DEF Unshared
<1>4. CASE OpenTmp(p)
  <2>1. Prepared(p)'
    <3>1. /\ Prepared(p) /\ UNCHANGED sf
      BY <1>4 DEF Unshared, OpenTmp
    <3>2. QED
      BY <1>1, <1>4, <3>1, FilesKeptBefore, PreparedKept
  <2>2. /\ pc'[p] = "write" /\ fd'[p] = tmp'[cmd[p].path] /\ data'[fd'[p]] = Empty
    <3>1. CASE tmp[cmd[p].path] # Nil
      BY <1>1, <1>4, <3>1 DEF OpenTmp, OpenNew, GoTo, IndInv, Typed
    <3>2. CASE tmp[cmd[p].path] = Nil
      <4>1. PICK i \in Unused : OpenNew(p, i) /\ tmp' = [tmp EXCEPT ![cmd[p].path] = i]
        BY <1>4, <3>2 DEF OpenTmp
      <4>2. i \in Inodes
        BY DEF Unused
      <4>3. QED
        BY <1>1, <4>1, <4>2 DEF OpenNew, GoTo, IndInv, Typed
    <3>3. QED
      BY <3>1, <3>2
  <2>3. QED
    BY <1>1, <2>1, <2>2 DEF Unshared
<1>5. CASE Write(p)
  <2>1. Prepared(p)'
    <3>1. /\ Prepared(p) /\ UNCHANGED sf
      BY <1>5 DEF Unshared, Write
    <3>2. QED
      BY <1>1, <1>5, <3>1, FilesKeptBefore, PreparedKept
  <2>2. /\ fd[p] \in Inodes /\ fd[p] = tmp[cmd[p].path] /\ data[fd[p]] = Empty
        /\ UNCHANGED <<tmp, sf>> /\ pc'[p] = "rename"
    BY <1>5 DEF Write, Unshared, GoTo, IndInv, Typed, Placed
  <2>3. data' = [data EXCEPT ![fd[p]] = Whole(sf[p])]
    BY <1>5, <2>2 DEF Write
  <2>4. tmp'[cmd[p].path] # Nil /\ data'[tmp'[cmd[p].path]] = Whole(sf[p])
    BY <2>2, <2>3, NilAssumption DEF IndInv, Typed
  <2>5. QED
    BY <1>1, <2>1, <2>2, <2>4 DEF Unshared, Whole
<1>6. CASE RenameFails(p)
  <2>1. pc'[p] = "cleanup"
    BY <1>6 DEF RenameFails, GoTo, IndInv, Typed
  <2>2. QED
    BY <1>1, <2>1 DEF Unshared
<1>7. QED
  BY <1>2, <1>3, <1>4, <1>5, <1>6

\* The steps after which the process is gone.
LEMMA Ends ==
    ASSUME IndInv, NEW p \in Procs,
           \/ LoadFails(p) \/ RemoveFile(p) \/ Rename(p) \/ RemoveTmp(p) \/ Crash(p)
    PROVE  pc'[p] = "idle"
  BY DEF LoadFails, RemoveFile, Rename, RemoveTmp, Crash, Abort, Finish, IndInv, Typed

Works(p) ==
    \/ Stat(p) \/ LoadAndApply(p) \/ LoadFails(p) \/ RemoveFile(p)
    \/ OpenTmp(p) \/ Write(p) \/ Rename(p) \/ RenameFails(p) \/ RemoveTmp(p)
    \/ Crash(p)

LEMMA WorkFrame ==
    ASSUME IndInv, NEW p \in Procs, Works(p)
    PROVE  /\ pc[p] # "idle" /\ UNCHANGED alone
           /\ \A q \in Procs \ {p} : pc'[q] = pc[q]
  BY DEF Works, Stat, LoadAndApply, LoadFails, RemoveFile, OpenTmp, OpenNew, Write, Rename,
         RenameFails, RemoveTmp, Crash, Abort, Finish, GoTo, IndInv, Typed

LEMMA CommandFrame ==
    ASSUME NEW p \in Procs, Command(p)
    PROVE  \E first \in {"stat", "load", "remove"} : \E c : Start(p, first, c)
  BY DEF Command, SetCmd, ImportCmd, RollbackCmd, DeleteCmd, Set, Rollback, Delete, Create, DeleteEnv,
         Clone

LEMMA AloneNext == IndInv /\ AloneInv /\ [Next]_vars => AloneInv'
<1> SUFFICES ASSUME IndInv, AloneInv, [Next]_vars PROVE AloneInv'
  OBVIOUS
<1>1. Distinct'
  BY DistinctNext DEF AloneInv
<1>2. ASSUME NEW p \in Procs, alone'[p], pc'[p] # "idle" PROVE Unshared(p)'
  <2>1. CASE UNCHANGED vars
    <3>1. Unshared(p) /\ UNCHANGED <<file, tmp, data, pc, cmd, sf, fd>>
      BY <1>2, <2>1 DEF vars, AloneInv
    <3>2. QED
      BY <3>1 DEF Unshared, Prepared, Load, Whole
  <2>2. ASSUME NEW q \in Procs, Command(q) PROVE Unshared(p)'
    <3>1. PICK first \in {"stat", "load", "remove"} : \E c : Start(q, first, c)
      BY <2>2, CommandFrame
    <3>2. /\ pc' = [pc EXCEPT ![q] = first] /\ pc[q] = "idle"
          /\ alone'[p] = IF p = q THEN Running = {} ELSE alone[p] /\ p \notin Running
      BY <3>1 DEF Start
    <3>3. p = q
      BY <1>2, <3>2 DEF Running, IndInv, Typed
    <3>4. \A r \in Procs : pc[r] = "idle"
      BY <1>2, <3>2, <3>3 DEF Running
    <3>5. QED
      BY <3>2, <3>3, <3>4 DEF Unshared, IndInv, Typed
  <2>3. ASSUME NEW q \in Procs, Works(q) PROVE Unshared(p)'
    <3>1. /\ pc[q] # "idle" /\ UNCHANGED alone
          /\ \A r \in Procs \ {q} : pc'[r] = pc[r]
      BY <2>3, WorkFrame
    <3>2. pc[p] # "idle" /\ alone[p]
      BY <1>2, <3>1
    <3>3. Unshared(p)
      BY <3>2 DEF AloneInv
    <3>4. q = p
      BY <3>1, <3>3 DEF Unshared
    <3>5. QED
      BY <1>2, <2>3, <3>3, <3>4, OwnStep, Ends DEF Works, AloneInv
  <2>4. QED
    BY <2>1, <2>2, <2>3 DEF Next, Works
<1>3. QED
  BY <1>1, <1>2 DEF AloneInv

\* What a step of a process that runs alone does to a file.
AloneStep(p, f) ==
    file'[f] # file[f] \/ Load(f)' # Load(f) \/ Readable(f)' # Readable(f) =>
        /\ f = cmd[p].path
        /\ Readable(f)'
        /\ \/ cmd[p].kind = "drop" /\ file'[f] = Nil
           \/ cmd[p].kind = "create" /\ Load(f)' = NewSecretFile
           \/ /\ Applies(cmd[p], Load(cmd[p].source))
              /\ Load(f)' = Apply(cmd[p], Load(cmd[p].source))

LEMMA AloneStepHolds ==
    ASSUME IndInv, AloneInv, [Next]_vars, NEW p \in Procs, alone[p], pc[p] # "idle",
           NEW f \in Paths
    PROVE  AloneStep(p, f)
<1>1. Unshared(p) /\ Distinct
  BY DEF AloneInv
<1>2. CASE UNCHANGED <<file, data>>
  BY <1>2 DEF AloneStep, Load, Readable
<1>3. ASSUME NEW q \in Procs, Command(q) PROVE AloneStep(p, f)
  BY <1>2, <1>3, CommandFrame DEF Start
<1>4. ASSUME NEW q \in Procs, Works(q) PROVE q = p
  BY <1>1, <1>4, WorkFrame DEF Unshared
<1>5. CASE Stat(p) \/ LoadAndApply(p) \/ LoadFails(p) \/ RenameFails(p) \/ RemoveTmp(p)
  BY <1>2, <1>5 DEF Stat, LoadAndApply, LoadFails, RenameFails, RemoveTmp, Abort
<1>6. CASE OpenTmp(p) \/ Write(p)
  <2>1. UNCHANGED file
    BY <1>6 DEF OpenTmp, Write
  <2>2. QED
    BY <1>1, <1>6, <2>1, FilesKeptBefore DEF AloneStep
<1>7. CASE Crash(p)
  <2>1. UNCHANGED file
    BY <1>7 DEF Crash
  <2>2. \A g \in Paths : file[g] # Nil => data'[file[g]] = data[file[g]]
    BY <1>1, <1>7 DEF Crash, Unshared, Distinct, IndInv, Typed, Placed
  <2>3. QED
    BY <2>1, <2>2, FilesKept DEF AloneStep
<1>8. CASE RemoveFile(p)
  <2>1. /\ file' = [file EXCEPT ![cmd[p].path] = Nil] /\ UNCHANGED data
        /\ cmd[p].kind = "drop" /\ cmd[p].path \in Paths
    BY <1>8 DEF RemoveFile, IndInv, Placed
  <2>2. CASE f = cmd[p].path
    BY <2>1, <2>2 DEF AloneStep, Readable, IndInv, Typed
  <2>3. CASE f # cmd[p].path
    BY <2>1, <2>3 DEF AloneStep, Readable, Load, IndInv, Typed
  <2>4. QED
    BY <2>2, <2>3
<1>9. CASE Rename(p)
  <2>1. /\ file' = [file EXCEPT ![cmd[p].path] = tmp[cmd[p].path]] /\ UNCHANGED data
        /\ cmd[p].path \in Paths /\ tmp[cmd[p].path] # Nil
    BY <1>9 DEF Rename, IndInv, Placed
  <2>2. data[tmp[cmd[p].path]] = Whole(sf[p]) /\ Prepared(p)
    BY <1>1, <1>9 DEF Rename, Unshared
  <2>3. CASE f = cmd[p].path
    <3>1. file'[f] = tmp[f] /\ data'[file'[f]] = Whole(sf[p])
      BY <2>1, <2>2, <2>3 DEF IndInv, Typed
    <3>2. Load(f)' = sf[p] /\ Readable(f)'
      BY <2>1, <2>3, <3>1 DEF Load, Readable, Whole
    <3>3. QED
      BY <2>2, <2>3, <3>2 DEF Prepared, AloneStep
  <2>4. CASE f # cmd[p].path
    BY <2>1, <2>4 DEF AloneStep, Readable, Load, IndInv, Typed
  <2>5. QED
    BY <2>3, <2>4
<1>10. CASE UNCHANGED vars
  BY <1>2, <1>10 DEF vars
<1>11. QED
  BY <1>3, <1>4, <1>5, <1>6, <1>7, <1>8, <1>9, <1>10 DEF Next, Works

\* A command that ran with no other happens at once or not at all, whatever
\* killed and racing commands have left behind.
THEOREM AloneIsAtomic == Spec => AloneCommandsAreAtomic
<1>1. Init => AloneInv
  BY DEF Init, AloneInv, Distinct
<1>2. IndInv /\ AloneInv /\ [Next]_vars => AloneInv'
  BY AloneNext
<1>3. IndInv /\ AloneInv /\ [Next]_vars
        => [\A p \in Procs : alone[p] /\ pc[p] # "idle" => \A f \in Paths : AloneStep(p, f)]_vars
  BY AloneStepHolds
<1>4. QED
  BY <1>1, <1>2, <1>3, IndInvHolds, PTL DEF Spec, AloneCommandsAreAtomic, AloneStep

------------------------------------------------------------------------------
(* The master key.                                                         *)

LEMMA KeyedStep == ASSUME KeyedNext PROVE Next \/ UNCHANGED vars
<1>1. PICK p \in Procs : KeyedProc(p)
  BY DEF KeyedNext
<1>2. CASE ReadKey(p) \/ GenerateKey(p) \/ CreateKeyFile(p) \/ WriteKeyFile(p) \/ Exit(p)
  BY <1>2 DEF ReadKey, GenerateKey, Begins, CreateKeyFile, WriteKeyFile, Exit
<1>3. CASE pc[p] = "load" /\ Abort(p)
  <2>1. Crash(p)
    BY <1>3 DEF Abort, Crash
  <2>2. QED
    BY <2>1 DEF Next
<1>4. CASE \/ Command(p) \/ LoadAndApply(p) \/ LoadFails(p) \/ Write(p)
           \/ Stat(p) \/ RemoveFile(p) \/ OpenTmp(p)
           \/ Rename(p) \/ RenameFails(p) \/ RemoveTmp(p) \/ Crash(p)
  BY <1>4 DEF Next
<1>5. QED
  BY <1>1, <1>2, <1>3, <1>4 DEF KeyedProc, KeyedCommand, KeyedLoad, KeyedLoadFails,
                                KeyedWrite, Elsewise

\* With its master key the store is still the store: reading, generating
\* and losing a key never does more to the files than a command or a kill.
THEOREM KeyedIsAStore == KeyedSpec => Spec
<1>1. KeyInit => Init
  BY DEF KeyInit
<1>2. [KeyedNext]_keyedVars => [Next]_vars
  BY KeyedStep DEF keyedVars
<1>3. QED
  BY <1>1, <1>2, PTL DEF KeyedSpec, Spec

KeyTyped ==
    /\ keyFile \in [exists : BOOLEAN, key : Nat]
    /\ startup \in [Procs -> {"none", "create", "write", "ready"}]
    /\ engine \in [Procs -> Nat]
    /\ sealed \in [Inodes -> Nat]
    /\ generated \in Nat
    /\ contested \subseteq Nat
    /\ \A p \in Procs : pc[p] # "idle" => startup[p] = "ready"

\* A key that no other first run contests is in the file to stay.
Kept(k) == k \notin contested => k = keyFile.key /\ Generating = {}

\* A first run whose key is not contested is the only one; who has written a
\* key, or has one to work with, has seen the file; and while a first run may
\* still write, the key in the file is contested.
KeysKept ==
    /\ \A p \in Generating : engine[p] \notin contested => Generating = {p}
    /\ \A p \in Procs : startup[p] \in {"write", "ready"} => keyFile.exists
    /\ keyFile.exists /\ keyFile.key # 0 => Kept(keyFile.key)
    /\ \A p \in Procs : startup[p] = "ready" => Kept(engine[p])
    /\ \A i \in Inodes : data[i].state = "whole" => keyFile.exists /\ Kept(sealed[i])

KeyInv == KeyTyped /\ KeysKept

\* A first run that ends, with its key in the file or without, takes no
\* uncontested key away; nor is its own lost if it comes to stand in the file.
LEMMA SettleKept ==
    ASSUME KeysKept, NEW p \in Procs, Settle(p), Generating' = Generating \ {p},
           UNCHANGED keyFile \/ (p \in Generating /\ keyFile'.key = engine[p])
    PROVE  /\ \A k : Kept(k) => Kept(k)'
           /\ \A k : p \in Generating /\ k = engine[p] /\ k = keyFile'.key => Kept(k)'
<1>1. CASE Generating \subseteq {p}
  <2>1. Generating' = {} /\ contested' = contested \ {keyFile'.key}
    BY <1>1 DEF Settle
  <2>2. ASSUME NEW k, Kept(k) PROVE Kept(k)'
    BY <2>1, <2>2 DEF Kept
  <2>3. \A k : k = keyFile'.key => Kept(k)'
    BY <2>1 DEF Kept
  <2>4. QED
    BY <2>2, <2>3
<1>2. CASE ~(Generating \subseteq {p})
  <2>1. contested' = contested /\ Generating # {}
    BY <1>2 DEF Settle
  <2>2. ASSUME NEW k, Kept(k) PROVE Kept(k)'
    BY <2>1, <2>2 DEF Kept
  <2>3. p \in Generating => engine[p] \in contested'
    BY <1>2, <2>1 DEF KeysKept
  <2>4. \A k : p \in Generating /\ k = engine[p] => Kept(k)'
    BY <2>3 DEF Kept
  <2>5. QED
    BY <2>2, <2>4
<1>3. QED
  BY <1>1, <1>2

\* Before the command.
LEMMA StartupKeyInv ==
    ASSUME IndInv, KeyInv, NEW p \in Procs,
           ReadKey(p) \/ GenerateKey(p) \/ CreateKeyFile(p) \/ WriteKeyFile(p) \/ Exit(p)
    PROVE  KeyInv'
<1>1. UNCHANGED <<pc, data, sealed>>
  BY DEF ReadKey, GenerateKey, Begins, CreateKeyFile, WriteKeyFile, Exit, vars
<1>2. CASE ReadKey(p)
  <2>1. KeyTyped'
    BY <1>1, <1>2 DEF ReadKey, Begins, KeyInv, KeyTyped
  <2>2. /\ UNCHANGED <<keyFile, contested>> /\ keyFile.exists /\ Kept(keyFile.key)
        /\ startup[p] = "none" /\ startup' = [startup EXCEPT ![p] = "ready"]
        /\ engine' = [engine EXCEPT ![p] = keyFile.key]
    BY <1>2 DEF ReadKey, Begins, KeyInv, KeysKept
  <2>3. UNCHANGED Generating
    BY <2>2 DEF Generating, KeyInv, KeyTyped
  <2>4. KeysKept'
    BY <1>1, <2>2, <2>3 DEF KeyInv, KeyTyped, KeysKept, Kept, Generating
  <2>5. QED
    BY <2>1, <2>4 DEF KeyInv
<1>3. CASE GenerateKey(p)
  <2>1. KeyTyped'
    <3>1. {engine[q] : q \in Generating} \cup {generated + 1} \subseteq Nat
      BY DEF Generating, KeyInv, KeyTyped
    <3>2. contested' \subseteq Nat
      BY <1>3, <3>1 DEF GenerateKey, KeyInv, KeyTyped
    <3>3. QED
      BY <1>1, <1>3, <3>2 DEF GenerateKey, Begins, KeyInv, KeyTyped
  <2>2. /\ ~keyFile.exists /\ UNCHANGED keyFile /\ startup[p] = "none"
        /\ startup' = [startup EXCEPT ![p] = "create"]
        /\ engine' = [engine EXCEPT ![p] = generated + 1]
    BY <1>3 DEF GenerateKey, Begins
  <2>3. p \notin Generating /\ Generating' = Generating \cup {p}
    BY <2>2 DEF Generating, KeyInv, KeyTyped
  <2>4. \A q \in Generating' : engine'[q] \notin contested' => Generating' = {q}
    <3>1. CASE Generating = {}
      BY <2>3, <3>1
    <3>2. CASE Generating # {}
      <4>1. contested' = contested \cup {engine[q] : q \in Generating} \cup {generated + 1}
        BY <1>3, <3>2 DEF GenerateKey
      <4>2. engine'[p] \in contested'
        BY <2>2, <4>1 DEF KeyInv, KeyTyped
      <4>3. \A q \in Generating : engine'[q] \in contested'
        BY <2>2, <2>3, <4>1 DEF KeyInv, KeyTyped, Generating
      <4>4. QED
        BY <2>3, <4>2, <4>3
    <3>3. QED
      BY <3>1, <3>2
  <2>5. KeysKept'
    BY <1>1, <2>2, <2>4 DEF KeyInv, KeyTyped, KeysKept
  <2>6. QED
    BY <2>1, <2>5 DEF KeyInv
<1>4. CASE CreateKeyFile(p)
  <2>1. KeyTyped'
    BY <1>1, <1>4 DEF CreateKeyFile, KeyInv, KeyTyped
  <2>2. /\ startup[p] = "create" /\ startup' = [startup EXCEPT ![p] = "write"]
        /\ keyFile' = [exists |-> TRUE, key |-> 0] /\ UNCHANGED <<engine, contested>>
    BY <1>4 DEF CreateKeyFile
  <2>3. p \in Generating /\ UNCHANGED Generating
    BY <2>2 DEF Generating, KeyInv, KeyTyped
  <2>4. \A k : Kept(k) => Kept(k)'
    BY <2>2, <2>3 DEF Kept
  <2>5. KeysKept'
    BY <1>1, <2>2, <2>3, <2>4 DEF KeyInv, KeyTyped, KeysKept
  <2>6. QED
    BY <2>1, <2>5 DEF KeyInv
<1>5. CASE WriteKeyFile(p)
  <2>1. KeyTyped'
    BY <1>1, <1>5 DEF WriteKeyFile, Settle, KeyInv, KeyTyped
  <2>2. /\ startup[p] = "write" /\ startup' = [startup EXCEPT ![p] = "ready"]
        /\ keyFile' = [exists |-> TRUE, key |-> engine[p]] /\ UNCHANGED engine /\ Settle(p)
    BY <1>5 DEF WriteKeyFile
  <2>3. p \in Generating /\ Generating' = Generating \ {p}
    BY <2>2 DEF Generating, KeyInv, KeyTyped
  <2>4. \A k : Kept(k) \/ k = engine[p] => Kept(k)'
    <3>1. keyFile'.key = engine[p]
      BY <2>2
    <3>2. KeysKept
      BY DEF KeyInv
    <3>3. QED
      BY <2>2, <2>3, <3>1, <3>2, SettleKept
  <2>5. \A q \in Generating' : engine'[q] \notin contested' => Generating' = {q}
    BY <2>2, <2>3 DEF Settle, KeyInv, KeysKept
  <2>6. KeysKept'
    BY <1>1, <2>2, <2>4, <2>5 DEF KeyInv, KeyTyped, KeysKept
  <2>7. QED
    BY <2>1, <2>6 DEF KeyInv
<1>6. CASE Exit(p)
  <2>1. KeyTyped'
    BY <1>1, <1>6 DEF Exit, Forget, Settle, KeyInv, KeyTyped
  <2>2. /\ startup' = [startup EXCEPT ![p] = "none"] /\ engine' = [engine EXCEPT ![p] = 0]
        /\ UNCHANGED keyFile /\ Settle(p)
    BY <1>6 DEF Exit, Forget
  <2>3. Generating' = Generating \ {p}
    BY <2>2 DEF Generating, KeyInv, KeyTyped
  <2>4. \A k : Kept(k) => Kept(k)'
    <3>1. KeysKept
      BY DEF KeyInv
    <3>2. QED
      BY <2>2, <2>3, <3>1, SettleKept
  <2>5. \A q \in Generating' : engine'[q] \notin contested' => Generating' = {q}
    BY <2>2, <2>3 DEF Settle, KeyInv, KeyTyped, KeysKept, Generating
  <2>6. KeysKept'
    BY <1>1, <2>2, <2>4, <2>5 DEF KeyInv, KeyTyped, KeysKept
  <2>7. QED
    BY <2>1, <2>6 DEF KeyInv
<1>7. QED
  BY <1>2, <1>3, <1>4, <1>5, <1>6

\* In the command, except for its write.
LEMMA CommandKeyInv ==
    ASSUME IndInv, KeyInv, NEW p \in Procs,
           UNCHANGED <<keyFile, sealed, generated, contested>>,
           \A q \in Procs \ {p} : pc'[q] = pc[q],
           \A i \in Inodes : data'[i].state = "whole" => data[i].state = "whole",
           \/ pc'[p] = "idle" /\ Forget(p)
           \/ startup[p] = "ready" /\ UNCHANGED <<startup, engine>>
    PROVE  KeyInv'
<1>1. KeyTyped'
  BY DEF KeyInv, KeyTyped, Forget
<1>2. KeysKept'
  <2>1. startup[p] = "ready" \/ (startup'[p] = "none" /\ pc'[p] = "idle")
    BY DEF KeyInv, KeyTyped, Forget
  <2>2. \A q \in Procs : \/ startup'[q] = startup[q] /\ engine'[q] = engine[q]
                         \/ startup'[q] = "none"
    BY DEF KeyInv, KeyTyped, Forget
  <2>3. Generating' \subseteq Generating
    BY <2>2 DEF Generating
  <2>4. \A k : Kept(k) => Kept(k)'
    BY <2>3 DEF Kept
  <2>5. \A q \in Generating' : engine'[q] \notin contested' => Generating' = {q}
    BY <2>2, <2>3 DEF KeyInv, KeysKept, Generating
  <2>6. QED
    BY <2>2, <2>4, <2>5 DEF KeyInv, KeysKept
<1>3. QED
  BY <1>1, <1>2 DEF KeyInv

LEMMA WriteKeyInv ==
    ASSUME IndInv, KeyInv, NEW p \in Procs, KeyedWrite(p)
    PROVE  KeyInv'
<1>1. /\ pc[p] = "write" /\ fd[p] \in Inodes /\ startup[p] = "ready"
      /\ pc' = [pc EXCEPT ![p] = "rename"]
      /\ sealed' = [sealed EXCEPT ![fd[p]] = engine[p]]
      /\ UNCHANGED <<keyFile, startup, engine, generated, contested>>
  BY DEF KeyedWrite, Write, GoTo, IndInv, Placed, KeyInv, KeyTyped
<1>2. \A i \in Inodes : i # fd[p] => data'[i] = data[i]
  BY DEF KeyedWrite, Write, IndInv, Typed
<1>3. KeyTyped'
  BY <1>1 DEF KeyInv, KeyTyped, IndInv, Typed
<1>4. KeysKept'
  <2>1. UNCHANGED Generating /\ \A k : Kept(k)' <=> Kept(k)
    BY <1>1 DEF Generating, Kept
  <2>2. QED
    BY <1>1, <1>2, <2>1 DEF KeyInv, KeyTyped, KeysKept
<1>5. QED
  BY <1>3, <1>4 DEF KeyInv

LEMMA KeyNextInv == IndInv /\ KeyInv /\ [KeyedNext]_keyedVars => KeyInv'
<1> SUFFICES ASSUME IndInv, KeyInv, [KeyedNext]_keyedVars PROVE KeyInv'
  OBVIOUS
<1>1. CASE UNCHANGED keyedVars
  BY <1>1 DEF keyedVars, keyVars, vars, KeyInv, KeyTyped, KeysKept, Kept, Generating
<1>2. CASE KeyedNext
  <2>1. PICK p \in Procs : KeyedProc(p)
    BY <1>2 DEF KeyedNext
  <2>2. pc \in [Procs -> {"idle", "stat", "load", "remove", "open", "write",
                         "rename", "cleanup"}]
    BY DEF IndInv, Typed
  <2>3. pc[p] # "idle" => startup[p] = "ready"
    BY DEF KeyInv, KeyTyped
  <2>4. CASE KeyedCommand(p)
    <3>1. /\ UNCHANGED <<data, keyVars>> /\ startup[p] = "ready"
          /\ \A q \in Procs \ {p} : pc'[q] = pc[q]
      BY <2>2, <2>4 DEF KeyedCommand, Command, SetCmd, ImportCmd, RollbackCmd, DeleteCmd, Set,
                        Rollback, Delete, Create, DeleteEnv, Clone, Start
    <3>2. QED
      BY <3>1, CommandKeyInv DEF keyVars
  <2>5. CASE KeyedLoad(p)
    <3>1. /\ UNCHANGED <<data, keyVars>> /\ startup[p] = "ready"
          /\ \A q \in Procs \ {p} : pc'[q] = pc[q]
      BY <2>2, <2>3, <2>5 DEF KeyedLoad, LoadAndApply, GoTo
    <3>2. QED
      BY <3>1, CommandKeyInv DEF keyVars
  <2>6. CASE KeyedLoadFails(p)
    <3>1. /\ UNCHANGED <<data, keyFile, sealed, generated, contested>>
          /\ pc'[p] = "idle" /\ Forget(p)
          /\ \A q \in Procs \ {p} : pc'[q] = pc[q]
      BY <2>2, <2>6 DEF KeyedLoadFails, LoadFails, Abort, Finish
    <3>2. QED
      BY <3>1, CommandKeyInv
  <2>7. CASE KeyedWrite(p)
    BY <2>7, WriteKeyInv
  <2>8. CASE Elsewise(p)
    <3>1. /\ UNCHANGED <<keyFile, sealed, generated, contested>>
          /\ IF pc'[p] = "idle" THEN Forget(p) ELSE UNCHANGED <<startup, engine>>
      BY <2>8 DEF Elsewise
    <3>2. startup[p] = "ready"
      BY <2>3, <2>8 DEF Elsewise, Stat, RemoveFile, OpenTmp, Rename, RenameFails,
                        RemoveTmp, Crash
    <3>3. \A q \in Procs \ {p} : pc'[q] = pc[q]
      <4>1. pc' = [pc EXCEPT ![p] = pc'[p]]
        BY <2>2, <2>8 DEF Elsewise, Stat, RemoveFile, OpenTmp, OpenNew, Rename, RenameFails,
                          RemoveTmp, Crash, Abort, Finish, GoTo
      <4>2. QED
        BY <2>2, <4>1
    <3>4. \A i \in Inodes : data'[i] \in {data[i], Empty, Torn}
      BY <2>8 DEF IndInv, Typed, Elsewise, Stat, RemoveFile, OpenTmp, OpenNew, Rename,
                  RenameFails, RemoveTmp, Crash, Abort
    <3>5. QED
      BY <3>1, <3>2, <3>3, <3>4, CommandKeyInv DEF Empty, Torn
  <2>9. QED
    BY <2>1, <2>4, <2>5, <2>6, <2>7, <2>8, StartupKeyInv DEF KeyedProc
<1>3. QED
  BY <1>1, <1>2

\* What is stored can be opened with the key in master.key, except with a key
\* that overlapping first runs contested and master.key does not hold when
\* they are over (crypto/key.go:51-67); a first run killed before or in the
\* middle of writing its key has sealed nothing.
THEOREM FilesStayOpenable == KeyedSpec => []FilesOpenWithTheKey
<1>1. KeyInit => KeyInv
  <2>1. KeyInit => KeyTyped
    <3>1. [exists |-> FALSE, key |-> 0] \in [exists : BOOLEAN, key : Nat]
      OBVIOUS
    <3>2. KeyInit => \A p \in Procs : pc[p] = "idle"
      BY DEF KeyInit, Init
    <3>3. KeyInit => /\ startup \in [Procs -> {"none", "create", "write", "ready"}]
                     /\ engine \in [Procs -> Nat] /\ sealed \in [Inodes -> Nat]
      BY DEF KeyInit
    <3>4. KeyInit => /\ keyFile \in [exists : BOOLEAN, key : Nat]
                     /\ generated \in Nat /\ contested \subseteq Nat
      BY <3>1 DEF KeyInit
    <3>5. QED
      BY <3>2, <3>3, <3>4 DEF KeyTyped
  <2>2. KeyInit => KeysKept
    BY DEF KeyInit, Init, KeysKept, Generating, Empty
  <2>3. QED
    BY <2>1, <2>2 DEF KeyInv
<1>2. IndInv /\ KeyInv /\ [KeyedNext]_keyedVars => KeyInv'
  BY KeyNextInv
<1>3. IndInv /\ KeyInv => FilesOpenWithTheKey
  BY DEF IndInv, Typed, KeyInv, KeysKept, Kept, FilesOpenWithTheKey
<1>4. KeyedSpec => []IndInv
  BY KeyedIsAStore, IndInvHolds, PTL
<1>5. QED
  BY <1>1, <1>2, <1>3, <1>4, PTL DEF KeyedSpec

------------------------------------------------------------------------------
(* The provisioned server.                                                 *)

Writing == {"open", "write", "up"}

\* An active call applies a plan, and the calls past the check of the file the
\* same one; a file that was created stays.
OnePlan ==
    /\ \A a \in Calls : step[a] # "idle" => applies[a] \in PlanIds
    /\ \A a \in Calls : step[a] \in {"write", "up"} => compose # Missing
    /\ ~raced => \A a, b \in Calls :
         step[a] \in Writing /\ step[b] \in Writing => applies[a] = applies[b]

\* Who got past the check of the file writes the plan that is there, and
\* the plan of the volume once there is one.
OneFile ==
    ~raced =>
        /\ \A a \in Calls : step[a] \in Writing =>
              /\ compose \in PlanIds => compose = applies[a]
              /\ volume # 0 => applies[a] = volume
        /\ volume # 0 => compose \in {volume, Emptied}
        /\ volume = 0 => running = 0
        /\ running \in {0, volume}

\* A truncated file is being written, unless the writer was stopped.
OneWriter ==
    ~cutShort /\ compose = Emptied => \E a \in Calls : step[a] = "write"

ServerInv == ServerTypeOK /\ OnePlan /\ OneFile /\ OneWriter

LEMMA PlanNumbers ==
    /\ Emptied \in Nat /\ Emptied \notin PlanIds /\ Missing \notin PlanIds
    /\ Emptied # 0 /\ PlanIds \subseteq 0..MaxPlans /\ 0..MaxPlans \subseteq 0..Emptied
    /\ Emptied \in 0..Emptied /\ Missing = 0 /\ 0 \notin PlanIds
  BY ServerAssumption DEF Emptied, Missing, PlanIds

LEMMA ServerInitInv == ServerInit => ServerInv
<1> SUFFICES ASSUME ServerInit PROVE ServerInv
  OBVIOUS
<1>1. ServerTypeOK
  <2>1. 0 \in 0..MaxPlans /\ 0 \in 0..MaxApplies /\ 0 \in 0..Emptied
    BY ServerAssumption, PlanNumbers
  <2>2. step \in [Calls -> {"idle", "read", "open", "write", "up", "wait"}]
    BY DEF ServerInit
  <2>3. applies \in [Calls -> 0..MaxPlans]
    BY <2>1 DEF ServerInit
  <2>4. QED
    BY <2>1, <2>2, <2>3, PlanNumbers DEF ServerInit, ServerTypeOK
<1>2. OnePlan /\ OneFile /\ OneWriter
  BY PlanNumbers DEF ServerInit, OnePlan, OneFile, OneWriter, Writing
<1>3. QED
  BY <1>1, <1>2 DEF ServerInv

\* The steps of a call that leave the file and the containers alone.
LEMMA QuietCallInv ==
    ASSUME ServerInv, NEW a \in Calls, NEW s \in {"idle", "open"}, GoesTo(a, s),
           step[a] # "idle",
           s = "open" => compose \in {Missing, applies[a]},
           UNCHANGED <<plans, planned, applied, compose, running, volume>>,
           raced' \in BOOLEAN, raced => raced',
           s = "open" /\ ~raced' => \A b \in Calls : step[b] = "open" => applies[b] = applies[a],
           cutShort' \in BOOLEAN, cutShort => cutShort',
           step[a] = "write" => cutShort'
    PROVE  ServerInv'
<1>1. /\ \A b \in Calls : b # a => step'[b] = step[b] /\ applies'[b] = applies[b]
      /\ step'[a] = s /\ (s = "open" => applies'[a] = applies[a])
  BY DEF GoesTo, ServerInv, ServerTypeOK
<1>2. ServerTypeOK'
  BY ServerAssumption DEF GoesTo, ServerInv, ServerTypeOK
<1>3. OnePlan'
  <2>1. ASSUME ~raced', s = "open", NEW b \in Calls, step[b] \in Writing
        PROVE  applies[b] = applies[a]
    <3>1. CASE compose = Missing
      BY <2>1, <3>1 DEF ServerInv, OnePlan, Writing
    <3>2. CASE compose # Missing
      <4>1. compose = applies[a] /\ applies[a] \in PlanIds
        BY <2>1, <3>2 DEF ServerInv, OnePlan
      <4>2. QED
        BY <2>1, <4>1 DEF ServerInv, OneFile
    <3>3. QED
      BY <3>1, <3>2
  <2>2. QED
    BY <1>1, <2>1 DEF ServerInv, OnePlan, Writing
<1>4. OneFile'
  <2>1. ASSUME ~raced, s = "open" PROVE volume # 0 => applies[a] = volume
    BY <2>1, PlanNumbers DEF ServerInv, OneFile, OnePlan
  <2>2. QED
    BY <1>1, <2>1, PlanNumbers DEF ServerInv, OneFile, Writing
<1>5. OneWriter'
  BY <1>1 DEF ServerInv, OneWriter
<1>6. QED
  BY <1>2, <1>3, <1>4, <1>5 DEF ServerInv

LEMMA BeginApplyInv ==
    ASSUME ServerInv, NEW a \in Calls, NEW p \in PlanIds, BeginApply(a, p)
    PROVE  ServerInv'
<1>1. /\ \A b \in Calls : b # a => step'[b] = step[b] /\ applies'[b] = applies[b]
      /\ step'[a] = "read" /\ applies'[a] = p /\ step[a] = "idle"
      /\ UNCHANGED <<plans, planned, compose, running, volume, cutShort>>
  BY DEF BeginApply, ServerInv, ServerTypeOK
<1>2. UNCHANGED raced
  BY DEF BeginApply
<1>3. ServerTypeOK'
  BY ServerAssumption, PlanNumbers DEF BeginApply, ServerInv, ServerTypeOK
<1>4. OnePlan'
  BY <1>1, <1>2 DEF ServerInv, OnePlan, Writing
<1>5. OneFile'
  BY <1>1, <1>2 DEF ServerInv, OneFile, Writing
<1>6. OneWriter'
  BY <1>1 DEF ServerInv, OneWriter
<1>7. QED
  BY <1>3, <1>4, <1>5, <1>6 DEF ServerInv

LEMMA OpenComposeInv ==
    ASSUME ServerInv, NEW a \in Calls, OpenCompose(a)
    PROVE  ServerInv'
<1>1. /\ \A b \in Calls : b # a => step'[b] = step[b]
      /\ step[a] = "open" /\ step'[a] = "write" /\ compose' = Emptied
      /\ UNCHANGED <<applies, plans, planned, applied, running, volume, raced, cutShort>>
  BY DEF OpenCompose, GoesTo, ServerInv, ServerTypeOK
<1>2. ServerTypeOK'
  BY <1>1, PlanNumbers DEF OpenCompose, GoesTo, ServerInv, ServerTypeOK
<1>3. OnePlan'
  BY <1>1, PlanNumbers DEF ServerInv, OnePlan, Writing
<1>4. OneFile'
  BY <1>1, PlanNumbers DEF ServerInv, OneFile, Writing
<1>5. OneWriter'
  BY <1>1 DEF ServerInv, OneWriter
<1>6. QED
  BY <1>2, <1>3, <1>4, <1>5 DEF ServerInv

LEMMA WriteComposeInv ==
    ASSUME ServerInv, NEW a \in Calls, WriteCompose(a)
    PROVE  ServerInv'
<1>1. /\ \A b \in Calls : b # a => step'[b] = step[b]
      /\ step[a] = "write" /\ step'[a] = "up" /\ compose' = applies[a]
      /\ UNCHANGED <<applies, plans, planned, applied, running, volume, raced, cutShort>>
  BY DEF WriteCompose, GoesTo, ServerInv, ServerTypeOK
<1>2. applies[a] \in PlanIds
  BY <1>1 DEF ServerInv, OnePlan
<1>3. ServerTypeOK'
  BY <1>1, <1>2, PlanNumbers DEF WriteCompose, GoesTo, ServerInv, ServerTypeOK
<1>4. OnePlan'
  BY <1>1, <1>2, PlanNumbers DEF ServerInv, OnePlan, Writing
<1>5. OneFile'
  BY <1>1, <1>2, PlanNumbers DEF ServerInv, OnePlan, OneFile, Writing
<1>6. OneWriter'
  BY <1>1, <1>2, PlanNumbers DEF ServerInv, OneWriter
<1>7. QED
  BY <1>3, <1>4, <1>5, <1>6 DEF ServerInv

\* What docker compose creates, whether the call succeeds or not.
LEMMA CreatedInv ==
    ASSUME ServerInv, NEW a \in Calls, NEW s \in {"wait", "idle"},
           step[a] = "up", GoesTo(a, s),
           Created \/ UNCHANGED <<running, volume>>,
           UNCHANGED <<plans, planned, applied, compose, raced, cutShort>>
    PROVE  ServerInv'
<1>1. /\ \A b \in Calls : b # a => step'[b] = step[b] /\ applies'[b] = applies[b]
      /\ step'[a] = s /\ (s = "wait" => applies'[a] = applies[a])
  BY DEF GoesTo, ServerInv, ServerTypeOK
<1>2. \/ UNCHANGED <<running, volume>>
      \/ /\ compose \in PlanIds /\ running' = compose
         /\ volume' = IF volume = 0 THEN compose ELSE volume
  BY DEF Created
<1>3. ServerTypeOK'
  BY <1>2, ServerAssumption, PlanNumbers DEF GoesTo, ServerInv, ServerTypeOK
<1>4. OnePlan'
  BY <1>1 DEF ServerInv, OnePlan, Writing
<1>5. ASSUME ~raced' PROVE OneFile'
  <2>1. /\ \A b \in Calls : step[b] \in Writing =>
              /\ compose \in PlanIds => compose = applies[b]
              /\ volume # 0 => applies[b] = volume
        /\ volume # 0 => compose \in {volume, Emptied}
        /\ running \in {0, volume} /\ (volume = 0 => running = 0)
    BY <1>5 DEF ServerInv, OneFile
  <2>2. CASE UNCHANGED <<running, volume>>
    BY <1>1, <2>1, <2>2 DEF OneFile, Writing
  <2>3. CASE /\ compose \in PlanIds /\ running' = compose
             /\ volume' = IF volume = 0 THEN compose ELSE volume
    <3>1. volume' = compose /\ compose # 0
      BY <2>1, <2>3, PlanNumbers
    <3>2. QED
      BY <1>1, <2>1, <2>3, <3>1 DEF OneFile, Writing
  <2>4. QED
    BY <1>2, <2>2, <2>3
<1>6. OneFile'
  BY <1>5 DEF OneFile
<1>7. OneWriter'
  BY <1>1 DEF ServerInv, OneWriter
<1>8. QED
  BY <1>3, <1>4, <1>6, <1>7 DEF ServerInv

LEMMA ServerNextInv == ServerInv /\ [ServerNext]_serverVars => ServerInv'
<1> SUFFICES ASSUME ServerInv, [ServerNext]_serverVars PROVE ServerInv'
  OBVIOUS
<1>1. CASE UNCHANGED serverVars
  BY <1>1 DEF serverVars, ServerInv, ServerTypeOK, OnePlan, OneFile, OneWriter
<1>2. CASE Plan
  <2>1. ServerTypeOK'
    BY <1>2, ServerAssumption DEF Plan, ServerInv, ServerTypeOK, PlanIds
  <2>2. OnePlan' /\ OneFile' /\ OneWriter'
    BY <1>2 DEF Plan, ServerInv, OnePlan, OneFile, OneWriter
  <2>3. QED
    BY <2>1, <2>2 DEF ServerInv
<1>3. CASE EndMcp
  <2>1. ServerTypeOK'
    BY <1>3, ServerAssumption DEF EndMcp, ServerInv, ServerTypeOK
  <2>2. OnePlan' /\ OneFile'
    BY <1>3 DEF EndMcp, ServerInv, OnePlan, OneFile, Writing
  <2>3. OneWriter'
    BY <1>3 DEF EndMcp, ServerInv, OneWriter
  <2>4. QED
    BY <2>1, <2>2, <2>3 DEF ServerInv
<1>4. ASSUME NEW a \in Calls, ReadCompose(a) PROVE ServerInv'
  BY <1>4, QuietCallInv DEF ReadCompose, Foreign, ServerInv, ServerTypeOK
<1>5. ASSUME NEW a \in Calls, WriteFails(a) PROVE ServerInv'
  BY <1>5, QuietCallInv DEF WriteFails, ServerInv, ServerTypeOK
<1>6. ASSUME NEW a \in Calls, WaitEnds(a) PROVE ServerInv'
  BY <1>6, QuietCallInv DEF WaitEnds, ServerInv, ServerTypeOK
<1>7. ASSUME NEW a \in Calls, Up(a) \/ UpFails(a) PROVE ServerInv'
  BY <1>7, CreatedInv DEF Up, UpFails
<1>8. QED
  BY <1>1, <1>2, <1>3, <1>4, <1>5, <1>6, <1>7, BeginApplyInv, OpenComposeInv, WriteComposeInv DEF ServerNext

\* The types hold, and the file, the volume and the calls agree.
THEOREM ServerInvHolds == ServerSpec => []ServerInv
<1>1. ServerInit => ServerInv
  BY ServerInitInv
<1>2. ServerInv /\ [ServerNext]_serverVars => ServerInv'
  BY ServerNextInv
<1>3. QED
  BY <1>1, <1>2, PTL DEF ServerSpec

\* Every variable keeps its type.
THEOREM ServerTypeCorrect == ServerSpec => []ServerTypeOK
  BY ServerInvHolds, PTL DEF ServerInv

\* Containers are never created with a password that is not the volume's.
THEOREM DatabaseStaysInReach == ServerSpec => []ServerReachesItsDatabase
<1>1. ServerInv => ServerReachesItsDatabase
  BY DEF ServerInv, OneFile, ServerReachesItsDatabase
<1>2. QED
  BY <1>1, ServerInvHolds, PTL

\* The password is in the compose file, or about to be written there, or a cut
\* short write has left the file empty.
THEOREM PasswordIsNotLost == ServerSpec => []PasswordStaysOnRecord
<1>1. ServerInv => PasswordStaysOnRecord
  BY DEF ServerInv, OneFile, OneWriter, PasswordStaysOnRecord, Writing
<1>2. QED
  BY <1>1, ServerInvHolds, PTL
=============================================================================

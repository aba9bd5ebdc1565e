---------------------------- MODULE MCLocalStore ----------------------------
(* Small instances of what foostash keeps on the user's machine, for TLC:  *)
(* the encrypted store with its key, and a server set up there.  They share*)
(* no file and no process, so a behaviour of the machine interleaves one of*)
(* each, and it is enough to explore either by itself.                     *)
EXTENDS MasterKey, Provisioning, TLC

VARIABLE scope         \* the part of the machine this behaviour is about

MachineInit == KeyInit /\ ServerInit /\ scope \in {"store", "server"}

MachineNext ==
    \/ scope = "store" /\ KeyedNext /\ UNCHANGED <<serverVars, scope>>
    \/ scope = "server" /\ ServerNext /\ UNCHANGED <<keyedVars, scope>>

MachineSpec == MachineInit /\ [][MachineNext]_<<keyedVars, serverVars, scope>>

\* Nothing in the code tells two members of one of these sets apart.
Symmetry == UNION {Permutations(S) : S \in {Paths, Keys, Procs, Calls}}

\* Nor two inodes, which are numbers here: a new file gets the lowest free.
LowestInode ==
    \A p \in Procs : fd'[p] \in Unused => \A i \in Unused : fd'[p] <= i
=============================================================================

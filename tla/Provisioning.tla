---------------------------- MODULE Provisioning ----------------------------
(***************************************************************************)
(* A server that an agent sets up on its own machine with the MCP tools    *)
(* server_setup_plan and server_setup_apply                                *)
(* (internal/mcpserver/provisioning.go): the plans in the memory of the    *)
(* `foostash mcp` process, the compose file in the install directory, and  *)
(* what Docker makes of it.                                                *)
(*                                                                         *)
(* Every plan draws a database password, and PostgreSQL keeps the password *)
(* its volume was initialised with, whatever later containers are told.    *)
(* A plan, its compose file and its password are one number here, since    *)
(* they determine each other.  All calls name the same install directory.  *)
(***************************************************************************)
EXTENDS Naturals

CONSTANTS Calls,       \* server_setup_apply calls that run at once
          MaxPlans,    \* bound: server_setup_plan calls in one behaviour
          MaxApplies   \* bound: server_setup_apply calls in one behaviour

ASSUME ServerAssumption == MaxPlans \in Nat /\ MaxApplies \in Nat

VARIABLES plans,       \* plans.m: the plans in memory
          planned,     \* number of plans made so far
          step,        \* step[a]: the statement apply call a is at
          applies,     \* applies[a]: the plan it applies
          applied,     \* number of apply calls so far
          compose,     \* docker-compose.yml: Missing, Emptied or a plan's
          running,     \* the plan the containers were created from (0: none)
          volume,      \* the password of foostash-pgdata (0: no volume yet)
          raced,       \* auxiliary: two plans both found no file, before
                       \* either had created it
          cutShort     \* auxiliary: the file was truncated and not written

serverVars == <<plans, planned, step, applies, applied, compose, running,
                volume, raced, cutShort>>

PlanIds == 1..MaxPlans
Missing == 0
Emptied == MaxPlans + 1

ServerInit ==
    /\ plans = {} /\ planned = 0
    /\ step = [a \in Calls |-> "idle"]
    /\ applies = [a \in Calls |-> 0]
    /\ applied = 0
    /\ compose = Missing /\ running = 0 /\ volume = 0
    /\ raced = FALSE /\ cutShort = FALSE

GoesTo(a, s) ==
    /\ step' = [step EXCEPT ![a] = s]
    /\ applies' = IF s = "idle" THEN [applies EXCEPT ![a] = 0] ELSE applies

------------------------------------------------------------------------------
(* The tools.                                                              *)

\* server_setup_plan writes nothing but the map.
Plan ==
    /\ planned < MaxPlans
    /\ planned' = planned + 1
    /\ plans' = plans \cup {planned + 1}
    /\ UNCHANGED <<step, applies, applied, compose, running, volume,
                   raced, cutShort>>

\* A plan_id that is not in the map is refused before anything happens.
BeginApply(a, p) ==
    /\ step[a] = "idle" /\ p \in plans /\ applied < MaxApplies
    /\ step' = [step EXCEPT ![a] = "read"]
    /\ applies' = [applies EXCEPT ![a] = p]
    /\ applied' = applied + 1
    /\ UNCHANGED <<plans, planned, compose, running, volume, raced, cutShort>>

\* Mutant: any file that is there is taken for the plan's.
Foreign_Never(a) == FALSE
Foreign(a) == compose \notin {Missing, applies[a]}

\* ReadFile: a file with other bytes is not overwritten.
ReadCompose(a) ==
    /\ step[a] = "read"
    /\ GoesTo(a, IF Foreign(a) THEN "idle" ELSE "open")
    /\ raced' = (raced \/ (~Foreign(a) /\ \E b \in Calls :
                                step[b] = "open" /\ applies[b] # applies[a]))
    /\ UNCHANGED <<plans, planned, applied, compose, running, volume, cutShort>>

\* WriteFile truncates, even a file with the same bytes, ...
OpenCompose(a) ==
    /\ step[a] = "open"
    /\ compose' = Emptied
    /\ GoesTo(a, "write")
    /\ UNCHANGED <<plans, planned, applied, running, volume, raced, cutShort>>

\* ... then writes.
WriteCompose(a) ==
    /\ step[a] = "write"
    /\ compose' = applies[a]
    /\ GoesTo(a, "up")
    /\ UNCHANGED <<plans, planned, applied, running, volume, raced, cutShort>>

WriteFails(a) ==
    /\ step[a] \in {"open", "write"}
    /\ cutShort' = (cutShort \/ step[a] = "write")
    /\ GoesTo(a, "idle")
    /\ UNCHANGED <<plans, planned, applied, compose, running, volume, raced>>

\* docker compose up -d creates the containers from the file as it is now;
\* the first start of PostgreSQL initialises the volume.
Created ==
    /\ compose \in PlanIds
    /\ running' = compose
    /\ volume' = IF volume = 0 THEN compose ELSE volume

Up(a) ==
    /\ step[a] = "up"
    /\ Created
    /\ GoesTo(a, "wait")
    /\ UNCHANGED <<plans, planned, applied, compose, raced, cutShort>>

\* Mutant: a failed start cleans up after itself.
UpFails_Removes(a) ==
    /\ step[a] = "up"
    /\ Created \/ UNCHANGED <<running, volume>>
    /\ compose' = Missing
    /\ GoesTo(a, "idle")
    /\ UNCHANGED <<plans, planned, applied, raced, cutShort>>

\* Two minutes, a cancelled call, Docker's own errors: containers and volume
\* may have been created by then.
UpFails(a) ==
    /\ step[a] = "up"
    /\ Created \/ UNCHANGED <<running, volume>>
    /\ GoesTo(a, "idle")
    /\ UNCHANGED <<plans, planned, applied, compose, raced, cutShort>>

\* waitHealthy: /v1/health answers, or 45 seconds pass, or the call is cancelled.
WaitEnds(a) ==
    /\ step[a] = "wait"
    /\ GoesTo(a, "idle")
    /\ UNCHANGED <<plans, planned, applied, compose, running, volume,
                   raced, cutShort>>

\* The MCP process ends, and every call and plan with it.
EndMcp ==
    /\ plans # {}
    /\ plans' = {}
    /\ step' = [a \in Calls |-> "idle"]
    /\ applies' = [a \in Calls |-> 0]
    /\ cutShort' = (cutShort \/ \E a \in Calls : step[a] = "write")
    /\ UNCHANGED <<planned, applied, compose, running, volume, raced>>

ServerNext ==
    \/ Plan \/ EndMcp
    \/ \E a \in Calls :
         \/ \E p \in PlanIds : BeginApply(a, p)
         \/ ReadCompose(a) \/ OpenCompose(a) \/ WriteCompose(a) \/ WriteFails(a)
         \/ Up(a) \/ UpFails(a) \/ WaitEnds(a)

ServerSpec == ServerInit /\ [][ServerNext]_serverVars

------------------------------------------------------------------------------
(* Properties.                                                             *)

\* Every variable keeps its type.
ServerTypeOK ==
    /\ plans \subseteq PlanIds /\ planned \in 0..MaxPlans
    /\ step \in [Calls -> {"idle", "read", "open", "write", "up", "wait"}]
    /\ applies \in [Calls -> 0..MaxPlans]
    /\ applied \in 0..MaxApplies
    /\ compose \in 0..Emptied
    /\ running \in 0..MaxPlans /\ volume \in 0..MaxPlans
    /\ {raced, cutShort} \subseteq BOOLEAN

\* The server can always log in to its database: no restart of the MCP
\* process, repeated plan, failed call or second plan applied meanwhile creates
\* containers with a password that is not the volume's.  Only two plans that
\* both found no file can, because the check of the existing file
\* (provisioning.go:140) and its write are two system calls; a plan that comes
\* later is refused at whatever point the first one is.
ServerReachesItsDatabase == ~raced => running \in {0, volume}

\* The password of the database is not lost: from the moment the volume has
\* it, it is in the compose file, or about to be written there again.  When a
\* call is cut short after truncating the file, which an apply of the same plan
\* does although it would write the same bytes, the file stays empty: no other
\* plan's password takes the place of the lost one (provisioning.go:140-145).
PasswordStaysOnRecord ==
    volume # 0 /\ ~raced =>
        \/ compose = volume
        \/ \E a \in Calls : step[a] = "write" /\ applies[a] = volume
        \/ cutShort /\ compose = Emptied
=============================================================================

---------------------------- MODULE IdentitySetup ----------------------------
(***************************************************************************)
(* The sign-up commands of one machine - `foostash register`, `foostash    *)
(* join` and the MCP tool identity_setup - and the identity they leave in  *)
(* ~/.foostash/config.yaml, while the server of Accounts handles the       *)
(* requests of everybody.                                                  *)
(*                                                                         *)
(* A command resolves a private key file, takes the public key from the    *)
(* .pub file next to it, sends one sign-up request, and writes the config  *)
(* when the answer is good: os.WriteFile truncates the file first.  The    *)
(* answer may never come (30 s time-out, the process killed) whatever the  *)
(* server does with the request.  The machine runs one such command at a   *)
(* time.                                                                   *)
(***************************************************************************)
EXTENDS Accounts

VARIABLES identity,  \* config.yaml: the identity in it
          setup      \* the command running

setupVars == <<vars, identity, setup>>

\* A config without an identity; an empty or missing file parses as one.
NoIdentity == [key |-> "-", user |-> NoUser]

\* client: the request it waits for.  user: as the answer names it.
NoSetup == [step |-> "idle", client |-> "-", key |-> "-", user |-> NoUser]

SetupInit ==
    /\ Init
    /\ identity = NoIdentity
    /\ setup = NoSetup

------------------------------------------------------------------------------
(* A command.  Its key file is the flag's, the environment's, the one in   *)
(* the config or the default: any key of the machine.                      *)

Begin(c, f, user) ==
    /\ setup.step = "idle"
    /\ setup' = [step |-> "sent", client |-> c, key |-> f, user |-> user]
    /\ UNCHANGED identity

RegisterCmd(c, f, u) == Begin(c, f, u) /\ Register(c, u, f)
JoinCmd(c, f, i) == Begin(c, f, NoUser) /\ Consume(c, i, f)

\* Mutant: the status of the answer is not looked at.
Answer_AnyStatus(c) == IF pc'[c] = "idle" THEN "answered" ELSE "sent"

\* What reaches the command when the server has made a step with its
\* request: nothing yet, the sign-up it committed, or an error.
Answer(c) ==
    CASE pc'[c] # "idle" -> "sent"
      [] pc[c] = "commit" /\ users' # users -> "answered"
      [] OTHER -> "idle"

\* Any step of the server; the command hears what happened to its request.
Serve(c) ==
    /\ SignUp(c) \/ Administer(c) \/ Fail(c)
    /\ IF setup.step # "sent" \/ setup.client # c THEN UNCHANGED setup
       ELSE setup' = IF Answer(c) = "idle" THEN NoSetup
                     ELSE [setup EXCEPT !.step = Answer(c), !.user = tx[c].user]
    /\ UNCHANGED identity

\* LoadGlobal, then SaveGlobal: os.WriteFile opens with O_TRUNC, ...
Truncate ==
    /\ setup.step = "answered"
    /\ setup' = [setup EXCEPT !.step = "write"]
    /\ identity' = NoIdentity
    /\ UNCHANGED <<vars>>

\* The identity written is the key that was sent.
Saved == [key |-> setup.key, user |-> setup.user]

\* ... and writes.
Write ==
    /\ setup.step = "write"
    /\ identity' = Saved
    /\ setup' = NoSetup
    /\ UNCHANGED <<vars>>

\* The process is killed, or stops waiting for the answer.  The request, if
\* the server has it, goes on.
GiveUp ==
    /\ setup.step # "idle"
    /\ setup' = NoSetup
    /\ UNCHANGED <<vars, identity>>

------------------------------------------------------------------------------

SignUpCmd ==
    \E c \in Clients, f \in SSHKeys :
        \/ \E u \in Users : RegisterCmd(c, f, u)
        \/ \E i \in Invites : JoinCmd(c, f, i)

SetupNext ==
    \/ SignUpCmd \/ Truncate \/ Write \/ GiveUp
    \/ \E c \in Clients : Serve(c)
    \/ \E i \in Invites : Expire(i) /\ UNCHANGED <<identity, setup>>

SetupSpec == SetupInit /\ [][SetupNext]_setupVars

------------------------------------------------------------------------------
(* Properties.                                                             *)

\* Every variable keeps its type, those of the server included.
SetupTypeOK ==
    /\ TypeOK
    /\ identity \in [key : SSHKeys \cup {"-"},
                     user : Users \cup {NoUser}]
    /\ setup \in [step : {"idle", "sent", "answered", "write"},
                  client : Clients \cup {"-"}, key : SSHKeys \cup {"-"},
                  user : Users \cup {NoUser}]

\* The identity in config.yaml is one the server knows: its fingerprint
\* belongs to the user it names, whatever requests were lost, repeated or
\* refused on the way, and whoever else signs up.
IdentityIsRegistered ==
    identity # NoIdentity => keys[identity.key] = identity.user
==============================================================================

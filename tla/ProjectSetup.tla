---------------------------- MODULE ProjectSetup ----------------------------
(* What runs on top of Projects: the commands that change a project on the   *)
(* server and then record it in .foostash.yaml. `foostash init` and `foostash  *)
(* envs create|clone|delete` (cli/init.go, cli/envs.go), the MCP tool         *)
(* project_setup (mcpserver/tools.go), and the bare DELETE of a project,      *)
(* which no command issues. All work in one directory, may be killed at any   *)
(* step, their request going on without them, and lose any answer.            *)
(*                                                                            *)
(* A file that is missing, empty or does not parse stops every command that   *)
(* needs it before it changes anything: all three are NoFile.                 *)
EXTENDS Projects

CONSTANTS
    Wanted,      \* the sets of environments setups ask for
    MaxTasks     \* bound: commands started

ASSUME SetupAssumption == Wanted \subseteq SUBSET EnvSlugs /\ MaxTasks \in Nat

VARIABLES
    config,  \* .foostash.yaml
    task,    \* task[c]: the command client c runs
    tasks    \* commands started

vars == <<serverVars, config, task, tasks>>

NoFile == [project |-> "", envs |-> {}]
File(slug, names) == [project |-> slug, envs |-> names]

\* A setup asks for "dev" too, and never creates it (tools.go:211-214).
SetupEnvs(t) == t.file.envs \ {Dev}

NoTask == [kind |-> "", at |-> "none", slug |-> "", left |-> {}, file |-> NoFile, env |-> Dev, source |-> Dev]

EnvCommands == {"create_env", "clone_env", "delete_env"}

Is(c, kind, place) == task[c].kind = kind /\ task[c].at = place
Step(c, place) == task' = [task EXCEPT ![c].at = place]
Begin(c, t) ==
    /\ task[c].at \in {"none", "done"} /\ tasks < MaxTasks
    /\ tasks' = tasks + 1
    /\ task' = [task EXCEPT ![c] = t]
    /\ UNCHANGED <<serverVars, config>>

-----------------------------------------------------------------------------
(* Commands begin *)

StartSetup(c, slug, wanted) ==
    Begin(c, [NoTask EXCEPT !.kind = "setup", !.at = "project", !.slug = slug,
                !.file = File(slug, wanted \cup {Dev})])

StartInit(c, slug) ==
    Begin(c, [NoTask EXCEPT !.kind = "init", !.at = "project", !.slug = slug, !.file = File(slug, {Dev})])

StartEnvCommand(c, kind, env, source) ==
    Begin(c, [NoTask EXCEPT !.kind = kind, !.at = "load", !.env = env, !.source = source])

StartDelete(c, slug) == Begin(c, [NoTask EXCEPT !.kind = "delete", !.at = "project", !.slug = slug])

\* What the file says after the command: appendUnique and removeStr of the
\* name as it was typed.
Edited(kind, file, env) ==
    File(file.project, IF kind = "delete_env" THEN file.envs \ {env} ELSE file.envs \cup {env})

\* loadProjectConfig. What was read is what will be edited and written back.
Loaded(t) ==
    IF config = NoFile THEN [t EXCEPT !.at = "done"]
    ELSE [t EXCEPT !.at = "call", !.slug = config.project, !.file = Edited(t.kind, config, t.env)]

Load(c) ==
    /\ task[c].at = "load" /\ task' = [task EXCEPT ![c] = Loaded(@)]
    /\ UNCHANGED <<serverVars, config, tasks>>

-----------------------------------------------------------------------------
(* Requests and answers *)

Send(c) ==
    LET t == task[c]
    IN  /\ \/ t.at = "project" /\ Call(c, IF t.kind = "delete" THEN "delete" ELSE "create", t.slug, Dev, Dev)
           \/ t.at = "envs" /\ \E e \in t.left : Call(c, "create_env", t.slug, e, Dev)
           \/ t.at = "call" /\ Call(c, t.kind, t.slug, t.env, t.source)
        /\ UNCHANGED <<config, task, tasks>>

Hang(c) == req' = [req EXCEPT ![c] = NoRequest] /\ UNCHANGED <<projects, envs, made, fails, dropped>>

\* Mutant: a project or an environment that exists already is an error.
Tolerates_Nothing(kind, answer) == answer = "ok"
\* apiCode(err, 409, ...): a setup goes on with what is there.
Tolerates(kind, answer) ==
    answer = "ok" \/ (kind = "setup" /\ answer \in {"project_exists", "env_exists"})

\* Mutant: the file is written whatever the server answered.
HearError_SavesAnyway(c) ==
    /\ At(c, "reply") /\ task[c].at \in {"project", "envs", "call"}
    /\ ~Tolerates(task[c].kind, req[c].answer)
    /\ Step(c, IF task[c].kind = "setup" THEN "retry" ELSE "truncate")
    /\ Hang(c) /\ UNCHANGED <<config, tasks>>

\* The command stops. Whoever asked for a setup asks again.
HearError(c) ==
    /\ At(c, "reply") /\ task[c].at \in {"project", "envs", "call"}
    /\ ~Tolerates(task[c].kind, req[c].answer)
    /\ Step(c, IF task[c].kind = "setup" THEN "retry" ELSE "done")
    /\ Hang(c) /\ UNCHANGED <<config, tasks>>

AfterAnswer(t, env) ==
    LET left == CASE t.at = "project" -> SetupEnvs(t) [] t.at = "envs" -> t.left \ {env}
    IN  IF t.kind = "delete" THEN [t EXCEPT !.at = "done"]
        ELSE IF t.kind = "setup" /\ left # {} THEN [t EXCEPT !.at = "envs", !.left = left]
        ELSE [t EXCEPT !.at = "truncate", !.left = {}]

HearOk(c) ==
    /\ At(c, "reply") /\ task[c].at \in {"project", "envs", "call"}
    /\ Tolerates(task[c].kind, req[c].answer)
    /\ task' = [task EXCEPT ![c] = AfterAnswer(@, req[c].env)]
    /\ Hang(c) /\ UNCHANGED <<config, tasks>>

Retry(c) ==
    /\ task[c].at = "retry" /\ Step(c, "project")
    /\ UNCHANGED <<serverVars, config, tasks>>

-----------------------------------------------------------------------------
(* The file *)

\* os.WriteFile opens with O_TRUNC ...
Truncate(c) ==
    /\ task[c].at = "truncate" /\ Step(c, "write")
    /\ config' = NoFile
    /\ UNCHANGED <<serverVars, tasks>>

\* ... and writes from the start. Over what another command wrote meanwhile the
\* tail of the longer list shows, or the text no longer parses.
Write(c) ==
    LET mine == task[c].file
    IN  /\ task[c].at = "write" /\ Step(c, "done")
        /\ config' \in IF config = NoFile THEN {mine}
                        ELSE {mine, NoFile, File(mine.project, mine.envs \cup config.envs)}
        /\ UNCHANGED <<serverVars, tasks>>

-----------------------------------------------------------------------------
(* Crashes *)

Kill(c) ==
    /\ task[c].at \notin {"none", "done", "killed", "retry"}
    /\ fails < MaxFails /\ fails' = fails + 1
    /\ Step(c, "killed")
    /\ UNCHANGED <<projects, envs, req, made, dropped, config, tasks>>

\* The server's answer, if it was to answer, finds nobody.
Bury(c) ==
    /\ task[c].at = "killed" /\ req[c].at \in {"idle", "reply"}
    /\ Step(c, IF task[c].kind = "setup" THEN "retry" ELSE "done")
    /\ Hang(c) /\ UNCHANGED <<config, tasks>>

-----------------------------------------------------------------------------

Init == InitServer /\ config = NoFile /\ task = [c \in Clients |-> NoTask] /\ tasks = 0

\* What a client does of itself once a command has begun, and the server for it
Proceed(c) ==
    \/ Load(c) \/ Send(c) \/ HearOk(c) \/ HearError(c) \/ Retry(c)
    \/ Truncate(c) \/ Write(c) \/ Bury(c)
Serve(c) == Statement(c) /\ UNCHANGED <<config, task, tasks>>
Fail(c) == FailRequest(c) /\ UNCHANGED <<config, task, tasks>>

Start(c) ==
    \/ \E slug \in Slugs :
          StartInit(c, slug) \/ StartDelete(c, slug) \/ \E wanted \in Wanted : StartSetup(c, slug, wanted)
    \/ \E env \in EnvNames :
          \/ \E kind \in EnvCommands \ {"clone_env"} : StartEnvCommand(c, kind, env, Dev)
          \/ \E source \in EnvSlugs : StartEnvCommand(c, "clone_env", env, source)

Next == \E c \in Clients : Start(c) \/ Proceed(c) \/ Serve(c) \/ Fail(c) \/ Kill(c)

Spec == Init /\ [][Next]_vars

\* Running commands and the server go on; nobody has to start, fail or kill
\* anything. Retry is the user's, or the agent's, patience with project_setup.
FairSpec == Spec /\ \A c \in Clients : WF_vars(Proceed(c)) /\ WF_vars(Serve(c))

-----------------------------------------------------------------------------
(* Properties *)

\* Every variable keeps its type.
TypeOK ==
    /\ ServerTypeOK
    /\ config \in [project : Slugs \cup {""}, envs : SUBSET EnvNames]
    /\ task \in [Clients -> [kind : {"", "setup", "init", "delete"} \cup EnvCommands,
                             at : {"none", "project", "envs", "load", "call", "truncate", "write",
                                   "done", "retry", "killed"},
                             slug : Slugs \cup {""}, left : SUBSET EnvSlugs,
                             file : [project : Slugs \cup {""}, envs : SUBSET EnvNames],
                             env : EnvNames, source : EnvSlugs]]
    /\ tasks \in 0 .. MaxTasks

\* Every environment .foostash.yaml names exists on the server under its slug,
\* or did until somebody deleted it or its project: whatever command failed,
\* was killed, lost its answer or raced with another (init.go:36-48,
\* envs.go:70-78, tools.go:211-228).
ConfigNamesRealEnvs ==
    config # NoFile =>
      \A n \in config.envs :
        \/ \E p \in Named(config.project) : EnvRow(p.id, SlugOf[n]) \in envs
        \/ <<config.project, SlugOf[n]>> \in dropped

\* A project_setup that is asked for again until it succeeds does succeed,
\* wherever an earlier attempt stopped and whatever the others create or delete
\* meanwhile (tools.go:201-219).
SetupEnds == \A c \in Clients :
    (task[c].kind = "setup" /\ task[c].at # "done") ~> task[c].at = "done"
=============================================================================

------------------------------ MODULE Projects ------------------------------
(* Projects and environments of one organisation on the server: the admin    *)
(* requests of internal/service/projects.go as the SQL statements they issue  *)
(* (internal/repo/projects.go, environments.go), interleaved statement by     *)
(* statement under READ COMMITTED, any of them failing at any statement.      *)
(*                                                                            *)
(* A project is its id and slug, an environment the id of its project and its *)
(* slug. Rows an open transaction inserted are invisible to others, who wait  *)
(* when they insert the same slug, and lock the project they refer to.        *)
EXTENDS Integers, FiniteSets

CONSTANTS
    Clients,     \* one request in flight each
    Slugs,       \* of projects
    EnvNames,    \* names of environments that users give
    SlugOf,      \* Slugify, on names of environments
    MaxProjects, \* bound: projects inserted
    MaxFails     \* bound: requests and clients that fail

Dev == "dev"
EnvSlugs == {SlugOf[n] : n \in EnvNames}

ASSUME ProjectsAssumption ==
    /\ SlugOf \in [EnvNames -> EnvNames] /\ \A s \in EnvSlugs : SlugOf[s] = s
    /\ Dev \in EnvSlugs
    /\ MaxProjects \in Nat /\ MaxFails \in Nat

VARIABLES
    projects,   \* committed rows of projects
    envs,       \* committed rows of environments
    req,        \* req[c]: the request of client c and the statement it is at
    made,       \* ids drawn for projects
    fails,
    dropped     \* history: environments once deleted, each as <<project slug, slug>>

serverVars == <<projects, envs, req, made, fails, dropped>>

Row(id, slug) == [id |-> id, slug |-> slug]
EnvRow(id, slug) == [project |-> id, slug |-> slug]

NoRequest == [at |-> "idle", op |-> "", slug |-> "", env |-> Dev, source |-> Dev, id |-> 0, answer |-> ""]

At(c, place) == req[c].at = place
GoTo(c, place) == req' = [req EXCEPT ![c].at = place]
GoWith(c, place, id) == req' = [req EXCEPT ![c].at = place, ![c].id = id]
Answer(c, answer) == req' = [req EXCEPT ![c].at = "reply", ![c].answer = answer]

Named(slug) == {p \in projects : p.slug = slug}

\* The environments of the projects with these ids, as the history keeps them.
EnvsOf(ps) == UNION {{<<p.slug, e.slug>> : e \in {x \in envs : x.project = p.id}} : p \in ps}

-----------------------------------------------------------------------------
(* Create *)

\* A request arrives; RequireRole("admin") let it pass.
Call(c, op, slug, env, source) ==
    /\ At(c, "idle")
    /\ req' = [req EXCEPT ![c] = [NoRequest EXCEPT
                 !.at = "start", !.op = op, !.slug = slug, !.env = env, !.source = source]]
    /\ UNCHANGED <<projects, envs, made, fails, dropped>>

\* GetBySlug before the transaction
CheckName(c) ==
    /\ At(c, "start") /\ req[c].op = "create"
    /\ IF Named(req[c].slug) # {} THEN Answer(c, "project_exists") ELSE GoTo(c, "project")
    /\ UNCHANGED <<projects, envs, made, fails, dropped>>

\* Another transaction has inserted the slug and may still commit.
SlugPending(c, slug) ==
    \E d \in Clients \ {c} : At(d, "commit") /\ req[d].op = "create" /\ req[d].slug = slug

\* UNIQUE(org_id, slug).
SlugTaken(slug) == Named(slug) # {}

\* Mutant: the project committed before its environment is inserted.
InsertProject_AutoCommit(c) ==
    /\ At(c, "project") /\ made < MaxProjects
    /\ ~SlugPending(c, req[c].slug)
    /\ IF SlugTaken(req[c].slug)
         THEN Answer(c, "project_exists") /\ UNCHANGED <<projects, made>>
         ELSE /\ GoWith(c, "commit", made + 1)
              /\ made' = made + 1
              /\ projects' = projects \cup {Row(made + 1, req[c].slug)}
    /\ UNCHANGED <<envs, fails, dropped>>

\* Projects.Insert, and Environments.Insert of "dev", which nothing can refuse.
InsertProject(c) ==
    /\ At(c, "project") /\ made < MaxProjects
    /\ ~SlugPending(c, req[c].slug)
    /\ IF SlugTaken(req[c].slug)
         THEN Answer(c, "project_exists") /\ UNCHANGED made
         ELSE GoWith(c, "commit", made + 1) /\ made' = made + 1
    /\ UNCHANGED <<projects, envs, fails, dropped>>

CommitProject(c) ==
    /\ At(c, "commit") /\ req[c].op = "create"
    /\ projects' = projects \cup {Row(req[c].id, req[c].slug)}
    /\ envs' = envs \cup {EnvRow(req[c].id, Dev)}
    /\ Answer(c, "ok")
    /\ UNCHANGED <<made, fails, dropped>>

-----------------------------------------------------------------------------
(* Requests on a project that exists *)

\* The statement that follows requireProject
AfterResolve(op) ==
    CASE op = "delete" -> "delete" [] op = "create_env" -> "env"
      [] op = "clone_env" -> "source" [] op = "delete_env" -> "delete_env"

\* requireProject. The id is used later, whatever happens to the project.
Resolve(c) ==
    /\ At(c, "start") /\ req[c].op # "create"
    /\ IF Named(req[c].slug) = {}
         THEN Answer(c, "project_not_found")
         ELSE \E p \in Named(req[c].slug) : GoWith(c, AfterResolve(req[c].op), p.id)
    /\ UNCHANGED <<projects, envs, made, fails, dropped>>

\* The share locks of environments inserted and not committed
Shared(id) == \E d \in Clients : At(d, "commit") /\ req[d].op = "clone_env" /\ req[d].id = id

\* DELETE by slug, not by the id that was resolved; environments cascade.
DeleteProject(c) ==
    /\ At(c, "delete")
    /\ LET victims == Named(req[c].slug)
       IN  /\ \A p \in victims : ~Shared(p.id)
           /\ projects' = projects \ victims
           /\ envs' = {e \in envs : \A p \in victims : e.project # p.id}
           /\ dropped' = dropped \cup EnvsOf(victims)
           /\ Answer(c, IF victims = {} THEN "project_not_found" ELSE "ok")
    /\ UNCHANGED <<made, fails>>

\* Environments.Clone looks for its source.
ReadSource(c) ==
    /\ At(c, "source")
    /\ IF EnvRow(req[c].id, req[c].source) \in envs THEN GoTo(c, "env") ELSE Answer(c, "env_not_found")
    /\ UNCHANGED <<projects, envs, made, fails, dropped>>

\* Slugify at the start of Create and Clone
NewEnv(c) == EnvRow(req[c].id, SlugOf[req[c].env])

EnvPending(c) ==
    \E d \in Clients \ {c} : At(d, "commit") /\ req[d].op = "clone_env" /\ NewEnv(d) = NewEnv(c)

\* REFERENCES projects(id).  Mutant: the table without it.
ProjectPresent_Unchecked(id) == TRUE
ProjectPresent(id) == \E p \in projects : p.id = id

\* Environments.Insert: on its own in Create, in a transaction in Clone.
InsertEnv(c) ==
    /\ At(c, "env")
    /\ ~EnvPending(c)
    /\ \/ NewEnv(c) \in envs /\ Answer(c, "env_exists") /\ UNCHANGED envs
       \/ ~ProjectPresent(req[c].id) /\ Answer(c, "internal") /\ UNCHANGED envs
       \/ /\ NewEnv(c) \notin envs /\ ProjectPresent(req[c].id)
          /\ IF req[c].op = "clone_env"
               THEN GoTo(c, "commit") /\ UNCHANGED envs
               ELSE envs' = envs \cup {NewEnv(c)} /\ Answer(c, "ok")
    /\ UNCHANGED <<projects, made, fails, dropped>>

CommitClone(c) ==
    /\ At(c, "commit") /\ req[c].op = "clone_env"
    /\ envs' = envs \cup {NewEnv(c)}
    /\ Answer(c, "ok")
    /\ UNCHANGED <<projects, made, fails, dropped>>

\* By the id that was resolved and the name as the user gave it.
DeleteEnv(c) ==
    /\ At(c, "delete_env")
    /\ LET victim == EnvRow(req[c].id, req[c].env)
       IN  IF victim \in envs
             THEN envs' = envs \ {victim} /\ dropped' = dropped \cup {<<req[c].slug, req[c].env>>}
                  /\ Answer(c, "ok")
             ELSE UNCHANGED <<envs, dropped>> /\ Answer(c, "env_not_found")
    /\ UNCHANGED <<projects, made, fails>>

\* A statement fails and the transaction with it, or the answer gets lost.
FailRequest(c) ==
    /\ req[c].at # "idle" /\ req[c].answer # "failed"
    /\ fails < MaxFails /\ fails' = fails + 1
    /\ Answer(c, "failed")
    /\ UNCHANGED <<projects, envs, made, dropped>>

InitServer ==
    /\ projects = {} /\ envs = {} /\ made = 0 /\ fails = 0 /\ dropped = {}
    /\ req = [c \in Clients |-> NoRequest]

Statement(c) ==
    \/ CheckName(c) \/ InsertProject(c) \/ CommitProject(c)
    \/ Resolve(c) \/ DeleteProject(c)
    \/ ReadSource(c) \/ InsertEnv(c) \/ CommitClone(c) \/ DeleteEnv(c)

-----------------------------------------------------------------------------
(* Properties *)

\* Every variable of the server keeps its type.
ServerTypeOK ==
    /\ projects \subseteq [id : 1 .. made, slug : Slugs]
    /\ envs \subseteq [project : 1 .. made, slug : EnvSlugs]
    /\ req \in [Clients -> [at : {"idle", "start", "project", "commit", "delete", "env", "source",
                                  "delete_env", "reply"},
                            op : {"", "create", "delete", "create_env", "clone_env", "delete_env"},
                            slug : Slugs \cup {""}, env : EnvNames, source : EnvNames,
                            id : 0 .. made,
                            answer : {"", "ok", "failed", "internal", "project_exists",
                                      "project_not_found", "env_exists", "env_not_found"}]]
    /\ made \in 0 .. MaxProjects /\ fails \in 0 .. MaxFails

\* Every environment has its project, although the project may be deleted
\* between requireProject and the insert (projects.go:176-180), and a slug
\* names one project, although two requests may both have seen it free
\* (projects.go:68-75).
EnvsHaveTheirProject ==
    /\ \A e \in envs : \E p \in projects : p.id = e.project
    /\ \A p, q \in projects : p.slug = q.slug => p = q

\* A project starts with the environment "dev", whatever request failed where
\* (projects.go:75-88), and lacks it only after somebody deleted it.
ProjectsStartWithDev ==
    \A p \in projects : EnvRow(p.id, Dev) \in envs \/ <<p.slug, Dev>> \in dropped
=============================================================================

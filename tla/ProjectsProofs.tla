--------------------------- MODULE ProjectsProofs ---------------------------
(***************************************************************************)
(* Proofs, for any number of clients and commands: an environment has its  *)
(* project, a slug names one project, and a project keeps the environment  *)
(* "dev" it started with until somebody deletes it, whatever the requests  *)
(* that run at the same time and wherever they fail; and .foostash.yaml    *)
(* names environments the server had, if the machine's commands are for    *)
(* one project.                                                            *)
(***************************************************************************)
EXTENDS ProjectSetup, TLAPS

Names == Slugs \cup {""}
ReqTypes ==
    [at : {"idle", "start", "project", "commit", "delete", "env", "source",
           "delete_env", "reply"},
     op : {"", "create", "delete", "create_env", "clone_env", "delete_env"},
     slug : Names, env : EnvNames, source : EnvNames, id : Nat,
     answer : {"", "ok", "failed", "internal", "project_exists",
               "project_not_found", "env_exists", "env_not_found"}]
TaskTypes ==
    [kind : {"", "setup", "init", "delete"} \cup EnvCommands,
     at : {"none", "project", "envs", "load", "call", "truncate", "write",
           "done", "retry", "killed"},
     slug : Names, left : SUBSET EnvNames,
     file : [project : Names, envs : SUBSET EnvNames],
     env : EnvNames, source : EnvNames]

\* Only create inserts projects; only environments' commands read the file.
ReqTyped ==
    /\ req \in [Clients -> ReqTypes]
    /\ \A c \in Clients :
          /\ At(c, "start") => req[c].op # ""
          /\ At(c, "project") => req[c].op = "create"
    /\ made \in Nat
TaskTyped ==
    /\ task \in [Clients -> TaskTypes]
    /\ \A c \in Clients : task[c].at \in {"load", "call"} => task[c].kind \in EnvCommands
    /\ config \in [project : Names, envs : SUBSET EnvNames]
Typed == ReqTyped /\ TaskTyped

Creating(c) == At(c, "commit") /\ req[c].op = "create"
Cloning(c) == At(c, "commit") /\ req[c].op = "clone_env"

\* Ids are drawn once.  What a transaction has inserted is nobody else's,
\* and what a request has resolved keeps its slug as long as it is there.
Drawn ==
    /\ \A p \in projects : p.id \in Nat /\ p.id <= made
    /\ \A c \in Clients : req[c].id <= made
    /\ \A p, q \in projects : p.id = q.id => p = q
    /\ \A c \in Clients : Creating(c) =>
          /\ \A p \in projects : p.slug # req[c].slug /\ p.id # req[c].id
          /\ \A d \in Clients \ {c} :
                Creating(d) => req[d].slug # req[c].slug /\ req[d].id # req[c].id
    /\ \A c \in Clients : At(c, "delete_env") =>
          /\ \A p \in projects : p.id = req[c].id => p.slug = req[c].slug
          /\ \A d \in Clients : Creating(d) => req[d].id # req[c].id

\* A clone that is not committed holds its project in place.
Held == \A c \in Clients : Cloning(c) => ProjectPresent(req[c].id)

ServerInv == Drawn /\ Held /\ EnvsHaveTheirProject /\ ProjectsStartWithDev
IndInv == Typed /\ ServerInv

LEMMA NamesOfEnvs ==
    /\ Dev \in EnvNames /\ EnvSlugs \subseteq EnvNames
    /\ \A n \in EnvNames : SlugOf[n] \in EnvNames
  BY ProjectsAssumption DEF EnvSlugs

------------------------------------------------------------------------------
(* The request of one client.                                              *)

Others(c) == \A d \in Clients \ {c} : req'[d] = req[d]
Same(c) == /\ req'[c].op = req[c].op /\ req'[c].slug = req[c].slug
           /\ req'[c].env = req[c].env /\ req'[c].source = req[c].source

LEMMA Goes ==
    ASSUME Typed, NEW c \in Clients,
           NEW place \in {"idle", "start", "project", "commit", "delete", "env", "source",
                          "delete_env", "reply"}
    PROVE  /\ GoTo(c, place) =>
                /\ req' \in [Clients -> ReqTypes] /\ Others(c)
                /\ req'[c].at = place /\ req'[c].id = req[c].id /\ Same(c)
           /\ \A i \in Nat : GoWith(c, place, i) =>
                /\ req' \in [Clients -> ReqTypes] /\ Others(c)
                /\ req'[c].at = place /\ req'[c].id = i /\ Same(c)
<1>1. req \in [Clients -> ReqTypes] /\ req[c] \in ReqTypes
  BY DEF Typed, ReqTyped
<1>2. /\ [req[c] EXCEPT !.at = place] \in ReqTypes
      /\ \A i \in Nat : [req[c] EXCEPT !.at = place, !.id = i] \in ReqTypes
  BY <1>1 DEF ReqTypes
<1>3. ASSUME GoTo(c, place)
      PROVE  /\ req' \in [Clients -> ReqTypes] /\ Others(c)
             /\ req'[c].at = place /\ req'[c].id = req[c].id /\ Same(c)
  <2>1. req'[c] = [req[c] EXCEPT !.at = place]
    BY <1>1, <1>3 DEF GoTo
  <2>2. /\ req'[c].at = place /\ req'[c].id = req[c].id /\ Same(c)
    BY <1>1, <2>1 DEF ReqTypes, Same
  <2>3. QED
    BY <1>1, <1>2, <1>3, <2>2 DEF GoTo, Others
<1>4. ASSUME NEW i \in Nat, GoWith(c, place, i)
      PROVE  /\ req' \in [Clients -> ReqTypes] /\ Others(c)
             /\ req'[c].at = place /\ req'[c].id = i /\ Same(c)
  <2>1. req'[c] = [req[c] EXCEPT !.at = place, !.id = i]
    BY <1>1, <1>4 DEF GoWith
  <2>2. /\ req'[c].at = place /\ req'[c].id = i /\ Same(c)
    BY <1>1, <2>1 DEF ReqTypes, Same
  <2>3. QED
    BY <1>1, <1>2, <1>4, <2>2 DEF GoWith, Others
<1>5. QED
  BY <1>3, <1>4

LEMMA Answers ==
    ASSUME Typed, NEW c \in Clients,
           NEW answer \in {"", "ok", "failed", "internal", "project_exists",
                           "project_not_found", "env_exists", "env_not_found"},
           Answer(c, answer)
    PROVE  req' \in [Clients -> ReqTypes] /\ Others(c) /\ req'[c].at = "reply"
                /\ req'[c].id = req[c].id /\ Same(c)
<1>1. req \in [Clients -> ReqTypes] /\ req[c] \in ReqTypes
  BY DEF Typed, ReqTyped
<1>2. [req[c] EXCEPT !.at = "reply", !.answer = answer] \in ReqTypes
  BY <1>1 DEF ReqTypes
<1>3. req'[c] = [req[c] EXCEPT !.at = "reply", !.answer = answer]
  BY <1>1 DEF Answer
<1>4. QED
  BY <1>1, <1>2, <1>3 DEF Answer, Others, ReqTypes, Same

LEMMA Hangs ==
    ASSUME Typed, NEW c \in Clients, Hang(c)
    PROVE  /\ req' \in [Clients -> ReqTypes] /\ Others(c)
           /\ req'[c].at = "idle" /\ req'[c].id = 0
<1>1. NoRequest \in ReqTypes
  BY NamesOfEnvs DEF NoRequest, ReqTypes, Names
<1>2. QED
  BY <1>1 DEF Typed, ReqTyped, Hang, Others, NoRequest

LEMMA Calls ==
    ASSUME Typed, NEW c \in Clients, NEW slug \in Names, NEW env \in EnvNames,
           NEW source \in EnvNames,
           NEW op \in {"create", "delete", "create_env", "clone_env", "delete_env"},
           Call(c, op, slug, env, source)
    PROVE  /\ req' \in [Clients -> ReqTypes] /\ Others(c)
           /\ req'[c].at = "start" /\ req'[c].id = 0 /\ req'[c].op # ""
<1> DEFINE r == [NoRequest EXCEPT !.at = "start", !.op = op, !.slug = slug, !.env = env,
                                  !.source = source]
<1>1. r \in ReqTypes /\ r.at = "start" /\ r.id = 0 /\ r.op # ""
  BY DEF NoRequest, ReqTypes
<1>2. req' = [req EXCEPT ![c] = r]
  BY DEF Call
<1> HIDE DEF r
<1>3. QED
  BY <1>1, <1>2 DEF Typed, ReqTyped, Others

------------------------------------------------------------------------------
(* Steps that leave the tables alone.                                      *)

\* A request moves without inserting or resolving anything.
\* What was pending was pending before, and is another's.
Pending(c) ==
    \A d \in Clients :
        /\ Creating(d)' => d # c /\ Creating(d) /\ req'[d] = req[d]
        /\ Cloning(d)' => d # c /\ Cloning(d) /\ req'[d] = req[d]
        /\ At(d, "delete_env")' => d # c /\ At(d, "delete_env") /\ req'[d] = req[d]

LEMMA OnlyOthers ==
    ASSUME NEW c \in Clients, Others(c),
           req'[c].at # "commit", req'[c].at # "delete_env"
    PROVE  Pending(c)
  BY DEF Pending, Others, Creating, Cloning, At

LEMMA QuietInv ==
    ASSUME Typed, ServerInv, NEW c \in Clients, Others(c),
           UNCHANGED <<projects, envs, dropped>>,
           made' \in Nat, made <= made', req'[c].id <= made',
           req'[c].at # "commit", req'[c].at # "delete_env"
    PROVE  ServerInv'
<1>1. \A d \in Clients \ {c} : req[d].id \in Nat /\ made \in Nat
  BY DEF Typed, ReqTyped, ReqTypes
<1>2. Pending(c)
  BY OnlyOthers
<1>3. Drawn'
  <2>1. \A p \in projects : p.id \in Nat /\ p.id <= made'
    <3>1. made \in Nat /\ \A p \in projects : p.id \in Nat /\ p.id <= made
      BY DEF ServerInv, Drawn, Typed, ReqTyped
    <3>2. QED
      BY <3>1
  <2>2. ASSUME NEW d \in Clients PROVE req'[d].id <= made'
    <3>1. CASE d = c
      BY <3>1
    <3>2. CASE d # c
      BY <1>1, <3>2 DEF ServerInv, Drawn, Others
    <3>3. QED
      BY <3>1, <3>2
  <2>3. QED
    BY <1>2, <2>1, <2>2 DEF ServerInv, Drawn, Pending
<1>4. Held'
  BY <1>2 DEF ServerInv, Held, ProjectPresent, Pending
<1>5. EnvsHaveTheirProject' /\ ProjectsStartWithDev'
  BY DEF ServerInv, EnvsHaveTheirProject, ProjectsStartWithDev
<1>6. QED
  BY <1>3, <1>4, <1>5 DEF ServerInv

------------------------------------------------------------------------------
(* The statements.                                                         *)

LEMMA InsertProjectInv ==
    ASSUME Typed, ServerInv, NEW c \in Clients, InsertProject(c)
    PROVE  ServerInv' /\ req' \in [Clients -> ReqTypes]
<1>1. CASE SlugTaken(req[c].slug)
  <2>1. Answer(c, "project_exists") /\ UNCHANGED <<made, projects, envs, dropped>>
    BY <1>1 DEF InsertProject
  <2>2. req' \in [Clients -> ReqTypes] /\ Others(c) /\ req'[c].at = "reply"
             /\ req'[c].id = req[c].id
    BY <2>1, Answers
  <2>3. made \in Nat /\ req[c].id <= made
    BY DEF Typed, ReqTyped, ServerInv, Drawn
  <2>4. QED
    BY <2>1, <2>2, <2>3, QuietInv
<1>2. CASE ~SlugTaken(req[c].slug)
  <2>1. /\ GoWith(c, "commit", made + 1) /\ made' = made + 1 /\ made \in Nat
        /\ UNCHANGED <<projects, envs, dropped>>
        /\ req[c].at = "project" /\ ~SlugPending(c, req[c].slug)
    BY <1>2 DEF InsertProject, At, Typed, ReqTyped
  <2>2. /\ req' \in [Clients -> ReqTypes] /\ Others(c)
        /\ req'[c].at = "commit" /\ req'[c].id = made + 1
        /\ req'[c].slug = req[c].slug /\ req'[c].op = req[c].op
    <3>1. made + 1 \in Nat
      BY <2>1
    <3>2. QED
      BY <2>1, <3>1, Goes DEF Same
  <2>3. \A d \in Clients \ {c} : req'[d] = req[d] /\ req[d].id \in Nat /\ req[d].id <= made
    BY <2>2 DEF Others, Typed, ReqTyped, ReqTypes, ServerInv, Drawn
  <2>4. \A p \in projects : p.slug # req[c].slug
    BY <1>2 DEF SlugTaken, Named
  <2>5. \A d \in Clients \ {c} : Creating(d) => req[d].slug # req[c].slug
    BY <2>1 DEF SlugPending, Creating
  <2>6. Drawn'
    <3>1. /\ \A p \in projects : p.id \in Nat /\ p.id <= made /\ p.id # made + 1
          /\ \A p \in projects : p.id <= made + 1
      BY <2>1 DEF ServerInv, Drawn
    <3>2. \A d \in Clients \ {c} : req[d].id # made + 1 /\ req[d].id <= made + 1
      BY <2>1, <2>3
    <3>3. QED
      BY <2>1, <2>2, <2>3, <2>4, <2>5, <3>1, <3>2 DEF ServerInv, Drawn, Creating, At
  <2>7. Held'
    <3>1. req[c].op # "clone_env"
      BY <2>1 DEF Typed, ReqTyped, At
    <3>2. QED
      BY <2>1, <2>2, <2>3, <3>1 DEF ServerInv, Held, Cloning, At, ProjectPresent
  <2>8. EnvsHaveTheirProject' /\ ProjectsStartWithDev'
    BY <2>1 DEF ServerInv, EnvsHaveTheirProject, ProjectsStartWithDev
  <2>9. QED
    BY <2>2, <2>6, <2>7, <2>8 DEF ServerInv
<1>3. QED
  BY <1>1, <1>2

LEMMA CommitProjectInv ==
    ASSUME Typed, ServerInv, NEW c \in Clients, CommitProject(c)
    PROVE  ServerInv' /\ req' \in [Clients -> ReqTypes] /\ At(c, "reply")' /\ Others(c)
<1> DEFINE new == Row(req[c].id, req[c].slug)
           dev == EnvRow(req[c].id, Dev)
<1>1. /\ Creating(c) /\ projects' = projects \cup {new} /\ envs' = envs \cup {dev}
      /\ Answer(c, "ok") /\ UNCHANGED <<made, dropped>>
  BY DEF CommitProject, Creating
<1>2. /\ req' \in [Clients -> ReqTypes] /\ Others(c) /\ req'[c].at = "reply"
      /\ req'[c].id = req[c].id
  BY <1>1, Answers
<1>3. new.id = req[c].id /\ new.slug = req[c].slug /\ dev.project = req[c].id
  BY DEF Row, EnvRow
<1>4. req[c].id \in Nat /\ req[c].id <= made
  BY DEF Typed, ReqTyped, ReqTypes, ServerInv, Drawn
<1> HIDE DEF new, dev
<1>5. \A d \in Clients \ {c} : req'[d] = req[d]
  BY <1>2 DEF Others
<1>6. Drawn'
  <2>1. \A d \in Clients : Creating(d)' => d # c /\ Creating(d)
    BY <1>2, <1>5 DEF Creating, At
  <2>2. \A d \in Clients : At(d, "delete_env")' => d # c /\ At(d, "delete_env")
    BY <1>2, <1>5 DEF At
  <2>3. /\ \A p \in projects' : p.id \in Nat /\ p.id <= made
        /\ \A d \in Clients : req'[d].id <= made
        /\ \A p, q \in projects' : p.id = q.id => p = q
    BY <1>1, <1>2, <1>3, <1>4, <1>5 DEF ServerInv, Drawn
  <2>4. ASSUME NEW d \in Clients, Creating(d)'
        PROVE  /\ \A p \in projects' : p.slug # req'[d].slug /\ p.id # req'[d].id
               /\ \A e \in Clients \ {d} :
                     Creating(e)' => req'[e].slug # req'[d].slug /\ req'[e].id # req'[d].id
    BY <1>1, <1>3, <1>5, <2>1, <2>4 DEF ServerInv, Drawn
  <2>5. ASSUME NEW d \in Clients, At(d, "delete_env")'
        PROVE  /\ \A p \in projects' : p.id = req'[d].id => p.slug = req'[d].slug
               /\ \A e \in Clients : Creating(e)' => req'[e].id # req'[d].id
    BY <1>1, <1>3, <1>5, <2>1, <2>2, <2>5 DEF ServerInv, Drawn
  <2>6. QED
    BY <1>1, <2>3, <2>4, <2>5 DEF Drawn
<1>7. Held'
  BY <1>1, <1>2, <1>5 DEF ServerInv, Held, Cloning, At, ProjectPresent
<1>8. EnvsHaveTheirProject'
  <2>1. \A p \in projects : p.slug # new.slug
    BY <1>1, <1>3 DEF ServerInv, Drawn
  <2>2. QED
    BY <1>1, <1>3, <2>1 DEF ServerInv, EnvsHaveTheirProject
<1>9. ProjectsStartWithDev'
  <2>1. EnvRow(new.id, Dev) = dev
    BY <1>3 DEF dev
  <2>2. QED
    BY <1>1, <2>1 DEF ServerInv, ProjectsStartWithDev
<1>10. QED
  BY <1>2, <1>6, <1>7, <1>8, <1>9 DEF ServerInv, At

LEMMA ResolveInv ==
    ASSUME Typed, ServerInv, NEW c \in Clients, Resolve(c)
    PROVE  ServerInv' /\ req' \in [Clients -> ReqTypes] /\ ~At(c, "project")'
             /\ ~At(c, "start")' /\ Others(c)
<1>1. UNCHANGED <<projects, envs, dropped, made>> /\ made \in Nat
  BY DEF Resolve, Typed, ReqTyped
<1>2. CASE Named(req[c].slug) = {}
  <2>1. /\ req' \in [Clients -> ReqTypes] /\ Others(c) /\ req'[c].at = "reply"
        /\ req'[c].id = req[c].id
    BY <1>2, Answers DEF Resolve
  <2>2. req[c].id <= made
    BY DEF ServerInv, Drawn
  <2>3. QED
    BY <1>1, <2>1, <2>2, QuietInv DEF At
<1>3. CASE Named(req[c].slug) # {}
  <2>1. PICK p \in Named(req[c].slug) : GoWith(c, AfterResolve(req[c].op), p.id)
    BY <1>3 DEF Resolve
  <2>2. p \in projects /\ p.slug = req[c].slug /\ p.id \in Nat /\ p.id <= made
    BY DEF Named, ServerInv, Drawn
  <2> DEFINE place == AfterResolve(req[c].op)
  <2>3. place \in {"delete", "env", "source", "delete_env"}
    <3>1. req[c].op \in {"", "create", "delete", "create_env", "clone_env", "delete_env"}
      BY DEF Typed, ReqTyped, ReqTypes
    <3>2. At(c, "start") /\ req[c].op # "create"
      BY DEF Resolve
    <3>3. req[c].op # ""
      BY <3>2 DEF Typed, ReqTyped
    <3>4. QED
      BY <3>1, <3>2, <3>3 DEF AfterResolve
  <2> HIDE DEF place
  <2>4. /\ req' \in [Clients -> ReqTypes] /\ Others(c)
        /\ req'[c].at = place /\ req'[c].id = p.id /\ req'[c].slug = req[c].slug
    BY <2>1, <2>2, <2>3, Goes DEF Same, place
  <2>5. CASE place # "delete_env"
    BY <1>1, <2>2, <2>3, <2>4, <2>5, QuietInv DEF At
  <2>6. CASE place = "delete_env"
    <3>1. \A d \in Clients : /\ Creating(d)' => d # c /\ Creating(d) /\ req'[d] = req[d]
                             /\ Cloning(d)' => d # c /\ Cloning(d) /\ req'[d] = req[d]
                             /\ At(d, "delete_env")' =>
                                   d = c \/ (At(d, "delete_env") /\ req'[d] = req[d])
      BY <2>4, <2>6 DEF Others, Creating, Cloning, At
    <3>2. \A q \in projects : q.id = req'[c].id => q.slug = req'[c].slug
      BY <2>2, <2>4 DEF ServerInv, Drawn
    <3>3. \A d \in Clients : Creating(d)' => req'[d].id # req'[c].id
      BY <2>2, <2>4, <3>1 DEF ServerInv, Drawn
    <3>4. \A d \in Clients : req'[d].id <= made
      BY <2>2, <2>4 DEF ServerInv, Drawn, Others
    <3>5. Drawn'
      BY <1>1, <3>1, <3>2, <3>3, <3>4 DEF ServerInv, Drawn
    <3>6. Held'
      BY <1>1, <3>1 DEF ServerInv, Held, ProjectPresent
    <3>7. EnvsHaveTheirProject' /\ ProjectsStartWithDev'
      BY <1>1 DEF ServerInv, EnvsHaveTheirProject, ProjectsStartWithDev
    <3>8. QED
      BY <2>3, <2>4, <3>5, <3>6, <3>7 DEF ServerInv, At
  <2>7. QED
    BY <2>5, <2>6
<1>4. QED
  BY <1>2, <1>3

LEMMA DeleteProjectInv ==
    ASSUME Typed, ServerInv, NEW c \in Clients, DeleteProject(c)
    PROVE  ServerInv' /\ req' \in [Clients -> ReqTypes] /\ At(c, "reply")' /\ Others(c)
<1> DEFINE victims == Named(req[c].slug)
<1>1. /\ \A p \in victims : ~Shared(p.id)
      /\ projects' = projects \ victims
      /\ envs' = {e \in envs : \A p \in victims : e.project # p.id}
      /\ dropped' = dropped \cup EnvsOf(victims)
      /\ UNCHANGED made
      /\ Answer(c, IF victims = {} THEN "project_not_found" ELSE "ok")
  BY DEF DeleteProject
<1>2. /\ req' \in [Clients -> ReqTypes] /\ Others(c) /\ req'[c].at = "reply"
      /\ req'[c].id = req[c].id
  BY <1>1, Answers
<1>3. victims \subseteq projects
  BY DEF Named
<1> HIDE DEF victims
<1>4. Pending(c)
  BY <1>2, OnlyOthers DEF At
<1>5. Drawn'
  <2>1. \A d \in Clients : req'[d].id = req[d].id
    BY <1>2 DEF Others
  <2>2. QED
    BY <1>1, <1>3, <1>4, <2>1 DEF ServerInv, Drawn, Pending
<1>6. Held'
  <2>1. \A d \in Clients : Cloning(d) => Shared(req[d].id) /\ ProjectPresent(req[d].id)
    BY DEF ServerInv, Held, Cloning, Shared
  <2>2. QED
    BY <1>1, <1>4, <2>1 DEF Held, ProjectPresent, Pending
<1>7. EnvsHaveTheirProject'
  BY <1>1, <1>3 DEF ServerInv, EnvsHaveTheirProject
<1>8. ProjectsStartWithDev'
  <2>1. ASSUME NEW p \in projects', EnvRow(p.id, Dev) \in envs
        PROVE  EnvRow(p.id, Dev) \in envs'
    <3>1. \A q \in victims : q.id # p.id
      BY <1>1, <1>3, <2>1 DEF ServerInv, Drawn
    <3>2. QED
      BY <1>1, <2>1, <3>1 DEF EnvRow
  <2>2. QED
    BY <1>1, <2>1 DEF ServerInv, ProjectsStartWithDev
<1>9. QED
  BY <1>2, <1>5, <1>6, <1>7, <1>8 DEF ServerInv, At

\* A statement that adds an environment of a project that is there.
LEMMA EnvAdded ==
    ASSUME Typed, ServerInv, NEW c \in Clients, NEW id, ProjectPresent(id),
           NEW slug, envs' = envs \cup {EnvRow(id, slug)}, Answer(c, "ok"),
           UNCHANGED <<projects, made, dropped>>
    PROVE  ServerInv' /\ req' \in [Clients -> ReqTypes] /\ At(c, "reply")' /\ Others(c)
<1>1. /\ req' \in [Clients -> ReqTypes] /\ Others(c) /\ req'[c].at = "reply"
      /\ req'[c].id = req[c].id
  BY Answers
<1>2. Pending(c)
  BY <1>1, OnlyOthers DEF At
<1>3. Drawn'
  <2>1. \A d \in Clients : req'[d].id = req[d].id
    BY <1>1 DEF Others
  <2>2. QED
    BY <1>2, <2>1 DEF ServerInv, Drawn, Pending
<1>4. Held'
  BY <1>2 DEF ServerInv, Held, ProjectPresent, Pending
<1>5. EnvsHaveTheirProject' /\ ProjectsStartWithDev'
  BY DEF ServerInv, EnvsHaveTheirProject, ProjectsStartWithDev, ProjectPresent, EnvRow
<1>6. QED
  BY <1>1, <1>3, <1>4, <1>5 DEF ServerInv, At

LEMMA InsertEnvInv ==
    ASSUME Typed, ServerInv, NEW c \in Clients, InsertEnv(c)
    PROVE  ServerInv' /\ req' \in [Clients -> ReqTypes] /\ ~At(c, "project")'
             /\ ~At(c, "start")' /\ Others(c)
<1>1. UNCHANGED <<projects, made, dropped>> /\ made \in Nat /\ req[c].id <= made
  BY DEF InsertEnv, Typed, ReqTyped, ServerInv, Drawn
<1>2. ASSUME NEW answer \in {"env_exists", "internal"}, Answer(c, answer), UNCHANGED envs
      PROVE  ServerInv' /\ req' \in [Clients -> ReqTypes] /\ At(c, "reply")' /\ Others(c)
  <2>1. /\ req' \in [Clients -> ReqTypes] /\ Others(c) /\ req'[c].at = "reply"
        /\ req'[c].id = req[c].id
    BY <1>2, Answers
  <2>2. QED
    BY <1>1, <1>2, <2>1, QuietInv DEF At
<1>3. CASE /\ ProjectPresent(req[c].id) /\ req[c].op # "clone_env"
           /\ envs' = envs \cup {NewEnv(c)} /\ Answer(c, "ok")
  BY <1>1, <1>3, EnvAdded DEF NewEnv, At
<1>4. CASE /\ ProjectPresent(req[c].id) /\ req[c].op = "clone_env"
           /\ GoTo(c, "commit") /\ UNCHANGED envs
  <2>1. /\ req' \in [Clients -> ReqTypes] /\ Others(c) /\ req'[c].at = "commit"
        /\ req'[c].id = req[c].id /\ req'[c].op = "clone_env"
    BY <1>4, Goes DEF Same
  <2>2. \A d \in Clients : /\ Creating(d)' => d # c /\ Creating(d) /\ req'[d] = req[d]
                           /\ Cloning(d)' => d = c \/ (Cloning(d) /\ req'[d] = req[d])
                           /\ At(d, "delete_env")' => d # c /\ At(d, "delete_env") /\ req'[d] = req[d]
    BY <2>1 DEF Others, Creating, Cloning, At
  <2>3. Drawn'
    <3>1. \A d \in Clients : req'[d].id = req[d].id
      BY <2>1 DEF Others
    <3>2. QED
      BY <1>1, <2>2, <3>1 DEF ServerInv, Drawn
  <2>4. Held'
    BY <1>1, <1>4, <2>1, <2>2 DEF ServerInv, Held, ProjectPresent
  <2>5. EnvsHaveTheirProject' /\ ProjectsStartWithDev'
    BY <1>1, <1>4 DEF ServerInv, EnvsHaveTheirProject, ProjectsStartWithDev
  <2>6. QED
    BY <2>1, <2>3, <2>4, <2>5 DEF ServerInv, At
<1>5. QED
  BY <1>2, <1>3, <1>4 DEF InsertEnv, At

LEMMA DeleteEnvInv ==
    ASSUME Typed, ServerInv, NEW c \in Clients, DeleteEnv(c)
    PROVE  ServerInv' /\ req' \in [Clients -> ReqTypes] /\ At(c, "reply")' /\ Others(c)
<1> DEFINE victim == EnvRow(req[c].id, req[c].env)
<1>1. UNCHANGED <<projects, made>> /\ made \in Nat /\ req[c].id <= made /\ At(c, "delete_env")
  BY DEF DeleteEnv, Typed, ReqTyped, ServerInv, Drawn
<1>2. /\ req' \in [Clients -> ReqTypes] /\ Others(c) /\ req'[c].at = "reply"
      /\ req'[c].id = req[c].id
  <2>1. Answer(c, "ok") \/ Answer(c, "env_not_found")
    BY DEF DeleteEnv
  <2>2. QED
    BY <2>1, Answers
<1>3. CASE UNCHANGED <<envs, dropped>>
  BY <1>1, <1>2, <1>3, QuietInv DEF At
<1>4. CASE envs' = envs \ {victim} /\ dropped' = dropped \cup {<<req[c].slug, req[c].env>>}
  <2>1. Pending(c)
    BY <1>2, OnlyOthers DEF At
  <2>2. Drawn'
    <3>1. \A d \in Clients : req'[d].id = req[d].id
      BY <1>2 DEF Others
    <3>2. QED
      BY <1>1, <2>1, <3>1 DEF ServerInv, Drawn, Pending
  <2>3. Held'
    BY <1>1, <2>1 DEF ServerInv, Held, ProjectPresent, Pending
  <2>4. EnvsHaveTheirProject'
    BY <1>1, <1>4 DEF ServerInv, EnvsHaveTheirProject
  <2>5. ASSUME NEW p \in projects
        PROVE  EnvRow(p.id, Dev) \in envs' \/ <<p.slug, Dev>> \in dropped'
    <3>1. CASE EnvRow(p.id, Dev) = victim
      <4>1. p.id = req[c].id /\ req[c].env = Dev
        BY <3>1 DEF EnvRow
      <4>2. p.slug = req[c].slug
        BY <1>1, <2>5, <4>1 DEF ServerInv, Drawn
      <4>3. QED
        BY <1>4, <4>1, <4>2
    <3>2. CASE EnvRow(p.id, Dev) # victim
      BY <1>4, <2>5, <3>2 DEF ServerInv, ProjectsStartWithDev
    <3>3. QED
      BY <3>1, <3>2
  <2>6. ProjectsStartWithDev'
    BY <1>1, <2>5 DEF ProjectsStartWithDev
  <2>7. QED
    BY <1>2, <2>2, <2>3, <2>4, <2>6 DEF ServerInv, At
<1>5. QED
  BY <1>3, <1>4 DEF DeleteEnv

------------------------------------------------------------------------------
(* A statement, whichever.                                                 *)

\* The request stays well typed when it only moves on.
LEMMA Moved ==
    ASSUME ReqTyped, NEW c \in Clients, req' \in [Clients -> ReqTypes], Others(c),
           ~At(c, "start")', At(c, "project")' => req'[c].op = "create", made' \in Nat
    PROVE  ReqTyped'
  BY DEF ReqTyped, Others, At

LEMMA StatementInv ==
    ASSUME Typed, ServerInv, NEW c \in Clients, Statement(c)
    PROVE  ReqTyped' /\ ServerInv'
<1>1. made \in Nat /\ ReqTyped /\ req[c].id <= made
  BY DEF Typed, ReqTyped, ServerInv, Drawn
<1>2. CASE CheckName(c)
  <2>1. UNCHANGED <<projects, envs, dropped, made>> /\ req[c].op = "create"
    BY <1>2 DEF CheckName
  <2>2. /\ req' \in [Clients -> ReqTypes] /\ Others(c) /\ req'[c].id = req[c].id
        /\ \/ req'[c].at = "reply"
           \/ req'[c].at = "project" /\ req'[c].op = req[c].op
    <3>1. Answer(c, "project_exists") \/ GoTo(c, "project")
      BY <1>2 DEF CheckName
    <3>2. QED
      BY <3>1, Answers, Goes DEF Same
  <2>3. ServerInv'
    BY <1>1, <2>1, <2>2, QuietInv
  <2>4. QED
    BY <1>1, <2>1, <2>2, <2>3, Moved DEF At
<1>3. CASE InsertProject(c)
  <2>1. made' \in Nat /\ Others(c) /\ ~At(c, "start")' /\ ~At(c, "project")'
    <3>1. CASE Answer(c, "project_exists") /\ UNCHANGED made
      BY <1>1, <3>1, Answers DEF At
    <3>2. CASE GoWith(c, "commit", made + 1) /\ made' = made + 1
      BY <1>1, <3>2, Goes DEF At
    <3>3. QED
      BY <1>3, <3>1, <3>2 DEF InsertProject
  <2>2. QED
    BY <1>1, <1>3, <2>1, InsertProjectInv, Moved
<1>4. CASE CommitProject(c)
  BY <1>1, <1>4, CommitProjectInv, Moved DEF CommitProject, At
<1>5. CASE Resolve(c)
  BY <1>1, <1>5, ResolveInv, Moved DEF Resolve
<1>6. CASE DeleteProject(c)
  BY <1>1, <1>6, DeleteProjectInv, Moved DEF DeleteProject, At
<1>7. CASE ReadSource(c)
  <2>1. UNCHANGED <<projects, envs, dropped, made>>
    BY <1>7 DEF ReadSource
  <2>2. /\ req' \in [Clients -> ReqTypes] /\ Others(c) /\ req'[c].id = req[c].id
        /\ req'[c].at \in {"reply", "env"}
    <3>1. Answer(c, "env_not_found") \/ GoTo(c, "env")
      BY <1>7 DEF ReadSource
    <3>2. QED
      BY <3>1, Answers, Goes
  <2>3. ServerInv'
    BY <1>1, <2>1, <2>2, QuietInv
  <2>4. QED
    BY <1>1, <2>1, <2>2, <2>3, Moved DEF At
<1>8. CASE InsertEnv(c)
  BY <1>1, <1>8, InsertEnvInv, Moved DEF InsertEnv
<1>9. CASE CommitClone(c)
  <2>1. ProjectPresent(req[c].id)
    BY <1>9 DEF CommitClone, ServerInv, Held, Cloning
  <2>2. QED
    BY <1>1, <1>9, <2>1, EnvAdded, Moved DEF CommitClone, NewEnv, At
<1>10. CASE DeleteEnv(c)
  BY <1>1, <1>10, DeleteEnvInv, Moved DEF DeleteEnv, At
<1>11. QED
  BY <1>2, <1>3, <1>4, <1>5, <1>6, <1>7, <1>8, <1>9, <1>10 DEF Statement

------------------------------------------------------------------------------
(* The commands.                                                           *)

TaskOK ==
    /\ task \in [Clients -> TaskTypes]
    /\ \A c \in Clients : task[c].at \in {"load", "call"} => task[c].kind \in EnvCommands

LEMMA TaskSet ==
    ASSUME TaskTyped, NEW c \in Clients, NEW t \in TaskTypes,
           t.at \in {"load", "call"} => t.kind \in EnvCommands,
           task' = [task EXCEPT ![c] = t]
    PROVE  TaskOK'
  BY DEF TaskTyped, TaskOK

LEMMA Steps ==
    ASSUME TaskTyped, NEW c \in Clients,
           NEW place \in {"none", "project", "envs", "truncate", "write", "done",
                          "retry", "killed"},
           Step(c, place)
    PROVE  TaskOK'
<1> DEFINE t == [task[c] EXCEPT !.at = place]
<1>1. task[c] \in TaskTypes
  BY DEF TaskTyped
<1>2. t \in TaskTypes /\ t.at \notin {"load", "call"}
  BY <1>1 DEF TaskTypes
<1>3. task' = [task EXCEPT ![c] = t]
  BY DEF Step
<1> HIDE DEF t
<1>4. QED
  BY <1>2, <1>3, TaskSet

LEMMA FileTypes ==
    ASSUME NEW slug \in Names, NEW names \in SUBSET EnvNames
    PROVE  File(slug, names) \in [project : Names, envs : SUBSET EnvNames]
  BY DEF File

LEMMA NoTaskTypes == NoTask \in TaskTypes /\ NoFile \in [project : Names, envs : SUBSET EnvNames]
<1>1. NoFile \in [project : Names, envs : SUBSET EnvNames]
  BY DEF NoFile, Names
<1>2. Dev \in EnvNames /\ "" \in Names
  BY NamesOfEnvs DEF Names
<1> HIDE DEF NoFile, Names, Dev
<1>3. NoTask \in TaskTypes
  BY <1>1, <1>2 DEF NoTask, TaskTypes
<1>4. QED
  BY <1>1, <1>3

LEMMA StartInv ==
    ASSUME Typed, NEW c \in Clients, Start(c)
    PROVE  UNCHANGED <<serverVars, config>> /\ TaskOK'
<1> HIDE DEF Dev
<1>1. ASSUME NEW t \in TaskTypes, t.at = "load" => t.kind \in EnvCommands, t.at # "call",
             Begin(c, t)
      PROVE  UNCHANGED <<serverVars, config>> /\ TaskOK'
  BY <1>1, TaskSet DEF Begin, Typed
<1>2. /\ NoTask.at = "none" /\ NoTask \in TaskTypes /\ Dev \in EnvNames
      /\ Slugs \subseteq Names /\ EnvSlugs \subseteq EnvNames
  BY NoTaskTypes, NamesOfEnvs DEF NoTask, Names
<1>3. ASSUME NEW slug \in Slugs, NEW wanted \in Wanted, StartSetup(c, slug, wanted)
      PROVE  UNCHANGED <<serverVars, config>> /\ TaskOK'
  <2> DEFINE t == [NoTask EXCEPT !.kind = "setup", !.at = "project", !.slug = slug,
                !.file = File(slug, wanted \cup {Dev})]
  <2>1. File(slug, wanted \cup {Dev}) \in [project : Names, envs : SUBSET EnvNames]
    <3>1. wanted \cup {Dev} \in SUBSET EnvNames /\ slug \in Names
      BY <1>2, <1>3, SetupAssumption
    <3>2. QED
      BY <3>1, FileTypes
  <2>2. t \in TaskTypes /\ t.at = "project"
    BY <1>2, <2>1 DEF TaskTypes
  <2>3. Begin(c, t)
    BY <1>3 DEF StartSetup
  <2> HIDE DEF t
  <2>4. QED
    BY <1>1, <2>2, <2>3
<1>4. ASSUME NEW slug \in Slugs, StartInit(c, slug)
      PROVE  UNCHANGED <<serverVars, config>> /\ TaskOK'
  <2> DEFINE t == [NoTask EXCEPT !.kind = "init", !.at = "project", !.slug = slug,
                                 !.file = File(slug, {Dev})]
  <2>1. File(slug, {Dev}) \in [project : Names, envs : SUBSET EnvNames]
    <3>1. {Dev} \in SUBSET EnvNames /\ slug \in Names
      BY <1>2
    <3>2. QED
      BY <3>1, FileTypes
  <2>2. t \in TaskTypes /\ t.at = "project"
    BY <1>2, <2>1 DEF TaskTypes
  <2>3. Begin(c, t)
    BY <1>4 DEF StartInit
  <2> HIDE DEF t
  <2>4. QED
    BY <1>1, <2>2, <2>3
<1>5. ASSUME NEW slug \in Slugs, StartDelete(c, slug)
      PROVE  UNCHANGED <<serverVars, config>> /\ TaskOK'
  <2> DEFINE t == [NoTask EXCEPT !.kind = "delete", !.at = "project", !.slug = slug]
  <2>1. t \in TaskTypes /\ t.at = "project"
    BY <1>2 DEF TaskTypes
  <2>2. Begin(c, t)
    BY <1>5 DEF StartDelete
  <2> HIDE DEF t
  <2>3. QED
    BY <1>1, <2>1, <2>2
<1>6. ASSUME NEW kind \in EnvCommands, NEW env \in EnvNames, NEW source \in EnvNames,
             StartEnvCommand(c, kind, env, source)
      PROVE  UNCHANGED <<serverVars, config>> /\ TaskOK'
  <2> DEFINE t == [NoTask EXCEPT !.kind = kind, !.at = "load", !.env = env, !.source = source]
  <2>1. t \in TaskTypes /\ t.at = "load" /\ t.kind = kind
    BY <1>2 DEF TaskTypes
  <2>2. Begin(c, t)
    BY <1>6 DEF StartEnvCommand
  <2> HIDE DEF t
  <2>3. QED
    BY <1>1, <1>6, <2>1, <2>2
<1>7. QED
  <2>1. "clone_env" \in EnvCommands
    BY DEF EnvCommands
  <2>2. QED
    BY <1>2, <1>3, <1>4, <1>5, <1>6, <2>1 DEF Start

LEMMA LoadInv ==
    ASSUME Typed, NEW c \in Clients, Load(c)
    PROVE  TaskOK'
<1> DEFINE t == Loaded(task[c])
           file == Edited(task[c].kind, config, task[c].env)
<1>1. task[c] \in TaskTypes /\ task[c].kind \in EnvCommands
  BY DEF Typed, TaskTyped, Load
<1>2. config.project \in Names /\ file \in [project : Names, envs : SUBSET EnvNames]
  <2>1. config.project \in Names /\ config.envs \in SUBSET EnvNames /\ task[c].env \in EnvNames
    BY <1>1 DEF Typed, TaskTyped, TaskTypes
  <2>2. QED
    BY <2>1 DEF Edited, File
<1>3. t = [task[c] EXCEPT !.at = "done"]
        \/ t = [task[c] EXCEPT !.at = "call", !.slug = config.project, !.file = file]
  BY DEF Loaded
<1> HIDE DEF file
<1>4. t \in TaskTypes /\ t.kind \in EnvCommands
  BY <1>1, <1>2, <1>3 DEF TaskTypes
<1>5. task' = [task EXCEPT ![c] = t]
  BY DEF Load
<1> HIDE DEF t
<1>6. QED
  BY <1>4, <1>5, TaskSet DEF Typed

LEMMA SendInv ==
    ASSUME Typed, ServerInv, NEW c \in Clients, Send(c)
    PROVE  ReqTyped' /\ ServerInv'
<1>1. task[c] \in TaskTypes /\ Dev \in EnvNames
  BY NamesOfEnvs DEF Typed, TaskTyped
<1> HIDE DEF Dev
<1>2. \E op \in {"create", "delete", "create_env", "clone_env", "delete_env"},
         slug \in Names, env \in EnvNames, source \in EnvNames :
           Call(c, op, slug, env, source)
  <2>1. CASE /\ task[c].at = "project"
             /\ Call(c, IF task[c].kind = "delete" THEN "delete" ELSE "create",
                     task[c].slug, Dev, Dev)
    BY <1>1, <2>1 DEF TaskTypes
  <2>2. CASE \E e \in task[c].left : Call(c, "create_env", task[c].slug, e, Dev)
    BY <1>1, <2>2 DEF TaskTypes
  <2>3. CASE /\ task[c].at = "call"
             /\ Call(c, task[c].kind, task[c].slug, task[c].env, task[c].source)
    <3>1. task[c].kind \in {"create", "delete", "create_env", "clone_env", "delete_env"}
      BY <2>3 DEF Typed, TaskTyped, EnvCommands
    <3>2. task[c].slug \in Names /\ task[c].env \in EnvNames /\ task[c].source \in EnvNames
      BY <1>1 DEF TaskTypes
    <3>3. QED
      BY <2>3, <3>1, <3>2
  <2>4. QED
    BY <2>1, <2>2, <2>3 DEF Send
<1>3. PICK op \in {"create", "delete", "create_env", "clone_env", "delete_env"},
           slug \in Names, env \in EnvNames, source \in EnvNames :
             Call(c, op, slug, env, source)
  BY <1>2
<1>4. /\ req' \in [Clients -> ReqTypes] /\ Others(c)
      /\ req'[c].at = "start" /\ req'[c].op # ""
  BY <1>3, Calls
<1>5. UNCHANGED <<projects, envs, dropped, made>> /\ made \in Nat /\ req'[c].id = 0
  BY <1>3, Calls DEF Call, Typed, ReqTyped
<1>6. ServerInv'
  <2>1. made <= made' /\ made' \in Nat /\ req'[c].id <= made'
    BY <1>5
  <2>2. QED
    BY <1>4, <1>5, <2>1, QuietInv
<1>7. ReqTyped'
  BY <1>4, <1>5 DEF Typed, ReqTyped, Others, At
<1>8. QED
  BY <1>6, <1>7

\* The answer is heard, or nobody is left to hear it.
LEMMA HangInv ==
    ASSUME Typed, ServerInv, NEW c \in Clients, Hang(c)
    PROVE  ReqTyped' /\ ServerInv'
<1>1. /\ req' \in [Clients -> ReqTypes] /\ Others(c)
      /\ req'[c].at = "idle" /\ req'[c].id = 0
  BY Hangs
<1>2. UNCHANGED <<projects, envs, dropped, made>> /\ made \in Nat
  BY DEF Hang, Typed, ReqTyped
<1>3. ServerInv'
  BY <1>1, <1>2, QuietInv
<1>4. QED
  BY <1>1, <1>2, <1>3, Moved DEF Typed, At

LEMMA HearOkTask ==
    ASSUME Typed, NEW c \in Clients, HearOk(c)
    PROVE  TaskOK'
<1> DEFINE t == AfterAnswer(task[c], req[c].env)
<1>1. task[c] \in TaskTypes
  BY DEF Typed, TaskTyped
<1>2. task[c].left \subseteq EnvNames /\ SetupEnvs(task[c]) \subseteq EnvNames
  BY <1>1 DEF TaskTypes, SetupEnvs
<1>3. \/ t = [task[c] EXCEPT !.at = "done"]
      \/ t = [task[c] EXCEPT !.at = "truncate", !.left = {}]
      \/ \E left \in SUBSET EnvNames : t = [task[c] EXCEPT !.at = "envs", !.left = left]
  <2>1. task[c].at \in {"project", "envs", "call"}
    BY DEF HearOk
  <2>2. task[c].at = "call" => task[c].kind # "setup"
    BY DEF Typed, TaskTyped, EnvCommands
  <2>3. CASE task[c].at = "project"
    BY <1>2, <2>3 DEF AfterAnswer
  <2>4. CASE task[c].at = "envs"
    <3>1. task[c].left \ {req[c].env} \subseteq EnvNames
      BY <1>2
    <3>2. QED
      BY <2>4, <3>1 DEF AfterAnswer
  <2>5. CASE task[c].at = "call"
    BY <2>2, <2>5 DEF AfterAnswer
  <2>6. QED
    BY <2>1, <2>3, <2>4, <2>5
<1>4. t \in TaskTypes /\ t.at \notin {"load", "call"}
  BY <1>1, <1>3 DEF TaskTypes
<1>5. task' = [task EXCEPT ![c] = t]
  BY DEF HearOk
<1> HIDE DEF t
<1>6. QED
  BY <1>4, <1>5, TaskSet DEF Typed

------------------------------------------------------------------------------

LEMMA InitInv == Init => IndInv
<1> SUFFICES ASSUME Init PROVE IndInv
  OBVIOUS
<1>1. NoRequest \in ReqTypes
  BY NamesOfEnvs DEF NoRequest, ReqTypes, Names
<1>2. ReqTyped
  <2>1. req = [c \in Clients |-> NoRequest] /\ made = 0
    BY DEF Init, InitServer
  <2>2. NoRequest.at = "idle"
    BY DEF NoRequest
  <2>3. QED
    BY <1>1, <2>1, <2>2 DEF ReqTyped, At
<1>3. TaskTyped
  <2>1. NoTask.at = "none"
    BY DEF NoTask
  <2>2. task = [c \in Clients |-> NoTask] /\ config = NoFile
    BY DEF Init
  <2>3. QED
    BY NoTaskTypes, <2>1, <2>2 DEF TaskTyped
<1>4. ServerInv
  <2>1. \A c \in Clients : req[c].at = "idle" /\ req[c].id = 0
    BY DEF Init, InitServer, NoRequest
  <2>2. projects = {} /\ envs = {} /\ made = 0
    BY DEF Init, InitServer
  <2>3. QED
    BY <2>1, <2>2 DEF ServerInv, Drawn, Held, Creating, Cloning, At,
                      EnvsHaveTheirProject, ProjectsStartWithDev
<1>5. QED
  BY <1>2, <1>3, <1>4 DEF IndInv, Typed

\* The server's part of a step that leaves it alone.
LEMMA ServerKept ==
    ASSUME IndInv, UNCHANGED <<projects, envs, req, made, dropped>>
    PROVE  ReqTyped' /\ ServerInv'
<1>1. ReqTyped'
  BY DEF IndInv, Typed, ReqTyped, At
<1>2. ServerInv'
  BY DEF IndInv, ServerInv, Drawn, Held, Creating, Cloning, At, ProjectPresent,
         EnvsHaveTheirProject, ProjectsStartWithDev
<1>3. QED
  BY <1>1, <1>2

LEMMA WriteTask ==
    ASSUME Typed, NEW c \in Clients, Write(c)
    PROVE  TaskTyped'
<1> DEFINE mine == task[c].file
<1>1. TaskOK'
  BY Steps DEF Write, Typed
<1>2. mine \in [project : Names, envs : SUBSET EnvNames]
  BY DEF Typed, TaskTyped, TaskTypes
<1>3. File(mine.project, mine.envs \cup config.envs) \in [project : Names, envs : SUBSET EnvNames]
  <2>1. mine.project \in Names /\ mine.envs \cup config.envs \in SUBSET EnvNames
    BY <1>2 DEF Typed, TaskTyped
  <2>2. QED
    BY <2>1, FileTypes
<1>4. config' \in {mine, NoFile, File(mine.project, mine.envs \cup config.envs)}
  BY DEF Write
<1>5. config' \in [project : Names, envs : SUBSET EnvNames]
  BY <1>2, <1>3, <1>4, NoTaskTypes
<1>6. QED
  BY <1>1, <1>5 DEF TaskTyped, TaskOK

LEMMA NextInv == IndInv /\ [Next]_vars => IndInv'
<1> SUFFICES ASSUME IndInv, [Next]_vars PROVE IndInv'
  OBVIOUS
<1>1. Typed /\ ReqTyped /\ TaskTyped /\ ServerInv
  BY DEF IndInv, Typed
<1>2. UNCHANGED <<config, task>> => TaskTyped'
  BY <1>1 DEF TaskTyped
<1>3. UNCHANGED config /\ TaskOK' => TaskTyped'
  BY <1>1 DEF TaskTyped, TaskOK
<1>4. CASE UNCHANGED vars
  BY <1>2, <1>4, ServerKept DEF vars, serverVars, IndInv, Typed
<1>5. ASSUME NEW c \in Clients, Start(c) PROVE IndInv'
  BY <1>1, <1>3, <1>5, StartInv, ServerKept DEF serverVars, IndInv, Typed
<1>6. ASSUME NEW c \in Clients, Serve(c) PROVE IndInv'
  BY <1>1, <1>2, <1>6, StatementInv DEF Serve, IndInv, Typed
<1>7. ASSUME NEW c \in Clients, Fail(c) PROVE IndInv'
  <2>1. Answer(c, "failed") /\ UNCHANGED <<projects, envs, made, dropped, config, task>>
    BY <1>7 DEF Fail, FailRequest
  <2>2. /\ req' \in [Clients -> ReqTypes] /\ Others(c) /\ req'[c].at = "reply"
        /\ req'[c].id = req[c].id
    BY <1>1, <2>1, Answers
  <2>3. made \in Nat /\ req[c].id <= made
    BY <1>1 DEF ReqTyped, ServerInv, Drawn
  <2>4. ServerInv'
    BY <1>1, <2>1, <2>2, <2>3, QuietInv
  <2>5. QED
    BY <1>1, <1>2, <2>1, <2>2, <2>3, <2>4, Moved DEF At, IndInv, Typed
<1>8. ASSUME NEW c \in Clients, Kill(c) PROVE IndInv'
  BY <1>1, <1>3, <1>8, Steps, ServerKept DEF Kill, IndInv, Typed
<1>9. ASSUME NEW c \in Clients, Proceed(c) PROVE IndInv'
  <2>1. CASE Load(c)
    BY <1>1, <1>3, <2>1, LoadInv, ServerKept DEF Load, serverVars, IndInv, Typed
  <2>2. CASE Send(c)
    BY <1>1, <1>2, <2>2, SendInv DEF Send, IndInv, Typed
  <2>3. CASE HearOk(c)
    BY <1>1, <1>3, <2>3, HearOkTask, HangInv DEF HearOk, IndInv, Typed
  <2>4. CASE HearError(c)
    BY <1>1, <1>3, <2>4, Steps, HangInv DEF HearError, IndInv, Typed
  <2>5. CASE Retry(c)
    BY <1>1, <1>3, <2>5, Steps, ServerKept DEF Retry, serverVars, IndInv, Typed
  <2>6. CASE Truncate(c)
    <3>1. TaskOK' /\ config' = NoFile
      BY <1>1, <2>6, Steps DEF Truncate
    <3>2. TaskTyped'
      BY <3>1, NoTaskTypes DEF TaskTyped, TaskOK
    <3>3. QED
      BY <2>6, <3>2, ServerKept DEF Truncate, serverVars, IndInv, Typed
  <2>7. CASE Write(c)
    BY <1>1, <2>7, WriteTask, ServerKept DEF Write, serverVars, IndInv, Typed
  <2>8. CASE Bury(c)
    BY <1>1, <1>3, <2>8, Steps, HangInv DEF Bury, IndInv, Typed
  <2>9. QED
    BY <1>9, <2>1, <2>2, <2>3, <2>4, <2>5, <2>6, <2>7, <2>8 DEF Proceed
<1>10. QED
  BY <1>4, <1>5, <1>6, <1>7, <1>8, <1>9 DEF Next

\* The types hold, and the tables and the requests under way agree.
THEOREM IndInvHolds == Spec => []IndInv
<1>1. Init => IndInv
  BY InitInv
<1>2. IndInv /\ [Next]_vars => IndInv'
  BY NextInv
<1>3. QED
  BY <1>1, <1>2, PTL DEF Spec

\* Every environment has its project and a slug names one, although the
\* project may go between the request's look at it and its insert.
THEOREM EnvsKeepTheirProject == Spec => []EnvsHaveTheirProject
  BY IndInvHolds, PTL DEF IndInv, ServerInv

\* A project starts with "dev", wherever its creation fails, and lacks it
\* only after somebody has deleted it.
THEOREM ProjectsKeepDev == Spec => []ProjectsStartWithDev
  BY IndInvHolds, PTL DEF IndInv, ServerInv

------------------------------------------------------------------------------
(* What .foostash.yaml says, of one directory.  The commands go by the      *)
(* answers they hear, so an answer has to be true for as long as a command  *)
(* may act on it: what the server once had it has, or somebody deleted it.  *)

Known ==
    {x \in Names \X EnvNames :
        \/ \E p \in projects : p.slug = x[1] /\ EnvRow(p.id, x[2]) \in envs
        \/ x \in dropped}

Resolved(c) == At(c, "source") \/ At(c, "env") \/ Cloning(c)
Good == {"ok", "project_exists", "env_exists"}

\* A request keeps to the project it has resolved, and its answer is true.
Honest(c) ==
    /\ At(c, "delete") => req[c].op = "delete"
    /\ At(c, "delete_env") => req[c].op = "delete_env"
    /\ At(c, "source") \/ At(c, "env") => req[c].op \in {"create_env", "clone_env"}
    /\ Resolved(c) =>
          /\ \A p \in projects : p.id = req[c].id => p.slug = req[c].slug
          /\ \A d \in Clients : Creating(d) => req[d].id # req[c].id
    /\ At(c, "reply") /\ req[c].answer \in Good =>
          /\ req[c].op = "create" => <<req[c].slug, Dev>> \in Known
          /\ req[c].op \in {"create_env", "clone_env"} =>
                <<req[c].slug, SlugOf[req[c].env]>> \in Known

LEMMA InKnown ==
    ASSUME NEW slug \in Names, NEW env \in EnvNames
    PROVE  /\ <<slug, env>> \in Known <=>
                \/ \E p \in projects : p.slug = slug /\ EnvRow(p.id, env) \in envs
                \/ <<slug, env>> \in dropped
           /\ (<<slug, env>> \in Known)' <=>
                \/ \E p \in projects' : p.slug = slug /\ EnvRow(p.id, env) \in envs'
                \/ <<slug, env>> \in dropped'
  BY DEF Known

LEMMA AnswerIs ==
    ASSUME Typed, NEW c \in Clients, NEW answer, Answer(c, answer)
    PROVE  req'[c].answer = answer /\ Same(c)
<1>1. req'[c] = [req[c] EXCEPT !.at = "reply", !.answer = answer] /\ req[c] \in ReqTypes
  BY DEF Answer, Typed, ReqTyped
<1>2. QED
  BY <1>1 DEF ReqTypes, Same

LEMMA TypedClient ==
    ASSUME Typed, NEW c \in Clients
    PROVE  /\ req[c].slug \in Names /\ req[c].env \in EnvNames /\ SlugOf[req[c].env] \in EnvNames
           /\ req[c].id \in Nat /\ req[c] \in ReqTypes
  BY NamesOfEnvs DEF Typed, ReqTyped, ReqTypes

\* A step of the server deletes nothing without its being remembered.
LEMMA KnownGrows ==
    ASSUME IndInv, NEW c \in Clients, Statement(c)
    PROVE  Known \subseteq Known'
<1>1. CASE UNCHANGED <<projects, envs, dropped>>
  BY <1>1 DEF Known
<1>2. CASE projects \subseteq projects' /\ envs \subseteq envs' /\ dropped \subseteq dropped'
  BY <1>2 DEF Known
<1>3. CASE DeleteProject(c)
  <2>1. PICK victims : victims = Named(req[c].slug)
    OBVIOUS
  <2>2. /\ projects' = projects \ victims
        /\ envs' = {e \in envs : \A p \in victims : e.project # p.id}
        /\ dropped' = dropped \cup EnvsOf(victims)
    BY <1>3, <2>1 DEF DeleteProject
  <2>3. ASSUME NEW slug \in Names, NEW env \in EnvNames, <<slug, env>> \in Known
        PROVE  <<slug, env>> \in Known'
    <3>1. CASE <<slug, env>> \in dropped
      BY <2>2, <3>1, InKnown
    <3>2. ASSUME NEW p \in projects, p.slug = slug, EnvRow(p.id, env) \in envs
          PROVE  <<slug, env>> \in Known'
      <4>1. EnvRow(p.id, env).project = p.id /\ EnvRow(p.id, env).slug = env
        BY DEF EnvRow
      <4>2. CASE p \in victims
        <5>1. <<p.slug, EnvRow(p.id, env).slug>> \in EnvsOf(victims)
          BY <3>2, <4>1, <4>2 DEF EnvsOf
        <5>2. QED
          BY <2>2, <3>2, <4>1, <5>1, InKnown
      <4>3. CASE p \notin victims
        <5>1. \A q \in victims : q.id # p.id
          BY <2>1, <4>3 DEF Named, IndInv, ServerInv, Drawn
        <5>2. EnvRow(p.id, env) \in envs' /\ p \in projects'
          BY <2>2, <3>2, <4>1, <4>3, <5>1
        <5>3. QED
          BY <3>2, <5>2, InKnown
      <4>4. QED
        BY <4>2, <4>3
    <3>3. QED
      BY <2>3, <3>1, <3>2, InKnown
  <2>4. Known \subseteq Names \X EnvNames
    BY DEF Known
  <2>5. QED
    BY <2>3, <2>4
<1>4. CASE DeleteEnv(c)
  <2>1. PICK victim : victim = EnvRow(req[c].id, req[c].env)
    OBVIOUS
  <2>2. CASE victim \notin envs
    BY <1>1, <1>4, <2>1, <2>2 DEF DeleteEnv
  <2>3. CASE victim \in envs
    <3>1. /\ envs' = envs \ {victim} /\ projects' = projects
          /\ dropped' = dropped \cup {<<req[c].slug, req[c].env>>} /\ At(c, "delete_env")
      BY <1>4, <2>1, <2>3 DEF DeleteEnv
    <3>2. ASSUME NEW slug \in Names, NEW env \in EnvNames, <<slug, env>> \in Known
          PROVE  <<slug, env>> \in Known'
      <4>1. CASE <<slug, env>> \in dropped
        BY <3>1, <4>1, InKnown
      <4>2. ASSUME NEW p \in projects, p.slug = slug, EnvRow(p.id, env) \in envs
            PROVE  <<slug, env>> \in Known'
        <5>1. CASE EnvRow(p.id, env) = victim
          <6>1. p.id = req[c].id /\ env = req[c].env
            <7>1. /\ EnvRow(p.id, env).project = p.id /\ EnvRow(p.id, env).slug = env
                  /\ victim.project = req[c].id /\ victim.slug = req[c].env
              BY <2>1 DEF EnvRow
            <7>2. QED
              BY <5>1, <7>1
          <6>2. p.slug = req[c].slug
            BY <3>1, <6>1 DEF IndInv, ServerInv, Drawn
          <6>3. QED
            BY <3>1, <4>2, <6>1, <6>2, InKnown
        <5>2. CASE EnvRow(p.id, env) # victim
          BY <3>1, <4>2, <5>2, InKnown
        <5>3. QED
          BY <5>1, <5>2
      <4>3. QED
        BY <3>2, <4>1, <4>2, InKnown
    <3>3. Known \subseteq Names \X EnvNames
      BY DEF Known
    <3>4. QED
      BY <3>2, <3>3
  <2>4. QED
    BY <2>2, <2>3
<1>5. CASE CheckName(c) \/ InsertProject(c) \/ Resolve(c) \/ ReadSource(c)
  BY <1>1, <1>5 DEF CheckName, InsertProject, Resolve, ReadSource
<1>6. CASE CommitProject(c) \/ InsertEnv(c) \/ CommitClone(c)
  <2>1. projects \subseteq projects' /\ envs \subseteq envs' /\ dropped \subseteq dropped'
    BY <1>6 DEF CommitProject, InsertEnv, CommitClone
  <2>2. QED
    BY <1>2, <2>1
<1>7. QED
  BY <1>3, <1>4, <1>5, <1>6 DEF Statement

LEMMA StatementChanges ==
    ASSUME IndInv, NEW c \in Clients, Statement(c)
    PROVE  Others(c) /\ Same(c)
<1>1. Typed
  BY DEF IndInv
<1>2. ASSUME NEW place \in {"project", "commit", "delete", "env", "source", "delete_env"},
             GoTo(c, place) \/ \E i \in Nat : GoWith(c, place, i)
      PROVE  Others(c) /\ Same(c)
  BY <1>1, <1>2, Goes
<1>3. ASSUME NEW answer \in {"ok", "internal", "project_exists", "project_not_found",
                             "env_exists", "env_not_found"}, Answer(c, answer)
      PROVE  Others(c) /\ Same(c)
  BY <1>1, <1>3, Answers, AnswerIs
<1>4. CASE Resolve(c)
  <2>1. AfterResolve(req[c].op) \in {"delete", "env", "source", "delete_env"}
    <3>1. /\ req[c].op \in {"", "create", "delete", "create_env", "clone_env", "delete_env"}
          /\ req[c].op # "" /\ req[c].op # "create"
      BY <1>1, <1>4 DEF Typed, ReqTyped, ReqTypes, Resolve
    <3>2. QED
      BY <3>1 DEF AfterResolve
  <2>2. \A p \in projects : p.id \in Nat
    BY DEF IndInv, ServerInv, Drawn
  <2>3. QED
    BY <1>2, <1>3, <1>4, <2>1, <2>2 DEF Resolve, Named
<1>5. CASE InsertProject(c)
  <2>1. made + 1 \in Nat
    <3>1. made \in Nat
      BY <1>1 DEF Typed, ReqTyped
    <3>2. QED
      BY <3>1
  <2>2. QED
    BY <1>2, <1>3, <1>5, <2>1 DEF InsertProject
<1>6. CASE CheckName(c)
  BY <1>2, <1>3, <1>6 DEF CheckName
<1>7. CASE CommitProject(c) \/ CommitClone(c)
  BY <1>3, <1>7 DEF CommitProject, CommitClone
<1>8. CASE DeleteProject(c)
  <2>1. Answer(c, "project_not_found") \/ Answer(c, "ok")
    BY <1>8 DEF DeleteProject
  <2>2. QED
    BY <1>3, <2>1
<1>9. CASE ReadSource(c)
  BY <1>2, <1>3, <1>9 DEF ReadSource
<1>10. CASE InsertEnv(c)
  BY <1>2, <1>3, <1>10 DEF InsertEnv
<1>11. CASE DeleteEnv(c)
  <2>1. Answer(c, "env_not_found") \/ Answer(c, "ok")
    BY <1>11 DEF DeleteEnv
  <2>2. QED
    BY <1>3, <2>1
<1>12. QED
  BY <1>4, <1>5, <1>6, <1>7, <1>8, <1>9, <1>10, <1>11 DEF Statement

\* Whose project is new, and what is inserted from now on.
LEMMA NewProjects ==
    ASSUME IndInv, NEW c \in Clients, Statement(c)
    PROVE  /\ \/ projects' \subseteq projects
              \/ /\ Creating(c)
                 /\ projects' \subseteq projects \cup {Row(req[c].id, req[c].slug)}
           /\ \A e \in Clients : Creating(e)' =>
                \/ e # c /\ Creating(e) /\ req'[e] = req[e]
                \/ req'[e].id = made + 1
<1>1. Typed /\ Others(c) /\ Same(c) /\ made \in Nat
  BY StatementChanges DEF IndInv, Typed, ReqTyped
<1>2. \A e \in Clients \ {c} : Creating(e)' => Creating(e) /\ req'[e] = req[e]
  BY <1>1 DEF Others, Creating, At
<1>3. CASE InsertProject(c)
  <2>1. projects' = projects
    BY <1>3 DEF InsertProject
  <2>2. CASE Answer(c, "project_exists")
    BY <1>1, <1>2, <2>1, <2>2, Answers DEF Creating, At
  <2>3. CASE GoWith(c, "commit", made + 1)
    <3>1. made + 1 \in Nat
      BY <1>1
    <3>2. req'[c].id = made + 1
      BY <1>1, <2>3, <3>1, Goes
    <3>3. QED
      BY <1>2, <2>1, <3>2
  <2>4. QED
    BY <1>3, <2>2, <2>3 DEF InsertProject
<1>4. CASE CommitProject(c)
  <2>1. /\ Creating(c) /\ Answer(c, "ok")
        /\ projects' = projects \cup {Row(req[c].id, req[c].slug)}
    BY <1>4 DEF CommitProject, Creating
  <2>2. ~Creating(c)'
    BY <1>1, <2>1, Answers DEF Creating, At
  <2>3. QED
    BY <1>2, <2>1, <2>2
<1>5. CASE DeleteProject(c) \/ CommitClone(c) \/ DeleteEnv(c) \/ InsertEnv(c) \/ CheckName(c)
             \/ Resolve(c) \/ ReadSource(c)
  <2>1. projects' \subseteq projects
    BY <1>5 DEF DeleteProject, CommitClone, DeleteEnv, InsertEnv, CheckName, Resolve, ReadSource
  <2>2. ~Creating(c)'
    <3>1. CASE InsertEnv(c) /\ GoTo(c, "commit")
      <4>1. req[c].op = "clone_env"
        <5>1. req'[c].at = "commit"
          BY <1>1, <3>1, Goes
        <5>2. \A a \in {"ok", "env_exists", "internal"} : Answer(c, a) => req'[c].at = "reply"
          BY <1>1, Answers
        <5>3. QED
          BY <3>1, <5>1, <5>2 DEF InsertEnv
      <4>2. QED
        BY <1>1, <4>1 DEF Same, Creating
    <3>2. CASE \E a \in {"ok", "internal", "project_exists", "project_not_found",
                         "env_exists", "env_not_found"} : Answer(c, a)
      BY <1>1, <3>2, Answers DEF Creating, At
    <3>3. CASE \E place \in {"project", "env"} : GoTo(c, place)
      BY <1>1, <3>3, Goes DEF Creating, At
    <3>4. CASE Resolve(c)
      <4>1. req'[c].op # "create"
        BY <1>1, <3>4 DEF Same, Resolve
      <4>2. QED
        BY <4>1 DEF Creating
    <3>5. CASE DeleteProject(c) \/ DeleteEnv(c)
      <4>1. \E a \in {"ok", "project_not_found", "env_not_found"} : Answer(c, a)
        BY <3>5 DEF DeleteProject, DeleteEnv
      <4>2. QED
        BY <3>2, <4>1
    <3>6. QED
      BY <1>5, <3>1, <3>2, <3>3, <3>4, <3>5 DEF CommitClone, InsertEnv, CheckName, ReadSource
  <2>3. QED
    BY <1>2, <2>1, <2>2
<1>6. QED
  BY <1>3, <1>4, <1>5 DEF Statement

LEMMA OthersHonest ==
    ASSUME IndInv, NEW c \in Clients, Statement(c), NEW d \in Clients \ {c}, Honest(d)
    PROVE  Honest(d)'
<1>1. req'[d] = req[d] /\ Known \subseteq Known'
  BY StatementChanges, KnownGrows DEF Others
<1>2. Resolved(d)' => Resolved(d)
  BY <1>1 DEF Resolved, Cloning, At
<1>3. ASSUME Resolved(d)
      PROVE  /\ \A p \in projects' : p.id = req[d].id => p.slug = req[d].slug
             /\ \A e \in Clients : Creating(e)' => req'[e].id # req[d].id
  <2>1. /\ \A p \in projects : p.id = req[d].id => p.slug = req[d].slug
        /\ \A e \in Clients : Creating(e) => req[e].id # req[d].id
    BY <1>3 DEF Honest
  <2>2. req[d].id # made + 1
    <3>1. req[d].id \in Nat /\ made \in Nat /\ req[d].id <= made
      BY TypedClient DEF IndInv, Typed, ReqTyped, ServerInv, Drawn
    <3>2. QED
      BY <3>1
  <2>3. Row(req[c].id, req[c].slug).id = req[c].id
    BY DEF Row
  <2>4. QED
    BY <2>1, <2>2, <2>3, NewProjects
<1>4. QED
  BY <1>1, <1>2, <1>3 DEF Honest, At

\* What is there, or will be, belongs to the project a request has resolved.
LEMMA EnvKnown ==
    ASSUME IndInv, NEW c \in Clients, Honest(c), Resolved(c), ProjectPresent(req[c].id),
           NEW env \in EnvNames, NewEnv(c) = EnvRow(req[c].id, env), NewEnv(c) \in envs',
           projects' = projects
    PROVE  <<req[c].slug, env>> \in Known'
<1>1. PICK p \in projects : p.id = req[c].id
  BY DEF ProjectPresent
<1>2. p.slug = req[c].slug
  BY <1>1 DEF Honest
<1>3. req[c].slug \in Names
  BY TypedClient DEF IndInv
<1>4. QED
  BY <1>1, <1>2, <1>3, InKnown

LEMMA OwnHonest ==
    ASSUME IndInv, NEW c \in Clients, Statement(c), Honest(c)
    PROVE  Honest(c)'
<1>1. /\ Typed /\ Others(c) /\ Same(c) /\ Known \subseteq Known'
      /\ req[c].op \in {"", "create", "delete", "create_env", "clone_env", "delete_env"}
  BY StatementChanges, KnownGrows DEF IndInv, Typed, ReqTyped, ReqTypes
<1>2. /\ req[c].slug \in Names /\ Dev \in EnvNames
      /\ SlugOf[req[c].env] \in EnvNames /\ NewEnv(c) = EnvRow(req[c].id, SlugOf[req[c].env])
  BY <1>1, TypedClient, NamesOfEnvs DEF NewEnv
\* An answer that claims nothing.
<1>3. ASSUME NEW answer \in {"internal", "project_not_found", "env_not_found"},
             Answer(c, answer)
      PROVE  Honest(c)'
  BY <1>1, <1>3, Answers, AnswerIs DEF Honest, Resolved, Cloning, At, Good
\* The project is there already.
<1>4. ASSUME Answer(c, "project_exists"), Named(req[c].slug) # {}, req[c].op = "create",
             UNCHANGED <<projects, envs, dropped>>
      PROVE  Honest(c)'
  <2>1. PICK p \in projects : p.slug = req[c].slug
    BY <1>4 DEF Named
  <2>2. <<req[c].slug, Dev>> \in Known'
    BY <1>2, <1>4, <2>1, InKnown DEF IndInv, ServerInv, ProjectsStartWithDev
  <2>3. req'[c].at = "reply" /\ req'[c].op = "create" /\ req'[c].slug = req[c].slug
    BY <1>1, <1>4, Answers DEF Same
  <2>4. QED
    BY <2>2, <2>3 DEF Honest, Resolved, Cloning, At
\* An environment is there.
<1>5. ASSUME NEW answer \in {"ok", "env_exists"}, Answer(c, answer), Resolved(c),
             ProjectPresent(req[c].id), NewEnv(c) \in envs', projects' = projects,
             req[c].op \in {"create_env", "clone_env"}
      PROVE  Honest(c)'
  <2>1. <<req[c].slug, SlugOf[req[c].env]>> \in Known'
    BY <1>2, <1>5, EnvKnown
  <2>2. /\ req'[c].at = "reply" /\ req'[c].op \in {"create_env", "clone_env"}
        /\ req'[c].slug = req[c].slug /\ req'[c].env = req[c].env
    BY <1>1, <1>5, Answers DEF Same
  <2>3. QED
    BY <2>1, <2>2 DEF Honest, Resolved, Cloning, At
<1>6. CASE CheckName(c)
  <2>1. CASE GoTo(c, "project")
    <3>1. req'[c].at = "project"
      BY <1>1, <2>1, Goes
    <3>2. QED
      BY <3>1 DEF Honest, Resolved, Cloning, At
  <2>2. QED
    BY <1>4, <1>6, <2>1 DEF CheckName
<1>7. CASE InsertProject(c)
  <2>1. req[c].op = "create"
    BY <1>1, <1>7 DEF InsertProject, Typed, ReqTyped
  <2>2. CASE SlugTaken(req[c].slug)
    BY <1>4, <1>7, <2>1, <2>2 DEF InsertProject, SlugTaken
  <2>3. CASE ~SlugTaken(req[c].slug)
    <3>1. made + 1 \in Nat
      <4>1. made \in Nat
        BY <1>1 DEF Typed, ReqTyped
      <4>2. QED
        BY <4>1
    <3>2. req'[c].at = "commit" /\ req'[c].op = "create"
      BY <1>1, <1>7, <2>1, <2>3, <3>1, Goes DEF InsertProject, Same
    <3>3. QED
      BY <3>2 DEF Honest, Resolved, Cloning, At
  <2>4. QED
    BY <2>2, <2>3
<1>8. CASE CommitProject(c)
  <2>1. /\ projects' = projects \cup {Row(req[c].id, req[c].slug)}
        /\ envs' = envs \cup {EnvRow(req[c].id, Dev)}
        /\ Answer(c, "ok") /\ req[c].op = "create"
    BY <1>8 DEF CommitProject
  <2>2. Row(req[c].id, req[c].slug).slug = req[c].slug /\ Row(req[c].id, req[c].slug).id = req[c].id
    BY DEF Row
  <2>3. <<req[c].slug, Dev>> \in Known'
    BY <1>2, <2>1, <2>2, InKnown
  <2>4. req'[c].at = "reply" /\ req'[c].op = "create" /\ req'[c].slug = req[c].slug
    BY <1>1, <2>1, Answers DEF Same
  <2>5. QED
    BY <2>3, <2>4 DEF Honest, Resolved, Cloning, At
<1>9. CASE Resolve(c)
  <2>1. CASE Named(req[c].slug) = {}
    BY <1>3, <1>9, <2>1 DEF Resolve
  <2>2. CASE Named(req[c].slug) # {}
    <3>1. PICK p \in Named(req[c].slug) : GoWith(c, AfterResolve(req[c].op), p.id)
      BY <1>9, <2>2 DEF Resolve
    <3>2. /\ p \in projects /\ p.slug = req[c].slug /\ p.id \in Nat /\ projects' = projects
          /\ req[c].op # "" /\ req[c].op # "create"
      BY <1>1, <1>9, <3>1 DEF Resolve, Named, IndInv, ServerInv, Drawn, Typed, ReqTyped
    <3>3. PICK place \in {"delete", "env", "source", "delete_env"} :
              /\ place = AfterResolve(req[c].op)
              /\ place = "delete" => req[c].op = "delete"
              /\ place = "delete_env" => req[c].op = "delete_env"
              /\ place \in {"env", "source"} => req[c].op \in {"create_env", "clone_env"}
      BY <1>1, <3>2 DEF AfterResolve
    <3>4. req'[c].at = place /\ req'[c].id = p.id
      BY <1>1, <3>1, <3>2, <3>3, Goes
    <3>5. \A q \in projects : q.id = p.id => q = p
      BY <3>2 DEF IndInv, ServerInv, Drawn
    <3>6. ASSUME NEW d \in Clients, Creating(d)' PROVE req'[d].id # p.id
      <4>1. p.id # made + 1
        <5>1. p.id \in Nat /\ made \in Nat /\ p.id <= made
          BY <1>1, <3>2 DEF IndInv, ServerInv, Drawn, Typed, ReqTyped
        <5>2. QED
          BY <5>1
      <4>2. Creating(d) => req[d].id # p.id
        BY <3>2 DEF IndInv, ServerInv, Drawn
      <4>3. QED
        BY <3>6, <4>1, <4>2, NewProjects
    <3>7. QED
      BY <1>1, <3>2, <3>3, <3>4, <3>5, <3>6 DEF Honest, Resolved, Cloning, At, Same
  <2>3. QED
    BY <2>1, <2>2
<1>10. CASE DeleteProject(c) \/ DeleteEnv(c)
  <2>1. \E answer \in {"ok", "project_not_found", "env_not_found"} : Answer(c, answer)
    BY <1>10 DEF DeleteProject, DeleteEnv
  <2>2. req[c].op \in {"delete", "delete_env"}
    BY <1>10 DEF DeleteProject, DeleteEnv, Honest
  <2>3. req'[c].at = "reply" /\ req'[c].op \in {"delete", "delete_env"}
    BY <1>1, <2>1, <2>2, Answers DEF Same
  <2>4. QED
    BY <2>3 DEF Honest, Resolved, Cloning, At
\* A resolved request goes on.
<1>11. ASSUME NEW place \in {"env", "commit"}, GoTo(c, place), Resolved(c), projects' = projects,
              req[c].op \in {"create_env", "clone_env"}
       PROVE  Honest(c)'
  <2>1. /\ req'[c].at = place /\ req'[c].id = req[c].id
        /\ req'[c].op = req[c].op /\ req'[c].slug = req[c].slug
    BY <1>1, <1>11, Goes DEF Same
  <2>2. req[c].id # made + 1
    <3>1. req[c].id \in Nat /\ made \in Nat /\ req[c].id <= made
      BY <1>1, TypedClient DEF IndInv, Typed, ReqTyped, ServerInv, Drawn
    <3>2. QED
      BY <3>1
  <2>3. \A d \in Clients : Creating(d)' => req'[d].id # req[c].id
    BY <1>11, <2>2, NewProjects DEF Honest
  <2>4. QED
    BY <1>11, <2>1, <2>3 DEF Honest, Resolved, Cloning, At
<1>12. CASE ReadSource(c)
  <2>1. Resolved(c) /\ req[c].op \in {"create_env", "clone_env"} /\ projects' = projects
    BY <1>12 DEF ReadSource, Resolved, Honest
  <2>2. QED
    BY <1>3, <1>11, <1>12, <2>1 DEF ReadSource
<1>13. CASE InsertEnv(c)
  <2>1. Resolved(c) /\ req[c].op \in {"create_env", "clone_env"} /\ projects' = projects
    BY <1>13 DEF InsertEnv, Resolved, Honest
  <2>2. CASE NewEnv(c) \in envs /\ Answer(c, "env_exists") /\ UNCHANGED envs
    <3>1. NewEnv(c).project = req[c].id
      BY DEF NewEnv, EnvRow
    <3>2. ProjectPresent(req[c].id)
      BY <2>2, <3>1 DEF IndInv, ServerInv, EnvsHaveTheirProject, ProjectPresent
    <3>3. QED
      BY <1>5, <2>1, <2>2, <3>2
  <2>3. CASE Answer(c, "internal")
    BY <1>3, <2>3
  <2>4. CASE GoTo(c, "commit")
    BY <1>11, <2>1, <2>4
  <2>5. CASE ProjectPresent(req[c].id) /\ envs' = envs \cup {NewEnv(c)} /\ Answer(c, "ok")
    BY <1>5, <2>1, <2>5
  <2>6. QED
    BY <1>13, <2>2, <2>3, <2>4, <2>5 DEF InsertEnv
<1>14. CASE CommitClone(c)
  <2>1. /\ Resolved(c) /\ Cloning(c) /\ req[c].op = "clone_env" /\ projects' = projects
        /\ NewEnv(c) \in envs' /\ Answer(c, "ok")
    BY <1>14 DEF CommitClone, Resolved, Cloning
  <2>2. ProjectPresent(req[c].id)
    BY <2>1 DEF IndInv, ServerInv, Held
  <2>3. QED
    BY <1>5, <2>1, <2>2
<1>15. QED
  BY <1>6, <1>7, <1>8, <1>9, <1>10, <1>12, <1>13, <1>14 DEF Statement

\* The names a command writes are known, but for the one it asks for now.
NamesKnown(slug, names) == \A n \in names : <<slug, SlugOf[n]>> \in Known

Heeds(t, r) ==
    /\ r.at # "idle" =>
          \/ t.at = "killed"
          \/ /\ t.at = "project" /\ r.slug = t.slug
             /\ r.op = (IF t.kind = "delete" THEN "delete" ELSE "create")
          \/ t.at = "envs" /\ r.op = "create_env" /\ r.slug = t.slug
          \/ t.at = "call" /\ r.op = t.kind /\ r.slug = t.slug /\ r.env = t.env
    /\ t.kind \in {"setup", "init", "delete"} => t.slug \in Slugs
    /\ t.kind \in {"setup", "init"} => t.file.project = t.slug
    /\ t.kind = "init" => t.file.envs \subseteq {Dev}
    /\ t.at = "project" => t.kind \in {"setup", "init", "delete"}
    /\ t.at = "retry" => t.kind = "setup"
    /\ t.at = "envs" => /\ t.kind = "setup" /\ <<t.slug, Dev>> \in Known
                        /\ NamesKnown(t.slug, SetupEnvs(t) \ t.left)
    /\ t.at = "call" => /\ t.slug \in Slugs /\ t.file.project = t.slug
                        /\ NamesKnown(t.slug, t.file.envs \ {t.env})
                        /\ t.kind = "delete_env" => t.env \notin t.file.envs
    /\ t.at \in {"truncate", "write"} => /\ t.file.project \in Slugs
                                         /\ NamesKnown(t.file.project, t.file.envs)

ConfigKnown ==
    /\ config = NoFile \/ config.project \in Slugs
    /\ NamesKnown(config.project, config.envs)

FileInv == ConfigKnown /\ \A c \in Clients : Honest(c) /\ Heeds(task[c], req[c])

LEMMA HeedsKept ==
    ASSUME NEW c \in Clients, Heeds(task[c], req[c]), Known \subseteq Known',
           task'[c] = task[c],
           \/ req'[c] = req[c]
           \/ req[c].at # "idle" /\ Same(c)
           \/ req'[c].at = "idle"
    PROVE  Heeds(task[c], req[c])'
  BY DEF Heeds, NamesKnown, SetupEnvs, Same

LEMMA ConfigKept ==
    ASSUME ConfigKnown, Known \subseteq Known', config' = config
    PROVE  ConfigKnown'
  BY DEF ConfigKnown, NamesKnown

\* A step that leaves the tables alone and inserts nothing.
LEMMA HonestQuiet ==
    ASSUME NEW c \in Clients, \A d \in Clients : Honest(d), Others(c),
           UNCHANGED <<projects, envs, dropped>>,
           \/ req'[c].at \in {"idle", "start"}
           \/ req'[c].at = "reply" /\ req'[c].answer \notin Good
    PROVE  \A d \in Clients : Honest(d)'
<1>1. Known' = Known
  BY DEF Known
<1>2. \A e \in Clients : Creating(e)' => Creating(e) /\ req'[e] = req[e]
  BY DEF Creating, At, Others
<1>3. ASSUME NEW d \in Clients \ {c} PROVE Honest(d)'
  <2>1. req'[d] = req[d] /\ Honest(d)
    BY DEF Others
  <2>2. QED
    BY <1>1, <1>2, <2>1 DEF Honest, Resolved, Cloning, At
<1>4. Honest(c)'
  BY DEF Honest, Resolved, Cloning, At
<1>5. QED
  BY <1>3, <1>4

LEMMA HonestSame ==
    ASSUME \A d \in Clients : Honest(d), UNCHANGED <<projects, envs, dropped, req>>
    PROVE  (\A d \in Clients : Honest(d)') /\ Known' = Known
<1>1. Known' = Known
  BY DEF Known
<1>2. QED
  BY <1>1 DEF Honest, Resolved, Cloning, At, Creating

------------------------------------------------------------------------------
(* The steps of FileInv.                                                    *)

LEMMA ServeFile ==
    ASSUME IndInv, FileInv, NEW c \in Clients, Serve(c)
    PROVE  FileInv'
<1>1. Statement(c) /\ UNCHANGED <<config, task>>
  BY DEF Serve
<1>2. Others(c) /\ Same(c) /\ Known \subseteq Known'
  BY <1>1, StatementChanges, KnownGrows
<1>3. req[c].at # "idle"
  BY <1>1 DEF Statement, CheckName, InsertProject, CommitProject, Resolve, DeleteProject,
         ReadSource, InsertEnv, CommitClone, DeleteEnv, At
<1>4. ASSUME NEW d \in Clients PROVE Honest(d)' /\ Heeds(task[d], req[d])'
  <2>1. Honest(d) /\ Heeds(task[d], req[d])
    BY DEF FileInv
  <2>2. Honest(d)'
    BY <1>1, <2>1, OwnHonest, OthersHonest
  <2>3. task'[d] = task[d] /\ (req'[d] = req[d] \/ (req[d].at # "idle" /\ Same(d)))
    BY <1>1, <1>2, <1>3 DEF Others
  <2>4. QED
    BY <1>2, <2>1, <2>2, <2>3, HeedsKept
<1>5. QED
  BY <1>1, <1>2, <1>4, ConfigKept DEF FileInv

LEMMA FailFile ==
    ASSUME IndInv, FileInv, NEW c \in Clients, Fail(c)
    PROVE  FileInv'
<1>1. /\ Answer(c, "failed") /\ req[c].at # "idle"
      /\ UNCHANGED <<projects, envs, made, dropped, config, task>>
  BY DEF Fail, FailRequest
<1>2. Others(c) /\ req'[c].at = "reply" /\ req'[c].answer = "failed" /\ Same(c)
  BY <1>1, Answers, AnswerIs DEF IndInv
<1>3. "failed" \notin Good /\ Known' = Known
  BY <1>1 DEF Good, Known
<1>4. \A d \in Clients : Honest(d)'
  BY <1>1, <1>2, <1>3, HonestQuiet DEF FileInv
<1>5. ASSUME NEW d \in Clients PROVE Heeds(task[d], req[d])'
  <2>1. Heeds(task[d], req[d])
    BY DEF FileInv
  <2>2. task'[d] = task[d] /\ (req'[d] = req[d] \/ (req[d].at # "idle" /\ Same(d)))
    BY <1>1, <1>2 DEF Others
  <2>3. QED
    BY <1>3, <2>1, <2>2, HeedsKept
<1>6. QED
  BY <1>1, <1>3, <1>4, <1>5, ConfigKept DEF FileInv

\* A step of the command alone.
LEMMA TaskStep ==
    ASSUME IndInv, FileInv, NEW c \in Clients, NEW t,
           task' = [task EXCEPT ![c] = t],
           UNCHANGED <<projects, envs, dropped, config>>,
           \/ req' = req
           \/ Hang(c),
           Heeds(t, req'[c])
    PROVE  FileInv'
<1>1. Known' = Known
  BY DEF Known
<1>2. Others(c) /\ (req' = req \/ req'[c].at = "idle")
  BY Hangs DEF Others, IndInv
<1>3. \A d \in Clients : Honest(d)'
  BY <1>2, HonestQuiet, HonestSame DEF FileInv
<1>4. task \in [Clients -> TaskTypes]
  BY DEF IndInv, Typed, TaskTyped
<1>5. ASSUME NEW d \in Clients PROVE Heeds(task[d], req[d])'
  <2>1. CASE d = c
    <3>1. task'[d] = t
      BY <1>4, <2>1
    <3>2. QED
      BY <1>1, <2>1, <3>1 DEF Heeds, NamesKnown, SetupEnvs
  <2>2. CASE d # c
    <3>1. task'[d] = task[d] /\ req'[d] = req[d] /\ Heeds(task[d], req[d])
      BY <1>2, <1>4, <2>2 DEF Others, FileInv
    <3>2. QED
      BY <1>1, <3>1, HeedsKept
  <2>3. QED
    BY <2>1, <2>2
<1>6. QED
  BY <1>1, <1>3, <1>5, ConfigKept DEF FileInv

LEMMA StartFile ==
    ASSUME IndInv, FileInv, NEW c \in Clients, Start(c)
    PROVE  FileInv'
<1> HIDE DEF Dev
<1>1. NoTask.slug = "" /\ NoTask.file = NoFile
  BY DEF NoTask
<1>2. ASSUME NEW t, Begin(c, t),
             t.at \in {"project", "load"}, t.at = "project" => t.kind \in {"setup", "init", "delete"},
             t.kind \in {"setup", "init", "delete"} => t.slug \in Slugs,
             t.kind \in {"setup", "init"} => t.file.project = t.slug,
             t.kind = "init" => t.file.envs \subseteq {Dev}
      PROVE  FileInv'
  <2>1. /\ task' = [task EXCEPT ![c] = t] /\ req' = req
        /\ UNCHANGED <<projects, envs, dropped, config>>
        /\ task[c].at \in {"none", "done"}
    BY <1>2 DEF Begin, serverVars
  <2>2. req'[c].at = "idle"
    BY <2>1 DEF FileInv, Heeds
  <2>3. Heeds(t, req'[c])
    BY <1>2, <2>2 DEF Heeds
  <2>4. QED
    BY <2>1, <2>3, TaskStep
<1>3. ASSUME NEW slug \in Slugs, NEW wanted \in Wanted, StartSetup(c, slug, wanted)
      PROVE  FileInv'
  <2> DEFINE t == [NoTask EXCEPT !.kind = "setup", !.at = "project", !.slug = slug,
                !.file = File(slug, wanted \cup {Dev})]
  <2>1. /\ t.at = "project" /\ t.kind = "setup" /\ t.slug = slug
        /\ t.file.project = slug
    BY DEF NoTask, File
  <2>2. Begin(c, t)
    BY <1>3 DEF StartSetup
  <2> HIDE DEF t
  <2>3. QED
    BY <1>2, <2>1, <2>2
<1>4. ASSUME NEW slug \in Slugs, StartInit(c, slug)
      PROVE  FileInv'
  <2> DEFINE t == [NoTask EXCEPT !.kind = "init", !.at = "project", !.slug = slug,
                                 !.file = File(slug, {Dev})]
  <2>1. /\ t.at = "project" /\ t.kind = "init" /\ t.slug = slug
        /\ t.file.project = slug /\ t.file.envs = {Dev}
    BY DEF NoTask, File
  <2>2. Begin(c, t)
    BY <1>4 DEF StartInit
  <2> HIDE DEF t
  <2>3. QED
    BY <1>2, <2>1, <2>2
<1>5. ASSUME NEW slug \in Slugs, StartDelete(c, slug)
      PROVE  FileInv'
  <2> DEFINE t == [NoTask EXCEPT !.kind = "delete", !.at = "project", !.slug = slug]
  <2>1. t.at = "project" /\ t.kind = "delete" /\ t.slug = slug
    BY DEF NoTask
  <2>2. Begin(c, t)
    BY <1>5 DEF StartDelete
  <2> HIDE DEF t
  <2>3. QED
    BY <1>2, <2>1, <2>2
<1>6. ASSUME NEW kind \in EnvCommands, NEW env, NEW source, StartEnvCommand(c, kind, env, source)
      PROVE  FileInv'
  <2> DEFINE t == [NoTask EXCEPT !.kind = kind, !.at = "load", !.env = env, !.source = source]
  <2>1. t.at = "load" /\ t.kind \notin {"setup", "init", "delete"}
    BY DEF NoTask, EnvCommands
  <2>2. Begin(c, t)
    BY <1>6 DEF StartEnvCommand
  <2> HIDE DEF t
  <2>3. QED
    BY <1>2, <2>1, <2>2
<1>7. QED
  <2>1. "clone_env" \in EnvCommands
    BY DEF EnvCommands
  <2>2. QED
    BY <1>3, <1>4, <1>5, <1>6, <2>1 DEF Start

LEMMA LoadFile ==
    ASSUME IndInv, FileInv, NEW c \in Clients, Load(c)
    PROVE  FileInv'
<1> DEFINE t == Loaded(task[c])
           file == Edited(task[c].kind, config, task[c].env)
<1>1. /\ task[c].at = "load" /\ task' = [task EXCEPT ![c] = t] /\ req' = req
      /\ UNCHANGED <<projects, envs, dropped, config>>
  BY DEF Load, serverVars
<1>2. /\ req'[c].at = "idle" /\ task[c].kind \in EnvCommands /\ task[c] \in TaskTypes
  BY <1>1 DEF FileInv, Heeds, IndInv, Typed, TaskTyped
<1>3. task[c].kind \notin {"setup", "init", "delete"}
  BY <1>2 DEF EnvCommands
<1>4. CASE config = NoFile
  <2>1. t = [task[c] EXCEPT !.at = "done"]
    BY <1>4 DEF Loaded
  <2>2. t.at = "done" /\ t.kind = task[c].kind
    BY <1>2, <2>1 DEF TaskTypes
  <2> HIDE DEF t
  <2>3. Heeds(t, req'[c])
    BY <1>2, <1>3, <2>2 DEF Heeds
  <2>4. QED
    BY <1>1, <2>3, TaskStep
<1>5. CASE config # NoFile
  <2>1. t = [task[c] EXCEPT !.at = "call", !.slug = config.project, !.file = file]
    BY <1>5 DEF Loaded
  <2>2. /\ file.project = config.project
        /\ file.envs = IF task[c].kind = "delete_env" THEN config.envs \ {task[c].env}
                       ELSE config.envs \cup {task[c].env}
    BY DEF Edited, File
  <2> HIDE DEF file
  <2>3. /\ t.at = "call" /\ t.kind = task[c].kind /\ t.slug = config.project /\ t.file = file
        /\ t.env = task[c].env
    BY <1>2, <2>1 DEF TaskTypes
  <2> HIDE DEF t
  <2>4. config.project \in Slugs /\ NamesKnown(config.project, config.envs)
    BY <1>5 DEF FileInv, ConfigKnown
  <2>5. NamesKnown(t.slug, t.file.envs \ {t.env})
    BY <2>2, <2>3, <2>4 DEF NamesKnown
  <2>6. t.kind = "delete_env" => t.env \notin t.file.envs
    BY <2>2, <2>3
  <2>7. Heeds(t, req'[c])
    BY <1>2, <1>3, <2>2, <2>3, <2>4, <2>5, <2>6 DEF Heeds
  <2>8. QED
    BY <1>1, <2>7, TaskStep
<1>6. QED
  BY <1>4, <1>5

LEMMA SendFile ==
    ASSUME IndInv, FileInv, NEW c \in Clients, Send(c)
    PROVE  FileInv'
<1>1. Heeds(task[c], req[c]) /\ UNCHANGED <<config, task>>
  BY DEF FileInv, Send
<1>2. ASSUME NEW op, NEW slug, NEW env, NEW source, Call(c, op, slug, env, source),
             \/ task[c].at = "project" /\ slug = task[c].slug
                  /\ op = (IF task[c].kind = "delete" THEN "delete" ELSE "create")
             \/ task[c].at = "envs" /\ op = "create_env" /\ slug = task[c].slug
             \/ task[c].at = "call" /\ op = task[c].kind /\ slug = task[c].slug
                  /\ env = task[c].env
      PROVE  FileInv'
  <2> DEFINE r == [NoRequest EXCEPT !.at = "start", !.op = op, !.slug = slug, !.env = env,
                                    !.source = source]
  <2>1. r.at = "start" /\ r.op = op /\ r.slug = slug /\ r.env = env
    BY DEF NoRequest
  <2>2. req' = [req EXCEPT ![c] = r] /\ UNCHANGED <<projects, envs, dropped>>
    BY <1>2 DEF Call
  <2> HIDE DEF r
  <2>3. req'[c] = r /\ Others(c) /\ Known' = Known
    BY <2>2 DEF Others, IndInv, Typed, ReqTyped, Known
  <2>4. \A d \in Clients : Honest(d)'
    BY <2>1, <2>2, <2>3, HonestQuiet DEF FileInv
  <2>5. Heeds(task[c], r)
    BY <1>1, <1>2, <2>1 DEF Heeds
  <2>6. ASSUME NEW d \in Clients PROVE Heeds(task[d], req[d])'
    <3>1. CASE d = c
      <4>1. task'[d] = task[c] /\ req'[d] = r
        BY <1>1, <2>3, <3>1
      <4>2. QED
        BY <2>3, <2>5, <4>1 DEF Heeds, NamesKnown, SetupEnvs
    <3>2. CASE d # c
      BY <1>1, <2>3, <3>2, HeedsKept DEF Others, FileInv
    <3>3. QED
      BY <3>1, <3>2
  <2>7. QED
    BY <1>1, <2>3, <2>4, <2>6, ConfigKept DEF FileInv
<1>3. CASE task[c].at = "project" /\
           Call(c, IF task[c].kind = "delete" THEN "delete" ELSE "create", task[c].slug, Dev, Dev)
  BY <1>2, <1>3
<1>4. CASE task[c].at = "envs" /\ \E e \in task[c].left : Call(c, "create_env", task[c].slug, e, Dev)
  BY <1>2, <1>4
<1>5. CASE task[c].at = "call" /\ Call(c, task[c].kind, task[c].slug, task[c].env, task[c].source)
  BY <1>2, <1>5
<1>6. QED
  BY <1>3, <1>4, <1>5 DEF Send

\* A command goes on to a place that claims nothing new.
LEMMA StepFile ==
    ASSUME IndInv, FileInv, NEW c \in Clients,
           NEW place \in {"done", "retry", "project", "killed"},
           Step(c, place), UNCHANGED <<projects, envs, dropped, config>>,
           \/ Hang(c)
           \/ req' = req /\ (req[c].at = "idle" \/ place = "killed"),
           place \in {"retry", "project"} => task[c].kind = "setup"
    PROVE  FileInv'
<1> DEFINE t == [task[c] EXCEPT !.at = place]
<1>1. task[c] \in TaskTypes /\ Heeds(task[c], req[c])
  BY DEF IndInv, Typed, TaskTyped, FileInv
<1>2. /\ t.at = place /\ t.kind = task[c].kind /\ t.slug = task[c].slug
      /\ t.file = task[c].file
  BY <1>1 DEF TaskTypes
<1>3. task' = [task EXCEPT ![c] = t]
  BY DEF Step
<1>4. req'[c].at = "idle" \/ place = "killed"
  BY Hangs DEF IndInv
<1> HIDE DEF t
<1>5. Heeds(t, req'[c])
  BY <1>1, <1>2, <1>4 DEF Heeds
<1>6. QED
  BY <1>3, <1>5, TaskStep

\* What the answer says is known, and what is left gets done later.
LEMMA HearOkFile ==
    ASSUME IndInv, FileInv, NEW c \in Clients, HearOk(c)
    PROVE  FileInv'
<1> DEFINE t == AfterAnswer(task[c], req[c].env)
           old == task[c]
           r == req[c]
<1>1. /\ old \in TaskTypes /\ Heeds(old, r) /\ Honest(c) /\ Typed
  BY DEF IndInv, Typed, TaskTyped, FileInv
<1>2. /\ r.at = "reply" /\ old.at \in {"project", "envs", "call"}
      /\ task' = [task EXCEPT ![c] = t] /\ Hang(c)
      /\ UNCHANGED <<projects, envs, dropped, config>>
  BY DEF HearOk, Hang, At
<1>3. r.answer \in Good /\ (r.answer = "ok" \/ old.kind = "setup")
  BY DEF HearOk, Tolerates, Good
<1>4. req'[c].at = "idle"
  BY <1>1, <1>2, Hangs
<1>5. /\ old.at = "call" => old.kind \in EnvCommands
      /\ old.at = "project" => old.kind \in {"setup", "init", "delete"}
      /\ old.at = "envs" => old.kind = "setup"
  BY <1>1 DEF Heeds, Typed, TaskTyped
<1>6. SlugOf[Dev] = Dev
  BY ProjectsAssumption
<1> HIDE DEF Dev
<1>7. /\ old.at = "project" /\ old.kind # "delete" => <<old.slug, Dev>> \in Known
      /\ old.at = "envs" => <<old.slug, SlugOf[r.env]>> \in Known
      /\ old.at = "call" /\ old.kind # "delete_env" => <<old.slug, SlugOf[old.env]>> \in Known
  BY <1>1, <1>2, <1>3, <1>5 DEF Heeds, Honest, At, EnvCommands
<1>8. ASSUME old.at \in {"project", "envs"}, old.kind \in {"setup", "init"}
      PROVE  /\ old.slug \in Slugs /\ old.file.project = old.slug
             /\ <<old.slug, Dev>> \in Known
  BY <1>1, <1>7, <1>8 DEF Heeds
<1>9. CASE old.kind = "delete"
  <2>1. t = [old EXCEPT !.at = "done"]
    BY <1>9 DEF AfterAnswer
  <2>2. t.at = "done" /\ t.kind = "delete" /\ t.slug = old.slug
    BY <1>1, <1>9, <2>1 DEF TaskTypes
  <2> HIDE DEF t
  <2>3. Heeds(t, req'[c])
    BY <1>1, <1>4, <1>9, <2>2 DEF Heeds
  <2>4. QED
    BY <1>2, <2>3, TaskStep
<1>10. ASSUME NEW left, t = [old EXCEPT !.at = "envs", !.left = left], old.kind = "setup",
              old.at \in {"project", "envs"}, NamesKnown(old.slug, SetupEnvs(old) \ left)
       PROVE  FileInv'
  <2>1. /\ t.at = "envs" /\ t.kind = "setup" /\ t.slug = old.slug /\ t.left = left
        /\ t.file = old.file
    BY <1>1, <1>10 DEF TaskTypes
  <2> HIDE DEF t
  <2>2. Heeds(t, req'[c])
    BY <1>1, <1>4, <1>8, <1>10, <2>1 DEF Heeds, SetupEnvs
  <2>3. QED
    BY <1>2, <2>2, TaskStep
<1>11. ASSUME t = [old EXCEPT !.at = "truncate", !.left = {}], old.file.project \in Slugs,
              NamesKnown(old.file.project, old.file.envs)
       PROVE  FileInv'
  <2>1. t.at = "truncate" /\ t.kind = old.kind /\ t.slug = old.slug /\ t.file = old.file
    BY <1>1, <1>11 DEF TaskTypes
  <2> HIDE DEF t
  <2>2. Heeds(t, req'[c])
    BY <1>1, <1>4, <1>11, <2>1 DEF Heeds
  <2>3. QED
    BY <1>2, <2>2, TaskStep
<1>12. CASE old.at = "project" /\ old.kind = "setup"
  <2>1. NamesKnown(old.slug, SetupEnvs(old) \ SetupEnvs(old))
    BY DEF NamesKnown
  <2>2. CASE SetupEnvs(old) # {}
    <3>1. t = [old EXCEPT !.at = "envs", !.left = SetupEnvs(old)]
      BY <1>12, <2>2 DEF AfterAnswer
    <3>2. QED
      BY <1>10, <1>12, <2>1, <3>1
  <2>3. CASE SetupEnvs(old) = {}
    <3>1. t = [old EXCEPT !.at = "truncate", !.left = {}]
      BY <1>12, <2>3 DEF AfterAnswer
    <3>2. old.file.envs \subseteq {Dev}
      BY <2>3 DEF SetupEnvs
    <3>3. NamesKnown(old.file.project, old.file.envs)
      BY <1>6, <1>8, <1>12, <3>2 DEF NamesKnown
    <3>4. QED
      BY <1>8, <1>11, <1>12, <3>1, <3>3
  <2>4. QED
    BY <2>2, <2>3
<1>13. CASE old.at = "project" /\ old.kind = "init"
  <2>1. t = [old EXCEPT !.at = "truncate", !.left = {}]
    BY <1>13 DEF AfterAnswer
  <2>2. old.file.envs \subseteq {Dev}
    BY <1>1, <1>13 DEF Heeds
  <2>3. NamesKnown(old.file.project, old.file.envs)
    BY <1>6, <1>8, <1>13, <2>2 DEF NamesKnown
  <2>4. QED
    BY <1>8, <1>11, <1>13, <2>1, <2>3
<1>14. CASE old.at = "envs"
  <2>1. old.kind = "setup" /\ NamesKnown(old.slug, SetupEnvs(old) \ old.left)
    BY <1>1, <1>14 DEF Heeds
  <2>2. NamesKnown(old.slug, SetupEnvs(old) \ (old.left \ {r.env}))
    BY <1>7, <1>14, <2>1 DEF NamesKnown
  <2>3. CASE old.left \ {r.env} # {}
    <3>1. t = [old EXCEPT !.at = "envs", !.left = old.left \ {r.env}]
      BY <1>14, <2>1, <2>3 DEF AfterAnswer
    <3>2. QED
      BY <1>10, <1>14, <2>1, <2>2, <3>1
  <2>4. CASE old.left \ {r.env} = {}
    <3>1. t = [old EXCEPT !.at = "truncate", !.left = {}]
      BY <1>14, <2>1, <2>4 DEF AfterAnswer
    <3>2. NamesKnown(old.file.project, old.file.envs)
      BY <1>6, <1>8, <1>14, <2>1, <2>2, <2>4 DEF NamesKnown, SetupEnvs
    <3>3. QED
      BY <1>8, <1>11, <1>14, <2>1, <3>1, <3>2
  <2>5. QED
    BY <2>3, <2>4
<1>15. CASE old.at = "call"
  <2>1. old.kind \in {"create_env", "clone_env", "delete_env"}
    BY <1>5, <1>15 DEF EnvCommands
  <2>2. t = [old EXCEPT !.at = "truncate", !.left = {}]
    BY <1>15, <2>1 DEF AfterAnswer
  <2>3. /\ old.slug \in Slugs /\ old.file.project = old.slug
        /\ NamesKnown(old.slug, old.file.envs \ {old.env})
        /\ old.kind = "delete_env" => old.env \notin old.file.envs
    BY <1>1, <1>15 DEF Heeds
  <2>4. NamesKnown(old.file.project, old.file.envs)
    BY <1>7, <1>15, <2>3 DEF NamesKnown
  <2>5. QED
    BY <1>11, <2>2, <2>3, <2>4
<1>16. QED
  BY <1>2, <1>5, <1>9, <1>12, <1>13, <1>14, <1>15

\* The file: what is written over is of the same project.
LEMMA SaveFile ==
    ASSUME IndInv, FileInv, \A s, u \in Slugs : s = u, NEW c \in Clients,
           Truncate(c) \/ Write(c)
    PROVE  FileInv'
<1> DEFINE place == IF task[c].at = "write" THEN "done" ELSE "write"
           t == [task[c] EXCEPT !.at = place]
<1>1. /\ task[c].at \in {"truncate", "write"} /\ Step(c, place)
      /\ UNCHANGED <<projects, envs, dropped, req>>
  BY DEF Truncate, Write, serverVars
<1>2. /\ task[c] \in TaskTypes /\ Heeds(task[c], req[c]) /\ task \in [Clients -> TaskTypes]
  BY DEF IndInv, Typed, TaskTyped, FileInv
<1>3. (\A d \in Clients : Honest(d)') /\ Known' = Known
  BY <1>1, HonestSame DEF FileInv
<1>4. /\ t.at = place /\ t.kind = task[c].kind /\ t.slug = task[c].slug
      /\ t.file = task[c].file
  BY <1>2 DEF TaskTypes
<1>5. task' = [task EXCEPT ![c] = t]
  BY <1>1 DEF Step
<1> HIDE DEF t
<1>6. Heeds(t, req[c])
  BY <1>1, <1>2, <1>4 DEF Heeds
<1>7. ASSUME NEW d \in Clients PROVE Heeds(task[d], req[d])'
  <2>1. CASE d = c
    <3>1. task'[d] = t /\ req'[d] = req[c]
      BY <1>1, <1>2, <1>5, <2>1
    <3>2. QED
      BY <1>3, <1>6, <3>1 DEF Heeds, NamesKnown, SetupEnvs
  <2>2. CASE d # c
    <3>1. task'[d] = task[d] /\ req'[d] = req[d]
      BY <1>1, <1>2, <1>5, <2>2
    <3>2. QED
      BY <1>3, <3>1, HeedsKept DEF FileInv
  <2>3. QED
    BY <2>1, <2>2
<1>8. NoFile.envs = {}
  BY DEF NoFile
<1>9. ConfigKnown'
  <2>1. CASE config' = NoFile
    BY <1>8, <2>1 DEF ConfigKnown, NamesKnown
  <2>2. CASE Write(c) /\ config' # NoFile
    <3>1. PICK mine : mine = task[c].file
      OBVIOUS
    <3>2. mine.project \in Slugs /\ NamesKnown(mine.project, mine.envs)
      BY <1>2, <2>2, <3>1 DEF Heeds, Write
    <3>3. CASE config' = mine
      BY <1>3, <3>2, <3>3 DEF ConfigKnown, NamesKnown
    <3>4. CASE config # NoFile /\ config' = File(mine.project, mine.envs \cup config.envs)
      <4>1. config'.project = mine.project /\ config'.envs = mine.envs \cup config.envs
        BY <3>4 DEF File
      <4>2. config.project = mine.project /\ NamesKnown(config.project, config.envs)
        BY <3>2, <3>4 DEF FileInv, ConfigKnown
      <4>3. QED
        BY <1>3, <3>2, <4>1, <4>2 DEF ConfigKnown, NamesKnown
    <3>5. QED
      BY <2>2, <3>1, <3>3, <3>4 DEF Write
  <2>3. QED
    BY <2>1, <2>2 DEF Truncate
<1>10. QED
  BY <1>3, <1>7, <1>9 DEF FileInv

LEMMA FileInit == Init => FileInv
<1> SUFFICES ASSUME Init PROVE FileInv
  OBVIOUS
<1>1. config = NoFile /\ NoFile.envs = {}
  BY DEF Init, NoFile
<1>2. ASSUME NEW c \in Clients PROVE Honest(c) /\ Heeds(task[c], req[c])
  <2>1. task[c] = NoTask /\ req[c] = NoRequest
    BY DEF Init, InitServer
  <2>2. NoTask.at = "none" /\ NoTask.kind = "" /\ NoRequest.at = "idle"
    BY DEF NoTask, NoRequest
  <2>3. QED
    BY <2>1, <2>2 DEF Honest, Heeds, Resolved, Cloning, At
<1>3. QED
  BY <1>1, <1>2 DEF FileInv, ConfigKnown, NamesKnown

LEMMA FileStep ==
    ASSUME \A s, u \in Slugs : s = u, IndInv, FileInv, [Next]_vars
    PROVE  FileInv'
<1>1. CASE UNCHANGED vars
  <2>1. UNCHANGED <<projects, envs, dropped, req, config, task>>
    BY <1>1 DEF vars, serverVars
  <2>2. (\A d \in Clients : Honest(d)') /\ Known' = Known
    BY <2>1, HonestSame DEF FileInv
  <2>3. \A d \in Clients : Heeds(task[d], req[d])'
    BY <2>1, <2>2, HeedsKept DEF FileInv
  <2>4. QED
    BY <2>1, <2>2, <2>3, ConfigKept DEF FileInv
<1>2. ASSUME NEW c \in Clients, Proceed(c) PROVE FileInv'
  <2>1. Heeds(task[c], req[c])
    BY DEF FileInv
  <2>2. CASE HearError(c)
    <3>1. Hang(c) /\ UNCHANGED <<projects, envs, dropped, config>>
      BY <2>2 DEF HearError, Hang
    <3>2. QED
      BY <2>2, <3>1, StepFile DEF HearError
  <2>3. CASE Retry(c)
    <3>1. /\ req[c].at = "idle" /\ task[c].kind = "setup" /\ req' = req
          /\ UNCHANGED <<projects, envs, dropped, config>> /\ Step(c, "project")
      BY <2>1, <2>3 DEF Retry, Heeds, serverVars
    <3>2. QED
      BY <3>1, StepFile
  <2>4. CASE Bury(c)
    <3>1. Hang(c) /\ UNCHANGED <<projects, envs, dropped, config>>
      BY <2>4 DEF Bury, Hang
    <3>2. QED
      BY <2>4, <3>1, StepFile DEF Bury
  <2>5. QED
    BY <1>2, <2>2, <2>3, <2>4, LoadFile, SendFile, HearOkFile, SaveFile DEF Proceed
<1>3. ASSUME NEW c \in Clients, Kill(c) PROVE FileInv'
  BY <1>3, StepFile DEF Kill
<1>4. QED
  BY <1>1, <1>2, <1>3, StartFile, ServeFile, FailFile DEF Next

\* In a directory of one project, .foostash.yaml names environments that are
\* on the server, or that somebody has deleted: whichever commands fail, are
\* killed, lose their answer, are asked for again or save at the same time.
THEOREM ConfigStaysReal ==
    ASSUME \A s, u \in Slugs : s = u
    PROVE  Spec => []ConfigNamesRealEnvs
<1>1. Init => FileInv
  BY FileInit
<1>2. IndInv /\ FileInv /\ [Next]_vars => FileInv'
  BY FileStep
<1>3. IndInv /\ FileInv => ConfigNamesRealEnvs
  <2> SUFFICES ASSUME IndInv, FileInv, config # NoFile, NEW n \in config.envs
               PROVE  \/ \E p \in Named(config.project) : EnvRow(p.id, SlugOf[n]) \in envs
                      \/ <<config.project, SlugOf[n]>> \in dropped
    BY DEF ConfigNamesRealEnvs
  <2>1. <<config.project, SlugOf[n]>> \in Known
    BY DEF FileInv, ConfigKnown, NamesKnown
  <2>2. config.project \in Names /\ SlugOf[n] \in EnvNames
    BY NamesOfEnvs DEF IndInv, Typed, TaskTyped
  <2>3. QED
    BY <2>1, <2>2, InKnown DEF Named
<1>4. QED
  BY <1>1, <1>2, <1>3, IndInvHolds, PTL DEF Spec

------------------------------------------------------------------------------
(* Types.                                                                  *)

Ids == Nat \ {0}

TablesTyped ==
    /\ projects \subseteq [id : Ids, slug : Slugs]
    /\ envs \subseteq [project : Ids, slug : EnvSlugs]
    /\ made \in 0 .. MaxProjects /\ fails \in 0 .. MaxFails
    /\ \A c \in Clients :
          /\ req[c].at \notin {"idle", "start", "project", "reply"} => req[c].id \in Ids
          /\ req[c].op = "create" => req[c].slug \in Slugs

\* A command's part: what a setup asks for has the names of slugs.
CommandTyped(t) ==
    /\ t.left \subseteq EnvSlugs /\ t.source \in EnvSlugs
    /\ t.kind \in {"setup", "init"} => t.slug \in Slugs
    /\ t.kind = "setup" => t.file.envs \subseteq EnvSlugs
    /\ t.at = "project" => t.kind \in {"setup", "init", "delete"}
    /\ t.at = "retry" => t.kind = "setup"

CommandsTyped ==
    /\ tasks \in 0 .. MaxTasks
    /\ \A c \in Clients : CommandTyped(task[c])

\* What a statement does to its request and to the tables.
MovesOn(c) ==
    /\ Others(c) /\ Same(c)
    /\ req'[c].at \notin {"idle", "start", "project", "reply"} => req'[c].id \in Ids

LEMMA StatementMoves ==
    ASSUME Typed, ServerInv, TablesTyped, NEW c \in Clients, Statement(c)
    PROVE  MovesOn(c)
<1>1. ASSUME NEW answer \in {"", "ok", "failed", "internal", "project_exists",
                             "project_not_found", "env_exists", "env_not_found"},
             Answer(c, answer)
      PROVE  MovesOn(c)
  BY <1>1, Answers DEF MovesOn
<1>2. ASSUME NEW place \in {"idle", "start", "project", "commit", "delete", "env", "source",
                            "delete_env", "reply"},
             GoTo(c, place), place = "project" \/ req[c].id \in Ids
      PROVE  MovesOn(c)
  BY <1>2, Goes DEF MovesOn
<1>3. ASSUME NEW place \in {"idle", "start", "project", "commit", "delete", "env", "source",
                            "delete_env", "reply"}, NEW i \in Ids,
             GoWith(c, place, i)
      PROVE  MovesOn(c)
  BY <1>3, Goes DEF Ids, MovesOn
<1>4. CASE CheckName(c)
  BY <1>1, <1>2, <1>4 DEF CheckName
<1>5. CASE InsertProject(c)
  <2>1. made + 1 \in Ids
    <3>1. made \in Nat
      BY DEF Typed, ReqTyped
    <3>2. QED
      BY <3>1 DEF Ids
  <2>2. QED
    BY <1>1, <1>3, <1>5, <2>1 DEF InsertProject
<1>6. CASE CommitProject(c) \/ DeleteProject(c) \/ CommitClone(c) \/ DeleteEnv(c)
  <2>1. \E answer \in {"ok", "project_not_found", "env_not_found"} : Answer(c, answer)
    BY <1>6 DEF CommitProject, DeleteProject, CommitClone, DeleteEnv
  <2>2. QED
    BY <1>1, <2>1
<1>7. CASE Resolve(c)
  <2>1. CASE Named(req[c].slug) = {}
    BY <1>1, <1>7, <2>1 DEF Resolve
  <2>2. CASE Named(req[c].slug) # {}
    <3>1. PICK p \in Named(req[c].slug) : GoWith(c, AfterResolve(req[c].op), p.id)
      BY <1>7, <2>2 DEF Resolve
    <3>2. p.id \in Ids
      BY DEF Named, TablesTyped
    <3>3. req[c].op \in {"delete", "create_env", "clone_env", "delete_env"}
      BY <1>7 DEF Resolve, At, Typed, ReqTyped, ReqTypes
    <3>4. AfterResolve(req[c].op) \in {"delete", "env", "source", "delete_env"}
      BY <3>3 DEF AfterResolve
    <3>5. QED
      BY <1>3, <3>1, <3>2, <3>4
  <2>3. QED
    BY <2>1, <2>2
<1>8. CASE ReadSource(c)
  <2>1. req[c].id \in Ids
    BY <1>8 DEF ReadSource, At, TablesTyped
  <2>2. QED
    BY <1>1, <1>2, <1>8, <2>1 DEF ReadSource
<1>9. CASE InsertEnv(c)
  <2>1. req[c].id \in Ids
    BY <1>9 DEF InsertEnv, At, TablesTyped
  <2>2. QED
    BY <1>1, <1>2, <1>9, <2>1 DEF InsertEnv
<1>10. QED
  BY <1>4, <1>5, <1>6, <1>7, <1>8, <1>9 DEF Statement

LEMMA StatementTables ==
    ASSUME Typed, ServerInv, TablesTyped, NEW c \in Clients, Statement(c)
    PROVE  TablesTyped'
<1>1. /\ req[c] \in ReqTypes /\ req[c].env \in EnvNames
      /\ \A s \in EnvNames : SlugOf[s] \in EnvSlugs
      /\ Dev \in EnvSlugs
  BY ProjectsAssumption DEF Typed, ReqTyped, ReqTypes, EnvSlugs
<1>2. ASSUME req[c].id \in Ids, NEW s \in EnvSlugs
      PROVE  EnvRow(req[c].id, s) \in [project : Ids, slug : EnvSlugs]
  BY <1>2 DEF EnvRow
<1>3. projects' \subseteq [id : Ids, slug : Slugs]
  <2>1. CASE CommitProject(c)
    <3>1. req[c].id \in Ids /\ req[c].slug \in Slugs
      BY <2>1 DEF CommitProject, At, TablesTyped
    <3>2. Row(req[c].id, req[c].slug) \in [id : Ids, slug : Slugs]
      BY <3>1 DEF Row
    <3>3. QED
      BY <2>1, <3>2 DEF CommitProject, TablesTyped
  <2>2. CASE ~CommitProject(c)
    <3>1. projects' \subseteq projects
      BY <2>2 DEF Statement, CheckName, InsertProject, Resolve, DeleteProject, ReadSource,
                  InsertEnv, CommitClone, DeleteEnv
    <3>2. QED
      BY <3>1 DEF TablesTyped
  <2>3. QED
    BY <2>1, <2>2
<1>4. envs' \subseteq [project : Ids, slug : EnvSlugs]
  <2>1. CASE CommitProject(c) \/ InsertEnv(c) \/ CommitClone(c)
    <3>1. req[c].id \in Ids
      BY <2>1 DEF CommitProject, InsertEnv, CommitClone, At, TablesTyped
    <3>2. envs' \subseteq envs \cup {EnvRow(req[c].id, Dev), EnvRow(req[c].id, SlugOf[req[c].env])}
      BY <2>1 DEF CommitProject, InsertEnv, CommitClone, NewEnv
    <3>3. QED
      BY <1>1, <1>2, <3>1, <3>2 DEF TablesTyped
  <2>2. CASE ~(CommitProject(c) \/ InsertEnv(c) \/ CommitClone(c))
    <3>1. envs' \subseteq envs
      BY <2>2 DEF Statement, CheckName, InsertProject, Resolve, DeleteProject, ReadSource, DeleteEnv
    <3>2. QED
      BY <3>1 DEF TablesTyped
  <2>3. QED
    BY <2>1, <2>2
<1>5. made' \in 0 .. MaxProjects /\ fails' \in 0 .. MaxFails
  <2>1. UNCHANGED fails /\ (UNCHANGED made \/ (made < MaxProjects /\ made' = made + 1))
    BY DEF Statement, CheckName, InsertProject, CommitProject, Resolve, DeleteProject,
           ReadSource, InsertEnv, CommitClone, DeleteEnv
  <2>2. made \in 0 .. MaxProjects /\ MaxProjects \in Nat /\ fails \in 0 .. MaxFails
    BY ProjectsAssumption DEF TablesTyped
  <2>3. QED
    BY <2>1, <2>2
<1>6. QED
  BY <1>3, <1>4, <1>5, StatementMoves DEF MovesOn, TablesTyped, Others, Same

\* What the commands do to the requests.
LEMMA CommandTables ==
    ASSUME IndInv, TablesTyped, CommandsTyped, NEW c \in Clients,
           Start(c) \/ Proceed(c) \/ Fail(c) \/ Kill(c)
    PROVE  TablesTyped'
<1>1. Typed /\ req[c] \in ReqTypes /\ task[c] \in TaskTypes /\ req \in [Clients -> ReqTypes]
  BY DEF IndInv, Typed, ReqTyped, TaskTyped
<1>2. CASE UNCHANGED <<projects, envs, made, fails, req>>
  BY <1>2 DEF TablesTyped
<1>3. ASSUME UNCHANGED <<projects, envs, made>>, fails' \in 0 .. MaxFails, Others(c),
             req'[c].at \in {"idle", "start", "reply"},
             req'[c].op = "create" => req'[c].slug \in Slugs
      PROVE  TablesTyped'
  BY <1>3 DEF TablesTyped, Others
<1>4. fails \in 0 .. MaxFails /\ MaxFails \in Nat
  BY ProjectsAssumption DEF TablesTyped
<1>5. CASE Start(c)
  BY <1>1, <1>2, <1>5, StartInv DEF serverVars
<1>6. CASE Fail(c)
  <2>1. Answer(c, "failed") /\ UNCHANGED <<projects, envs, made>> /\ fails < MaxFails
        /\ fails' = fails + 1
    BY <1>6 DEF Fail, FailRequest
  <2>2. Others(c) /\ Same(c) /\ req'[c].at = "reply"
    BY <1>1, <2>1, Answers
  <2>3. fails' \in 0 .. MaxFails
    BY <1>4, <2>1
  <2>4. QED
    BY <1>3, <2>1, <2>2, <2>3 DEF Same, TablesTyped
<1>7. CASE Kill(c)
  <2>1. fails < MaxFails /\ fails' = fails + 1 /\ UNCHANGED <<projects, envs, req, made>>
    BY <1>7 DEF Kill
  <2>2. fails' \in 0 .. MaxFails
    BY <1>4, <2>1
  <2>3. QED
    BY <2>1, <2>2 DEF TablesTyped
<1>8. CASE Send(c)
  <2>1. PICK op, slug, env, source :
           /\ Call(c, op, slug, env, source)
           /\ op = "create" => slug \in Slugs
    <3>1. CASE /\ task[c].at = "project"
               /\ Call(c, IF task[c].kind = "delete" THEN "delete" ELSE "create",
                       task[c].slug, Dev, Dev)
      BY <3>1 DEF CommandsTyped, CommandTyped
    <3>2. CASE \E e \in task[c].left : Call(c, "create_env", task[c].slug, e, Dev)
      BY <3>2
    <3>3. CASE /\ task[c].at = "call"
               /\ Call(c, task[c].kind, task[c].slug, task[c].env, task[c].source)
      BY <1>1, <3>3 DEF Typed, TaskTyped, EnvCommands
    <3>4. QED
      BY <1>8, <3>1, <3>2, <3>3 DEF Send
  <2>2. PICK r : r = [NoRequest EXCEPT !.at = "start", !.op = op, !.slug = slug, !.env = env,
                                       !.source = source]
    OBVIOUS
  <2>3. r.at = "start" /\ r.op = op /\ r.slug = slug
    BY <2>2 DEF NoRequest
  <2>4. req' = [req EXCEPT ![c] = r] /\ UNCHANGED <<projects, envs, made, fails>>
    BY <2>1, <2>2 DEF Call
  <2>5. Others(c) /\ req'[c] = r
    BY <1>1, <2>4 DEF Others
  <2>6. QED
    BY <1>3, <1>4, <2>1, <2>3, <2>4, <2>5
<1>9. CASE Hang(c)
  <2>1. NoRequest.at = "idle" /\ NoRequest.op = ""
    BY DEF NoRequest
  <2>2. Others(c) /\ req'[c] = NoRequest /\ UNCHANGED <<projects, envs, made, fails>>
    BY <1>1, <1>9 DEF Hang, Others
  <2>3. QED
    BY <1>3, <1>4, <2>1, <2>2
<1>10. Proceed(c) => Send(c) \/ Hang(c) \/ UNCHANGED <<projects, envs, made, fails, req>>
  BY DEF Proceed, Load, HearOk, HearError, Retry, Truncate, Write, Bury, serverVars
<1>11. QED
  BY <1>2, <1>5, <1>6, <1>7, <1>8, <1>9, <1>10

LEMMA CommandSet ==
    ASSUME Typed, CommandsTyped, NEW c \in Clients, NEW t, CommandTyped(t),
           task' = [task EXCEPT ![c] = t], tasks' \in 0 .. MaxTasks
    PROVE  CommandsTyped'
  BY DEF Typed, TaskTyped, CommandsTyped, CommandTyped

LEMMA CommandStep ==
    ASSUME Typed, CommandsTyped, NEW c \in Clients, UNCHANGED tasks,
           NEW place, Step(c, place), place \notin {"project", "retry"} \/ task[c].kind = "setup"
    PROVE  CommandsTyped'
<1>1. task[c] \in TaskTypes /\ CommandTyped(task[c]) /\ tasks \in 0 .. MaxTasks
  BY DEF Typed, TaskTyped, CommandsTyped
<1>2. PICK t : t = [task[c] EXCEPT !.at = place]
  OBVIOUS
<1>3. /\ t.kind = task[c].kind /\ t.at = place /\ t.slug = task[c].slug /\ t.left = task[c].left
      /\ t.file = task[c].file /\ t.source = task[c].source
  BY <1>1, <1>2 DEF TaskTypes
<1>4. CommandTyped(t)
  BY <1>1, <1>3 DEF CommandTyped
<1>5. task' = [task EXCEPT ![c] = t]
  BY <1>1, <1>2 DEF Step, Typed, TaskTyped
<1>6. QED
  BY <1>1, <1>4, <1>5, CommandSet

LEMMA CommandStart ==
    ASSUME Typed, CommandsTyped, NEW c \in Clients, Start(c)
    PROVE  CommandsTyped'
<1>0. Dev \in EnvSlugs
  BY ProjectsAssumption
<1> HIDE DEF Dev
<1>1. ASSUME NEW t, CommandTyped(t), Begin(c, t) PROVE CommandsTyped'
  <2>1. tasks < MaxTasks /\ tasks' = tasks + 1 /\ tasks \in 0 .. MaxTasks /\ MaxTasks \in Nat
    BY <1>1, SetupAssumption DEF Begin, CommandsTyped
  <2>2. tasks' \in 0 .. MaxTasks
    BY <2>1
  <2>3. QED
    BY <1>1, <2>2, CommandSet DEF Begin
<1>2. ASSUME NEW slug \in Slugs, NEW wanted \in Wanted, StartSetup(c, slug, wanted)
      PROVE  CommandsTyped'
  <2>1. PICK file : file = File(slug, wanted \cup {Dev})
    OBVIOUS
  <2>2. file.envs \subseteq EnvSlugs
    BY <1>0, <2>1, SetupAssumption DEF File
  <2>3. PICK t : t = [NoTask EXCEPT !.kind = "setup", !.at = "project", !.slug = slug, !.file = file]
    OBVIOUS
  <2>4. /\ t.kind = "setup" /\ t.at = "project" /\ t.slug = slug /\ t.file = file
        /\ t.left = {} /\ t.source = Dev
    BY <2>3 DEF NoTask
  <2>5. CommandTyped(t)
    BY <1>0, <2>2, <2>4 DEF CommandTyped
  <2>6. QED
    BY <1>1, <1>2, <2>1, <2>3, <2>5 DEF StartSetup
<1>3. ASSUME NEW slug \in Slugs, StartInit(c, slug) PROVE CommandsTyped'
  <2>1. PICK t : t = [NoTask EXCEPT !.kind = "init", !.at = "project", !.slug = slug,
                                    !.file = File(slug, {Dev})]
    OBVIOUS
  <2>2. t.kind = "init" /\ t.at = "project" /\ t.slug = slug /\ t.left = {} /\ t.source = Dev
    BY <2>1 DEF NoTask
  <2>3. CommandTyped(t)
    BY <1>0, <2>2 DEF CommandTyped
  <2>4. QED
    BY <1>1, <1>3, <2>1, <2>3 DEF StartInit
<1>4. ASSUME NEW slug \in Slugs, StartDelete(c, slug) PROVE CommandsTyped'
  <2>1. PICK t : t = [NoTask EXCEPT !.kind = "delete", !.at = "project", !.slug = slug]
    OBVIOUS
  <2>2. t.kind = "delete" /\ t.at = "project" /\ t.left = {} /\ t.source = Dev
    BY <2>1 DEF NoTask
  <2>3. CommandTyped(t)
    BY <1>0, <2>2 DEF CommandTyped
  <2>4. QED
    BY <1>1, <1>4, <2>1, <2>3 DEF StartDelete
<1>5. ASSUME NEW kind \in EnvCommands, NEW env, NEW source \in EnvSlugs,
             StartEnvCommand(c, kind, env, source)
      PROVE  CommandsTyped'
  <2>1. PICK t : t = [NoTask EXCEPT !.kind = kind, !.at = "load", !.env = env, !.source = source]
    OBVIOUS
  <2>2. t.kind = kind /\ t.at = "load" /\ t.left = {} /\ t.source = source
    BY <2>1 DEF NoTask
  <2>3. CommandTyped(t)
    BY <2>2 DEF CommandTyped, EnvCommands
  <2>4. QED
    BY <1>1, <1>5, <2>1, <2>3 DEF StartEnvCommand
<1>6. "clone_env" \in EnvCommands
  BY DEF EnvCommands
<1>7. QED
  BY <1>0, <1>2, <1>3, <1>4, <1>5, <1>6 DEF Start

LEMMA CommandProceeds ==
    ASSUME Typed, CommandsTyped, NEW c \in Clients, Proceed(c)
    PROVE  CommandsTyped'
<1>1. task[c] \in TaskTypes /\ CommandTyped(task[c]) /\ tasks \in 0 .. MaxTasks
      /\ task \in [Clients -> TaskTypes]
  BY DEF Typed, TaskTyped, CommandsTyped
<1>2. UNCHANGED tasks
  BY DEF Proceed, Load, Send, HearOk, HearError, Retry, Truncate, Write, Bury
<1>3. CASE UNCHANGED task
  BY <1>2, <1>3 DEF CommandsTyped
<1>4. CASE Load(c)
  <2>1. PICK t : t = Loaded(task[c])
    OBVIOUS
  <2>2. t.kind = task[c].kind /\ t.left = task[c].left /\ t.source = task[c].source
        /\ t.at \in {"done", "call"}
    BY <1>1, <2>1 DEF Loaded, TaskTypes
  <2>3. task[c].kind \in EnvCommands
    BY <1>4 DEF Load, Typed, TaskTyped
  <2>4. CommandTyped(t)
    BY <1>1, <2>2, <2>3 DEF CommandTyped, EnvCommands
  <2>5. QED
    BY <1>1, <1>2, <1>4, <2>1, <2>4, CommandSet DEF Load
<1>5. CASE HearOk(c)
  <2>1. PICK t : t = AfterAnswer(task[c], req[c].env)
    OBVIOUS
  <2>2. \/ t = [task[c] EXCEPT !.at = "done"]
        \/ t = [task[c] EXCEPT !.at = "truncate", !.left = {}]
        \/ \E left \in SUBSET EnvSlugs : t = [task[c] EXCEPT !.at = "envs", !.left = left]
    <3>1. task[c].at \in {"project", "envs", "call"}
      BY <1>5 DEF HearOk
    <3>2. task[c].kind = "setup" => SetupEnvs(task[c]) \subseteq EnvSlugs
      BY <1>1 DEF CommandTyped, SetupEnvs
    <3>3. task[c].left \ {req[c].env} \subseteq EnvSlugs
      BY <1>1 DEF CommandTyped
    <3>4. task[c].at = "call" => task[c].kind # "setup"
      BY DEF Typed, TaskTyped, EnvCommands
    <3>5. CASE task[c].at = "project"
      BY <2>1, <3>2, <3>5 DEF AfterAnswer
    <3>6. CASE task[c].at = "envs"
      BY <2>1, <3>3, <3>6 DEF AfterAnswer
    <3>7. CASE task[c].at = "call"
      BY <2>1, <3>4, <3>7 DEF AfterAnswer
    <3>8. QED
      BY <3>1, <3>5, <3>6, <3>7
  <2>3. /\ t.kind = task[c].kind /\ t.slug = task[c].slug /\ t.source = task[c].source
        /\ t.file = task[c].file /\ t.at \notin {"project", "retry"} /\ t.left \subseteq EnvSlugs
    BY <1>1, <2>2 DEF TaskTypes, CommandTyped
  <2>4. CommandTyped(t)
    BY <1>1, <2>3 DEF CommandTyped
  <2>5. QED
    BY <1>1, <1>2, <1>5, <2>1, <2>4, CommandSet DEF HearOk
<1>6. CASE HearError(c) \/ Bury(c)
  <2>1. Step(c, IF task[c].kind = "setup" THEN "retry" ELSE "done")
    BY <1>6 DEF HearError, Bury
  <2>2. QED
    BY <1>2, <2>1, CommandStep
<1>7. CASE Retry(c)
  BY <1>1, <1>2, <1>7, CommandStep DEF Retry, CommandTyped
<1>8. CASE Truncate(c) \/ Write(c)
  BY <1>2, <1>8, CommandStep DEF Truncate, Write
<1>9. QED
  BY <1>3, <1>4, <1>5, <1>6, <1>7, <1>8 DEF Proceed, Send

LEMMA TypesNext ==
    ASSUME IndInv, TablesTyped, CommandsTyped, [Next]_vars
    PROVE  TablesTyped' /\ CommandsTyped'
<1>1. Typed /\ ServerInv
  BY DEF IndInv
<1>2. CASE UNCHANGED vars
  BY <1>2 DEF vars, serverVars, TablesTyped, CommandsTyped
<1>3. ASSUME NEW c \in Clients, Serve(c) PROVE TablesTyped' /\ CommandsTyped'
  BY <1>1, <1>3, StatementTables DEF Serve, CommandsTyped
<1>4. ASSUME NEW c \in Clients, Fail(c) PROVE CommandsTyped'
  BY <1>4 DEF Fail, CommandsTyped
<1>5. ASSUME NEW c \in Clients, Kill(c) PROVE CommandsTyped'
  BY <1>1, <1>5, CommandStep DEF Kill
<1>6. QED
  BY <1>1, <1>2, <1>3, <1>4, <1>5, CommandTables, CommandStart, CommandProceeds DEF Next

LEMMA TypesInit == Init => TablesTyped /\ CommandsTyped
<1> SUFFICES ASSUME Init PROVE TablesTyped /\ CommandsTyped
  OBVIOUS
<1>1. /\ \A c \in Clients : req[c].at = "idle" /\ req[c].op = ""
      /\ projects = {} /\ envs = {} /\ made = 0 /\ fails = 0
  BY DEF Init, InitServer, NoRequest
<1>2. TablesTyped
  <2>1. made \in 0 .. MaxProjects /\ fails \in 0 .. MaxFails
    <3>1. MaxProjects \in Nat /\ MaxFails \in Nat
      BY ProjectsAssumption
    <3>2. made = 0 /\ fails = 0
      BY <1>1
    <3>3. made \in 0 .. MaxProjects
      BY <3>1, <3>2
    <3>4. fails \in 0 .. MaxFails
      BY <3>1, <3>2
    <3>5. QED
      BY <3>3, <3>4
  <2>2. QED
    BY <1>1, <2>1 DEF TablesTyped
<1>3. \A c \in Clients : task[c].at = "none" /\ task[c].kind = "" /\ task[c].left = {}
                         /\ task[c].source \in EnvSlugs
  BY ProjectsAssumption DEF Init, NoTask
<1>4. CommandsTyped
  <2>1. tasks \in 0 .. MaxTasks
    BY SetupAssumption DEF Init
  <2>2. QED
    BY <1>3, <2>1 DEF CommandsTyped, CommandTyped
<1>5. QED
  BY <1>2, <1>4

\* Every variable keeps its type: rows refer to ids that were drawn, requests
\* carry slugs where the server expects them, and what a setup has left to ask
\* for are names it was given (projects.go:55-262, init.go, tools.go:178-232).
THEOREM TypeCorrect == Spec => []TypeOK
<1>1. IndInv /\ TablesTyped /\ CommandsTyped => TypeOK
  <2> SUFFICES ASSUME IndInv, TablesTyped, CommandsTyped PROVE TypeOK
    OBVIOUS
  <2>1. made \in Nat /\ \A p \in projects : p.id <= made
    BY DEF IndInv, Typed, ReqTyped, ServerInv, Drawn
  <2>2. projects \subseteq [id : 1 .. made, slug : Slugs]
    BY <2>1 DEF TablesTyped, Ids
  <2>3. envs \subseteq [project : 1 .. made, slug : EnvSlugs]
    <3>1. ASSUME NEW e \in envs PROVE e.project \in 1 .. made
      <4>1. PICK p \in projects : p.id = e.project
        BY DEF IndInv, ServerInv, EnvsHaveTheirProject
      <4>2. QED
        BY <2>2, <4>1
    <3>2. QED
      BY <3>1 DEF TablesTyped
  <2>4. \A c \in Clients : req[c] \in ReqTypes /\ req[c].id \in 0 .. made
    <3>1. \A c \in Clients : req[c] \in ReqTypes /\ req[c].id <= made
      BY DEF IndInv, Typed, ReqTyped, ServerInv, Drawn
    <3>2. \A c \in Clients : req[c].id \in Nat
      BY <3>1 DEF ReqTypes
    <3>3. QED
      BY <2>1, <3>1, <3>2
  <2>5. req \in [Clients -> [at : {"idle", "start", "project", "commit", "delete", "env", "source",
                                   "delete_env", "reply"},
                             op : {"", "create", "delete", "create_env", "clone_env", "delete_env"},
                             slug : Slugs \cup {""}, env : EnvNames, source : EnvNames,
                             id : 0 .. made,
                             answer : {"", "ok", "failed", "internal", "project_exists",
                                       "project_not_found", "env_exists", "env_not_found"}]]
    BY <2>4 DEF IndInv, Typed, ReqTyped, ReqTypes, Names
  <2>6. ServerTypeOK
    BY <2>2, <2>3, <2>5 DEF ServerTypeOK, TablesTyped
  <2>7. \A c \in Clients : /\ task[c] \in TaskTypes
                           /\ task[c].left \in SUBSET EnvSlugs /\ task[c].source \in EnvSlugs
    BY DEF IndInv, Typed, TaskTyped, CommandsTyped, CommandTyped
  <2>8. task \in [Clients -> [kind : {"", "setup", "init", "delete"} \cup EnvCommands,
                              at : {"none", "project", "envs", "load", "call", "truncate", "write",
                                    "done", "retry", "killed"},
                              slug : Slugs \cup {""}, left : SUBSET EnvSlugs,
                              file : [project : Slugs \cup {""}, envs : SUBSET EnvNames],
                              env : EnvNames, source : EnvSlugs]]
    BY <2>7 DEF IndInv, Typed, TaskTyped, TaskTypes, Names
  <2>9. config \in [project : Slugs \cup {""}, envs : SUBSET EnvNames] /\ tasks \in 0 .. MaxTasks
    BY DEF IndInv, Typed, TaskTyped, Names, CommandsTyped
  <2>10. QED
    BY <2>6, <2>8, <2>9 DEF TypeOK
<1>2. QED
  BY <1>1, TypesInit, TypesNext, IndInvHolds, PTL DEF Spec
=============================================================================

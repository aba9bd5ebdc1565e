# foostash in TLA+

foostash keeps secrets: locally in encrypted files (`foostash set`, `rollback`, ...) and, for teams, on a
server with PostgreSQL behind it (HTTP API, SSH terminal interface, vault of an organisation). Secrets are
encrypted by the client; the server stores versions of ciphertexts. This directory holds TLA+ models of the
parts where interleaving, failure and ordering decide whether the program is right, the TLC configurations
that check them on small instances, and TLAPS proofs that their safety properties hold for every size.

`tlc -config X.cfg MCM.tla` checks a run, `tlapm XProofs.tla` the proofs of a component. `PROJECT.json`
lists components, runs, hazards, findings and theorems, and for every definition the source lines it stands for.

## 1. The system

| Component | State | Operations | Interacts with |
|---|---|---|---|
| Server secrets (`internal/service/secrets.go`, `internal/repo/secrets.go`) | tables `secrets` (at most one live row per environment and key) and `secret_history` | Set, BulkSet, Get, List, Delete, History, Rollback | environments (foreign key, cascade), PostgreSQL locks; called by HTTP handlers and the TUI |
| Vault (`service/vault.go`, `repo/vault.go`) | `vault_secrets`, `vault_secret_history`, per organisation | the same, for admins only | as above |
| Projects and environments (`service/projects.go`) | `projects`, `environments` | create, delete, clone | deleting cascades to the secrets |
| Accounts (`service/auth.go`, `invites.go`, `users.go`) | `organizations`, `users`, `ssh_keys`, `invites` | Register, CreateInvite, Join, ChangeRole, Revoke, ResolveSSHKey | authorises every request |
| Sign-up commands (`cli/register.go`, `cli/join.go`, MCP `identity_setup`) | identity in `~/.foostash/config.yaml` | register, join | Accounts |
| Server process (`internal/server`, `internal/repo/audit.go`) | listeners, requests in flight, connection pool, audit goroutines | Boot, Run, shutdown, RequireAuth, Record | all services |
| SSH server and TUI (`internal/sshsrv`, `internal/tui`) | the session's AuthContext, stack of views, lists loaded | navigation, reload, delete, rollback | services, asynchronously |
| Local store (`internal/store`, `internal/secrets`, `internal/envs`, `cli/import.go`) | one encrypted file per environment, `globals.enc`, temporary files | set, import, rollback, delete; create, clone, delete an environment | other foostash processes, the file system |
| Project commands (`cli/init.go`, `cli/envs.go`, MCP `project_setup`) | `.foostash.yaml` | init, envs create, clone, delete, project_setup | projects and environments |
| Synchronisation (`cli/set.go`, `cli/delete.go`, MCP `environment_sync`) | none between commands | set --remote, delete --remote, environment_sync | server secrets |
| SDK (`sdk/go`) | Watch: the versions sent last, a channel | Get, Pull, Watch | HTTP API, the consumer's goroutine |
| Provisioning (MCP `server_setup_plan`, `server_setup_apply`) | plans in memory, the compose file | plan, apply | Docker: containers, the database's volume |
| Billing (`internal/billing`) | none as wired (section 7) | webhook, checkout, limit checks | external payment service |
| Encryption and keys (`internal/crypto`, `internal/sshauth`) | `master.key` | load or generate the key, encrypt, decrypt, sign, verify | everything |
| Diff, targets, runner | none | pure formatting, process start | CLI |
| Web site (`web`) | none | static pages | nothing |

What is hard, and what makes each component correct:

* **Server secrets.** Requests interleave at statement granularity under READ COMMITTED; the maximum
  version a write starts from may be stale; bulk writes lock in the caller's order; the environment may be
  deleted under a request, and created again. Correct means: the history of a key is a gapless log, the live
  row is its newest entry, an acknowledged version stays what it was, bulk writes are all or nothing,
  nothing outlives its environment, a rollback restores what was asked for, every request ends.
* **Vault.** The same promises with a different upsert, one that does not look at the history.
* **Accounts.** Sign-up is several inserts whose conflicts only unique constraints catch; authorisation is
  decided once and used later. Correct means: an invite makes one user, a key keeps its user, no half
  sign-ups, no change across organisations, no organisation without an admin.
* **Sign-up commands.** Answers get lost after the commit, processes are killed around the write of the
  config. Correct means: the identity a machine keeps is one the server knows.
* **Projects, project commands.** Slugs are looked up before they are inserted, projects deleted under their
  environments' inserts, commands stop between the server's change and the file's. Correct means: one project
  per slug, no environment without project, the file names what exists (or somebody deleted), and
  project_setup can be asked for again.
* **Synchronisation.** What is uploaded was computed from an older pull. Correct means: a command that says
  "done" has made the server's values the file's, except where somebody wrote meanwhile; nobody sees half of
  an upload.
* **Server process.** Two listeners, a signal, a pool that closes, detached goroutines. Correct means: the
  process ends, a shutdown in time answers everybody, no handler waits for ever, audit rows are written.
* **TUI.** Results of asynchronous calls arrive after the user has gone elsewhere. Correct means: a list
  belongs to the view that shows it, the session's own changes show up, no view waits for ever.
* **Local store.** Processes share files without locks and may be killed between system calls. Correct
  means: a file is always readable, a command happens completely or not at all, the history ends with the
  live value.
* **Watch.** A consumer of any speed, failing polls, cancellation at any time. Correct means: the consumer
  ends up with what the server has, is not woken up for nothing, and the channel closes.
* **Master key.** Two first runs may generate a key each, a first run may be killed before it has written its
  key. Correct means: what is stored opens with the key that is in the file.
* **Provisioning.** Plans draw a password each and live in memory, the volume keeps the first password it was
  given, and an apply may fail at any step or be forgotten with its process. Correct means: the server can log in
  to its database, and the password is written down somewhere.

## 2. Modules

| Module | Models | Run through |
|---|---|---|
| `VersionedStore` | the abstract promise: per environment and key a log of ciphertexts and a current one, changed by atomic Put, Restore, Remove, Drop | property of `SecretsBulk` and `VaultVersions`, theorem of `ServerSecretsProofs` and `VaultProofs` |
| `Membership` | the abstract promise of the accounts: organisations, users, keys and invites changed by atomic Found, Offer, Join, SetRole, Revoke | property of `Accounts`, theorem of `AccountsProofs` |
| `ServerSecrets` | server secrets and the environment's life, statement by statement | `MCServerSecrets`: `SecretsVersions`, `SecretsBulk` |
| `Vault` | the vault, statement by statement | `MCVault`: `VaultVersions`, `VaultReinsert` |
| `Accounts` | register, invite, join, roles, revocation | `MCAccounts`: `Accounts`, `AccountsLockout` |
| `IdentitySetup` (extends `Accounts`) | the sign-up commands of one machine | `MCAccounts` |
| `Projects` | projects and environments on the server, statement by statement | `MCProjectSetup`: `Projects` |
| `ProjectSetup` (extends `Projects`) | init, envs, project_setup and `.foostash.yaml` | `MCProjectSetup` |
| `LocalStore` | the local files, system call by system call | `MCLocalStore`: `LocalStore`, `LocalTorn` |
| `MasterKey` (extends `LocalStore`) | the key file, and which key a file was sealed with | `MCLocalStore` |
| `Provisioning` | server_setup_plan and server_setup_apply, Docker | `MCLocalStore` |
| `Watch` | `Client.Watch` of the SDK, its channel and consumer | `MCWatch`: `Watch` |
| `EnvSync` (extends `Watch`) | environment_sync, set --remote, delete --remote | `MCWatch` |
| `Tui` | one SSH session of the terminal interface | `MCTui`: `Tui` |
| `ServerProcess` | the server process from boot to exit | `MCServerProcess`: `ServerProcess` |
| `ServerSecretsProofs`, `VaultProofs`, `AccountsProofs`, `LocalStoreProofs`, `ProjectsProofs`, `WatchProofs`, `TuiProofs`, `ServerProcessProofs` | theorems about the module they extend, see section 4 | tlapm |

The `MC*` modules add the symmetry sets and the values of constants that a `.cfg` cannot write. Definitions whose
name is that of another with a suffix (`MaxVersion_Null`) are mutants: plausible mistakes that show what a
property notices (`PROJECT.json`, "mutants").

### ServerSecrets
`live` and `hist` are the committed tables; `tx[c]` is the request of client `c` with what its open
transaction has written (`rows`) and `pc[c]` the statement it is at: `resolve` (resolveEnv), `target`
(GetHistoryVersion), `delete`, then per key `max` (SELECT MAX), `row` (INSERT ... ON CONFLICT), `hist`
(INSERT history), and `commit`, `reply`. Uncommitted rows are invisible to other clients but lock: `row` waits
while another transaction has written the key and then sees what was committed. The foreign key to
`environments` is a share lock (`shared`): taken by the insert of a live row or a history row, it makes the
deletion of the environment wait, and waits for a deletion in progress. The deletion first locks the
environment's row (`dropping`) and then cascades, waiting for every row lock. Waiting in a cycle ends by
PostgreSQL's deadlock detector, which aborts one of them. `Fail` ends any request at any statement:
connection lost, context cancelled, process killed; COMMIT itself is atomic, and a crash between COMMIT and the
response is `Fail` at `reply`. Ciphertexts are numbers of requests, since every encryption draws a fresh
nonce. Get, List and History are single SELECTs and need no action: what they can return is what the
invariants say of `live` and `hist`. Abstracted: projects (a fixed one, whose deletion is the deletion of its
environments), timestamps, the author column (the request's number stands for it).

### Vault
As above without environments (organisations are never deleted). The upsert inserts version 1 or increments
the live row's version.

### Accounts and IdentitySetup
A user is the pair of its organisation and e-mail address, which the tables keep unique; rows are never
deleted. An inserted but uncommitted entry of a unique index makes an insert of the same entry wait
(`OrgPending`, `UserPending`, `KeyPending`); an updated row makes another update wait (`InviteHeld`).
Administration requests carry the `caller` resolved by RequireAuth, and check nothing about the caller again.
`Expire` is the passing of an invite's time. `Membership` has the committed tables and none of the statements; what a
request has inserted and not committed does not exist there. Signatures are taken to be valid; RequireRole is part of
`Authorised`.

`IdentitySetup` runs register, join and identity_setup of one machine, one at a time, on the same server: the
request (`RegisterCmd`, `JoinCmd`) is one of `Accounts`' requests, `Answer` is what the command hears of it,
then config.yaml is truncated and written. `GiveUp` is the client's time-out or a kill at any moment; the
request goes on without its command. The other requests are everybody else's.

### Projects and ProjectSetup
`req[c]` is the request of client `c` and the statement it is at. Uncommitted rows of a unique slug make
others wait (`SlugPending`, `EnvPending`); inserting an environment locks its project against deletion
(`Shared`). Cloning an environment copies no secrets: the code only inserts a row, though the comment at
`service/projects.go:209` speaks of copying. `ProjectSetup` puts the commands on top: `task[c]` is the command,
`config` the file, which SaveProject truncates and writes. A missing, empty or unparsable file is `NoFile`: it
stops every command that needs it before it changes anything. `Kill` leaves the request running; `Hang` is an
answer that never comes; `Retry` asks for project_setup again. As in the code, project_setup never creates
"dev" (tools.go:167 says that it is always included): it relies on the project having it.

### LocalStore
Names (`file`, `tmp`) and contents (`data`, inodes) are apart, because two processes that save the same
file open the same temporary name. A save is open with O_TRUNC, write, rename, and on a failed rename remove.
A write over bytes that another process wrote since the open may leave a mix (`Torn`). A killed process may
leave a temporary file empty or cut short. The content of a file is, per key, the live entry and the history.
As in the code, deleting a secret keeps its history and the next set starts at version 1 again, and `Target`
takes the first entry of a version. `import` sets many keys in one save (`ImportCmd`).

### MasterKey
Every process of `LocalStore` first reads `master.key`, or generates a key and writes the file in place
(`startup`); PersistentPreRunE does this before nearly every command, whatever that command does. `engine[p]` is the key a process
works with and `sealed[i]` the key under which the bytes of an inode were encrypted, so a load fails on a file that
was sealed with another key. `contested` holds the keys of first runs that overlapped, of which all but one
may be lost; when the last of them is over, the key it leaves in the file is taken out. FOOSTASH_MASTER_KEY is not set.

### Provisioning
A plan, its compose file and its password are one number. `compose` is the file in the install directory, `volume`
the password PostgreSQL was initialised with, `running` the plan the containers were created from. `docker compose
up` is one action that may have created containers and volume even when it fails. `EndMcp` is the end of the MCP
process: plans and calls are gone, Docker goes on. `raced` remembers that calls of two plans both found no file
before either created it. `MCLocalStore` explores the store and the provisioned server in
one run: they share nothing, so its variable `scope` says which of the two a behaviour is about.

### Watch and EnvSync
The server is rows with versions as its clients see them. One poll is one action, since the list is one
SELECT: it fails, or returns the rows of one moment. The channel is a sequence of at most one snapshot.
`EnvSync` adds the commands of one machine: environment_sync pulls, compares (an absent key reads as the empty
string, sync.go:86) and uploads the differences in one request; set --remote sends one request per key in any
order. Any answer may be lost after its effect. `Elsewhere` is everybody else's changes.

### Tui
`stack` is App.stack, a view with its scope, rows and whether it is loading; `cmds` is the bag of commands that
run and of messages they produced. A message is delivered to whatever view is on top and carries no environment,
as in the code. `overlap` remembers that two loads were in flight together, `mixed` that they were of one kind and for
two environments, the one case in which a view may be handed rows of another. Services are one step each. The role is resolved at login and kept (sshsrv/auth.go:26).

### ServerProcess
One variable per goroutine: `main`, the HTTP listener (`httpGo`), the SSH listener inside sshsrv.Run (`sshGo`,
`sshRun`), each request's handler and audit goroutine. `errCh` is Server.Run's channel; `late` the deadlines that
passed. Handlers and audit goroutines take connections of one pool; after pool.Close nobody gets any. A panic is
caught by Recover, a handler's error or the client's disconnecting ends its statement. A request reads its body first
(`BodyArrives`), for as long as its client takes, since only the headers have a time limit (server.go:32). Abstracted: RequireAuth's
two look-ups are one, SSH is enabled, and a session's own queries take no connection of the pool.

## 3. Runs

Bounds are CONSTANTs named in the modules. Unless a row says otherwise a run is exhaustive within them.

| Run | Instance | Shows |
|---|---|---|
| `secrets_versions` | 2 clients, 1 key, 2 environment ids, 3 writes | the invariants of the tables, with set, delete, set, rollbacks, the environment's deletion and re-creation |
| `secrets_bulk` | 2 clients, 2 keys, 1 environment, 2 writes of up to 2 keys | `BulkIsAtomic`; `EveryRequestEnds` under `FairSpec`; `ServerSecrets` implements `VersionedStore` |
| `vault_versions` | 2 clients, 1 key, 4 writes | the history is a log with the live row its newest entry; acknowledged writes stay; the vault implements `VersionedStore` |
| `vault_reinsert` | 1 client, 1 key, 2 writes | **violated**: a deleted vault key cannot be set again |
| `accounts` | 2 organisations, 2 e-mails, 3 keys, 1 invite, 2 requests at a time, 5 in all, one machine's commands among them | sign-up, administration, the machine's identity; `Accounts` implements `Membership` |
| `accounts_lockout` | 1 organisation, 2 e-mails, 2 keys, 5 requests | **violated**: two admins demote or revoke each other |
| `local_store` | 2 processes, 2 files, 1 secret, 5 inodes, 3 commands, history of 2, 3 master keys generated; 2 apply calls at a time, 3 plans, 4 applies | a command that runs alone is atomic and leaves a whole file, whatever races and kills came before; the history ends with the live value; files open with the key in `master.key`, those of a contested and lost key excepted; the provisioned server reaches its database, whose password is on record |
| `local_torn` | 2 processes, 1 file, 2 commands | **violated**: an empty or torn file is renamed into place |
| `watch` | 2 keys, 2 values, 2 changes by others, 1 re-creation, 1 command | what a watch that has nothing more to send has told (`QuietMeansCurrent`), what the synchronising commands promise, and `Converges`, `ConvergesOnValues` and `ChannelCloses` under `FairSyncSpec` |
| `projects` | 2 clients, 1 project slug, names "dev", "stg", "STG", 3 commands, 4 projects inserted, 1 failure | projects and environments on the server, and `.foostash.yaml` |
| `tui` | 2 environments and the vault, 1 key, 4 views, 2 commands in flight, 5 keys pressed, 1 change by others | lists, actions and loading |
| `server_process` | 2 requests, 1 connection, 1 fault | shutdown, progress, audit rows |

Why these bounds make the interesting cases happen. Every conflict in the server's code is between two
transactions on one key, or on two keys in opposite orders, or between a transaction and the deletion of the
environment; two clients and two keys have them all. Re-insertion after a delete takes two writes, and a third,
racing writer makes the version it read stale; two environment ids make a re-created environment. To redeem an
invite twice takes four requests (register, invite, join, join) and three keys; five leave one for a command that
was given up before. A local history of 2 makes the cap bite; two first runs that race and a third that generates
after both gave up, or a command that opens what they left, take three generated keys and three commands. Three plans and four applies let a plan be repeated, replaced after a
restart of the MCP process, and raced. "STG" and "stg" are two names of one slug. One
connection for two requests and their audit goroutines makes everybody wait for everybody. Two loads and an
action are what it takes to mix up messages, and five key presses reach every view and come back.
Runs with a SYMMETRY set check safety only. `LowestInode` is an action constraint that numbers new inodes in order,
which loses no behaviour up to renaming. `CHECK_DEADLOCK FALSE` stands because every behaviour ends at its bound (requests, commands, key presses), or
with the closed channel or the exited process.

The three violated runs are disagreements between the code and its own comments; "findings" in
`PROJECT.json` quotes them. In short: the vault restarts versions on re-insert (`repo/vault.go:46`); lockout
protection covers demoting oneself only (`service/users.go:58`); the temporary file is shared between processes
(`store.go:105`).

What some properties say precisely:

* `QuietWritesSucceed` says when a write may fail on a version number: only if another request changed its key
  between its SELECT MAX and its history insert. Such a write gets an error (and changes nothing); nothing in
  the code retries it.
* `OnlyStaleCallersLockOut` is what is left of lockout protection: an organisation loses its last admin only
  to a request whose caller is no admin any more.
* `IdentityIsRegistered` ties config.yaml to the server's tables through lost answers, kills, repeated sign-ups
  and refusals.
* `DoneMeansSynced` leaves out the keys others changed after the command pulled or wrote them. An absent key
  counts as having the empty value, as in the code.
* `QuietMeansCurrent` and `ConvergesOnValues` promise versions in every behaviour, and values whenever the
  environment was not re-created after the last snapshot was read (`life`). After a re-creation versions start again,
  and a change of values under the same version is missed until the key changes once more; TLC refutes both without
  that condition.
* `ListsBelongToTheirView` allows any loads to overlap but those of one kind for two environments: then a view may
  show, and delete by name, what belongs to another environment. `OwnChangesAreShown` is restricted to sessions without
  overlapping loads, because two that end in the wrong order leave the older list on the screen.
* `RequestsEnd` starts when the body has arrived, or its client is gone. A client that never sends its body keeps a
  goroutine, but no connection, and only until the shutdown's deadline (`ProcessEnds`).
* `GracefulShutdownAnswers` is restricted to a shutdown that beats its ten seconds, `AnsweredChangesAreAudited`
  to a process that does not stop first, since nothing waits for the audit goroutines at shutdown. `AuditRowsAreKept`
  covers the shutdown: it loses the rows whose goroutines wait for a connection when the pool is closed, and
  no others, because pool.Close waits for the inserts that have begun.
* `FilesOpenWithTheKey` excepts the keys that overlapping first runs contested, and that `master.key` does not hold when
  they are over. What is sealed with the key they leave opens for ever, also if it was sealed during the race.
* `ServerReachesItsDatabase` and `PasswordStaysOnRecord` except two plans that both found no file: the code checks
  and writes in two system calls. A second plan at any later point of the first is covered. When a call is cut short
  between truncating the compose file and writing it, which happens even when the file already has the right bytes,
  `PasswordStaysOnRecord` says that the file stays empty.

Type invariants are proved and not checked by the runs.

### Fairness
* `ServerSecrets!FairSpec`: strong fairness of each client's next statement, since PostgreSQL serves lock queues
  in order, so that a waiting statement gets its turn although the lock is taken and released meanwhile; weak
  fairness of a cascade in progress and of the deadlock detector (`deadlock_timeout`). Nothing forces new
  requests or deletions.
* `EnvSync!FairSyncSpec` is `Watch!Running`: weak fairness of the goroutine's steps; a poll ends (it may fail) by
  the HTTP client's time-out; strong fairness of `Stop`, because Go's `select` picks among ready cases at random,
  so a cancelled context is not passed over for ever. Commands have none. `Served` (polls succeed again and again,
  the consumer keeps receiving) is assumed by `Converges` and `ConvergesOnValues` only.
* `ProjectSetup!FairSpec`: a running command and the server go on (weak fairness per client). Nobody has to start,
  fail or kill anything; `Retry` of project_setup is the user's or agent's patience.
* `Tui!FairSpec`: goroutines end, with or without success, and the App takes every message. No key need be pressed.
* `ServerProcess!FairSpec`: weak fairness of the main goroutine, the listeners' goroutines and the deadlines'
  timers; strong fairness per request of its handler and of its audit goroutine, since the pool serves who waits for
  a connection in order. Sessions need not end, bodies need not arrive, signals need not come.

## 4. Proofs

Every safety property a passing run checks is also a theorem, `Spec => []P` or `Spec => [][A]_v`, for every value of
the constants; so are the type invariants of all modules, the two refinements of `VersionedStore` and that of
`Membership`. Each proof was made the same way: an invariant that is inductive (first checked with TLC), one lemma per
action that keeps it, and the property as a consequence. The properties are hardly ever inductive themselves, and what had to be added is the
reason why the code is right:

* `ServerSecretsProofs` (from `NoEnvAssumption`, `BoundsAssumption`). That a commit extends the log by exactly the
  next version depends on what the open transaction wrote and on nobody having changed the key since. `IndInv` says
  of each request that it walks through distinct keys in order with one row per key written (`RequestOK`), that an
  uncommitted row continues its key's log in an environment that is still there, its version unused unless the unique
  constraint has yet to be checked (`PendingOK`), that the maximum read is still the newest unless somebody disturbed
  the key (`SeenOK`, `QuietOK`), that what is committed but unanswered is recorded (`RepliedOK`), and that no two
  transactions hold the same row (`LocksExclusive`). `WholeInv` adds whose row is whose: `BulkWritesAreAtomic` and
  `RollbacksRestore` follow. `StoreInv` adds that a history has as many rows as versions and that a set or bulk
  write commits what was never stored; with these `SecretsAreAStore` maps every step to one of `VersionedStore` or
  to none: COMMIT is Put or Restore, the soft delete Remove, the cascade Drop.
* `VaultProofs` (`KeysAssumption`, `MaxRequestsAssumption`). The row lock makes the row of an open transaction the
  successor of the live one; a row that passed the unique index is the next of the log. `VaultIsAStore` is the
  refinement. That an upsert may fail for ever (the violated run) contradicts none of it.
* `AccountsProofs` (`NoUserAssumption`, `MaxRequestsAssumption`). `SignUpOK` and `AdminOK` say what a request has made
  sure of by the statement it is at, `Exclusive` that a unique index lets one open transaction insert a user or a
  key. `FounderInv` adds what `AccountsAreMembership` needs: an open registration is the only one of its organisation,
  which is what makes its user the first member, an open join carries its invite's user and role, and whoever
  owns a key is a user. Then every step maps to one of `Membership` or to none: the commit of a sign-up is Found or
  Join, the insert of an invite Offer, the two updates SetRole and Revoke; inserts that are not committed, failures,
  waiting and `Expire` are stutters. `SetupIsAccounts` shows that the sign-up commands only add to `Accounts`, so its theorems hold with them, and
  `IdentityStaysRegistered` follows the key from the request to config.yaml.
* `LocalStoreProofs` (`MaxHistoryAssumption`, `NilAssumption`, `ServerAssumption`). Histories: every content in a file
  or in a process is well formed. Atomicity of a command that runs alone: names lead to different inodes
  (`Distinct`), and nobody else is between two system calls (`Unshared`). `KeyedIsAStore` carries both over to
  `MasterKey`; `KeysKept` says that a key in use which no first run contests is the one in the file, with no
  first run under way that could replace it. `ServerInv` says that a
  call past the comparison of the compose file finds nothing there but its own plan, and `OneWriter` that an emptied
  file has a writer.
* `ProjectsProofs` (`ProjectsAssumption`, `SetupAssumption`). `Drawn` and `Held`: ids are drawn once, what is being
  inserted is nobody else's, a project whose environment is being inserted stays. `ConfigStaysReal` assumes that all
  commands are for one project (`\A s, u \in Slugs : s = u`), because overlapping saves for two projects may mix
  their files; `Heeds` says what each command knows of the names it is about to write. `TablesTyped` and
  `CommandsTyped` complete the types.
* `WatchProofs` (`ValuesAssumption`). `Chain` orders the snapshot sent, received and remembered; `Sent` and `Wrote`
  say of a command that what it need not send any more is on the server, unless somebody else moved it. The types
  include that the versions a command wrote stay within the history (`WroteTyped`). The watch compares versions and not
  values, so `Converges` and `ConvergesOnValues` rest on what versions mean: `OrderInv` says, while the environment is
  not created again, that a row has the newest version of its key, that snapshots and rows of one version are equal
  (`VersionsName`), and that the snapshot read last is never behind the one received (`WatchMovesForward`).
  `LifeInv` says the same of the snapshot under way, or sent last, when the environment was created again before it
  was read but not since. `QuietWatchIsCurrent` follows from it and `Chain`: `QuietMeansCurrent` holds, versions always
  and values under that condition. `SnapshotsAreNews` adds that no snapshot repeats the versions of the one before.
* `TuiProofs` (`TuiAssumption`: finite sets of environments and keys, for the bag of commands). `PlacesMatch` says
  that no load in flight of the kind of the view on top is for another environment, until two such loads are in flight
  together (`mixed`). `LoadsMatch` says that all loads in flight are of that kind and environment, and `Fresh` that a
  list with a replaced version is about to be reloaded; these two hold without overlapping loads only. `MenuFirst`
  keeps the menu at the bottom of the stack. `Served` says that no view of the stack is one its user may not load,
  menu entries and navigation on its way included; with it a view that says it is loading always has a load of its
  kind in flight (`ViewsAreServed`), overlapping loads or not.
* `ServerProcessProofs` (`ProcessAssumption`, for the types only). How far the main goroutine can be while a handler
  runs. `TypeCorrect` is more than types there: the pool is never overdrawn (`PoolKept`), and `errCh` has a place for
  each goroutine that has yet to send (`ChannelRoom`), so none is left blocked on it. `NoAuditGoesMissing` follows a
  committed change to its audit goroutine: only a panic after the change skips it, and only a crash, or the pool's
  closing on a goroutine that has no connection yet, loses the row (`AuditRowsAreKept`). An insert that has begun ends
  first.

Model-checked only, all liveness, which is out of the prover's reach: `EveryRequestEnds`, `Converges`,
`ConvergesOnValues`, `ChannelCloses`, `SetupEnds`, `LoadingEnds`, `ProcessEnds`, `RequestsEnd` and
`AnsweredChangesAreAudited`. Of four of them the safety half is proved, what must hold for the fair steps to lead
where they should: `QuietWatchIsCurrent` (for `Converges` and `ConvergesOnValues`), `ViewsAreServed` (`LoadingEnds`) and
`NoAuditGoesMissing` (`AnsweredChangesAreAudited`). That the steps are taken is fairness, and TLC's.

## 5. Plan

Done: all modules of section 2 and the proofs of section 4. Left, in this order:

1. An abstract specification of projects and environments, as `Membership` is of the accounts, with the theorem that
   `Projects` implements it.
2. `Projects` over `ServerSecrets`: the deletion of a project with writes in flight as one system; so far each has
   the deletion on its own side of the foreign key.
3. Pure algorithms against reference definitions: `diff.Compare`, `Slugify`, `normalizeEnvs`, `parseDotenvFile`.
4. `target github-actions push` against a model of GitHub's secrets and variables.
5. Billing, if the program is wired to apply webhooks.
6. An abstract specification of the watch that does not mention polls.

## 6. What the models show beyond the properties

Behaviour met on the way that no document speaks about, and so no property either:

* A sign-up whose answer is lost cannot be repeated, and no command writes the identity of an existing user;
  `init` has the same problem with an existing project, for which project_setup is the way out.
* The public key of a sign-up is read from the `.pub` file and not compared with the private key.
* A local secret that is deleted and set again has two history entries of version 1, and a rollback finds the first.
* Two local commands at once: the one that saves last wins, the other's change is lost; the same holds for commands
  that edit one `.foostash.yaml`.
* An open SSH session keeps the role of its login, although revoking is said to be immediate (docs/admin.md:13).
* An audit row whose goroutine has no connection yet when the pool closes is lost; so is one whose
  X-Forwarded-For is no address, by the error of the insert.
* One secret that does not decrypt, because a machine generated its own master key, fails every list of the environment.
* A first run killed while it writes `master.key` leaves it empty, and every command stops at it until somebody
  removes the file; the key is generated by whatever command comes first.
* After a restart of the MCP process no plan can be applied again, and a new plan is refused because its compose
  file differs: the way out is to delete the file. If the volume survives, its password is lost with it.
* An apply of a plan whose compose file is already there truncates it before it writes the same bytes.
* A key that `target github-actions push` sent as a secret and later, with `--vars`, as a variable keeps its old
  copy on GitHub.

## 7. Not modelled, and why

* Billing. As wired it changes no state of the program: `FromEnv` (billing.go:81) sets no Resolver, without which
  no webhook sets a plan (lemonsqueezy.go:195); `/billing/webhook` (router.go:127) has no BufferBody in front; and
  no route uses the limits. A checkout is one call of an external service. Webhooks that arrive late or twice would
  be worth a model in a program that applied them.
* `target github-actions push`: one call of the external `gh` per key, whose effect is GitHub's state; a push that
  fails half-way has sent the keys before. `diff` and the runner compute and start a process.
* The CLI's vault and admin commands pass one request on to what `Vault` and `Accounts` model.
* Ciphers, signatures, HTTP encoding and terminal rendering: library calls and formatting. A ciphertext is a fresh
  value, a signature is valid.
* Get, List, History, Pull, diff, export, inspect and run: they read one state and change nothing.
* Local environments are created, cloned and deleted by `envs.Manager`, which is modelled (`LocalStore`) although no
  command calls it today (`root.go:106` wires it).
* Saves of `.foostash.yaml` by commands for different projects that overlap may mix two files; the run has one
  project slug.
* The web site, Docker and Kubernetes output, process start: no state of the system.
* Isolation anomalies inside one SQL statement: each statement is one step, apart from its waiting, which is
  explicit.

-------------------------------- MODULE Tui --------------------------------
(* One SSH session of the terminal interface: internal/sshsrv resolves the   *)
(* presented key to an AuthContext once, internal/tui runs the App on it. A  *)
(* key press or a message is one step of the App's Update; what Update       *)
(* returns as a tea.Cmd runs in a goroutine of its own, calls a service      *)
(* there, and comes back as a message whenever that goroutine is scheduled.  *)
(* Meanwhile the user navigates and other writers write.                     *)
(*                                                                           *)
(* A service call is one step here: ServerSecrets and Vault model what is    *)
(* inside. A scope is an environment of the one project, or the vault. Rows  *)
(* of the other lists are plain names, the lists of users and of audit       *)
(* entries stay empty; the status line, sizes and styles are left out.       *)
EXTENDS Integers, Bags, SequencesExt

CONSTANTS
    Envs, Keys,     \* environments of the project, names of secrets
    StartVersion,   \* newest version of every secret when the session starts
    MaxDepth,       \* bound: views on the stack
    MaxCmds,        \* bound: commands in flight
    MaxPresses,     \* bound: keys pressed, but for the arrows
    MaxChanges      \* bound: changes by other writers

Vault == "vault"
Scopes == Envs \cup {Vault}
Roles == {"admin", "developer"}
AdminKinds == {"users", "audit"}
Kinds == {"menu", "projects", "envs", "secrets", "vault"} \cup AdminKinds

ASSUME TuiAssumption ==
    /\ StartVersion \in Nat /\ {MaxDepth, MaxCmds, MaxPresses, MaxChanges} \subseteq Nat
    /\ IsFiniteSet(Envs) /\ IsFiniteSet(Keys)
    /\ Envs \cap (Kinds \cup {"project"}) = {}

VARIABLES
    auth,       \* role of the session's AuthContext; "none" before, "closed" after
    newest,     \* per scope and key, the newest version of the history
    current,    \* the version of the live row, 0 if there is none
    stack,      \* App.stack
    cmds,       \* bag of commands that run and of messages they produced
    presses, changes,
    failed,     \* history: the list on top is older, its last load failed
    overlap,    \* history: two loads were once in flight together
    mixed,      \* history: two of one kind, for two environments, were
    replaced    \* history: the <<scope, key, version>> this session rolled back or deleted

server == <<newest, current>>
vars == <<auth, newest, current, stack, cmds, presses, changes, failed, overlap, mixed, replaced>>

-----------------------------------------------------------------------------
(* Views *)

\* An entry of a list. The scope it was read from is not in the code's entry.
Row(name, version, scope) == [name |-> name, version |-> version, scope |-> scope]

Open == auth \in Roles
IsAdmin == auth = "admin"
Top == stack[Len(stack)]

\* The menu leaves administrators' entries out for others.
MenuRows(role) ==
    LET names == <<"projects", "vault">> \o (IF role = "admin" THEN <<"users", "audit">> ELSE <<>>)
    IN  [i \in DOMAIN names |-> Row(names[i], 0, "menu")]

NewView(kind, scope, rows) ==
    [kind |-> kind, scope |-> scope, loading |-> kind # "menu", rows |-> rows]

\* What the service's List returns for a view.
Listing(kind, scope) ==
    CASE kind = "projects" -> <<Row("project", 0, scope)>>
      [] kind = "envs" -> LET order == SetToSeq(Envs)
                          IN  [i \in DOMAIN order |-> Row(order[i], 0, scope)]
      [] kind \in {"secrets", "vault"} ->
            LET alive == SetToSeq({k \in Keys : current[scope][k] > 0})
            IN  [i \in DOMAIN alive |-> Row(alive[i], current[scope][alive[i]], scope)]
      [] OTHER -> <<>>

\* simpleList: the arrow keys reach every row of the list, in any state of it.
Selectable == Range(Top.rows)

-----------------------------------------------------------------------------
(* Commands and messages *)

LoadCmd(view) == [op |-> "load", kind |-> view.kind, scope |-> view.scope]
NavCmd(kind, scope) == [op |-> "nav", kind |-> kind, scope |-> scope]
ActCmd(what, row, target) ==
    [op |-> what, kind |-> Top.kind, scope |-> Top.scope, as |-> auth, row |-> row, target |-> target]

Started(cmd) == SetToBag({cmd})
InFlight == BagToSet(cmds)

\* View.Init: the command that loads the list, except in the menu and, for
\* others than administrators, in the administrators' views.
Loads(view) == view.kind # "menu" /\ (view.kind \in AdminKinds => IsAdmin)
InitCmds(view) == IF Loads(view) THEN Started(LoadCmd(view)) ELSE EmptyBag
Initialised(view) == [view EXCEPT !.loading = IF Loads(view) THEN TRUE ELSE @]

\* A load, or a list on its way, of the view's kind and another environment.
Elsewhere(c, view) ==
    /\ c.kind = view.kind
    /\ \/ c.op = "load" /\ c.scope # view.scope
       \/ c.op = "loaded" /\ \E n \in DOMAIN c.rows : c.rows[n].scope # view.scope

\* The stack becomes base with its top initialised; rest is in flight besides.
ShowTop(base, rest) ==
    LET view == base[Len(base)]
    IN  /\ stack' = [base EXCEPT ![Len(base)] = Initialised(view)]
        /\ cmds' = rest (+) InitCmds(view)
        /\ failed' = FALSE
        /\ overlap' = (overlap \/ (Loads(view) /\ \E c \in BagToSet(rest) : c.op \in {"load", "loaded"}))
        /\ mixed' = (mixed \/ (Loads(view) /\ \E c \in BagToSet(rest) : Elsewhere(c, view)))

-----------------------------------------------------------------------------
(* Keys *)

\* The bounds on what the user does, in no code.
MayPress == presses < MaxPresses /\ presses' = presses + 1 /\ BagCardinality(cmds) < MaxCmds

Untouched == UNCHANGED <<server, auth, changes, replaced>>

\* ctrl+c, q in the menu, a lost connection, the idle timeout. Actions that run
\* keep running, with a context of their own, and nobody gets an answer.
CloseSession ==
    /\ Open
    /\ auth' = "closed"
    /\ stack' = <<>>
    /\ cmds' = Restrict(cmds, {cmd \in InFlight : cmd.op \in {"delete", "rollback"}})
    /\ UNCHANGED <<server, presses, changes, failed, overlap, mixed, replaced>>

\* Mutant: going back leaves the view underneath as it was.
PressBack_NoInit ==
    /\ Open /\ MayPress
    /\ Len(stack) > 1
    /\ stack' = Front(stack)
    /\ UNCHANGED <<cmds, failed, overlap, mixed>> /\ Untouched

\* q or esc in any other view: App.pop, and Init of the view underneath.
PressBack ==
    /\ Open /\ MayPress
    /\ Len(stack) > 1
    /\ ShowTop(Front(stack), cmds)
    /\ Untouched

PressRefresh ==
    /\ Open /\ MayPress
    /\ Top.kind \notin {"menu", "users"}
    /\ ShowTop(stack, cmds)
    /\ Untouched

Dispatch(cmd) == cmds' = cmds (+) Started(cmd) /\ UNCHANGED <<stack, failed, overlap, mixed>>

\* The view a row leads to; loading or not, the row is there to be opened.
PressEnter ==
    /\ Open /\ MayPress
    /\ Len(stack) < MaxDepth
    /\ \E row \in Selectable :
         \/ Top.kind = "menu" /\ Dispatch(NavCmd(row.name, row.name))
         \/ Top.kind = "projects" /\ Dispatch(NavCmd("envs", "envs"))
         \/ Top.kind = "envs" /\ Dispatch(NavCmd("secrets", row.name))
    /\ Untouched

\* "admin only" in the vault
MayAct == Top.kind = "secrets" \/ (Top.kind = "vault" /\ IsAdmin)

PressDelete ==
    /\ Open /\ MayPress
    /\ MayAct
    /\ \E row \in Selectable : Dispatch(ActCmd("delete", row, 0))
    /\ Untouched

PressRollback ==
    /\ Open /\ MayPress
    /\ MayAct
    /\ \E row \in Selectable :
         row.version > 1 /\ Dispatch(ActCmd("rollback", row, row.version - 1))
    /\ Untouched

-----------------------------------------------------------------------------
(* Commands run: services called with the session's AuthContext *)

Replace(cmd, messages) ==
    cmds' = (cmds (-) Started(cmd)) (+) (IF Open THEN messages ELSE EmptyBag)

\* The list is read at this moment, or reading it fails.
RunLoad(cmd) ==
    /\ cmd.op = "load"
    /\ \E ok \in BOOLEAN :
         Replace(cmd, Started([op |-> "loaded", kind |-> cmd.kind, ok |-> ok,
                               rows |-> IF ok THEN Listing(cmd.kind, cmd.scope) ELSE <<>>]))
    /\ UNCHANGED <<server, auth, stack, presses, changes, failed, overlap, mixed, replaced>>

\* The vault's service checks the role in the AuthContext once more.
Permitted(cmd) == cmd.kind = "vault" => cmd.as = "admin"

\* A new version of a live row; a deleted row is written again as the next
\* version in an environment, in the vault as version 1, which its history
\* refuses.
CanUpsert(scope, key) == scope = Vault => (current[scope][key] > 0 \/ newest[scope][key] = 0)

Upsert(scope, key) ==
    /\ CanUpsert(scope, key)
    /\ newest' = [newest EXCEPT ![scope][key] = @ + 1]
    /\ current' = [current EXCEPT ![scope][key] = newest[scope][key] + 1]

SoftDelete(scope, key) ==
    /\ current[scope][key] > 0
    /\ current' = [current EXCEPT ![scope][key] = 0]
    /\ UNCHANGED newest

\* A rollback writes the target version again, also of a deleted key.
Effect(cmd) ==
    \/ cmd.op = "delete" /\ SoftDelete(cmd.scope, cmd.row.name)
    \/ /\ cmd.op = "rollback"
       /\ cmd.target <= newest[cmd.scope][cmd.row.name]
       /\ Upsert(cmd.scope, cmd.row.name)

\* The service changes the row, or returns an error.
RunAction(cmd) ==
    /\ cmd.op \in {"delete", "rollback"}
    /\ Replace(cmd, Started([op |-> "acted", kind |-> cmd.kind]))
    /\ \/ /\ Permitted(cmd) /\ Effect(cmd)
          /\ replaced' = replaced \cup
                {<<cmd.scope, cmd.row.name, current[cmd.scope][cmd.row.name]>>}
       \/ UNCHANGED <<newest, current, replaced>>
    /\ UNCHANGED <<auth, stack, presses, changes, failed, overlap, mixed>>

-----------------------------------------------------------------------------
(* Messages arrive: App.Update, and Update of the view on top *)

\* NavMsg
DeliverNav(msg) ==
    /\ Open /\ msg.op = "nav"
    /\ ShowTop(Append(stack, NewView(msg.kind, msg.scope, <<>>)), cmds (-) Started(msg))
    /\ UNCHANGED <<server, auth, presses, changes, replaced>>

\* Mutant: all views share one message, and take each other's lists.
DeliverLoaded_AnyKind(msg) ==
    /\ Open /\ msg.op = "loaded"
    /\ cmds' = cmds (-) Started(msg)
    /\ stack' = [stack EXCEPT ![Len(stack)] =
                    [Top EXCEPT !.rows = IF msg.ok THEN msg.rows ELSE @, !.loading = FALSE]]
    /\ failed' = ~msg.ok
    /\ UNCHANGED <<server, auth, presses, changes, overlap, mixed, replaced>>

\* A view takes any list of its kind; a view of another kind ignores it.
DeliverLoaded(msg) ==
    /\ Open /\ msg.op = "loaded"
    /\ cmds' = cmds (-) Started(msg)
    /\ stack' = IF Top.kind # msg.kind THEN stack
                ELSE [stack EXCEPT ![Len(stack)] =
                        [Top EXCEPT !.rows = IF msg.ok THEN msg.rows ELSE @, !.loading = FALSE]]
    /\ failed' = IF Top.kind # msg.kind THEN failed ELSE ~msg.ok
    /\ UNCHANGED <<server, auth, presses, changes, overlap, mixed, replaced>>

\* Mutant: an action that ended reloads nothing.
DeliverActed_NoReload(msg) ==
    /\ Open /\ msg.op = "acted"
    /\ cmds' = cmds (-) Started(msg)
    /\ UNCHANGED <<server, auth, stack, presses, changes, failed, overlap, mixed, replaced>>

\* An action that ended, well or not, makes a view of its kind load again.
DeliverActed(msg) ==
    /\ Open /\ msg.op = "acted"
    /\ IF Top.kind = msg.kind
         THEN ShowTop(stack, cmds (-) Started(msg))
         ELSE cmds' = cmds (-) Started(msg) /\ UNCHANGED <<stack, failed, overlap, mixed>>
    /\ UNCHANGED <<server, auth, presses, changes, replaced>>

-----------------------------------------------------------------------------
(* The world *)

\* publicKeyHandler resolves the user's role, once: a role that changes, or is
\* revoked, while the session is open makes no difference to it.
Login ==
    /\ auth = "none"
    /\ \E role \in Roles :
         auth' = role /\ stack' = <<NewView("menu", "menu", MenuRows(role))>>
    /\ UNCHANGED <<server, cmds, presses, changes, failed, overlap, mixed, replaced>>

OtherWriter ==
    /\ changes < MaxChanges /\ changes' = changes + 1
    /\ \E scope \in Scopes, key \in Keys : Upsert(scope, key) \/ SoftDelete(scope, key)
    /\ UNCHANGED <<auth, stack, cmds, presses, failed, overlap, mixed, replaced>>

Init ==
    /\ auth = "none"
    /\ newest = [s \in Scopes |-> [k \in Keys |-> StartVersion]]
    /\ current = newest
    /\ stack = <<>> /\ cmds = EmptyBag
    /\ presses = 0 /\ changes = 0
    /\ failed = FALSE /\ overlap = FALSE /\ mixed = FALSE /\ replaced = {}

Press ==
    \/ PressBack \/ PressRefresh
    \/ PressEnter \/ PressDelete \/ PressRollback

Run == \E cmd \in InFlight : RunLoad(cmd) \/ RunAction(cmd)
Deliver == \E msg \in InFlight : DeliverNav(msg) \/ DeliverLoaded(msg) \/ DeliverActed(msg)

Next == Press \/ CloseSession \/ Run \/ Deliver \/ Login \/ OtherWriter

Spec == Init /\ [][Next]_vars

\* Goroutines run, calls end (well or not), and the App takes every message.
FairSpec == Spec /\ WF_vars(Run) /\ WF_vars(Deliver)

-----------------------------------------------------------------------------
(* Properties *)

\* Every component has its type, a live row is the newest version, and the
\* menu is the bottom of the stack of an open session.
TypeOK ==
    /\ auth \in Roles \cup {"none", "closed"}
    /\ \A s \in Scopes, k \in Keys : current[s][k] \in {0, newest[s][k]}
    /\ Open => stack # <<>> /\ stack[1].kind = "menu"
    /\ \A i \in DOMAIN stack : stack[i].kind \in Kinds
    /\ IsABag(cmds)

\* Messages are not matched with the request they answer: any number of loads
\* may be in flight, end in any order and find another view on top. Still each
\* view shows rows of its own scope, and each deletion and rollback on its way
\* names a row that was listed under the title it was chosen from, unless the
\* loads of two environments' secrets once were in flight together: messages
\* carry no environment, and the one takes the list of the other
\* (view_secrets.go:62).
ListsBelongToTheirView ==
    ~mixed =>
        /\ \A i \in DOMAIN stack : \A n \in DOMAIN stack[i].rows :
             stack[i].rows[n].scope = stack[i].scope
        /\ \A cmd \in InFlight :
             cmd.op \in {"delete", "rollback"} => cmd.row.scope = cmd.scope

\* Once nothing is in flight the list on top, unless loading it failed, shows
\* none of the versions this session replaced or deleted (view_secrets.go:75-85): the action's message
\* comes after its effect and reloads, and going back reloads.
OwnChangesAreShown ==
    (Open /\ cmds = EmptyBag /\ ~overlap /\ ~failed) =>
        \A n \in DOMAIN Top.rows :
            <<Top.scope, Top.rows[n].name, Top.rows[n].version>> \notin replaced

\* A view on top does not wait for ever: the answer of the load it started may
\* go to another view, but coming back to it starts the next (app.go:93-98).
LoadingEnds ==
    \A depth \in 2 .. MaxDepth :
        (Open /\ Len(stack) = depth /\ Top.loading) ~> ~(Open /\ Len(stack) = depth /\ Top.loading)
=============================================================================

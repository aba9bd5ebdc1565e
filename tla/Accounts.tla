------------------------------ MODULE Accounts ------------------------------
(***************************************************************************)
(* Organisations, users, SSH keys and invites on the server: registering   *)
(* an organisation (internal/service/auth.go), inviting and joining        *)
(* (invites.go), changing roles and revoking users (users.go), each        *)
(* request as the SQL statements it issues, interleaved under READ         *)
(* COMMITTED.                                                              *)
(*                                                                         *)
(* Register and Consume are transactions of INSERTs: a row inserted into a *)
(* unique index makes every other transaction that inserts the same key    *)
(* wait, and fail if the first one commits.  The other requests are        *)
(* authorised by an AuthContext, the caller's row as it was when the       *)
(* request's signature was resolved, and then run one statement at a time. *)
(***************************************************************************)
EXTENDS Naturals, FiniteSets

CONSTANTS Orgs,       \* slugs of organisations
          Emails,     \* normalised e-mail addresses
          SSHKeys,    \* fingerprints
          Invites,    \* invite tokens
          Clients,    \* requests in flight at once
          NoUser,
          MaxRequests \* bound: requests begun in one behaviour

Users == Orgs \X Emails     \* UNIQUE(org_id, email); rows are never deleted
Roles == {"admin", "developer"}
NoRole == "none"            \* the role of a row that does not exist

ASSUME NoUserAssumption == NoUser \notin Users
ASSUME MaxRequestsAssumption == MaxRequests \in Nat

VARIABLES orgs,       \* rows of organizations
          users,      \* rows of users
          keys,       \* rows of ssh_keys: the owner of a fingerprint
          invites,    \* rows of invites
          pc,         \* pc[c]: the statement the request of c is at
          tx,         \* tx[c]: that request, and its open transaction
          begun,      \* number of requests begun so far
          joined,     \* auxiliary: key and user of every committed sign-up
          redeemed    \* auxiliary: sign-ups committed for each invite

vars == <<orgs, users, keys, invites, pc, tx, begun, joined, redeemed>>
tables == <<orgs, users, keys, invites, joined, redeemed>>

Kinds == {"none", "register", "consume", "invite", "role", "revoke"}
Steps == {"idle", "slug", "lookup", "org", "user", "key", "mark", "commit",
          "invite", "load", "update"}

Request == [kind : Kinds, caller : Users \cup {NoUser}, user : Users \cup {NoUser},
            key : SSHKeys \cup {"-"}, invite : Invites \cup {"-"}, role : Roles \cup {NoRole}]

Blank == [kind |-> "none", caller |-> NoUser, user |-> NoUser,
          key |-> "-", invite |-> "-", role |-> NoRole]

UserExists(u) == users[u].role # NoRole
Active(u) == UserExists(u) /\ ~users[u].revoked

Init ==
    /\ orgs = {}
    /\ users = [u \in Users |-> [role |-> NoRole, revoked |-> FALSE]]
    /\ keys = [f \in SSHKeys |-> NoUser]
    /\ invites = [i \in Invites |-> [user |-> NoUser, role |-> NoRole,
                                     used |-> FALSE, expired |-> FALSE]]
    /\ pc = [c \in Clients |-> "idle"]
    /\ tx = [c \in Clients |-> Blank]
    /\ begun = 0
    /\ joined = {}
    /\ redeemed = [i \in Invites |-> 0]

------------------------------------------------------------------------------
(* Moving a request along.                                                 *)

Start(c, first, request) ==
    /\ pc[c] = "idle"
    /\ begun < MaxRequests
    /\ begun' = begun + 1
    /\ pc' = [pc EXCEPT ![c] = first]
    /\ tx' = [tx EXCEPT ![c] = request]
    /\ UNCHANGED tables

GoTo(c, step) ==
    /\ pc' = [pc EXCEPT ![c] = step]
    /\ UNCHANGED <<tables, tx, begun>>

Finish(c) ==
    /\ pc' = [pc EXCEPT ![c] = "idle"]
    /\ tx' = [tx EXCEPT ![c] = Blank]
    /\ UNCHANGED begun

\* An error response, or the request's context ending; an open transaction
\* is rolled back.
Abort(c) == Finish(c) /\ UNCHANGED tables
Fail(c) == pc[c] # "idle" /\ Abort(c)

------------------------------------------------------------------------------
(* Sign-up.                                                                *)

\* Register: the slug is looked up before the transaction.
Register(c, u, f) ==
    Start(c, "slug", [Blank EXCEPT !.kind = "register", !.user = u,
                                   !.key = f, !.role = "admin"])

CheckSlug(c) ==
    /\ pc[c] = "slug"
    /\ IF tx[c].user[1] \in orgs THEN Abort(c) ELSE GoTo(c, "org")

Consume(c, i, f) ==
    Start(c, "lookup", [Blank EXCEPT !.kind = "consume", !.invite = i, !.key = f])

\* GetByToken, without FOR UPDATE, and the checks on the row it returned.
Lookup(c) ==
    LET inv == invites[tx[c].invite]
    IN  /\ pc[c] = "lookup"
        /\ inv.role # NoRole /\ ~inv.used /\ ~inv.expired
        /\ pc' = [pc EXCEPT ![c] = "user"]
        /\ tx' = [tx EXCEPT ![c].user = inv.user, ![c].role = inv.role]
        /\ UNCHANGED <<tables, begun>>

LookupFails(c) ==
    LET inv == invites[tx[c].invite]
    IN  /\ pc[c] = "lookup"
        /\ inv.role = NoRole \/ inv.used \/ inv.expired
        /\ Abort(c)

\* What the open transactions hold in the unique indexes, and the invite row.
OrgPending(c) == pc[c] \in {"user", "key", "commit"} /\ tx[c].kind = "register"
UserPending(c) == pc[c] \in {"key", "mark", "commit"}
KeyPending(c) == pc[c] \in {"mark", "commit"}
InviteHeld(c) == pc[c] = "commit" /\ tx[c].kind = "consume"

\* UNIQUE(slug).  Mutant: the table without it.
OrgTaken_Unchecked(c) == FALSE
OrgTaken(c) == tx[c].user[1] \in orgs

InsertOrg(c) ==
    /\ pc[c] = "org"
    /\ \A d \in Clients \ {c} : ~(OrgPending(d) /\ tx[d].user[1] = tx[c].user[1])
    /\ IF OrgTaken(c) THEN Abort(c) ELSE GoTo(c, "user")

\* UNIQUE(org_id, email).  Mutant: the table without it.
EmailTaken_Unchecked(c) == FALSE
EmailTaken(c) == UserExists(tx[c].user)

InsertUser(c) ==
    /\ pc[c] = "user"
    /\ \A d \in Clients \ {c} : ~(UserPending(d) /\ tx[d].user = tx[c].user)
    /\ IF EmailTaken(c) THEN Abort(c) ELSE GoTo(c, "key")

\* UNIQUE(fingerprint).
KeyTaken(c) == keys[tx[c].key] # NoUser

InsertKey(c) ==
    /\ pc[c] = "key"
    /\ \A d \in Clients \ {c} : ~(KeyPending(d) /\ tx[d].key = tx[c].key)
    /\ IF KeyTaken(c) THEN Abort(c)
       ELSE GoTo(c, IF tx[c].kind = "consume" THEN "mark" ELSE "commit")

MarkUsed(c) ==
    /\ pc[c] = "mark"
    /\ \A d \in Clients \ {c} : ~(InviteHeld(d) /\ tx[d].invite = tx[c].invite)
    /\ GoTo(c, "commit")

KeysAfter(c) == [keys EXCEPT ![tx[c].key] = tx[c].user]

Commit(c) ==
    LET t == tx[c]
    IN  /\ pc[c] = "commit"
        /\ users' = [users EXCEPT ![t.user] = [role |-> t.role, revoked |-> FALSE]]
        /\ keys' = KeysAfter(c)
        /\ joined' = joined \cup {[key |-> t.key, user |-> t.user]}
        /\ IF t.kind = "register"
           THEN /\ orgs' = orgs \cup {t.user[1]}
                /\ UNCHANGED <<invites, redeemed>>
           ELSE /\ invites' = [invites EXCEPT ![t.invite].used = TRUE]
                /\ redeemed' = [redeemed EXCEPT ![t.invite] = @ + 1]
                /\ UNCHANGED orgs
        /\ Finish(c)

------------------------------------------------------------------------------
(* Administration.                                                         *)

\* RequireAuth and RequireRole: the fingerprint's user is read once; the
\* request goes on with that user and role whatever happens to them next.
IsAdmin(u) == Active(u) /\ users[u].role = "admin"
Authorised(f) == keys[f] # NoUser /\ IsAdmin(keys[f])

CreateInvite(c, f, e, role) ==
    /\ Authorised(f)
    /\ Start(c, "invite", [Blank EXCEPT !.kind = "invite", !.caller = keys[f],
                              !.user = <<keys[f][1], e>>, !.role = role])

\* A fresh random token.
InsertInvite(c) ==
    /\ pc[c] = "invite"
    /\ \E i \in Invites :
         /\ invites[i].role = NoRole
         /\ invites' = [invites EXCEPT ![i].user = tx[c].user, ![i].role = tx[c].role]
    /\ Finish(c)
    /\ UNCHANGED <<orgs, users, keys, joined, redeemed>>

\* The invite's time to live passes.
Expire(i) ==
    /\ invites[i].role # NoRole
    /\ invites' = [invites EXCEPT ![i].expired = TRUE]
    /\ UNCHANGED <<orgs, users, keys, pc, tx, begun, joined, redeemed>>

ChangeRole(c, f, u, role) ==
    /\ Authorised(f)
    /\ Start(c, "load", [Blank EXCEPT !.kind = "role", !.caller = keys[f],
                                      !.user = u, !.role = role])

\* Revoke refuses the caller itself before it loads the target.
Revoke(c, f, u) ==
    /\ Authorised(f)
    /\ u # keys[f]
    /\ Start(c, "load", [Blank EXCEPT !.kind = "revoke", !.caller = keys[f],
                                      !.user = u])

\* loadInOrg: the target exists, in the caller's organisation.
\* Mutant: the comparison of the organisations left out.
InOrg_Any(c) == UserExists(tx[c].user)
InOrg(c) == UserExists(tx[c].user) /\ tx[c].user[1] = tx[c].caller[1]

\* ChangeRole refuses to demote the caller itself.  Mutant: it does not.
SelfDemotion_Allowed(c) == FALSE
SelfDemotion(c) ==
    tx[c].kind = "role" /\ tx[c].user = tx[c].caller /\ tx[c].role # "admin"

LoadTarget(c) ==
    /\ pc[c] = "load"
    /\ IF InOrg(c) /\ ~SelfDemotion(c) THEN GoTo(c, "update") ELSE Abort(c)

\* UPDATE users, by the target's id alone.
UpdateUser(c) ==
    LET t == tx[c]
    IN  /\ pc[c] = "update"
        /\ users' = IF t.kind = "role" THEN [users EXCEPT ![t.user].role = t.role]
                                       ELSE [users EXCEPT ![t.user].revoked = TRUE]
        /\ Finish(c)
        /\ UNCHANGED <<orgs, keys, invites, joined, redeemed>>

------------------------------------------------------------------------------

SignUp(c) ==
    \/ \E f \in SSHKeys : \/ \E u \in Users : Register(c, u, f)
                          \/ \E i \in Invites : Consume(c, i, f)
    \/ CheckSlug(c) \/ Lookup(c) \/ LookupFails(c)
    \/ InsertOrg(c) \/ InsertUser(c) \/ InsertKey(c) \/ MarkUsed(c)
    \/ Commit(c)

Administer(c) ==
    \/ \E f \in SSHKeys : \/ \E e \in Emails, r \in Roles : CreateInvite(c, f, e, r)
                          \/ \E u \in Users, r \in Roles : ChangeRole(c, f, u, r)
                          \/ \E u \in Users : Revoke(c, f, u)
    \/ InsertInvite(c) \/ LoadTarget(c) \/ UpdateUser(c)

Next ==
    \/ \E c \in Clients : SignUp(c) \/ Administer(c) \/ Fail(c)
    \/ \E i \in Invites : Expire(i)

Spec == Init /\ [][Next]_vars

------------------------------------------------------------------------------
(* Properties.                                                             *)

\* Every variable keeps its type.
TypeOK ==
    /\ orgs \subseteq Orgs
    /\ users \in [Users -> [role : Roles \cup {NoRole}, revoked : BOOLEAN]]
    /\ keys \in [SSHKeys -> Users \cup {NoUser}]
    /\ invites \in [Invites -> [user : Users \cup {NoUser}, role : Roles \cup {NoRole},
                                used : BOOLEAN, expired : BOOLEAN]]
    /\ pc \in [Clients -> Steps]
    /\ tx \in [Clients -> Request]
    /\ begun \in 0..MaxRequests
    /\ joined \subseteq [key : SSHKeys, user : Users]
    /\ redeemed \in [Invites -> Nat]

\* An invite makes one user, whoever redeems it at the same time: Consume
\* reads the invite without locking it, and only the e-mail of the invite
\* being unique in its organisation stops the second redemption.  A used
\* invite has its user.
InvitesRedeemOnce ==
    \A i \in Invites :
        /\ redeemed[i] = (IF invites[i].used THEN 1 ELSE 0)
        /\ invites[i].used => UserExists(invites[i].user)

\* The key of every sign-up that was acknowledged resolves to the user it
\* signed up, for ever: no later sign-up takes the key over.
KeysStayWithTheirUser == \A j \in joined : keys[j.key] = j.user

\* A request changes the users of its caller's organisation only.
ChangesStayInOrg ==
    [][\A u \in Users : UserExists(u) /\ users'[u] # users[u] =>
         \E c \in Clients : pc[c] = "update" /\ tx[c].caller[1] = u[1]]_vars

HasAdmin(o) == \E e \in Emails : IsAdmin(<<o, e>>)

\* An organisation loses its last admin only to a request whose caller was
\* demoted or revoked after it was authorised: what ChangeRole and Revoke
\* refuse is enough as long as the caller still is who it was.
OnlyStaleCallersLockOut ==
    [][\A o \in orgs : HasAdmin(o) /\ ~HasAdmin(o)' =>
         \E c \in Clients : /\ pc[c] = "update"
                            /\ tx[c].caller[1] = o
                            /\ ~IsAdmin(tx[c].caller)]_vars

\* The accounts as their users may think of them.
Team == INSTANCE Membership WITH
    members <- users,
    owner <- keys,
    offers <- [i \in Invites |-> [user |-> invites[i].user, role |-> invites[i].role,
                                  spent |-> invites[i].used]],
    Nobody <- NoUser

\* Every request takes effect at once or not at all, however the statements of
\* several interleave: an organisation is founded once, an invitation makes
\* the member it names and is spent, a key that was nobody's becomes theirs.
ImplementsMembership == Team!Spec

\* An organisation never locks itself out: some admin of it is not revoked.
\* "Callers cannot demote themselves (protects against accidental org
\* lockout)", internal/service/users.go:46.  It does not hold: two admins
\* who demote or revoke each other at once leave nobody.
NoLockout == \A o \in orgs : HasAdmin(o)
=============================================================================

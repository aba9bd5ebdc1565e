--------------------------- MODULE AccountsProofs ---------------------------
(***************************************************************************)
(* Proofs, for any number of organisations, addresses, keys, invites and   *)
(* requests in flight, that sign-up is all or nothing, that an invite      *)
(* makes one user and a key keeps its user, that an organisation is        *)
(* changed by its own people and locked out by stale callers only, and     *)
(* that the identity a sign-up command leaves behind is a registered one.  *)
(***************************************************************************)
EXTENDS IdentitySetup, TLAPS

------------------------------------------------------------------------------
(* The inductive invariant: what a request knows about itself and about    *)
(* the tables (SignUpOK, AdminOK), what two sign-ups cannot both hold      *)
(* (Exclusive), and the tables (TablesOK).                                 *)

SignUpSteps == {"slug", "org", "user", "key", "mark", "commit"}

\* An open sign-up names a user and a key that nobody has yet; the invite it
\* consumes is the one that names this user.
SignUpOK(c) ==
    /\ pc[c] \in SignUpSteps =>
         /\ tx[c].user \in Users /\ tx[c].key \in SSHKeys /\ tx[c].role \in Roles
         /\ tx[c].kind \in {"register", "consume"}
    /\ pc[c] \in {"slug", "org"} => tx[c].kind = "register"
    /\ pc[c] = "mark" => tx[c].kind = "consume"
    /\ pc[c] = "lookup" =>
         tx[c].kind = "consume" /\ tx[c].invite \in Invites /\ tx[c].key \in SSHKeys
    /\ pc[c] \in SignUpSteps /\ tx[c].kind = "consume" =>
         /\ tx[c].invite \in Invites
         /\ invites[tx[c].invite].role # NoRole
         /\ invites[tx[c].invite].user = tx[c].user
    /\ UserPending(c) => ~UserExists(tx[c].user)
    /\ KeyPending(c) => keys[tx[c].key] = NoUser

\* What an administrator's request was checked for still holds of it.
AdminOK(c) ==
    /\ pc[c] = "invite" =>
         tx[c].user \in Users /\ tx[c].user[1] \in orgs /\ tx[c].role \in Roles
    /\ pc[c] \in {"load", "update"} =>
         /\ tx[c].user \in Users /\ tx[c].caller \in Users
         /\ \/ tx[c].kind = "role" /\ tx[c].role \in Roles
            \/ tx[c].kind = "revoke" /\ tx[c].user # tx[c].caller
    /\ pc[c] = "update" => InOrg(c) /\ ~SelfDemotion(c)

ClientOK(c) == SignUpOK(c) /\ AdminOK(c)

\* The unique indexes let one open transaction insert a user, or a key.
Exclusive ==
    \A c, d \in Clients : c # d =>
        /\ ~(UserPending(c) /\ UserPending(d) /\ tx[c].user = tx[d].user)
        /\ ~(KeyPending(c) /\ KeyPending(d) /\ tx[c].key = tx[d].key)

InvitesOK ==
    \A i \in Invites :
        /\ invites[i].role # NoRole =>
             invites[i].user \in Users /\ invites[i].user[1] \in orgs
        /\ invites[i].used => invites[i].role # NoRole

\* Sign-up is all or nothing: an organisation has a user, a user is in an
\* organisation and has a key to authenticate with.
NoHalfSignUps ==
    /\ \A o \in orgs : \E e \in Emails : UserExists(<<o, e>>)
    /\ \A u \in Users : UserExists(u) =>
         u[1] \in orgs /\ \E f \in SSHKeys : keys[f] = u

TablesOK ==
    InvitesOK /\ InvitesRedeemOnce /\ KeysStayWithTheirUser /\ NoHalfSignUps

IndInv ==
    TypeOK /\ (\A c \in Clients : ClientOK(c)) /\ Exclusive /\ TablesOK

------------------------------------------------------------------------------
(* Steps of one request that leave the tables alone.                       *)

LEMMA BlankIsARequest == Blank \in Request
BY DEF Blank, Request, Kinds

\* A request that moves on, and takes no user and no key that another open
\* transaction holds, keeps the invariant.
LEMMA LocalStep ==
    ASSUME IndInv, NEW c \in Clients, UNCHANGED tables,
           NEW s \in Steps, NEW t \in Request,
           pc' = [pc EXCEPT ![c] = s], tx' = [tx EXCEPT ![c] = t],
           begun' \in 0..MaxRequests, ClientOK(c)',
           \A d \in Clients \ {c} :
               /\ ~(UserPending(c)' /\ UserPending(d) /\ t.user = tx[d].user)
               /\ ~(KeyPending(c)' /\ KeyPending(d) /\ t.key = tx[d].key)
    PROVE  IndInv'
<1>1. TypeOK'
  BY DEF IndInv, TypeOK, tables
<1>2. pc'[c] = s /\ tx'[c] = t
  BY DEF IndInv, TypeOK
<1>3. \A d \in Clients \ {c} : pc'[d] = pc[d] /\ tx'[d] = tx[d]
  BY DEF IndInv, TypeOK
<1>4. \A d \in Clients : ClientOK(d)'
  <2> SUFFICES ASSUME NEW d \in Clients, d # c PROVE ClientOK(d)'
    OBVIOUS
  <2>1. ClientOK(d) /\ pc'[d] = pc[d] /\ tx'[d] = tx[d]
    BY <1>3 DEF IndInv
  <2>2. QED
    BY <2>1 DEF ClientOK, SignUpOK, AdminOK, UserPending, KeyPending, UserExists,
                InOrg, SelfDemotion, tables
<1>5. Exclusive'
  <2> SUFFICES ASSUME NEW a \in Clients, NEW d \in Clients, a # d
               PROVE  /\ ~(UserPending(a) /\ UserPending(d) /\ tx[a].user = tx[d].user)'
                      /\ ~(KeyPending(a) /\ KeyPending(d) /\ tx[a].key = tx[d].key)'
    BY DEF Exclusive
  <2>1. CASE a # c /\ d # c
    BY <1>3, <2>1 DEF IndInv, Exclusive, UserPending, KeyPending
  <2>2. CASE a = c
    BY <1>2, <1>3, <2>2 DEF UserPending, KeyPending
  <2>3. CASE d = c
    BY <1>2, <1>3, <2>3 DEF UserPending, KeyPending
  <2>4. QED
    BY <2>1, <2>2, <2>3
<1>6. TablesOK'
  BY DEF IndInv, TablesOK, InvitesOK, InvitesRedeemOnce, KeysStayWithTheirUser,
         NoHalfSignUps, UserExists, tables
<1>7. QED
  BY <1>1, <1>4, <1>5, <1>6 DEF IndInv

\* A request that is over holds nothing.
LEMMA IdleIsOK ==
    ASSUME NEW c \in Clients, pc'[c] = "idle"
    PROVE  ClientOK(c)' /\ ~UserPending(c)' /\ ~KeyPending(c)'
BY DEF ClientOK, SignUpOK, AdminOK, UserPending, KeyPending, SignUpSteps

\* Giving a request up.
LEMMA AbortStep ==
    ASSUME IndInv, NEW c \in Clients, Abort(c)
    PROVE  IndInv'
<1>1. pc' = [pc EXCEPT ![c] = "idle"] /\ tx' = [tx EXCEPT ![c] = Blank]
      /\ begun' = begun /\ UNCHANGED tables
  BY DEF Abort, Finish
<1>2. pc'[c] = "idle"
  BY <1>1 DEF IndInv, TypeOK
<1>3. begun' \in 0..MaxRequests /\ "idle" \in Steps
  BY <1>1 DEF IndInv, TypeOK, Steps
<1>4. QED
  BY <1>1, <1>2, <1>3, IdleIsOK, BlankIsARequest, LocalStep

\* Accepting a request, which holds nothing yet.
LEMMA StartStep ==
    ASSUME IndInv, NEW c \in Clients,
           NEW s \in {"slug", "lookup", "invite", "load"}, NEW t \in Request,
           Start(c, s, t),
           pc'[c] = s /\ tx'[c] = t => SignUpOK(c)' /\ AdminOK(c)'
    PROVE  IndInv'
<1>1. s \in Steps /\ begun' \in 0..MaxRequests
  BY MaxRequestsAssumption DEF Start, Steps, IndInv, TypeOK
<1>2. pc'[c] = s /\ tx'[c] = t
  BY DEF Start, IndInv, TypeOK
<1>3. ~UserPending(c)' /\ ~KeyPending(c)'
  BY <1>2 DEF UserPending, KeyPending
<1>4. ClientOK(c)'
  BY <1>2 DEF ClientOK
<1>5. QED
  BY <1>1, <1>3, <1>4, LocalStep DEF Start

------------------------------------------------------------------------------
(* Sign-up.                                                                *)

\* Where a request is, and what it is, whichever step it took.
LEMMA Moved ==
    ASSUME IndInv, NEW c \in Clients, NEW s, pc' = [pc EXCEPT ![c] = s]
    PROVE  pc'[c] = s
BY DEF IndInv, TypeOK

\* A request that goes to its next statement and stays what it was.
LEMMA GoToStep ==
    ASSUME IndInv, NEW c \in Clients, NEW s \in Steps, GoTo(c, s),
           pc'[c] = s /\ tx'[c] = tx[c] => ClientOK(c)',
           \A d \in Clients \ {c} :
               /\ ~(UserPending(c)' /\ UserPending(d) /\ tx[c].user = tx[d].user)
               /\ ~(KeyPending(c)' /\ KeyPending(d) /\ tx[c].key = tx[d].key)
    PROVE  IndInv'
<1>1. tx[c] \in Request /\ tx' = [tx EXCEPT ![c] = tx[c]] /\ begun' \in 0..MaxRequests
  BY DEF GoTo, IndInv, TypeOK
<1>2. pc'[c] = s /\ tx'[c] = tx[c]
  BY Moved DEF GoTo
<1>3. QED
  BY <1>1, <1>2, LocalStep DEF GoTo

\* POST /v1/auth/register and /v1/admin/join.
LEMMA SignUpBegins ==
    ASSUME IndInv, NEW c \in Clients, NEW f \in SSHKeys,
           \/ \E u \in Users : Register(c, u, f)
           \/ \E i \in Invites : Consume(c, i, f)
    PROVE  IndInv'
<1>1. ASSUME NEW u \in Users, Register(c, u, f) PROVE IndInv'
  <2> DEFINE t == [Blank EXCEPT !.kind = "register", !.user = u, !.key = f, !.role = "admin"]
  <2>1. /\ t \in Request /\ t.kind = "register" /\ t.user = u /\ t.key = f
        /\ t.role \in Roles
    BY DEF Blank, Request, Kinds, Roles
  <2>2. Start(c, "slug", t)
    BY <1>1 DEF Register
  <2> HIDE DEF t
  <2>3. pc'[c] = "slug" /\ tx'[c] = t => SignUpOK(c)' /\ AdminOK(c)'
    BY <2>1 DEF SignUpOK, AdminOK, UserPending, KeyPending, Roles
  <2>4. QED
    BY <2>1, <2>2, <2>3, StartStep
<1>2. ASSUME NEW i \in Invites, Consume(c, i, f) PROVE IndInv'
  <2> DEFINE t == [Blank EXCEPT !.kind = "consume", !.invite = i, !.key = f]
  <2>1. t \in Request /\ t.kind = "consume" /\ t.invite = i /\ t.key = f
    BY DEF Blank, Request, Kinds
  <2>2. Start(c, "lookup", t)
    BY <1>2 DEF Consume
  <2> HIDE DEF t
  <2>3. pc'[c] = "lookup" /\ tx'[c] = t => SignUpOK(c)' /\ AdminOK(c)'
    BY <2>1 DEF SignUpOK, AdminOK, UserPending, KeyPending, SignUpSteps
  <2>4. QED
    BY <2>1, <2>2, <2>3, StartStep
<1>3. QED
  BY <1>1, <1>2

\* The invite is good: the user it names is not pending anywhere yet.
LEMMA LookupStep ==
    ASSUME IndInv, NEW c \in Clients, Lookup(c)
    PROVE  IndInv'
<1> DEFINE inv == invites[tx[c].invite]
           t == [tx[c] EXCEPT !.user = inv.user, !.role = inv.role]
<1>1. /\ pc[c] = "lookup" /\ tx[c] \in Request /\ tx[c].kind = "consume"
      /\ tx[c].invite \in Invites /\ tx[c].key \in SSHKeys
  BY DEF IndInv, TypeOK, ClientOK, SignUpOK, Lookup
<1>2. inv.role \in Roles /\ inv.user \in Users
  BY <1>1 DEF IndInv, TypeOK, TablesOK, InvitesOK, Lookup
<1>3. /\ t \in Request /\ t.user = inv.user /\ t.role = inv.role
      /\ t.kind = "consume" /\ t.invite = tx[c].invite /\ t.key = tx[c].key
  BY <1>1, <1>2 DEF Request
<1>4. tx' = [tx EXCEPT ![c] = t] /\ pc' = [pc EXCEPT ![c] = "user"]
  BY DEF Lookup
<1>5. pc'[c] = "user" /\ tx'[c] = t
  BY <1>4 DEF IndInv, TypeOK
<1>6. ~UserPending(c)' /\ ~KeyPending(c)'
  BY <1>5 DEF UserPending, KeyPending
<1>7. inv.role # NoRole /\ UNCHANGED <<tables, begun>>
  BY DEF Lookup
<1> HIDE DEF t
<1>8. ClientOK(c)'
  BY <1>1, <1>2, <1>3, <1>5, <1>6, <1>7 DEF ClientOK, SignUpOK, AdminOK, SignUpSteps, tables
<1>9. "user" \in Steps /\ begun' \in 0..MaxRequests /\ UNCHANGED tables
  BY <1>7 DEF Steps, IndInv, TypeOK
<1>10. QED
  BY <1>3, <1>4, <1>6, <1>8, <1>9, LocalStep

\* The statements of the transaction that only look and take.
LEMMA InsertsStep ==
    ASSUME IndInv, NEW c \in Clients,
           CheckSlug(c) \/ InsertOrg(c) \/ InsertUser(c) \/ InsertKey(c) \/ MarkUsed(c)
    PROVE  IndInv'
<1> USE DEF IndInv, ClientOK, SignUpOK, AdminOK, SignUpSteps, UserPending, KeyPending
<1>1. CASE Abort(c)
  BY <1>1, AbortStep
<1>2. ASSUME GoTo(c, "org"), CheckSlug(c) PROVE IndInv'
  <2>1. "org" \in Steps /\ pc[c] = "slug"
    BY <1>2 DEF Steps, CheckSlug
  <2>2. pc'[c] = "org" /\ tx'[c] = tx[c] => ClientOK(c)'
    BY <2>1
  <2>3. pc'[c] = "org"
    BY <1>2, Moved DEF GoTo
  <2>4. QED
    BY <1>2, <2>1, <2>2, <2>3, GoToStep
<1>3. ASSUME GoTo(c, "user"), InsertOrg(c) PROVE IndInv'
  <2>1. "user" \in Steps /\ pc[c] = "org"
    BY <1>3 DEF Steps, InsertOrg
  <2>2. pc'[c] = "user" /\ tx'[c] = tx[c] => ClientOK(c)'
    BY <2>1
  <2>3. pc'[c] = "user"
    BY <1>3, Moved DEF GoTo
  <2>4. QED
    BY <1>3, <2>1, <2>2, <2>3, GoToStep
<1>4. ASSUME GoTo(c, "key"), InsertUser(c), ~EmailTaken(c) PROVE IndInv'
  <2>1. "key" \in Steps /\ pc[c] = "user" /\ ~UserExists(tx[c].user)
    BY <1>4 DEF Steps, InsertUser, EmailTaken
  <2>2. pc'[c] = "key" /\ tx'[c] = tx[c] => ClientOK(c)'
    BY <1>4, <2>1 DEF GoTo, tables, UserExists
  <2>3. \A d \in Clients \ {c} : ~(UserPending(d) /\ tx[d].user = tx[c].user)
    BY <1>4 DEF InsertUser
  <2>4. pc'[c] = "key"
    BY <1>4, Moved DEF GoTo
  <2>5. QED
    BY <1>4, <2>1, <2>2, <2>3, <2>4, GoToStep
<1>5. ASSUME NEW s \in {"mark", "commit"}, GoTo(c, s), InsertKey(c), ~KeyTaken(c),
             s = "mark" => tx[c].kind = "consume"
      PROVE  IndInv'
  <2>1. s \in Steps /\ pc[c] = "key" /\ keys[tx[c].key] = NoUser
    BY <1>5 DEF Steps, InsertKey, KeyTaken
  <2>2. pc'[c] = s /\ tx'[c] = tx[c] => ClientOK(c)'
    BY <1>5, <2>1 DEF GoTo, tables, UserExists
  <2>3. \A d \in Clients \ {c} : /\ ~(KeyPending(d) /\ tx[d].key = tx[c].key)
                                 /\ ~(UserPending(d) /\ tx[d].user = tx[c].user)
    BY <1>5, <2>1 DEF InsertKey, Exclusive
  <2>4. QED
    BY <1>5, <2>1, <2>2, <2>3, GoToStep
<1>6. ASSUME GoTo(c, "commit"), MarkUsed(c) PROVE IndInv'
  <2>1. "commit" \in Steps /\ pc[c] = "mark"
    BY <1>6 DEF Steps, MarkUsed
  <2>2. pc'[c] = "commit" /\ tx'[c] = tx[c] => ClientOK(c)'
    BY <1>6, <2>1 DEF GoTo, tables, UserExists
  <2>3. \A d \in Clients \ {c} : /\ ~(KeyPending(d) /\ tx[d].key = tx[c].key)
                                 /\ ~(UserPending(d) /\ tx[d].user = tx[c].user)
    BY <2>1 DEF Exclusive
  <2>4. QED
    BY <1>6, <2>1, <2>2, <2>3, GoToStep
<1>7. QED
  BY <1>1, <1>2, <1>3, <1>4, <1>5, <1>6
     DEF CheckSlug, InsertOrg, InsertUser, InsertKey, MarkUsed

------------------------------------------------------------------------------
(* Steps that change the tables.                                           *)

\* If the tables keep their order and every user and used key they have, and
\* no invite that somebody redeems changes, other requests stay consistent.
LEMMA OthersStep ==
    ASSUME IndInv, NEW c \in Clients, TypeOK', TablesOK', pc'[c] = "idle",
           \A d \in Clients \ {c} : pc'[d] = pc[d] /\ tx'[d] = tx[d],
           orgs \subseteq orgs',
           \A u \in Users : UserExists(u) => UserExists(u)',
           \A i \in Invites : invites[i].role # NoRole =>
               invites'[i].role # NoRole /\ invites'[i].user = invites[i].user,
           \A d \in Clients \ {c} :
               /\ UserPending(d) => ~UserExists(tx[d].user)'
               /\ KeyPending(d) => keys'[tx[d].key] = NoUser
    PROVE  IndInv'
<1>1. \A d \in Clients : ClientOK(d)'
  <2> SUFFICES ASSUME NEW d \in Clients PROVE ClientOK(d)'
    OBVIOUS
  <2>1. CASE d = c
    BY <2>1, IdleIsOK
  <2>2. CASE d # c
    <3>1. ClientOK(d) /\ pc'[d] = pc[d] /\ tx'[d] = tx[d]
      BY <2>2 DEF IndInv
    <3>2. /\ UserPending(d)' <=> UserPending(d)
          /\ KeyPending(d)' <=> KeyPending(d)
      BY <3>1 DEF UserPending, KeyPending
    <3>3. SignUpOK(d)'
      <4>1. SignUpOK(d)
        BY <3>1 DEF ClientOK
      <4>2. UserPending(d)' => ~UserExists(tx[d].user)'
        BY <2>2, <3>2
      <4>3. KeyPending(d)' => (keys[tx[d].key] = NoUser)'
        BY <2>2, <3>1, <3>2
      <4>4. QED
        BY <3>1, <4>1, <4>2, <4>3 DEF SignUpOK, UserExists
    <3>4. AdminOK(d)'
      <4>1. AdminOK(d)
        BY <3>1 DEF ClientOK
      <4>2. pc[d] = "update" => UserExists(tx[d].user)'
        <5>1. pc[d] = "update" => tx[d].user \in Users /\ UserExists(tx[d].user)
          BY <4>1 DEF AdminOK, InOrg
        <5>2. QED
          BY <3>1, <5>1 DEF UserExists
      <4>3. pc[d] = "update" => InOrg(d)' /\ ~SelfDemotion(d)'
        BY <3>1, <4>1, <4>2 DEF AdminOK, InOrg, SelfDemotion, UserExists
      <4>4. QED
        BY <3>1, <4>1, <4>3 DEF AdminOK
    <3>5. QED
      BY <3>3, <3>4 DEF ClientOK
  <2>3. QED
    BY <2>1, <2>2
<1>2. Exclusive'
  BY DEF IndInv, Exclusive, UserPending, KeyPending
<1>3. QED
  BY <1>1, <1>2 DEF IndInv

\* The sign-up takes effect.
LEMMA CommitStep ==
    ASSUME IndInv, NEW c \in Clients, Commit(c)
    PROVE  IndInv'
<1> DEFINE t == tx[c]
<1>1. pc[c] = "commit" /\ UserPending(c) /\ KeyPending(c) /\ SignUpOK(c)
  BY DEF IndInv, ClientOK, UserPending, KeyPending, Commit
<1>2. /\ t.user \in Users /\ t.key \in SSHKeys /\ t.role \in Roles
      /\ ~UserExists(t.user) /\ keys[t.key] = NoUser
      /\ t.kind \in {"register", "consume"}
      /\ t.kind = "consume" => /\ t.invite \in Invites
                               /\ invites[t.invite].role # NoRole
                               /\ invites[t.invite].user = t.user
  BY <1>1 DEF SignUpOK, SignUpSteps
<1>3. /\ t.role # NoRole /\ t.user # NoUser
      /\ t.user[1] \in Orgs /\ t.user[2] \in Emails /\ t.user = <<t.user[1], t.user[2]>>
  BY <1>2, NoUserAssumption DEF Roles, NoRole, Users
<1>4. /\ users' = [users EXCEPT ![t.user] = [role |-> t.role, revoked |-> FALSE]]
      /\ keys' = [keys EXCEPT ![t.key] = t.user]
      /\ joined' = joined \cup {[key |-> t.key, user |-> t.user]}
      /\ pc' = [pc EXCEPT ![c] = "idle"] /\ tx' = [tx EXCEPT ![c] = Blank]
      /\ begun' = begun
  BY DEF Commit, KeysAfter, Finish
<1>5. orgs' = orgs \cup {t.user[1]}
  BY <1>2 DEF Commit, IndInv, TablesOK, InvitesOK
<1>6. \/ t.kind = "register" /\ UNCHANGED <<invites, redeemed>>
      \/ /\ t.kind = "consume"
         /\ invites' = [invites EXCEPT ![t.invite].used = TRUE]
         /\ redeemed' = [redeemed EXCEPT ![t.invite] = @ + 1]
  BY <1>2 DEF Commit
<1>7. TypeOK'
  <2>1. /\ users' \in [Users -> [role : Roles \cup {NoRole}, revoked : BOOLEAN]]
        /\ keys' \in [SSHKeys -> Users \cup {NoUser}]
        /\ joined' \subseteq [key : SSHKeys, user : Users]
    BY <1>2, <1>4 DEF IndInv, TypeOK
  <2>2. orgs' \subseteq Orgs /\ begun' \in 0..MaxRequests
    BY <1>3, <1>4, <1>5 DEF IndInv, TypeOK
  <2>3. pc' \in [Clients -> Steps] /\ tx' \in [Clients -> Request]
    BY <1>4, BlankIsARequest DEF IndInv, TypeOK, Steps
  <2>4. /\ invites' \in [Invites -> [user : Users \cup {NoUser}, role : Roles \cup {NoRole},
                                     used : BOOLEAN, expired : BOOLEAN]]
        /\ redeemed' \in [Invites -> Nat]
    <3>1. CASE UNCHANGED <<invites, redeemed>>
      BY <3>1 DEF IndInv, TypeOK
    <3>2. CASE t.kind = "consume"
      <4>1. /\ invites' = [invites EXCEPT ![t.invite].used = TRUE]
            /\ redeemed' = [redeemed EXCEPT ![t.invite] = @ + 1]
        BY <1>6, <3>2
      <4>2. invites' \in [Invites -> [user : Users \cup {NoUser}, role : Roles \cup {NoRole},
                                     used : BOOLEAN, expired : BOOLEAN]]
        <5> DEFINE I == [user : Users \cup {NoUser}, role : Roles \cup {NoRole},
                         used : BOOLEAN, expired : BOOLEAN]
        <5>1. invites \in [Invites -> I]
          BY DEF IndInv, TypeOK
        <5>2. \A i \in Invites : [invites[i] EXCEPT !.used = TRUE] \in I
          BY <5>1
        <5> HIDE DEF I
        <5>3. invites' \in [Invites -> I]
          BY <4>1, <5>1, <5>2
        <5>4. QED
          BY <5>3 DEF I
      <4>3. redeemed' \in [Invites -> Nat]
        BY <1>2, <3>2, <4>1 DEF IndInv, TypeOK
      <4>4. QED
        BY <4>2, <4>3
    <3>3. QED
      BY <1>6, <3>1, <3>2
  <2>5. QED
    BY <2>1, <2>2, <2>3, <2>4 DEF TypeOK
<1>8. \A u \in Users : UserExists(u)' <=> (UserExists(u) \/ u = t.user)
  BY <1>2, <1>3, <1>4 DEF IndInv, TypeOK, UserExists
<1>9. \A f \in SSHKeys : keys'[f] = IF f = t.key THEN t.user ELSE keys[f]
  BY <1>2, <1>4 DEF IndInv, TypeOK
<1>10. InvitesOK' /\ InvitesRedeemOnce'
  <2>1. CASE t.kind = "register"
    BY <1>5, <1>6, <1>8, <2>1 DEF IndInv, TablesOK, InvitesOK, InvitesRedeemOnce
  <2>2. CASE t.kind = "consume"
    <3>1. ~invites[t.invite].used /\ redeemed[t.invite] = 0
      BY <1>2, <2>2 DEF IndInv, TablesOK, InvitesRedeemOnce
    <3>2. \A i \in Invites :
            /\ invites'[i].role = invites[i].role /\ invites'[i].user = invites[i].user
            /\ i # t.invite => invites'[i].used = invites[i].used
            /\ i = t.invite => invites'[i].used
            /\ redeemed'[i] = IF i = t.invite THEN 1 ELSE redeemed[i]
      <4>1. /\ invites' = [invites EXCEPT ![t.invite].used = TRUE]
            /\ redeemed' = [redeemed EXCEPT ![t.invite] = @ + 1]
        BY <1>6, <2>2
      <4>2. \A i \in Invites : invites'[i] = IF i = t.invite
                                 THEN [invites[i] EXCEPT !.used = TRUE] ELSE invites[i]
        BY <1>2, <2>2, <4>1 DEF IndInv, TypeOK
      <4>3. \A i \in Invites : redeemed'[i] = IF i = t.invite THEN 1 ELSE redeemed[i]
        BY <1>2, <2>2, <3>1, <4>1 DEF IndInv, TypeOK
      <4>4. \A i \in Invites : invites[i] \in [user : Users \cup {NoUser},
                role : Roles \cup {NoRole}, used : BOOLEAN, expired : BOOLEAN]
        BY DEF IndInv, TypeOK
      <4>5. QED
        BY <4>2, <4>3, <4>4
    <3>3. InvitesOK'
      BY <1>2, <1>5, <2>2, <3>2 DEF IndInv, TablesOK, InvitesOK
    <3>4. InvitesRedeemOnce'
      <4> SUFFICES ASSUME NEW i \in Invites
                   PROVE  /\ redeemed'[i] = (IF invites'[i].used THEN 1 ELSE 0)
                          /\ invites'[i].used => UserExists(invites[i].user)'
        BY DEF InvitesRedeemOnce
      <4>1. redeemed[i] = (IF invites[i].used THEN 1 ELSE 0)
        BY DEF IndInv, TablesOK, InvitesRedeemOnce
      <4>2. invites[i].used => invites[i].user \in Users /\ UserExists(invites[i].user)
        BY DEF IndInv, TablesOK, InvitesRedeemOnce, InvitesOK
      <4>3. CASE i = t.invite
        BY <1>2, <1>8, <2>2, <3>2, <4>3 DEF UserExists
      <4>4. CASE i # t.invite
        BY <1>8, <3>2, <4>1, <4>2, <4>4 DEF UserExists
      <4>5. QED
        BY <4>3, <4>4
    <3>5. QED
      BY <3>3, <3>4
  <2>3. QED
    BY <1>2, <2>1, <2>2
<1>11. KeysStayWithTheirUser'
  <2>1. \A j \in joined : keys[j.key] = j.user /\ j.key \in SSHKeys /\ j.user # NoUser
    BY NoUserAssumption DEF IndInv, TablesOK, TypeOK, KeysStayWithTheirUser
  <2>2. QED
    BY <1>2, <1>4, <1>9, <2>1 DEF KeysStayWithTheirUser
<1>12. NoHalfSignUps'
  <2>1. \A o \in orgs' : \E e \in Emails : UserExists(<<o, e>>)'
    <3> SUFFICES ASSUME NEW o \in orgs' PROVE \E e \in Emails : UserExists(<<o, e>>)'
      OBVIOUS
    <3>1. CASE o = t.user[1]
      BY <1>2, <1>3, <1>8, <3>1
    <3>2. CASE o \in orgs
      <4>1. PICK e \in Emails : UserExists(<<o, e>>)
        BY <3>2 DEF IndInv, TablesOK, NoHalfSignUps
      <4>2. <<o, e>> \in Users
        BY <3>2 DEF IndInv, TypeOK, Users
      <4>3. QED
        BY <1>8, <4>1, <4>2
    <3>3. QED
      BY <1>5, <3>1, <3>2
  <2>2. \A u \in Users : UserExists(u)' =>
           u[1] \in orgs' /\ \E f \in SSHKeys : keys'[f] = u
    <3> SUFFICES ASSUME NEW u \in Users, UserExists(u)'
                 PROVE  u[1] \in orgs' /\ \E f \in SSHKeys : keys'[f] = u
      OBVIOUS
    <3>1. CASE u = t.user
      BY <1>2, <1>5, <1>9, <3>1
    <3>2. CASE u # t.user
      <4>1. u[1] \in orgs /\ \E f \in SSHKeys : keys[f] = u
        BY <1>8, <3>2 DEF IndInv, TablesOK, NoHalfSignUps
      <4>2. PICK f \in SSHKeys : keys[f] = u
        BY <4>1
      <4>3. f # t.key
        BY <1>2, <4>2, NoUserAssumption
      <4>4. QED
        BY <1>5, <1>9, <4>1, <4>2, <4>3
    <3>3. QED
      BY <3>1, <3>2
  <2>3. QED
    BY <2>1, <2>2 DEF NoHalfSignUps
<1>13. \A d \in Clients \ {c} :
          /\ UserPending(d) => ~UserExists(tx[d].user)'
          /\ KeyPending(d) => keys'[tx[d].key] = NoUser
  <2> SUFFICES ASSUME NEW d \in Clients, d # c
               PROVE  /\ UserPending(d) => ~UserExists(tx[d].user)'
                      /\ KeyPending(d) => keys'[tx[d].key] = NoUser
    OBVIOUS
  <2>1. /\ UserPending(d) => tx[d].user # t.user
        /\ KeyPending(d) => tx[d].key # t.key
    BY <1>1 DEF IndInv, Exclusive
  <2>2. /\ UserPending(d) => tx[d].user \in Users /\ ~UserExists(tx[d].user)
        /\ KeyPending(d) => tx[d].key \in SSHKeys /\ keys[tx[d].key] = NoUser
    BY DEF IndInv, ClientOK, SignUpOK, UserPending, KeyPending, SignUpSteps
  <2>3. tx'[d] = tx[d]
    BY <1>4 DEF IndInv, TypeOK
  <2>4. QED
    BY <1>8, <1>9, <2>1, <2>2, <2>3 DEF UserExists
<1>14. pc'[c] = "idle" /\ \A d \in Clients \ {c} : pc'[d] = pc[d] /\ tx'[d] = tx[d]
  BY <1>4 DEF IndInv, TypeOK
<1>15. /\ orgs \subseteq orgs' /\ \A u \in Users : UserExists(u) => UserExists(u)'
       /\ \A i \in Invites : invites[i].role # NoRole =>
             invites'[i].role # NoRole /\ invites'[i].user = invites[i].user
  BY <1>2, <1>5, <1>6, <1>8 DEF IndInv, TypeOK
<1>16. TablesOK'
  BY <1>10, <1>11, <1>12 DEF TablesOK
<1>17. QED
  BY <1>7, <1>13, <1>14, <1>15, <1>16, OthersStep

\* An invite for an address of the caller's organisation.
LEMMA InsertInviteStep ==
    ASSUME IndInv, NEW c \in Clients, InsertInvite(c)
    PROVE  IndInv'
<1>1. /\ pc[c] = "invite" /\ tx[c].user \in Users /\ tx[c].user[1] \in orgs
      /\ tx[c].role \in Roles
  BY DEF InsertInvite, IndInv, ClientOK, AdminOK
<1>2. PICK i \in Invites :
        /\ invites[i].role = NoRole
        /\ invites' = [invites EXCEPT ![i].user = tx[c].user, ![i].role = tx[c].role]
  BY DEF InsertInvite
<1>3. /\ UNCHANGED <<orgs, users, keys, joined, redeemed, begun>>
      /\ pc' = [pc EXCEPT ![c] = "idle"] /\ tx' = [tx EXCEPT ![c] = Blank]
  BY DEF InsertInvite, Finish
<1>4. /\ \A j \in Invites \ {i} : invites'[j] = invites[j]
      /\ invites'[i].user = tx[c].user /\ invites'[i].role = tx[c].role
      /\ invites'[i].used = invites[i].used
  BY <1>2 DEF IndInv, TypeOK
<1>5. ~invites[i].used
  BY <1>2 DEF IndInv, TablesOK, InvitesOK
<1>6. TypeOK'
  <2>1. invites' \in [Invites -> [user : Users \cup {NoUser}, role : Roles \cup {NoRole},
                                  used : BOOLEAN, expired : BOOLEAN]]
    <3> DEFINE row == [invites[i] EXCEPT !.user = tx[c].user, !.role = tx[c].role]
    <3>1. row \in [user : Users \cup {NoUser}, role : Roles \cup {NoRole},
                   used : BOOLEAN, expired : BOOLEAN]
      BY <1>1 DEF IndInv, TypeOK
    <3>2. invites' = [invites EXCEPT ![i] = row]
      BY <1>2 DEF IndInv, TypeOK
    <3> HIDE DEF row
    <3>3. QED
      BY <3>1, <3>2 DEF IndInv, TypeOK
  <2>2. pc' \in [Clients -> Steps] /\ tx' \in [Clients -> Request]
    BY <1>3, BlankIsARequest DEF IndInv, TypeOK, Steps
  <2>3. QED
    BY <1>3, <2>1, <2>2 DEF IndInv, TypeOK
<1>7. TablesOK'
  <2>1. InvitesOK'
    BY <1>1, <1>3, <1>4, <1>5 DEF IndInv, TablesOK, InvitesOK, Roles, NoRole
  <2>2. InvitesRedeemOnce'
    BY <1>3, <1>4, <1>5 DEF IndInv, TablesOK, InvitesRedeemOnce, UserExists
  <2>3. KeysStayWithTheirUser' /\ NoHalfSignUps'
    BY <1>3 DEF IndInv, TablesOK, KeysStayWithTheirUser, NoHalfSignUps, UserExists
  <2>4. QED
    BY <2>1, <2>2, <2>3 DEF TablesOK
<1>8. pc'[c] = "idle" /\ \A d \in Clients \ {c} : pc'[d] = pc[d] /\ tx'[d] = tx[d]
  BY <1>3 DEF IndInv, TypeOK
<1>9. /\ \A u \in Users : UserExists(u) => UserExists(u)'
      /\ \A j \in Invites : invites[j].role # NoRole =>
            invites'[j].role # NoRole /\ invites'[j].user = invites[j].user
  BY <1>2, <1>3, <1>4 DEF UserExists
<1>10. \A d \in Clients \ {c} :
          /\ UserPending(d) => ~UserExists(tx[d].user)'
          /\ KeyPending(d) => keys'[tx[d].key] = NoUser
  BY <1>3, <1>8 DEF IndInv, ClientOK, SignUpOK, UserExists
<1>11. QED
  BY <1>3, <1>6, <1>7, <1>8, <1>9, <1>10, OthersStep

\* Time passes for an invite.
LEMMA ExpireStep ==
    ASSUME IndInv, NEW i \in Invites, Expire(i)
    PROVE  IndInv'
<1>1. /\ invites' = [invites EXCEPT ![i].expired = TRUE]
      /\ UNCHANGED <<orgs, users, keys, pc, tx, begun, joined, redeemed>>
  BY DEF Expire
<1>2. \A j \in Invites : /\ invites'[j].user = invites[j].user
                         /\ invites'[j].role = invites[j].role
                         /\ invites'[j].used = invites[j].used
  BY <1>1 DEF IndInv, TypeOK
<1>3. TypeOK'
  BY <1>1 DEF IndInv, TypeOK
<1>4. \A c \in Clients : ClientOK(c)'
  BY <1>1, <1>2 DEF IndInv, ClientOK, SignUpOK, AdminOK, UserPending, KeyPending,
                    UserExists, InOrg, SelfDemotion
<1>5. Exclusive'
  BY <1>1 DEF IndInv, Exclusive, UserPending, KeyPending
<1>6. TablesOK'
  BY <1>1, <1>2 DEF IndInv, TablesOK, InvitesOK, InvitesRedeemOnce,
                    KeysStayWithTheirUser, NoHalfSignUps, UserExists
<1>7. QED
  BY <1>3, <1>4, <1>5, <1>6 DEF IndInv

\* A role is changed, or a user revoked: every user goes on to exist.
LEMMA UpdateUserStep ==
    ASSUME IndInv, NEW c \in Clients, UpdateUser(c)
    PROVE  IndInv'
<1> DEFINE t == tx[c]
<1>1. /\ pc[c] = "update" /\ t.user \in Users /\ UserExists(t.user)
      /\ t.kind = "role" => t.role \in Roles
  BY DEF UpdateUser, IndInv, ClientOK, AdminOK, InOrg
<1>2. /\ UNCHANGED <<orgs, keys, invites, joined, redeemed, begun>>
      /\ pc' = [pc EXCEPT ![c] = "idle"] /\ tx' = [tx EXCEPT ![c] = Blank]
  BY DEF UpdateUser, Finish
<1>3. \/ t.kind = "role" /\ users' = [users EXCEPT ![t.user].role = t.role]
      \/ users' = [users EXCEPT ![t.user].revoked = TRUE]
  BY DEF UpdateUser
<1>4. users' \in [Users -> [role : Roles \cup {NoRole}, revoked : BOOLEAN]]
  <2>1. CASE t.kind = "role" /\ users' = [users EXCEPT ![t.user].role = t.role]
    BY <1>1, <2>1 DEF IndInv, TypeOK
  <2>2. CASE users' = [users EXCEPT ![t.user].revoked = TRUE]
    BY <1>1, <2>2 DEF IndInv, TypeOK
  <2>3. QED
    BY <1>3, <2>1, <2>2
<1>5. \A u \in Users : users'[u].role # NoRole <=> users[u].role # NoRole
  <2>1. users[t.user].role # NoRole
    BY <1>1 DEF UserExists
  <2>2. CASE t.kind = "role" /\ users' = [users EXCEPT ![t.user].role = t.role]
    BY <1>1, <2>1, <2>2 DEF IndInv, TypeOK, Roles, NoRole
  <2>3. CASE users' = [users EXCEPT ![t.user].revoked = TRUE]
    BY <1>1, <2>3 DEF IndInv, TypeOK
  <2>4. QED
    BY <1>3, <2>2, <2>3
<1>6. TypeOK'
  <2>1. pc' \in [Clients -> Steps] /\ tx' \in [Clients -> Request]
    BY <1>2, BlankIsARequest DEF IndInv, TypeOK, Steps
  <2>2. QED
    BY <1>2, <1>4, <2>1 DEF IndInv, TypeOK
<1>7. pc'[c] = "idle" /\ \A d \in Clients \ {c} : pc'[d] = pc[d] /\ tx'[d] = tx[d]
  BY <1>2 DEF IndInv, TypeOK
<1>8. TablesOK'
  <2>1. InvitesOK' /\ KeysStayWithTheirUser'
    BY <1>2 DEF IndInv, TablesOK, InvitesOK, KeysStayWithTheirUser
  <2>2. InvitesRedeemOnce'
    <3>1. \A i \in Invites : invites[i].used => invites[i].user \in Users
      BY DEF IndInv, TablesOK, InvitesOK
    <3>2. QED
      BY <1>2, <1>5, <3>1 DEF IndInv, TablesOK, InvitesRedeemOnce, UserExists
  <2>3. NoHalfSignUps'
    <3>1. \A o \in orgs, e \in Emails : <<o, e>> \in Users
      BY DEF IndInv, TypeOK, Users
    <3>2. QED
      BY <1>2, <1>5, <3>1 DEF IndInv, TablesOK, NoHalfSignUps, UserExists
  <2>4. QED
    BY <2>1, <2>2, <2>3 DEF TablesOK
<1>9. \A d \in Clients \ {c} :
          /\ UserPending(d) => ~UserExists(tx[d].user)'
          /\ KeyPending(d) => keys'[tx[d].key] = NoUser
  <2> SUFFICES ASSUME NEW d \in Clients, d # c
               PROVE  /\ UserPending(d) => ~UserExists(tx[d].user)'
                      /\ KeyPending(d) => keys'[tx[d].key] = NoUser
    OBVIOUS
  <2>1. /\ UserPending(d) => tx[d].user \in Users /\ ~UserExists(tx[d].user)
        /\ KeyPending(d) => keys[tx[d].key] = NoUser
    BY DEF IndInv, ClientOK, SignUpOK, UserPending, SignUpSteps
  <2>2. QED
    BY <1>2, <1>5, <1>7, <2>1 DEF UserExists
<1>10. \A u \in Users : UserExists(u) => UserExists(u)'
  BY <1>5 DEF UserExists
<1>11. QED
  BY <1>2, <1>6, <1>7, <1>8, <1>9, <1>10, OthersStep

------------------------------------------------------------------------------
(* Administration.                                                         *)

\* POST /v1/admin/invites, and the role or the revocation of a user.
LEMMA AdminBegins ==
    ASSUME IndInv, NEW c \in Clients, NEW f \in SSHKeys,
           \/ \E e \in Emails, r \in Roles : CreateInvite(c, f, e, r)
           \/ \E u \in Users, r \in Roles : ChangeRole(c, f, u, r)
           \/ \E u \in Users : Revoke(c, f, u)
    PROVE  IndInv'
<1>1. ASSUME Authorised(f)
      PROVE  keys[f] \in Users /\ UserExists(keys[f]) /\ keys[f][1] \in orgs /\ keys[f][1] \in Orgs
  <2>1. keys[f] \in Users /\ UserExists(keys[f])
    BY <1>1 DEF Authorised, IsAdmin, Active, IndInv, TypeOK
  <2>2. QED
    BY <2>1 DEF IndInv, TypeOK, TablesOK, NoHalfSignUps
<1>2. ASSUME NEW e \in Emails, NEW r \in Roles, CreateInvite(c, f, e, r) PROVE IndInv'
  <2> DEFINE t == [Blank EXCEPT !.kind = "invite", !.caller = keys[f],
                              !.user = <<keys[f][1], e>>, !.role = r]
  <2>1. keys[f] \in Users /\ keys[f][1] \in orgs /\ keys[f][1] \in Orgs
    BY <1>1, <1>2 DEF CreateInvite
  <2>2. <<keys[f][1], e>> \in Users
    BY <2>1 DEF Users
  <2>3. t \in Request /\ t.user = <<keys[f][1], e>> /\ t.role = r
    BY <2>1, <2>2 DEF Blank, Request, Kinds, Roles
  <2>4. Start(c, "invite", t)
    BY <1>2 DEF CreateInvite
  <2> HIDE DEF t
  <2>5. orgs' = orgs /\ t.user[1] \in orgs
    BY <2>1, <2>3, <2>4 DEF Start, tables
  <2>6. pc'[c] = "invite" /\ tx'[c] = t => SignUpOK(c)' /\ AdminOK(c)'
    BY <2>2, <2>3, <2>5 DEF SignUpOK, AdminOK, UserPending, KeyPending, SignUpSteps
  <2>7. QED
    BY <2>3, <2>4, <2>6, StartStep
<1>3. ASSUME NEW u \in Users, NEW r \in Roles, ChangeRole(c, f, u, r) PROVE IndInv'
  <2> DEFINE t == [Blank EXCEPT !.kind = "role", !.caller = keys[f], !.user = u, !.role = r]
  <2>1. keys[f] \in Users
    BY <1>1, <1>3 DEF ChangeRole
  <2>2. /\ t \in Request /\ t.kind = "role" /\ t.user = u /\ t.role = r
        /\ t.caller = keys[f]
    BY <2>1 DEF Blank, Request, Kinds, Roles
  <2>3. Start(c, "load", t)
    BY <1>3 DEF ChangeRole
  <2> HIDE DEF t
  <2>4. pc'[c] = "load" /\ tx'[c] = t => SignUpOK(c)' /\ AdminOK(c)'
    BY <2>1, <2>2 DEF SignUpOK, AdminOK, UserPending, KeyPending, SignUpSteps
  <2>5. QED
    BY <2>2, <2>3, <2>4, StartStep
<1>4. ASSUME NEW u \in Users, Revoke(c, f, u) PROVE IndInv'
  <2> DEFINE t == [Blank EXCEPT !.kind = "revoke", !.caller = keys[f], !.user = u]
  <2>1. keys[f] \in Users /\ u # keys[f]
    BY <1>1, <1>4 DEF Revoke
  <2>2. /\ t \in Request /\ t.kind = "revoke" /\ t.user = u /\ t.caller = keys[f]
    BY <2>1 DEF Blank, Request, Kinds
  <2>3. Start(c, "load", t)
    BY <1>4 DEF Revoke
  <2> HIDE DEF t
  <2>4. pc'[c] = "load" /\ tx'[c] = t => SignUpOK(c)' /\ AdminOK(c)'
    BY <2>1, <2>2 DEF SignUpOK, AdminOK, UserPending, KeyPending, SignUpSteps
  <2>5. QED
    BY <2>2, <2>3, <2>4, StartStep
<1>5. QED
  BY <1>2, <1>3, <1>4

\* loadInOrg, and the check of a demotion of oneself.
LEMMA LoadTargetStep ==
    ASSUME IndInv, NEW c \in Clients, LoadTarget(c)
    PROVE  IndInv'
<1>1. CASE Abort(c)
  BY <1>1, AbortStep
<1>2. ASSUME GoTo(c, "update"), InOrg(c), ~SelfDemotion(c) PROVE IndInv'
  <2>1. "update" \in Steps /\ pc[c] = "load" /\ AdminOK(c)
    BY DEF Steps, LoadTarget, IndInv, ClientOK
  <2>2. pc'[c] = "update" /\ tx'[c] = tx[c] => ClientOK(c)'
    BY <1>2, <2>1 DEF ClientOK, SignUpOK, AdminOK, UserPending, KeyPending, SignUpSteps,
                      InOrg, SelfDemotion, UserExists, GoTo, tables
  <2>3. pc'[c] = "update"
    BY <1>2, Moved DEF GoTo
  <2>4. ~UserPending(c)' /\ ~KeyPending(c)'
    BY <2>3 DEF UserPending, KeyPending
  <2>5. QED
    BY <1>2, <2>1, <2>2, <2>4, GoToStep
<1>3. QED
  BY <1>1, <1>2 DEF LoadTarget

------------------------------------------------------------------------------
(* The theorems.                                                           *)

LEMMA InitOK == Init => IndInv
<1> SUFFICES ASSUME Init PROVE IndInv
  OBVIOUS
<1>1. TypeOK
  BY BlankIsARequest, MaxRequestsAssumption DEF Init, TypeOK, Steps
<1>2. \A c \in Clients : pc[c] = "idle"
  BY DEF Init
<1>3. (\A c \in Clients : ClientOK(c)) /\ Exclusive
  BY <1>2 DEF ClientOK, SignUpOK, AdminOK, Exclusive, UserPending, KeyPending, SignUpSteps
<1>4. TablesOK
  BY DEF Init, TablesOK, InvitesOK, InvitesRedeemOnce, KeysStayWithTheirUser, NoHalfSignUps,
         UserExists
<1>5. QED
  BY <1>1, <1>3, <1>4 DEF IndInv

LEMMA NextOK == IndInv /\ [Next]_vars => IndInv'
<1> SUFFICES ASSUME IndInv, [Next]_vars PROVE IndInv'
  OBVIOUS
<1>1. ASSUME NEW c \in Clients, SignUp(c) PROVE IndInv'
  <2>1. CASE Commit(c)
    BY <2>1, CommitStep
  <2>2. CASE Lookup(c)
    BY <2>2, LookupStep
  <2>3. CASE LookupFails(c)
    BY <2>3, AbortStep DEF LookupFails
  <2>4. QED
    BY <1>1, <2>1, <2>2, <2>3, SignUpBegins, InsertsStep DEF SignUp
<1>2. ASSUME NEW c \in Clients, Administer(c) PROVE IndInv'
  BY <1>2, AdminBegins, InsertInviteStep, LoadTargetStep, UpdateUserStep DEF Administer
<1>3. ASSUME NEW c \in Clients, Fail(c) PROVE IndInv'
  BY <1>3, AbortStep DEF Fail
<1>4. ASSUME NEW i \in Invites, Expire(i) PROVE IndInv'
  BY <1>4, ExpireStep
<1>5. CASE UNCHANGED vars
  BY <1>5 DEF vars, IndInv, TypeOK, ClientOK, SignUpOK, AdminOK, Exclusive, TablesOK,
              InvitesOK, InvitesRedeemOnce, KeysStayWithTheirUser, NoHalfSignUps,
              UserPending, KeyPending, UserExists, InOrg, SelfDemotion
<1>6. QED
  BY <1>1, <1>2, <1>3, <1>4, <1>5 DEF Next

\* The inductive invariant holds: open sign-ups name users and keys nobody
\* has, no two of them the same, and an invite's user is in an organisation.
THEOREM IndInvHolds == Spec => []IndInv
BY InitOK, NextOK, PTL DEF Spec

\* Every variable keeps its type.
THEOREM TypeCorrect == Spec => []TypeOK
<1>1. IndInv => TypeOK
  BY DEF IndInv
<1>2. QED
  BY <1>1, IndInvHolds, PTL

\* However many people redeem an invite at once, it makes one user
\* (invites.go:100).
THEOREM InvitesAreRedeemedOnce == Spec => []InvitesRedeemOnce
<1>1. IndInv => InvitesRedeemOnce
  BY DEF IndInv, TablesOK
<1>2. QED
  BY <1>1, IndInvHolds, PTL

\* No sign-up takes a registered key over (auth.go:87, invites.go:125).
THEOREM KeysAlwaysStay == Spec => []KeysStayWithTheirUser
<1>1. IndInv => KeysStayWithTheirUser
  BY DEF IndInv, TablesOK
<1>2. QED
  BY <1>1, IndInvHolds, PTL

\* Organisation, user and key are there together or not at all.
THEOREM SignUpIsAtomic == Spec => []NoHalfSignUps
<1>1. IndInv => NoHalfSignUps
  BY DEF IndInv, TablesOK
<1>2. QED
  BY <1>1, IndInvHolds, PTL

\* Users are written by a committed sign-up and by UPDATE, keys by a committed
\* sign-up only.
LEMMA WritersOfUsers ==
    ASSUME Next
    PROVE  \/ \E c \in Clients : Commit(c)
           \/ UNCHANGED keys /\ \E c \in Clients : UpdateUser(c)
           \/ UNCHANGED <<users, keys>>
<1>1. CASE \E c \in Clients : SignUp(c)
  <2>1. PICK c \in Clients : SignUp(c)
    BY <1>1
  <2>2. Commit(c) \/ UNCHANGED <<users, keys>>
    BY <2>1 DEF SignUp, Register, Consume, CheckSlug, Lookup, LookupFails, InsertOrg,
                InsertUser, InsertKey, MarkUsed, Start, GoTo, Abort, tables
  <2>3. QED
    BY <2>2
<1>2. CASE \E c \in Clients : Administer(c)
  <2>1. PICK c \in Clients : Administer(c)
    BY <1>2
  <2>2. UpdateUser(c) \/ UNCHANGED <<users, keys>>
    BY <2>1 DEF Administer, CreateInvite, ChangeRole, Revoke, InsertInvite, LoadTarget,
                Start, GoTo, Abort, tables
  <2>3. UpdateUser(c) => UNCHANGED keys
    BY DEF UpdateUser
  <2>4. QED
    BY <2>2, <2>3
<1>3. CASE \E c \in Clients : Fail(c)
  BY <1>3 DEF Fail, Abort, tables
<1>4. CASE \E i \in Invites : Expire(i)
  BY <1>4 DEF Expire
<1>5. QED
  BY <1>1, <1>2, <1>3, <1>4 DEF Next

\* Only UPDATE changes a user that exists, and its target was found in its
\* caller's organisation (users.go:54).
LEMMA UserChanges ==
    ASSUME IndInv, Next, NEW u \in Users, UserExists(u), users'[u] # users[u]
    PROVE  \E c \in Clients : UpdateUser(c) /\ tx[c].user = u
<1>1. PICK c \in Clients : Commit(c) \/ UpdateUser(c)
  BY WritersOfUsers
<1>2. CASE Commit(c)
  <2>1. tx[c].user # u
    BY <1>2 DEF Commit, IndInv, ClientOK, SignUpOK, UserPending
  <2>2. QED
    BY <1>2, <2>1 DEF Commit, IndInv, TypeOK
<1>3. CASE UpdateUser(c)
  BY <1>3 DEF UpdateUser, IndInv, TypeOK
<1>4. QED
  BY <1>1, <1>2, <1>3

\* A request changes users of its caller's organisation only.
THEOREM OrgsAreSeparate == Spec => ChangesStayInOrg
<1>1. ASSUME IndInv, [Next]_vars, NEW u \in Users, UserExists(u), users'[u] # users[u]
      PROVE  \E c \in Clients : pc[c] = "update" /\ tx[c].caller[1] = u[1]
  <2>1. Next
    BY <1>1 DEF vars
  <2>2. PICK c \in Clients : UpdateUser(c) /\ tx[c].user = u
    BY <1>1, <2>1, UserChanges
  <2>3. pc[c] = "update" /\ InOrg(c)
    BY <1>1, <2>2 DEF UpdateUser, IndInv, ClientOK, AdminOK
  <2>4. QED
    BY <2>2, <2>3 DEF InOrg
<1>2. IndInv /\ [Next]_vars =>
        [\A u \in Users : UserExists(u) /\ users'[u] # users[u] =>
             \E c \in Clients : pc[c] = "update" /\ tx[c].caller[1] = u[1]]_vars
  BY <1>1
<1>3. QED
  BY <1>2, IndInvHolds, PTL DEF Spec, ChangesStayInOrg

\* An organisation loses its last admin only to a caller that stopped being
\* one after it was authorised (users.go:46-85).
THEOREM FreshCallersDoNotLockOut == Spec => OnlyStaleCallersLockOut
<1>1. ASSUME IndInv, [Next]_vars, NEW o \in orgs, HasAdmin(o), ~HasAdmin(o)'
      PROVE  \E c \in Clients : /\ pc[c] = "update"
                                /\ tx[c].caller[1] = o
                                /\ ~IsAdmin(tx[c].caller)
  <2>1. PICK e \in Emails : IsAdmin(<<o, e>>)
    BY <1>1 DEF HasAdmin
  <2> DEFINE u == <<o, e>>
  <2>2. u \in Users /\ UserExists(u) /\ users[u].role = "admin" /\ ~users[u].revoked
    BY <1>1, <2>1 DEF IsAdmin, Active, IndInv, TypeOK, Users
  <2>3. \A x \in Emails : ~IsAdmin(<<o, x>>)'
    BY <1>1 DEF HasAdmin
  <2>4. users'[u] # users[u]
    BY <2>1, <2>2, <2>3 DEF IsAdmin, Active, UserExists
  <2>5. Next
    BY <1>1, <2>4 DEF vars
  <2>6. PICK c \in Clients : UpdateUser(c) /\ tx[c].user = u
    BY <1>1, <2>2, <2>4, <2>5, UserChanges
  <2>7. PICK a \in Users :
           /\ a = tx[c].caller /\ a[1] = o
           /\ pc[c] = "update" /\ ~SelfDemotion(c)
           /\ tx[c].kind = "role" \/ (tx[c].kind = "revoke" /\ u # a)
    BY <1>1, <2>6 DEF UpdateUser, IndInv, ClientOK, AdminOK, InOrg
  <2>8. ASSUME IsAdmin(a) PROVE FALSE
    <3>1. a[2] \in Emails /\ a = <<o, a[2]>>
      BY <2>7 DEF Users
    <3>2. CASE a # u
      <4>1. users'[a] = users[a]
        BY <1>1, <2>6, <2>7, <3>2 DEF UpdateUser, IndInv, TypeOK
      <4>2. users[a].role = "admin" /\ ~users[a].revoked /\ users[a].role # NoRole
        BY <2>8 DEF IsAdmin, Active, UserExists
      <4>3. IsAdmin(<<o, a[2]>>)'
        BY <3>1, <4>1, <4>2 DEF IsAdmin, Active, UserExists
      <4>4. QED
        BY <2>3, <3>1, <4>3
    <3>3. CASE a = u
      <4>1. tx[c].kind = "role" /\ tx[c].role = "admin"
        BY <2>6, <2>7, <3>3 DEF SelfDemotion
      <4>2. users' = [users EXCEPT ![u].role = "admin"]
        BY <2>6, <4>1 DEF UpdateUser
      <4>3. users'[u].role = "admin" /\ users'[u].revoked = users[u].revoked
        BY <1>1, <2>2, <4>2 DEF IndInv, TypeOK
      <4>4. IsAdmin(u)'
        BY <2>2, <4>3 DEF IsAdmin, Active, UserExists, NoRole
      <4>5. QED
        BY <2>3, <4>4
    <3>4. QED
      BY <3>2, <3>3
  <2>9. QED
    BY <2>7, <2>8
<1>2. IndInv /\ [Next]_vars =>
        [\A o \in orgs : HasAdmin(o) /\ ~HasAdmin(o)' =>
             \E c \in Clients : /\ pc[c] = "update"
                                /\ tx[c].caller[1] = o
                                /\ ~IsAdmin(tx[c].caller)]_vars
  BY <1>1
<1>3. QED
  BY <1>2, IndInvHolds, PTL DEF Spec, OnlyStaleCallersLockOut

------------------------------------------------------------------------------
(* The refinement of Membership.  Two things IndInv does not say are       *)
(* needed: a sign-up that founds an organisation is the only one that does *)
(* (slugs are unique) and makes an admin, one that consumes an invite      *)
(* takes the role from it; and who administers is a user.                  *)

FoundsOK(c) ==
    /\ pc[c] \in SignUpSteps =>
         tx[c].role = IF tx[c].kind = "register" THEN "admin" ELSE invites[tx[c].invite].role
    /\ OrgPending(c) => tx[c].user[1] \notin orgs
    /\ pc[c] \in {"load", "update"} => UserExists(tx[c].caller)

OneFounder ==
    \A c, d \in Clients : c # d =>
        ~(OrgPending(c) /\ OrgPending(d) /\ tx[c].user[1] = tx[d].user[1])

KeysOfUsers == \A f \in SSHKeys : keys[f] # NoUser => UserExists(keys[f])

FounderInv == (\A c \in Clients : FoundsOK(c)) /\ OneFounder /\ KeysOfUsers

\* A step of c, after which there are the users and the invites there were
\* before it, and no organisation that another sign-up is about to found.
LEMMA FounderStep ==
    ASSUME IndInv, FounderInv, NEW c \in Clients, FoundsOK(c)', KeysOfUsers',
           \A d \in Clients \ {c} : pc'[d] = pc[d] /\ tx'[d] = tx[d],
           \A u \in Users : UserExists(u) => UserExists(u)',
           \A i \in Invites : invites[i].role # NoRole => invites'[i].role = invites[i].role,
           \A d \in Clients \ {c} : OrgPending(d) =>
               /\ tx[d].user[1] \notin orgs'
               /\ OrgPending(c)' => tx'[c].user[1] # tx[d].user[1]
    PROVE  FounderInv'
<1>1. ASSUME NEW d \in Clients, d # c PROVE FoundsOK(d)'
  <2>1. /\ FoundsOK(d) /\ SignUpOK(d) /\ AdminOK(d)
        /\ pc'[d] = pc[d] /\ tx'[d] = tx[d]
    BY <1>1 DEF FounderInv, IndInv, ClientOK
  <2>2. OrgPending(d)' <=> OrgPending(d)
    BY <2>1 DEF OrgPending
  <2>3. pc[d] \in SignUpSteps /\ tx[d].kind # "register" =>
          /\ tx[d].invite \in Invites
          /\ invites'[tx[d].invite].role = invites[tx[d].invite].role
    BY <2>1 DEF SignUpOK
  <2>4. pc[d] \in {"load", "update"} => UserExists(tx[d].caller)'
    BY <2>1 DEF AdminOK, FoundsOK
  <2>5. OrgPending(d) => tx[d].user[1] \notin orgs'
    BY <1>1
  <2>6. QED
    BY <2>1, <2>2, <2>3, <2>4, <2>5 DEF FoundsOK, UserExists
<1>2. OneFounder'
  <2> SUFFICES ASSUME NEW a \in Clients, NEW d \in Clients, a # d,
                      OrgPending(a)', OrgPending(d)', tx'[a].user[1] = tx'[d].user[1]
               PROVE  FALSE
    BY DEF OneFounder
  <2>1. CASE a # c /\ d # c
    BY <2>1 DEF FounderInv, OneFounder, OrgPending
  <2>2. CASE a = c
    <3>1. OrgPending(d) /\ tx'[d] = tx[d]
      BY <2>2 DEF OrgPending
    <3>2. QED
      BY <2>2, <3>1
  <2>3. CASE d = c
    <3>1. OrgPending(a) /\ tx'[a] = tx[a]
      BY <2>3 DEF OrgPending
    <3>2. QED
      BY <2>3, <3>1
  <2>4. QED
    BY <2>1, <2>2, <2>3
<1>3. QED
  BY <1>1, <1>2 DEF FounderInv

\* A step of c that leaves the tables alone.
LEMMA LocalFounder ==
    ASSUME IndInv, FounderInv, NEW c \in Clients, UNCHANGED tables, FoundsOK(c)',
           \A d \in Clients \ {c} : pc'[d] = pc[d] /\ tx'[d] = tx[d],
           \A d \in Clients \ {c} : OrgPending(d) /\ OrgPending(c)' =>
               tx'[c].user[1] # tx[d].user[1]
    PROVE  FounderInv'
<1>1. KeysOfUsers'
  BY DEF FounderInv, KeysOfUsers, UserExists, tables
<1>2. /\ \A u \in Users : UserExists(u) => UserExists(u)'
      /\ \A i \in Invites : invites'[i].role = invites[i].role
  BY DEF UserExists, tables
<1>3. \A d \in Clients : OrgPending(d) => tx[d].user[1] \notin orgs'
  BY DEF FounderInv, FoundsOK, tables
<1>4. QED
  BY <1>1, <1>2, <1>3, FounderStep

\* A step of c is one of c alone.
LEMMA OthersStay ==
    ASSUME IndInv, NEW c \in Clients, NEW s, NEW t,
           pc' = [pc EXCEPT ![c] = s], tx' = [tx EXCEPT ![c] = t]
    PROVE  /\ pc'[c] = s /\ tx'[c] = t
           /\ \A d \in Clients \ {c} : pc'[d] = pc[d] /\ tx'[d] = tx[d]
BY DEF IndInv, TypeOK

LEMMA AbortFounder ==
    ASSUME IndInv, FounderInv, NEW c \in Clients, Abort(c)
    PROVE  FounderInv'
<1>1. /\ pc'[c] = "idle" /\ UNCHANGED tables
      /\ \A d \in Clients \ {c} : pc'[d] = pc[d] /\ tx'[d] = tx[d]
  BY OthersStay DEF Abort, Finish
<1>2. FoundsOK(c)' /\ ~OrgPending(c)'
  BY <1>1 DEF FoundsOK, OrgPending, SignUpSteps
<1>3. QED
  BY <1>1, <1>2, LocalFounder

\* The next statement of a request that keeps what it is.
LEMMA GoToFounder ==
    ASSUME IndInv, FounderInv, NEW c \in Clients, NEW s, GoTo(c, s),
           pc[c] \in SignUpSteps \cup {"load"}, pc[c] = "load" <=> s = "update",
           s \in SignUpSteps \cup {"update"},
           s \in {"user", "key", "commit"} /\ tx[c].kind = "register" /\ ~OrgPending(c) =>
               /\ tx[c].user[1] \notin orgs
               /\ \A d \in Clients \ {c} : ~(OrgPending(d) /\ tx[d].user[1] = tx[c].user[1])
    PROVE  FounderInv'
<1>1. /\ pc'[c] = s /\ tx'[c] = tx[c] /\ UNCHANGED tables
      /\ \A d \in Clients \ {c} : pc'[d] = pc[d] /\ tx'[d] = tx[d]
  BY DEF GoTo, IndInv, TypeOK
<1>2. FoundsOK(c)
  BY DEF FounderInv
<1>3. OrgPending(c)' =>
        /\ tx[c].user[1] \notin orgs
        /\ \A d \in Clients \ {c} : ~(OrgPending(d) /\ tx[d].user[1] = tx[c].user[1])
  <2>1. OrgPending(c)' => s \in {"user", "key", "commit"} /\ tx[c].kind = "register"
    BY <1>1 DEF OrgPending
  <2>2. OrgPending(c) =>
          \A d \in Clients \ {c} : ~(OrgPending(d) /\ tx[d].user[1] = tx[c].user[1])
    BY DEF FounderInv, OneFounder
  <2>3. QED
    BY <1>2, <2>1, <2>2 DEF FoundsOK
<1>4. FoundsOK(c)'
  BY <1>1, <1>2, <1>3 DEF FoundsOK, SignUpSteps, UserExists, tables
<1>5. QED
  BY <1>1, <1>3, <1>4, LocalFounder

\* A request that has yet to read anything.
LEMMA StartFounder ==
    ASSUME IndInv, FounderInv, NEW c \in Clients,
           NEW s \in {"slug", "lookup", "invite", "load"}, NEW t, Start(c, s, t),
           s = "slug" => t.kind = "register" /\ t.role = "admin",
           s = "load" => UserExists(t.caller)
    PROVE  FounderInv'
<1>1. /\ pc'[c] = s /\ tx'[c] = t /\ UNCHANGED tables
      /\ \A d \in Clients \ {c} : pc'[d] = pc[d] /\ tx'[d] = tx[d]
  BY OthersStay DEF Start
<1>2. ~OrgPending(c)'
  BY <1>1 DEF OrgPending
<1>3. FoundsOK(c)'
  BY <1>1, <1>2 DEF FoundsOK, SignUpSteps, UserExists, tables
<1>4. QED
  BY <1>1, <1>2, <1>3, LocalFounder

LEMMA SignUpFounder ==
    ASSUME IndInv, FounderInv, NEW c \in Clients, SignUp(c), ~Commit(c)
    PROVE  FounderInv'
<1>1. ASSUME NEW f \in SSHKeys, NEW u \in Users, Register(c, u, f) PROVE FounderInv'
  <2> DEFINE t == [Blank EXCEPT !.kind = "register", !.user = u, !.key = f, !.role = "admin"]
  <2>1. t.kind = "register" /\ t.role = "admin" /\ Start(c, "slug", t)
    BY <1>1 DEF Register, Blank
  <2> HIDE DEF t
  <2>2. QED
    BY <2>1, StartFounder
<1>2. ASSUME NEW f \in SSHKeys, NEW i \in Invites, Consume(c, i, f) PROVE FounderInv'
  <2> DEFINE t == [Blank EXCEPT !.kind = "consume", !.invite = i, !.key = f]
  <2>1. Start(c, "lookup", t)
    BY <1>2 DEF Consume
  <2> HIDE DEF t
  <2>2. QED
    BY <2>1, StartFounder
<1>3. CASE CheckSlug(c) \/ InsertOrg(c)
  <2>1. pc[c] \in SignUpSteps /\ (Abort(c) \/ GoTo(c, "org") \/ GoTo(c, "user"))
    BY <1>3 DEF CheckSlug, InsertOrg, SignUpSteps
  <2>2. GoTo(c, "org") => FounderInv'
    BY <2>1, GoToFounder DEF SignUpSteps
  <2>3. ASSUME GoTo(c, "user"), ~Abort(c), ~GoTo(c, "org") PROVE FounderInv'
    <3>1. InsertOrg(c) /\ ~OrgTaken(c)
      BY <1>3, <2>3 DEF CheckSlug, InsertOrg
    <3>2. /\ tx[c].user[1] \notin orgs
          /\ \A d \in Clients \ {c} : ~(OrgPending(d) /\ tx[d].user[1] = tx[c].user[1])
      BY <3>1 DEF OrgTaken, InsertOrg
    <3>3. QED
      BY <2>1, <2>3, <3>2, GoToFounder DEF SignUpSteps
  <2>4. QED
    BY <2>1, <2>2, <2>3, AbortFounder
<1>4. CASE LookupFails(c)
  BY <1>4, AbortFounder DEF LookupFails
<1>5. CASE Lookup(c)
  <2>1. /\ pc[c] = "lookup" /\ tx[c].kind = "consume" /\ UNCHANGED tables
        /\ pc'[c] = "user" /\ tx'[c].kind = "consume"
        /\ tx'[c].invite = tx[c].invite /\ tx'[c].role = invites[tx[c].invite].role
        /\ \A d \in Clients \ {c} : pc'[d] = pc[d] /\ tx'[d] = tx[d]
    <3>1. /\ pc[c] = "lookup" /\ tx[c].kind = "consume" /\ UNCHANGED tables
          /\ pc' = [pc EXCEPT ![c] = "user"]
          /\ tx' = [tx EXCEPT ![c].user = invites[tx[c].invite].user,
                              ![c].role = invites[tx[c].invite].role]
      BY <1>5 DEF Lookup, IndInv, ClientOK, SignUpOK
    <3>2. tx[c] \in Request /\ tx \in [Clients -> Request] /\ pc \in [Clients -> Steps]
      BY DEF IndInv, TypeOK
    <3>3. tx'[c] = [tx[c] EXCEPT !.user = invites[tx[c].invite].user,
                                 !.role = invites[tx[c].invite].role]
      BY <3>1, <3>2
    <3>4. QED
      BY <3>1, <3>2, <3>3 DEF Request
  <2>2. ~OrgPending(c)'
    BY <2>1 DEF OrgPending
  <2>3. FoundsOK(c)'
    BY <2>1, <2>2 DEF FoundsOK, tables
  <2>4. QED
    BY <2>1, <2>2, <2>3, LocalFounder
<1>6. CASE InsertUser(c) \/ InsertKey(c) \/ MarkUsed(c)
  <2>1. /\ pc[c] \in {"user", "key", "mark"} /\ (pc[c] = "mark" => tx[c].kind = "consume")
        /\ Abort(c) \/ GoTo(c, "key") \/ GoTo(c, "mark") \/ GoTo(c, "commit")
    BY <1>6 DEF InsertUser, InsertKey, MarkUsed, IndInv, ClientOK, SignUpOK
  <2>2. tx[c].kind = "register" => OrgPending(c)
    BY <2>1 DEF OrgPending
  <2>3. ASSUME NEW s \in {"key", "mark", "commit"}, GoTo(c, s) PROVE FounderInv'
    BY <2>1, <2>2, <2>3, GoToFounder DEF SignUpSteps
  <2>4. QED
    BY <2>1, <2>3, AbortFounder
<1>7. QED
  BY <1>1, <1>2, <1>3, <1>4, <1>5, <1>6 DEF SignUp

\* COMMIT of a sign-up: an organisation that is founded is no other's.
LEMMA CommitFounder ==
    ASSUME IndInv, FounderInv, NEW c \in Clients, Commit(c)
    PROVE  FounderInv'
<1> DEFINE t == tx[c]
<1>1. /\ pc[c] = "commit" /\ t.user \in Users /\ t.key \in SSHKeys /\ t.role \in Roles
      /\ t.kind \in {"register", "consume"}
      /\ t.kind = "consume" => t.invite \in Invites
  BY DEF Commit, IndInv, ClientOK, SignUpOK, SignUpSteps
<1>2. /\ users' = [users EXCEPT ![t.user] = [role |-> t.role, revoked |-> FALSE]]
      /\ keys' = [keys EXCEPT ![t.key] = t.user]
      /\ pc'[c] = "idle"
      /\ \A d \in Clients \ {c} : pc'[d] = pc[d] /\ tx'[d] = tx[d]
  BY OthersStay DEF Commit, KeysAfter, Finish
<1>3. FoundsOK(c)' /\ ~OrgPending(c)'
  BY <1>2 DEF FoundsOK, OrgPending, SignUpSteps
<1>4. \A u \in Users : users'[u] = IF u = t.user THEN [role |-> t.role, revoked |-> FALSE]
                                                  ELSE users[u]
  <2>1. users \in [Users -> [role : Roles \cup {NoRole}, revoked : BOOLEAN]]
    BY DEF IndInv, TypeOK
  <2> HIDE DEF t
  <2>2. QED
    BY <1>1, <1>2, <2>1
<1>5. /\ users'[t.user].role # NoRole
      /\ \A u \in Users : UserExists(u) => UserExists(u)'
  BY <1>1, <1>4 DEF UserExists, Roles, NoRole
<1>6. KeysOfUsers'
  <2>1. \A f \in SSHKeys : keys'[f] = IF f = t.key THEN t.user ELSE keys[f]
    BY <1>2 DEF IndInv, TypeOK
  <2>2. \A f \in SSHKeys : keys[f] # NoUser => keys[f] \in Users /\ UserExists(keys[f])
    BY DEF FounderInv, KeysOfUsers, IndInv, TypeOK
  <2> HIDE DEF t
  <2>3. QED
    BY <1>5, <2>1, <2>2 DEF KeysOfUsers, UserExists
<1>7. \A i \in Invites : invites'[i].role = invites[i].role
  <2>1. \/ UNCHANGED invites
        \/ t.invite \in Invites /\ invites' = [invites EXCEPT ![t.invite].used = TRUE]
    BY <1>1 DEF Commit
  <2>2. QED
    BY <2>1 DEF IndInv, TypeOK
<1>8. ASSUME NEW d \in Clients \ {c}, OrgPending(d) PROVE tx[d].user[1] \notin orgs'
  <2>1. tx[d].user[1] \notin orgs
    BY <1>8 DEF FounderInv, FoundsOK
  <2>2. CASE t.kind = "register"
    <3>1. OrgPending(c) /\ orgs' = orgs \cup {t.user[1]}
      BY <1>1, <2>2 DEF Commit, OrgPending
    <3>2. tx[d].user[1] # t.user[1]
      BY <1>8, <3>1 DEF FounderInv, OneFounder
    <3>3. QED
      BY <2>1, <3>1, <3>2
  <2>3. CASE t.kind # "register"
    BY <2>1, <2>3 DEF Commit
  <2>4. QED
    BY <2>2, <2>3
<1>9. QED
  BY <1>2, <1>3, <1>5, <1>6, <1>7, <1>8, FounderStep

\* An administrator is a user.
LEMMA AdminFounder ==
    ASSUME IndInv, FounderInv, NEW c \in Clients, NEW f \in SSHKeys,
           \/ \E e \in Emails, r \in Roles : CreateInvite(c, f, e, r)
           \/ \E u \in Users, r \in Roles : ChangeRole(c, f, u, r)
           \/ \E u \in Users : Revoke(c, f, u)
    PROVE  FounderInv'
<1>1. Authorised(f) => UserExists(keys[f])
  BY DEF Authorised, IsAdmin, Active
<1>2. ASSUME NEW e \in Emails, NEW r \in Roles, CreateInvite(c, f, e, r) PROVE FounderInv'
  <2> DEFINE t == [Blank EXCEPT !.kind = "invite", !.caller = keys[f],
                                !.user = <<keys[f][1], e>>, !.role = r]
  <2>1. Start(c, "invite", t)
    BY <1>2 DEF CreateInvite
  <2> HIDE DEF t
  <2>2. QED
    BY <2>1, StartFounder
<1>3. ASSUME NEW u \in Users, NEW r \in Roles, ChangeRole(c, f, u, r) PROVE FounderInv'
  <2> DEFINE t == [Blank EXCEPT !.kind = "role", !.caller = keys[f], !.user = u, !.role = r]
  <2>1. Start(c, "load", t) /\ UserExists(t.caller)
    BY <1>1, <1>3 DEF ChangeRole, Blank
  <2> HIDE DEF t
  <2>2. QED
    BY <2>1, StartFounder
<1>4. ASSUME NEW u \in Users, Revoke(c, f, u) PROVE FounderInv'
  <2> DEFINE t == [Blank EXCEPT !.kind = "revoke", !.caller = keys[f], !.user = u]
  <2>1. Start(c, "load", t) /\ UserExists(t.caller)
    BY <1>1, <1>4 DEF Revoke, Blank
  <2> HIDE DEF t
  <2>2. QED
    BY <2>1, StartFounder
<1>5. QED
  BY <1>2, <1>3, <1>4

\* The last statement of a request that is not a sign-up.
LEMMA LastFounder ==
    ASSUME IndInv, FounderInv, NEW c \in Clients, Finish(c), UNCHANGED <<orgs, keys>>,
           \A u \in Users : UserExists(u) => UserExists(u)',
           \A i \in Invites : invites[i].role # NoRole => invites'[i].role = invites[i].role
    PROVE  FounderInv'
<1>1. /\ pc'[c] = "idle"
      /\ \A d \in Clients \ {c} : pc'[d] = pc[d] /\ tx'[d] = tx[d]
  BY OthersStay DEF Finish
<1>2. FoundsOK(c)' /\ ~OrgPending(c)'
  BY <1>1 DEF FoundsOK, OrgPending, SignUpSteps
<1>3. KeysOfUsers'
  <2>1. \A f \in SSHKeys : keys[f] \in Users \cup {NoUser}
    BY DEF IndInv, TypeOK
  <2>2. QED
    BY <2>1 DEF FounderInv, KeysOfUsers, UserExists
<1>4. \A d \in Clients : OrgPending(d) => tx[d].user[1] \notin orgs'
  BY DEF FounderInv, FoundsOK
<1>5. QED
  BY <1>1, <1>2, <1>3, <1>4, FounderStep

\* A fresh invite, a user's new role or its revocation: nothing goes away.
LEMMA AdministerFounder ==
    ASSUME IndInv, FounderInv, NEW c \in Clients, Administer(c)
    PROVE  FounderInv'
<1>1. CASE InsertInvite(c)
  <2>1. PICK i \in Invites :
          /\ invites[i].role = NoRole
          /\ invites' = [invites EXCEPT ![i].user = tx[c].user, ![i].role = tx[c].role]
    BY <1>1 DEF InsertInvite
  <2>2. \A j \in Invites : invites[j].role # NoRole => invites'[j] = invites[j]
    BY <2>1 DEF IndInv, TypeOK
  <2>3. QED
    BY <1>1, <2>2, LastFounder DEF InsertInvite, UserExists
<1>2. CASE UpdateUser(c)
  <2>1. pc[c] = "update" /\ tx[c].kind = "role" => tx[c].role \in Roles
    BY DEF IndInv, ClientOK, AdminOK
  <2>2. users \in [Users -> [role : Roles \cup {NoRole}, revoked : BOOLEAN]]
    BY DEF IndInv, TypeOK
  <2>3. \A u \in Users : UserExists(u) => UserExists(u)'
    <3>1. CASE tx[c].kind = "role"
      BY <1>2, <2>1, <2>2, <3>1 DEF UpdateUser, UserExists, Roles, NoRole
    <3>2. CASE tx[c].kind # "role"
      BY <1>2, <2>2, <3>2 DEF UpdateUser, UserExists
    <3>3. QED
      BY <3>1, <3>2
  <2>4. QED
    BY <1>2, <2>3, LastFounder DEF UpdateUser
<1>3. CASE LoadTarget(c)
  <2>1. pc[c] = "load" /\ (Abort(c) \/ GoTo(c, "update"))
    BY <1>3 DEF LoadTarget
  <2>2. GoTo(c, "update") => FounderInv'
    BY <2>1, GoToFounder DEF SignUpSteps
  <2>3. QED
    BY <2>1, <2>2, AbortFounder
<1>4. QED
  BY <1>1, <1>2, <1>3, AdminFounder DEF Administer

LEMMA FounderInit == Init => FounderInv
  BY DEF Init, FounderInv, FoundsOK, OneFounder, KeysOfUsers, OrgPending, SignUpSteps

LEMMA FounderNext == IndInv /\ FounderInv /\ [Next]_vars => FounderInv'
<1> SUFFICES ASSUME IndInv, FounderInv, [Next]_vars PROVE FounderInv'
  OBVIOUS
<1>1. ASSUME NEW c \in Clients, SignUp(c) \/ Administer(c) \/ Fail(c) PROVE FounderInv'
  BY <1>1, SignUpFounder, CommitFounder, AdministerFounder, AbortFounder DEF Fail
<1>2. ASSUME NEW i \in Invites, Expire(i) PROVE FounderInv'
  <2>1. \A j \in Invites : invites'[j].role = invites[j].role
    BY <1>2 DEF Expire, IndInv, TypeOK
  <2>2. \A c \in Clients : FoundsOK(c)'
    <3> SUFFICES ASSUME NEW c \in Clients PROVE FoundsOK(c)'
      OBVIOUS
    <3>1. FoundsOK(c) /\ SignUpOK(c)
      BY DEF FounderInv, IndInv, ClientOK
    <3>2. UNCHANGED <<pc, tx, orgs, users>>
      BY <1>2 DEF Expire
    <3>3. pc[c] \in SignUpSteps /\ tx[c].kind # "register" => tx[c].invite \in Invites
      BY <3>1 DEF SignUpOK
    <3>4. QED
      BY <2>1, <3>1, <3>2, <3>3 DEF FoundsOK, OrgPending, UserExists
  <2>3. QED
    BY <1>2, <2>2 DEF Expire, FounderInv, OneFounder, KeysOfUsers, OrgPending, UserExists
<1>3. CASE UNCHANGED vars
  BY <1>3 DEF vars, FounderInv, FoundsOK, OneFounder, KeysOfUsers, OrgPending, UserExists
<1>4. QED
  BY <1>1, <1>2, <1>3 DEF Next

\* Slugs are founded once, roles are those offered, callers and owners of keys are users.
THEOREM FounderInvHolds == Spec => []FounderInv
  BY IndInvHolds, FounderInit, FounderNext, PTL DEF Spec


\* Membership's users and roles are those of the tables.
LEMMA TeamIsTables ==
    /\ Team!Users = Users /\ Team!Roles = Roles
    /\ \A u : Team!Member(u) <=> UserExists(u)
  BY DEF Team!Users, Users, Team!Roles, Roles, Team!Member, Team!None, UserExists, NoRole

\* An invite as Membership sees it.
Offer(i) == [user |-> invites[i].user, role |-> invites[i].role, spent |-> invites[i].used]

\* What Membership does not tell: requests in flight, and invites that expire.
LEMMA TeamStays ==
    ASSUME UNCHANGED <<users, keys>>, \A i \in Invites : Offer(i)' = Offer(i)
    PROVE  UNCHANGED Team!vars
  BY DEF Offer, Team!vars

\* COMMIT of a registration founds the organisation.
LEMMA CommitFounds ==
    ASSUME IndInv, FounderInv, NEW c \in Clients, Commit(c), tx[c].kind = "register"
    PROVE  \E u \in Users, f \in SSHKeys : Team!Found(u, f)
<1>0. OrgPending(c) /\ UserPending(c) /\ KeyPending(c) /\ pc[c] \in SignUpSteps
  BY DEF Commit, SignUpSteps, OrgPending, UserPending, KeyPending
<1>1. PICK u \in Users, f \in SSHKeys : u = tx[c].user /\ f = tx[c].key
  BY <1>0 DEF IndInv, ClientOK, SignUpOK
<1>2. ~UserExists(u) /\ keys[f] = NoUser
  BY <1>0, <1>1 DEF IndInv, ClientOK, SignUpOK
<1>3. tx[c].role = "admin" /\ u[1] \notin orgs
  BY <1>0, <1>1 DEF FounderInv, FoundsOK
<1>4. \A e \in Emails : ~UserExists(<<u[1], e>>)
  <2>1. \A e \in Emails : <<u[1], e>> \in Users
    BY <1>1 DEF Users
  <2>2. \A v \in Users : UserExists(v) => v[1] \in orgs
    BY DEF IndInv, TablesOK, NoHalfSignUps
  <2>3. QED
    BY <1>3, <2>1, <2>2
<1>5. /\ users' = [users EXCEPT ![u] = [role |-> "admin", revoked |-> FALSE]]
      /\ keys' = [keys EXCEPT ![f] = u] /\ UNCHANGED invites
  BY <1>1, <1>3 DEF Commit, KeysAfter
<1>6. Team!Found(u, f)
  BY <1>2, <1>4, <1>5, TeamIsTables DEF Team!Found, Team!Enter
<1>7. QED
  BY <1>6

\* COMMIT of a sign-up with an invite makes the member it names, once.
LEMMA CommitJoins ==
    ASSUME IndInv, FounderInv, NEW c \in Clients, Commit(c), tx[c].kind # "register"
    PROVE  \E i \in Invites, f \in SSHKeys : Team!Join(i, f)
<1>0. UserPending(c) /\ KeyPending(c) /\ pc[c] \in SignUpSteps /\ tx[c].kind = "consume"
  BY DEF Commit, IndInv, ClientOK, SignUpOK, SignUpSteps, UserPending, KeyPending
<1>1. PICK u \in Users, f \in SSHKeys, i \in Invites :
        u = tx[c].user /\ f = tx[c].key /\ i = tx[c].invite
  BY <1>0 DEF IndInv, ClientOK, SignUpOK
<1>2. /\ ~UserExists(u) /\ keys[f] = NoUser
      /\ invites[i].role # NoRole /\ invites[i].user = u
  BY <1>0, <1>1 DEF IndInv, ClientOK, SignUpOK
<1>3. tx[c].role = invites[i].role
  BY <1>0, <1>1 DEF FounderInv, FoundsOK
<1>4. ~invites[i].used
  BY <1>2 DEF IndInv, TablesOK, InvitesRedeemOnce
<1>5. /\ users' = [users EXCEPT ![u] = [role |-> invites[i].role, revoked |-> FALSE]]
      /\ keys' = [keys EXCEPT ![f] = u]
      /\ invites' = [invites EXCEPT ![i].used = TRUE]
  BY <1>1, <1>3 DEF Commit, KeysAfter
<1> DEFINE offers == [j \in Invites |-> Offer(j)]
<1>6. offers' = [offers EXCEPT ![i].spent = TRUE]
  <2>1. invites \in [Invites -> [user : Users \cup {NoUser}, role : Roles \cup {NoRole},
                                 used : BOOLEAN, expired : BOOLEAN]]
    BY DEF IndInv, TypeOK
  <2>2. \A j \in Invites : Offer(j)' = IF j = i THEN [Offer(j) EXCEPT !.spent = TRUE] ELSE Offer(j)
    BY <1>2, <1>5, <2>1 DEF Offer
  <2>3. QED
    BY <1>2, <2>2
<1>7. offers[i].role # Team!None /\ ~offers[i].spent
  BY <1>2, <1>4 DEF Offer, Team!None, NoRole
<1>8. Team!Enter(offers[i].user, offers[i].role, f)
  BY <1>2, <1>5, TeamIsTables DEF Team!Enter, Offer
<1>9. Team!Join(i, f)
  BY <1>6, <1>7, <1>8 DEF Team!Join, Offer
<1>10. QED
  BY <1>9


\* INSERT of an invite offers its role to its user.
LEMMA InsertOffers ==
    ASSUME IndInv, FounderInv, NEW c \in Clients, InsertInvite(c)
    PROVE  \E i \in Invites, u \in Users, r \in Roles : Team!Offer(i, u, r)
<1> DEFINE offers == [j \in Invites |-> Offer(j)]
<1>1. PICK u \in Users, r \in Roles : u = tx[c].user /\ r = tx[c].role /\ u[1] \in orgs
  BY DEF InsertInvite, IndInv, ClientOK, AdminOK
<1>2. PICK i \in Invites : /\ invites[i].role = NoRole
                           /\ invites' = [invites EXCEPT ![i].user = u, ![i].role = r]
  BY <1>1 DEF InsertInvite
<1>3. offers' = [offers EXCEPT ![i].user = u, ![i].role = r]
  <2>1. invites \in [Invites -> [user : Users \cup {NoUser}, role : Roles \cup {NoRole},
                                 used : BOOLEAN, expired : BOOLEAN]]
    BY DEF IndInv, TypeOK
  <2>2. \A j \in Invites : Offer(j)' = IF j = i THEN [Offer(j) EXCEPT !.user = u, !.role = r]
                                                ELSE Offer(j)
    BY <1>2, <2>1 DEF Offer
  <2>3. QED
    BY <1>2, <2>2
<1>4. offers[i].role = Team!None
  BY <1>2 DEF Offer, Team!None, NoRole
<1>5. \E a \in Users : Team!Colleagues(a, u)
  <2>1. PICK e \in Emails : UserExists(<<u[1], e>>)
    BY <1>1 DEF IndInv, TablesOK, NoHalfSignUps
  <2>2. <<u[1], e>> \in Users
    BY <1>1 DEF Users
  <2>3. QED
    BY <2>1, <2>2, TeamIsTables DEF Team!Colleagues
<1>6. Team!Offer(i, u, r)
  BY <1>3, <1>4, <1>5, TeamIsTables DEF Team!Offer, Offer, InsertInvite
<1>7. QED
  BY <1>6

\* UPDATE sets the role of the target, or revokes it, for a member of its organisation.
LEMMA UpdateAdministers ==
    ASSUME IndInv, FounderInv, NEW c \in Clients, UpdateUser(c)
    PROVE  \E u \in Users : (\E r \in Roles : Team!SetRole(u, r)) \/ Team!Revoke(u)
<1>1. PICK u \in Users, a \in Users :
        /\ u = tx[c].user /\ a = tx[c].caller /\ InOrg(c) /\ ~SelfDemotion(c)
        /\ \/ tx[c].kind = "role" /\ tx[c].role \in Roles
           \/ tx[c].kind = "revoke" /\ u # a
  BY DEF UpdateUser, IndInv, ClientOK, AdminOK
<1>2. UserExists(u) /\ UserExists(a) /\ a[1] = u[1]
  BY <1>1 DEF UpdateUser, FounderInv, FoundsOK, InOrg
<1>3. Team!Member(u) /\ Team!Colleagues(a, u)
  BY <1>2, TeamIsTables DEF Team!Colleagues
<1>4. UNCHANGED <<keys, invites>>
  BY DEF UpdateUser
<1>5. CASE tx[c].kind = "role"
  <2>1. PICK r \in Roles : r = tx[c].role
    BY <1>1, <1>5
  <2>2. users' = [users EXCEPT ![u].role = r] /\ (a = u => r = "admin")
    BY <1>1, <1>5, <2>1 DEF UpdateUser, SelfDemotion
  <2>3. Team!SetRole(u, r)
    BY <1>1, <1>3, <1>4, <2>2, TeamIsTables DEF Team!SetRole
  <2>4. QED
    BY <2>3
<1>6. CASE tx[c].kind # "role"
  <2>1. u # a /\ users' = [users EXCEPT ![u].revoked = TRUE]
    BY <1>1, <1>6 DEF UpdateUser
  <2>2. Team!Revoke(u)
    BY <1>1, <1>3, <1>4, <2>1, TeamIsTables DEF Team!Revoke
  <2>3. QED
    BY <2>2
<1>7. QED
  BY <1>5, <1>6

\* The other statements change nothing that Membership tells.
LEMMA QuietStep ==
    ASSUME Next,
           \A c \in Clients : ~Commit(c) /\ ~InsertInvite(c) /\ ~UpdateUser(c)
    PROVE  /\ UNCHANGED <<users, keys>>
           /\ UNCHANGED invites \/ \E i \in Invites : Expire(i)
<1>1. CASE \E c \in Clients : SignUp(c)
  <2>1. PICK c \in Clients : SignUp(c)
    BY <1>1
  <2>2. QED
    BY <2>1 DEF SignUp, Register, Consume, CheckSlug, Lookup, LookupFails, InsertOrg,
                InsertUser, InsertKey, MarkUsed, Start, GoTo, Abort, tables
<1>2. CASE \E c \in Clients : Administer(c)
  <2>1. PICK c \in Clients : Administer(c)
    BY <1>2
  <2>2. QED
    BY <2>1 DEF Administer, CreateInvite, ChangeRole, Revoke, LoadTarget, Start, GoTo, Abort,
                tables
<1>3. CASE \E c \in Clients : Fail(c)
  BY <1>3 DEF Fail, Abort, tables
<1>4. CASE \E i \in Invites : Expire(i)
  BY <1>4 DEF Expire
<1>5. QED
  BY <1>1, <1>2, <1>3, <1>4 DEF Next

\* Every statement is a step of Membership, or none.
LEMMA TeamStep ==
    ASSUME IndInv, FounderInv, [Next]_vars
    PROVE  [Team!Next]_Team!vars
<1>1. ASSUME NEW c \in Clients, Commit(c) PROVE Team!Next
  BY <1>1, CommitFounds, CommitJoins, TeamIsTables DEF Team!Next
<1>2. ASSUME NEW c \in Clients, InsertInvite(c) PROVE Team!Next
  BY <1>2, InsertOffers, TeamIsTables DEF Team!Next
<1>3. ASSUME NEW c \in Clients, UpdateUser(c) PROVE Team!Next
  BY <1>3, UpdateAdministers, TeamIsTables DEF Team!Next
<1>4. ASSUME \A c \in Clients : ~Commit(c) /\ ~InsertInvite(c) /\ ~UpdateUser(c)
      PROVE  UNCHANGED Team!vars
  <2>1. CASE UNCHANGED <<users, keys, invites>>
    BY <2>1, TeamStays DEF Offer
  <2>2. ASSUME NEW i \in Invites, Expire(i) PROVE UNCHANGED Team!vars
    <3>1. \A j \in Invites : Offer(j)' = Offer(j)
      BY <2>2 DEF Expire, Offer, IndInv, TypeOK
    <3>2. QED
      BY <2>2, <3>1, TeamStays DEF Expire
  <2>3. QED
    BY <1>4, <2>1, <2>2, QuietStep DEF vars
<1>5. QED
  BY <1>1, <1>2, <1>3, <1>4

LEMMA TeamInit == Init => Team!Init
  BY TeamIsTables DEF Init, Team!Init, Team!None, NoRole

\* Every request takes effect at once, as Membership says, or not at all: for
\* any number of requests in flight, whatever their statements are interleaved
\* with and wherever they fail.
THEOREM AccountsAreMembership == Spec => ImplementsMembership
<1>1. Spec => Team!Init
  BY TeamInit DEF Spec
<1>2. IndInv /\ FounderInv /\ [Next]_vars => [Team!Next]_Team!vars
  BY TeamStep
<1>3. QED
  BY <1>1, <1>2, IndInvHolds, FounderInvHolds, PTL
     DEF Spec, ImplementsMembership, Team!Spec


------------------------------------------------------------------------------
(* The sign-up commands.                                                   *)

\* What a command is told is registered, and its request is a sign-up with its key.
SetupInv ==
    /\ SetupTypeOK
    /\ identity # NoIdentity =>
         /\ identity.key \in SSHKeys /\ identity.user # NoUser
         /\ keys[identity.key] = identity.user
    /\ setup.step \in {"answered", "write"} =>
         /\ setup.key \in SSHKeys /\ setup.user # NoUser
         /\ keys[setup.key] = setup.user
    /\ setup.step = "sent" =>
         /\ setup.client \in Clients /\ setup.key \in SSHKeys
         /\ pc[setup.client] \in SignUpSteps \cup {"lookup"}
         /\ tx[setup.client].key = setup.key

\* A registered key stays with its user, whatever statement runs next.
LEMMA RegisteredKeysStay ==
    ASSUME IndInv, [Next]_vars, NEW f \in SSHKeys, keys[f] # NoUser
    PROVE  keys'[f] = keys[f]
<1>1. CASE \E c \in Clients : Commit(c)
  <2>1. PICK c \in Clients : Commit(c)
    BY <1>1
  <2>2. keys[tx[c].key] = NoUser
    BY <2>1 DEF IndInv, ClientOK, SignUpOK, KeyPending, Commit
  <2>3. QED
    BY <2>1, <2>2 DEF Commit, KeysAfter, IndInv, TypeOK
<1>2. CASE ~\E c \in Clients : Commit(c)
  BY <1>2, WritersOfUsers DEF vars
<1>3. QED
  BY <1>1, <1>2

\* One statement of d leaves the other requests alone.
LEMMA OneAtATime ==
    ASSUME IndInv, NEW d \in Clients, SignUp(d) \/ Administer(d) \/ Fail(d)
    PROVE  \A c \in Clients \ {d} : pc'[c] = pc[c] /\ tx'[c] = tx[c]
  BY DEF IndInv, TypeOK, SignUp, Administer, Fail, Register, Consume, CheckSlug, Lookup,
         LookupFails, InsertOrg, InsertUser, InsertKey, MarkUsed, Commit, CreateInvite,
         ChangeRole, Revoke, InsertInvite, LoadTarget, UpdateUser, Start, GoTo, Abort, Finish

\* A sign-up stays a sign-up with its key until it ends, and ends well by its commit.
LEMMA SignUpGoesOn ==
    ASSUME IndInv, NEW c \in Clients, SignUp(c) \/ Administer(c) \/ Fail(c),
           pc[c] \in SignUpSteps \cup {"lookup"}
    PROVE  /\ pc'[c] # "idle" =>
                pc'[c] \in SignUpSteps \cup {"lookup"} /\ tx'[c].key = tx[c].key
           /\ pc[c] = "commit" /\ users' # users => Commit(c)
<1>1. pc[c] \notin {"idle", "invite", "load", "update"}
  BY DEF SignUpSteps
<1>2. tx[c] \in Request /\ pc \in [Clients -> Steps] /\ tx \in [Clients -> Request]
  BY DEF IndInv, TypeOK
<1>3. CASE Lookup(c)
  BY <1>2, <1>3 DEF Lookup, SignUpSteps, Request
<1>4. CASE CheckSlug(c) \/ InsertOrg(c) \/ InsertUser(c) \/ InsertKey(c) \/ MarkUsed(c)
  BY <1>2, <1>4 DEF CheckSlug, InsertOrg, InsertUser, InsertKey, MarkUsed, GoTo, Abort, Finish,
                    SignUpSteps, tables
<1>5. CASE Commit(c) \/ LookupFails(c) \/ Fail(c)
  BY <1>2, <1>5 DEF Commit, LookupFails, Fail, Abort, Finish, tables
<1>6. QED
  BY <1>1, <1>3, <1>4, <1>5 DEF SignUp, Administer, Register, Consume, Start, CreateInvite,
         ChangeRole, Revoke, InsertInvite, LoadTarget, UpdateUser

LEMMA SetupStep ==
    SetupNext => Next \/ UNCHANGED vars
  BY DEF SetupNext, SignUpCmd, RegisterCmd, JoinCmd, Serve, Truncate, Write, GiveUp, Next, SignUp

\* The server of Accounts, whatever the commands of the machine do.
THEOREM SetupIsAccounts == SetupSpec => Spec
<1>1. SetupInit => Init
  BY DEF SetupInit
<1>2. [SetupNext]_setupVars => [Next]_vars
  BY SetupStep DEF setupVars
<1>3. QED
  BY <1>1, <1>2, PTL DEF SetupSpec, Spec

LEMMA SetupInvInit == SetupInit => SetupInv
  BY InitOK DEF SetupInit, SetupInv, SetupTypeOK, NoIdentity, NoSetup, IndInv

LEMMA SetupInvNext == IndInv /\ IndInv' /\ SetupInv /\ [SetupNext]_setupVars => SetupInv'
<1> SUFFICES ASSUME IndInv, IndInv', SetupInv, [SetupNext]_setupVars PROVE SetupInv'
  OBVIOUS
<1>1. TypeOK /\ TypeOK' /\ [Next]_vars
  BY SetupStep DEF IndInv, setupVars
<1>2. \A f \in SSHKeys : keys[f] # NoUser => keys'[f] = keys[f]
  BY <1>1, RegisteredKeysStay
<1>3. CASE SignUpCmd
  <2>1. PICK c \in Clients, f \in SSHKeys, u \in Users \cup {NoUser} :
          /\ setup.step = "idle" /\ UNCHANGED identity
          /\ setup' = [step |-> "sent", client |-> c, key |-> f, user |-> u]
          /\ pc'[c] \in {"slug", "lookup"} /\ tx'[c].key = f
    <3>1. ASSUME NEW c \in Clients, NEW f \in SSHKeys, NEW u \in Users, RegisterCmd(c, f, u)
          PROVE  /\ setup.step = "idle" /\ UNCHANGED identity
                 /\ setup' = [step |-> "sent", client |-> c, key |-> f, user |-> u]
                 /\ pc'[c] \in {"slug", "lookup"} /\ tx'[c].key = f
      BY <1>1, <3>1 DEF RegisterCmd, Begin, Register, Start, TypeOK, Blank
    <3>2. ASSUME NEW c \in Clients, NEW f \in SSHKeys, NEW i \in Invites, JoinCmd(c, f, i)
          PROVE  /\ setup.step = "idle" /\ UNCHANGED identity
                 /\ setup' = [step |-> "sent", client |-> c, key |-> f, user |-> NoUser]
                 /\ pc'[c] \in {"slug", "lookup"} /\ tx'[c].key = f
      BY <1>1, <3>2 DEF JoinCmd, Begin, Consume, Start, TypeOK, Blank
    <3>3. QED
      BY <1>3, <3>1, <3>2 DEF SignUpCmd
  <2>2. SetupTypeOK'
    BY <1>1, <2>1 DEF SetupInv, SetupTypeOK
  <2>3. QED
    BY <1>2, <2>1, <2>2 DEF SetupInv, SignUpSteps
<1>4. CASE Truncate
  BY <1>1, <1>4 DEF Truncate, SetupInv, SetupTypeOK, NoIdentity, vars
<1>5. CASE Write
  <2>1. /\ identity' = [key |-> setup.key, user |-> setup.user] /\ setup.step = "write"
        /\ setup' = NoSetup /\ UNCHANGED vars
    BY <1>5 DEF Write, Saved
  <2>2. SetupTypeOK'
    BY <1>1, <2>1 DEF SetupInv, SetupTypeOK, NoSetup
  <2>3. QED
    BY <2>1, <2>2 DEF SetupInv, NoSetup, vars
<1>6. CASE GiveUp
  BY <1>1, <1>6 DEF GiveUp, SetupInv, SetupTypeOK, NoSetup, vars
<1>7. ASSUME NEW i \in Invites, Expire(i), UNCHANGED <<identity, setup>> PROVE SetupInv'
  BY <1>1, <1>7 DEF Expire, SetupInv, SetupTypeOK
<1>8. ASSUME NEW c \in Clients, Serve(c), setup.step # "sent" \/ setup.client # c
      PROVE  SetupInv'
  <2>1. UNCHANGED <<identity, setup>>
    BY <1>8 DEF Serve
  <2>2. setup.step = "sent" =>
          pc'[setup.client] = pc[setup.client] /\ tx'[setup.client] = tx[setup.client]
    BY <1>8, OneAtATime DEF Serve, SetupInv
  <2>3. QED
    BY <1>1, <1>2, <2>1, <2>2 DEF SetupInv, SetupTypeOK
<1>9. ASSUME NEW c \in Clients, Serve(c), setup.step = "sent", setup.client = c
      PROVE  SetupInv'
  <2>1. /\ SignUp(c) \/ Administer(c) \/ Fail(c)
        /\ setup' = IF Answer(c) = "idle" THEN NoSetup
                    ELSE [setup EXCEPT !.step = Answer(c), !.user = tx[c].user]
        /\ UNCHANGED identity
    BY <1>9 DEF Serve
  <2>2. pc[c] \in SignUpSteps \cup {"lookup"} /\ tx[c].key = setup.key /\ setup.key \in SSHKeys
    BY <1>9 DEF SetupInv
  <2>3. /\ pc'[c] # "idle" =>
             pc'[c] \in SignUpSteps \cup {"lookup"} /\ tx'[c].key = tx[c].key
        /\ pc[c] = "commit" /\ users' # users => Commit(c)
    BY <2>1, <2>2, SignUpGoesOn
  <2>4. tx[c].user \in Users \cup {NoUser}
    BY <1>1 DEF TypeOK, Request
  <2>5. CASE Answer(c) = "idle"
    <3>1. setup' = NoSetup /\ setup'.step = "idle"
      BY <2>1, <2>5 DEF NoSetup
    <3>2. SetupTypeOK'
      BY <1>1, <2>1, <3>1 DEF SetupInv, SetupTypeOK, NoSetup
    <3>3. identity' # NoIdentity =>
            /\ identity'.key \in SSHKeys /\ identity'.user # NoUser
            /\ keys'[identity'.key] = identity'.user
      BY <1>2, <2>1 DEF SetupInv
    <3>4. QED
      BY <3>1, <3>2, <3>3 DEF SetupInv
  <2>6. CASE Answer(c) = "sent"
    <3>1. pc'[c] # "idle"
      BY <2>6 DEF Answer
    <3>2. /\ setup'.step = "sent" /\ setup'.client = c /\ setup'.key = setup.key
          /\ setup' \in [step : {"idle", "sent", "answered", "write"},
                         client : Clients \cup {"-"}, key : SSHKeys \cup {"-"},
                         user : Users \cup {NoUser}]
      BY <1>9, <2>1, <2>4, <2>6 DEF SetupInv, SetupTypeOK
    <3>3. SetupTypeOK'
      BY <1>1, <2>1, <3>2 DEF SetupInv, SetupTypeOK
    <3>4. identity' # NoIdentity =>
            /\ identity'.key \in SSHKeys /\ identity'.user # NoUser
            /\ keys'[identity'.key] = identity'.user
      BY <1>2, <2>1 DEF SetupInv
    <3>5. /\ pc'[c] \in SignUpSteps \cup {"lookup"} /\ tx'[c].key = setup'.key
          /\ setup'.client \in Clients /\ setup'.key \in SSHKeys
      BY <2>2, <2>3, <3>1, <3>2
    <3>6. QED
      BY <3>2, <3>3, <3>4, <3>5 DEF SetupInv
  <2>7. CASE Answer(c) = "answered"
    <3>1. Commit(c)
      BY <2>3, <2>7 DEF Answer
    <3>2. tx[c].user \in Users
      BY <3>1 DEF Commit, IndInv, ClientOK, SignUpOK, SignUpSteps
    <3>3. keys'[setup.key] = tx[c].user /\ tx[c].user # NoUser
      BY <1>1, <2>2, <3>1, <3>2, NoUserAssumption DEF Commit, KeysAfter, TypeOK
    <3>4. /\ setup'.step = "answered" /\ setup'.key = setup.key /\ setup'.user = tx[c].user
          /\ setup' \in [step : {"idle", "sent", "answered", "write"},
                         client : Clients \cup {"-"}, key : SSHKeys \cup {"-"},
                         user : Users \cup {NoUser}]
      BY <1>9, <2>1, <2>4, <2>7 DEF SetupInv, SetupTypeOK
    <3>5. QED
      BY <1>1, <1>2, <2>1, <2>2, <3>3, <3>4 DEF SetupInv, SetupTypeOK
  <2>8. QED
    BY <2>5, <2>6, <2>7 DEF Answer
<1>10. CASE UNCHANGED setupVars
  BY <1>1, <1>10 DEF setupVars, vars, SetupInv, SetupTypeOK
<1>11. QED
  BY <1>3, <1>4, <1>5, <1>6, <1>7, <1>8, <1>9, <1>10 DEF SetupNext

\* Every variable of the machine keeps its type.
THEOREM SetupTypeCorrect == SetupSpec => []SetupTypeOK
<1>1. SetupSpec => []SetupInv
  BY SetupInvInit, SetupInvNext, SetupIsAccounts, IndInvHolds, PTL DEF SetupSpec
<1>2. SetupInv => SetupTypeOK
  BY DEF SetupInv
<1>3. QED
  BY <1>1, <1>2, PTL

\* The identity in config.yaml is registered, whatever was lost on the way.
THEOREM IdentityStaysRegistered == SetupSpec => []IdentityIsRegistered
<1>1. SetupSpec => []SetupInv
  BY SetupInvInit, SetupInvNext, SetupIsAccounts, IndInvHolds, PTL DEF SetupSpec
<1>2. SetupInv => IdentityIsRegistered
  BY DEF SetupInv, IdentityIsRegistered
<1>3. QED
  BY <1>1, <1>2, PTL
=============================================================================

----------------------------- MODULE Membership -----------------------------
(***************************************************************************)
(* What the accounts of the server promise, with no statements and no      *)
(* transactions in sight: who is a member of which organisation in which   *)
(* role, whose each SSH key is, and the invitations, changed in one step   *)
(* by each request that succeeds and by none that fails.                   *)
(*                                                                         *)
(* Somebody becomes a member by founding an organisation that has no       *)
(* members, or by an invitation that was made in it and is spent by that;  *)
(* each time with a key that was nobody's and stays theirs.  Members stay  *)
(* members.  Whether an invitation has expired is not told here: it stops  *)
(* a request that has yet to look at it, not one that has.                 *)
(***************************************************************************)
CONSTANTS Orgs,     \* organisations
          Emails,   \* addresses: one member of an organisation each
          SSHKeys,  \* fingerprints
          Invites,  \* invitations
          Nobody

Users == Orgs \X Emails
Roles == {"admin", "developer"}
None == "none"

VARIABLES members,  \* members[u]: the role of u, and whether u is revoked
          owner,    \* owner[f]: whose key f is
          offers    \* offers[i]: the user and role invited, and whether i is spent

vars == <<members, owner, offers>>

Member(u) == members[u].role # None
Colleagues(a, u) == a[1] = u[1] /\ Member(a)

Init ==
    /\ members = [u \in Users |-> [role |-> None, revoked |-> FALSE]]
    /\ owner = [f \in SSHKeys |-> Nobody]
    /\ offers = [i \in Invites |-> [user |-> Nobody, role |-> None, spent |-> FALSE]]

\* u becomes a member, with the key f.
Enter(u, role, f) ==
    /\ ~Member(u)
    /\ owner[f] = Nobody
    /\ owner' = [owner EXCEPT ![f] = u]
    /\ members' = [members EXCEPT ![u] = [role |-> role, revoked |-> FALSE]]

\* Register: the first member of an organisation is its admin.
Found(u, f) ==
    /\ Enter(u, "admin", f)
    /\ \A e \in Emails : ~Member(<<u[1], e>>)
    /\ UNCHANGED offers

\* Consume: the user and the role are those of the invitation.
Join(i, f) ==
    /\ offers[i].role # None /\ ~offers[i].spent
    /\ Enter(offers[i].user, offers[i].role, f)
    /\ offers' = [offers EXCEPT ![i].spent = TRUE]

\* Create: a fresh invitation to an organisation that has members.
Offer(i, u, role) ==
    /\ offers[i].role = None
    /\ offers' = [offers EXCEPT ![i].user = u, ![i].role = role]
    /\ \E a \in Users : Colleagues(a, u)
    /\ UNCHANGED <<members, owner>>

\* ChangeRole: by a member of the same organisation, who is not demoted by it.
SetRole(u, role) ==
    /\ Member(u)
    /\ members' = [members EXCEPT ![u].role = role]
    /\ \E a \in Users : Colleagues(a, u) /\ (a = u => role = "admin")
    /\ UNCHANGED <<owner, offers>>

\* Revoke: by another member of the same organisation.
Revoke(u) ==
    /\ Member(u)
    /\ members' = [members EXCEPT ![u].revoked = TRUE]
    /\ \E a \in Users : Colleagues(a, u) /\ a # u
    /\ UNCHANGED <<owner, offers>>

\* A request that is refused, fails, or has yet to take effect changes nothing.
Refuse == UNCHANGED vars

Next ==
    \/ Refuse
    \/ \E u \in Users, f \in SSHKeys : Found(u, f)
    \/ \E i \in Invites, f \in SSHKeys : Join(i, f)
    \/ \E i \in Invites, u \in Users, role \in Roles : Offer(i, u, role)
    \/ \E u \in Users : (\E role \in Roles : SetRole(u, role)) \/ Revoke(u)

Spec == Init /\ [][Next]_vars
=============================================================================

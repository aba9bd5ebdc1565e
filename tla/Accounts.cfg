CONSTANTS
    Orgs = {o1, o2}
    Emails = {a, b}
    SSHKeys = {f1, f2, f3}
    Invites = {i1}
    Clients = {c1, c2}
    NoUser = NoUser
    MaxRequests = 5
SPECIFICATION SetupSpec
SYMMETRY Symmetry
INVARIANTS
    IdentityIsRegistered
    InvitesRedeemOnce
PROPERTIES
    ChangesStayInOrg
    OnlyStaleCallersLockOut
    ImplementsMembership
CHECK_DEADLOCK FALSE

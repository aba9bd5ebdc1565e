CONSTANTS
    Orgs = {o1}
    Emails = {a, b}
    SSHKeys = {f1, f2}
    Invites = {i1}
    Clients = {c1, c2}
    NoUser = NoUser
    MaxRequests = 5
SPECIFICATION SetupSpec
INVARIANT NoLockout
CHECK_DEADLOCK FALSE

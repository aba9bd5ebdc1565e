CONSTANTS
    Keys = {k1}
    Clients = {c1}
    MaxRequests = 2
SPECIFICATION Spec
CHECK_DEADLOCK FALSE
INVARIANT UpsertsSucceed

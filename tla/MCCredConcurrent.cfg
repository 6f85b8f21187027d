SPECIFICATION CompetitionSpec
CONSTANTS
    r1 = r1
    r2 = r2
    c1 = c1
    c2 = c2
    k1 = k1
    Requests = {r1, r2}
    Clusters = {c1, c2}
    Keys = {k1}
    NoCluster = NoCluster
    NoKey = NoKey
    FreshKeys = TRUE
    MaxFaults = 0
    Offered = {"get", "update", "revoke"}
INVARIANT NoSharedCredential
INVARIANT ServedToOneCluster
PROPERTY NeverBackInPool
PROPERTY AllocationEnds

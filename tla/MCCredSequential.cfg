SPECIFICATION Spec
CONSTANTS
    r1 = r1
    c1 = c1
    c2 = c2
    k1 = k1
    k2 = k2
    Requests = {r1}
    Clusters = {c1, c2}
    Keys = {k1, k2}
    NoCluster = NoCluster
    NoKey = NoKey
    FreshKeys = TRUE
    MaxFaults = 2
    Offered = {"get", "remove", "delete", "update", "create", "revoke", "drop"}
SYMMETRY Symmetry
INVARIANT IInv
INVARIANT PoolAccounted

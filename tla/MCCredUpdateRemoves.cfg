SPECIFICATION FairSpec
CONSTANTS
    r1 = r1
    c1 = c1
    k1 = k1
    Requests = {r1}
    Clusters = {c1}
    Keys = {k1}
    NoCluster = NoCluster
    NoKey = NoKey
    FreshKeys = TRUE
    MaxFaults = 0
    Offered = {"get", "update", "create"}
PROPERTY UpdateKeepsRecord

SPECIFICATION MCSpec
CONSTANTS
    r1 = r1
    o1 = o1
    o2 = o2
    n1 = n1
    n2 = n2
    g1 = g1
    c1 = c1
    c2 = c2
    v1 = v1
    v2 = v2
    Requests = {r1}
    Objects = {o1, o2}
    Names = {n1, n2}
    Groups = {g1}
    Clusters = {c1, c2}
    Versions = {v1, v2}
    Default = Default
    None = None
    Kinds = {"instance", "secret", "volume"}
    Forces = {TRUE, FALSE}
    Cascades = TRUE
    MaxFaults = 1
    GroupOf <- MCGroupOf
    Owner <- MCOwner
SYMMETRY Symmetry
ACTION_CONSTRAINT FaultsTogether
INVARIANT RecordsKept
INVARIANT ClustersAgree

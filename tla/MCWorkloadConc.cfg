SPECIFICATION Spec
CONSTANTS
    r1 = r1
    r2 = r2
    o1 = o1
    o2 = o2
    n1 = n1
    g1 = g1
    c1 = c1
    v1 = v1
    Requests = {r1, r2}
    Objects = {o1, o2}
    Names = {n1}
    Groups = {g1}
    Clusters = {c1}
    Versions = {v1}
    Default = Default
    None = None
    Kinds = {"volume", "secret"}
    Forces = {FALSE}
    Cascades = FALSE
    MaxFaults = 0
    GroupOf <- MCGroupOf
    Owner <- MCOwner
SYMMETRY Symmetry
INVARIANT RecordsRun
INVARIANT RunningRecorded

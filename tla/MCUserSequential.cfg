SPECIFICATION Spec
CONSTANTS
    r1 = r1
    u1 = u1
    u2 = u2
    t1 = t1
    t2 = t2
    t3 = t3
    g1 = g1
    g2 = g2
    Requests = {r1}
    Users = {u1, u2}
    Tokens = {t1, t2, t3}
    GlobusIDs = {g1, g2}
    Nobody = Nobody
    Portal = Portal
    MaxFaults = 1
    Offered = {"auth", "get", "find", "create", "update", "replace", "delete"}
SYMMETRY Symmetry
INVARIANT AccountsAgree

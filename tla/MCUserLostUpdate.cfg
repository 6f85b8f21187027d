SPECIFICATION Spec
CONSTANTS
    r1 = r1
    r2 = r2
    u1 = u1
    t1 = t1
    t2 = t2
    g1 = g1
    Requests = {r1, r2}
    Users = {u1}
    Tokens = {t1, t2}
    GlobusIDs = {g1}
    Nobody = Nobody
    Portal = Portal
    MaxFaults = 0
    Offered = {"create", "update", "replace"}
SYMMETRY Symmetry
INVARIANT ReplacedTokenNotStored

SPECIFICATION FairSpec
CONSTANTS
    r1 = r1
    r2 = r2
    u1 = u1
    u2 = u2
    t1 = t1
    t2 = t2
    g1 = g1
    g2 = g2
    Requests = {r1, r2}
    Users = {u1, u2}
    Tokens = {t1, t2}
    GlobusIDs = {g1, g2}
    Nobody = Nobody
    Portal = Portal
    MaxFaults = 0
    Offered = {"auth", "create", "replace"}
INVARIANT TokenIdentity
INVARIANT AdminsAppointed
PROPERTY WithdrawalTakesEffect

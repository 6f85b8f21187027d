SPECIFICATION FairSpec
CONSTANTS
    r1 = r1
    r2 = r2
    g1 = g1
    Requests = {r1, r2}
    Groups = {g1}
    All = All
    MaxFaults = 0
    Offered = {"check", "grant", "revoke", "delete"}
INVARIANT OnlyGrantedAdmitted
PROPERTY AccessSettles

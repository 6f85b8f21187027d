SPECIFICATION MCSpec
CONSTANTS
    r1 = r1
    r2 = r2
    u1 = u1
    u2 = u2
    g1 = g1
    g2 = g2
    Requests = {r1, r2}
    Users = {u1, u2}
    Groups = {g1, g2}
    Admin = Admin
    None = None
    MaxFaults = 1
    Offered = {"check", "add", "remove", "create", "edit", "deleteUser", "deleteGroup", "listUsers", "listGroups"}
SYMMETRY Symmetry
INVARIANT MembershipsAgreeAlone
INVARIANT UserListingsComplete
PROPERTY OnlyMembersAdmit

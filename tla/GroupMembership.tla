--------------------------- MODULE GroupMembership ---------------------------
(***************************************************************************)
(* Groups and their members: the group table, the membership items in the  *)
(* user table, and the caches groupCache, userByGroupCache (which every    *)
(* authorization check reads) and groupByUserCache (which lists a user's   *)
(* groups).                                                                *)
(*                                                                         *)
(* Each server thread runs one request at a time, as a sequence of atomic  *)
(* database calls and cache operations that other requests interleave      *)
(* with.  Groups are addressed by ID.  Of a user account only its          *)
(* existence matters here (UserStore has the rest), of a group's record    *)
(* too: names, emails and descriptions never influence membership.         *)
(***************************************************************************)
EXTENDS Naturals, FiniteSets

CONSTANTS
    Requests,   \* server threads
    Users,      \* user IDs
    Groups,     \* group IDs; IDGenerator never issues one twice
    Admin,      \* a caller with the admin flag
    None,       \* the empty ID of the invalid User{} and Group{}
    Offered,    \* the endpoints clients call (all of Ops, or some in an instance)
    MaxFaults   \* bound: database calls that may report failure

ASSUME MembershipAssumption ==
    /\ Admin \notin Users
    /\ None \notin Users \cup Groups
    /\ MaxFaults \in Nat

VARIABLES
    accounts,   \* users whom getUser finds
    groups,     \* group table
    member,     \* membership items <<user, group>> of the user table
    byGroup,    \* userByGroupCache
    byUser,     \* groupByUserCache
    groupCache, \* groupCache
    req,        \* the request each thread is executing
    used,       \* group IDs that were issued
    granted,    \* memberships that were ever stored
    faults      \* database calls that have reported failure

vars == <<accounts, groups, member, byGroup, byUser, groupCache, req, used, granted, faults>>
tables == <<accounts, groups, member>>
caches == <<byGroup, byUser, groupCache>>
history == <<used, granted>>

Ops == {"check", "add", "remove", "create", "edit", "deleteUser", "deleteGroup",
        "listUsers", "listGroups"}

PCs == {"idle", "target", "group", "groupFill", "member", "memberFill",
        "put", "cacheUser", "cacheGroup", "putGroup", "cacheNewGroup",
        "query", "next", "listedGroup", "unUser", "unGroup", "unGroupErase", "dbRemove",
        "removeUser", "uncacheGroup", "removeGroup", "list", "listValid"}

Pairs == Users \X Groups

\* a category of concurrent_multimap: the values present, those among them that
\* have not expired, and whether the category counts as complete
Category(S) == [known : SUBSET S, live : SUBSET S, valid : BOOLEAN]
NoCategory == [known |-> {}, live |-> {}, valid |-> FALSE]
UserIDs == Users \cup {None}
GroupIDs == Groups \cup {None}

insert_or_assign(cat, x) == [cat EXCEPT !.known = @ \cup {x}, !.live = @ \cup {x}]
\* mutant of erase: the category stays without values
eraseValue(cat, x) == [cat EXCEPT !.known = @ \ {x}, !.live = @ \ {x}]
\* the category goes with its last value
erase(cat, x) ==
    IF cat.known \subseteq {x} THEN NoCategory
    ELSE [cat EXCEPT !.known = @ \ {x}, !.live = @ \ {x}]
update_expiration(cat) == IF cat.known = {} THEN cat ELSE [cat EXCEPT !.valid = TRUE]

\* op, by, u, g: the endpoint, its caller and its operands, u and g being the
\* current ones in a loop; todo: what is left of a query's result; act: whether
\* the checks are over; found: what the last lookup of an account or of a group
\* returned
Request == [pc : PCs, op : Ops \cup {"none"}, by : Users \cup {Admin},
            u : UserIDs, g : GroupIDs, todo : SUBSET Pairs, act : BOOLEAN,
            foundUser : BOOLEAN, foundGroup : BOOLEAN]

\* a thread without a request: the last one was answered, with success or not
Idle == [pc |-> "idle", op |-> "none", by |-> Admin, u |-> None, g |-> None,
         todo |-> {}, act |-> FALSE, foundUser |-> FALSE, foundGroup |-> FALSE]

Fault == faults < MaxFaults /\ faults' = faults + 1

Step(r, q) == req' = [req EXCEPT ![r] = q]
Goto(r, pc) == Step(r, [req[r] EXCEPT !.pc = pc])
At(r, pc) == req[r].pc = pc

(***************************************************************************)
(* Where a handler goes on                                                 *)
(***************************************************************************)
\* the checks are over and addUserToGroup runs
Adding(q) == q.act /\ q.op \in {"add", "create"}

\* once the account of user q.u has been looked up: 404, or the next check; the
\* store's addUserToGroup and listUsersByGroup go on whatever they find
AfterTarget(q, ok) ==
    IF q.act
    THEN [q EXCEPT !.pc = IF Adding(q) THEN "put" ELSE "cacheUser", !.foundUser = ok]
    ELSE CASE ok /\ q.op = "add"    -> [q EXCEPT !.pc = "group"]
           [] ok /\ q.op = "remove" -> [q EXCEPT !.pc = "member"]
           [] ok /\ q.op = "deleteUser" -> [q EXCEPT !.pc = "query"]
           [] OTHER                 -> Idle

\* once group q.g has been looked up
AfterGroup(q, ok) ==
    IF q.act
    THEN [q EXCEPT !.pc = CASE Adding(q)        -> "target"
                            [] ~Adding(q) /\ ok -> "listedGroup"
                            [] OTHER            -> "cacheGroup",
                   !.foundGroup = ok]
    ELSE CASE ok /\ q.op = "edit" -> [q EXCEPT !.pc = "putGroup"]
           [] ok /\ q.op # "edit" -> [q EXCEPT !.pc = "member"]
           [] OTHER               -> Idle

\* once the caller is known to be a member of group q.g or an administrator
AfterMember(q) ==
    CASE q.op = "add"         -> [q EXCEPT !.pc = "group", !.act = TRUE]
      [] q.op = "remove"      -> [q EXCEPT !.pc = "unUser", !.act = TRUE]
      [] q.op = "edit"        -> [q EXCEPT !.pc = "group"]
      [] q.op = "deleteGroup" -> [q EXCEPT !.pc = "query", !.act = TRUE]
      [] OTHER                -> Idle

(***************************************************************************)
(* Lookups                                                                 *)
(***************************************************************************)
\* getUser, as far as the account's existence goes
getUser(r) ==
    /\ At(r, "target")
    /\ \/ Step(r, AfterTarget(req[r], req[r].u \in accounts)) /\ UNCHANGED faults
       \/ Fault /\ Step(r, AfterTarget(req[r], FALSE))
    /\ UNCHANGED <<tables, caches, history>>

findGroupByID(r) ==
    LET q == req[r] IN
    /\ At(r, "group")
    /\ \/ groupCache[q.g] = "live" /\ Step(r, AfterGroup(q, TRUE)) /\ UNCHANGED faults
       \/ /\ groupCache[q.g] # "live"
          /\ \/ q.g \in groups /\ Goto(r, "groupFill") /\ UNCHANGED faults
             \/ q.g \notin groups /\ Step(r, AfterGroup(q, FALSE)) /\ UNCHANGED faults
             \/ Fault /\ Step(r, AfterGroup(q, FALSE))
    /\ UNCHANGED <<tables, caches, history>>

cacheFoundGroup(r) ==
    /\ At(r, "groupFill")
    /\ groupCache' = [groupCache EXCEPT ![req[r].g] = "live"]
    /\ Step(r, AfterGroup(req[r], TRUE))
    /\ UNCHANGED <<tables, byGroup, byUser, history, faults>>

CachedMember(u, g) == u \in byGroup[g].live

\* mutant of Asked: addUserToGroup checks nobody
AskedNobody(q) == IF q.op = "add" THEN Admin ELSE q.by
\* the user whose membership decides
Asked(q) == q.by

\* the handler's "!user.admin && !store.userInGroup(user.id,groupID)"
userInGroup(r) ==
    LET q == req[r] IN
    /\ At(r, "member")
    /\ \/ /\ Asked(q) = Admin \/ CachedMember(Asked(q), q.g)
          /\ Step(r, AfterMember(q)) /\ UNCHANGED faults
       \/ /\ Asked(q) # Admin /\ ~CachedMember(Asked(q), q.g)
          /\ \/ <<Asked(q), q.g>> \in member /\ Goto(r, "memberFill") /\ UNCHANGED faults
             \/ <<Asked(q), q.g>> \notin member /\ Step(r, Idle) /\ UNCHANGED faults
             \/ Fault /\ Step(r, Idle)
    /\ UNCHANGED <<tables, caches, history>>

cacheMembership(r) ==
    LET q == req[r] IN
    /\ At(r, "memberFill")
    /\ byGroup' = [byGroup EXCEPT ![q.g] = insert_or_assign(@, Asked(q))]
    /\ Step(r, AfterMember(q))
    /\ UNCHANGED <<tables, byUser, groupCache, history, faults>>

(***************************************************************************)
(* addUserToGroup: the item, then both caches                              *)
(***************************************************************************)
putMembership(r) ==
    LET p == <<req[r].u, req[r].g>> IN
    /\ At(r, "put")
    /\ \/ member' = member \cup {p} /\ Goto(r, "cacheUser") /\ UNCHANGED faults
       \/ Fault /\ member' \in {member, member \cup {p}} /\ Step(r, Idle)
    /\ granted' = granted \cup {p}
    /\ UNCHANGED <<accounts, groups, caches, used>>

\* mutant of cacheUser: addUserToGroup leaves the cache alone
cacheUserListed(r) ==
    LET q == req[r]
        x == IF q.op # "listUsers" THEN {} ELSE IF q.foundUser THEN {q.u} ELSE {None} IN
    /\ At(r, "cacheUser")
    /\ byGroup' = [byGroup EXCEPT ![q.g].known = @ \cup x, ![q.g].live = @ \cup x]
    /\ Goto(r, IF q.op = "listUsers" THEN "next" ELSE "cacheGroup")
    /\ UNCHANGED <<tables, byUser, groupCache, history, faults>>
\* Also a step of listUsersByGroup's loop.  The value is the ID of the user that
\* getUser returned, except that addUserToGroup has the ID it was called with.
cacheUser(r) ==
    LET q == req[r]
        listing == q.op = "listUsers"
        x == IF listing /\ ~q.foundUser THEN None ELSE q.u IN
    /\ At(r, "cacheUser")
    /\ byGroup' = [byGroup EXCEPT ![q.g] = insert_or_assign(@, x)]
    /\ Goto(r, IF listing THEN "next" ELSE "cacheGroup")
    /\ UNCHANGED <<tables, byUser, groupCache, history, faults>>

\* Also a step of listGroupsForUser's loop.  The key is the ID of the user that
\* getUser returned (an entry under the empty ID is never read), the value the
\* group that findGroupByID returned, which may be the invalid one.
cacheGroup(r) ==
    LET q == req[r]
        listing == q.op = "listGroups"
        x == IF q.foundGroup THEN q.g ELSE None IN
    /\ At(r, "cacheGroup")
    /\ byUser' = IF listing \/ q.foundUser
                 THEN [byUser EXCEPT ![q.u] = insert_or_assign(@, x)] ELSE byUser
    /\ Step(r, IF listing THEN [q EXCEPT !.pc = "next"] ELSE Idle)
    /\ UNCHANGED <<tables, byGroup, groupCache, history, faults>>

(***************************************************************************)
(* addGroup and updateGroup: neither has a condition                       *)
(***************************************************************************)
putGroup(r) ==
    LET stored == groups \cup {req[r].g} IN
    /\ At(r, "putGroup")
    /\ \/ groups' = stored /\ Goto(r, "cacheNewGroup") /\ UNCHANGED faults
       \/ Fault /\ groups' \in {groups, stored} /\ Step(r, Idle)
    /\ UNCHANGED <<accounts, member, caches, history>>

\* createGroup then makes its caller the first member
cacheNewGroup(r) ==
    LET q == req[r] IN
    /\ At(r, "cacheNewGroup")
    /\ groupCache' = [groupCache EXCEPT ![q.g] = "live"]
    /\ Step(r, IF q.op = "create" THEN [q EXCEPT !.pc = "group", !.act = TRUE] ELSE Idle)
    /\ UNCHANGED <<tables, byGroup, byUser, history, faults>>

(***************************************************************************)
(* removeUserFromGroup: the caches first, then the item                    *)
(***************************************************************************)
uncacheUser(r) ==
    /\ At(r, "unUser")
    /\ byGroup' = [byGroup EXCEPT ![req[r].g] = erase(@, req[r].u)]
    /\ Goto(r, "unGroup")
    /\ UNCHANGED <<tables, byUser, groupCache, history, faults>>

\* groupCache, expired or not, provides the record to erase in groupByUserCache
findCachedGroup(r) ==
    /\ At(r, "unGroup")
    /\ Goto(r, IF groupCache[req[r].g] = "none" THEN "dbRemove" ELSE "unGroupErase")
    /\ UNCHANGED <<tables, caches, history, faults>>
\* mutant of uncacheGroupOfUser: the group stays in the user's category
uncacheGroupOfUserKept(r) ==
    /\ At(r, "unGroupErase")
    /\ Goto(r, "dbRemove")
    /\ UNCHANGED <<tables, caches, history, faults>>
uncacheGroupOfUser(r) ==
    /\ At(r, "unGroupErase")
    /\ byUser' = [byUser EXCEPT ![req[r].u] = erase(@, req[r].g)]
    /\ Goto(r, "dbRemove")
    /\ UNCHANGED <<tables, byGroup, groupCache, history, faults>>

\* The handler answers, or its loop goes on: deleteUser ignores a failure,
\* removeGroup gives up.
dbRemoveMembership(r) ==
    LET q == req[r]
        p == <<q.u, q.g>>
        next == IF q.op = "remove" THEN Idle ELSE [q EXCEPT !.pc = "next"] IN
    /\ At(r, "dbRemove")
    /\ \/ member' = member \ {p} /\ Step(r, next) /\ UNCHANGED faults
       \/ /\ Fault /\ member' \in {member, member \ {p}}
          /\ Step(r, IF q.op = "deleteGroup" THEN Idle ELSE next)
    /\ UNCHANGED <<accounts, groups, caches, history>>

(***************************************************************************)
(* The loops over the memberships of a user or of a group                  *)
(***************************************************************************)
MembershipsOf(q) ==
    IF q.op \in {"deleteUser", "listGroups"} THEN {p \in member : p[1] = q.u}
    ELSE {p \in member : p[2] = q.g}

\* getUserGroupMemberships, getMembersOfGroup: a failed query looks like no match
queryMemberships(r) ==
    /\ At(r, "query")
    /\ \/ Step(r, [req[r] EXCEPT !.pc = "next", !.todo = MembershipsOf(req[r])])
          /\ UNCHANGED faults
       \/ Fault /\ Goto(r, "next")
    /\ UNCHANGED <<tables, caches, history>>

nextMembership(r) ==
    LET q == req[r] IN
    /\ At(r, "next")
    /\ \E p \in q.todo :
        Step(r, [q EXCEPT !.todo = @ \ {p}, !.u = p[1], !.g = p[2],
                          !.pc = CASE q.op = "listUsers"  -> "target"
                                   [] q.op = "listGroups" -> "group"
                                   [] OTHER               -> "unUser"])
    /\ UNCHANGED <<tables, caches, history, faults>>

endMemberships(r) ==
    LET q == req[r] IN
    /\ At(r, "next")
    /\ q.todo = {}
    /\ Goto(r, CASE q.op = "deleteUser"  -> "removeUser"
                 [] q.op = "deleteGroup" -> "uncacheGroup"
                 [] OTHER                -> "listValid")
    /\ UNCHANGED <<tables, caches, history, faults>>

\* PersistentStore::removeUser
removeUser(r) ==
    LET rest == accounts \ {req[r].u} IN
    /\ At(r, "removeUser")
    /\ \/ accounts' = rest /\ UNCHANGED faults
       \/ Fault /\ accounts' \in {accounts, rest}
    /\ Step(r, Idle)
    /\ UNCHANGED <<groups, member, caches, history>>

uncacheGroup(r) ==
    /\ At(r, "uncacheGroup")
    /\ groupCache' = [groupCache EXCEPT ![req[r].g] = "none"]
    /\ Goto(r, "removeGroup")
    /\ UNCHANGED <<tables, byGroup, byUser, history, faults>>

removeGroup(r) ==
    LET rest == groups \ {req[r].g} IN
    /\ At(r, "removeGroup")
    /\ \/ groups' = rest /\ UNCHANGED faults
       \/ Fault /\ groups' \in {groups, rest}
    /\ Step(r, Idle)
    /\ UNCHANGED <<accounts, member, caches, history>>

(***************************************************************************)
(* listUsersByGroup, listGroupsForUser                                     *)
(***************************************************************************)
Listed(q) == IF q.op = "listUsers" THEN byGroup[q.g] ELSE byUser[q.u]

\* A category that counts as complete is the answer, and so is an empty result.
\* (Expired records in it, which listGroupsForUser omits, are still part of it.)
listMemberships(r) ==
    LET q == req[r] IN
    /\ At(r, "list")
    /\ \/ /\ Listed(q).valid \/ MembershipsOf(q) = {}
          /\ Step(r, Idle) /\ UNCHANGED faults
       \/ /\ ~Listed(q).valid /\ MembershipsOf(q) # {}
          /\ Step(r, [q EXCEPT !.pc = "next", !.todo = MembershipsOf(q), !.act = TRUE])
          /\ UNCHANGED faults
       \/ ~Listed(q).valid /\ Fault /\ Step(r, Idle)
    /\ UNCHANGED <<tables, caches, history>>

cacheListedGroup(r) ==
    /\ At(r, "listedGroup")
    /\ groupCache' = [groupCache EXCEPT ![req[r].g] = "live"]
    /\ Goto(r, "cacheGroup")
    /\ UNCHANGED <<tables, byGroup, byUser, history, faults>>

validateListing(r) ==
    LET q == req[r] IN
    /\ At(r, "listValid")
    /\ IF q.op = "listUsers"
       THEN byGroup' = [byGroup EXCEPT ![q.g] = update_expiration(@)] /\ UNCHANGED byUser
       ELSE byUser' = [byUser EXCEPT ![q.u] = update_expiration(@)] /\ UNCHANGED byGroup
    /\ Step(r, Idle)
    /\ UNCHANGED <<tables, groupCache, history, faults>>

\* CacheRecord::expired, and the expiration time of a category
ExpireMember(g, u) ==
    /\ u \in byGroup[g].live
    /\ byGroup' = [byGroup EXCEPT ![g].live = @ \ {u}]
    /\ UNCHANGED <<tables, byUser, groupCache, req, history, faults>>
ExpireUsersOf(g) ==
    /\ byGroup[g].valid
    /\ byGroup' = [byGroup EXCEPT ![g].valid = FALSE]
    /\ UNCHANGED <<tables, byUser, groupCache, req, history, faults>>
ExpireGroupsOf(u) ==
    /\ byUser[u].valid
    /\ byUser' = [byUser EXCEPT ![u].valid = FALSE]
    /\ UNCHANGED <<tables, byGroup, groupCache, req, history, faults>>
ExpireGroup(g) ==
    /\ groupCache[g] = "live"
    /\ groupCache' = [groupCache EXCEPT ![g] = "expired"]
    /\ UNCHANGED <<tables, byGroup, byUser, req, history, faults>>

(***************************************************************************)
(* Requests                                                                *)
(***************************************************************************)
\* A client sends a request; authenticateUser has accepted its token.
Begin(r, op, pc, by, u, g) ==
    /\ op \in Offered
    /\ At(r, "idle")
    /\ by \in accounts \cup {Admin}
    /\ Step(r, [Idle EXCEPT !.op = op, !.pc = pc, !.by = by, !.u = u, !.g = g])
    /\ UNCHANGED <<tables, caches, faults>>

\* any endpoint that asks whether its caller is a member of a group
checkMembership(r, by, g) == Begin(r, "check", "member", by, None, g) /\ UNCHANGED history
addUserToGroup(r, by, u, g) == Begin(r, "add", "target", by, u, g) /\ UNCHANGED history
removeUserFromGroup(r, by, u, g) == Begin(r, "remove", "target", by, u, g) /\ UNCHANGED history
updateGroup(r, by, g) == Begin(r, "edit", "member", by, None, g) /\ UNCHANGED history
deleteGroup(r, by, g) == Begin(r, "deleteGroup", "group", by, None, g) /\ UNCHANGED history
listUsersByGroup(r, by, g) == Begin(r, "listUsers", "list", by, None, g) /\ UNCHANGED history
listGroupsForUser(r, by) ==
    by # Admin /\ Begin(r, "listGroups", "list", by, by, None) /\ UNCHANGED history
\* the caller is an administrator or the user to be deleted, who needs no lookup
deleteUser(r, by, u) ==
    /\ by \in {Admin, u}
    /\ Begin(r, "deleteUser", IF by = u THEN "query" ELSE "target", by, u, None)
    /\ UNCHANGED history
\* no other group has the name; the group gets a new ID
createGroup(r, by, g) ==
    /\ by # Admin /\ g \notin used
    /\ Begin(r, "create", "putGroup", by, by, g)
    /\ used' = used \cup {g}
    /\ UNCHANGED granted

(***************************************************************************)
(* The specification                                                       *)
(***************************************************************************)
\* The service starts with empty caches on whatever the tables hold.
Init ==
    /\ accounts = Users
    /\ groups \in SUBSET Groups
    /\ member \in SUBSET (Users \X groups)
    /\ byGroup = [g \in Groups |-> NoCategory]
    /\ byUser = [u \in Users |-> NoCategory]
    /\ groupCache = [g \in Groups |-> "none"]
    /\ req = [r \in Requests |-> Idle]
    /\ used = groups
    /\ granted = member
    /\ faults = 0

Start(r) ==
    \E by \in Users \cup {Admin} :
        \/ listGroupsForUser(r, by)
        \/ \E u \in Users : deleteUser(r, by, u)
        \/ \E g \in Groups :
            \/ createGroup(r, by, g)
            \/ checkMembership(r, by, g) \/ updateGroup(r, by, g)
            \/ deleteGroup(r, by, g) \/ listUsersByGroup(r, by, g)
            \/ \E u \in Users :
                  addUserToGroup(r, by, u, g) \/ removeUserFromGroup(r, by, u, g)

Proceed(r) ==
    \/ getUser(r) \/ findGroupByID(r) \/ cacheFoundGroup(r)
    \/ userInGroup(r) \/ cacheMembership(r)
    \/ putMembership(r) \/ cacheUser(r) \/ cacheGroup(r)
    \/ putGroup(r) \/ cacheNewGroup(r)
    \/ uncacheUser(r) \/ findCachedGroup(r) \/ uncacheGroupOfUser(r) \/ dbRemoveMembership(r)
    \/ queryMemberships(r) \/ nextMembership(r) \/ endMemberships(r)
    \/ removeUser(r) \/ uncacheGroup(r) \/ removeGroup(r)
    \/ listMemberships(r) \/ cacheListedGroup(r) \/ validateListing(r)

Expire ==
    \/ \E g \in Groups :
        ExpireUsersOf(g) \/ ExpireGroup(g) \/ \E u \in UserIDs : ExpireMember(g, u)
    \/ \E u \in Users : ExpireGroupsOf(u)

Next == Expire \/ \E r \in Requests : Start(r) \/ Proceed(r)

Spec == Init /\ [][Next]_vars

(***************************************************************************)
(* Properties                                                              *)
(***************************************************************************)
\* Every variable has its type; a category without values does not exist, so that
\* it cannot count as complete (concurrent_multimap::erase, update_expiration).
TypeOK ==
    /\ accounts \subseteq Users
    /\ groups \subseteq used /\ used \subseteq Groups
    /\ member \subseteq granted /\ granted \subseteq Pairs
    /\ byGroup \in [Groups -> Category(UserIDs)]
    /\ byUser \in [Users -> Category(GroupIDs)]
    /\ \A g \in Groups : byGroup[g].known = {} => byGroup[g] = NoCategory
    /\ \A u \in Users : byUser[u].known = {} => byUser[u] = NoCategory
    /\ groupCache \in [Groups -> {"none", "live", "expired"}]
    /\ req \in [Requests -> Request]
    /\ faults \in 0..MaxFaults

Quiescent == \A r \in Requests : req[r].pc = "idle"
\* between requests, as long as no database call has reported failure
Settled == Quiescent /\ faults = 0

\* A membership is stored only at the request of an administrator, of the
\* group's founder, or of a user who was a member before, however requests
\* overlap and however stale the cached membership that let the caller pass is
\* (addUserToGroup, userInGroup).
OnlyMembersAdmit ==
    [][\A p \in member' \ member :
        \E r \in Requests :
            /\ At(r, "put") /\ req'[r] # req[r] /\ <<req[r].u, req[r].g>> = p
            /\ \/ req[r].by = Admin \/ req[r].op = "create"
               \/ <<req[r].by, p[2]>> \in granted]_vars

\* Between requests, a user whom userInGroup finds in its cache is a member: a
\* removed member is refused from then on (removeUserFromGroup).
CachedMembersStored ==
    Quiescent => \A g \in Groups, u \in Users : CachedMember(u, g) => <<u, g>> \in member

\* Between requests, and unless a database call failed, no membership of a deleted
\* user is left (deleteUser).
MembersExist == Settled => \A p \in member : p[1] \in accounts

\* Between requests, and unless a database call failed, no membership of a deleted
\* group is left (removeGroup).
MemberGroupsExist == Settled => \A p \in member : p[2] \in groups

\* Between requests, and unless a database call failed, a listing of a group's
\* members that the cache answers is complete, whatever additions, removals and
\* other listings overlapped the one that filled it (listUsersByGroup,
\* addUserToGroup, removeUserFromGroup).
UserListingsComplete ==
    Settled =>
        \A p \in member : p[1] \in accounts /\ byGroup[p[2]].valid =>
            p[1] \in byGroup[p[2]].known

\* The same of the listing of a user's groups (listGroupsForUser), when requests
\* come one after the other.
GroupListingsComplete ==
    Settled =>
        \A p \in member : p[2] \in groups /\ byUser[p[1]].valid =>
            p[2] \in byUser[p[1]].known

\* Between requests, and unless a database call failed, a group in
\* groupByUserCache is also in groupCache, where removeUserFromGroup finds the
\* record to erase.
CachedGroupsKnown ==
    Settled => \A u \in Users : \A g \in byUser[u].known \ {None} : groupCache[g] # "none"

\* Requests that come one after the other leave the memberships and their caches
\* well-formed and in agreement with one another and with the users and groups
\* there are (addUserToGroup, removeUserFromGroup, removeUser, removeGroup).
MembershipsAgree ==
    /\ TypeOK /\ CachedMembersStored /\ MembersExist /\ MemberGroupsExist
    /\ GroupListingsComplete /\ CachedGroupsKnown
=============================================================================

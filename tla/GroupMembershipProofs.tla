----------------------- MODULE GroupMembershipProofs -----------------------
(***************************************************************************)
(* Proofs about GroupMembership for any number of threads, users, groups   *)
(* and failed database calls.  IInv says where a request can be (Where),   *)
(* what its memory warrants (Warranted), and that whoever a cache lists as *)
(* a member was granted membership at some time (CachesGranted).  ListInv  *)
(* is about the opposite: whom a cache does not list (ListingKept).        *)
(* AgreeInv, at the end, is about requests that come one at a time: the    *)
(* tables and all three caches agree.                                      *)
(***************************************************************************)
EXTENDS GroupMembership, TLAPS

\* Where an endpoint's request can be, and when its checks are over.
Where(q) ==
    /\ q.pc = "put" => Adding(q)
    /\ q.pc \in {"cacheUser", "target"} /\ q.act => q.op \in {"add", "create", "listUsers"}
    /\ q.pc = "cacheUser" => q.act
    /\ q.pc \in {"group", "groupFill"} /\ q.act => q.op \in {"add", "create", "listGroups"}
    /\ q.pc \in {"group", "groupFill"} /\ ~q.act => q.op \in {"add", "edit", "deleteGroup"}
    /\ q.pc = "target" /\ ~q.act => q.op \in {"add", "remove", "deleteUser"}
    /\ q.pc \in {"member", "memberFill"} => ~q.act /\ q.op # "listUsers"
    /\ q.op \in {"listUsers", "listGroups"} => q.pc = "list" \/ q.act
    /\ q.pc = "list" => q.op \in {"listUsers", "listGroups"}
    /\ q.pc = "query" => q.op \in {"deleteUser", "deleteGroup"}
    /\ q.pc = "next" => q.op \in {"deleteUser", "deleteGroup", "listUsers", "listGroups"}
    /\ q.pc \in {"unUser", "unGroup", "unGroupErase", "dbRemove"} =>
          q.op \in {"remove", "deleteUser", "deleteGroup"}

\* What a request may rely on, given the memberships ever stored and the group
\* IDs ever issued: its operands, the right of its caller to add members, the
\* memberships it has read or written and is about to cache, the groups it has
\* found.
Warranted(q, ever, issued) ==
    /\ q.op \in {"add", "create"} => q.u \in Users /\ q.g \in Groups
    /\ q.op \in {"check", "remove", "edit", "deleteGroup", "listUsers"} => q.g \in Groups
    /\ q.pc \in {"group", "groupFill"} => q.g \in Groups
    /\ q.op = "add" /\ q.act => q.by = Admin \/ <<q.by, q.g>> \in ever
    /\ q.pc = "memberFill" => q.by \in Users /\ <<q.by, q.g>> \in ever
    /\ q.pc = "cacheUser" => <<q.u, q.g>> \in ever
    /\ q.pc = "target" /\ q.op = "listUsers" => <<q.u, q.g>> \in ever
    /\ q.op = "listUsers" => q.todo \subseteq ever
    /\ q.op = "create" => q.g \in issued
    /\ q.pc \in {"putGroup", "cacheNewGroup", "groupFill", "listedGroup"} => q.g \in issued

RequestsWarranted ==
    \A r \in Requests : Where(req[r]) /\ Warranted(req[r], granted, used)

\* Whoever userByGroupCache lists was granted membership; what groupCache knows
\* was issued.
CachesGranted ==
    /\ \A g \in Groups : /\ byGroup[g].live \subseteq byGroup[g].known
                         /\ \A u \in byGroup[g].known \cap Users : <<u, g>> \in granted
    /\ \A g \in Groups : groupCache[g] # "none" => g \in used

IInv == TypeOK /\ RequestsWarranted /\ CachesGranted

(***************************************************************************)
(* Where a handler goes on                                                 *)
(***************************************************************************)
\* What a request has to be.
Fit(q, ever, issued) == q \in Request /\ Where(q) /\ Warranted(q, ever, issued)

\* A thread that has answered is fit for any past.
LEMMA IdleFit == \A ever, issued : Fit(Idle, ever, issued)
BY DEF Fit, Idle, Request, PCs, Ops, UserIDs, GroupIDs, Where, Warranted, Adding

\* Memberships and IDs that come to be leave a request fit.
LEMMA FitLasts ==
    ASSUME NEW q, NEW ever, NEW issued, NEW later, NEW more,
           Fit(q, ever, issued), ever \subseteq later, issued \subseteq more
    PROVE  Fit(q, later, more)
BY DEF Fit, Warranted

\* Where the answer to getUser leads.
LEMMA AfterTargetFit ==
    ASSUME NEW q, NEW ever, NEW issued, NEW ok \in BOOLEAN,
           Fit(q, ever, issued), q.pc = "target"
    PROVE  Fit(AfterTarget(q, ok), ever, issued)
<1>1. CASE q.act
  <2> DEFINE n == [q EXCEPT !.pc = IF Adding(q) THEN "put" ELSE "cacheUser", !.foundUser = ok]
  <2>1. AfterTarget(q, ok) = n
    BY <1>1 DEF AfterTarget
  <2>2. n \in Request /\ Where(n)
    BY <1>1 DEF Fit, Request, PCs, Where, Adding
  <2>3. Warranted(n, ever, issued)
    BY <1>1 DEF Fit, Request, Where, Warranted, Adding
  <2> QED BY <2>1, <2>2, <2>3 DEF Fit
<1>2. CASE ~q.act /\ AfterTarget(q, ok) # Idle
  <2>1. PICK pc \in {"group", "member", "query"} :
          /\ AfterTarget(q, ok) = [q EXCEPT !.pc = pc]
          /\ pc = "group" => q.op = "add"
          /\ pc = "member" => q.op = "remove"
          /\ pc = "query" => q.op = "deleteUser"
    BY <1>2 DEF AfterTarget
  <2> DEFINE n == [q EXCEPT !.pc = pc]
  <2>2. n \in Request /\ Where(n)
    BY <1>2, <2>1 DEF Fit, Request, PCs, Where, Adding
  <2>3. Warranted(n, ever, issued)
    BY <1>2, <2>1 DEF Fit, Request, Where, Warranted
  <2> QED BY <2>1, <2>2, <2>3 DEF Fit
<1> QED BY <1>1, <1>2, IdleFit

\* Where the answer to findGroupByID leads, a group that was found having been
\* issued.
LEMMA AfterGroupFit ==
    ASSUME NEW q, NEW ever, NEW issued, NEW ok \in BOOLEAN,
           Fit(q, ever, issued), q.pc \in {"group", "groupFill"}, ok => q.g \in issued
    PROVE  Fit(AfterGroup(q, ok), ever, issued)
<1>1. CASE q.act
  <2>1. PICK pc \in {"target", "listedGroup", "cacheGroup"} :
          /\ AfterGroup(q, ok) = [q EXCEPT !.pc = pc, !.foundGroup = ok]
          /\ pc = "target" => Adding(q)
          /\ pc = "listedGroup" => ok
    BY <1>1 DEF AfterGroup
  <2> DEFINE n == [q EXCEPT !.pc = pc, !.foundGroup = ok]
  <2>2. n \in Request /\ Where(n)
    BY <1>1, <2>1 DEF Fit, Request, PCs, Where, Adding
  <2>3. Warranted(n, ever, issued)
    BY <1>1, <2>1 DEF Fit, Request, Where, Warranted, Adding
  <2> QED BY <2>1, <2>2, <2>3 DEF Fit
<1>2. CASE ~q.act /\ ok
  <2>1. PICK pc \in {"putGroup", "member"} : AfterGroup(q, ok) = [q EXCEPT !.pc = pc]
    BY <1>2 DEF AfterGroup
  <2> DEFINE n == [q EXCEPT !.pc = pc]
  <2>2. n \in Request /\ Where(n)
    BY <1>2, <2>1 DEF Fit, Request, PCs, Where, Adding
  <2>3. Warranted(n, ever, issued)
    BY <1>2, <2>1 DEF Fit, Request, Where, Warranted
  <2> QED BY <2>1, <2>2, <2>3 DEF Fit
<1>3. CASE ~q.act /\ ~ok
  <2>1. AfterGroup(q, ok) = Idle
    BY <1>3 DEF AfterGroup
  <2> QED BY <2>1, IdleFit
<1> QED BY <1>1, <1>2, <1>3

\* Where a caller goes who may change the group: whoever adds a member is an
\* administrator or was one itself (userInGroup).
LEMMA AfterMemberFit ==
    ASSUME NEW q, NEW ever, NEW issued, Fit(q, ever, issued), q.pc \in {"member", "memberFill"},
           q.by = Admin \/ <<q.by, q.g>> \in ever
    PROVE  Fit(AfterMember(q), ever, issued)
<1>1. CASE AfterMember(q) = Idle
  BY <1>1, IdleFit
<1>2. CASE AfterMember(q) # Idle
  <2>1. PICK pc \in {"group", "unUser", "query"}, act \in BOOLEAN :
          /\ AfterMember(q) = [q EXCEPT !.pc = pc, !.act = act]
          /\ pc = "group" => \/ q.op = "add" /\ act
                             \/ q.op = "edit" /\ ~act
          /\ pc = "unUser" => q.op = "remove"
          /\ pc = "query" => q.op = "deleteGroup"
    <3>1. CASE q.op = "edit"
      <4>1. [q EXCEPT !.pc = "group"] = [q EXCEPT !.pc = "group", !.act = FALSE]
        BY <1>2 DEF Fit, Where, Request
      <4> QED BY <3>1, <4>1 DEF AfterMember
    <3> QED BY <1>2, <3>1 DEF AfterMember
  <2> DEFINE n == [q EXCEPT !.pc = pc, !.act = act]
  <2>2. n \in Request /\ Where(n)
    BY <2>1 DEF Fit, Request, PCs, Where, Adding
  <2>3. Warranted(n, ever, issued)
    BY <2>1 DEF Fit, Request, Where, Warranted
  <2> QED BY <2>1, <2>2, <2>3 DEF Fit
<1> QED BY <1>1, <1>2

(***************************************************************************)
(* What an action has to establish                                         *)
(***************************************************************************)
\* The types of everything but the requests.
StoreTyped ==
    /\ accounts \subseteq Users
    /\ groups \subseteq used /\ used \subseteq Groups
    /\ member \subseteq granted /\ granted \subseteq Pairs
    /\ byGroup \in [Groups -> Category(UserIDs)]
    /\ byUser \in [Users -> Category(GroupIDs)]
    /\ \A g \in Groups : byGroup[g].known = {} => byGroup[g] = NoCategory
    /\ \A u \in Users : byUser[u].known = {} => byUser[u] = NoCategory
    /\ groupCache \in [Groups -> {"none", "live", "expired"}]
    /\ faults \in 0..MaxFaults

\* A request that goes on as one fit for the memberships and IDs there now are
\* keeps the others fit: the shape of every action's effect on req (Step, Goto).
LEMMA Advance ==
    ASSUME IInv, NEW r \in Requests, NEW q, Fit(q, granted', used'), Step(r, q),
           granted \subseteq granted', used \subseteq used', StoreTyped', CachesGranted'
    PROVE  IInv'
<1>1. /\ req' \in [Requests -> Request]
      /\ req'[r] = q
      /\ \A s \in Requests : s # r => req'[s] = req[s]
  BY DEF IInv, TypeOK, Step, Fit
<1>2. TypeOK'
  BY <1>1 DEF TypeOK, StoreTyped
<1>3. ASSUME NEW s \in Requests PROVE Fit(req'[s], granted', used')
  <2>1. CASE s = r
    BY <1>1, <2>1
  <2>2. CASE s # r
    BY <1>1, <2>2, FitLasts DEF IInv, TypeOK, RequestsWarranted, Fit
  <2> QED BY <2>1, <2>2
<1> QED BY <1>2, <1>3 DEF IInv, RequestsWarranted, Fit

\* An action that leaves the tables and the caches alone.
LEMMA AdvanceQuietly ==
    ASSUME IInv, NEW r \in Requests, NEW q, Fit(q, granted, used), Step(r, q),
           UNCHANGED <<tables, caches, history>>, faults' \in 0..MaxFaults
    PROVE  IInv'
<1>1. /\ UNCHANGED <<accounts, groups, member, byGroup, byUser, groupCache, used, granted>>
      /\ StoreTyped /\ CachesGranted
  BY DEF tables, caches, history, IInv, TypeOK, StoreTyped
<1>2. StoreTyped' /\ CachesGranted'
  BY <1>1 DEF StoreTyped, CachesGranted
<1> QED BY <1>1, <1>2, Advance

\* A call that reports failure is counted within the bound.
LEMMA FaultTyped == ASSUME IInv, Fault \/ UNCHANGED faults PROVE faults' \in 0..MaxFaults
BY MembershipAssumption DEF IInv, TypeOK, Fault

\* Listing someone who was granted membership, or the empty ID, keeps the cache
\* well-formed and granted (concurrent_multimap::insert_or_assign).
LEMMA CacheInsert ==
    ASSUME IInv, NEW g \in Groups, NEW x \in UserIDs, x \in Users => <<x, g>> \in granted,
           UNCHANGED <<accounts, groups, member, byUser, groupCache, granted, used, faults>>,
           byGroup' = [byGroup EXCEPT ![g] = insert_or_assign(@, x)]
    PROVE  StoreTyped' /\ CachesGranted'
<1> DEFINE c == insert_or_assign(byGroup[g], x)
<1>1. byGroup[g] \in Category(UserIDs) /\ byGroup[g].live \subseteq byGroup[g].known
  BY DEF IInv, TypeOK, CachesGranted
<1>2. /\ c \in Category(UserIDs) /\ c.live \subseteq c.known /\ c.known # {}
      /\ \A u \in c.known \cap Users : u \in byGroup[g].known \/ u = x
  BY <1>1 DEF insert_or_assign, Category
<1>3. byGroup' = [byGroup EXCEPT ![g] = c]
  OBVIOUS
<1> HIDE DEF c
<1>4. \A h \in Groups : byGroup'[h] = IF h = g THEN c ELSE byGroup[h]
  BY <1>3 DEF IInv, TypeOK
<1>5. byGroup' \in [Groups -> Category(UserIDs)]
  BY <1>2, <1>3 DEF IInv, TypeOK
<1>6. StoreTyped'
  BY <1>2, <1>4, <1>5 DEF IInv, TypeOK, StoreTyped
<1>7. CachesGranted'
  BY <1>2, <1>4 DEF IInv, CachesGranted
<1> QED BY <1>6, <1>7

\* The lookups of accounts, groups and members preserve the invariant (getUser,
\* findGroupByID, userInGroup).
LEMMA LookupsPreserve ==
    ASSUME IInv, NEW r \in Requests,
           getUser(r) \/ findGroupByID(r) \/ cacheFoundGroup(r) \/ userInGroup(r) \/ cacheMembership(r)
    PROVE  IInv'
<1> DEFINE q == req[r]
<1>0. Fit(q, granted, used) /\ q \in Request
  BY DEF IInv, TypeOK, RequestsWarranted, Fit
<1>1. CASE getUser(r)
  <2>1. UNCHANGED <<tables, caches, history>> /\ q.pc = "target" /\ (Fault \/ UNCHANGED faults)
    BY <1>1 DEF getUser, At
  <2>2. ASSUME NEW ok \in BOOLEAN, Step(r, AfterTarget(q, ok)) PROVE IInv'
    BY <1>0, <2>1, <2>2, FaultTyped, AfterTargetFit, AdvanceQuietly
  <2>3. (q.u \in accounts) \in BOOLEAN
    OBVIOUS
  <2> QED BY <1>1, <2>2, <2>3 DEF getUser
<1>2. CASE findGroupByID(r)
  <2>1. UNCHANGED <<tables, caches, history>> /\ q.pc = "group" /\ (Fault \/ UNCHANGED faults)
    BY <1>2 DEF findGroupByID, At
  <2>2. faults' \in 0..MaxFaults
    BY <2>1, FaultTyped
  <2>3. CASE q.g \in used /\ Step(r, AfterGroup(q, TRUE))
    BY <1>0, <2>1, <2>2, <2>3, AfterGroupFit, AdvanceQuietly
  <2>4. CASE Step(r, AfterGroup(q, FALSE))
    BY <1>0, <2>1, <2>2, <2>4, AfterGroupFit, AdvanceQuietly
  <2>5. CASE q.g \in groups /\ Goto(r, "groupFill")
    <3> DEFINE n == [q EXCEPT !.pc = "groupFill"]
    <3>1. Step(r, n) /\ q.g \in used
      BY <2>5 DEF Goto, IInv, TypeOK
    <3>2. Fit(n, granted, used)
      BY <1>0, <2>1, <3>1 DEF Fit, Request, PCs, Where, Warranted, Adding
    <3> QED BY <2>1, <2>2, <3>1, <3>2, AdvanceQuietly
  <2>6. groupCache[q.g] = "live" => q.g \in used
    <3>1. q.g \in Groups
      BY <1>0, <2>1 DEF Fit, Warranted
    <3> QED BY <3>1 DEF IInv, CachesGranted
  <2> QED BY <1>2, <2>3, <2>4, <2>5, <2>6 DEF findGroupByID
<1>3. CASE cacheFoundGroup(r)
  <2> DEFINE n == AfterGroup(q, TRUE)
  <2>1. q.pc = "groupFill" /\ Step(r, n) /\ UNCHANGED <<tables, byGroup, byUser, history, faults>>
    BY <1>3 DEF cacheFoundGroup, At
  <2>2. Fit(n, granted, used) /\ q.g \in used
    BY <1>0, <2>1, AfterGroupFit DEF Fit, Warranted
  <2>3. StoreTyped' /\ CachesGranted' /\ UNCHANGED <<granted, used>>
    BY <1>3, <2>1, <2>2
       DEF cacheFoundGroup, tables, history, IInv, TypeOK, StoreTyped, CachesGranted
  <2> QED BY <2>1, <2>2, <2>3, Advance
<1>4. CASE userInGroup(r)
  <2>1. UNCHANGED <<tables, caches, history>> /\ q.pc = "member" /\ (Fault \/ UNCHANGED faults)
    BY <1>4 DEF userInGroup, At
  <2>2. faults' \in 0..MaxFaults
    BY <2>1, FaultTyped
  <2>3. CASE (Asked(q) = Admin \/ CachedMember(Asked(q), q.g)) /\ Step(r, AfterMember(q))
    <3>1. CASE q.op \in {"add", "remove", "edit", "deleteGroup"}
      <4>1. q.g \in Groups /\ q.by \in Users \cup {Admin}
        BY <1>0, <3>1 DEF Fit, Warranted, Request
      <4>2. q.by = Admin \/ <<q.by, q.g>> \in granted
        BY <4>1, <2>3 DEF Asked, CachedMember, IInv, TypeOK, Category, CachesGranted
      <4> QED BY <1>0, <2>1, <2>2, <2>3, <4>2, AfterMemberFit, AdvanceQuietly
    <3>2. CASE q.op \notin {"add", "remove", "edit", "deleteGroup"}
      <4>1. AfterMember(q) = Idle
        BY <3>2 DEF AfterMember
      <4> QED BY <2>1, <2>2, <2>3, <4>1, IdleFit, AdvanceQuietly
    <3> QED BY <3>1, <3>2
  <2>4. CASE Step(r, Idle)
    BY <2>1, <2>2, <2>4, IdleFit, AdvanceQuietly
  <2>5. CASE /\ Asked(q) # Admin /\ <<Asked(q), q.g>> \in member
             /\ Goto(r, "memberFill")
    <3> DEFINE n == [q EXCEPT !.pc = "memberFill"]
    <3>1. Step(r, n) /\ q.by \in Users /\ <<q.by, q.g>> \in granted
      BY <1>0, <2>5 DEF Goto, Asked, IInv, TypeOK, Request
    <3>2. Fit(n, granted, used)
      BY <1>0, <2>1, <3>1 DEF Fit, Request, PCs, Where, Warranted, Adding
    <3> QED BY <2>1, <2>2, <3>1, <3>2, AdvanceQuietly
  <2> QED BY <1>4, <2>3, <2>4, <2>5 DEF userInGroup
<1>5. CASE cacheMembership(r)
  <2> DEFINE n == AfterMember(q)
  <2>1. /\ q.pc = "memberFill" /\ Step(r, n)
        /\ UNCHANGED <<tables, byUser, groupCache, history, faults>>
    BY <1>5 DEF cacheMembership, At
  <2>2. /\ Fit(n, granted, used)
        /\ q.by \in UserIDs /\ q.g \in Groups /\ <<q.by, q.g>> \in granted
    BY <1>0, <2>1, AfterMemberFit DEF Fit, Warranted, IInv, TypeOK, Pairs, UserIDs
  <2>3. UNCHANGED <<accounts, groups, member, byUser, groupCache, granted, used, faults>>
    BY <2>1 DEF tables, history
  <2>4. byGroup' = [byGroup EXCEPT ![q.g] = insert_or_assign(@, q.by)]
    BY <1>5 DEF cacheMembership, Asked
  <2>5. StoreTyped' /\ CachesGranted'
    BY <2>2, <2>3, <2>4, CacheInsert
  <2> QED BY <2>1, <2>2, <2>3, <2>5, Advance
<1> QED BY <1>1, <1>2, <1>3, <1>4, <1>5

\* The places that ask nothing of what a request remembers.
Undemanding == {"next", "cacheGroup", "unGroup", "unGroupErase", "dbRemove",
                "removeUser", "uncacheGroup", "removeGroup", "listValid"}
LEMMA MoveFit ==
    ASSUME NEW q, NEW ever, NEW issued, Fit(q, ever, issued), NEW pc \in Undemanding,
           q.pc # "list",
           pc = "next" => q.op \in {"deleteUser", "deleteGroup", "listUsers", "listGroups"},
           pc \in {"unGroup", "unGroupErase", "dbRemove"} =>
              q.op \in {"remove", "deleteUser", "deleteGroup"}
    PROVE  Fit([q EXCEPT !.pc = pc], ever, issued)
BY DEF Fit, Undemanding, Request, PCs, Where, Warranted, Adding

\* The steps of storing a membership and a group preserve the invariant
\* (addUserToGroup, addGroup, updateGroup, and the caches a listing fills).
LEMMA AdditionsPreserve ==
    ASSUME IInv, NEW r \in Requests,
           putMembership(r) \/ cacheUser(r) \/ cacheGroup(r) \/ putGroup(r) \/ cacheNewGroup(r)
    PROVE  IInv'
<1> DEFINE q == req[r]
<1>0. Fit(q, granted, used) /\ q \in Request
  BY DEF IInv, TypeOK, RequestsWarranted, Fit
<1>1. CASE putMembership(r)
  <2> DEFINE p == <<q.u, q.g>>
  <2>1. /\ q.pc = "put" /\ granted' = granted \cup {p}
        /\ UNCHANGED <<accounts, groups, byGroup, byUser, groupCache, used>>
        /\ member' \subseteq member \cup {p}
        /\ Fault \/ UNCHANGED faults
    BY <1>1 DEF putMembership, At, caches
  <2>2. p \in Pairs
    BY <1>0, <2>1 DEF Fit, Where, Adding, Warranted, Pairs
  <2>3. faults' \in 0..MaxFaults
    BY <2>1, FaultTyped
  <2>4. StoreTyped' /\ CachesGranted'
    BY <2>1, <2>2, <2>3 DEF IInv, TypeOK, StoreTyped, CachesGranted
  <2>5. CASE Step(r, Idle)
    BY <2>1, <2>4, <2>5, IdleFit, Advance
  <2>6. CASE Goto(r, "cacheUser")
    <3> DEFINE n == [q EXCEPT !.pc = "cacheUser"]
    <3>1. Fit(q, granted', used')
      BY <1>0, <2>1, FitLasts
    <3>2. n \in Request /\ Where(n)
      BY <1>0, <2>1 DEF Fit, Request, PCs, Where, Adding
    <3>3. Warranted(n, granted', used')
      BY <1>0, <2>1, <3>1 DEF Fit, Request, Where, Adding, Warranted
    <3>4. Step(r, n)
      BY <2>6 DEF Goto
    <3> QED BY <2>1, <2>4, <3>2, <3>3, <3>4, Advance DEF Fit
  <2> QED BY <1>1, <2>5, <2>6 DEF putMembership
<1>2. CASE cacheUser(r)
  <2> DEFINE listing == q.op = "listUsers"
             x == IF listing /\ ~q.foundUser THEN None ELSE q.u
             pc == IF listing THEN "next" ELSE "cacheGroup"
  <2>1. /\ q.pc = "cacheUser" /\ Goto(r, pc)
        /\ byGroup' = [byGroup EXCEPT ![q.g] = insert_or_assign(@, x)]
        /\ UNCHANGED <<accounts, groups, member, byUser, groupCache, granted, used, faults>>
    BY <1>2 DEF cacheUser, At, tables, history
  <2>2. <<q.u, q.g>> \in granted /\ q.act
    BY <1>0, <2>1 DEF Fit, Where, Warranted
  <2>3. q.g \in Groups /\ x \in UserIDs /\ (x \in Users => <<x, q.g>> \in granted)
    BY <2>2, MembershipAssumption DEF IInv, TypeOK, Pairs, UserIDs
  <2>4. Step(r, [q EXCEPT !.pc = pc]) /\ pc \in Undemanding
    BY <2>1 DEF Goto, Undemanding
  <2>5. Fit([q EXCEPT !.pc = pc], granted, used)
    BY <1>0, <2>1, <2>4, MoveFit DEF Undemanding
  <2> HIDE DEF x, pc
  <2>6. StoreTyped' /\ CachesGranted'
    BY <2>1, <2>3, CacheInsert
  <2> QED BY <2>1, <2>4, <2>5, <2>6, Advance
<1>3. CASE cacheGroup(r)
  <2> DEFINE x == IF q.foundGroup THEN q.g ELSE None
             n == IF q.op = "listGroups" THEN [q EXCEPT !.pc = "next"] ELSE Idle
  <2>1. /\ q.pc = "cacheGroup" /\ Step(r, n)
        /\ byUser' = [byUser EXCEPT ![q.u] = insert_or_assign(@, x)] \/ UNCHANGED byUser
        /\ UNCHANGED <<accounts, groups, member, byGroup, groupCache, granted, used, faults>>
    BY <1>3 DEF cacheGroup, At, tables, history
  <2>2. Fit(n, granted, used)
    <3>1. "next" \in Undemanding
      BY DEF Undemanding
    <3> QED BY <1>0, <2>1, <3>1, MoveFit, IdleFit
  <2>3. x \in GroupIDs
    BY <1>0 DEF Request, GroupIDs
  <2>4. /\ byUser' \in [Users -> Category(GroupIDs)]
        /\ \A u \in Users : byUser'[u].known = {} => byUser'[u] = NoCategory
    <3> HIDE DEF x
    <3>1. CASE UNCHANGED byUser
      BY <3>1 DEF IInv, TypeOK
    <3>2. CASE byUser' = [byUser EXCEPT ![q.u] = insert_or_assign(@, x)]
      <4>1. \A u \in Users : /\ insert_or_assign(byUser[u], x) \in Category(GroupIDs)
                             /\ insert_or_assign(byUser[u], x).known # {}
        BY <2>3 DEF insert_or_assign, Category, IInv, TypeOK
      <4> QED BY <3>2, <4>1 DEF IInv, TypeOK
    <3> QED BY <2>1, <3>1, <3>2
  <2>5. StoreTyped' /\ CachesGranted'
    BY <2>1, <2>4 DEF IInv, TypeOK, StoreTyped, CachesGranted
  <2> HIDE DEF n
  <2> QED BY <2>1, <2>2, <2>5, Advance
<1>4. CASE putGroup(r)
  <2>1. /\ q.pc = "putGroup" /\ groups' \subseteq groups \cup {q.g}
        /\ UNCHANGED <<accounts, member, byGroup, byUser, groupCache, used, granted>>
        /\ Fault \/ UNCHANGED faults
    BY <1>4 DEF putGroup, At, caches, history
  <2>2. faults' \in 0..MaxFaults
    BY <2>1, FaultTyped
  <2>3. StoreTyped' /\ CachesGranted'
    BY <1>0, <2>1, <2>2 DEF Fit, Warranted, IInv, TypeOK, StoreTyped, CachesGranted
  <2>4. CASE Step(r, Idle)
    BY <2>1, <2>3, <2>4, IdleFit, Advance
  <2>5. CASE Goto(r, "cacheNewGroup")
    <3> DEFINE n == [q EXCEPT !.pc = "cacheNewGroup"]
    <3>1. Step(r, n)
      BY <2>5 DEF Goto
    <3>2. n \in Request /\ Where(n)
      BY <1>0, <2>1 DEF Fit, Request, PCs, Where, Adding
    <3>3. Warranted(n, granted, used)
      BY <1>0, <2>1 DEF Fit, Request, Where, Warranted
    <3> QED BY <2>1, <2>3, <3>1, <3>2, <3>3, Advance DEF Fit
  <2> QED BY <1>4, <2>4, <2>5 DEF putGroup
<1>5. CASE cacheNewGroup(r)
  <2> DEFINE n == [q EXCEPT !.pc = "group", !.act = TRUE]
  <2>1. /\ q.pc = "cacheNewGroup" /\ groupCache' = [groupCache EXCEPT ![q.g] = "live"]
        /\ UNCHANGED <<accounts, groups, member, byGroup, byUser, granted, used, faults>>
    BY <1>5 DEF cacheNewGroup, At, tables, history
  <2>2. StoreTyped' /\ CachesGranted'
    BY <1>0, <2>1 DEF Fit, Warranted, IInv, TypeOK, StoreTyped, CachesGranted
  <2>3. CASE q.op = "create" /\ Step(r, n)
    <3>1. n \in Request /\ Where(n)
      BY <1>0, <2>1, <2>3 DEF Fit, Request, PCs, Where, Adding
    <3>2. Warranted(n, granted, used)
      BY <1>0, <2>1, <2>3 DEF Fit, Request, Where, Warranted
    <3> QED BY <2>1, <2>2, <2>3, <3>1, <3>2, Advance DEF Fit
  <2>4. CASE Step(r, Idle)
    BY <2>1, <2>2, <2>4, IdleFit, Advance
  <2> QED BY <1>5, <2>3, <2>4 DEF cacheNewGroup
<1> QED BY <1>1, <1>2, <1>3, <1>4, <1>5

\* Taking a value out of a category keeps it a category without new values
\* (concurrent_multimap::erase, which drops it with its last value).
LEMMA EraseTyped ==
    ASSUME NEW S, NEW cat \in Category(S), NEW x
    PROVE  /\ erase(cat, x) \in Category(S) /\ erase(cat, x).known \subseteq cat.known
           /\ erase(cat, x).known = {} => erase(cat, x) = NoCategory
           /\ cat.live \subseteq cat.known => erase(cat, x).live \subseteq erase(cat, x).known
BY DEF erase, Category, NoCategory

\* A step that leaves the tables alone but may take values out of the caches.
LEMMA UncachingTyped ==
    ASSUME IInv, UNCHANGED <<accounts, groups, member, granted, used>>, faults' \in 0..MaxFaults,
           byGroup' \in [Groups -> Category(UserIDs)], byUser' \in [Users -> Category(GroupIDs)],
           \A g \in Groups : /\ byGroup'[g].known \subseteq byGroup[g].known
                             /\ byGroup'[g].known = {} => byGroup'[g] = NoCategory
                             /\ byGroup'[g].live \subseteq byGroup'[g].known,
           \A u \in Users : byUser'[u].known = {} => byUser'[u] = NoCategory,
           groupCache' \in [Groups -> {"none", "live", "expired"}],
           \A g \in Groups : groupCache'[g] # "none" => groupCache[g] # "none"
    PROVE  StoreTyped' /\ CachesGranted'
BY DEF IInv, TypeOK, StoreTyped, CachesGranted

\* The steps of removing a membership preserve the invariant (removeUserFromGroup).
LEMMA RemovalsPreserve ==
    ASSUME IInv, NEW r \in Requests,
           \/ uncacheUser(r) \/ findCachedGroup(r)
           \/ uncacheGroupOfUser(r) \/ dbRemoveMembership(r)
    PROVE  IInv'
<1> DEFINE q == req[r]
<1>0. Fit(q, granted, used) /\ q \in Request
  BY DEF IInv, TypeOK, RequestsWarranted, Fit
<1>1. ASSUME q.pc \in {"unUser", "unGroup", "unGroupErase", "dbRemove"},
             NEW pc \in {"unGroup", "unGroupErase", "dbRemove", "next"},
             pc = "next" => q.op # "remove"
      PROVE  Fit([q EXCEPT !.pc = pc], granted, used)
  <2>1. q.op \in {"remove", "deleteUser", "deleteGroup"}
    BY <1>0, <1>1 DEF Fit, Where
  <2>2. pc \in Undemanding /\ q.pc # "list"
    BY <1>1 DEF Undemanding
  <2> QED BY <1>0, <1>1, <2>1, <2>2, MoveFit
<1>2. CASE uncacheUser(r)
  <2> DEFINE n == [q EXCEPT !.pc = "unGroup"]
  <2>1. /\ q.pc = "unUser" /\ Step(r, n)
        /\ byGroup' = [byGroup EXCEPT ![q.g] = erase(@, q.u)]
        /\ UNCHANGED <<accounts, groups, member, byUser, groupCache, granted, used, faults>>
    BY <1>2 DEF uncacheUser, At, Goto, tables, history
  <2>2. Fit(n, granted, used)
    BY <1>1, <2>1
  <2>3. \A g \in Groups : LET c == erase(byGroup[g], q.u) IN
          /\ c \in Category(UserIDs) /\ c.known \subseteq byGroup[g].known
          /\ c.known = {} => c = NoCategory
          /\ c.live \subseteq c.known
    BY EraseTyped DEF IInv, TypeOK, CachesGranted
  <2>4. \A g \in Groups : byGroup'[g] = IF g = q.g THEN erase(byGroup[g], q.u) ELSE byGroup[g]
    BY <2>1 DEF IInv, TypeOK
  <2>5. StoreTyped' /\ CachesGranted'
    <3>1. byGroup' \in [Groups -> Category(UserIDs)]
      BY <2>1, <2>3 DEF IInv, TypeOK
    <3>2. \A g \in Groups : /\ byGroup'[g].known \subseteq byGroup[g].known
                            /\ byGroup'[g].known = {} => byGroup'[g] = NoCategory
                            /\ byGroup'[g].live \subseteq byGroup'[g].known
      BY <2>3, <2>4 DEF IInv, TypeOK, CachesGranted
    <3> QED BY <2>1, <3>1, <3>2, UncachingTyped DEF IInv, TypeOK
  <2> QED BY <2>1, <2>2, <2>5, Advance
<1>3. CASE findCachedGroup(r)
  <2>1. PICK pc \in {"dbRemove", "unGroupErase"} : Step(r, [q EXCEPT !.pc = pc])
    BY <1>3 DEF findCachedGroup, Goto
  <2>2. q.pc = "unGroup" /\ UNCHANGED <<tables, caches, history, faults>>
    BY <1>3 DEF findCachedGroup, At
  <2>3. Fit([q EXCEPT !.pc = pc], granted, used)
    BY <1>1, <2>2
  <2> QED BY <2>1, <2>2, <2>3, FaultTyped, AdvanceQuietly
<1>4. CASE uncacheGroupOfUser(r)
  <2> DEFINE n == [q EXCEPT !.pc = "dbRemove"]
  <2>1. /\ q.pc = "unGroupErase" /\ Step(r, n)
        /\ byUser' = [byUser EXCEPT ![q.u] = erase(@, q.g)]
        /\ UNCHANGED <<accounts, groups, member, byGroup, groupCache, granted, used, faults>>
    BY <1>4 DEF uncacheGroupOfUser, At, Goto, tables, history
  <2>2. Fit(n, granted, used)
    BY <1>1, <2>1
  <2>3. \A u \in Users : LET c == erase(byUser[u], q.g) IN
          c \in Category(GroupIDs) /\ (c.known = {} => c = NoCategory)
    BY EraseTyped DEF IInv, TypeOK
  <2>4. /\ byUser' \in [Users -> Category(GroupIDs)]
        /\ \A u \in Users : byUser'[u].known = {} => byUser'[u] = NoCategory
    BY <2>1, <2>3 DEF IInv, TypeOK
  <2>5. StoreTyped' /\ CachesGranted'
    BY <2>1, <2>4, UncachingTyped DEF IInv, TypeOK, CachesGranted
  <2> QED BY <2>1, <2>2, <2>5, Advance
<1>5. CASE dbRemoveMembership(r)
  <2> DEFINE n == [q EXCEPT !.pc = "next"]
  <2>1. /\ q.pc = "dbRemove" /\ member' \subseteq member
        /\ UNCHANGED <<accounts, groups, byGroup, byUser, groupCache, granted, used>>
        /\ Fault \/ UNCHANGED faults
        /\ Step(r, Idle) \/ (q.op # "remove" /\ Step(r, n))
    <3>1. q.pc = "dbRemove" /\ UNCHANGED <<accounts, groups, caches, history>>
      BY <1>5 DEF dbRemoveMembership, At
    <3>2. member' \subseteq member /\ (Fault \/ UNCHANGED faults)
      BY <1>5 DEF dbRemoveMembership
    <3>3. Step(r, Idle) \/ (q.op # "remove" /\ Step(r, n))
      BY <1>5 DEF dbRemoveMembership
    <3> QED BY <3>1, <3>2, <3>3 DEF caches, history
  <2>2. faults' \in 0..MaxFaults
    BY <2>1, FaultTyped
  <2>3. StoreTyped' /\ CachesGranted'
    BY <2>1, <2>2 DEF IInv, TypeOK, StoreTyped, CachesGranted
  <2>4. q.op # "remove" => Fit(n, granted, used)
    BY <1>1, <2>1
  <2> QED BY <2>1, <2>3, <2>4, IdleFit, Advance
<1> QED BY <1>2, <1>3, <1>4, <1>5

\* The loops over a user's or a group's memberships preserve the invariant
\* (getUserGroupMemberships, getMembersOfGroup, listUsersByGroup, listGroupsForUser).
LEMMA LoopsPreserve ==
    ASSUME IInv, NEW r \in Requests,
           queryMemberships(r) \/ nextMembership(r) \/ endMemberships(r) \/ listMemberships(r)
    PROVE  IInv'
<1> DEFINE q == req[r]
<1>0. Fit(q, granted, used) /\ q \in Request
  BY DEF IInv, TypeOK, RequestsWarranted, Fit
<1>1. UNCHANGED <<tables, caches, history>> /\ faults' \in 0..MaxFaults
  BY FaultTyped DEF queryMemberships, nextMembership, endMemberships, listMemberships
<1>2. MembershipsOf(q) \subseteq granted /\ granted \subseteq Pairs
  BY DEF MembershipsOf, IInv, TypeOK
<1>3. ASSUME q.pc \in {"query", "next"},
             NEW pc \in {"next", "removeUser", "uncacheGroup", "listValid"}
      PROVE  Fit([q EXCEPT !.pc = pc], granted, used)
  <2>1. q.op \in {"deleteUser", "deleteGroup", "listUsers", "listGroups"}
    BY <1>0, <1>3 DEF Fit, Where
  <2>2. pc \in Undemanding /\ q.pc # "list" /\ pc \notin {"unGroup", "unGroupErase", "dbRemove"}
    BY <1>3 DEF Undemanding
  <2> QED BY <1>0, <2>1, <2>2, MoveFit
<1>4. CASE queryMemberships(r)
  <2> DEFINE n == [q EXCEPT !.pc = "next", !.todo = MembershipsOf(q)]
  <2>1. q.pc = "query" /\ (Step(r, n) \/ Step(r, [q EXCEPT !.pc = "next"]))
    BY <1>4 DEF queryMemberships, At, Goto
  <2>2. Fit([q EXCEPT !.pc = "next"], granted, used)
    BY <1>3, <2>1
  <2>3. Fit(n, granted, used)
    BY <1>0, <1>2, <2>1 DEF Fit, Request, PCs, Where, Warranted, Adding
  <2> QED BY <1>1, <2>1, <2>2, <2>3, AdvanceQuietly
<1>5. CASE nextMembership(r)
  <2>1. PICK p \in q.todo, pc \in {"target", "group", "unUser"} :
          /\ Step(r, [q EXCEPT !.todo = @ \ {p}, !.u = p[1], !.g = p[2], !.pc = pc])
          /\ pc = "target" => q.op = "listUsers"
          /\ pc = "group" => q.op = "listGroups"
          /\ pc = "unUser" => q.op \notin {"listUsers", "listGroups"}
    <3> DEFINE pc == CASE q.op = "listUsers"  -> "target"
                       [] q.op = "listGroups" -> "group"
                       [] OTHER               -> "unUser"
    <3>1. PICK p \in q.todo :
            Step(r, [q EXCEPT !.todo = @ \ {p}, !.u = p[1], !.g = p[2], !.pc = pc])
      BY <1>5 DEF nextMembership
    <3> QED BY <3>1
  <2> DEFINE n == [q EXCEPT !.todo = @ \ {p}, !.u = p[1], !.g = p[2], !.pc = pc]
  <2>2. q.pc = "next" /\ p \in Pairs /\ p = <<p[1], p[2]>> /\ p[1] \in Users /\ p[2] \in Groups
    <3>1. q.pc = "next" /\ q.todo \subseteq Pairs
      BY <1>0, <1>5 DEF nextMembership, At, Request
    <3> QED BY <2>1, <3>1 DEF Pairs
  <2>3. n \in Request /\ Where(n)
    <3>1. n \in Request
      BY <1>0, <2>1, <2>2 DEF Request, PCs, UserIDs, GroupIDs
    <3>2. /\ n.pc = pc /\ n.op = q.op /\ n.act = q.act
          /\ q.op \in {"deleteUser", "deleteGroup", "listUsers", "listGroups"}
      BY <1>0, <2>2 DEF Fit, Request, Where
    <3>3. q.op \in {"listUsers", "listGroups"} => q.act
      BY <1>0, <2>2 DEF Fit, Where
    <3>4. Where(n)
      BY <2>1, <3>2, <3>3 DEF Where, Adding
    <3> QED BY <3>1, <3>4
  <2>4. Warranted(n, granted, used)
    BY <1>0, <2>1, <2>2 DEF Fit, Request, Where, Warranted
  <2> QED BY <1>1, <2>1, <2>3, <2>4, AdvanceQuietly DEF Fit
<1>6. CASE endMemberships(r)
  <2>1. PICK pc \in {"removeUser", "uncacheGroup", "listValid"} : Step(r, [q EXCEPT !.pc = pc])
    BY <1>6 DEF endMemberships, Goto
  <2>2. q.pc = "next"
    BY <1>6 DEF endMemberships, At
  <2>3. Fit([q EXCEPT !.pc = pc], granted, used)
    BY <1>3, <2>2
  <2> QED BY <1>1, <2>1, <2>3, AdvanceQuietly
<1>7. CASE listMemberships(r)
  <2> DEFINE n == [q EXCEPT !.pc = "next", !.todo = MembershipsOf(q), !.act = TRUE]
  <2>1. q.pc = "list" /\ (Step(r, n) \/ Step(r, Idle))
    BY <1>7 DEF listMemberships, At
  <2>2. Fit(n, granted, used)
    BY <1>0, <1>2, <2>1 DEF Fit, Request, PCs, Where, Warranted, Adding
  <2> QED BY <1>1, <2>1, <2>2, IdleFit, AdvanceQuietly
<1> QED BY <1>4, <1>5, <1>6, <1>7

\* The steps of deleting an account or a group, and the end of a listing, preserve
\* the invariant (removeUser, removeGroup, listUsersByGroup, listGroupsForUser).
LEMMA EndingsPreserve ==
    ASSUME IInv, NEW r \in Requests,
           \/ removeUser(r) \/ uncacheGroup(r) \/ removeGroup(r)
           \/ cacheListedGroup(r) \/ validateListing(r)
    PROVE  IInv'
<1> DEFINE q == req[r]
<1>0. Fit(q, granted, used) /\ q \in Request
  BY DEF IInv, TypeOK, RequestsWarranted, Fit
<1>1. CASE removeUser(r) \/ removeGroup(r)
  <2>1. /\ accounts' \subseteq accounts /\ groups' \subseteq groups
        /\ UNCHANGED <<member, byGroup, byUser, groupCache, granted, used>>
        /\ Fault \/ UNCHANGED faults
        /\ Step(r, Idle)
    BY <1>1 DEF removeUser, removeGroup, caches, history
  <2>2. faults' \in 0..MaxFaults
    BY <2>1, FaultTyped
  <2>3. StoreTyped' /\ CachesGranted'
    BY <2>1, <2>2 DEF IInv, TypeOK, StoreTyped, CachesGranted
  <2> QED BY <2>1, <2>3, IdleFit, Advance
<1>2. ASSUME NEW pc \in {"removeGroup", "cacheGroup"}, q.pc # "list"
      PROVE  Fit([q EXCEPT !.pc = pc], granted, used)
  <2>1. pc \in Undemanding /\ pc \notin {"next", "unGroup", "unGroupErase", "dbRemove"}
    BY <1>2 DEF Undemanding
  <2> QED BY <1>0, <1>2, <2>1, MoveFit
<1>3. CASE uncacheGroup(r)
  <2> DEFINE n == [q EXCEPT !.pc = "removeGroup"]
  <2>1. /\ q.pc = "uncacheGroup" /\ Step(r, n)
        /\ groupCache' = [groupCache EXCEPT ![q.g] = "none"]
        /\ UNCHANGED <<accounts, groups, member, byGroup, byUser, granted, used, faults>>
    BY <1>3 DEF uncacheGroup, At, Goto, tables, history
  <2>2. StoreTyped' /\ CachesGranted'
    BY <2>1 DEF IInv, TypeOK, StoreTyped, CachesGranted
  <2>3. Fit(n, granted, used)
    BY <1>2, <2>1
  <2> QED BY <2>1, <2>2, <2>3, Advance
<1>4. CASE cacheListedGroup(r)
  <2> DEFINE n == [q EXCEPT !.pc = "cacheGroup"]
  <2>1. /\ q.pc = "listedGroup" /\ Step(r, n)
        /\ groupCache' = [groupCache EXCEPT ![q.g] = "live"]
        /\ UNCHANGED <<accounts, groups, member, byGroup, byUser, granted, used, faults>>
    BY <1>4 DEF cacheListedGroup, At, Goto, tables, history
  <2>2. StoreTyped' /\ CachesGranted'
    BY <1>0, <2>1 DEF Fit, Warranted, IInv, TypeOK, StoreTyped, CachesGranted
  <2>3. Fit(n, granted, used)
    BY <1>2, <2>1
  <2> QED BY <2>1, <2>2, <2>3, Advance
<1>5. CASE validateListing(r)
  <2>1. /\ Step(r, Idle)
        /\ UNCHANGED <<accounts, groups, member, groupCache, granted, used, faults>>
        /\ \/ byGroup' = [byGroup EXCEPT ![q.g] = update_expiration(@)] /\ UNCHANGED byUser
           \/ byUser' = [byUser EXCEPT ![q.u] = update_expiration(@)] /\ UNCHANGED byGroup
    BY <1>5 DEF validateListing, tables, history
  <2>2. StoreTyped' /\ CachesGranted'
    <3>1. ASSUME NEW S, NEW c \in Category(S), c.known = {} => c = NoCategory
          PROVE  LET d == update_expiration(c) IN
                 /\ d \in Category(S) /\ d.known = c.known /\ d.live = c.live
                 /\ d.known = {} => d = NoCategory
      BY <3>1 DEF update_expiration, Category
    <3>2. CASE byGroup' = [byGroup EXCEPT ![q.g] = update_expiration(@)] /\ UNCHANGED byUser
      <4>1. \A g \in Groups :
              /\ byGroup'[g] \in Category(UserIDs) /\ byGroup'[g].known = byGroup[g].known
              /\ byGroup'[g].live = byGroup[g].live
              /\ byGroup'[g].known = {} => byGroup'[g] = NoCategory
        BY <3>1, <3>2 DEF IInv, TypeOK
      <4>2. byGroup' \in [Groups -> Category(UserIDs)]
        BY <3>2, <4>1 DEF IInv, TypeOK
      <4> QED BY <2>1, <3>2, <4>1, <4>2, UncachingTyped DEF IInv, TypeOK, CachesGranted
    <3>3. CASE byUser' = [byUser EXCEPT ![q.u] = update_expiration(@)] /\ UNCHANGED byGroup
      <4>1. \A u \in Users : /\ byUser'[u] \in Category(GroupIDs)
                             /\ byUser'[u].known = {} => byUser'[u] = NoCategory
        BY <3>1, <3>3 DEF IInv, TypeOK
      <4>2. byUser' \in [Users -> Category(GroupIDs)]
        BY <3>3, <4>1 DEF IInv, TypeOK
      <4> QED BY <2>1, <3>3, <4>1, <4>2, UncachingTyped DEF IInv, TypeOK, CachesGranted
    <3> QED BY <2>1, <3>2, <3>3
  <2> QED BY <2>1, <2>2, IdleFit, Advance
<1> QED BY <1>1, <1>3, <1>4, <1>5

\* So do expirations (CacheRecord::expired).
LEMMA ExpirationsPreserve == ASSUME IInv, Expire PROVE IInv'
<1>1. UNCHANGED <<accounts, groups, member, req, granted, used, faults>>
  BY DEF Expire, ExpireUsersOf, ExpireGroup, ExpireMember, ExpireGroupsOf, tables, history
<1>2. SUFFICES StoreTyped' /\ CachesGranted'
  BY <1>1 DEF IInv, TypeOK, StoreTyped, RequestsWarranted
<1> DEFINE Kept ==
        /\ byGroup' \in [Groups -> Category(UserIDs)]
        /\ \A g \in Groups : /\ byGroup'[g].known = byGroup[g].known
                             /\ byGroup'[g].known = {} => byGroup'[g] = NoCategory
                             /\ byGroup'[g].live \subseteq byGroup'[g].known
        /\ byUser' \in [Users -> Category(GroupIDs)]
        /\ \A u \in Users : byUser'[u].known = {} => byUser'[u] = NoCategory
        /\ groupCache' \in [Groups -> {"none", "live", "expired"}]
        /\ \A g \in Groups : groupCache'[g] # "none" => groupCache[g] # "none"
<1>3. Kept
  <2>1. ASSUME NEW g \in Groups, ExpireUsersOf(g) PROVE Kept
    <3> DEFINE c == [byGroup[g] EXCEPT !.valid = FALSE]
    <3>1. /\ byGroup[g].valid /\ UNCHANGED <<byUser, groupCache>>
          /\ byGroup' = [byGroup EXCEPT ![g] = c]
      BY <2>1 DEF ExpireUsersOf
    <3>2. /\ c \in Category(UserIDs) /\ c.known = byGroup[g].known
          /\ c.live \subseteq c.known
      <4>1. byGroup[g] \in Category(UserIDs) /\ byGroup[g].live \subseteq byGroup[g].known
        BY DEF IInv, TypeOK, CachesGranted
      <4> QED BY <4>1 DEF Category
    <3>3. c.known # {}
      <4>1. ASSUME byGroup[g] = NoCategory PROVE FALSE
        <5>1. NoCategory.valid = FALSE
          BY DEF NoCategory
        <5> QED BY <3>1, <4>1, <5>1, Zenon
      <4> QED BY <3>2, <4>1 DEF IInv, TypeOK
    <3> HIDE DEF c
    <3> QED BY <3>1, <3>2, <3>3 DEF IInv, TypeOK, CachesGranted
  <2>2. ASSUME NEW g \in Groups, ExpireGroup(g) PROVE Kept
    <3>1. UNCHANGED <<byGroup, byUser>> /\ groupCache' = [groupCache EXCEPT ![g] = "expired"]
      BY <2>2 DEF ExpireGroup
    <3>2. groupCache[g] # "none"
      BY <2>2 DEF ExpireGroup
    <3> QED BY <3>1, <3>2 DEF IInv, TypeOK, CachesGranted
  <2>3. ASSUME NEW g \in Groups, NEW u \in UserIDs, ExpireMember(g, u) PROVE Kept
    <3> DEFINE c == [byGroup[g] EXCEPT !.live = @ \ {u}]
    <3>1. /\ u \in byGroup[g].live /\ UNCHANGED <<byUser, groupCache>>
          /\ byGroup' = [byGroup EXCEPT ![g] = c]
      BY <2>3 DEF ExpireMember
    <3>2. /\ c \in Category(UserIDs) /\ c.known = byGroup[g].known
          /\ c.known # {} /\ c.live \subseteq c.known
      BY <3>1 DEF IInv, TypeOK, CachesGranted, Category
    <3> HIDE DEF c
    <3> QED BY <3>1, <3>2 DEF IInv, TypeOK, CachesGranted
  <2>4. ASSUME NEW u \in Users, ExpireGroupsOf(u) PROVE Kept
    <3> DEFINE c == [byUser[u] EXCEPT !.valid = FALSE]
    <3>1. /\ byUser[u].valid /\ UNCHANGED <<byGroup, groupCache>>
          /\ byUser' = [byUser EXCEPT ![u] = c]
      BY <2>4 DEF ExpireGroupsOf
    <3>2. /\ byUser[u] \in Category(GroupIDs) /\ NoCategory.valid = FALSE
          /\ byUser[u].known = {} => byUser[u] = NoCategory
      BY DEF IInv, TypeOK, NoCategory
    <3>3. byUser[u].known # {}
      BY <3>1, <3>2
    <3>4. c \in Category(GroupIDs) /\ c.known # {}
      BY <3>2, <3>3 DEF Category
    <3> HIDE DEF c
    <3> QED BY <3>1, <3>4 DEF IInv, TypeOK, CachesGranted
  <2> QED BY <2>1, <2>2, <2>3, <2>4 DEF Expire
<1> QED BY <1>1, <1>3, UncachingTyped DEF IInv, TypeOK

\* The operands an endpoint's request comes with.
Operands(op, pc, u, g) ==
    \/ op \in {"check", "edit"} /\ pc = "member" /\ g \in Groups
    \/ op \in {"add", "remove"} /\ pc = "target" /\ u \in Users /\ g \in Groups
    \/ op = "deleteGroup" /\ pc = "group" /\ g \in Groups
    \/ op = "listUsers" /\ pc = "list" /\ g \in Groups
    \/ op = "listGroups" /\ pc = "list"
    \/ op = "deleteUser" /\ pc \in {"query", "target"}
    \/ op = "create" /\ pc = "putGroup" /\ u \in Users /\ g \in Groups

\* A request that begins preserves the invariant, if a new group's ID is issued.
LEMMA BeginPreserves ==
    ASSUME IInv, NEW r \in Requests, NEW op \in Ops, NEW pc \in PCs,
           NEW by \in Users \cup {Admin}, NEW u \in UserIDs, NEW g \in GroupIDs,
           Begin(r, op, pc, by, u, g), Operands(op, pc, u, g), granted' = granted,
           IF op = "create" THEN used' = used \cup {g} ELSE used' = used
    PROVE  IInv'
<1> DEFINE n == [Idle EXCEPT !.op = op, !.pc = pc, !.by = by, !.u = u, !.g = g]
<1>2. UNCHANGED <<accounts, groups, member, byGroup, byUser, groupCache, faults>> /\ Step(r, n)
  BY DEF Begin, tables, caches
<1>3. /\ n \in Request /\ n.op = op /\ n.pc = pc /\ n.by = by /\ n.u = u /\ n.g = g
      /\ n.act = FALSE /\ n.todo = {}
  BY DEF Idle, Request
<1> HIDE DEF n
<1>4. Where(n)
  BY <1>3 DEF Where, Adding, Operands
<1>5. Warranted(n, granted', used')
  BY <1>3 DEF Warranted, Operands
<1>6. StoreTyped' /\ CachesGranted' /\ granted \subseteq granted' /\ used \subseteq used'
  BY <1>2 DEF IInv, TypeOK, StoreTyped, CachesGranted, Operands
<1> QED BY <1>2, <1>3, <1>4, <1>5, <1>6, Advance DEF Fit

\* So does whatever a client sends (the endpoints).
LEMMA StartPreserves == ASSUME IInv, NEW r \in Requests, Start(r) PROVE IInv'
<1> USE BeginPreserves DEF Operands, Ops, PCs, UserIDs, GroupIDs, history
<1>1. PICK by \in Users \cup {Admin} :
        \/ listGroupsForUser(r, by)
        \/ \E u \in Users : deleteUser(r, by, u)
        \/ \E g \in Groups :
            \/ createGroup(r, by, g)
            \/ checkMembership(r, by, g) \/ updateGroup(r, by, g)
            \/ deleteGroup(r, by, g) \/ listUsersByGroup(r, by, g)
            \/ \E u \in Users :
                  addUserToGroup(r, by, u, g) \/ removeUserFromGroup(r, by, u, g)
  BY DEF Start
<1>2. CASE listGroupsForUser(r, by)
  BY <1>2 DEF listGroupsForUser
<1>3. ASSUME NEW u \in Users, deleteUser(r, by, u) PROVE IInv'
  BY <1>3 DEF deleteUser
<1>4. ASSUME NEW g \in Groups, createGroup(r, by, g) PROVE IInv'
  BY <1>4 DEF createGroup
<1>5. ASSUME NEW g \in Groups, checkMembership(r, by, g) \/ updateGroup(r, by, g)
      PROVE  IInv'
  BY <1>5 DEF checkMembership, updateGroup
<1>6. ASSUME NEW g \in Groups, deleteGroup(r, by, g) \/ listUsersByGroup(r, by, g)
      PROVE  IInv'
  BY <1>6 DEF deleteGroup, listUsersByGroup
<1>7. ASSUME NEW g \in Groups, NEW u \in Users,
             addUserToGroup(r, by, u, g) \/ removeUserFromGroup(r, by, u, g)
      PROVE  IInv'
  BY <1>7 DEF addUserToGroup, removeUserFromGroup
<1> QED BY <1>1, <1>2, <1>3, <1>4, <1>5, <1>6, <1>7

(***************************************************************************)
(* Theorems                                                                *)
(***************************************************************************)
\* Every step of the service preserves the invariant.
LEMMA NextPreserves == ASSUME IInv, [Next]_vars PROVE IInv'
<1>1. CASE Next
  <2>1. ASSUME NEW r \in Requests, Proceed(r) PROVE IInv'
    BY <2>1, LookupsPreserve, AdditionsPreserve, RemovalsPreserve, LoopsPreserve,
       EndingsPreserve DEF Proceed
  <2> QED BY <1>1, <2>1, ExpirationsPreserve, StartPreserves DEF Next
<1>2. CASE UNCHANGED vars
  BY <1>2 DEF vars, IInv, TypeOK, RequestsWarranted, CachesGranted
<1> QED BY <1>1, <1>2

\* At any time, however requests overlap: the tables, caches and requests have
\* their types; a request that adds a member was let in by its caller being an
\* administrator or by a membership that was granted; and whoever
\* userByGroupCache lets through was granted membership at some time
\* (addUserToGroup, userInGroup, listUsersByGroup).
THEOREM MembershipInvariant == Spec => []IInv
<1>1. Init => IInv
  <2> SUFFICES ASSUME Init PROVE IInv
    OBVIOUS
  <2>1. TypeOK
    BY MembershipAssumption, IdleFit
       DEF Init, TypeOK, Pairs, Category, NoCategory, UserIDs, GroupIDs, Fit
  <2>2. RequestsWarranted
    BY IdleFit DEF Init, RequestsWarranted, Fit
  <2>3. CachesGranted
    BY DEF Init, CachesGranted, NoCategory
  <2> QED BY <2>1, <2>2, <2>3 DEF IInv
<1> QED BY <1>1, NextPreserves, PTL DEF Spec

\* Every variable has its type at any time.
THEOREM TypeCorrect == Spec => []TypeOK
BY MembershipInvariant, PTL DEF IInv

\* Only addUserToGroup's database call adds a membership, and it adds that of the
\* request which makes it and moves on.
LEMMA OnlyPutAdds ==
    ASSUME IInv, [Next]_vars, NEW p \in member' \ member
    PROVE  \E r \in Requests : putMembership(r) /\ <<req[r].u, req[r].g>> = p /\ req'[r] # req[r]
<1>1. ~(member' \subseteq member)
  OBVIOUS
<1>2. PICK r \in Requests : putMembership(r)
  <2>1. ASSUME Expire PROVE UNCHANGED member
    BY <2>1 DEF Expire, ExpireUsersOf, ExpireGroup, ExpireMember, ExpireGroupsOf, tables
  <2>2. ASSUME NEW r \in Requests, Start(r) PROVE UNCHANGED member
    <3>1. ASSUME NEW op, NEW pc, NEW by, NEW u, NEW g, Begin(r, op, pc, by, u, g)
          PROVE  UNCHANGED member
      BY <3>1 DEF Begin, tables
    <3> QED BY <2>2, <3>1 DEF Start, listGroupsForUser, deleteUser, createGroup, checkMembership,
               updateGroup, deleteGroup, listUsersByGroup, addUserToGroup, removeUserFromGroup
  <2>3. ASSUME NEW r \in Requests, Proceed(r), ~putMembership(r) PROVE member' \subseteq member
    BY <2>3 DEF Proceed, getUser, findGroupByID, cacheFoundGroup, userInGroup, cacheMembership,
       cacheUser, cacheGroup, putGroup, cacheNewGroup, uncacheUser, findCachedGroup,
       uncacheGroupOfUser, dbRemoveMembership, queryMemberships, nextMembership,
       endMemberships, removeUser, uncacheGroup, removeGroup, listMemberships,
       cacheListedGroup, validateListing, tables
  <2>4. ASSUME UNCHANGED vars PROVE UNCHANGED member
    BY <2>4 DEF vars
  <2> QED BY <1>1, <2>1, <2>2, <2>3, <2>4 DEF Next
<1>3. req[r].pc = "put" /\ req[r] \in Request
  BY <1>2 DEF putMembership, At, IInv, TypeOK
<1>4. req'[r].pc # "put"
  BY <1>2, <1>3 DEF putMembership, Goto, Step, Idle, IInv, TypeOK, Request
<1> QED BY <1>2, <1>3, <1>4 DEF putMembership

\* A membership is stored only at the request of an administrator, of the group's
\* founder, or of someone who was a member before, whatever overlaps and however
\* stale the cached membership is that let the caller pass (addUserToGroup,
\* userInGroup).
THEOREM AdmissionsWarranted == Spec => OnlyMembersAdmit
<1>1. ASSUME IInv, [Next]_vars, NEW p \in member' \ member
      PROVE  \E r \in Requests :
                /\ At(r, "put") /\ req'[r] # req[r] /\ <<req[r].u, req[r].g>> = p
                /\ \/ req[r].by = Admin \/ req[r].op = "create"
                   \/ <<req[r].by, p[2]>> \in granted
  <2>1. PICK r \in Requests :
          putMembership(r) /\ <<req[r].u, req[r].g>> = p /\ req'[r] # req[r]
    BY <1>1, OnlyPutAdds
  <2>2. Where(req[r]) /\ Warranted(req[r], granted, used) /\ At(r, "put")
    BY <1>1, <2>1 DEF IInv, RequestsWarranted, putMembership
  <2>3. req[r].act /\ req[r].op \in {"add", "create"}
    BY <2>2 DEF Where, At, Adding
  <2>4. p[2] = req[r].g
    BY <2>1
  <2> QED BY <2>1, <2>2, <2>3, <2>4 DEF Warranted
<1>2. IInv /\ [Next]_vars =>
        [\A p \in member' \ member :
            \E r \in Requests :
                /\ At(r, "put") /\ req'[r] # req[r] /\ <<req[r].u, req[r].g>> = p
                /\ \/ req[r].by = Admin \/ req[r].op = "create"
                   \/ <<req[r].by, p[2]>> \in granted]_vars
  BY <1>1
<1> QED BY <1>2, MembershipInvariant, PTL DEF Spec, OnlyMembersAdmit

(***************************************************************************)
(* Listings of a group's members                                           *)
(***************************************************************************)
\* A member whom userByGroupCache does not list.
Unseen(p) == p \in member /\ p[1] \in accounts /\ p[1] \notin byGroup[p[2]].known

\* The request is about to list the member, or to remove the membership.
Pends(q, p) ==
    /\ <<q.u, q.g>> = p
    /\ \/ q.pc = "cacheUser" /\ q.op \in {"add", "create"}
       \/ q.pc \in {"unGroup", "unGroupErase", "dbRemove"}

\* A listing in progress has still to come to the member, or is about to list it.
Awaited(q, p) ==
    q.op = "listUsers" /\ q.g = p[2] /\ q.pc \in {"next", "target", "cacheUser", "listValid"} =>
        \/ p \in q.todo
        \/ q.pc \in {"target", "cacheUser"} /\ q.u = p[1] /\ (q.pc = "cacheUser" => q.foundUser)

\* A listing goes through what it has read about its group and then is over.
Lister(q) ==
    q.op = "listUsers" =>
        /\ q.pc \in {"list", "next", "target", "cacheUser", "listValid"}
        /\ \A p \in q.todo : p[2] = q.g
        /\ q.pc = "listValid" => q.todo = {}

\* What the cache does not list is in the hands of a request; or no listing of
\* the group counts as complete, and none in progress will miss it.
ListingKept ==
    \A p \in Pairs : Unseen(p) =>
        \/ \E r \in Requests : Pends(req[r], p)
        \/ ~byGroup[p[2]].valid /\ \A r \in Requests : Awaited(req[r], p)

ListInv ==
    /\ \A r \in Requests : Lister(req[r])
    /\ faults = 0 => ListingKept

\* A step of a request from q to n keeps that for p.
Keeps(q, n, p) ==
    \/ Pends(n, p)
    \/ /\ Unseen(p) /\ ~Pends(q, p)
       /\ ~byGroup[p[2]].valid /\ Awaited(q, p) => ~byGroup'[p[2]].valid /\ Awaited(n, p)

\* What a step of a request has to establish, for each membership.
LEMMA ListingsAdvance ==
    ASSUME IInv, ListInv, NEW r \in Requests, NEW n, Step(r, n), Lister(n),
           faults' = 0 => faults = 0 /\ \A p \in Pairs : Unseen(p)' => Keeps(req[r], n, p)
    PROVE  ListInv'
<1>1. req'[r] = n /\ \A s \in Requests : s # r => req'[s] = req[s]
  BY DEF IInv, TypeOK, Step
<1>2. \A s \in Requests : Lister(req'[s])
  BY <1>1 DEF ListInv
<1>3. ASSUME faults' = 0, NEW p \in Pairs, Unseen(p)'
      PROVE  \/ \E s \in Requests : Pends(req'[s], p)
             \/ ~byGroup'[p[2]].valid /\ \A s \in Requests : Awaited(req'[s], p)
  <2>1. Keeps(req[r], n, p) /\ ListingKept
    BY <1>3 DEF ListInv
  <2>2. CASE Pends(n, p)
    BY <1>1, <2>2
  <2>3. CASE ~Pends(n, p)
    <3>1. /\ Unseen(p) /\ ~Pends(req[r], p)
          /\ ~byGroup[p[2]].valid /\ Awaited(req[r], p) => ~byGroup'[p[2]].valid /\ Awaited(n, p)
      BY <2>1, <2>3 DEF Keeps
    <3>2. CASE \E s \in Requests : Pends(req[s], p)
      BY <1>1, <3>1, <3>2
    <3>3. CASE ~byGroup[p[2]].valid /\ \A s \in Requests : Awaited(req[s], p)
      BY <1>1, <3>1, <3>3
    <3> QED BY <2>1, <3>1, <3>2, <3>3 DEF ListingKept
  <2> QED BY <2>2, <2>3
<1> QED BY <1>2, <1>3 DEF ListInv, ListingKept

\* A call that fails is counted.
LEMMA FaultCounted == ASSUME IInv, Fault \/ UNCHANGED faults PROVE faults' = 0 => faults = 0 /\ ~Fault
BY MembershipAssumption DEF IInv, TypeOK, Fault

\* Neither listing members nor adding or removing one.
LEMMA UnrelatedKeeps ==
    ASSUME IInv, ListInv, NEW r \in Requests, NEW n, Step(r, n),
           req[r].op # "listUsers", n.op \in {req[r].op, "none"},
           req[r].pc \notin {"cacheUser", "unGroup", "unGroupErase", "dbRemove"},
           accounts' \subseteq accounts, member' \subseteq member, UNCHANGED byGroup,
           Fault \/ UNCHANGED faults
    PROVE  ListInv'
<1>1. n.op # "listUsers"
  OBVIOUS
<1>2. Lister(n) /\ \A p : Awaited(n, p) /\ ~Pends(req[r], p)
  BY <1>1 DEF Lister, Awaited, Pends
<1>3. \A p \in Pairs : Unseen(p)' => Keeps(req[r], n, p)
  <2> SUFFICES ASSUME NEW p \in Pairs, Unseen(p)' PROVE Keeps(req[r], n, p)
    OBVIOUS
  <2>1. Unseen(p)
    BY DEF Unseen
  <2> QED BY <1>2, <2>1 DEF Keeps
<1> QED BY <1>2, <1>3, FaultCounted, ListingsAdvance

\* A handler that goes on keeps its endpoint, or has answered.
LEMMA OpKept ==
    ASSUME NEW q \in Request, NEW ok \in BOOLEAN
    PROVE  /\ AfterTarget(q, ok).op \in {q.op, "none"}
           /\ AfterGroup(q, ok).op \in {q.op, "none"}
           /\ AfterMember(q).op \in {q.op, "none"}
           /\ \A pc : [q EXCEPT !.pc = pc].op = q.op
<1>1. AfterTarget(q, ok).op \in {q.op, "none"}
  <2>1. \A pc : [q EXCEPT !.pc = pc, !.foundUser = ok].op = q.op /\ [q EXCEPT !.pc = pc].op = q.op
    BY DEF Request
  <2> QED BY <2>1 DEF AfterTarget, Idle
<1>2. AfterGroup(q, ok).op \in {q.op, "none"}
  <2>1. \A pc : [q EXCEPT !.pc = pc, !.foundGroup = ok].op = q.op /\ [q EXCEPT !.pc = pc].op = q.op
    BY DEF Request
  <2> QED BY <2>1 DEF AfterGroup, Idle
<1>3. AfterMember(q).op \in {q.op, "none"}
  <2>1. \A pc : [q EXCEPT !.pc = pc, !.act = TRUE].op = q.op /\ [q EXCEPT !.pc = pc].op = q.op
    BY DEF Request
  <2> QED BY <2>1 DEF AfterMember, Idle
<1> QED BY <1>1, <1>2, <1>3 DEF Request

\* The steps that have nothing to do with a group's list of members.
LEMMA OtherStepsKeep ==
    ASSUME IInv, ListInv, NEW r \in Requests,
           \/ findGroupByID(r) \/ cacheFoundGroup(r) \/ userInGroup(r) \/ cacheGroup(r)
           \/ putGroup(r) \/ cacheNewGroup(r) \/ queryMemberships(r) \/ removeUser(r)
           \/ uncacheGroup(r) \/ removeGroup(r) \/ cacheListedGroup(r)
    PROVE  ListInv'
<1> DEFINE q == req[r]
<1>0. q \in Request /\ Lister(q) /\ Where(q)
  BY DEF IInv, TypeOK, RequestsWarranted, ListInv
<1>1. /\ q.pc \in {"group", "groupFill", "member", "cacheGroup", "putGroup", "cacheNewGroup", "query",
                   "removeUser", "uncacheGroup", "removeGroup", "listedGroup"}
      /\ accounts' \subseteq accounts /\ UNCHANGED <<member, byGroup>> /\ (Fault \/ UNCHANGED faults)
  BY DEF findGroupByID, cacheFoundGroup, userInGroup, cacheGroup, putGroup, cacheNewGroup,
         queryMemberships, removeUser, uncacheGroup, removeGroup, cacheListedGroup, At, tables, caches
<1>2. q.op # "listUsers"
  BY <1>0, <1>1 DEF Lister
<1>3. ASSUME NEW n, Step(r, n), n.op \in {q.op, "none"} PROVE ListInv'
  BY <1>1, <1>2, <1>3, UnrelatedKeeps
<1>4. Idle.op = "none" /\ \A pc : [q EXCEPT !.pc = pc].op = q.op
  BY <1>0, OpKept DEF Idle
<1>5. CASE findGroupByID(r)
  BY <1>0, <1>3, <1>4, <1>5, OpKept DEF findGroupByID, Goto
<1>6. CASE cacheFoundGroup(r)
  BY <1>0, <1>3, <1>6, OpKept DEF cacheFoundGroup
<1>7. CASE userInGroup(r)
  BY <1>0, <1>3, <1>4, <1>7, OpKept DEF userInGroup, Goto
<1>8. CASE cacheGroup(r)
  BY <1>3, <1>4, <1>8 DEF cacheGroup
<1>9. CASE putGroup(r)
  BY <1>3, <1>4, <1>9 DEF putGroup, Goto
<1>10. CASE cacheNewGroup(r)
  <2>1. [q EXCEPT !.pc = "group", !.act = TRUE].op = q.op
    BY <1>0 DEF Request
  <2> QED BY <1>3, <1>4, <1>10, <2>1 DEF cacheNewGroup
<1>11. CASE queryMemberships(r)
  <2>1. \A S : [q EXCEPT !.pc = "next", !.todo = S].op = q.op
    BY <1>0 DEF Request
  <2> QED BY <1>3, <1>4, <1>11, <2>1 DEF queryMemberships, Goto
<1>12. CASE removeUser(r)
  BY <1>3, <1>4, <1>12 DEF removeUser
<1>13. CASE uncacheGroup(r)
  BY <1>3, <1>4, <1>13 DEF uncacheGroup, Goto
<1>14. CASE removeGroup(r)
  BY <1>3, <1>4, <1>14 DEF removeGroup
<1>15. CASE cacheListedGroup(r)
  BY <1>3, <1>4, <1>15 DEF cacheListedGroup, Goto
<1> QED BY <1>5, <1>6, <1>7, <1>8, <1>9, <1>10, <1>11, <1>12, <1>13, <1>14, <1>15

\* A listing goes on, and what it had still to come to stays so.
LEMMA ListingGoesOn ==
    ASSUME IInv, ListInv, NEW r \in Requests, NEW n, Step(r, n), req[r].op = "listUsers", Lister(n),
           UNCHANGED <<accounts, member, byGroup>>, Fault \/ UNCHANGED faults,
           UNCHANGED faults => \A p \in Pairs : Unseen(p) /\ Awaited(req[r], p) => Awaited(n, p)
    PROVE  ListInv'
<1>1. \A p : ~Pends(req[r], p)
  BY DEF ListInv, Lister, Pends
<1>2. ASSUME UNCHANGED faults, NEW p \in Pairs, Unseen(p)' PROVE Keeps(req[r], n, p)
  <2>1. Unseen(p)
    BY <1>2 DEF Unseen
  <2> QED BY <1>1, <1>2, <2>1 DEF Keeps
<1> QED BY <1>2, FaultCounted, ListingsAdvance

\* Steps of listings, and those of other endpoints which share them.
LEMMA LoopStepsKeep ==
    ASSUME IInv, ListInv, NEW r \in Requests,
           getUser(r) \/ nextMembership(r) \/ endMemberships(r) \/ listMemberships(r)
    PROVE  ListInv'
<1> DEFINE q == req[r]
<1>0. q \in Request /\ Lister(q) /\ Where(q) /\ Warranted(q, granted, used)
  BY DEF IInv, TypeOK, RequestsWarranted, ListInv
<1>1. /\ q.pc \in {"target", "next", "list"} /\ UNCHANGED <<accounts, member, byGroup>>
      /\ Fault \/ UNCHANGED faults
  BY DEF getUser, nextMembership, endMemberships, listMemberships, At, tables, caches
<1>2. ASSUME q.op # "listUsers", NEW n, Step(r, n), n.op \in {q.op, "none"} PROVE ListInv'
  BY <1>1, <1>2, UnrelatedKeeps
<1>3. Lister(Idle) /\ Idle.op = "none" /\ \A p : Awaited(Idle, p)
  BY DEF Lister, Awaited, Idle
<1>4. CASE getUser(r)
  <2>1. PICK ok \in BOOLEAN : Step(r, AfterTarget(q, ok)) /\ (Fault \/ (ok <=> q.u \in accounts))
    <3>1. CASE Step(r, AfterTarget(q, q.u \in accounts))
      <4>1. (q.u \in accounts) \in BOOLEAN
        OBVIOUS
      <4> QED BY <3>1, <4>1, Zenon
    <3>2. CASE Fault /\ Step(r, AfterTarget(q, FALSE))
      BY <3>2, Zenon
    <3> QED BY <1>4, <3>1, <3>2 DEF getUser
  <2>2. CASE q.op # "listUsers"
    BY <1>0, <1>2, <2>1, <2>2, OpKept
  <2>3. CASE q.op = "listUsers"
    <3>1. PICK n : n = [q EXCEPT !.pc = "cacheUser", !.foundUser = ok]
      OBVIOUS
    <3>2. Step(r, n) /\ q.pc = "target"
      BY <1>0, <1>4, <2>1, <2>3, <3>1 DEF AfterTarget, Where, Adding, getUser, At
    <3>3. /\ n.op = q.op /\ n.pc = "cacheUser" /\ n.u = q.u /\ n.g = q.g /\ n.todo = q.todo
          /\ n.foundUser = ok
      BY <1>0, <3>1 DEF Request
    <3>4. Lister(n)
      BY <1>0, <3>3 DEF Lister
    <3>5. ASSUME UNCHANGED faults, NEW p \in Pairs, Unseen(p), Awaited(q, p) PROVE Awaited(n, p)
      <4>1. ok <=> q.u \in accounts
        <5>1. ~Fault
          BY <3>5, MembershipAssumption DEF Fault, IInv, TypeOK
        <5> QED BY <2>1, <5>1
      <4> QED BY <2>3, <3>2, <3>3, <3>5, <4>1 DEF Awaited, Unseen
    <3> QED BY <1>1, <2>3, <3>2, <3>4, <3>5, ListingGoesOn
  <2> QED BY <2>2, <2>3
<1>5. CASE nextMembership(r)
  <2>1. PICK m \in q.todo, pc \in PCs :
          /\ Step(r, [q EXCEPT !.todo = @ \ {m}, !.u = m[1], !.g = m[2], !.pc = pc])
          /\ q.op = "listUsers" => pc = "target"
    BY <1>5 DEF nextMembership, PCs
  <2>2. PICK n : n = [q EXCEPT !.todo = @ \ {m}, !.u = m[1], !.g = m[2], !.pc = pc]
    OBVIOUS
  <2>3. n.op = q.op /\ n.pc = pc /\ n.u = m[1] /\ n.g = m[2] /\ n.todo = q.todo \ {m} /\ Step(r, n)
    BY <1>0, <2>1, <2>2 DEF Request
  <2>4. CASE q.op = "listUsers"
    <3>1. q.pc = "next" /\ pc = "target" /\ m[2] = q.g
      BY <1>0, <1>5, <2>1, <2>4 DEF nextMembership, At, Lister
    <3>2. Lister(n)
      BY <1>0, <2>3, <2>4, <3>1 DEF Lister
    <3>3. \A p \in Pairs : Awaited(q, p) => Awaited(n, p)
      BY <2>3, <2>4, <3>1 DEF Awaited
    <3> QED BY <1>1, <2>3, <2>4, <3>2, <3>3, ListingGoesOn
  <2> QED BY <1>2, <2>3, <2>4
<1>6. CASE endMemberships(r)
  <2>1. PICK pc : Goto(r, pc) /\ (q.op = "listUsers" => pc = "listValid")
    BY <1>6 DEF endMemberships
  <2>2. PICK n : n = [q EXCEPT !.pc = pc]
    OBVIOUS
  <2>3. n.op = q.op /\ n.pc = pc /\ n.g = q.g /\ n.todo = q.todo /\ Step(r, n)
    BY <1>0, <2>1, <2>2 DEF Request, Goto
  <2>4. CASE q.op = "listUsers"
    <3>1. q.pc = "next" /\ q.todo = {} /\ pc = "listValid"
      BY <1>6, <2>1, <2>4 DEF endMemberships, At
    <3>2. Lister(n)
      BY <2>3, <3>1 DEF Lister
    <3>3. \A p \in Pairs : Awaited(q, p) => Awaited(n, p)
      BY <2>3, <2>4, <3>1 DEF Awaited
    <3> QED BY <1>1, <2>3, <2>4, <3>2, <3>3, ListingGoesOn
  <2> QED BY <1>2, <2>3, <2>4
<1>7. CASE listMemberships(r)
  <2>1. PICK n : n = [q EXCEPT !.pc = "next", !.todo = MembershipsOf(q), !.act = TRUE]
    OBVIOUS
  <2>2. Step(r, Idle) \/ Step(r, n)
    BY <1>7, <2>1 DEF listMemberships
  <2>3. n.op = q.op /\ n.pc = "next" /\ n.g = q.g /\ n.todo = MembershipsOf(q)
    BY <1>0, <2>1 DEF Request
  <2>4. CASE q.op # "listUsers"
    BY <1>2, <1>3, <2>2, <2>3, <2>4
  <2>5. CASE q.op = "listUsers" /\ Step(r, Idle)
    BY <1>1, <1>3, <2>5, ListingGoesOn
  <2>6. CASE q.op = "listUsers" /\ Step(r, n)
    <3>1. n.todo = {p \in member : p[2] = q.g}
      BY <2>3, <2>6 DEF MembershipsOf
    <3>2. Lister(n)
      BY <2>3, <3>1 DEF Lister
    <3>3. \A p \in Pairs : Unseen(p) => Awaited(n, p)
      BY <2>3, <3>1 DEF Awaited, Unseen
    <3> QED BY <1>1, <2>6, <3>2, <3>3, ListingGoesOn
  <2> QED BY <2>2, <2>4, <2>5, <2>6
<1> QED BY <1>4, <1>5, <1>6, <1>7

\* A membership that is stored is in the hands of the request that stored it.
LEMMA PutKeeps == ASSUME IInv, ListInv, NEW r \in Requests, putMembership(r) PROVE ListInv'
<1> DEFINE q == req[r]
<1>0. q \in Request /\ Where(q)
  BY DEF IInv, TypeOK, RequestsWarranted
<1>1. /\ q.pc = "put" /\ q.op \in {"add", "create"} /\ UNCHANGED <<accounts, byGroup>>
  BY <1>0 DEF putMembership, At, caches, Where, Adding
<1>2. CASE member' = member \cup {<<q.u, q.g>>} /\ Goto(r, "cacheUser") /\ UNCHANGED faults
  <2>1. PICK n : n = [q EXCEPT !.pc = "cacheUser"]
    OBVIOUS
  <2>2. n.op = q.op /\ n.pc = "cacheUser" /\ n.u = q.u /\ n.g = q.g /\ Step(r, n)
    BY <1>0, <1>2, <2>1 DEF Request, Goto
  <2>3. Lister(n) /\ (\A p : Awaited(n, p) /\ ~Pends(q, p)) /\ Pends(n, <<q.u, q.g>>)
    BY <1>1, <2>2 DEF Lister, Awaited, Pends
  <2>4. ASSUME NEW p \in Pairs, Unseen(p)' PROVE Keeps(q, n, p)
    <3>1. CASE p = <<q.u, q.g>>
      BY <2>3, <3>1 DEF Keeps
    <3>2. CASE p # <<q.u, q.g>>
      <4>1. Unseen(p)
        BY <1>1, <1>2, <2>4, <3>2 DEF Unseen
      <4> QED BY <1>1, <2>3, <4>1 DEF Keeps
    <3> QED BY <3>1, <3>2
  <2> QED BY <1>2, <2>2, <2>3, <2>4, ListingsAdvance
<1>3. CASE Fault /\ Step(r, Idle)
  <2>1. faults' # 0
    BY <1>3, MembershipAssumption DEF Fault, IInv, TypeOK
  <2>2. Lister(Idle)
    BY DEF Lister, Idle
  <2> QED BY <1>3, <2>1, <2>2, ListingsAdvance
<1> QED BY <1>2, <1>3 DEF putMembership

\* Who is about to be removed stays in the request's hands until the membership
\* is gone.
LEMMA RemovingKeeps ==
    ASSUME IInv, ListInv, NEW r \in Requests,
           findCachedGroup(r) \/ uncacheGroupOfUser(r) \/ dbRemoveMembership(r)
    PROVE  ListInv'
<1> DEFINE q == req[r]
<1>0. q \in Request /\ Where(q)
  BY DEF IInv, TypeOK, RequestsWarranted
<1>1. q.pc \in {"unGroup", "unGroupErase", "dbRemove"} /\ UNCHANGED <<accounts, byGroup>> /\ q.op # "listUsers"
  BY <1>0 DEF findCachedGroup, uncacheGroupOfUser, dbRemoveMembership, At, tables, caches, Where
<1>2. CASE findCachedGroup(r) \/ uncacheGroupOfUser(r)
  <2>1. PICK pc \in {"unGroupErase", "dbRemove"} : Goto(r, pc) /\ UNCHANGED <<member, faults>>
    BY <1>2 DEF findCachedGroup, uncacheGroupOfUser, tables
  <2>2. PICK n : n = [q EXCEPT !.pc = pc]
    OBVIOUS
  <2>3. n.op = q.op /\ n.pc = pc /\ n.u = q.u /\ n.g = q.g /\ Step(r, n)
    BY <1>0, <2>1, <2>2 DEF Request, Goto
  <2>4. Lister(n) /\ \A p : Awaited(n, p) /\ (Pends(q, p) => Pends(n, p))
    BY <1>1, <2>1, <2>3 DEF Lister, Awaited, Pends
  <2>5. ASSUME NEW p \in Pairs, Unseen(p)' PROVE Keeps(q, n, p)
    <3>1. Unseen(p)
      BY <1>1, <2>1, <2>5 DEF Unseen
    <3> QED BY <1>1, <2>4, <3>1 DEF Keeps
  <2> QED BY <2>1, <2>3, <2>4, <2>5, ListingsAdvance
<1>3. CASE dbRemoveMembership(r)
  <2>1. PICK n \in {Idle, [q EXCEPT !.pc = "next"]} :
          Step(r, n) /\ (Fault \/ (UNCHANGED faults /\ member' = member \ {<<q.u, q.g>>}))
    <3>1. PICK idle \in BOOLEAN :
            /\ Step(r, IF idle THEN Idle ELSE [q EXCEPT !.pc = "next"])
            /\ Fault \/ (UNCHANGED faults /\ member' = member \ {<<q.u, q.g>>})
      BY <1>3 DEF dbRemoveMembership
    <3> QED BY <3>1
  <2>2. n.op \in {q.op, "none"}
    BY <1>0 DEF Idle, Request
  <2>3. Lister(n) /\ \A p : Awaited(n, p)
    BY <1>1, <2>2 DEF Lister, Awaited
  <2>4. ASSUME faults' = 0, NEW p \in Pairs, Unseen(p)' PROVE Keeps(q, n, p)
    <3>1. member' = member \ {<<q.u, q.g>>}
      BY <2>1, <2>4, FaultCounted
    <3>2. Unseen(p) /\ ~Pends(q, p)
      BY <1>1, <2>4, <3>1 DEF Unseen, Pends
    <3> QED BY <1>1, <2>3, <3>2 DEF Keeps
  <2> QED BY <2>1, <2>3, <2>4, FaultCounted, ListingsAdvance
<1> QED BY <1>2, <1>3

\* What insert_or_assign, erase and update_expiration do to a group's category.
LEMMA CategoryChanges ==
    ASSUME IInv, NEW g \in Groups, NEW x,
           \/ byGroup' = [byGroup EXCEPT ![g] = insert_or_assign(@, x)]
           \/ byGroup' = [byGroup EXCEPT ![g] = erase(@, x)]
    PROVE  /\ \A h \in Groups : h # g => byGroup'[h] = byGroup[h]
           /\ ~byGroup[g].valid => ~byGroup'[g].valid
           /\ byGroup[g].known \subseteq byGroup'[g].known \cup {x}
           /\ byGroup' = [byGroup EXCEPT ![g] = insert_or_assign(@, x)] => x \in byGroup'[g].known
<1> DEFINE c == byGroup[g]
<1>1. c \in Category(UserIDs) /\ byGroup \in [Groups -> Category(UserIDs)]
  BY DEF IInv, TypeOK
<1>2. CASE byGroup' = [byGroup EXCEPT ![g] = insert_or_assign(@, x)]
  <2>1. PICK d : d = insert_or_assign(c, x)
    OBVIOUS
  <2>2. d.known = c.known \cup {x} /\ d.valid = c.valid
    BY <1>1, <2>1 DEF insert_or_assign, Category
  <2>3. byGroup'[g] = d /\ \A h \in Groups : h # g => byGroup'[h] = byGroup[h]
    BY <1>1, <1>2, <2>1
  <2>4. ~c.valid => ~d.valid
    BY <2>2, Zenon
  <2> QED BY <2>2, <2>3, <2>4
<1>3. CASE byGroup' = [byGroup EXCEPT ![g] = erase(@, x)]
  <2>1. PICK d : d = erase(c, x)
    OBVIOUS
  <2>2. c.known \subseteq d.known \cup {x} /\ (~c.valid => ~d.valid)
    <3>1. CASE c.known \subseteq {x}
      BY <2>1, <3>1 DEF erase, NoCategory
    <3>2. CASE ~(c.known \subseteq {x})
      <4>1. d.known = c.known \ {x} /\ d.valid = c.valid
        BY <1>1, <2>1, <3>2 DEF erase, Category
      <4>2. ~c.valid => ~d.valid
        BY <4>1, Zenon
      <4> QED BY <4>1, <4>2
    <3> QED BY <3>1, <3>2
  <2>3. byGroup'[g] = d /\ \A h \in Groups : h # g => byGroup'[h] = byGroup[h]
    BY <1>1, <1>3, <2>1
  <2>4. byGroup' = [byGroup EXCEPT ![g] = insert_or_assign(@, x)] => x \in byGroup'[g].known
    <3>1. insert_or_assign(c, x).known = c.known \cup {x}
      BY <1>1 DEF insert_or_assign, Category
    <3> QED BY <1>1, <3>1
  <2> QED BY <2>2, <2>3, <2>4
<1> QED BY <1>2, <1>3

\* What changes the lists of members.
LEMMA CacheStepsKeep ==
    ASSUME IInv, ListInv, NEW r \in Requests,
           cacheMembership(r) \/ cacheUser(r) \/ uncacheUser(r) \/ validateListing(r)
    PROVE  ListInv'
<1> DEFINE q == req[r]
<1>0. q \in Request /\ Lister(q) /\ Where(q) /\ Warranted(q, granted, used)
  BY DEF IInv, TypeOK, RequestsWarranted, ListInv
<1>1. UNCHANGED <<accounts, member, faults>>
  BY DEF cacheMembership, cacheUser, uncacheUser, validateListing, tables
<1>2. CASE cacheMembership(r)
  <2>1. /\ q.pc = "memberFill" /\ Step(r, AfterMember(q))
        /\ byGroup' = [byGroup EXCEPT ![q.g] = insert_or_assign(@, Asked(q))]
    BY <1>2 DEF cacheMembership, At
  <2>2. q.op # "listUsers"
    BY <1>0, <2>1 DEF Lister
  <2>3. Lister(AfterMember(q)) /\ \A p : Awaited(AfterMember(q), p) /\ ~Pends(q, p)
    BY <1>0, <2>1, <2>2, OpKept DEF Lister, Awaited, Pends
  <2>4. ASSUME NEW p \in Pairs, Unseen(p)' PROVE Keeps(q, AfterMember(q), p)
    <3>1. p[2] \in Groups
      BY DEF Pairs
    <3>2. CASE q.g \in Groups
      <4>1. Unseen(p) /\ (~byGroup[p[2]].valid => ~byGroup'[p[2]].valid)
        <5>1. CASE p[2] # q.g
          BY <1>1, <2>1, <2>4, <3>1, <3>2, <5>1, CategoryChanges DEF Unseen
        <5>2. CASE p[2] = q.g
          <6>1. /\ byGroup[q.g].known \subseteq byGroup'[q.g].known \cup {Asked(q)}
                /\ Asked(q) \in byGroup'[q.g].known /\ (~byGroup[q.g].valid => ~byGroup'[q.g].valid)
            BY <2>1, <3>2, CategoryChanges
          <6> QED BY <1>1, <2>4, <5>2, <6>1 DEF Unseen
        <5> QED BY <5>1, <5>2
      <4> QED BY <2>3, <4>1 DEF Keeps
    <3>3. CASE q.g \notin Groups
      <4>1. byGroup' = byGroup
        BY <2>1, <3>3 DEF IInv, TypeOK
      <4>2. Unseen(p)
        BY <1>1, <2>4, <4>1 DEF Unseen
      <4> QED BY <2>3, <4>1, <4>2 DEF Keeps
    <3> QED BY <3>2, <3>3
  <2> QED BY <1>1, <2>1, <2>3, <2>4, ListingsAdvance
<1>3. CASE cacheUser(r)
  <2>1. PICK x, n : /\ x = (IF q.op = "listUsers" /\ ~q.foundUser THEN None ELSE q.u)
                    /\ n = [q EXCEPT !.pc = IF q.op = "listUsers" THEN "next" ELSE "cacheGroup"]
    OBVIOUS
  <2>2. /\ q.pc = "cacheUser" /\ Step(r, n)
        /\ byGroup' = [byGroup EXCEPT ![q.g] = insert_or_assign(@, x)]
    BY <1>3, <2>1 DEF cacheUser, At, Goto
  <2>3. /\ n.op = q.op /\ n.u = q.u /\ n.g = q.g /\ n.todo = q.todo
        /\ n.pc = IF q.op = "listUsers" THEN "next" ELSE "cacheGroup"
    BY <1>0, <2>1 DEF Request
  <2>4. q.g \in Groups
    BY <1>0, <2>2 DEF Where, Warranted
  <2>5. Lister(n)
    BY <1>0, <2>3 DEF Lister
  <2>6. /\ \A h \in Groups : h # q.g => byGroup'[h] = byGroup[h]
        /\ ~byGroup[q.g].valid => ~byGroup'[q.g].valid
        /\ byGroup[q.g].known \subseteq byGroup'[q.g].known \cup {x}
        /\ x \in byGroup'[q.g].known
    BY <2>2, <2>4, CategoryChanges
  <2>7. ASSUME NEW p \in Pairs, Unseen(p)' PROVE Keeps(q, n, p)
    <3>1. p[2] \in Groups /\ p = <<p[1], p[2]>>
      BY DEF Pairs
    <3>2. Unseen(p) /\ (~byGroup[p[2]].valid => ~byGroup'[p[2]].valid)
      BY <1>1, <2>6, <2>7, <3>1 DEF Unseen
    <3>3. p # <<x, q.g>>
      BY <2>6, <2>7, <3>1 DEF Unseen
    <3>4. ~Pends(q, p) /\ (Awaited(q, p) => Awaited(n, p))
      <4>1. CASE q.op = "listUsers"
        <5>1. ~Pends(q, p)
          BY <2>2, <4>1 DEF Pends
        <5>2. ASSUME Awaited(q, p), q.g = p[2] PROVE p \in q.todo
          BY <2>1, <2>2, <3>1, <3>3, <4>1, <5>2 DEF Awaited
        <5> QED BY <2>3, <5>1, <5>2 DEF Awaited
      <4>2. CASE q.op # "listUsers"
        <5>1. x = q.u
          BY <2>1, <4>2
        <5> QED BY <2>2, <2>3, <3>3, <4>2, <5>1 DEF Pends, Awaited
      <4> QED BY <4>1, <4>2
    <3> QED BY <3>2, <3>4 DEF Keeps
  <2> QED BY <1>1, <2>2, <2>5, <2>7, ListingsAdvance
<1>4. CASE uncacheUser(r)
  <2>1. PICK n : n = [q EXCEPT !.pc = "unGroup"]
    OBVIOUS
  <2>2. /\ q.pc = "unUser" /\ Step(r, n) /\ byGroup' = [byGroup EXCEPT ![q.g] = erase(@, q.u)]
    BY <1>4, <2>1 DEF uncacheUser, At, Goto
  <2>3. n.op = q.op /\ n.u = q.u /\ n.g = q.g /\ n.pc = "unGroup" /\ q.op # "listUsers"
    BY <1>0, <2>1, <2>2 DEF Request, Where
  <2>4. Lister(n) /\ \A p : Awaited(n, p) /\ ~Pends(q, p)
    BY <2>2, <2>3 DEF Lister, Awaited, Pends
  <2>5. ASSUME NEW p \in Pairs, Unseen(p)' PROVE Keeps(q, n, p)
    <3>1. p[2] \in Groups /\ p = <<p[1], p[2]>>
      BY DEF Pairs
    <3>2. CASE p = <<q.u, q.g>>
      BY <2>3, <3>2 DEF Keeps, Pends
    <3>3. CASE p[2] # q.g
      <4>1. byGroup'[p[2]] = byGroup[p[2]]
        BY <2>2, <3>1, <3>3 DEF IInv, TypeOK
      <4>2. Unseen(p)
        BY <1>1, <2>5, <4>1 DEF Unseen
      <4> QED BY <2>4, <4>1, <4>2 DEF Keeps
    <3>4. CASE p[2] = q.g /\ p[1] # q.u
      <4>1. /\ byGroup[q.g].known \subseteq byGroup'[q.g].known \cup {q.u}
            /\ ~byGroup[q.g].valid => ~byGroup'[q.g].valid
        BY <2>2, <3>1, <3>4, CategoryChanges
      <4>2. Unseen(p)
        BY <1>1, <2>5, <3>4, <4>1 DEF Unseen
      <4> QED BY <2>4, <3>4, <4>1, <4>2 DEF Keeps
    <3> QED BY <3>1, <3>2, <3>3, <3>4
  <2> QED BY <1>1, <2>2, <2>4, <2>5, ListingsAdvance
<1>5. CASE validateListing(r)
  <2>1. /\ q.pc = "listValid" /\ Step(r, Idle)
        /\ IF q.op = "listUsers"
           THEN byGroup' = [byGroup EXCEPT ![q.g] = update_expiration(@)]
           ELSE UNCHANGED byGroup
    BY <1>5 DEF validateListing, At
  <2>2. Lister(Idle) /\ (\A p : Awaited(Idle, p) /\ ~Pends(q, p)) /\ Idle.op = "none"
    BY <2>1 DEF Lister, Awaited, Pends, Idle
  <2>3. CASE q.op # "listUsers"
    BY <1>1, <2>1, <2>2, <2>3, UnrelatedKeeps
  <2>4. CASE q.op = "listUsers"
    <3>1. q.todo = {} /\ q.g \in Groups
      BY <1>0, <2>1, <2>4 DEF Lister, Warranted
    <3>2. /\ \A h \in Groups : h # q.g => byGroup'[h] = byGroup[h]
          /\ byGroup'[q.g].known = byGroup[q.g].known
      <4>1. update_expiration(byGroup[q.g]).known = byGroup[q.g].known
        BY <3>1 DEF IInv, TypeOK, Category, update_expiration
      <4> QED BY <2>1, <2>4, <3>1, <4>1 DEF IInv, TypeOK
    <3>3. ASSUME NEW p \in Pairs, Unseen(p)' PROVE Keeps(q, Idle, p)
      <4>1. p[2] \in Groups
        BY DEF Pairs
      <4>2. Unseen(p)
        BY <1>1, <3>2, <3>3, <4>1 DEF Unseen
      <4>3. Awaited(q, p) => p[2] # q.g
        BY <2>1, <2>4, <3>1 DEF Awaited
      <4> QED BY <2>2, <3>2, <4>1, <4>2, <4>3 DEF Keeps
    <3> QED BY <1>1, <2>1, <2>2, <3>3, ListingsAdvance
  <2> QED BY <2>3, <2>4
<1> QED BY <1>2, <1>3, <1>4, <1>5

\* A request that begins has listed nothing yet.
LEMMA BeginKeeps ==
    ASSUME IInv, ListInv, NEW r \in Requests, NEW op, NEW pc, NEW by, NEW u, NEW g,
           Begin(r, op, pc, by, u, g), op = "listUsers" => pc = "list",
           pc \notin {"cacheUser", "unGroup", "unGroupErase", "dbRemove"}
    PROVE  ListInv'
<1> DEFINE q == req[r]
<1>1. PICK n : n = [Idle EXCEPT !.op = op, !.pc = pc, !.by = by, !.u = u, !.g = g]
  OBVIOUS
<1>2. /\ q.pc = "idle" /\ Step(r, n) /\ UNCHANGED <<accounts, member, byGroup, faults>>
      /\ n.op = op /\ n.pc = pc /\ n.todo = {}
  BY <1>1 DEF Begin, At, tables, caches, Idle
<1>3. Lister(n) /\ \A p : Awaited(n, p) /\ ~Pends(q, p)
  BY <1>2 DEF Lister, Awaited, Pends
<1>4. ASSUME NEW p \in Pairs, Unseen(p)' PROVE Keeps(q, n, p)
  <2>1. Unseen(p)
    BY <1>2, <1>4 DEF Unseen
  <2> QED BY <1>2, <1>3, <2>1 DEF Keeps
<1> QED BY <1>2, <1>3, <1>4, ListingsAdvance

\* So for whatever a client sends.
LEMMA StartKeeps == ASSUME IInv, ListInv, NEW r \in Requests, Start(r) PROVE ListInv'
<1>1. ASSUME NEW op, NEW pc, NEW by, NEW u, NEW g, Begin(r, op, pc, by, u, g),
             \/ op = "listUsers" /\ pc = "list"
             \/ op # "listUsers" /\ pc \in {"list", "query", "target", "putGroup", "member", "group"}
      PROVE  ListInv'
  BY <1>1, BeginKeeps
<1>2. \A by, u :
        /\ listGroupsForUser(r, by) => ListInv'
        /\ deleteUser(r, by, u) => ListInv'
        /\ \A g : /\ createGroup(r, by, g) => ListInv'
                  /\ checkMembership(r, by, g) => ListInv'
                  /\ updateGroup(r, by, g) => ListInv'
                  /\ deleteGroup(r, by, g) => ListInv'
                  /\ listUsersByGroup(r, by, g) => ListInv'
                  /\ addUserToGroup(r, by, u, g) => ListInv'
                  /\ removeUserFromGroup(r, by, u, g) => ListInv'
  BY <1>1 DEF listGroupsForUser, deleteUser, createGroup, checkMembership, updateGroup,
     deleteGroup, listUsersByGroup, addUserToGroup, removeUserFromGroup
<1> QED BY <1>2 DEF Start

\* Expiry makes a listing incomplete, never complete, and forgets nobody.
LEMMA ExpiryKeeps == ASSUME IInv, ListInv, Expire PROVE ListInv'
<1>1. UNCHANGED <<accounts, member, req, faults>>
  BY DEF Expire, ExpireUsersOf, ExpireGroup, ExpireMember, ExpireGroupsOf, tables
<1>2. \A g \in Groups : /\ byGroup'[g].known = byGroup[g].known
                        /\ ~byGroup[g].valid => ~byGroup'[g].valid
  <2>1. ASSUME NEW g \in Groups, ExpireUsersOf(g)
        PROVE  \A h \in Groups : /\ byGroup'[h].known = byGroup[h].known
                                 /\ ~byGroup[h].valid => ~byGroup'[h].valid
    <3>1. PICK c : c = [byGroup[g] EXCEPT !.valid = FALSE]
      OBVIOUS
    <3>2. c.known = byGroup[g].known /\ c.valid = FALSE
      BY <3>1 DEF IInv, TypeOK, Category
    <3>3. byGroup'[g] = c /\ \A h \in Groups : h # g => byGroup'[h] = byGroup[h]
      BY <2>1, <3>1 DEF ExpireUsersOf, IInv, TypeOK
    <3> QED BY <3>2, <3>3, Zenon
  <2>2. ASSUME NEW g \in Groups, NEW u \in UserIDs, ExpireMember(g, u)
        PROVE  \A h \in Groups : /\ byGroup'[h].known = byGroup[h].known
                                 /\ ~byGroup[h].valid => ~byGroup'[h].valid
    <3>1. PICK c : c = [byGroup[g] EXCEPT !.live = @ \ {u}]
      OBVIOUS
    <3>2. c.known = byGroup[g].known /\ c.valid = byGroup[g].valid
      BY <3>1 DEF IInv, TypeOK, Category
    <3>3. byGroup'[g] = c /\ \A h \in Groups : h # g => byGroup'[h] = byGroup[h]
      BY <2>2, <3>1 DEF ExpireMember, IInv, TypeOK
    <3> QED BY <3>2, <3>3, Zenon
  <2>3. ASSUME UNCHANGED byGroup
        PROVE  \A h \in Groups : /\ byGroup'[h].known = byGroup[h].known
                                 /\ ~byGroup[h].valid => ~byGroup'[h].valid
    BY <2>3
  <2> QED BY <2>1, <2>2, <2>3 DEF Expire, ExpireGroup, ExpireGroupsOf
<1>3. ASSUME ListingKept, NEW p \in Pairs, Unseen(p)'
      PROVE  \/ \E r \in Requests : Pends(req[r], p)
             \/ ~byGroup'[p[2]].valid /\ \A r \in Requests : Awaited(req[r], p)
  <2>1. p[2] \in Groups
    BY DEF Pairs
  <2>2. Unseen(p)
    BY <1>1, <1>2, <1>3, <2>1 DEF Unseen
  <2> QED BY <1>2, <1>3, <2>1, <2>2 DEF ListingKept
<1> QED BY <1>1, <1>3 DEF ListInv, ListingKept

\* Whatever overlaps: whom the table has and a list of members in the cache has
\* not is in the hands of the request that adds or removes them, or the list does
\* not count as complete and no listing in progress will miss them
\* (listUsersByGroup, addUserToGroup, removeUserFromGroup).
THEOREM ListingInvariant == Spec => []ListInv
<1>1. Init => ListInv
  <2> SUFFICES ASSUME Init PROVE ListInv
    OBVIOUS
  <2>1. \A r \in Requests : Lister(req[r]) /\ \A p : Awaited(req[r], p)
    BY DEF Init, Idle, Lister, Awaited
  <2>2. \A p \in Pairs : ~byGroup[p[2]].valid
    BY DEF Init, Pairs, NoCategory
  <2> QED BY <2>1, <2>2 DEF ListInv, ListingKept
<1>2. IInv /\ ListInv /\ [Next]_vars => ListInv'
  <2> SUFFICES ASSUME IInv, ListInv, [Next]_vars PROVE ListInv'
    OBVIOUS
  <2>1. ASSUME NEW r \in Requests, Proceed(r) PROVE ListInv'
    BY <2>1, OtherStepsKeep, LoopStepsKeep, PutKeeps, RemovingKeeps, CacheStepsKeep DEF Proceed
  <2>2. CASE UNCHANGED vars
    BY <2>2 DEF vars, ListInv, Lister, ListingKept, Unseen, Pends, Awaited
  <2> QED BY <2>1, <2>2, StartKeeps, ExpiryKeeps DEF Next
<1> QED BY <1>1, <1>2, MembershipInvariant, PTL DEF Spec

\* A listing that the cache answers between requests misses no member, for any
\* number of threads, users and groups (listUsersByGroup).
THEOREM CompleteUserListings == Spec => []UserListingsComplete
<1>1. IInv /\ ListInv => UserListingsComplete
  <2> SUFFICES ASSUME IInv, ListInv, Settled, NEW p \in member, p[1] \in accounts,
                      byGroup[p[2]].valid, p[1] \notin byGroup[p[2]].known
               PROVE  FALSE
    BY DEF UserListingsComplete
  <2>1. p \in Pairs /\ Unseen(p) /\ ListingKept
    BY DEF IInv, TypeOK, Unseen, ListInv, Settled
  <2>2. \A r \in Requests : ~Pends(req[r], p)
    BY DEF Settled, Quiescent, Pends
  <2> QED BY <2>1, <2>2 DEF ListingKept
<1> QED BY <1>1, MembershipInvariant, ListingInvariant, PTL

(***************************************************************************)
(* Memberships and caches, while requests come one at a time               *)
(***************************************************************************)
\* the steps that remove membership <<q.u, q.g>>
Removing == {"unUser", "unGroup", "unGroupErase", "dbRemove"}
\* the steps that list membership <<q.u, q.g>> among those of user q.u
Looking == {"group", "groupFill", "listedGroup", "cacheGroup"}

\* Whatever calls fail: who is cached as a member is one, and a cached group is in
\* the table.
Filed ==
    /\ \A g \in Groups : \A u \in byGroup[g].known \cap Users : <<u, g>> \in member
    /\ \A g \in Groups : groupCache[g] # "none" => g \in groups

\* What the request knows then: the memberships and the group it is about to cache
\* are there, and what it removes has left the cache first.
Knows(q) ==
    /\ q.pc = "listedGroup" => q.op = "listGroups"
    /\ q.pc = "cacheGroup" => q.op = "listGroups" \/ Adding(q)
    /\ q.pc = "listValid" => q.op \in {"listUsers", "listGroups"}
    /\ q.pc = "removeUser" => q.op = "deleteUser"
    /\ q.pc \in {"uncacheGroup", "removeGroup"} => q.op = "deleteGroup"
    /\ q.op = "remove" => q.u \in Users
    /\ q.pc \in Removing => q.u \in Users /\ q.g \in Groups
    /\ q.pc = "memberFill" => <<q.by, q.g>> \in member
    /\ q.pc = "cacheUser" \/ (q.pc = "target" /\ q.op = "listUsers") => <<q.u, q.g>> \in member
    /\ q.op = "listUsers" => q.todo \subseteq member
    /\ q.op \in {"deleteUser", "listGroups"} => \A p \in q.todo : p[1] = q.u
    /\ q.op \in {"deleteGroup", "listUsers"} => \A p \in q.todo : p[2] = q.g
    /\ q.pc \in {"groupFill", "listedGroup", "cacheNewGroup"} => q.g \in groups
    /\ q.pc \in Removing \ {"unUser"} => q.u \notin byGroup[q.g].known
    /\ q.pc = "removeGroup" => groupCache[q.g] = "none"

\* Unless a call failed: memberships are of users and groups there are, a user's
\* category that counts as complete is, but for a membership under way, and it has
\* only memberships of groups in groupCache.
FullyFiled(q) ==
    /\ \A p \in member : p[1] \in accounts /\ p[2] \in groups
    /\ \A p \in member : byUser[p[1]].valid =>
         \/ p[2] \in byUser[p[1]].known
         \/ /\ p = <<q.u, q.g>>
            /\ q.pc = "dbRemove" \/ (Adding(q) /\ q.pc \in {"cacheUser", "cacheGroup"})
    /\ \A u \in Users : \A g \in byUser[u].known \ {None} :
         groupCache[g] # "none" /\ <<u, g>> \in member

\* What a request to add a member knows then.
KnowsAdding(q) ==
    /\ q.op \in {"add", "create"} /\ (q.act \/ q.pc \notin {"idle", "target"}) => q.u \in accounts
    /\ q.op = "add" /\ (q.act \/ q.pc = "member" \/ q.pc = "memberFill") => q.g \in groups
    /\ q.op = "create" /\ q.pc \notin {"idle", "putGroup"} => q.g \in groups
    /\ Adding(q) /\ q.pc \in {"target", "put", "cacheUser", "cacheGroup"} =>
         q.foundGroup /\ groupCache[q.g] # "none"
    /\ Adding(q) /\ q.pc \in {"put", "cacheUser", "cacheGroup"} => q.foundUser
    /\ Adding(q) /\ q.pc \in {"cacheUser", "cacheGroup"} => <<q.u, q.g>> \in member

\* What a request knows then that removes a membership, a user or a group.
KnowsRemoving(q) ==
    /\ q.pc = "dbRemove" => q.g \notin byUser[q.u].known
    /\ q.op = "deleteUser" /\ q.pc \in Removing \cup {"next", "removeUser"} =>
         \A p \in member : p[1] = q.u =>
            \/ p \in q.todo /\ q.pc # "removeUser"
            \/ p[2] = q.g /\ q.pc \in Removing
    /\ q.op = "deleteGroup" /\ q.pc \in Removing \cup {"next", "uncacheGroup", "removeGroup"} =>
         \A p \in member : p[2] = q.g =>
            \/ p \in q.todo /\ q.pc \notin {"uncacheGroup", "removeGroup"}
            \/ p[1] = q.u /\ q.pc \in Removing

\* What a request that lists a user's groups knows then.
KnowsListing(q) ==
    q.op = "listGroups" =>
        /\ q.todo \subseteq member
        /\ q.pc \in Looking => <<q.u, q.g>> \in member
        /\ q.pc \in {"listedGroup", "cacheGroup"} => q.foundGroup
        /\ q.pc = "cacheGroup" => groupCache[q.g] # "none"
        /\ q.pc \in Looking \cup {"next", "listValid"} =>
             \A p \in member : p[1] = q.u =>
                \/ p[2] \in byUser[q.u].known
                \/ p \in q.todo /\ q.pc # "listValid"
                \/ p[2] = q.g /\ q.pc \in Looking

Complete(q) == FullyFiled(q) /\ KnowsAdding(q) /\ KnowsRemoving(q) /\ KnowsListing(q)

Agreed(q) == Filed /\ Knows(q) /\ (faults = 0 => Complete(q))

AgreeInv == \A r \in Requests : Agreed(req[r])

\* The server executes one request at a time.
OneThread == \E r : Requests = {r}

\* q is the request of the only thread, in a state that satisfies the invariants
Turn(r, q) == r \in Requests /\ q = req[r] /\ IInv /\ Fit(q, granted, used) /\ Agreed(q)

\* n has the operands and the memory of q
Same(n, q) ==
    /\ n.op = q.op /\ n.by = q.by /\ n.u = q.u /\ n.g = q.g /\ n.todo = q.todo
    /\ n.act = q.act /\ n.foundUser = q.foundUser /\ n.foundGroup = q.foundGroup

LEMMA Moved ==
    ASSUME NEW q \in Request, NEW pc, NEW n, n = [q EXCEPT !.pc = pc]
    PROVE  n.pc = pc /\ Same(n, q)
BY DEF Request, Same

\* The request that the step leaves behind agrees with what the step leaves in the
\* tables and in the caches.
LEMMA BecomesAgreed ==
    ASSUME NEW r, NEW n, req'[r] = n, Filed', Knows(n)', faults' = 0 => Complete(n)'
    PROVE  Agreed(req[r])'
BY DEF Agreed, Knows, Complete, FullyFiled, KnowsAdding, KnowsRemoving, KnowsListing, Adding

LEMMA Stepped == ASSUME NEW r \in Requests, NEW n, IInv, Step(r, n) PROVE req'[r] = n
BY DEF Step, IInv, TypeOK

(***************************************************************************)
(* Steps that leave tables and caches alone                                *)
(***************************************************************************)
\* A request that is not between storing or removing a membership and the caches.
Clear(q) == q.pc \notin {"cacheUser", "cacheGroup", "dbRemove"}

LEMMA QuietAgreed ==
    ASSUME NEW r, NEW q, NEW n, Turn(r, q), req'[r] = n, UNCHANGED <<tables, caches>>,
           Fault \/ UNCHANGED faults, Knows(n), Clear(q) \/ q.op = "listUsers",
           faults' = 0 => KnowsAdding(n) /\ KnowsRemoving(n) /\ KnowsListing(n)
    PROVE  Agreed(req[r])'
<1>1. /\ accounts' = accounts /\ groups' = groups /\ member' = member
      /\ byGroup' = byGroup /\ byUser' = byUser /\ groupCache' = groupCache
  BY DEF tables, caches
<1>2. Filed'
  BY <1>1 DEF Turn, Agreed, Filed
<1>3. Knows(n)'
  BY <1>1 DEF Knows, Adding
<1>4. ASSUME faults' = 0 PROVE Complete(n)'
  <2>1. FullyFiled(q)
    BY <1>4, FaultCounted DEF Turn, Agreed, Complete
  <2>2. ~(q.pc = "dbRemove" \/ (Adding(q) /\ q.pc \in {"cacheUser", "cacheGroup"}))
    BY DEF Clear, Adding, Turn, Fit, Where
  <2>3. FullyFiled(n)'
    BY <1>1, <2>1, <2>2 DEF FullyFiled
  <2>4. KnowsAdding(n)' /\ KnowsRemoving(n)' /\ KnowsListing(n)'
    BY <1>1, <1>4 DEF KnowsAdding, KnowsRemoving, KnowsListing, Adding
  <2> QED BY <2>3, <2>4 DEF Complete
<1> QED BY <1>2, <1>3, <1>4, BecomesAgreed

\* A thread that has answered knows nothing.
LEMMA IdleKnows ==
    Knows(Idle) /\ KnowsAdding(Idle) /\ KnowsRemoving(Idle) /\ KnowsListing(Idle)
BY DEF Knows, KnowsAdding, KnowsRemoving, KnowsListing, Idle, Adding, Removing, Looking

LEMMA AnswerAgreed ==
    ASSUME NEW r, NEW q, Turn(r, q), Step(r, Idle), UNCHANGED <<tables, caches>>,
           Fault \/ UNCHANGED faults, Clear(q)
    PROVE  Agreed(req[r])'
<1>1. PICK n : n = Idle
  OBVIOUS
<1>2. req'[r] = n
  BY <1>1, Stepped DEF Turn
<1> QED BY <1>1, <1>2, IdleKnows, QuietAgreed

\* Where getUser's answer leads.
LEMMA TargetShape ==
    ASSUME NEW q \in Request, NEW ok \in BOOLEAN, NEW n, n = AfterTarget(q, ok)
    PROVE  \/ n = Idle
           \/ /\ n.op = q.op /\ n.by = q.by /\ n.u = q.u /\ n.g = q.g /\ n.todo = q.todo
              /\ n.act = q.act /\ n.foundGroup = q.foundGroup
              /\ \/ /\ q.act /\ n.foundUser = ok
                    /\ n.pc = IF Adding(q) THEN "put" ELSE "cacheUser"
                 \/ ~q.act /\ ok /\ n.pc \in {"group", "member", "query"}
<1>1. CASE q.act
  <2>1. n = [q EXCEPT !.pc = IF Adding(q) THEN "put" ELSE "cacheUser", !.foundUser = ok]
    BY <1>1 DEF AfterTarget
  <2> QED BY <1>1, <2>1 DEF Request
<1>2. CASE ~q.act /\ n # Idle
  <2>1. ok /\ \E pc \in {"group", "member", "query"} : n = [q EXCEPT !.pc = pc]
    BY <1>2 DEF AfterTarget
  <2> QED BY <1>2, <2>1 DEF Request
<1> QED BY <1>1, <1>2

\* What getUser's answer lets the request know.
LEMMA TargetKnows ==
    ASSUME NEW r, NEW q, Turn(r, q), q.pc = "target", NEW ok \in BOOLEAN,
           NEW n, n = AfterTarget(q, ok), n # Idle
    PROVE  /\ Knows(n)
           /\ Complete(q) /\ ok = (q.u \in accounts) =>
                KnowsAdding(n) /\ KnowsRemoving(n) /\ KnowsListing(n)
<1>1. /\ q \in Request /\ Where(q) /\ Knows(q)
  BY DEF Turn, Agreed, Fit
<1>2. /\ n.op = q.op /\ n.by = q.by /\ n.u = q.u /\ n.g = q.g /\ n.todo = q.todo
      /\ n.act = q.act /\ n.foundGroup = q.foundGroup
      /\ \/ /\ q.act /\ n.foundUser = ok
            /\ n.pc = IF Adding(q) THEN "put" ELSE "cacheUser"
         \/ ~q.act /\ ok /\ n.pc \in {"group", "member", "query"}
  BY <1>1, TargetShape
<1>3. n.pc \in {"put", "cacheUser", "group", "member", "query"}
  BY <1>2
<1>4. n.pc = "cacheUser" => q.act /\ q.op = "listUsers"
  BY <1>1, <1>2 DEF Where, Adding
<1>5. Knows(n)
  BY <1>1, <1>2, <1>3, <1>4 DEF Knows, Removing
<1>6. ASSUME Complete(q), ok = (q.u \in accounts)
      PROVE  KnowsAdding(n) /\ KnowsRemoving(n) /\ KnowsListing(n)
  <2>1. KnowsAdding(q) /\ (q.act => q.op \in {"add", "create", "listUsers"})
        /\ (~q.act => q.op \in {"add", "remove", "deleteUser"})
    BY <1>1, <1>6 DEF Complete, Where
  <2>2. KnowsRemoving(n) /\ KnowsListing(n)
    BY <1>2, <1>3, <2>1 DEF KnowsRemoving, KnowsListing, Removing
  <2>3. n.op \in {"add", "create"} => n.u \in accounts
    <3>1. CASE q.act
      BY <1>2, <2>1, <3>1 DEF KnowsAdding
    <3>2. CASE ~q.act
      BY <1>2, <1>6, <3>2
    <3> QED BY <3>1, <3>2
  <2>4. /\ n.op = "add" /\ n.act => n.g \in groups
        /\ n.op = "create" => n.g \in groups
        /\ n.pc = "put" => n.foundGroup /\ groupCache[n.g] # "none" /\ n.foundUser
    BY <1>2, <1>6, <2>1, <2>3 DEF KnowsAdding, Adding
  <2>5. ~(Adding(n) /\ n.pc \in {"target", "cacheUser", "cacheGroup"})
    BY <1>2, <1>3, <1>4 DEF Adding
  <2>6. n.pc = "member" => n.op # "add"
    <3> SUFFICES ASSUME n.pc = "member" PROVE q.op = "remove"
      BY <1>2
    <3>1. ~q.act /\ ok /\ n = AfterTarget(q, ok)
      BY <1>2
    <3>2. q.op # "add"
      <4> SUFFICES ASSUME q.op = "add" PROVE FALSE
        OBVIOUS
      <4>1. n = [q EXCEPT !.pc = "group"]
        BY <3>1 DEF AfterTarget
      <4>2. n.pc = "group"
        BY <1>1, <4>1, Moved
      <4> QED BY <4>2
    <3>3. q.op # "deleteUser"
      <4> SUFFICES ASSUME q.op = "deleteUser" PROVE FALSE
        OBVIOUS
      <4>1. n = [q EXCEPT !.pc = "query"]
        BY <3>1 DEF AfterTarget
      <4>2. n.pc = "query"
        BY <1>1, <4>1, Moved
      <4> QED BY <4>2
    <3> QED BY <2>1, <3>1, <3>2, <3>3
  <2> QED BY <1>3, <2>2, <2>3, <2>4, <2>5, <2>6 DEF KnowsAdding
<1> QED BY <1>5, <1>6

LEMMA GetUserAgreed ==
    ASSUME NEW r, NEW q, Turn(r, q), getUser(r)
    PROVE  Agreed(req[r])'
<1>1. /\ q.pc = "target" /\ Clear(q) /\ q = req[r] /\ UNCHANGED <<tables, caches>>
      /\ Fault \/ UNCHANGED faults
  BY DEF Turn, getUser, At, Clear
<1>2. PICK ok \in BOOLEAN :
        Step(r, AfterTarget(q, ok)) /\ (Fault \/ (UNCHANGED faults /\ ok = (q.u \in accounts)))
  <2>1. (q.u \in accounts) \in BOOLEAN
    OBVIOUS
  <2> QED BY <1>1, <2>1 DEF getUser
<1>3. PICK n : n = AfterTarget(q, ok)
  OBVIOUS
<1>4. CASE n = Idle
  BY <1>1, <1>2, <1>3, <1>4, AnswerAgreed
<1>5. CASE n # Idle
  <2>1. Knows(n)
    BY <1>1, <1>3, <1>5, TargetKnows
  <2>2. faults' = 0 => KnowsAdding(n) /\ KnowsRemoving(n) /\ KnowsListing(n)
    BY <1>1, <1>2, <1>3, <1>5, TargetKnows, FaultCounted DEF Turn, Agreed
  <2>3. req'[r] = n
    BY <1>2, <1>3, Stepped DEF Turn
  <2> QED BY <1>1, <2>1, <2>2, <2>3, QuietAgreed
<1> QED BY <1>4, <1>5

\* Where findGroupByID's answer leads.
LEMMA GroupShape ==
    ASSUME NEW q \in Request, NEW ok \in BOOLEAN, NEW n, n = AfterGroup(q, ok)
    PROVE  \/ n = Idle /\ ~q.act
           \/ /\ n.op = q.op /\ n.by = q.by /\ n.u = q.u /\ n.g = q.g /\ n.todo = q.todo
              /\ n.act = q.act /\ n.foundUser = q.foundUser
              /\ \/ /\ q.act /\ n.foundGroup = ok
                    /\ n.pc = IF Adding(q) THEN "target"
                              ELSE IF ok THEN "listedGroup" ELSE "cacheGroup"
                 \/ ~q.act /\ ok /\ n.pc = IF q.op = "edit" THEN "putGroup" ELSE "member"
<1>1. CASE q.act
  <2>1. n = [q EXCEPT !.pc = IF Adding(q) THEN "target"
                             ELSE IF ok THEN "listedGroup" ELSE "cacheGroup",
                      !.foundGroup = ok]
    <3>1. (CASE Adding(q)        -> "target"
             [] ~Adding(q) /\ ok -> "listedGroup"
             [] OTHER            -> "cacheGroup")
          = IF Adding(q) THEN "target" ELSE IF ok THEN "listedGroup" ELSE "cacheGroup"
      OBVIOUS
    <3> QED BY <1>1, <3>1 DEF AfterGroup
  <2> QED BY <1>1, <2>1 DEF Request
<1>2. CASE ~q.act /\ ok
  <2>1. n = [q EXCEPT !.pc = IF q.op = "edit" THEN "putGroup" ELSE "member"]
    BY <1>2 DEF AfterGroup
  <2> QED BY <1>2, <2>1 DEF Request
<1>3. CASE ~q.act /\ ~ok
  BY <1>3 DEF AfterGroup
<1> QED BY <1>1, <1>2, <1>3

\* What findGroupByID's answer lets the request know, a group that was found being
\* in groupCache after the step.
LEMMA GroupKnows ==
    ASSUME NEW r, NEW q, Turn(r, q), q.pc \in {"group", "groupFill"}, NEW ok \in BOOLEAN,
           NEW n, n = AfterGroup(q, ok), n # Idle, ok => q.g \in groups /\ groupCache'[q.g] # "none",
           UNCHANGED <<tables, byGroup, byUser>>
    PROVE  /\ Knows(n)'
           /\ Complete(q) /\ ok = (q.g \in groups) =>
                KnowsAdding(n)' /\ KnowsRemoving(n)' /\ KnowsListing(n)'
<1>1. /\ q \in Request /\ Where(q) /\ Knows(q)
  BY DEF Turn, Agreed, Fit
<1>2. /\ n.op = q.op /\ n.by = q.by /\ n.u = q.u /\ n.g = q.g /\ n.todo = q.todo
      /\ n.act = q.act /\ n.foundUser = q.foundUser
      /\ \/ /\ q.act /\ n.foundGroup = ok
            /\ n.pc = IF Adding(q) THEN "target"
                      ELSE IF ok THEN "listedGroup" ELSE "cacheGroup"
         \/ ~q.act /\ ok /\ n.pc = IF q.op = "edit" THEN "putGroup" ELSE "member"
  BY <1>1, GroupShape
<1>3. /\ n.pc \in {"target", "listedGroup", "cacheGroup", "putGroup", "member"}
      /\ n.pc = "listedGroup" => ok
  BY <1>2
<1>4. /\ q.act => q.op \in {"add", "create", "listGroups"}
      /\ ~q.act => q.op \in {"add", "edit", "deleteGroup"}
  BY <1>1 DEF Where
<1>5. /\ n.pc \in {"listedGroup", "cacheGroup"} => q.op = "listGroups"
      /\ n.pc = "target" => Adding(q)
  BY <1>2, <1>4 DEF Adding
<1>6. /\ accounts' = accounts /\ groups' = groups /\ member' = member
      /\ byGroup' = byGroup /\ byUser' = byUser
  BY DEF tables
<1>7. Knows(n)'
  BY <1>1, <1>2, <1>3, <1>5, <1>6 DEF Knows, Removing, Adding
<1>8. ASSUME Complete(q), ok = (q.g \in groups)
      PROVE  KnowsAdding(n)' /\ KnowsListing(n)'
  <2>1. KnowsAdding(q) /\ KnowsListing(q) /\ FullyFiled(q)
    BY <1>8 DEF Complete
  <2>2. q.op = "listGroups" => <<q.u, q.g>> \in member /\ q.g \in groups
    BY <2>1 DEF KnowsListing, FullyFiled, Looking
  <2>3. KnowsListing(n)'
    <3> SUFFICES ASSUME q.op = "listGroups" PROVE KnowsListing(n)'
      BY <1>2 DEF KnowsListing
    <3>1. q.act /\ ok
      BY <1>1, <1>8, <2>2 DEF Where
    <3>2. n.pc = "listedGroup" /\ n.foundGroup /\ n.u = q.u /\ n.g = q.g /\ n.todo = q.todo
      BY <1>2, <3>1 DEF Adding
    <3>3. /\ q.todo \subseteq member
          /\ \A p \in member : p[1] = q.u =>
                p[2] \in byUser[q.u].known \/ p \in q.todo \/ p[2] = q.g
      BY <2>1 DEF KnowsListing, Looking
    <3> QED BY <1>6, <2>2, <3>2, <3>3 DEF KnowsListing, Looking
  <2>4. n.op \in {"add", "create"} => n.u \in accounts
    BY <1>2, <2>1 DEF KnowsAdding
  <2>5. n.op \in {"add", "create"} => n.g \in groups
    <3>1. CASE q.act
      BY <1>2, <2>1, <3>1 DEF KnowsAdding
    <3>2. CASE ~q.act
      BY <1>2, <1>8, <3>2
    <3> QED BY <3>1, <3>2
  <2>6. Adding(n) => n.pc = "target" /\ n.foundGroup /\ groupCache'[n.g] # "none"
    <3> SUFFICES ASSUME Adding(n)
                 PROVE  n.pc = "target" /\ n.foundGroup /\ groupCache'[n.g] # "none"
      OBVIOUS
    <3>1. q.act /\ Adding(q) /\ q.g \in groups
      BY <1>2, <2>5 DEF Adding
    <3> QED BY <1>2, <1>8, <3>1
  <2> QED BY <1>6, <2>3, <2>4, <2>5, <2>6 DEF KnowsAdding, Adding
<1>9. KnowsRemoving(n)'
  BY <1>2, <1>3, <1>4, <1>5 DEF KnowsRemoving, Removing, Adding
<1> QED BY <1>8, <1>9, <1>7

LEMMA FindGroupAgreed ==
    ASSUME NEW r, NEW q, Turn(r, q), findGroupByID(r)
    PROVE  Agreed(req[r])'
<1>1. /\ q.pc = "group" /\ Clear(q) /\ q = req[r] /\ UNCHANGED <<tables, caches>>
      /\ Fault \/ UNCHANGED faults
  BY DEF Turn, findGroupByID, At, Clear
<1>2. q.g \in Groups /\ (groupCache[q.g] # "none" => q.g \in groups)
  BY <1>1 DEF Turn, Fit, Warranted, Agreed, Filed
<1>3. ASSUME NEW ok \in BOOLEAN, Step(r, AfterGroup(q, ok)), ok => groupCache[q.g] # "none",
             Fault \/ ok = (q.g \in groups)
      PROVE  Agreed(req[r])'
  <2>1. PICK n : n = AfterGroup(q, ok)
    OBVIOUS
  <2>2. CASE n = Idle
    BY <1>1, <1>3, <2>1, <2>2, AnswerAgreed
  <2>3. CASE n # Idle
    <3>1. /\ UNCHANGED <<tables, byGroup, byUser>> /\ groupCache' = groupCache
          /\ ok => q.g \in groups
      BY <1>1, <1>2, <1>3 DEF caches
    <3>2. Knows(n)' /\ (Complete(q) /\ ok = (q.g \in groups) =>
             KnowsAdding(n)' /\ KnowsRemoving(n)' /\ KnowsListing(n)')
      BY <1>1, <1>3, <2>1, <2>3, <3>1, GroupKnows
    <3>3. Knows(n) = Knows(n)' /\ KnowsAdding(n) = KnowsAdding(n)'
          /\ KnowsRemoving(n) = KnowsRemoving(n)' /\ KnowsListing(n) = KnowsListing(n)'
      BY <3>1 DEF Knows, KnowsAdding, KnowsRemoving, KnowsListing, tables, Adding
    <3>4. faults' = 0 => KnowsAdding(n) /\ KnowsRemoving(n) /\ KnowsListing(n)
      BY <1>1, <1>3, <3>2, <3>3, FaultCounted DEF Turn, Agreed
    <3>5. req'[r] = n
      BY <1>3, <2>1, Stepped DEF Turn
    <3> QED BY <1>1, <3>2, <3>3, <3>4, <3>5, QuietAgreed
  <2> QED BY <2>2, <2>3
<1>4. CASE groupCache[q.g] = "live" /\ Step(r, AfterGroup(q, TRUE))
  <2>1. q.g \in groups
    BY <1>2, <1>4
  <2> QED BY <1>3, <1>4, <2>1
<1>5. CASE q.g \notin groups /\ Step(r, AfterGroup(q, FALSE))
  <2>1. PICK ok \in BOOLEAN : ok = FALSE
    OBVIOUS
  <2>2. ok = (q.g \in groups)
    BY <1>5, <2>1
  <2> QED BY <1>3, <1>5, <2>1, <2>2
<1>6. CASE Fault /\ Step(r, AfterGroup(q, FALSE))
  BY <1>3, <1>6
<1>7. CASE q.g \in groups /\ Goto(r, "groupFill")
  <2>1. PICK n : n = [q EXCEPT !.pc = "groupFill"]
    OBVIOUS
  <2>2. n.pc = "groupFill" /\ Same(n, q)
    BY <2>1, Moved DEF Turn, Fit
  <2>3. Knows(q) /\ (faults = 0 => Complete(q))
    BY DEF Turn, Agreed
  <2>4. Knows(n)
    BY <1>1, <1>7, <2>2, <2>3 DEF Knows, Same, Removing
  <2>5. ASSUME Complete(q) PROVE KnowsAdding(n) /\ KnowsRemoving(n) /\ KnowsListing(n)
    <3>1. KnowsAdding(n)
      BY <1>1, <2>2, <2>5 DEF Complete, KnowsAdding, Same
    <3>2. KnowsRemoving(n)
      BY <1>1, <2>2, <2>5 DEF Complete, KnowsRemoving, Same, Removing
    <3>3. KnowsListing(n)
      BY <1>1, <2>2, <2>5 DEF Complete, KnowsListing, Same, Looking
    <3> QED BY <3>1, <3>2, <3>3
  <2>6. req'[r] = n
    BY <1>1, <1>7, <2>1, Stepped DEF Turn, Goto
  <2> QED BY <1>1, <2>3, <2>4, <2>5, <2>6, QuietAgreed, FaultCounted DEF Turn
<1> QED BY <1>1, <1>4, <1>5, <1>6, <1>7 DEF findGroupByID

\* Where a caller goes who may act on the group.
LEMMA MemberShape ==
    ASSUME NEW q \in Request, NEW n, n = AfterMember(q), n # Idle
    PROVE  /\ n.op = q.op /\ n.by = q.by /\ n.u = q.u /\ n.g = q.g /\ n.todo = q.todo
           /\ n.foundUser = q.foundUser /\ n.foundGroup = q.foundGroup
           /\ \/ q.op = "add" /\ n.pc = "group"
              \/ q.op = "remove" /\ n.pc = "unUser"
              \/ q.op = "edit" /\ n.pc = "group"
              \/ q.op = "deleteGroup" /\ n.pc = "query"
<1>1. CASE q.op = "add"
  BY <1>1 DEF AfterMember, Request
<1>2. CASE q.op = "remove"
  BY <1>2 DEF AfterMember, Request
<1>3. CASE q.op = "edit"
  BY <1>3 DEF AfterMember, Request
<1>4. CASE q.op = "deleteGroup"
  BY <1>4 DEF AfterMember, Request
<1>5. CASE q.op \notin {"add", "remove", "edit", "deleteGroup"}
  BY <1>5 DEF AfterMember
<1> QED BY <1>1, <1>2, <1>3, <1>4, <1>5

LEMMA MemberKnows ==
    ASSUME NEW r, NEW q, Turn(r, q), q.pc \in {"member", "memberFill"},
           NEW n, n = AfterMember(q)
    PROVE  /\ Knows(n) /\ n.pc \notin {"memberFill", "dbRemove", "removeGroup"}
           /\ n.pc \notin Removing \ {"unUser"}
           /\ Complete(q) => KnowsAdding(n) /\ KnowsRemoving(n) /\ KnowsListing(n)
<1>1. CASE n = Idle
  BY <1>1, IdleKnows DEF Idle, Removing
<1>2. CASE n # Idle
  <2>1. q \in Request /\ Knows(q) /\ Warranted(q, granted, used)
    BY DEF Turn, Agreed, Fit
  <2>2. /\ n.op = q.op /\ n.by = q.by /\ n.u = q.u /\ n.g = q.g /\ n.todo = q.todo
        /\ n.foundUser = q.foundUser /\ n.foundGroup = q.foundGroup
        /\ \/ q.op = "add" /\ n.pc = "group"
           \/ q.op = "remove" /\ n.pc = "unUser"
           \/ q.op = "edit" /\ n.pc = "group"
           \/ q.op = "deleteGroup" /\ n.pc = "query"
    BY <1>2, <2>1, MemberShape
  <2>3. Knows(n)
    BY <2>1, <2>2 DEF Knows, Warranted, Removing
  <2>4. ASSUME Complete(q) PROVE KnowsAdding(n) /\ KnowsRemoving(n) /\ KnowsListing(n)
    <3>1. KnowsAdding(q)
      BY <2>4 DEF Complete
    <3>2. KnowsAdding(n)
      BY <2>2, <3>1 DEF KnowsAdding
    <3>3. KnowsRemoving(n) /\ KnowsListing(n)
      BY <2>2 DEF KnowsRemoving, KnowsListing, Removing
    <3> QED BY <3>2, <3>3
  <2> QED BY <2>2, <2>3, <2>4 DEF Removing
<1> QED BY <1>1, <1>2

LEMMA UserInGroupAgreed ==
    ASSUME NEW r, NEW q, Turn(r, q), userInGroup(r)
    PROVE  Agreed(req[r])'
<1>1. /\ q.pc = "member" /\ Clear(q) /\ q = req[r] /\ UNCHANGED <<tables, caches>>
      /\ Fault \/ UNCHANGED faults
  BY DEF Turn, userInGroup, At, Clear
<1>2. CASE Step(r, AfterMember(q))
  <2>1. PICK n : n = AfterMember(q)
    OBVIOUS
  <2>2. req'[r] = n
    BY <1>2, <2>1, Stepped DEF Turn
  <2>3. Knows(n) /\ (faults = 0 => KnowsAdding(n) /\ KnowsRemoving(n) /\ KnowsListing(n))
    BY <1>1, <2>1, MemberKnows DEF Turn, Agreed
  <2> QED BY <1>1, <2>2, <2>3, QuietAgreed, FaultCounted DEF Turn
<1>3. CASE Step(r, Idle)
  BY <1>1, <1>3, AnswerAgreed
<1>4. CASE <<Asked(q), q.g>> \in member /\ Goto(r, "memberFill")
  <2>1. PICK n : n = [q EXCEPT !.pc = "memberFill"]
    OBVIOUS
  <2>2. n.pc = "memberFill" /\ Same(n, q)
    BY <2>1, Moved DEF Turn, Fit
  <2>3. Knows(q) /\ (faults = 0 => Complete(q))
    BY DEF Turn, Agreed
  <2>4. Knows(n)
    BY <1>1, <1>4, <2>2, <2>3 DEF Knows, Same, Removing, Asked
  <2>5. Complete(q) => KnowsAdding(n) /\ KnowsRemoving(n) /\ KnowsListing(n)
    BY <1>1, <2>2
       DEF Complete, KnowsAdding, KnowsRemoving, KnowsListing, Same, Removing, Looking, Adding
  <2>6. req'[r] = n
    BY <1>1, <1>4, <2>1, Stepped DEF Turn, Goto
  <2> QED BY <1>1, <2>3, <2>4, <2>5, <2>6, QuietAgreed, FaultCounted DEF Turn
<1> QED BY <1>1, <1>2, <1>3, <1>4 DEF userInGroup

(***************************************************************************)
(* Steps that fill groupCache and userByGroupCache                         *)
(***************************************************************************)
LEMMA GroupCached ==
    ASSUME NEW r, NEW q, NEW n, Turn(r, q), q.g \in Groups, q.g \in groups,
           groupCache' = [groupCache EXCEPT ![q.g] = "live"],
           UNCHANGED <<tables, byGroup, byUser, faults>>, req'[r] = n, Clear(q), Knows(n)',
           faults = 0 => KnowsAdding(n)' /\ KnowsRemoving(n)' /\ KnowsListing(n)'
    PROVE  Agreed(req[r])'
<1>1. /\ accounts' = accounts /\ groups' = groups /\ member' = member
      /\ byGroup' = byGroup /\ byUser' = byUser /\ faults' = faults
  BY DEF tables
<1>2. \A g \in Groups : groupCache'[g] = IF g = q.g THEN "live" ELSE groupCache[g]
  BY DEF Turn, IInv, TypeOK
<1>3. Filed'
  BY <1>1, <1>2 DEF Turn, Agreed, Filed
<1>4. ASSUME faults' = 0 PROVE Complete(n)'
  <2>1. FullyFiled(q)
    BY <1>1, <1>4 DEF Turn, Agreed, Complete
  <2>2. ~(q.pc = "dbRemove" \/ (Adding(q) /\ q.pc \in {"cacheUser", "cacheGroup"}))
    BY DEF Clear
  <2>3. \A u \in Users : \A g \in byUser[u].known \ {None} :
          g \in Groups /\ groupCache'[g] # "none" /\ <<u, g>> \in member
    <3> SUFFICES ASSUME NEW u \in Users, NEW g \in byUser[u].known \ {None}
                 PROVE  g \in Groups /\ groupCache'[g] # "none" /\ <<u, g>> \in member
      OBVIOUS
    <3>1. g \in Groups
      BY DEF Turn, IInv, TypeOK, Category, GroupIDs
    <3> QED BY <1>2, <2>1, <3>1 DEF FullyFiled
  <2>4. FullyFiled(n)'
    BY <1>1, <2>1, <2>2, <2>3 DEF FullyFiled
  <2>5. KnowsAdding(n)' /\ KnowsRemoving(n)' /\ KnowsListing(n)'
    BY <1>1, <1>4
  <2> QED BY <2>4, <2>5 DEF Complete
<1> QED BY <1>1, <1>3, <1>4, BecomesAgreed

LEMMA CacheFoundGroupAgreed ==
    ASSUME NEW r, NEW q, Turn(r, q), cacheFoundGroup(r)
    PROVE  Agreed(req[r])'
<1>1. /\ q.pc = "groupFill" /\ Clear(q) /\ q = req[r] /\ q.g \in Groups /\ q.g \in groups
      /\ groupCache' = [groupCache EXCEPT ![q.g] = "live"]
      /\ UNCHANGED <<tables, byGroup, byUser, faults>>
  BY DEF Turn, cacheFoundGroup, At, Clear, Fit, Warranted, Agreed, Knows
<1>2. groupCache'[q.g] # "none"
  BY <1>1 DEF Turn, IInv, TypeOK
<1>3. PICK n : n = AfterGroup(q, TRUE)
  OBVIOUS
<1>4. req'[r] = n
  BY <1>1, <1>3, Stepped DEF Turn, cacheFoundGroup
<1>5. CASE n = Idle
  <2>1. Knows(n)' /\ KnowsAdding(n)' /\ KnowsRemoving(n)' /\ KnowsListing(n)'
    BY <1>5 DEF Knows, KnowsAdding, KnowsRemoving, KnowsListing, Idle, Adding, Removing, Looking
  <2> QED BY <1>1, <1>4, <2>1, GroupCached
<1>6. CASE n # Idle
  <2>1. Knows(n)' /\ (Complete(q) => KnowsAdding(n)' /\ KnowsRemoving(n)' /\ KnowsListing(n)')
    <3>1. PICK ok \in BOOLEAN : ok = TRUE
      OBVIOUS
    <3>2. ok = (q.g \in groups)
      BY <1>1, <3>1
    <3> QED BY <1>1, <1>2, <1>3, <1>6, <3>1, <3>2, GroupKnows
  <2> QED BY <1>1, <1>4, <2>1, GroupCached DEF Turn, Agreed
<1> QED BY <1>5, <1>6

LEMMA CacheNewGroupAgreed ==
    ASSUME NEW r, NEW q, Turn(r, q), cacheNewGroup(r)
    PROVE  Agreed(req[r])'
<1>1. /\ q.pc = "cacheNewGroup" /\ Clear(q) /\ q = req[r] /\ q.g \in Groups /\ q.g \in groups
      /\ groupCache' = [groupCache EXCEPT ![q.g] = "live"]
      /\ UNCHANGED <<tables, byGroup, byUser, faults>>
  BY DEF Turn, cacheNewGroup, At, Clear, Fit, Warranted, Agreed, Knows, IInv, TypeOK
<1>2. Knows(q) /\ (faults = 0 => Complete(q)) /\ q \in Request
  BY DEF Turn, Agreed, Fit
<1>3. CASE q.op = "create"
  <2>1. PICK n : n = [q EXCEPT !.pc = "group", !.act = TRUE]
    OBVIOUS
  <2>2. n.pc = "group" /\ n.op = "create" /\ n.u = q.u /\ n.g = q.g
    BY <1>2, <1>3, <2>1 DEF Request
  <2>3. req'[r] = n
    BY <1>1, <1>3, <2>1, Stepped DEF Turn, cacheNewGroup
  <2>4. Knows(n)'
    BY <2>2 DEF Knows, Removing
  <2>5. ASSUME faults = 0 PROVE KnowsAdding(n)' /\ KnowsRemoving(n)' /\ KnowsListing(n)'
    <3>1. q.u \in accounts /\ q.g \in groups
      BY <1>1, <1>2, <1>3, <2>5 DEF Complete, KnowsAdding
    <3>2. accounts' = accounts /\ groups' = groups
      BY <1>1 DEF tables
    <3> QED BY <2>2, <3>1, <3>2 DEF KnowsAdding, KnowsRemoving, KnowsListing, Removing
  <2> QED BY <1>1, <2>3, <2>4, <2>5, GroupCached
<1>4. CASE q.op # "create"
  <2>1. PICK n : n = Idle
    OBVIOUS
  <2>2. req'[r] = n
    BY <1>1, <1>4, <2>1, Stepped DEF Turn, cacheNewGroup
  <2>3. Knows(n)' /\ KnowsAdding(n)' /\ KnowsRemoving(n)' /\ KnowsListing(n)'
    BY <2>1 DEF Knows, KnowsAdding, KnowsRemoving, KnowsListing, Idle, Adding, Removing, Looking
  <2> QED BY <1>1, <2>2, <2>3, GroupCached
<1> QED BY <1>3, <1>4

LEMMA CacheListedGroupAgreed ==
    ASSUME NEW r, NEW q, Turn(r, q), cacheListedGroup(r)
    PROVE  Agreed(req[r])'
<1>1. /\ q.pc = "listedGroup" /\ Clear(q) /\ q = req[r] /\ q.g \in Groups /\ q.g \in groups
      /\ q.op = "listGroups"
      /\ groupCache' = [groupCache EXCEPT ![q.g] = "live"]
      /\ UNCHANGED <<tables, byGroup, byUser, faults>>
  BY DEF Turn, cacheListedGroup, At, Clear, Fit, Warranted, Agreed, Knows, IInv, TypeOK
<1>2. Knows(q) /\ (faults = 0 => Complete(q))
  BY DEF Turn, Agreed
<1>3. PICK n : n = [q EXCEPT !.pc = "cacheGroup"]
  OBVIOUS
<1>4. n.pc = "cacheGroup" /\ Same(n, q)
  BY <1>3, Moved DEF Turn, Fit
<1>5. req'[r] = n
  BY <1>1, <1>3, Stepped DEF Turn, cacheListedGroup, Goto
<1>6. groupCache'[q.g] # "none" /\ member' = member /\ byUser' = byUser
  BY <1>1 DEF Turn, IInv, TypeOK, tables
<1>7. Knows(n)'
  BY <1>1, <1>2, <1>4, <1>6 DEF Knows, Same, Removing
<1>8. ASSUME faults = 0 PROVE KnowsAdding(n)' /\ KnowsRemoving(n)' /\ KnowsListing(n)'
  <2>1. KnowsListing(q)
    BY <1>2, <1>8 DEF Complete
  <2>2. KnowsListing(n)'
    BY <1>1, <1>4, <1>6, <2>1 DEF KnowsListing, Same, Looking
  <2>3. KnowsAdding(n)' /\ KnowsRemoving(n)'
    BY <1>1, <1>4 DEF KnowsAdding, KnowsRemoving, Same, Removing, Adding
  <2> QED BY <2>2, <2>3
<1> QED BY <1>1, <1>5, <1>7, <1>8, GroupCached

\* What insert_or_assign, erase and update_expiration do to a category.
LEMMA Inserted ==
    ASSUME NEW S, NEW cat \in Category(S), NEW x, NEW d, d = insert_or_assign(cat, x)
    PROVE  d.known = cat.known \cup {x} /\ d.valid = cat.valid
BY DEF insert_or_assign, Category

LEMMA Erased ==
    ASSUME NEW S, NEW cat \in Category(S), NEW x, NEW d, d = erase(cat, x)
    PROVE  d.known = cat.known \ {x} /\ (d.valid => cat.valid)
<1>1. CASE cat.known \subseteq {x}
  BY <1>1 DEF erase, NoCategory
<1>2. CASE ~(cat.known \subseteq {x})
  <2>1. d.known = cat.known \ {x} /\ d.valid = cat.valid
    BY <1>2 DEF erase, Category
  <2> QED BY <2>1, Zenon
<1> QED BY <1>1, <1>2

LEMMA Validated ==
    ASSUME NEW S, NEW cat \in Category(S), NEW d, d = update_expiration(cat)
    PROVE  d.known = cat.known
BY DEF update_expiration, Category

LEMMA MemberCached ==
    ASSUME NEW r, NEW q, NEW n, Turn(r, q), NEW x, q.g \in Groups,
           x \in Users => <<x, q.g>> \in member,
           byGroup' = [byGroup EXCEPT ![q.g] = insert_or_assign(@, x)],
           UNCHANGED <<tables, byUser, groupCache, faults>>, req'[r] = n, Knows(n),
           n.pc \notin Removing \ {"unUser"}, faults = 0 => Complete(n)
    PROVE  Agreed(req[r])'
<1>1. /\ accounts' = accounts /\ groups' = groups /\ member' = member
      /\ groupCache' = groupCache /\ byUser' = byUser /\ faults' = faults
  BY DEF tables
<1>2. PICK d : d = insert_or_assign(byGroup[q.g], x)
  OBVIOUS
<1>3. d.known = byGroup[q.g].known \cup {x}
  BY <1>2, Inserted DEF Turn, IInv, TypeOK
<1>4. \A g \in Groups : byGroup'[g] = IF g = q.g THEN d ELSE byGroup[g]
  BY <1>2 DEF Turn, IInv, TypeOK
<1>5. Filed'
  BY <1>1, <1>3, <1>4 DEF Turn, Agreed, Filed
<1>6. Knows(n)'
  BY <1>1 DEF Knows, Adding
<1>7. faults' = 0 => Complete(n)'
  BY <1>1 DEF Complete, FullyFiled, KnowsAdding, KnowsRemoving, KnowsListing, Adding
<1> QED BY <1>5, <1>6, <1>7, BecomesAgreed

LEMMA CacheMembershipAgreed ==
    ASSUME NEW r, NEW q, Turn(r, q), cacheMembership(r)
    PROVE  Agreed(req[r])'
<1>1. /\ q.pc = "memberFill" /\ q = req[r] /\ q.g \in Groups /\ <<q.by, q.g>> \in member
      /\ byGroup' = [byGroup EXCEPT ![q.g] = insert_or_assign(@, q.by)]
      /\ UNCHANGED <<tables, byUser, groupCache, faults>>
  BY DEF Turn, cacheMembership, At, Agreed, Knows, IInv, TypeOK, Pairs, Asked
<1>2. PICK n : n = AfterMember(q)
  OBVIOUS
<1>3. req'[r] = n
  BY <1>1, <1>2, Stepped DEF Turn, cacheMembership
<1>4. /\ Knows(n) /\ n.pc \notin {"memberFill", "dbRemove", "removeGroup"}
      /\ n.pc \notin Removing \ {"unUser"}
      /\ Complete(q) => KnowsAdding(n) /\ KnowsRemoving(n) /\ KnowsListing(n)
  BY <1>1, <1>2, MemberKnows
<1>5. ASSUME faults = 0 PROVE Complete(n)
  <2>1. Complete(q)
    BY <1>5 DEF Turn, Agreed
  <2>2. FullyFiled(n)
    BY <1>1, <2>1 DEF Complete, FullyFiled
  <2> QED BY <1>4, <2>1, <2>2 DEF Complete
<1> QED BY <1>1, <1>3, <1>4, <1>5, MemberCached

LEMMA CacheUserAgreed ==
    ASSUME NEW r, NEW q, Turn(r, q), cacheUser(r)
    PROVE  Agreed(req[r])'
<1>1. /\ q.pc = "cacheUser" /\ q = req[r] /\ q.g \in Groups /\ <<q.u, q.g>> \in member
      /\ q \in Request /\ Knows(q) /\ Where(q)
      /\ UNCHANGED <<tables, byUser, groupCache, faults>>
  BY DEF Turn, cacheUser, At, Agreed, Knows, IInv, TypeOK, Pairs, Fit
<1>2. PICK x : x = IF q.op = "listUsers" /\ ~q.foundUser THEN None ELSE q.u
  OBVIOUS
<1>3. /\ byGroup' = [byGroup EXCEPT ![q.g] = insert_or_assign(@, x)]
      /\ x \in Users => <<x, q.g>> \in member
  BY <1>1, <1>2, MembershipAssumption DEF cacheUser
<1>4. PICK n : n = [q EXCEPT !.pc = IF q.op = "listUsers" THEN "next" ELSE "cacheGroup"]
  OBVIOUS
<1>5. Same(n, q) /\ n.pc = IF q.op = "listUsers" THEN "next" ELSE "cacheGroup"
  BY <1>1, <1>4, Moved
<1>6. req'[r] = n
  BY <1>1, <1>4, Stepped DEF Turn, cacheUser, Goto
<1>7. q.op = "listUsers" \/ Adding(q)
  BY <1>1 DEF Where, Adding
<1>8. Knows(n) /\ n.pc \notin Removing
  BY <1>1, <1>5, <1>7 DEF Knows, Same, Removing, Adding
<1>9. ASSUME faults = 0 PROVE Complete(n)
  <2>1. Complete(q)
    BY <1>9 DEF Turn, Agreed
  <2>2. FullyFiled(n)
    <3>1. Adding(q) /\ q.pc = "cacheUser" => Adding(n) /\ n.pc = "cacheGroup"
      BY <1>5 DEF Adding, Same
    <3>2. n.u = q.u /\ n.g = q.g
      BY <1>5 DEF Same
    <3> QED BY <1>1, <2>1, <3>1, <3>2 DEF Complete, FullyFiled
  <2>3. KnowsAdding(n)
    BY <1>1, <1>5, <1>7, <2>1 DEF Complete, KnowsAdding, Same, Adding
  <2>4. KnowsRemoving(n) /\ KnowsListing(n)
    BY <1>5, <1>7 DEF KnowsRemoving, KnowsListing, Same, Adding, Removing
  <2> QED BY <2>2, <2>3, <2>4 DEF Complete
<1> QED BY <1>1, <1>3, <1>6, <1>8, <1>9, MemberCached

(***************************************************************************)
(* Steps that store a membership or a group                                *)
(***************************************************************************)
\* An answer whose effect on tables and caches agrees.
LEMMA AnsweredAgreed ==
    ASSUME NEW r, NEW q, Turn(r, q), Step(r, Idle), Filed', faults' = 0 => FullyFiled(Idle)'
    PROVE  Agreed(req[r])'
<1>1. PICK n : n = Idle
  OBVIOUS
<1>2. req'[r] = n
  BY <1>1, Stepped DEF Turn
<1>3. Knows(n)' /\ KnowsAdding(n)' /\ KnowsRemoving(n)' /\ KnowsListing(n)'
  BY <1>1 DEF Knows, KnowsAdding, KnowsRemoving, KnowsListing, Idle, Adding, Removing, Looking
<1>4. FullyFiled(Idle)' => FullyFiled(n)'
  BY <1>1
<1> QED BY <1>2, <1>3, <1>4, BecomesAgreed DEF Complete

LEMMA PutMembershipAgreed ==
    ASSUME NEW r, NEW q, Turn(r, q), putMembership(r)
    PROVE  Agreed(req[r])'
<1>1. /\ q.pc = "put" /\ q = req[r] /\ Adding(q) /\ q \in Request
      /\ accounts' = accounts /\ groups' = groups
      /\ byGroup' = byGroup /\ byUser' = byUser /\ groupCache' = groupCache
      /\ Fault \/ UNCHANGED faults
  BY DEF Turn, putMembership, At, Fit, Where, caches
<1>2. Knows(q) /\ (faults = 0 => Complete(q)) /\ Filed
  BY DEF Turn, Agreed
<1>3. PICK p : p = <<q.u, q.g>>
  OBVIOUS
<1>4. member \subseteq member'
  BY <1>1, <1>3 DEF putMembership
<1>5. Filed'
  BY <1>1, <1>2, <1>4 DEF Filed
<1>6. CASE member' = member \cup {p} /\ Goto(r, "cacheUser") /\ UNCHANGED faults
  <2>1. PICK n : n = [q EXCEPT !.pc = "cacheUser"]
    OBVIOUS
  <2>2. n.pc = "cacheUser" /\ Same(n, q)
    BY <1>1, <2>1, Moved
  <2>3. req'[r] = n
    BY <1>1, <1>6, <2>1, Stepped DEF Turn, Goto
  <2>4. <<n.u, n.g>> = p /\ n.u = q.u /\ n.g = q.g /\ n.op \in {"add", "create"} /\ Adding(n)
    BY <1>1, <1>3, <2>2 DEF Same, Adding
  <2>5. Knows(n)'
    BY <1>6, <2>2, <2>4 DEF Knows, Removing
  <2>6. ASSUME faults' = 0 PROVE Complete(n)'
    <3>1. FullyFiled(q) /\ KnowsAdding(q)
      BY <1>2, <1>6, <2>6 DEF Complete
    <3>2. /\ q.u \in accounts /\ q.g \in groups
          /\ q.foundUser /\ q.foundGroup /\ groupCache[q.g] # "none"
      BY <1>1, <3>1 DEF KnowsAdding, Adding
    <3>3. p[1] \in accounts /\ p[2] \in groups
      BY <1>3, <3>2
    <3>4. FullyFiled(n)'
      BY <1>1, <1>6, <2>2, <2>4, <3>1, <3>3 DEF FullyFiled, Adding
    <3>5. KnowsAdding(n)'
      BY <1>1, <1>6, <2>2, <2>4, <3>2 DEF KnowsAdding, Same
    <3>6. KnowsRemoving(n)' /\ KnowsListing(n)'
      BY <2>2, <2>4 DEF KnowsRemoving, KnowsListing, Removing
    <3> QED BY <3>4, <3>5, <3>6 DEF Complete
  <2> QED BY <1>5, <2>3, <2>5, <2>6, BecomesAgreed
<1>7. CASE Fault /\ Step(r, Idle)
  BY <1>5, <1>7, FaultCounted, AnsweredAgreed DEF Turn
<1> QED BY <1>1, <1>3, <1>6, <1>7 DEF putMembership

LEMMA CacheGroupAgreed ==
    ASSUME NEW r, NEW q, Turn(r, q), cacheGroup(r)
    PROVE  Agreed(req[r])'
<1>1. /\ q.pc = "cacheGroup" /\ q = req[r] /\ q \in Request
      /\ accounts' = accounts /\ groups' = groups /\ member' = member
      /\ byGroup' = byGroup /\ groupCache' = groupCache /\ faults' = faults
  BY DEF Turn, cacheGroup, At, Fit, tables
<1>2. Knows(q) /\ (faults = 0 => Complete(q)) /\ Filed /\ (q.op = "listGroups" \/ Adding(q))
  BY <1>1 DEF Turn, Agreed, Knows
<1>3. Filed'
  BY <1>1, <1>2 DEF Filed
<1>4. ASSUME faults = 0
      PROVE  /\ FullyFiled(q) /\ q.foundGroup /\ groupCache[q.g] # "none" /\ <<q.u, q.g>> \in member
             /\ \A u \in Users : u # q.u => byUser'[u] = byUser[u]
             /\ byUser'[q.u].known = byUser[q.u].known \cup {q.g}
             /\ q.u \in Users /\ q.g \in Groups
  <2>1. FullyFiled(q) /\ KnowsAdding(q) /\ KnowsListing(q)
    BY <1>2, <1>4 DEF Complete
  <2>2. /\ q.foundGroup /\ groupCache[q.g] # "none" /\ <<q.u, q.g>> \in member
        /\ q.op = "listGroups" \/ q.foundUser
    <3>1. CASE q.op = "listGroups"
      BY <1>1, <2>1, <3>1 DEF KnowsListing, Looking
    <3>2. CASE Adding(q)
      BY <1>1, <2>1, <3>2 DEF KnowsAdding
    <3> QED BY <1>2, <3>1, <3>2
  <2>3. q.u \in Users /\ q.g \in Groups
    BY <2>2 DEF Turn, IInv, TypeOK, Pairs
  <2>4. PICK d : d = insert_or_assign(byUser[q.u], q.g)
    OBVIOUS
  <2>5. byUser' = [byUser EXCEPT ![q.u] = d]
    BY <1>1, <2>2, <2>4 DEF cacheGroup
  <2>6. d.known = byUser[q.u].known \cup {q.g}
    BY <2>3, <2>4, Inserted DEF Turn, IInv, TypeOK
  <2>7. byUser'[q.u] = d /\ \A u \in Users : u # q.u => byUser'[u] = byUser[u]
    BY <2>3, <2>5 DEF Turn, IInv, TypeOK
  <2> QED BY <2>1, <2>2, <2>3, <2>6, <2>7
<1>5. ASSUME faults = 0
      PROVE  /\ \A p \in member : p[1] \in accounts /\ p[2] \in groups
             /\ \A p \in member : byUser'[p[1]].valid => p[2] \in byUser'[p[1]].known
             /\ \A u \in Users : \A g \in byUser'[u].known \ {None} :
                  groupCache[g] # "none" /\ <<u, g>> \in member
  <2>1. \A p \in member : byUser'[p[1]].valid => p[2] \in byUser'[p[1]].known
    <3> SUFFICES ASSUME NEW p \in member, byUser'[p[1]].valid PROVE p[2] \in byUser'[p[1]].known
      OBVIOUS
    <3>1. p \in Pairs /\ p[1] \in Users /\ p = <<p[1], p[2]>>
      BY DEF Turn, IInv, TypeOK, Pairs
    <3>2. CASE p[1] # q.u
      <4>1. byUser'[p[1]] = byUser[p[1]] /\ p # <<q.u, q.g>>
        BY <1>4, <1>5, <3>1, <3>2
      <4> QED BY <1>4, <1>5, <4>1 DEF FullyFiled
    <3>3. CASE p[1] = q.u
      <4>1. p[2] \in byUser[q.u].known \/ p[2] = q.g
        <5>1. PICK f : f = byUser[q.u]
          OBVIOUS
        <5>2. PICK d : d = insert_or_assign(f, q.g)
          OBVIOUS
        <5>3. d.valid = f.valid
          BY <1>4, <1>5, <5>1, <5>2, Inserted DEF Turn, IInv, TypeOK
        <5>4. byUser'[q.u] = d
          <6>1. q.op = "listGroups" \/ q.foundUser
            BY <1>1, <1>2, <1>5 DEF Complete, KnowsAdding
          <6> QED BY <1>1, <1>4, <1>5, <5>1, <5>2, <6>1 DEF Turn, IInv, TypeOK, cacheGroup
        <5>5. f.valid
          <6>1. d.valid
            BY <3>3, <5>4
          <6> QED BY <5>3, <6>1, Zenon
        <5> QED BY <1>4, <1>5, <3>1, <3>3, <5>1, <5>5 DEF FullyFiled
      <4> QED BY <1>4, <1>5, <3>3, <4>1
    <3> QED BY <3>2, <3>3
  <2>2. \A u \in Users : \A g \in byUser'[u].known \ {None} :
          groupCache[g] # "none" /\ <<u, g>> \in member
    BY <1>4, <1>5 DEF FullyFiled
  <2> QED BY <1>4, <1>5, <2>1, <2>2 DEF FullyFiled
<1>6. CASE q.op = "listGroups"
  <2>1. PICK n : n = [q EXCEPT !.pc = "next"]
    OBVIOUS
  <2>2. n.pc = "next" /\ Same(n, q)
    BY <1>1, <2>1, Moved
  <2>3. req'[r] = n
    BY <1>1, <1>6, <2>1, Stepped DEF Turn, cacheGroup
  <2>4. Knows(n)'
    BY <1>1, <1>2, <1>6, <2>2 DEF Knows, Same, Removing
  <2>5. ASSUME faults = 0 PROVE Complete(n)'
    <3>1. FullyFiled(n)'
      BY <1>1, <1>5, <2>5 DEF FullyFiled
    <3>2. KnowsListing(q)
      BY <1>2, <2>5 DEF Complete
    <3>3. KnowsListing(n)'
      BY <1>1, <1>4, <1>6, <2>2, <2>5, <3>2 DEF KnowsListing, Same, Looking
    <3>4. KnowsAdding(n)' /\ KnowsRemoving(n)'
      BY <1>6, <2>2 DEF KnowsAdding, KnowsRemoving, Same, Removing, Adding
    <3> QED BY <3>1, <3>3, <3>4 DEF Complete
  <2> QED BY <1>1, <1>3, <2>3, <2>4, <2>5, BecomesAgreed
<1>7. CASE q.op # "listGroups"
  <2>1. Step(r, Idle)
    BY <1>1, <1>7 DEF cacheGroup
  <2>2. faults = 0 => FullyFiled(Idle)'
    BY <1>1, <1>5 DEF FullyFiled
  <2> QED BY <1>1, <1>3, <2>1, <2>2, AnsweredAgreed
<1> QED BY <1>6, <1>7

LEMMA PutGroupAgreed ==
    ASSUME NEW r, NEW q, Turn(r, q), putGroup(r)
    PROVE  Agreed(req[r])'
<1>1. /\ q.pc = "putGroup" /\ q = req[r] /\ q \in Request
      /\ accounts' = accounts /\ member' = member
      /\ byGroup' = byGroup /\ byUser' = byUser /\ groupCache' = groupCache
      /\ Fault \/ UNCHANGED faults
  BY DEF Turn, putGroup, At, Fit, caches
<1>2. Knows(q) /\ (faults = 0 => Complete(q)) /\ Filed
  BY DEF Turn, Agreed
<1>3. groups \subseteq groups'
  BY <1>1 DEF putGroup
<1>4. Filed'
  BY <1>1, <1>2, <1>3 DEF Filed
<1>5. CASE groups' = groups \cup {q.g} /\ Goto(r, "cacheNewGroup") /\ UNCHANGED faults
  <2>1. PICK n : n = [q EXCEPT !.pc = "cacheNewGroup"]
    OBVIOUS
  <2>2. n.pc = "cacheNewGroup" /\ Same(n, q)
    BY <1>1, <2>1, Moved
  <2>3. req'[r] = n
    BY <1>1, <1>5, <2>1, Stepped DEF Turn, Goto
  <2>4. Knows(n)'
    BY <1>1, <1>2, <1>5, <2>2 DEF Knows, Same, Removing
  <2>5. ASSUME faults' = 0 PROVE Complete(n)'
    <3>1. FullyFiled(q) /\ KnowsAdding(q) /\ KnowsListing(q)
      BY <1>2, <1>5, <2>5 DEF Complete
    <3>2. FullyFiled(n)'
      BY <1>1, <1>3, <3>1 DEF FullyFiled
    <3>3. KnowsAdding(n)'
      BY <1>1, <1>3, <1>5, <2>2, <3>1 DEF KnowsAdding, Same
    <3>4. KnowsRemoving(n)' /\ KnowsListing(n)'
      BY <1>1, <2>2, <3>1 DEF KnowsRemoving, KnowsListing, Same, Removing, Looking
    <3> QED BY <3>2, <3>3, <3>4 DEF Complete
  <2> QED BY <1>4, <2>3, <2>4, <2>5, BecomesAgreed
<1>6. CASE Fault /\ Step(r, Idle)
  BY <1>4, <1>6, FaultCounted, AnsweredAgreed DEF Turn
<1> QED BY <1>1, <1>5, <1>6 DEF putGroup

(***************************************************************************)
(* Steps that remove a membership                                          *)
(***************************************************************************)
LEMMA UncacheUserAgreed ==
    ASSUME NEW r, NEW q, Turn(r, q), uncacheUser(r)
    PROVE  Agreed(req[r])'
<1>1. /\ q.pc = "unUser" /\ q = req[r] /\ q \in Request
      /\ accounts' = accounts /\ groups' = groups /\ member' = member
      /\ byUser' = byUser /\ groupCache' = groupCache /\ faults' = faults
  BY DEF Turn, uncacheUser, At, Fit, tables
<1>2. Knows(q) /\ (faults = 0 => Complete(q)) /\ Filed /\ q.g \in Groups
  BY <1>1 DEF Turn, Agreed, Knows, Removing
<1>3. PICK d : d = erase(byGroup[q.g], q.u)
  OBVIOUS
<1>4. d.known = byGroup[q.g].known \ {q.u}
  BY <1>2, <1>3, Erased DEF Turn, IInv, TypeOK
<1>5. byGroup'[q.g] = d /\ \A g \in Groups : g # q.g => byGroup'[g] = byGroup[g]
  BY <1>1, <1>2, <1>3 DEF Turn, IInv, TypeOK, uncacheUser
<1>6. Filed'
  BY <1>1, <1>2, <1>4, <1>5 DEF Filed
<1>7. PICK n : n = [q EXCEPT !.pc = "unGroup"]
  OBVIOUS
<1>8. n.pc = "unGroup" /\ Same(n, q)
  BY <1>1, <1>7, Moved
<1>9. req'[r] = n
  BY <1>1, <1>7, Stepped DEF Turn, uncacheUser, Goto
<1>10. Knows(n)'
  BY <1>1, <1>2, <1>4, <1>5, <1>8 DEF Knows, Same, Removing
<1>11. ASSUME faults = 0 PROVE Complete(n)'
  <2>1. Complete(q)
    BY <1>2, <1>11
  <2>2. FullyFiled(n)' /\ KnowsAdding(n)'
    BY <1>1, <1>8, <2>1 DEF Complete, FullyFiled, KnowsAdding, Same, Adding
  <2>3. KnowsRemoving(n)' /\ KnowsListing(n)'
    BY <1>1, <1>8, <2>1 DEF Complete, KnowsRemoving, KnowsListing, Same, Removing, Looking
  <2> QED BY <2>2, <2>3 DEF Complete
<1> QED BY <1>1, <1>6, <1>9, <1>10, <1>11, BecomesAgreed

LEMMA FindCachedGroupAgreed ==
    ASSUME NEW r, NEW q, Turn(r, q), findCachedGroup(r)
    PROVE  Agreed(req[r])'
<1>1. /\ q.pc = "unGroup" /\ q = req[r] /\ q \in Request /\ Clear(q)
      /\ UNCHANGED <<tables, caches, faults>>
  BY DEF Turn, findCachedGroup, At, Fit, Clear
<1>2. Knows(q) /\ (faults = 0 => Complete(q)) /\ q.u \in Users /\ q.g \in Groups
  BY <1>1 DEF Turn, Agreed, Knows, Removing
<1>3. PICK n : n = [q EXCEPT !.pc = IF groupCache[q.g] = "none" THEN "dbRemove" ELSE "unGroupErase"]
  OBVIOUS
<1>4. /\ n.pc = (IF groupCache[q.g] = "none" THEN "dbRemove" ELSE "unGroupErase")
      /\ Same(n, q)
  BY <1>1, <1>3, Moved
<1>5. req'[r] = n
  BY <1>1, <1>3, Stepped DEF Turn, findCachedGroup, Goto
<1>6. Knows(n)
  BY <1>1, <1>2, <1>4 DEF Knows, Same, Removing
<1>7. ASSUME faults = 0 PROVE KnowsAdding(n) /\ KnowsRemoving(n) /\ KnowsListing(n)
  <2>1. FullyFiled(q) /\ KnowsAdding(q) /\ KnowsRemoving(q) /\ KnowsListing(q)
    BY <1>2, <1>7 DEF Complete
  <2>2. n.pc = "dbRemove" => n.g \notin byUser[n.u].known
    BY <1>2, <1>4, <2>1, MembershipAssumption DEF FullyFiled, Same
  <2>3. KnowsRemoving(n)
    BY <1>1, <1>4, <2>1, <2>2 DEF KnowsRemoving, Same, Removing
  <2>4. KnowsAdding(n) /\ KnowsListing(n)
    BY <1>1, <1>4, <2>1 DEF KnowsAdding, KnowsListing, Same, Looking, Adding
  <2> QED BY <2>3, <2>4
<1> QED BY <1>1, <1>5, <1>6, <1>7, QuietAgreed

LEMMA UncacheGroupOfUserAgreed ==
    ASSUME NEW r, NEW q, Turn(r, q), uncacheGroupOfUser(r)
    PROVE  Agreed(req[r])'
<1>1. /\ q.pc = "unGroupErase" /\ q = req[r] /\ q \in Request
      /\ accounts' = accounts /\ groups' = groups /\ member' = member
      /\ byGroup' = byGroup /\ groupCache' = groupCache /\ faults' = faults
  BY DEF Turn, uncacheGroupOfUser, At, Fit, tables
<1>2. Knows(q) /\ (faults = 0 => Complete(q)) /\ Filed /\ q.u \in Users /\ q.g \in Groups
  BY <1>1 DEF Turn, Agreed, Knows, Removing
<1>3. PICK d : d = erase(byUser[q.u], q.g)
  OBVIOUS
<1>4. d.known = byUser[q.u].known \ {q.g} /\ (d.valid => byUser[q.u].valid)
  BY <1>2, <1>3, Erased DEF Turn, IInv, TypeOK
<1>5. byUser'[q.u] = d /\ \A u \in Users : u # q.u => byUser'[u] = byUser[u]
  BY <1>1, <1>2, <1>3 DEF Turn, IInv, TypeOK, uncacheGroupOfUser
<1>6. Filed'
  BY <1>1, <1>2 DEF Filed
<1>7. PICK n : n = [q EXCEPT !.pc = "dbRemove"]
  OBVIOUS
<1>8. n.pc = "dbRemove" /\ Same(n, q)
  BY <1>1, <1>7, Moved
<1>9. req'[r] = n
  BY <1>1, <1>7, Stepped DEF Turn, uncacheGroupOfUser, Goto
<1>10. Knows(n)'
  BY <1>1, <1>2, <1>8 DEF Knows, Same, Removing
<1>11. ASSUME faults = 0 PROVE Complete(n)'
  <2>1. FullyFiled(q) /\ KnowsAdding(q) /\ KnowsRemoving(q)
    BY <1>2, <1>11 DEF Complete
  <2>2. \A p \in member : byUser'[p[1]].valid => p[2] \in byUser'[p[1]].known \/ p = <<q.u, q.g>>
    <3> SUFFICES ASSUME NEW p \in member, byUser'[p[1]].valid, p # <<q.u, q.g>>
                 PROVE  p[2] \in byUser'[p[1]].known
      OBVIOUS
    <3>1. p[1] \in Users /\ p = <<p[1], p[2]>>
      BY DEF Turn, IInv, TypeOK, Pairs
    <3>2. byUser[p[1]].valid
      <4>1. CASE p[1] = q.u
        <5>1. d.valid
          BY <1>5, <4>1
        <5> QED BY <1>4, <4>1, <5>1
      <4>2. CASE p[1] # q.u
        BY <1>5, <3>1, <4>2
      <4> QED BY <4>1, <4>2
    <3>3. p[2] \in byUser[p[1]].known
      BY <1>1, <2>1, <3>2 DEF FullyFiled, Adding
    <3> QED BY <1>4, <1>5, <3>1, <3>3
  <2>3. \A u \in Users : byUser'[u].known \subseteq byUser[u].known
    BY <1>4, <1>5
  <2>4. FullyFiled(n)'
    BY <1>1, <1>8, <2>1, <2>2, <2>3 DEF FullyFiled, Same
  <2>5. q.op \in {"remove", "deleteUser", "deleteGroup"}
    BY <1>1 DEF Turn, Fit, Where
  <2>6. q.g \notin byUser'[q.u].known
    BY <1>4, <1>5
  <2>7. KnowsRemoving(n)'
    BY <1>1, <1>8, <2>1, <2>6 DEF KnowsRemoving, Same, Removing
  <2>8. KnowsAdding(n)' /\ KnowsListing(n)'
    BY <1>8, <2>5 DEF KnowsAdding, KnowsListing, Same, Adding
  <2> QED BY <2>4, <2>7, <2>8 DEF Complete
<1> QED BY <1>1, <1>6, <1>9, <1>10, <1>11, BecomesAgreed

LEMMA DbRemoveMembershipAgreed ==
    ASSUME NEW r, NEW q, Turn(r, q), dbRemoveMembership(r)
    PROVE  Agreed(req[r])'
<1>1. /\ q.pc = "dbRemove" /\ q = req[r] /\ q \in Request
      /\ accounts' = accounts /\ groups' = groups
      /\ byGroup' = byGroup /\ byUser' = byUser /\ groupCache' = groupCache
  BY DEF Turn, dbRemoveMembership, At, Fit, caches
<1>2. /\ Knows(q) /\ (faults = 0 => Complete(q)) /\ Filed /\ q.u \in Users /\ q.g \in Groups
      /\ q.u \notin byGroup[q.g].known /\ q.op \in {"remove", "deleteUser", "deleteGroup"}
  BY <1>1 DEF Turn, Agreed, Knows, Removing, Fit, Where
<1>3. PICK p : p = <<q.u, q.g>>
  OBVIOUS
<1>4. member \ {p} \subseteq member' /\ member' \subseteq member
  BY <1>1, <1>3 DEF dbRemoveMembership
<1>5. Filed'
  BY <1>1, <1>2, <1>3, <1>4 DEF Filed
<1>6. ASSUME faults' = 0
      PROVE  faults = 0 /\ Complete(q) /\ member' = member \ {p}
  BY <1>1, <1>2, <1>3, <1>6, FaultCounted DEF Turn, dbRemoveMembership
<1>7. faults' = 0 => FullyFiled(Idle)'
  <2> SUFFICES ASSUME faults' = 0 PROVE FullyFiled(Idle)'
    OBVIOUS
  <2>1. FullyFiled(q) /\ KnowsRemoving(q) /\ member' = member \ {p}
    BY <1>6 DEF Complete
  <2>2. \A s \in member' : byUser[s[1]].valid => s[2] \in byUser[s[1]].known
    BY <1>1, <1>3, <2>1 DEF FullyFiled, Adding
  <2>3. \A u \in Users : \A g \in byUser[u].known : <<u, g>> # p
    BY <1>1, <1>3, <2>1 DEF KnowsRemoving
  <2> QED BY <1>1, <2>1, <2>2, <2>3 DEF FullyFiled
<1>8. CASE Step(r, Idle)
  BY <1>5, <1>7, <1>8, AnsweredAgreed
<1>9. CASE Step(r, [q EXCEPT !.pc = "next"]) /\ q.op # "remove"
  <2>1. PICK n : n = [q EXCEPT !.pc = "next"]
    OBVIOUS
  <2>2. n.pc = "next" /\ Same(n, q)
    BY <1>1, <2>1, Moved
  <2>3. req'[r] = n
    BY <1>9, <2>1, Stepped DEF Turn
  <2>4. Knows(n)'
    BY <1>1, <1>2, <1>9, <2>2 DEF Knows, Same, Removing
  <2>5. ASSUME faults' = 0 PROVE Complete(n)'
    <3>1. FullyFiled(n)'
      BY <1>7, <2>2, <2>5, <1>1 DEF FullyFiled, Idle, Adding
    <3>2. KnowsRemoving(n)'
      <4>1. KnowsRemoving(q) /\ member' = member \ {p}
        BY <1>6, <2>5 DEF Complete
      <4>2. \A s \in member' : s # p /\ s = <<s[1], s[2]>>
        BY <4>1 DEF Turn, IInv, TypeOK, Pairs
      <4> QED BY <1>1, <1>2, <1>3, <2>2, <4>1, <4>2 DEF KnowsRemoving, Same, Removing
    <3>3. KnowsAdding(n)' /\ KnowsListing(n)'
      BY <1>2, <2>2 DEF KnowsAdding, KnowsListing, Same, Adding
    <3> QED BY <3>1, <3>2, <3>3 DEF Complete
  <2> QED BY <1>5, <2>3, <2>4, <2>5, BecomesAgreed
<1> QED BY <1>1, <1>8, <1>9 DEF dbRemoveMembership

(***************************************************************************)
(* Steps that remove a user or a group                                     *)
(***************************************************************************)
LEMMA RemoveUserAgreed ==
    ASSUME NEW r, NEW q, Turn(r, q), removeUser(r)
    PROVE  Agreed(req[r])'
<1>1. /\ q.pc = "removeUser" /\ q = req[r] /\ Step(r, Idle)
      /\ groups' = groups /\ member' = member
      /\ byGroup' = byGroup /\ byUser' = byUser /\ groupCache' = groupCache
      /\ Fault \/ UNCHANGED faults
  BY DEF Turn, removeUser, At, caches
<1>2. Knows(q) /\ (faults = 0 => Complete(q)) /\ Filed /\ q.op = "deleteUser"
  BY <1>1 DEF Turn, Agreed, Knows
<1>3. Filed'
  BY <1>1, <1>2 DEF Filed
<1>4. ASSUME faults' = 0 PROVE FullyFiled(Idle)'
  <2>1. faults = 0 /\ accounts' = accounts \ {q.u}
    BY <1>1, <1>4, FaultCounted DEF Turn, removeUser
  <2>2. FullyFiled(q) /\ KnowsRemoving(q)
    BY <1>2, <2>1 DEF Complete
  <2>3. \A p \in member : p[1] # q.u
    BY <1>1, <1>2, <2>2 DEF KnowsRemoving, Removing
  <2> QED BY <1>1, <2>1, <2>2, <2>3 DEF FullyFiled, Adding
<1> QED BY <1>1, <1>3, <1>4, AnsweredAgreed

LEMMA UncacheGroupAgreed ==
    ASSUME NEW r, NEW q, Turn(r, q), uncacheGroup(r)
    PROVE  Agreed(req[r])'
<1>1. /\ q.pc = "uncacheGroup" /\ q = req[r] /\ q \in Request
      /\ accounts' = accounts /\ groups' = groups /\ member' = member
      /\ byGroup' = byGroup /\ byUser' = byUser /\ faults' = faults
  BY DEF Turn, uncacheGroup, At, Fit, tables
<1>2. /\ Knows(q) /\ (faults = 0 => Complete(q)) /\ Filed
      /\ q.op = "deleteGroup" /\ q.g \in Groups
  BY <1>1 DEF Turn, Agreed, Knows, Fit, Warranted
<1>3. \A g \in Groups : groupCache'[g] = IF g = q.g THEN "none" ELSE groupCache[g]
  BY <1>1 DEF Turn, IInv, TypeOK, uncacheGroup
<1>4. Filed'
  BY <1>1, <1>2, <1>3 DEF Filed
<1>5. PICK n : n = [q EXCEPT !.pc = "removeGroup"]
  OBVIOUS
<1>6. n.pc = "removeGroup" /\ Same(n, q)
  BY <1>1, <1>5, Moved
<1>7. req'[r] = n
  BY <1>1, <1>5, Stepped DEF Turn, uncacheGroup, Goto
<1>8. Knows(n)'
  BY <1>1, <1>2, <1>3, <1>6 DEF Knows, Same, Removing
<1>9. ASSUME faults = 0 PROVE Complete(n)'
  <2>1. FullyFiled(q) /\ KnowsRemoving(q)
    BY <1>2, <1>9 DEF Complete
  <2>2. \A p \in member : p[2] # q.g
    BY <1>1, <1>2, <2>1 DEF KnowsRemoving, Removing
  <2>3. \A u \in Users : \A g \in byUser[u].known \ {None} : groupCache'[g] # "none"
    <3> SUFFICES ASSUME NEW u \in Users, NEW g \in byUser[u].known \ {None}
                 PROVE  groupCache'[g] # "none"
      OBVIOUS
    <3>1. g \in Groups
      BY DEF Turn, IInv, TypeOK, Category, GroupIDs
    <3>2. <<u, g>> \in member /\ groupCache[g] # "none"
      BY <2>1 DEF FullyFiled
    <3> QED BY <1>3, <2>2, <3>1, <3>2
  <2>4. FullyFiled(n)'
    BY <1>1, <2>1, <2>3 DEF FullyFiled, Adding
  <2>5. KnowsRemoving(n)'
    BY <1>1, <1>2, <1>6, <2>2 DEF KnowsRemoving, Same, Removing
  <2>6. KnowsAdding(n)' /\ KnowsListing(n)'
    BY <1>2, <1>6 DEF KnowsAdding, KnowsListing, Same, Adding
  <2> QED BY <2>4, <2>5, <2>6 DEF Complete
<1> QED BY <1>1, <1>4, <1>7, <1>8, <1>9, BecomesAgreed

LEMMA RemoveGroupAgreed ==
    ASSUME NEW r, NEW q, Turn(r, q), removeGroup(r)
    PROVE  Agreed(req[r])'
<1>1. /\ q.pc = "removeGroup" /\ q = req[r] /\ Step(r, Idle)
      /\ accounts' = accounts /\ member' = member
      /\ byGroup' = byGroup /\ byUser' = byUser /\ groupCache' = groupCache
      /\ Fault \/ UNCHANGED faults
  BY DEF Turn, removeGroup, At, caches
<1>2. /\ Knows(q) /\ (faults = 0 => Complete(q)) /\ Filed
      /\ q.op = "deleteGroup" /\ groupCache[q.g] = "none"
  BY <1>1 DEF Turn, Agreed, Knows
<1>3. groups \ {q.g} \subseteq groups'
  BY <1>1 DEF removeGroup
<1>4. Filed'
  BY <1>1, <1>2, <1>3 DEF Filed
<1>5. ASSUME faults' = 0 PROVE FullyFiled(Idle)'
  <2>1. faults = 0
    BY <1>1, <1>5, FaultCounted DEF Turn
  <2>2. FullyFiled(q) /\ KnowsRemoving(q)
    BY <1>2, <2>1 DEF Complete
  <2>3. \A p \in member : p[2] # q.g
    BY <1>1, <1>2, <2>2 DEF KnowsRemoving, Removing
  <2> QED BY <1>1, <1>3, <2>2, <2>3 DEF FullyFiled, Adding
<1> QED BY <1>1, <1>4, <1>5, AnsweredAgreed

(***************************************************************************)
(* The loops over memberships                                              *)
(***************************************************************************)
LEMMA QueryMembershipsAgreed ==
    ASSUME NEW r, NEW q, Turn(r, q), queryMemberships(r)
    PROVE  Agreed(req[r])'
<1>1. /\ q.pc = "query" /\ q = req[r] /\ q \in Request /\ Clear(q)
      /\ q.op \in {"deleteUser", "deleteGroup"}
      /\ UNCHANGED <<tables, caches>>
      /\ Fault \/ UNCHANGED faults
  BY DEF Turn, queryMemberships, At, Fit, Where, Clear
<1>2. Knows(q)
  BY DEF Turn, Agreed
<1>3. CASE Step(r, [q EXCEPT !.pc = "next", !.todo = MembershipsOf(q)])
  <2>1. PICK n : n = [q EXCEPT !.pc = "next", !.todo = MembershipsOf(q)]
    OBVIOUS
  <2>2. n.pc = "next" /\ n.op = q.op /\ n.u = q.u /\ n.g = q.g /\ n.todo = MembershipsOf(q)
    BY <1>1, <2>1 DEF Request
  <2>3. req'[r] = n
    BY <1>3, <2>1, Stepped DEF Turn
  <2>4. Knows(n)
    BY <1>1, <2>2 DEF Knows, Removing, MembershipsOf
  <2>5. KnowsAdding(n) /\ KnowsRemoving(n) /\ KnowsListing(n)
    BY <1>1, <2>2 DEF KnowsAdding, KnowsRemoving, KnowsListing, Adding, Removing, MembershipsOf
  <2> QED BY <1>1, <2>3, <2>4, <2>5, QuietAgreed
<1>4. CASE Fault /\ Goto(r, "next")
  <2>1. PICK n : n = [q EXCEPT !.pc = "next"]
    OBVIOUS
  <2>2. n.pc = "next" /\ Same(n, q)
    BY <1>1, <2>1, Moved
  <2>3. req'[r] = n
    BY <1>1, <1>4, <2>1, Stepped DEF Turn, Goto
  <2>4. Knows(n)
    BY <1>1, <1>2, <2>2 DEF Knows, Same, Removing
  <2> QED BY <1>1, <1>4, <2>3, <2>4, FaultCounted, QuietAgreed DEF Turn
<1> QED BY <1>1, <1>3, <1>4 DEF queryMemberships

LEMMA NextMembershipAgreed ==
    ASSUME NEW r, NEW q, Turn(r, q), nextMembership(r)
    PROVE  Agreed(req[r])'
<1>1. /\ q.pc = "next" /\ q = req[r] /\ q \in Request /\ Clear(q)
      /\ q.op \in {"deleteUser", "deleteGroup", "listUsers", "listGroups"}
      /\ UNCHANGED <<tables, caches, faults>>
  BY DEF Turn, nextMembership, At, Fit, Where, Clear
<1>2. Knows(q) /\ (faults = 0 => Complete(q))
  BY DEF Turn, Agreed
<1>3. PICK p \in q.todo :
        Step(r, [q EXCEPT !.todo = @ \ {p}, !.u = p[1], !.g = p[2],
                          !.pc = CASE q.op = "listUsers"  -> "target"
                                   [] q.op = "listGroups" -> "group"
                                   [] OTHER               -> "unUser"])
  BY <1>1 DEF nextMembership
<1>4. PICK n : n = [q EXCEPT !.todo = @ \ {p}, !.u = p[1], !.g = p[2],
                          !.pc = CASE q.op = "listUsers"  -> "target"
                                   [] q.op = "listGroups" -> "group"
                                   [] OTHER               -> "unUser"]
  OBVIOUS
<1>5. /\ n.op = q.op /\ n.todo = q.todo \ {p} /\ n.u = p[1] /\ n.g = p[2]
      /\ q.op = "listUsers" => n.pc = "target"
      /\ q.op = "listGroups" => n.pc = "group"
      /\ q.op \in {"deleteUser", "deleteGroup"} => n.pc = "unUser"
  BY <1>1, <1>4 DEF Request
<1>6. req'[r] = n
  BY <1>3, <1>4, Stepped DEF Turn
<1>7. p = <<n.u, n.g>> /\ n.u \in Users /\ n.g \in Groups
  BY <1>1, <1>5 DEF Request, Pairs
<1>8. Knows(n)
  BY <1>1, <1>2, <1>5, <1>7 DEF Knows, Removing
<1>9. ASSUME faults = 0 PROVE KnowsAdding(n) /\ KnowsRemoving(n) /\ KnowsListing(n)
  <2>1. KnowsRemoving(q) /\ KnowsListing(q)
    BY <1>2, <1>9 DEF Complete
  <2>2. /\ q.op \in {"deleteUser", "listGroups"} => n.u = q.u
        /\ q.op = "deleteGroup" => n.g = q.g
    BY <1>2, <1>5 DEF Knows
  <2>3. KnowsRemoving(n)
    BY <1>1, <1>5, <2>1, <2>2 DEF KnowsRemoving, Removing
  <2>4. KnowsListing(n)
    BY <1>1, <1>5, <1>7, <2>1, <2>2 DEF KnowsListing, Looking
  <2>5. KnowsAdding(n)
    BY <1>1, <1>5 DEF KnowsAdding, Adding
  <2> QED BY <2>3, <2>4, <2>5
<1> QED BY <1>1, <1>6, <1>8, <1>9, QuietAgreed

LEMMA EndMembershipsAgreed ==
    ASSUME NEW r, NEW q, Turn(r, q), endMemberships(r)
    PROVE  Agreed(req[r])'
<1>1. /\ q.pc = "next" /\ q = req[r] /\ q \in Request /\ Clear(q) /\ q.todo = {}
      /\ q.op \in {"deleteUser", "deleteGroup", "listUsers", "listGroups"}
      /\ UNCHANGED <<tables, caches, faults>>
  BY DEF Turn, endMemberships, At, Fit, Where, Clear
<1>2. Knows(q) /\ (faults = 0 => Complete(q))
  BY DEF Turn, Agreed
<1>3. PICK n : n = [q EXCEPT !.pc = CASE q.op = "deleteUser"  -> "removeUser"
                                     [] q.op = "deleteGroup" -> "uncacheGroup"
                                     [] OTHER                -> "listValid"]
  OBVIOUS
<1>4. /\ Same(n, q)
      /\ q.op = "deleteUser" => n.pc = "removeUser"
      /\ q.op = "deleteGroup" => n.pc = "uncacheGroup"
      /\ q.op \in {"listUsers", "listGroups"} => n.pc = "listValid"
  BY <1>1, <1>3, Moved
<1>5. req'[r] = n
  BY <1>1, <1>3, Stepped DEF Turn, endMemberships, Goto
<1>6. Knows(n)
  BY <1>1, <1>2, <1>4 DEF Knows, Same, Removing
<1>7. ASSUME faults = 0 PROVE KnowsAdding(n) /\ KnowsRemoving(n) /\ KnowsListing(n)
  <2>1. KnowsRemoving(q) /\ KnowsListing(q)
    BY <1>2, <1>7 DEF Complete
  <2>2. KnowsRemoving(n)
    BY <1>1, <1>4, <2>1 DEF KnowsRemoving, Same, Removing
  <2>3. KnowsListing(n)
    BY <1>1, <1>4, <2>1 DEF KnowsListing, Same, Looking
  <2>4. KnowsAdding(n)
    BY <1>1, <1>4 DEF KnowsAdding, Same, Adding
  <2> QED BY <2>2, <2>3, <2>4
<1> QED BY <1>1, <1>5, <1>6, <1>7, QuietAgreed

LEMMA ListMembershipsAgreed ==
    ASSUME NEW r, NEW q, Turn(r, q), listMemberships(r)
    PROVE  Agreed(req[r])'
<1>1. /\ q.pc = "list" /\ q = req[r] /\ q \in Request /\ Clear(q)
      /\ q.op \in {"listUsers", "listGroups"}
      /\ UNCHANGED <<tables, caches>>
      /\ Fault \/ UNCHANGED faults
  BY DEF Turn, listMemberships, At, Fit, Where, Clear
<1>2. CASE Step(r, Idle)
  BY <1>1, <1>2, AnswerAgreed
<1>3. CASE Step(r, [q EXCEPT !.pc = "next", !.todo = MembershipsOf(q), !.act = TRUE])
  <2>1. PICK n : n = [q EXCEPT !.pc = "next", !.todo = MembershipsOf(q), !.act = TRUE]
    OBVIOUS
  <2>2. n.pc = "next" /\ n.op = q.op /\ n.u = q.u /\ n.g = q.g /\ n.todo = MembershipsOf(q)
    BY <1>1, <2>1 DEF Request
  <2>3. req'[r] = n
    BY <1>3, <2>1, Stepped DEF Turn
  <2>4. Knows(n)
    BY <1>1, <2>2 DEF Knows, Removing, MembershipsOf
  <2>5. KnowsAdding(n) /\ KnowsRemoving(n) /\ KnowsListing(n)
    BY <1>1, <2>2
       DEF KnowsAdding, KnowsRemoving, KnowsListing, Adding, Removing, Looking, MembershipsOf
  <2> QED BY <1>1, <2>3, <2>4, <2>5, QuietAgreed
<1> QED BY <1>1, <1>2, <1>3 DEF listMemberships

LEMMA ValidateListingAgreed ==
    ASSUME NEW r, NEW q, Turn(r, q), validateListing(r)
    PROVE  Agreed(req[r])'
<1>1. /\ q.pc = "listValid" /\ q = req[r] /\ Step(r, Idle)
      /\ q.op = "listUsers" \/ q.op = "listGroups"
      /\ accounts' = accounts /\ groups' = groups /\ member' = member
      /\ groupCache' = groupCache /\ faults' = faults
  <2>1. q.pc = "listValid" /\ Knows(q)
    BY DEF Turn, Agreed, validateListing, At
  <2> QED BY <2>1 DEF Turn, Knows, validateListing, tables
<1>2. (faults = 0 => Complete(q)) /\ Filed
  BY DEF Turn, Agreed
<1>3. CASE q.op = "listUsers"
  <2>1. byGroup' = [byGroup EXCEPT ![q.g] = update_expiration(@)] /\ byUser' = byUser
    BY <1>1, <1>3 DEF validateListing
  <2>2. \A g \in Groups : byGroup'[g].known = byGroup[g].known
    <3> SUFFICES ASSUME NEW g \in Groups PROVE byGroup'[g].known = byGroup[g].known
      OBVIOUS
    <3>1. PICK d : d = update_expiration(byGroup[g])
      OBVIOUS
    <3>2. d.known = byGroup[g].known
      BY <3>1, Validated DEF Turn, IInv, TypeOK
    <3>3. byGroup'[g] = IF g = q.g THEN d ELSE byGroup[g]
      BY <2>1, <3>1 DEF Turn, IInv, TypeOK
    <3> QED BY <3>2, <3>3
  <2>3. Filed'
    BY <1>1, <1>2, <2>2 DEF Filed
  <2>4. faults' = 0 => FullyFiled(Idle)'
    BY <1>1, <1>2, <2>1 DEF Complete, FullyFiled, Adding
  <2> QED BY <1>1, <2>3, <2>4, AnsweredAgreed
<1>4. CASE q.op = "listGroups"
  <2>1. byUser' = [byUser EXCEPT ![q.u] = update_expiration(@)] /\ byGroup' = byGroup
    BY <1>1, <1>4 DEF validateListing
  <2>2. \A u \in Users : /\ byUser'[u].known = byUser[u].known
                         /\ u # q.u => byUser'[u] = byUser[u]
    <3> SUFFICES ASSUME NEW u \in Users
                 PROVE  byUser'[u].known = byUser[u].known /\ (u # q.u => byUser'[u] = byUser[u])
      OBVIOUS
    <3>1. PICK d : d = update_expiration(byUser[u])
      OBVIOUS
    <3>2. d.known = byUser[u].known
      BY <3>1, Validated DEF Turn, IInv, TypeOK
    <3>3. byUser'[u] = IF u = q.u THEN d ELSE byUser[u]
      BY <2>1, <3>1 DEF Turn, IInv, TypeOK
    <3> QED BY <3>2, <3>3
  <2>3. Filed'
    BY <1>1, <1>2, <2>1 DEF Filed
  <2>4. ASSUME faults' = 0 PROVE FullyFiled(Idle)'
    <3>1. FullyFiled(q) /\ KnowsListing(q)
      BY <1>1, <1>2, <2>4 DEF Complete
    <3>2. \A p \in member : p[1] = q.u => p[2] \in byUser[q.u].known
      BY <1>1, <1>4, <3>1 DEF KnowsListing, Looking
    <3>3. \A p \in member : byUser'[p[1]].valid => p[2] \in byUser'[p[1]].known
      <4> SUFFICES ASSUME NEW p \in member, byUser'[p[1]].valid
                   PROVE  p[2] \in byUser'[p[1]].known
        OBVIOUS
      <4>1. p[1] \in Users
        BY DEF Turn, IInv, TypeOK, Pairs
      <4>2. CASE p[1] = q.u
        BY <2>2, <3>2, <4>1, <4>2
      <4>3. CASE p[1] # q.u
        BY <1>1, <2>2, <3>1, <4>1, <4>3 DEF FullyFiled, Adding
      <4> QED BY <4>2, <4>3
    <3> QED BY <1>1, <2>2, <3>1, <3>3 DEF FullyFiled
  <2> QED BY <1>1, <2>3, <2>4, AnsweredAgreed
<1> QED BY <1>1, <1>3, <1>4

(***************************************************************************)
(* Requests that arrive, records that expire                               *)
(***************************************************************************)
LEMMA BeginAgreed ==
    ASSUME NEW r, NEW q, Turn(r, q), NEW op, NEW pc, NEW by, NEW u, NEW g,
           Begin(r, op, pc, by, u, g),
           pc \in {"target", "group", "member", "list", "query", "putGroup"},
           pc = "target" => op # "listUsers", pc = "group" => op # "listGroups",
           op = "remove" => u \in Users,
           op = "add" => pc = "target",
           op = "create" => pc = "putGroup" /\ u \in accounts
    PROVE  Agreed(req[r])'
<1>1. /\ q.pc = "idle" /\ q = req[r] /\ Clear(q) /\ UNCHANGED <<tables, caches, faults>>
  BY DEF Turn, Begin, At, Clear
<1>2. PICK n : n = [Idle EXCEPT !.op = op, !.pc = pc, !.by = by, !.u = u, !.g = g]
  OBVIOUS
<1>3. /\ n.op = op /\ n.pc = pc /\ n.by = by /\ n.u = u /\ n.g = g
      /\ n.todo = {} /\ n.act = FALSE
  BY <1>2 DEF Idle
<1>4. req'[r] = n
  BY <1>2, Stepped DEF Turn, Begin
<1>5. Knows(n)
  BY <1>3 DEF Knows, Removing
<1>6. ~n.act /\ n.pc \in {"target", "group", "member", "list", "query", "putGroup"}
  BY <1>3
<1>7. KnowsAdding(n)
  <2>1. n.op = "add" => n.pc = "target"
    BY <1>3
  <2>2. n.op = "create" => n.pc = "putGroup" /\ n.u \in accounts
    BY <1>3
  <2> QED BY <1>6, <2>1, <2>2 DEF KnowsAdding, Adding
<1>8. KnowsRemoving(n)
  BY <1>6 DEF KnowsRemoving, Removing
<1>9. KnowsListing(n)
  <2>1. n.op # "listGroups" \/ n.pc # "group"
    BY <1>3
  <2> QED BY <1>3, <1>6, <2>1 DEF KnowsListing, Looking
<1> QED BY <1>1, <1>4, <1>5, <1>7, <1>8, <1>9, QuietAgreed

LEMMA StartAgreed ==
    ASSUME NEW r, NEW q, Turn(r, q), Start(r)
    PROVE  Agreed(req[r])'
<1>1. PICK by \in Users \cup {Admin} :
        \/ listGroupsForUser(r, by)
        \/ \E u \in Users : deleteUser(r, by, u)
        \/ \E g \in Groups :
            \/ createGroup(r, by, g)
            \/ checkMembership(r, by, g) \/ updateGroup(r, by, g)
            \/ deleteGroup(r, by, g) \/ listUsersByGroup(r, by, g)
            \/ \E u \in Users :
                  addUserToGroup(r, by, u, g) \/ removeUserFromGroup(r, by, u, g)
  BY DEF Start
<1>2. CASE listGroupsForUser(r, by)
  BY <1>2, BeginAgreed DEF listGroupsForUser
<1>3. ASSUME NEW u \in Users, deleteUser(r, by, u) PROVE Agreed(req[r])'
  <2>1. PICK pc \in {"query", "target"} : Begin(r, "deleteUser", pc, by, u, None)
    BY <1>3 DEF deleteUser
  <2> QED BY <2>1, BeginAgreed
<1>4. ASSUME NEW g \in Groups, createGroup(r, by, g) PROVE Agreed(req[r])'
  <2>1. by \in accounts /\ Begin(r, "create", "putGroup", by, by, g)
    BY <1>4 DEF createGroup, Begin
  <2> QED BY <2>1, BeginAgreed
<1>5. ASSUME NEW g \in Groups, checkMembership(r, by, g) \/ updateGroup(r, by, g)
      PROVE  Agreed(req[r])'
  <2>1. PICK op \in {"check", "edit"} : Begin(r, op, "member", by, None, g)
    BY <1>5 DEF checkMembership, updateGroup
  <2> QED BY <2>1, BeginAgreed
<1>6. ASSUME NEW g \in Groups, deleteGroup(r, by, g) \/ listUsersByGroup(r, by, g)
      PROVE  Agreed(req[r])'
  <2>1. PICK op \in {"deleteGroup", "listUsers"}, pc \in {"group", "list"} :
          Begin(r, op, pc, by, None, g)
    BY <1>6 DEF deleteGroup, listUsersByGroup
  <2> QED BY <2>1, BeginAgreed
<1>7. ASSUME NEW g \in Groups, NEW u \in Users,
             addUserToGroup(r, by, u, g) \/ removeUserFromGroup(r, by, u, g)
      PROVE  Agreed(req[r])'
  <2>1. PICK op \in {"add", "remove"} : Begin(r, op, "target", by, u, g)
    BY <1>7 DEF addUserToGroup, removeUserFromGroup
  <2> QED BY <2>1, BeginAgreed
<1> QED BY <1>1, <1>2, <1>3, <1>4, <1>5, <1>6, <1>7

LEMMA ProceedAgreed ==
    ASSUME NEW r, NEW q, Turn(r, q), Proceed(r)
    PROVE  Agreed(req[r])'
<1>1. CASE \/ getUser(r) \/ findGroupByID(r) \/ cacheFoundGroup(r)
           \/ userInGroup(r) \/ cacheMembership(r)
  BY <1>1, GetUserAgreed, FindGroupAgreed, CacheFoundGroupAgreed, UserInGroupAgreed,
     CacheMembershipAgreed
<1>2. CASE \/ putMembership(r) \/ cacheUser(r) \/ cacheGroup(r)
           \/ putGroup(r) \/ cacheNewGroup(r)
  BY <1>2, PutMembershipAgreed, CacheUserAgreed, CacheGroupAgreed, PutGroupAgreed,
     CacheNewGroupAgreed
<1>3. CASE \/ uncacheUser(r) \/ findCachedGroup(r) \/ uncacheGroupOfUser(r)
           \/ dbRemoveMembership(r)
  BY <1>3, UncacheUserAgreed, FindCachedGroupAgreed, UncacheGroupOfUserAgreed,
     DbRemoveMembershipAgreed
<1>4. CASE queryMemberships(r) \/ nextMembership(r) \/ endMemberships(r)
  BY <1>4, QueryMembershipsAgreed, NextMembershipAgreed, EndMembershipsAgreed
<1>5. CASE removeUser(r) \/ uncacheGroup(r) \/ removeGroup(r)
  BY <1>5, RemoveUserAgreed, UncacheGroupAgreed, RemoveGroupAgreed
<1>6. CASE listMemberships(r) \/ cacheListedGroup(r) \/ validateListing(r)
  BY <1>6, ListMembershipsAgreed, CacheListedGroupAgreed, ValidateListingAgreed
<1> QED BY <1>1, <1>2, <1>3, <1>4, <1>5, <1>6 DEF Proceed

\* A step that leaves a category without new values, and the categories in place.
LEMMA ExpireAgreed ==
    ASSUME NEW r, NEW q, Turn(r, q), Expire
    PROVE  Agreed(req[r])'
<1>1. /\ accounts' = accounts /\ groups' = groups /\ member' = member
      /\ req' = req /\ faults' = faults
  BY DEF Expire, ExpireUsersOf, ExpireGroup, ExpireMember, ExpireGroupsOf, tables
<1>2. \A g \in Groups : byGroup'[g].known = byGroup[g].known
  <2>1. ASSUME NEW g \in Groups, ExpireUsersOf(g)
        PROVE  \A h \in Groups : byGroup'[h].known = byGroup[h].known
    BY <2>1 DEF ExpireUsersOf, Turn, IInv, TypeOK, Category
  <2>2. ASSUME NEW g \in Groups, NEW u \in UserIDs, ExpireMember(g, u)
        PROVE  \A h \in Groups : byGroup'[h].known = byGroup[h].known
    BY <2>2 DEF ExpireMember, Turn, IInv, TypeOK, Category
  <2>3. ASSUME UNCHANGED byGroup PROVE \A h \in Groups : byGroup'[h].known = byGroup[h].known
    BY <2>3
  <2> QED BY <2>1, <2>2, <2>3 DEF Expire, ExpireGroup, ExpireGroupsOf
<1>3. \A u \in Users : /\ byUser'[u].known = byUser[u].known
                       /\ byUser'[u].valid => byUser[u].valid
  <2>1. ASSUME NEW u \in Users, ExpireGroupsOf(u)
        PROVE  \A v \in Users : /\ byUser'[v].known = byUser[v].known
                                /\ byUser'[v].valid => byUser[v].valid
    <3>1. PICK c : c = [byUser[u] EXCEPT !.valid = FALSE]
      OBVIOUS
    <3>2. c.known = byUser[u].known /\ c.valid = FALSE
      BY <3>1 DEF Turn, IInv, TypeOK, Category
    <3>3. byUser'[u] = c /\ \A v \in Users : v # u => byUser'[v] = byUser[v]
      BY <2>1, <3>1 DEF ExpireGroupsOf, Turn, IInv, TypeOK
    <3> QED BY <3>2, <3>3, Zenon
  <2>2. ASSUME UNCHANGED byUser
        PROVE  \A v \in Users : /\ byUser'[v].known = byUser[v].known
                                /\ byUser'[v].valid => byUser[v].valid
    BY <2>2
  <2> QED BY <2>1, <2>2 DEF Expire, ExpireGroup, ExpireMember, ExpireUsersOf
<1>4. \A g \in Groups : groupCache'[g] = "none" <=> groupCache[g] = "none"
  <2>1. ASSUME NEW g \in Groups, ExpireGroup(g)
        PROVE  \A h \in Groups : groupCache'[h] = "none" <=> groupCache[h] = "none"
    BY <2>1 DEF ExpireGroup, Turn, IInv, TypeOK
  <2>2. ASSUME UNCHANGED groupCache
        PROVE  \A h \in Groups : groupCache'[h] = "none" <=> groupCache[h] = "none"
    BY <2>2
  <2> QED BY <2>1, <2>2 DEF Expire, ExpireMember, ExpireUsersOf, ExpireGroupsOf
<1>5. /\ Agreed(q) /\ q \in Request /\ req'[r] = q
      /\ Warranted(q, granted, used) /\ member \subseteq Pairs
  BY <1>1 DEF Turn, Fit, IInv, TypeOK
<1>6. Filed'
  BY <1>1, <1>2, <1>4, <1>5 DEF Agreed, Filed
<1>7. Knows(q)'
  <2>1. q.pc \in Removing \/ q.pc = "removeGroup" => q.g \in Groups
    BY <1>5 DEF Agreed, Knows, Warranted
  <2> QED BY <1>1, <1>2, <1>4, <1>5, <2>1 DEF Agreed, Knows, Removing, Adding
<1>8. ASSUME faults' = 0 PROVE Complete(q)'
  <2>1. Complete(q)
    BY <1>1, <1>5, <1>8 DEF Agreed
  <2>2. \A u \in Users : \A g \in byUser[u].known \ {None} : g \in Groups
    BY DEF Turn, IInv, TypeOK, Category, GroupIDs
  <2>3. \A p \in member : p[1] \in Users /\ p[2] \in Groups
    BY <1>5 DEF Pairs
  <2>4. FullyFiled(q)'
    BY <1>1, <1>3, <1>4, <2>1, <2>2, <2>3 DEF Complete, FullyFiled, Adding
  <2>5. KnowsAdding(q)'
    BY <1>1, <1>4, <1>5, <2>1 DEF Complete, KnowsAdding, Warranted, Adding
  <2>6. KnowsRemoving(q)'
    <3>1. q.pc = "dbRemove" => q.u \in Users
      BY <1>5 DEF Agreed, Knows, Removing
    <3> QED BY <1>1, <1>3, <2>1, <3>1 DEF Complete, KnowsRemoving
  <2>7. KnowsListing(q)'
    <3>1. q.op = "listGroups" /\ q.pc \in Looking => q.g \in Groups
      BY <1>5, <2>1 DEF Complete, KnowsListing, Pairs
    <3> QED BY <1>1, <1>3, <1>4, <2>1, <2>3, <3>1 DEF Complete, KnowsListing, Looking
  <2> QED BY <2>4, <2>5, <2>6, <2>7 DEF Complete
<1> QED BY <1>5, <1>6, <1>7, <1>8, BecomesAgreed

\* One request at a time: whatever calls fail, who is cached as a member is one and
\* a cached group is in the table; and unless a call failed memberships are of users
\* and groups there are, a user's groups in the cache that count as complete are,
\* and the groups are in groupCache, where removeUserFromGroup looks for them.
THEOREM AgreementInvariant == OneThread => (Spec => []AgreeInv)
<1> SUFFICES ASSUME OneThread PROVE Spec => []AgreeInv
  OBVIOUS
<1>1. Init => AgreeInv
  <2> SUFFICES ASSUME Init, NEW r \in Requests PROVE Agreed(req[r])
    BY DEF AgreeInv
  <2>1. PICK q : q = Idle
    OBVIOUS
  <2>2. req[r] = q
    BY <2>1 DEF Init
  <2>3. /\ \A g \in Groups : byGroup[g].known = {} /\ groupCache[g] = "none"
        /\ \A u \in Users : byUser[u].known = {} /\ byUser[u].valid = FALSE
        /\ \A p \in member : p[1] \in Users /\ p[1] \in accounts /\ p[2] \in groups
    BY DEF Init, NoCategory
  <2>4. Filed
    BY <2>3 DEF Filed
  <2>5. FullyFiled(q)
    BY <2>3 DEF FullyFiled
  <2>6. Knows(q) /\ KnowsAdding(q) /\ KnowsRemoving(q) /\ KnowsListing(q)
    BY <2>1, IdleKnows
  <2> QED BY <2>2, <2>4, <2>5, <2>6 DEF Agreed, Complete
<1>2. IInv /\ AgreeInv /\ [Next]_vars => AgreeInv'
  <2> SUFFICES ASSUME IInv, AgreeInv, [Next]_vars, NEW r \in Requests
               PROVE  Agreed(req[r])'
    BY DEF AgreeInv
  <2>1. PICK q : q = req[r]
    OBVIOUS
  <2>2. Turn(r, q)
    BY <2>1 DEF Turn, AgreeInv, IInv, TypeOK, RequestsWarranted, Fit
  <2>3. CASE UNCHANGED vars
    <3>1. req'[r] = q /\ Agreed(q)
      BY <2>1, <2>2, <2>3 DEF vars, Turn
    <3>2. Filed' /\ Knows(q)' /\ (faults' = 0 => Complete(q)')
      BY <2>3, <3>1 DEF vars, Agreed, Filed, Knows, Complete, FullyFiled, KnowsAdding,
                        KnowsRemoving, KnowsListing, Adding
    <3> QED BY <3>1, <3>2, BecomesAgreed
  <2>4. CASE \E s \in Requests : Start(s) \/ Proceed(s)
    <3>1. Start(r) \/ Proceed(r)
      BY <2>4 DEF OneThread
    <3> QED BY <2>2, <3>1, StartAgreed, ProceedAgreed
  <2>5. CASE Expire
    BY <2>2, <2>5, ExpireAgreed
  <2> QED BY <2>3, <2>4, <2>5 DEF Next
<1> QED BY <1>1, <1>2, MembershipInvariant, PTL DEF Spec

\* Requests that come one after the other leave memberships and caches in agreement,
\* for any number of users, groups and failed calls (addUserToGroup,
\* removeUserFromGroup, removeUser, removeGroup).
THEOREM MembershipsAgreement == OneThread => (Spec => []MembershipsAgree)
<1> SUFFICES ASSUME OneThread PROVE Spec => []MembershipsAgree
  OBVIOUS
<1>1. IInv /\ AgreeInv => MembershipsAgree
  <2> SUFFICES ASSUME IInv, AgreeInv PROVE MembershipsAgree
    OBVIOUS
  <2>1. PICK r \in Requests : Agreed(req[r])
    BY DEF AgreeInv, OneThread
  <2>2. CachedMembersStored
    BY <2>1 DEF CachedMembersStored, CachedMember, Agreed, Filed, IInv, CachesGranted
  <2>3. ASSUME Settled
        PROVE  /\ FullyFiled(req[r]) /\ req[r].pc = "idle"
               /\ \A p \in member : p[1] \in accounts /\ p[2] \in groups
               /\ \A p \in member : byUser[p[1]].valid => p[2] \in byUser[p[1]].known
               /\ \A u \in Users : \A g \in byUser[u].known \ {None} : groupCache[g] # "none"
    BY <2>1, <2>3 DEF Settled, Quiescent, Agreed, Complete, FullyFiled
  <2>4. MembersExist /\ MemberGroupsExist
    BY <2>3 DEF MembersExist, MemberGroupsExist
  <2>5. GroupListingsComplete /\ CachedGroupsKnown
    BY <2>3 DEF GroupListingsComplete, CachedGroupsKnown
  <2>6. TypeOK
    BY DEF IInv
  <2> QED BY <2>2, <2>4, <2>5, <2>6 DEF MembershipsAgree
<1> QED BY <1>1, MembershipInvariant, AgreementInvariant, PTL
=============================================================================

------------------------------ MODULE UserStore ------------------------------
(***************************************************************************)
(* User accounts and authentication: the user table, the three in-process  *)
(* caches of user records (userCache by ID, userByTokenCache,              *)
(* userByGlobusIDCache) and the endpoints that create, look up, update and *)
(* delete accounts and replace access tokens.                              *)
(*                                                                         *)
(* Each server thread runs one request at a time, as a sequence of atomic  *)
(* database calls and atomic cache operations that other threads' requests *)
(* interleave with.  A user record is reduced to what identifies the user  *)
(* (ID, token, Globus ID) and the admin flag; a user's name, email, phone  *)
(* and institution never influence control.  The items that deleteUser     *)
(* removes before the user's own, those of the user's group memberships,   *)
(* are the subject of GroupMembership; no operation here reads them.       *)
(***************************************************************************)
EXTENDS Naturals, FiniteSets

CONSTANTS
    Requests,   \* server threads (crow's worker pool)
    Users,      \* user IDs; IDGenerator never issues one twice
    Tokens,     \* access tokens; IDGenerator never issues one twice
    GlobusIDs,  \* Globus identities that clients register
    Nobody,     \* the invalid User{}, and "no user"
    Portal,     \* the token of the portal's administrator account, which
                \* InitializeUserTable stores and which stays as it is
    Offered,    \* the endpoints clients call (all of Ops, or some in an instance)
    MaxFaults   \* bound: database calls that may report failure

UserRec == [id : Users, token : Tokens, globus : GlobusIDs, admin : BOOLEAN]

ASSUME UserAssumption ==
    /\ Nobody \notin Users
    /\ Nobody \notin UserRec
    /\ Portal \notin Tokens
    /\ MaxFaults \in Nat

VARIABLES
    table,      \* user table: the main item of each user
    byID,       \* userCache
    byToken,    \* userByTokenCache
    byGlobus,   \* userByGlobusIDCache
    req,        \* the request each thread is executing
    issued,     \* the user for whom each token was generated
    revoked,    \* tokens whose withdrawal was confirmed to a client
    gone,       \* users whose deletion was confirmed to a client
    appointed,  \* users whom an administrator has made administrators
    faults      \* database calls that have reported failure

vars == <<table, byID, byToken, byGlobus, req, issued, revoked, gone, appointed, faults>>
caches == <<byID, byToken, byGlobus>>
history == <<issued, revoked, gone, appointed>>

Ops == {"none", "auth", "get", "find", "create", "update", "replace", "delete"}

PCs == {"idle", "auth", "target", "globus", "fillID", "dropToken", "fillToken",
        "fillGlobus", "put", "unFind", "unToken", "unGlobus", "unID", "dbDelete"}

MaybeUser == Users \cup {Nobody}
MaybeRec == UserRec \cup {Nobody}

\* a cache record: live until its expiration time passes
Entry == [live : BOOLEAN, rec : MaybeRec]
NoEntry == [live |-> FALSE, rec |-> Nobody]
Cached(rec) == [live |-> TRUE, rec |-> rec]

\* mutant of CacheHit: a record is used after it has expired
CacheHitExpired(e) == e.rec # Nobody
\* a record that is found and has not expired
CacheHit(e) == e.live

\* op: the handler; tok: the caller's token; u, g, flag: the operands in the URL
\* and in the body; boss: the caller of createUser or updateUser is an administrator;
\* view: the handler's copy of the user it changes; load, ret: the record being
\* put in the caches, and where the handler goes on after that
Request == [pc : PCs, op : Ops, tok : Tokens \cup {Portal}, u : MaybeUser,
            g : GlobusIDs \cup {Nobody}, flag : {"keep", "grant", "drop"},
            boss : BOOLEAN, view : MaybeRec, load : MaybeRec,
            ret : {"authorize", "act", "unique", "done"}]

\* a thread without a request: the last one has been answered, with success or
\* with an error
Idle == [pc |-> "idle", op |-> "none", tok |-> Portal, u |-> Nobody,
            g |-> Nobody, flag |-> "keep", boss |-> FALSE, view |-> Nobody,
            load |-> Nobody, ret |-> "authorize"]

Fault == faults < MaxFaults /\ faults' = faults + 1

Step(r, q) == req' = [req EXCEPT ![r] = q]
Goto(r, pc) == Step(r, [req[r] EXCEPT !.pc = pc])

(***************************************************************************)
(* What a handler does with the user a lookup has returned                 *)
(***************************************************************************)
\* mutant of Permitted: anyone creates users
PermittedAnyone(q, id, admin) ==
    CASE q.op = "find" -> admin
      [] q.op \in {"get", "update", "replace", "delete"} -> admin \/ id = q.u
      [] OTHER -> TRUE
\* "only administrators can create new users"; accounts "can only be altered by
\* admins and themselves"; id and admin are those of the caller
Permitted(q, id, admin) ==
    CASE q.op \in {"create", "find"} -> admin
      [] q.op \in {"get", "update", "replace", "delete"} -> admin \/ id = q.u
      [] OTHER -> TRUE

\* the request once its caller is known; what it does not need later is dropped
Authorized(q, id, admin) ==
    LET go == [q EXCEPT !.tok = Portal, !.load = Nobody,
                        !.boss = admin /\ q.op \in {"create", "update"}] IN
    IF ~Permitted(q, id, admin) \/ q.op = "auth" THEN Idle
    ELSE CASE q.op \in {"create", "find"} -> [go EXCEPT !.pc = "globus", !.ret = "unique"]
           [] q.op = "delete" /\ id = q.u -> [go EXCEPT !.pc = "unFind"]
           [] OTHER                       -> [go EXCEPT !.pc = "target", !.ret = "act"]

\* "only admins can alter admin rights"
MayChangeFlag(q) == q.flag # "keep" => q.boss

\* the request once getUser has returned the user it is about
Act(q, rec) ==
    CASE q.op = "get"    -> Idle
      [] q.op = "delete" -> [q EXCEPT !.pc = "unFind", !.load = Nobody]
      [] q.op = "update" /\ ~MayChangeFlag(q) -> Idle
      [] OTHER           -> [q EXCEPT !.pc = "put", !.view = rec, !.load = Nobody]

\* the request once findUserByGlobusID has found a user: findUser answers with
\* it, createUser refuses
Registered(q) == Idle

\* the request once a lookup, or the caching after a write, has ended with rec
Resume(q, rec) ==
    CASE q.ret = "authorize" -> Authorized(q, rec.id, rec.admin)
      [] q.ret = "act"       -> Act(q, rec)
      [] q.ret = "unique"    -> Registered(q)
      [] OTHER               -> Idle

\* the request once a lookup has returned the invalid user: 403 or 404, except
\* that createUser goes on
Absent(q) == IF q.op = "create" /\ q.ret = "unique" THEN [q EXCEPT !.pc = "put"]
             ELSE Idle

(***************************************************************************)
(* Lookups                                                                 *)
(***************************************************************************)
findCached(r, e) ==
    /\ CacheHit(e)
    /\ Step(r, Resume(req[r], e.rec))
    /\ UNCHANGED <<table, caches, history, faults>>

\* A miss: the matching items are read.  A failed call looks like no match;
\* several matches are a fatal error, which throws out of the handler.
fetch(r, e, matches) ==
    /\ ~CacheHit(e)
    /\ \/ /\ \/ matches = {} /\ UNCHANGED faults
             \/ Fault
          /\ Step(r, Absent(req[r]))
       \/ /\ Cardinality(matches) > 1
          /\ Step(r, Idle)
          /\ UNCHANGED faults
       \/ \E rec \in matches :
          /\ matches = {rec}
          /\ Step(r, [req[r] EXCEPT !.pc = "fillID", !.load = rec])
          /\ UNCHANGED faults
    /\ UNCHANGED <<table, caches, history>>

lookup(r, e, matches) == findCached(r, e) \/ fetch(r, e, matches)

Stored == {table[u] : u \in Users} \ {Nobody}

findUserByToken(r) ==
    /\ req[r].pc = "auth"
    /\ lookup(r, byToken[req[r].tok], {rec \in Stored : rec.token = req[r].tok})

getUser(r) ==
    /\ req[r].pc = "target"
    /\ lookup(r, byID[req[r].u], {rec \in Stored : rec.id = req[r].u})

findUserByGlobusID(r) ==
    /\ req[r].pc = "globus"
    /\ lookup(r, byGlobus[req[r].g], {rec \in Stored : rec.globus = req[r].g})

(***************************************************************************)
(* Caching the record in req[r].load, after a lookup or after a write      *)
(***************************************************************************)
cacheByID(r) ==
    /\ req[r].pc = "fillID"
    /\ byID' = [byID EXCEPT ![req[r].load.id] = Cached(req[r].load)]
    /\ Goto(r, IF req[r].ret = "done" /\ req[r].op = "replace" THEN "dropToken"
               ELSE "fillToken")
    /\ UNCHANGED <<table, byToken, byGlobus, history, faults>>

\* "if the token has changed, ensure that any old cache record is removed"
dropOldToken(r) ==
    /\ req[r].pc = "dropToken"
    /\ byToken' = [byToken EXCEPT ![req[r].view.token] = NoEntry]
    /\ Goto(r, "fillToken")
    /\ UNCHANGED <<table, byID, byGlobus, history, faults>>

\* mutant of cacheByToken: a changed record is filed under the old token
cacheByTokenOld(r) ==
    LET q == req[r]
        t == IF q.view = Nobody THEN q.load.token ELSE q.view.token IN
    /\ q.pc = "fillToken"
    /\ byToken' = [byToken EXCEPT ![t] = Cached(q.load)]
    /\ Goto(r, "fillGlobus")
    /\ UNCHANGED <<table, byID, byGlobus, history, faults>>
cacheByToken(r) ==
    /\ req[r].pc = "fillToken"
    /\ byToken' = [byToken EXCEPT ![req[r].load.token] = Cached(req[r].load)]
    /\ Goto(r, "fillGlobus")
    /\ UNCHANGED <<table, byID, byGlobus, history, faults>>

\* the last step of a lookup or of a write; with it replaceUserToken answers
cacheByGlobusID(r) ==
    LET q == req[r] IN
    /\ q.pc = "fillGlobus"
    /\ byGlobus' = [byGlobus EXCEPT ![q.load.globus] = Cached(q.load)]
    /\ revoked' = IF q.ret = "done" /\ q.op = "replace"
                  THEN revoked \cup {q.view.token} ELSE revoked
    /\ Step(r, Resume(q, q.load))
    /\ UNCHANGED <<table, byID, byToken, issued, gone, appointed, faults>>

\* CacheRecord::expired
ExpireByID(u) ==
    /\ byID[u].live
    /\ byID' = [byID EXCEPT ![u].live = FALSE]
    /\ UNCHANGED <<table, byToken, byGlobus, req, history, faults>>
ExpireByToken(t) ==
    /\ byToken[t].live
    /\ byToken' = [byToken EXCEPT ![t].live = FALSE]
    /\ UNCHANGED <<table, byID, byGlobus, req, history, faults>>
ExpireByGlobusID(g) ==
    /\ byGlobus[g].live
    /\ byGlobus' = [byGlobus EXCEPT ![g].live = FALSE]
    /\ UNCHANGED <<table, byID, byToken, req, history, faults>>

(***************************************************************************)
(* Requests                                                                *)
(***************************************************************************)
FreshTokens == {t \in Tokens : issued[t] = Nobody}
FreshUsers == {u \in Users : \A t \in Tokens : issued[t] # u}
Pending(ops) == {r \in Requests : req[r].op \in ops}

\* bound: the constants still provide the IDs that the requests under way need
EnoughIDs(op) ==
    /\ op \in {"create", "replace"} =>
        Cardinality(FreshTokens) > Cardinality(Pending({"create", "replace"}))
    /\ op = "create" => Cardinality(FreshUsers) > Cardinality(Pending({"create"}))

\* A client sends a request.  The portal's account is found whatever happens to
\* the others; any other token has to be looked up.
Begin(r, op, tok, u, g, flag) ==
    LET q == [Idle EXCEPT !.op = op, !.pc = "auth", !.tok = tok, !.u = u,
                                !.g = g, !.flag = flag] IN
    /\ op \in Offered
    /\ req[r].pc = "idle"
    /\ EnoughIDs(op)
    /\ Step(r, IF tok = Portal THEN Authorized(q, Nobody, TRUE) ELSE q)
    /\ UNCHANGED <<table, caches, history, faults>>

\* any endpoint that only authenticates its caller as far as users go
authenticateUser(r, tok) ==
    tok # Portal /\ Begin(r, "auth", tok, Nobody, Nobody, "keep")
getUserInfo(r, tok, u) == Begin(r, "get", tok, u, Nobody, "keep")
findUser(r, tok, g) == Begin(r, "find", tok, Nobody, g, "keep")
createUser(r, tok, g, flag) ==
    flag # "keep" /\ Begin(r, "create", tok, Nobody, g, flag)
updateUser(r, tok, u, flag) == Begin(r, "update", tok, u, Nobody, flag)
replaceUserToken(r, tok, u) == Begin(r, "replace", tok, u, Nobody, "keep")
deleteUser(r, tok, u) == Begin(r, "delete", tok, u, Nobody, "keep")

(***************************************************************************)
(* Writes: addUser, updateUser                                             *)
(***************************************************************************)
WithFlag(rec, flag) ==
    [rec EXCEPT !.admin = IF flag = "keep" THEN @ ELSE flag = "grant"]

\* the records that the handler may be about to write: createUser and
\* replaceUserToken have a new ID or token generated
Written(q) ==
    CASE q.op = "create"  -> {[id |-> u, token |-> t, globus |-> q.g,
                               admin |-> q.flag = "grant"] :
                              u \in FreshUsers, t \in FreshTokens}
      [] q.op = "replace" -> {[q.view EXCEPT !.token = t] : t \in FreshTokens}
      [] OTHER            -> {WithFlag(q.view, q.flag)}

\* PutItem or UpdateItem, neither of which has a condition: UpdateItem stores the
\* item again if it was deleted.  When the call reports failure it may still have
\* been carried out.
putUser(r) ==
    LET q == req[r] IN
    /\ q.pc = "put"
    /\ \E rec \in Written(q) :
        LET stored == [table EXCEPT ![rec.id] = rec] IN
        /\ issued' = [issued EXCEPT ![rec.token] = rec.id]
        /\ appointed' = IF q.boss /\ q.flag = "grant" THEN appointed \cup {rec.id}
                        ELSE appointed
        /\ \/ /\ table' = stored
              /\ Step(r, [q EXCEPT !.pc = "fillID", !.load = rec, !.ret = "done"])
              /\ UNCHANGED faults
           \/ /\ Fault
              /\ table' \in {table, stored}
              /\ Step(r, Idle)
    /\ UNCHANGED <<caches, revoked, gone>>

\* PersistentStore::addUser and PersistentStore::updateUser
addUser(r) == req[r].op = "create" /\ putUser(r)
rewriteUser(r) == req[r].op # "create" /\ putUser(r)

(***************************************************************************)
(* removeUser: the caches first, then the table                            *)
(***************************************************************************)
\* the main cache's record, expired or not, tells which other records to erase
findInCache(r) ==
    LET rec == byID[req[r].u].rec IN
    /\ req[r].pc = "unFind"
    /\ Step(r, [req[r] EXCEPT !.view = rec,
                              !.pc = IF rec = Nobody THEN "unID" ELSE "unToken"])
    /\ UNCHANGED <<table, caches, history, faults>>

uncacheToken(r) ==
    /\ req[r].pc = "unToken"
    /\ byToken' = [byToken EXCEPT ![req[r].view.token] = NoEntry]
    /\ Goto(r, "unGlobus")
    /\ UNCHANGED <<table, byID, byGlobus, history, faults>>

uncacheGlobusID(r) ==
    /\ req[r].pc = "unGlobus"
    /\ byGlobus' = [byGlobus EXCEPT ![req[r].view.globus] = NoEntry]
    /\ Goto(r, "unID")
    /\ UNCHANGED <<table, byID, byToken, history, faults>>

\* mutant of uncacheID: the main cache keeps the record
uncacheIDKept(r) ==
    /\ req[r].pc = "unID"
    /\ Goto(r, "dbDelete")
    /\ UNCHANGED <<table, caches, history, faults>>
uncacheID(r) ==
    /\ req[r].pc = "unID"
    /\ byID' = [byID EXCEPT ![req[r].u] = NoEntry]
    /\ Goto(r, "dbDelete")
    /\ UNCHANGED <<table, byToken, byGlobus, history, faults>>

TokensOf(u) == {t \in Tokens : issued[t] = u}

removeUser(r) ==
    LET u == req[r].u
        deleted == [table EXCEPT ![u] = Nobody] IN
    /\ req[r].pc = "dbDelete"
    /\ \/ /\ table' = deleted
          /\ gone' = gone \cup {u}
          /\ revoked' = revoked \cup TokensOf(u)
          /\ Step(r, Idle)
          /\ UNCHANGED faults
       \/ /\ Fault
          /\ table' \in {table, deleted}
          /\ Step(r, Idle)
          /\ UNCHANGED <<gone, revoked>>
    /\ UNCHANGED <<caches, issued, appointed>>

(***************************************************************************)
(* The specification                                                       *)
(***************************************************************************)
Init ==
    /\ table = [u \in Users |-> Nobody]
    /\ byID = [u \in Users |-> NoEntry]
    /\ byToken = [t \in Tokens |-> NoEntry]
    /\ byGlobus = [g \in GlobusIDs |-> NoEntry]
    /\ req = [r \in Requests |-> Idle]
    /\ issued = [t \in Tokens |-> Nobody]
    /\ revoked = {} /\ gone = {} /\ appointed = {}
    /\ faults = 0

\* clients know the tokens and the user IDs that have been issued
Start(r) ==
    \E tok \in {Portal} \cup {t \in Tokens : issued[t] # Nobody} :
        \/ authenticateUser(r, tok)
        \/ \E g \in GlobusIDs :
            \/ findUser(r, tok, g)
            \/ \E flag \in {"grant", "drop"} : createUser(r, tok, g, flag)
        \/ \E u \in Users \ FreshUsers :
            \/ getUserInfo(r, tok, u)
            \/ \E flag \in {"keep", "grant", "drop"} : updateUser(r, tok, u, flag)
            \/ replaceUserToken(r, tok, u)
            \/ deleteUser(r, tok, u)

\* the next step of a request under way
Proceed(r) ==
    \/ findUserByToken(r) \/ getUser(r) \/ findUserByGlobusID(r)
    \/ cacheByID(r) \/ dropOldToken(r) \/ cacheByToken(r) \/ cacheByGlobusID(r)
    \/ addUser(r) \/ rewriteUser(r)
    \/ findInCache(r) \/ uncacheToken(r) \/ uncacheGlobusID(r) \/ uncacheID(r)
    \/ removeUser(r)

Next ==
    \/ \E r \in Requests : Start(r) \/ Proceed(r)
    \/ \E u \in Users : ExpireByID(u)
    \/ \E t \in Tokens : ExpireByToken(t)
    \/ \E g \in GlobusIDs : ExpireByGlobusID(g)

Spec == Init /\ [][Next]_vars

\* A thread keeps executing its request, and time passes.
FairSpec ==
    /\ Spec
    /\ \A r \in Requests : WF_vars(Proceed(r))
    /\ \A t \in Tokens : WF_vars(ExpireByToken(t))

(***************************************************************************)
(* Properties                                                              *)
(***************************************************************************)
\* Every variable has its type: a handler finds in the table, in a cache and in
\* its own memory only whole user records, or none.
TypeOK ==
    /\ table \in [Users -> MaybeRec]
    /\ byID \in [Users -> Entry]
    /\ byToken \in [Tokens -> Entry]
    /\ byGlobus \in [GlobusIDs -> Entry]
    /\ req \in [Requests -> Request]
    /\ issued \in [Tokens -> MaybeUser]
    /\ revoked \subseteq Tokens
    /\ gone \subseteq Users
    /\ appointed \subseteq Users
    /\ faults \in 0..MaxFaults

HasToken(u, t) == table[u] # Nobody /\ table[u].token = t

\* Whatever requests interleave and whatever calls fail, a token authenticates
\* the user it was generated for or nobody: neither the table nor
\* userByTokenCache ever associates it with another user, so that no request is
\* executed in another user's name (findUserByToken, updateUser, addUser).
TokenIdentity ==
    \A t \in Tokens :
        /\ byToken[t].rec # Nobody =>
            byToken[t].rec.token = t /\ byToken[t].rec.id = issued[t]
        /\ \A u \in Users : HasToken(u, t) => issued[t] = u

\* Under every interleaving, a user whose record carries the admin flag, in the
\* table or in the cache that authentication reads, was made an administrator by
\* an administrator: no chain of requests by ordinary users, stale copies of
\* records included, brings about an administrator (createUser, updateUser).
AdminsAppointed ==
    /\ \A u \in Users : table[u] # Nobody /\ table[u].admin => u \in appointed
    /\ \A t \in Tokens : byToken[t].rec # Nobody /\ byToken[t].rec.admin =>
        byToken[t].rec.id \in appointed

Quiescent == \A r \in Requests : req[r].pc = "idle"
\* no database call has reported failure
Reliable == faults = 0

\* Unless a database call failed, a token that was replaced, or whose user was
\* deleted, is not accepted any more: neither userByTokenCache nor the table
\* leads from it to a user.
RevokedTokenRejected ==
    Reliable => \A t \in revoked : ~CacheHit(byToken[t]) /\ \A u \in Users : ~HasToken(u, t)

\* A token that was replaced does not return to the user table.
ReplacedTokenNotStored == \A t \in revoked : \A u \in Users : ~HasToken(u, t)

\* A user who was deleted is not found any more, by ID or by Globus ID, whatever
\* database calls failed before (removeUser).
DeletedUserNotFound ==
    \A u \in gone :
        /\ table[u] = Nobody /\ ~CacheHit(byID[u])
        /\ \A g \in GlobusIDs : CacheHit(byGlobus[g]) => byGlobus[g].rec.id # u

\* Between requests, and unless a database call failed, a user who is in a
\* secondary cache is in the main cache under the same key, which is how
\* removeUser finds what else to erase.
CachesSynchronized ==
    Quiescent /\ Reliable =>
        /\ \A t \in Tokens : byToken[t].rec # Nobody =>
            LET e == byID[byToken[t].rec.id] IN e.rec # Nobody /\ e.rec.token = t
        /\ \A g \in GlobusIDs : byGlobus[g].rec # Nobody =>
            LET e == byID[byGlobus[g].rec.id] IN e.rec # Nobody /\ e.rec.globus = g

\* Unless a database call failed, no two accounts have the same Globus ID, so that
\* findUserByGlobusID never meets the fatal error of several matching records.
OneUserPerGlobusID ==
    Reliable => \A u, v \in Users :
        table[u] # Nobody /\ table[v] # Nobody /\ table[u].globus = table[v].globus => u = v

\* Requests that come one after the other leave the table of users and its three
\* caches well-formed and in agreement, so that replacing a token and deleting a
\* user take effect at once (replaceUserToken, removeUser, findUserByToken).
AccountsAgree ==
    /\ TypeOK /\ RevokedTokenRejected /\ DeletedUserNotFound
    /\ CachesSynchronized /\ OneUserPerGlobusID

\* Once no user record in the table has a token any more, that token is
\* eventually rejected for good, however many requests still under way read the
\* record before and cache it afterwards (cache validity, findUserByToken).
WithdrawalTakesEffect ==
    \A t \in Tokens :
        <>[](\A u \in Users : ~HasToken(u, t)) => <>[]~CacheHit(byToken[t])

(***************************************************************************)
(* The inductive invariant behind TokenIdentity and AdminsAppointed        *)
(***************************************************************************)
OnUser == {"get", "update", "replace", "delete"}
Filling == {"fillID", "dropToken", "fillToken", "fillGlobus"}
Removing == {"unFind", "unToken", "unGlobus", "unID", "dbDelete"}

\* a request has the operands that the step it is at, or the one it will go on
\* to after a lookup, needs; who sets an admin flag is an administrator
Operands(q) ==
    /\ q.op \in {"create", "find"} => q.g \in GlobusIDs
    /\ q.op \in OnUser => q.u \in Users
    /\ q.op = "replace" => q.flag = "keep"
Control(q) ==
    /\ q.pc # "idle" => q.op # "none"
    /\ Operands(q)
    /\ q.pc = "auth" => q.tok \in Tokens /\ q.ret = "authorize"
    /\ q.pc = "target" => q.ret = "act"
    /\ q.pc = "globus" => q.ret = "unique"
    /\ q.ret = "unique" => q.op \in {"create", "find"}
    /\ q.ret = "act" => q.op \in OnUser
    /\ q.op = "create" /\ q.ret # "authorize" => q.boss
    /\ q.pc \in Filling => q.load # Nobody
    /\ q.pc = "put" => /\ q.op \in {"create", "update", "replace"}
                       /\ q.op # "create" => q.view # Nobody
                       /\ q.op = "create" \/ q.flag = "grant" => q.boss
    /\ q.pc \in {"dropToken", "unToken", "unGlobus"} => q.view # Nobody
    /\ q.ret = "done" /\ q.op = "replace" => q.view # Nobody
    /\ q.pc \in Removing => q.op = "delete"

ControlOK == \A r \in Requests : Control(req[r])

\* a copy of a user record carries a token generated for that user, and the
\* admin flag only if the user was appointed
Genuine(rec) ==
    rec # Nobody =>
        issued[rec.token] = rec.id /\ (rec.admin => rec.id \in appointed)

\* a cache record that can be hit holds a user
Sound(e) == Genuine(e.rec) /\ (e.live => e.rec # Nobody)

\* every copy is genuine: in the table, in the caches, in a request's memory
AllGenuine ==
    /\ \A u \in Users : Genuine(table[u]) /\ Sound(byID[u])
    /\ \A t \in Tokens : Sound(byToken[t])
    /\ \A g \in GlobusIDs : Sound(byGlobus[g])
    /\ \A r \in Requests : Genuine(req[r].view) /\ Genuine(req[r].load)

\* records are filed under their own keys
Placed ==
    /\ \A u \in Users : table[u] # Nobody => table[u].id = u
    /\ \A t \in Tokens : byToken[t].rec # Nobody => byToken[t].rec.token = t

IInv == TypeOK /\ ControlOK /\ AllGenuine /\ Placed
=============================================================================

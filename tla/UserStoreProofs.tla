--------------------------- MODULE UserStoreProofs ---------------------------
(***************************************************************************)
(* Proofs about UserStore, for any number of threads, users, tokens and    *)
(* Globus IDs, any set of endpoints offered and any number of failing      *)
(* database calls.                                                         *)
(*                                                                         *)
(* The argument: every copy of a user record, in the table, in a cache or  *)
(* in the memory of a request, however stale, is genuine: its token was    *)
(* generated for its user, and its admin flag was set by an administrator. *)
(* Writes derive a record from a genuine copy, and tokens and appointments *)
(* are only ever added, so that stale copies stay genuine.                 *)
(*                                                                         *)
(* While requests come one at a time, the table and the three caches agree *)
(* as well (AgreeInv, at the end).                                         *)
(***************************************************************************)
EXTENDS UserStore, TLAPS

USE DEF MaybeUser, MaybeRec

(***************************************************************************)
(* Requests                                                                *)
(***************************************************************************)
\* a request that satisfies its part of the inductive invariant
Good(q) == q \in Request /\ Control(q) /\ Genuine(q.view) /\ Genuine(q.load)

LEMMA IdleGood == Good(Idle)
BY UserAssumption
DEF Good, Idle, Request, Control, Operands, Genuine, PCs, Ops, OnUser, Filling, Removing

\* A request whose caller has just been identified goes on well formed; whoever
\* creates an account is an administrator.
LEMMA AuthorizedGood ==
    ASSUME NEW q \in Request, Operands(q), q.op # "none", Genuine(q.view),
           q.ret = "authorize", NEW id \in MaybeUser, NEW admin \in BOOLEAN
    PROVE  Good(Authorized(q, id, admin))
<1> DEFINE go == [q EXCEPT !.tok = Portal, !.load = Nobody,
                           !.boss = admin /\ q.op \in {"create", "update"}]
<1> DEFINE a == Authorized(q, id, admin)
<1> SUFFICES a \in Request /\ Control(a) /\ Genuine(a.view) /\ Genuine(a.load)
    BY DEF Good
<1>1. CASE ~Permitted(q, id, admin) \/ q.op = "auth"
    BY <1>1, IdleGood DEF Authorized, Good
<1>2. CASE Permitted(q, id, admin) /\ q.op \in {"create", "find"}
    <2>1. a = [go EXCEPT !.pc = "globus", !.ret = "unique"]
        BY <1>2 DEF Authorized
    <2>2. admin
        BY <1>2 DEF Permitted
    <2>3. a \in Request /\ a.view = q.view /\ a.load = Nobody
        BY <2>1 DEF Request, PCs
    <2>4. /\ a.pc = "globus" /\ a.ret = "unique" /\ a.op = q.op
          /\ a.u = q.u /\ a.g = q.g /\ a.flag = q.flag
          /\ q.op = "create" => a.boss
        BY <2>1, <2>2 DEF Request
    <2>5. Control(a)
        BY <1>2, <2>4 DEF Control, Operands, OnUser, Filling, Removing
    <2> QED BY <2>3, <2>5 DEF Genuine
<1>3. CASE Permitted(q, id, admin) /\ q.op = "delete" /\ id = q.u
    <2>1. a = [go EXCEPT !.pc = "unFind"]
        BY <1>3 DEF Authorized
    <2>3. a \in Request /\ a.view = q.view /\ a.load = Nobody
        BY <2>1 DEF Request, PCs
    <2>4. /\ a.pc = "unFind" /\ a.ret = "authorize" /\ a.op = "delete"
          /\ a.u = q.u /\ a.g = q.g /\ a.flag = q.flag
        BY <1>3, <2>1 DEF Request
    <2>5. Control(a)
        BY <1>3, <2>4 DEF Control, Operands, OnUser, Filling, Removing
    <2> QED BY <2>3, <2>5 DEF Genuine
<1>4. CASE /\ Permitted(q, id, admin) /\ ~(q.op = "delete" /\ id = q.u)
           /\ q.op \notin {"auth", "create", "find"}
    <2>1. a = [go EXCEPT !.pc = "target", !.ret = "act"]
        BY <1>4 DEF Authorized
    <2>2. q.op \in OnUser
        BY <1>4 DEF Good, Request, Ops, OnUser
    <2>3. a \in Request /\ a.view = q.view /\ a.load = Nobody
        BY <2>1 DEF Request, PCs
    <2>4. /\ a.pc = "target" /\ a.ret = "act" /\ a.op = q.op
          /\ a.u = q.u /\ a.g = q.g /\ a.flag = q.flag
        BY <2>1 DEF Request
    <2>5. Control(a)
        BY <2>2, <2>4 DEF Control, Operands, OnUser, Filling, Removing
    <2> QED BY <2>3, <2>5 DEF Genuine
<1> QED BY <1>1, <1>2, <1>3, <1>4

\* A request that has got hold of the user it is about goes on well formed.
LEMMA ActGood ==
    ASSUME NEW q, Good(q), NEW rec \in UserRec, Genuine(rec), q.ret = "act"
    PROVE  Good(Act(q, rec))
<1>1. q.op \in OnUser /\ q.u \in Users
    BY DEF Good, Control, Operands
<1>2. CASE q.op = "get" \/ (q.op = "update" /\ ~MayChangeFlag(q))
    BY <1>2, IdleGood DEF Act
<1>3. CASE q.op = "delete"
    <2>1. Act(q, rec) = [q EXCEPT !.pc = "unFind", !.load = Nobody]
        BY <1>3 DEF Act
    <2> DEFINE a == Act(q, rec)
    <2>2. a \in Request /\ a.view = q.view /\ a.load = Nobody
        BY <2>1 DEF Good, Request, PCs
    <2>3. /\ a.pc = "unFind" /\ a.ret = "act" /\ a.op = "delete"
          /\ a.u = q.u /\ a.g = q.g /\ a.flag = q.flag
        BY <1>3, <2>1 DEF Good, Request
    <2> HIDE DEF a
    <2>4. Control(a)
        BY <1>1, <2>3 DEF Control, Operands, OnUser, Filling, Removing
    <2> QED BY <2>2, <2>4 DEF Good, Genuine, a
<1>4. CASE q.op = "replace" \/ (q.op = "update" /\ MayChangeFlag(q))
    <2>1. Act(q, rec) = [q EXCEPT !.pc = "put", !.view = rec, !.load = Nobody]
        BY <1>4 DEF Act
    <2>2. q.flag = "grant" => q.boss
        BY <1>4 DEF Good, Control, Operands, MayChangeFlag
    <2> DEFINE a == Act(q, rec)
    <2>3. a \in Request /\ a.view = rec /\ a.load = Nobody
        BY <2>1 DEF Good, Request, PCs
    <2>4. /\ a.pc = "put" /\ a.ret = "act" /\ a.op = q.op /\ a.boss = q.boss
          /\ a.u = q.u /\ a.g = q.g /\ a.flag = q.flag
        BY <2>1 DEF Good, Request
    <2>5. rec # Nobody
        BY UserAssumption
    <2> HIDE DEF a
    <2>6. Control(a)
        BY <1>1, <1>4, <2>2, <2>3, <2>4, <2>5
        DEF Good, Control, Operands, OnUser, Filling, Removing
    <2> QED BY <2>3, <2>6 DEF Good, Genuine, a
<1> QED BY <1>1, <1>2, <1>3, <1>4 DEF OnUser

LEMMA ResumeGood ==
    ASSUME NEW q, Good(q), NEW rec \in UserRec, Genuine(rec), q.op # "none"
    PROVE  Good(Resume(q, rec))
<1>1. CASE q.ret = "authorize"
    BY <1>1, AuthorizedGood DEF Resume, UserRec, Good, Control
<1>2. CASE q.ret = "act"
    BY <1>2, ActGood DEF Resume
<1>3. CASE q.ret \notin {"authorize", "act"}
    BY <1>3, IdleGood DEF Resume, Registered
<1> QED BY <1>1, <1>2, <1>3

LEMMA AbsentGood ==
    ASSUME NEW q, Good(q)
    PROVE  Good(Absent(q))
<1>1. CASE q.op = "create" /\ q.ret = "unique"
    <2>1. Absent(q) = [q EXCEPT !.pc = "put"]
        BY <1>1 DEF Absent
    <2> QED BY <1>1, <2>1
            DEF Good, Request, Control, Operands, Genuine, PCs, OnUser, Filling, Removing
<1>2. CASE ~(q.op = "create" /\ q.ret = "unique")
    BY <1>2, IdleGood DEF Absent
<1> QED BY <1>1, <1>2

(***************************************************************************)
(* One step                                                                *)
(***************************************************************************)
\* The request a thread executes is well formed.
LEMMA RequestGood ==
    ASSUME IInv, NEW r \in Requests
    PROVE  Good(req[r])
BY DEF IInv, TypeOK, ControlOK, AllGenuine, Good

LEMMA FaultBound ==
    ASSUME TypeOK, Fault \/ UNCHANGED faults
    PROVE  faults' \in 0..MaxFaults
BY UserAssumption DEF TypeOK, Fault

\* what the invariant says of each cache
IDsOK(cache) == cache \in [Users -> Entry] /\ \A u \in Users : Sound(cache[u])
TokensOK(cache) ==
    /\ cache \in [Tokens -> Entry]
    /\ \A t \in Tokens :
        Sound(cache[t]) /\ (cache[t].rec # Nobody => cache[t].rec.token = t)
GlobusOK(cache) == cache \in [GlobusIDs -> Entry] /\ \A g \in GlobusIDs : Sound(cache[g])

LEMMA CachesBefore ==
    ASSUME IInv
    PROVE  /\ IDsOK(byID) /\ TokensOK(byToken) /\ GlobusOK(byGlobus)
           /\ revoked \subseteq Tokens /\ faults \in 0..MaxFaults
BY DEF IInv, TypeOK, AllGenuine, Placed, IDsOK, TokensOK, GlobusOK

\* A step of one thread that leaves table, tokens and appointments alone and
\* puts only genuine records in the caches, under their own token, keeps the
\* invariant.
LEMMA CacheStep ==
    ASSUME IInv, NEW r \in Requests, NEW q, Good(q), Step(r, q),
           IDsOK(byID'), TokensOK(byToken'), GlobusOK(byGlobus'),
           revoked' \subseteq Tokens, faults' \in 0..MaxFaults,
           UNCHANGED <<table, issued, gone, appointed>>
    PROVE  IInv'
<1>1. req' \in [Requests -> Request]
    BY DEF IInv, TypeOK, Step, Good
<1>2. \A s \in Requests : req'[s] = IF s = r THEN q ELSE req[s]
    BY DEF IInv, TypeOK, Step
<1>3. TypeOK'
    BY <1>1 DEF IInv, TypeOK, IDsOK, TokensOK, GlobusOK
<1>4. ControlOK'
    BY <1>2 DEF IInv, ControlOK, Good
<1>5. \A s \in Requests : Genuine(req'[s].view) /\ Genuine(req'[s].load)
    BY <1>2 DEF IInv, AllGenuine, Good
<1>6. AllGenuine'
    BY <1>5 DEF IInv, AllGenuine, Genuine, Sound, IDsOK, TokensOK, GlobusOK
<1>7. Placed'
    BY DEF IInv, Placed, TokensOK
<1> QED BY <1>3, <1>4, <1>6, <1>7 DEF IInv

\* A step that changes nothing but the request of one thread.
LEMMA LocalStep ==
    ASSUME IInv, NEW r \in Requests, NEW q, Good(q), Step(r, q),
           Fault \/ UNCHANGED faults, UNCHANGED <<table, caches, history>>
    PROVE  IInv'
<1>1. faults' \in 0..MaxFaults
    BY FaultBound DEF IInv
<1>2. byID' = byID /\ byToken' = byToken /\ byGlobus' = byGlobus
    BY DEF caches
<1>3. UNCHANGED <<table, issued, gone, appointed, revoked>>
    BY DEF history
<1> QED BY <1>1, <1>2, <1>3, CachesBefore, CacheStep

LEMMA BeginStep ==
    ASSUME IInv, NEW r \in Requests, NEW op \in Ops \ {"none"},
           NEW tok \in Tokens \cup {Portal},
           NEW u \in MaybeUser, NEW g \in GlobusIDs \cup {Nobody},
           NEW flag \in {"keep", "grant", "drop"},
           op \in OnUser => u \in Users, op \in {"create", "find"} => g \in GlobusIDs,
           op = "replace" => flag = "keep",
           Begin(r, op, tok, u, g, flag)
    PROVE  IInv'
<1> DEFINE q == [Idle EXCEPT !.op = op, !.pc = "auth", !.tok = tok, !.u = u,
                             !.g = g, !.flag = flag]
<1>1. CASE tok = Portal
    <2>1. q \in Request
        BY UserAssumption DEF Idle, Request, PCs
    <2>2. /\ q.op = op /\ q.u = u /\ q.g = g /\ q.flag = flag
          /\ q.ret = "authorize" /\ q.view = Nobody
        BY DEF Idle
    <2> HIDE DEF q
    <2>3. Operands(q) /\ Genuine(q.view) /\ q.op # "none"
        BY <2>2 DEF Operands, Genuine
    <2>4. Good(Authorized(q, Nobody, TRUE))
        BY <2>1, <2>2, <2>3, AuthorizedGood
    <2> QED BY <1>1, <2>4, LocalStep DEF Begin, q
<1>2. CASE tok # Portal
    <2>1. q \in Request
        BY UserAssumption DEF Idle, Request, PCs
    <2>2. /\ q.pc = "auth" /\ q.op = op /\ q.tok \in Tokens /\ q.u = u /\ q.g = g
          /\ q.flag = flag /\ q.ret = "authorize" /\ q.view = Nobody /\ q.load = Nobody
        BY <1>2 DEF Idle
    <2> HIDE DEF q
    <2>3. Operands(q)
        BY <2>2 DEF Operands
    <2>4. Control(q)
        BY <2>2, <2>3 DEF Control, Filling, Removing
    <2>5. Good(q)
        BY <2>1, <2>2, <2>4 DEF Good, Genuine
    <2> QED BY <1>2, <2>5, LocalStep DEF Begin, q
<1> QED BY <1>1, <1>2

LEMMA StartStep ==
    ASSUME IInv, NEW r \in Requests, Start(r)
    PROVE  IInv'
<1>1. PICK tok \in {Portal} \cup {t \in Tokens : issued[t] # Nobody} :
        \/ authenticateUser(r, tok)
        \/ \E g \in GlobusIDs :
            \/ findUser(r, tok, g)
            \/ \E flag \in {"grant", "drop"} : createUser(r, tok, g, flag)
        \/ \E u \in Users \ FreshUsers :
            \/ getUserInfo(r, tok, u)
            \/ \E flag \in {"keep", "grant", "drop"} : updateUser(r, tok, u, flag)
            \/ replaceUserToken(r, tok, u)
            \/ deleteUser(r, tok, u)
    BY DEF Start
<1>2. CASE authenticateUser(r, tok)
    BY <1>2, BeginStep DEF authenticateUser, Ops, OnUser
<1>3. ASSUME NEW g \in GlobusIDs, findUser(r, tok, g) PROVE IInv'
    BY <1>3, BeginStep DEF findUser, Ops, OnUser
<1>4. ASSUME NEW g \in GlobusIDs, NEW flag \in {"grant", "drop"},
             createUser(r, tok, g, flag)
      PROVE IInv'
    BY <1>4, BeginStep DEF createUser, Ops, OnUser
<1>5. ASSUME NEW u \in Users, NEW flag \in {"keep", "grant", "drop"},
             updateUser(r, tok, u, flag)
      PROVE IInv'
    BY <1>5, BeginStep DEF updateUser, Ops, OnUser
<1>6. ASSUME NEW u \in Users,
             getUserInfo(r, tok, u) \/ replaceUserToken(r, tok, u) \/ deleteUser(r, tok, u)
      PROVE IInv'
    BY <1>6, BeginStep DEF getUserInfo, replaceUserToken, deleteUser, Ops, OnUser
<1> QED BY <1>1, <1>2, <1>3, <1>4, <1>5, <1>6

\* A lookup returns a genuine record, found in a cache or in the table.
LEMMA LookupStep ==
    ASSUME IInv, NEW r \in Requests, req[r].pc \in {"auth", "target", "globus"},
           NEW e \in Entry, Sound(e), NEW matches \in SUBSET UserRec,
           \A rec \in matches : Genuine(rec),
           lookup(r, e, matches)
    PROVE  IInv'
<1> DEFINE q == req[r]
<1>1. Good(q) /\ q.op # "none"
    BY RequestGood DEF Good, Control
<1>2. CASE findCached(r, e)
    <2>1. e.rec \in UserRec /\ Genuine(e.rec)
        BY <1>2 DEF findCached, CacheHit, Sound, Entry
    <2>2. Good(Resume(q, e.rec))
        BY <1>1, <2>1, ResumeGood
    <2> QED BY <1>2, <2>2, LocalStep DEF findCached
<1>3. CASE fetch(r, e, matches)
    <2>1. UNCHANGED <<table, caches, history>>
        BY <1>3 DEF fetch
    <2>2. CASE Step(r, Absent(q)) /\ (Fault \/ UNCHANGED faults)
        BY <1>1, <2>1, <2>2, AbsentGood, LocalStep
    <2>3. CASE Step(r, Idle) /\ UNCHANGED faults
        BY <2>1, <2>3, IdleGood, LocalStep
    <2>4. ASSUME NEW rec \in matches, UNCHANGED faults,
                 Step(r, [q EXCEPT !.pc = "fillID", !.load = rec])
          PROVE  IInv'
        <3> DEFINE p == [q EXCEPT !.pc = "fillID", !.load = rec]
        <3>1. p \in Request /\ p.view = q.view /\ p.load = rec
            BY <1>1 DEF Good, Request, PCs
        <3>2. /\ p.pc = "fillID" /\ p.op = q.op /\ p.ret = q.ret /\ p.u = q.u
              /\ p.g = q.g /\ p.flag = q.flag /\ p.boss = q.boss
            BY <1>1 DEF Good, Request
        <3>3. rec # Nobody
            BY UserAssumption
        <3>4. Control(p)
            BY <1>1, <3>1, <3>2, <3>3
            DEF Good, Control, Operands, OnUser, Filling, Removing
        <3>5. Good(p)
            BY <1>1, <3>1, <3>4 DEF Good
        <3> QED BY <2>1, <2>4, <3>5, LocalStep
    <2> QED BY <1>3, <2>2, <2>3, <2>4 DEF fetch
<1> QED BY <1>2, <1>3 DEF lookup

\* The items of the table are genuine records.
LEMMA StoredGenuine ==
    ASSUME IInv
    PROVE  Stored \subseteq UserRec /\ \A rec \in Stored : Genuine(rec)
BY DEF IInv, TypeOK, AllGenuine, Stored

LEMMA FindStep ==
    ASSUME IInv, NEW r \in Requests,
           findUserByToken(r) \/ getUser(r) \/ findUserByGlobusID(r)
    PROVE  IInv'
<1>1. Control(req[r])
    BY DEF IInv, ControlOK
<1>2. CASE findUserByToken(r)
    <2>1. req[r].tok \in Tokens
        BY <1>1, <1>2 DEF findUserByToken, Control
    <2>2. byToken[req[r].tok] \in Entry /\ Sound(byToken[req[r].tok])
        BY <2>1 DEF IInv, TypeOK, AllGenuine
    <2> QED BY <1>2, <2>2, StoredGenuine, LookupStep DEF findUserByToken
<1>3. CASE getUser(r)
    <2>1. req[r].u \in Users
        BY <1>1, <1>3 DEF getUser, Control, Operands
    <2>2. byID[req[r].u] \in Entry /\ Sound(byID[req[r].u])
        BY <2>1 DEF IInv, TypeOK, AllGenuine
    <2> QED BY <1>3, <2>2, StoredGenuine, LookupStep DEF getUser
<1>4. CASE findUserByGlobusID(r)
    <2>1. req[r].g \in GlobusIDs
        BY <1>1, <1>4 DEF findUserByGlobusID, Control, Operands
    <2>2. byGlobus[req[r].g] \in Entry /\ Sound(byGlobus[req[r].g])
        BY <2>1 DEF IInv, TypeOK, AllGenuine
    <2> QED BY <1>4, <2>2, StoredGenuine, LookupStep DEF findUserByGlobusID
<1> QED BY <1>2, <1>3, <1>4

(***************************************************************************)
(* Steps that change a cache                                               *)
(***************************************************************************)
\* A request that only moves on to another step of its handler stays well formed
\* if it has what the new step needs.
LEMMA GotoGood ==
    ASSUME NEW q, Good(q), q.pc # "idle", NEW pc \in PCs,
           pc \notin {"idle", "auth", "target", "globus", "put"},
           pc \in Filling => q.load # Nobody,
           pc \in {"dropToken", "unToken", "unGlobus"} => q.view # Nobody,
           pc \in Removing => q.op = "delete"
    PROVE  Good([q EXCEPT !.pc = pc])
<1> DEFINE p == [q EXCEPT !.pc = pc]
<1>1. p \in Request /\ p.view = q.view /\ p.load = q.load /\ p.pc = pc
    BY DEF Good, Request
<1>2. /\ p.op = q.op /\ p.ret = q.ret /\ p.u = q.u
      /\ p.g = q.g /\ p.flag = q.flag /\ p.boss = q.boss
    BY DEF Good, Request
<1>3. Control(p)
    BY <1>1, <1>2 DEF Good, Control, Operands, OnUser, Filling, Removing
<1> QED BY <1>1, <1>3 DEF Good

\* An entry built from a genuine record, and the absent one, are sound.
LEMMA NoEntrySound == NoEntry \in Entry /\ Sound(NoEntry) /\ NoEntry.rec = Nobody
BY DEF NoEntry, Entry, Sound, Genuine

LEMMA CachedSound ==
    ASSUME NEW rec \in UserRec, Genuine(rec)
    PROVE  Cached(rec) \in Entry /\ Sound(Cached(rec)) /\ Cached(rec).rec = rec
BY UserAssumption DEF Cached, Entry, Sound

LEMMA FillStep ==
    ASSUME IInv, NEW r \in Requests,
           cacheByID(r) \/ dropOldToken(r) \/ cacheByToken(r) \/ cacheByGlobusID(r)
    PROVE  IInv'
<1> DEFINE q == req[r]
<1>1. Good(q)
    BY RequestGood
<1>2. q.pc \in Filling /\ q.pc # "idle" /\ q.op # "none"
    BY <1>1 DEF cacheByID, dropOldToken, cacheByToken, cacheByGlobusID, Filling, Good, Control
<1>3. q.load \in UserRec /\ Genuine(q.load)
    BY <1>1, <1>2 DEF Good, Control, Request
<1>4. /\ q.load.id \in Users /\ q.load.token \in Tokens /\ q.load.globus \in GlobusIDs
    BY <1>3 DEF UserRec
<1>0. q.load # Nobody
    BY <1>3, UserAssumption
<1> DEFINE e == Cached(q.load)
<1>5. e \in Entry /\ Sound(e) /\ e.rec = q.load
    BY <1>3, CachedSound
<1> HIDE DEF e
<1>6. CASE cacheByID(r)
    <2> DEFINE pc == IF q.ret = "done" /\ q.op = "replace" THEN "dropToken" ELSE "fillToken"
    <2>1. Good([q EXCEPT !.pc = pc])
        <3>1. pc = "dropToken" => q.view # Nobody
            BY <1>1 DEF Good, Control
        <3>2. pc \in {"dropToken", "fillToken"}
            OBVIOUS
        <3> HIDE DEF pc
        <3>3. q.load # Nobody
            BY <1>3, UserAssumption
        <3> QED BY <1>1, <1>2, <3>1, <3>2, <3>3, GotoGood DEF PCs, Removing
    <2>2. IDsOK(byID')
        BY <1>4, <1>5, <1>6, CachesBefore DEF cacheByID, e, IDsOK
    <2>3. Step(r, [q EXCEPT !.pc = pc]) /\ UNCHANGED <<table, byToken, byGlobus, history, faults>>
        BY <1>6 DEF cacheByID, Goto
    <2>4. /\ byToken' = byToken /\ byGlobus' = byGlobus /\ revoked' = revoked
          /\ faults' = faults /\ UNCHANGED <<table, issued, gone, appointed>>
        BY <2>3 DEF history
    <2> HIDE DEF pc
    <2> QED BY <2>1, <2>2, <2>3, <2>4, CachesBefore, CacheStep
<1>7. CASE dropOldToken(r)
    <2>1. q.view \in UserRec
        BY <1>1, <1>7 DEF Good, Control, Request, dropOldToken
    <2>2. Good([q EXCEPT !.pc = "fillToken"])
        BY <1>1, <1>2, <1>3, <1>0, GotoGood DEF PCs, Removing
    <2>3. TokensOK(byToken')
        BY <1>7, <2>1, NoEntrySound, CachesBefore DEF dropOldToken, UserRec, TokensOK
    <2>4. /\ Step(r, [q EXCEPT !.pc = "fillToken"])
          /\ UNCHANGED <<table, byID, byGlobus, history, faults>>
        BY <1>7 DEF dropOldToken, Goto
    <2>5. /\ byID' = byID /\ byGlobus' = byGlobus /\ revoked' = revoked
          /\ faults' = faults /\ UNCHANGED <<table, issued, gone, appointed>>
        BY <2>4 DEF history
    <2> QED BY <2>2, <2>3, <2>4, <2>5, CachesBefore, CacheStep
<1>8. CASE cacheByToken(r)
    <2>2. Good([q EXCEPT !.pc = "fillGlobus"])
        BY <1>1, <1>2, <1>3, <1>0, GotoGood DEF PCs, Removing
    <2>3. TokensOK(byToken')
        BY <1>4, <1>5, <1>8, CachesBefore DEF cacheByToken, e, TokensOK
    <2>4. /\ Step(r, [q EXCEPT !.pc = "fillGlobus"])
          /\ UNCHANGED <<table, byID, byGlobus, history, faults>>
        BY <1>8 DEF cacheByToken, Goto
    <2>5. /\ byID' = byID /\ byGlobus' = byGlobus /\ revoked' = revoked
          /\ faults' = faults /\ UNCHANGED <<table, issued, gone, appointed>>
        BY <2>4 DEF history
    <2> QED BY <2>2, <2>3, <2>4, <2>5, CachesBefore, CacheStep
<1>9. CASE cacheByGlobusID(r)
    <2>1. Good(Resume(q, q.load))
        BY <1>1, <1>2, <1>3, ResumeGood
    <2>2. GlobusOK(byGlobus')
        BY <1>4, <1>5, <1>9, CachesBefore DEF cacheByGlobusID, e, GlobusOK
    <2>3. q.ret = "done" /\ q.op = "replace" => q.view.token \in Tokens
        BY <1>1 DEF Good, Control, Request, UserRec
    <2>4. revoked' \subseteq Tokens
        BY <1>9, <2>3, CachesBefore DEF cacheByGlobusID
    <2>5. Step(r, Resume(q, q.load)) /\ UNCHANGED <<table, byID, byToken, issued, gone, appointed, faults>>
        BY <1>9 DEF cacheByGlobusID
    <2>6. /\ byID' = byID /\ byToken' = byToken /\ faults' = faults
          /\ UNCHANGED <<table, issued, gone, appointed>>
        BY <2>5
    <2> QED BY <2>1, <2>2, <2>4, <2>5, <2>6, CachesBefore, CacheStep
<1> QED BY <1>6, <1>7, <1>8, <1>9

\* Letting a cache record expire changes neither the record nor anything else.
LEMMA ExpireStep ==
    ASSUME IInv,
           \/ \E u \in Users : ExpireByID(u)
           \/ \E t \in Tokens : ExpireByToken(t)
           \/ \E g \in GlobusIDs : ExpireByGlobusID(g)
    PROVE  IInv'
<1>1. ASSUME NEW e \in Entry, Sound(e)
      PROVE  /\ [e EXCEPT !.live = FALSE] \in Entry
             /\ Sound([e EXCEPT !.live = FALSE])
             /\ [e EXCEPT !.live = FALSE].rec = e.rec
    BY <1>1 DEF Entry, Sound
<1>2. /\ req' = req /\ table' = table /\ faults' = faults /\ issued' = issued
      /\ revoked' = revoked /\ gone' = gone /\ appointed' = appointed
    BY DEF ExpireByID, ExpireByToken, ExpireByGlobusID, history
<1>3. IDsOK(byID') /\ TokensOK(byToken') /\ GlobusOK(byGlobus')
    <2>1. ASSUME NEW u \in Users, ExpireByID(u)
          PROVE  IDsOK(byID') /\ TokensOK(byToken') /\ GlobusOK(byGlobus')
        BY <1>1, <2>1, CachesBefore DEF ExpireByID, IDsOK
    <2>2. ASSUME NEW t \in Tokens, ExpireByToken(t)
          PROVE  IDsOK(byID') /\ TokensOK(byToken') /\ GlobusOK(byGlobus')
        BY <1>1, <2>2, CachesBefore DEF ExpireByToken, TokensOK
    <2>3. ASSUME NEW g \in GlobusIDs, ExpireByGlobusID(g)
          PROVE  IDsOK(byID') /\ TokensOK(byToken') /\ GlobusOK(byGlobus')
        BY <1>1, <2>3, CachesBefore DEF ExpireByGlobusID, GlobusOK
    <2> QED BY <2>1, <2>2, <2>3
<1>4. TypeOK' /\ Placed'
    BY <1>2, <1>3 DEF IInv, TypeOK, Placed, IDsOK, TokensOK, GlobusOK
<1>5. ControlOK'
    BY <1>2 DEF IInv, ControlOK
<1>6. AllGenuine'
    BY <1>2, <1>3 DEF IInv, AllGenuine, Genuine, Sound, IDsOK, TokensOK, GlobusOK
<1> QED BY <1>4, <1>5, <1>6 DEF IInv

\* removeUser's work on the caches.
LEMMA UncacheStep ==
    ASSUME IInv, NEW r \in Requests,
           findInCache(r) \/ uncacheToken(r) \/ uncacheGlobusID(r) \/ uncacheID(r)
    PROVE  IInv'
<1> DEFINE q == req[r]
<1>1. Good(q)
    BY RequestGood
<1>2. q.pc \in Removing /\ q.pc # "idle" /\ q.op = "delete"
    BY <1>1
    DEF findInCache, uncacheToken, uncacheGlobusID, uncacheID, Removing, Good, Control
<1>3. q.u \in Users
    BY <1>1, <1>2 DEF Good, Control, Operands, OnUser
<1>4. CASE findInCache(r)
    <2> DEFINE rec == byID[q.u].rec
    <2> DEFINE pc == IF rec = Nobody THEN "unID" ELSE "unToken"
    <2> DEFINE p == [q EXCEPT !.view = rec]
    <2>1. rec \in MaybeRec /\ Genuine(rec)
        BY <1>3, CachesBefore DEF IDsOK, Entry, Sound
    <2>2. Good(p) /\ p.pc # "idle" /\ p.op = "delete" /\ p.view = rec
        <3>1. p \in Request /\ p.view = rec /\ p.load = q.load /\ p.pc = q.pc
            BY <1>1, <2>1 DEF Good, Request
        <3>2. /\ p.op = q.op /\ p.ret = q.ret /\ p.u = q.u
              /\ p.g = q.g /\ p.flag = q.flag /\ p.boss = q.boss
            BY <1>1 DEF Good, Request
        <3>3. q.pc = "unFind"
            BY <1>4 DEF findInCache
        <3> HIDE DEF p
        <3>4. Control(p)
            BY <1>1, <1>2, <3>1, <3>2, <3>3
            DEF Good, Control, Operands, OnUser, Filling, Removing
        <3> QED BY <1>1, <1>2, <2>1, <3>1, <3>2, <3>4 DEF Good
    <2>3. pc \in {"unID", "unToken"} /\ (pc = "unToken" => rec # Nobody)
        OBVIOUS
    <2>4. [p EXCEPT !.pc = pc] = [q EXCEPT !.view = rec, !.pc = pc]
        BY <1>1 DEF Good, Request
    <2>5. Step(r, [q EXCEPT !.view = rec, !.pc = pc])
        BY <1>4 DEF findInCache
    <2>6. UNCHANGED <<table, caches, history, faults>>
        BY <1>4 DEF findInCache
    <2> HIDE DEF p, pc, rec
    <2>7. Good([p EXCEPT !.pc = pc])
        BY <2>2, <2>3, GotoGood DEF PCs, Filling, Removing
    <2> QED BY <2>4, <2>5, <2>6, <2>7, LocalStep
<1>5. CASE uncacheToken(r)
    <2>1. q.view \in UserRec
        BY <1>1, <1>5 DEF Good, Control, Request, uncacheToken
    <2>2. Good([q EXCEPT !.pc = "unGlobus"])
        BY <1>1, <1>2, <2>1, UserAssumption, GotoGood DEF PCs, Filling, Removing
    <2>3. TokensOK(byToken')
        BY <1>5, <2>1, NoEntrySound, CachesBefore DEF uncacheToken, UserRec, TokensOK
    <2>4. Step(r, [q EXCEPT !.pc = "unGlobus"])
        BY <1>5 DEF uncacheToken, Goto
    <2>5. /\ byID' = byID /\ byGlobus' = byGlobus /\ revoked' = revoked
          /\ faults' = faults /\ UNCHANGED <<table, issued, gone, appointed>>
        BY <1>5 DEF uncacheToken, history
    <2> QED BY <2>2, <2>3, <2>4, <2>5, CachesBefore, CacheStep
<1>6. CASE uncacheGlobusID(r)
    <2>1. q.view \in UserRec
        BY <1>1, <1>6 DEF Good, Control, Request, uncacheGlobusID
    <2>2. Good([q EXCEPT !.pc = "unID"])
        BY <1>1, <1>2, GotoGood DEF PCs, Filling, Removing
    <2>3. GlobusOK(byGlobus')
        BY <1>6, <2>1, NoEntrySound, CachesBefore DEF uncacheGlobusID, UserRec, GlobusOK
    <2>4. Step(r, [q EXCEPT !.pc = "unID"])
        BY <1>6 DEF uncacheGlobusID, Goto
    <2>5. /\ byID' = byID /\ byToken' = byToken /\ revoked' = revoked
          /\ faults' = faults /\ UNCHANGED <<table, issued, gone, appointed>>
        BY <1>6 DEF uncacheGlobusID, history
    <2> QED BY <2>2, <2>3, <2>4, <2>5, CachesBefore, CacheStep
<1>7. CASE uncacheID(r)
    <2>2. Good([q EXCEPT !.pc = "dbDelete"])
        BY <1>1, <1>2, GotoGood DEF PCs, Filling, Removing
    <2>3. IDsOK(byID')
        BY <1>3, <1>7, NoEntrySound, CachesBefore DEF uncacheID, IDsOK
    <2>4. Step(r, [q EXCEPT !.pc = "dbDelete"])
        BY <1>7 DEF uncacheID, Goto
    <2>5. /\ byGlobus' = byGlobus /\ byToken' = byToken /\ revoked' = revoked
          /\ faults' = faults /\ UNCHANGED <<table, issued, gone, appointed>>
        BY <1>7 DEF uncacheID, history
    <2> QED BY <2>2, <2>3, <2>4, <2>5, CachesBefore, CacheStep
<1> QED BY <1>4, <1>5, <1>6, <1>7

(***************************************************************************)
(* Steps that change the table                                             *)
(***************************************************************************)
\* Tokens that were generated keep their user, and appointments are not undone.
Growth ==
    /\ \A t \in Tokens : issued[t] # Nobody => issued'[t] = issued[t]
    /\ appointed \subseteq appointed'

\* A genuine copy, however stale, stays genuine.
LEMMA GenuineKept ==
    ASSUME Growth, NEW rec \in MaybeRec, Genuine(rec)
    PROVE  rec # Nobody =>
            issued'[rec.token] = rec.id /\ (rec.admin => rec.id \in appointed')
BY UserAssumption DEF Growth, Genuine, UserRec

\* A write of the table by one thread, which then has a well formed request and
\* has stored a genuine record, or deleted one.
LEMMA TableStep ==
    ASSUME IInv, NEW r \in Requests, NEW q \in Request, Control(q), Step(r, q),
           Growth, issued' \in [Tokens -> MaybeUser], appointed' \subseteq Users,
           NEW u \in Users, NEW rec \in MaybeRec,
           rec # Nobody => /\ rec.id = u /\ issued'[rec.token] = rec.id
                           /\ rec.admin => rec.id \in appointed',
           table' \in {table, [table EXCEPT ![u] = rec]},
           q.view \in {Nobody, req[r].view}, q.load \in {Nobody, rec},
           revoked' \subseteq Tokens, gone' \subseteq Users, faults' \in 0..MaxFaults,
           UNCHANGED caches
    PROVE  IInv'
<1>1. req' \in [Requests -> Request]
    BY DEF IInv, TypeOK, Step
<1>2. \A s \in Requests : req'[s] = IF s = r THEN q ELSE req[s]
    BY DEF IInv, TypeOK, Step
<1>3. table' \in [Users -> MaybeRec]
    BY DEF IInv, TypeOK
<1>4. byID' = byID /\ byToken' = byToken /\ byGlobus' = byGlobus
    BY DEF caches
<1>5. TypeOK'
    BY <1>1, <1>3, <1>4 DEF IInv, TypeOK
<1>6. ControlOK'
    BY <1>2 DEF IInv, ControlOK
<1>7. Placed'
    BY <1>3, <1>4 DEF IInv, TypeOK, Placed
<1>8. ASSUME NEW v \in Users
      PROVE  Genuine(table[v])' /\ Sound(byID[v])'
    <2>1. table[v] \in MaybeRec /\ Genuine(table[v]) /\ byID[v].rec \in MaybeRec /\ Sound(byID[v])
        BY DEF IInv, TypeOK, AllGenuine, Entry
    <2>2. table'[v] \in {table[v], rec}
        BY DEF IInv, TypeOK
    <2>3. Genuine(table[v])'
        BY <2>1, <2>2, GenuineKept DEF Genuine
    <2>4. Sound(byID[v])'
        BY <1>4, <2>1, GenuineKept DEF Genuine, Sound
    <2> QED BY <2>3, <2>4
<1>9. ASSUME NEW t \in Tokens PROVE Sound(byToken[t])'
    <2>1. byToken[t].rec \in MaybeRec /\ Sound(byToken[t])
        BY DEF IInv, TypeOK, AllGenuine, Entry
    <2> QED BY <1>4, <2>1, GenuineKept DEF Genuine, Sound
<1>10. ASSUME NEW g \in GlobusIDs PROVE Sound(byGlobus[g])'
    <2>1. byGlobus[g].rec \in MaybeRec /\ Sound(byGlobus[g])
        BY DEF IInv, TypeOK, AllGenuine, Entry
    <2> QED BY <1>4, <2>1, GenuineKept DEF Genuine, Sound
<1>11. ASSUME NEW s \in Requests PROVE Genuine(req[s].view)' /\ Genuine(req[s].load)'
    <2>1. /\ req[s].view \in MaybeRec /\ Genuine(req[s].view)
          /\ req[s].load \in MaybeRec /\ Genuine(req[s].load)
        BY DEF IInv, TypeOK, AllGenuine, Request
    <2>2. req'[s].view \in {Nobody, req[s].view} /\ req'[s].load \in {Nobody, rec, req[s].load}
        BY <1>2
    <2>3. Genuine(req[s].view)'
        BY <2>1, <2>2, GenuineKept DEF Genuine
    <2>4. Genuine(req[s].load)'
        BY <2>1, <2>2, GenuineKept DEF Genuine
    <2> QED BY <2>3, <2>4
<1>12. AllGenuine'
    BY <1>8, <1>9, <1>10, <1>11 DEF AllGenuine
<1> QED BY <1>5, <1>6, <1>7, <1>12 DEF IInv

\* A request that has written a record goes on to cache it.
LEMMA FilledRequest ==
    ASSUME NEW q \in Request, NEW rec \in UserRec
    PROVE  LET p == [q EXCEPT !.pc = "fillID", !.load = rec, !.ret = "done"] IN
           p \in Request /\ p.view = q.view /\ p.load = rec
<1> DEFINE p == [q EXCEPT !.pc = "fillID", !.load = rec, !.ret = "done"]
<1>1. rec \in MaybeRec /\ "fillID" \in PCs
    BY DEF PCs
<1>2. p \in Request
    BY <1>1 DEF Request
<1>3. p.view = q.view /\ p.load = rec
    BY DEF Request
<1> QED BY <1>2, <1>3

\* addUser and updateUser: the record is derived from a genuine copy or is new,
\* and a new token belongs to nobody yet.
LEMMA PutStep ==
    ASSUME IInv, NEW r \in Requests, putUser(r)
    PROVE  IInv'
<1> DEFINE q == req[r]
<1>1. Good(q) /\ q.pc = "put"
    BY RequestGood DEF putUser
<1>2. /\ q.op \in {"create", "update", "replace"}
      /\ q.op # "create" => q.view \in UserRec /\ Genuine(q.view)
      /\ q.op = "create" => q.g \in GlobusIDs
      /\ q.flag = "grant" => q.boss
    BY <1>1 DEF Good, Control, Operands, Request
<1>3. PICK rec \in Written(q) :
        LET stored == [table EXCEPT ![rec.id] = rec] IN
        /\ issued' = [issued EXCEPT ![rec.token] = rec.id]
        /\ appointed' = IF q.boss /\ q.flag = "grant" THEN appointed \cup {rec.id}
                        ELSE appointed
        /\ \/ /\ table' = stored
              /\ Step(r, [q EXCEPT !.pc = "fillID", !.load = rec, !.ret = "done"])
              /\ UNCHANGED faults
           \/ /\ Fault
              /\ table' \in {table, stored}
              /\ Step(r, Idle)
    BY DEF putUser
<1>4. q.flag \in {"keep", "grant", "drop"} /\ issued \in [Tokens -> MaybeUser]
    BY <1>1 DEF Good, Request, IInv, TypeOK
<1>5. /\ rec \in UserRec
      /\ issued[rec.token] \in {Nobody, rec.id}
      /\ rec.admin => q.flag = "grant" \/ rec.id \in appointed
    <2>1. CASE q.op = "create"
        <3>1. PICK u \in FreshUsers, t \in FreshTokens :
                rec = [id |-> u, token |-> t, globus |-> q.g, admin |-> q.flag = "grant"]
            BY <1>3, <2>1 DEF Written
        <3>2. u \in Users /\ t \in Tokens /\ issued[t] = Nobody
            BY DEF FreshUsers, FreshTokens
        <3>3. rec \in UserRec /\ rec.token = t
            BY <1>2, <2>1, <3>1, <3>2 DEF UserRec
        <3>4. rec.admin => q.flag = "grant"
            BY <3>1
        <3> QED BY <3>2, <3>3, <3>4
    <2>2. CASE q.op = "replace"
        <3>1. PICK t \in FreshTokens : rec = [q.view EXCEPT !.token = t]
            BY <1>3, <2>2 DEF Written
        <3>2. t \in Tokens /\ issued[t] = Nobody
            BY DEF FreshTokens
        <3>3. q.view \in UserRec /\ Genuine(q.view) /\ q.view # Nobody
            BY <1>2, <2>2, UserAssumption
        <3>4. /\ rec \in UserRec /\ rec.token = t
              /\ rec.id = q.view.id /\ rec.admin = q.view.admin
            BY <3>1, <3>2, <3>3 DEF UserRec
        <3>5. q.view.admin => q.view.id \in appointed
            BY <3>3 DEF Genuine
        <3> QED BY <3>2, <3>4, <3>5
    <2>3. CASE q.op = "update"
        <3>1. rec = WithFlag(q.view, q.flag)
            BY <1>3, <2>3 DEF Written
        <3>2. rec \in UserRec /\ rec.token = q.view.token /\ rec.id = q.view.id
            <4>1. CASE q.flag = "keep"
                BY <1>2, <2>3, <3>1, <4>1 DEF WithFlag, UserRec
            <4>2. CASE q.flag # "keep"
                <5>1. (q.flag = "grant") \in BOOLEAN
                    OBVIOUS
                <5>2. rec = [q.view EXCEPT !.admin = (q.flag = "grant")]
                    BY <3>1, <4>2 DEF WithFlag
                <5> QED BY <1>2, <2>3, <5>1, <5>2 DEF UserRec
            <4> QED BY <4>1, <4>2
        <3>3. rec.admin => q.flag = "grant" \/ q.view.admin
            <4>1. CASE q.flag = "keep"
                BY <1>2, <2>3, <3>1, <4>1 DEF WithFlag, UserRec
            <4>2. CASE q.flag # "keep"
                BY <1>2, <2>3, <3>1, <4>2 DEF WithFlag, UserRec
            <4> QED BY <4>1, <4>2
        <3>4. /\ issued[q.view.token] = q.view.id
              /\ q.view.admin => q.view.id \in appointed
            BY <1>2, <2>3, UserAssumption DEF Genuine
        <3> QED BY <3>2, <3>3, <3>4
    <2> QED BY <1>2, <2>1, <2>2, <2>3
<1>6. rec.id \in Users /\ rec.token \in Tokens /\ rec # Nobody
    BY <1>5, UserAssumption DEF UserRec
<1>7. /\ issued' \in [Tokens -> MaybeUser] /\ issued'[rec.token] = rec.id
      /\ \A t \in Tokens : issued[t] # Nobody => issued'[t] = issued[t]
    BY <1>3, <1>4, <1>5, <1>6
<1>8. /\ appointed' \subseteq Users /\ appointed \subseteq appointed'
      /\ rec.admin => rec.id \in appointed'
    BY <1>2, <1>3, <1>5, <1>6 DEF IInv, TypeOK
<1>9. Growth
    BY <1>7, <1>8 DEF Growth
<1>10. revoked' \subseteq Tokens /\ gone' \subseteq Users /\ UNCHANGED caches
    BY DEF putUser, IInv, TypeOK
<1>11. CASE /\ table' = [table EXCEPT ![rec.id] = rec] /\ UNCHANGED faults
            /\ Step(r, [q EXCEPT !.pc = "fillID", !.load = rec, !.ret = "done"])
    <2> DEFINE p == [q EXCEPT !.pc = "fillID", !.load = rec, !.ret = "done"]
    <2>0. q \in Request /\ rec \in UserRec
        BY <1>1, <1>5 DEF Good
    <2>1. p \in Request /\ p.view = q.view /\ p.load = rec
        BY <2>0, FilledRequest
    <2>2. /\ p.pc = "fillID" /\ p.op = q.op /\ p.ret = "done" /\ p.u = q.u
          /\ p.g = q.g /\ p.flag = q.flag /\ p.boss = q.boss
        BY <1>1 DEF Good, Request
    <2>3. q.op = "create" => q.boss
        BY <1>1 DEF Good, Control
    <2> HIDE DEF p
    <2>4. Control(p)
        BY <1>1, <1>2, <1>6, <2>1, <2>2, <2>3
        DEF Good, Control, Operands, OnUser, Filling, Removing
    <2>5. faults' \in 0..MaxFaults
        BY <1>11, FaultBound DEF IInv
    <2> QED BY <1>5, <1>6, <1>7, <1>8, <1>9, <1>10, <1>11, <2>1, <2>4, <2>5, TableStep DEF p
<1>12. CASE /\ Fault /\ table' \in {table, [table EXCEPT ![rec.id] = rec]} /\ Step(r, Idle)
    <2>1. Idle \in Request /\ Control(Idle) /\ Idle.view = Nobody /\ Idle.load = Nobody
        BY IdleGood DEF Good, Idle
    <2>2. faults' \in 0..MaxFaults
        BY <1>12, FaultBound DEF IInv
    <2> QED BY <1>5, <1>6, <1>7, <1>8, <1>9, <1>10, <1>12, <2>1, <2>2, TableStep
<1> QED BY <1>3, <1>11, <1>12

LEMMA RemoveStep ==
    ASSUME IInv, NEW r \in Requests, removeUser(r)
    PROVE  IInv'
<1>1. Control(req[r]) /\ req[r].pc = "dbDelete"
    BY DEF IInv, ControlOK, removeUser
<1>2. req[r].u \in Users
    BY <1>1 DEF Control, Operands, OnUser, Removing
<1>3. Idle \in Request /\ Control(Idle) /\ Idle.view = Nobody /\ Idle.load = Nobody
    BY IdleGood DEF Good, Idle
<1>4. /\ table' \in {table, [table EXCEPT ![req[r].u] = Nobody]}
      /\ Step(r, Idle) /\ (Fault \/ UNCHANGED faults)
      /\ revoked' \in {revoked, revoked \cup TokensOf(req[r].u)}
      /\ gone' \in {gone, gone \cup {req[r].u}}
      /\ UNCHANGED <<caches, issued, appointed>>
    BY DEF removeUser
<1>5. revoked' \subseteq Tokens /\ gone' \subseteq Users
    BY <1>2, <1>4 DEF IInv, TypeOK, TokensOf
<1>6. Growth /\ issued' \in [Tokens -> MaybeUser] /\ appointed' \subseteq Users
    BY <1>4 DEF Growth, IInv, TypeOK
<1>7. faults' \in 0..MaxFaults
    BY <1>4, FaultBound DEF IInv
<1> QED BY <1>2, <1>3, <1>4, <1>5, <1>6, <1>7, TableStep

(***************************************************************************)
(* The theorems                                                            *)
(***************************************************************************)
LEMMA InitInvariant == Init => IInv
<1> SUFFICES ASSUME Init PROVE IInv
    OBVIOUS
<1>1. TypeOK
    BY IdleGood, NoEntrySound, UserAssumption DEF Init, TypeOK, Good
<1>2. ControlOK
    BY IdleGood DEF Init, ControlOK, Good
<1>3. AllGenuine
    BY IdleGood, NoEntrySound DEF Init, AllGenuine, Good, Genuine
<1>4. Placed
    BY NoEntrySound DEF Init, Placed
<1> QED BY <1>1, <1>2, <1>3, <1>4 DEF IInv

LEMMA NextInvariant ==
    ASSUME IInv, [Next]_vars
    PROVE  IInv'
<1>1. ASSUME NEW r \in Requests, Start(r) PROVE IInv'
    BY <1>1, StartStep
<1>2. ASSUME NEW r \in Requests, Proceed(r) PROVE IInv'
    BY <1>2, FindStep, FillStep, PutStep, UncacheStep, RemoveStep DEF Proceed, addUser, rewriteUser
<1>3. CASE \/ \E u \in Users : ExpireByID(u)
           \/ \E t \in Tokens : ExpireByToken(t)
           \/ \E g \in GlobusIDs : ExpireByGlobusID(g)
    BY <1>3, ExpireStep
<1>4. CASE UNCHANGED vars
    BY <1>4 DEF vars, IInv, TypeOK, ControlOK, AllGenuine, Genuine, Sound, Placed
<1> QED BY <1>1, <1>2, <1>3, <1>4 DEF Next

\* Every copy of a user record, in the table, in a cache or in a request's
\* memory, is genuine at all times.
THEOREM UserInvariant == Spec => []IInv
<1>1. Init => IInv
    BY InitInvariant
<1>2. IInv /\ [Next]_vars => IInv'
    BY NextInvariant
<1> QED BY <1>1, <1>2, PTL DEF Spec

\* The table, the caches and the requests hold whole user records or none.
THEOREM UserTypes == Spec => []TypeOK
<1>1. IInv => TypeOK
    BY DEF IInv
<1> QED BY <1>1, UserInvariant, PTL

\* A token authenticates the user it was generated for, or nobody.
THEOREM TokensIdentify == Spec => []TokenIdentity
<1>1. ASSUME IInv PROVE TokenIdentity
    <2>1. ASSUME NEW t \in Tokens, byToken[t].rec # Nobody
          PROVE  byToken[t].rec.token = t /\ byToken[t].rec.id = issued[t]
        BY <1>1, <2>1 DEF IInv, AllGenuine, Sound, Genuine, Placed
    <2>2. ASSUME NEW t \in Tokens, NEW u \in Users, HasToken(u, t)
          PROVE  issued[t] = u
        BY <1>1, <2>2 DEF IInv, AllGenuine, Genuine, Placed, HasToken
    <2> QED BY <2>1, <2>2 DEF TokenIdentity
<1> QED BY <1>1, UserInvariant, PTL

\* Only users whom an administrator appointed are administrators.
THEOREM OnlyAppointedAdmins == Spec => []AdminsAppointed
<1>1. ASSUME IInv PROVE AdminsAppointed
    <2>1. ASSUME NEW u \in Users, table[u] # Nobody, table[u].admin
          PROVE  u \in appointed
        BY <1>1, <2>1 DEF IInv, AllGenuine, Genuine, Placed
    <2>2. ASSUME NEW t \in Tokens, byToken[t].rec # Nobody, byToken[t].rec.admin
          PROVE  byToken[t].rec.id \in appointed
        BY <1>1, <2>2 DEF IInv, AllGenuine, Sound, Genuine
    <2> QED BY <2>1, <2>2 DEF AdminsAppointed
<1> QED BY <1>1, UserInvariant, PTL

(***************************************************************************)
(* The agreement of table and caches, while requests come one at a time    *)
(***************************************************************************)
\* a token was generated for the user, whose ID is therefore not a new one
Known(u) == \E t \in Tokens : issued[t] = u

\* replaceUserToken has stored the new token and not yet cached the record
Renewing(q, u) == q.pc = "fillID" /\ q.op = "replace" /\ q.ret = "done" /\ q.load.id = u

\* Whatever calls fail: who is cached by ID is in the table, who is cached by
\* Globus ID is cached by ID, and always with the same Globus ID; who was deleted
\* is not in the table.
Filed ==
    /\ \A u \in Users : byID[u].rec # Nobody =>
         /\ byID[u].rec.id = u
         /\ table[u] # Nobody /\ table[u].globus = byID[u].rec.globus
    /\ \A g \in GlobusIDs : byGlobus[g].rec # Nobody =>
         /\ byGlobus[g].rec.globus = g
         /\ byID[byGlobus[g].rec.id].rec # Nobody
         /\ byID[byGlobus[g].rec.id].rec.globus = g
    /\ \A u \in gone : table[u] = Nobody /\ Known(u)

\* What the request knows then: the record it caches or changes is of a user who
\* is in the table, and a user it removes leaves the caches first.
Knows(q) ==
    /\ q.pc # "idle" /\ q.op \in OnUser => Known(q.u)
    /\ q.pc \in Filling =>
         table[q.load.id] # Nobody /\ table[q.load.id].globus = q.load.globus
    /\ q.pc \in Filling \ {"fillID"} => byID[q.load.id].rec = q.load
    /\ q.pc = "put" /\ q.op # "create" =>
         table[q.view.id] # Nobody /\ table[q.view.id].globus = q.view.globus
    /\ q.pc \in {"unToken", "unGlobus"} => byID[q.u].rec = q.view
    /\ q.pc \in {"unID", "dbDelete"} =>
         \A g \in GlobusIDs : byGlobus[g].rec # Nobody => byGlobus[g].rec.id # q.u
    /\ q.pc = "dbDelete" => byID[q.u].rec = Nobody

\* Unless a call failed: cached tokens are those of the table but for one being
\* replaced, withdrawn ones are nowhere, and Globus IDs are unique.
TokensFiled(q) ==
    /\ \A u \in Users : byID[u].rec # Nobody =>
         byID[u].rec.token = IF Renewing(q, u) THEN q.view.token ELSE table[u].token
    /\ \A t \in Tokens : byToken[t].rec # Nobody =>
         /\ byID[byToken[t].rec.id].rec # Nobody
         /\ \/ byID[byToken[t].rec.id].rec.token = t
            \/ q.pc = "dropToken" /\ q.view.token = t
    /\ \A t \in revoked :
         /\ byToken[t].rec = Nobody /\ issued[t] # Nobody
         /\ \A u \in Users : ~HasToken(u, t)
    /\ \A u, v \in Users :
         table[u] # Nobody /\ table[v] # Nobody /\ table[u].globus = table[v].globus => u = v

\* What the request knows then of tokens and of the Globus ID it registers.
KnowsTokens(q) ==
    /\ q.pc = "put" => IF q.op = "create"
                       THEN \A u \in Users : table[u] # Nobody => table[u].globus # q.g
                       ELSE table[q.view.id].token = q.view.token
    /\ q.pc \in Filling => table[q.load.id].token = q.load.token
    /\ q.pc \in Filling /\ q.op = "replace" /\ q.ret = "done" =>
         q.view.id = q.load.id /\ q.view.token # q.load.token
    /\ q.pc \in {"fillToken", "fillGlobus"} /\ q.op = "replace" /\ q.ret = "done" =>
         byToken[q.view.token].rec = Nobody
    /\ q.pc \in {"unGlobus", "unID", "dbDelete"} =>
         \A t \in Tokens : byToken[t].rec # Nobody => byToken[t].rec.id # q.u

Agreed(q) == Filed /\ Knows(q) /\ (faults = 0 => TokensFiled(q) /\ KnowsTokens(q))

AgreeInv == \A r \in Requests : Agreed(req[r])

\* The server executes one request at a time.
OneThread == \E r : Requests = {r}

\* q is the request of the only thread, in a state that satisfies the invariants
Turn(r, q) == r \in Requests /\ q = req[r] /\ IInv /\ Good(q) /\ Agreed(q)

\* The request that the step leaves behind agrees with what the step leaves in the
\* table and in the caches.
LEMMA BecomesAgreed ==
    ASSUME NEW r, NEW n, req'[r] = n, Filed', Knows(n)',
           faults' = 0 => TokensFiled(n)' /\ KnowsTokens(n)'
    PROVE  Agreed(req[r])'
BY DEF Agreed, Knows, TokensFiled, KnowsTokens, Renewing

LEMMA Stepped ==
    ASSUME NEW r \in Requests, NEW n, IInv, Step(r, n)
    PROVE  req'[r] = n
BY DEF Step, IInv, TypeOK

\* faults only counts up
LEMMA Undisturbed ==
    ASSUME IInv, Fault \/ UNCHANGED faults, faults' = 0
    PROVE  faults = 0 /\ ~Fault
BY UserAssumption DEF IInv, TypeOK, Fault

(***************************************************************************)
(* Steps that leave table and caches alone                                 *)
(***************************************************************************)
\* a request that is not in the middle of replacing a token
Plain(q) == q.pc # "dropToken" /\ ~(q.pc = "fillID" /\ q.op = "replace" /\ q.ret = "done")

LEMMA QuietAgreed ==
    ASSUME NEW r, NEW q, NEW n, Turn(r, q), req'[r] = n,
           UNCHANGED <<table, caches, history>>, Fault \/ UNCHANGED faults,
           Plain(q), Plain(n), Knows(n), faults' = 0 => KnowsTokens(n)
    PROVE  Agreed(req[r])'
<1>1. /\ table' = table /\ byID' = byID /\ byToken' = byToken /\ byGlobus' = byGlobus
      /\ issued' = issued /\ revoked' = revoked /\ gone' = gone
    BY DEF caches, history
<1>2. Filed'
    BY <1>1 DEF Turn, Agreed, Filed, Known
<1>3. Knows(n)'
    BY <1>1 DEF Knows, Known
<1>4. ASSUME faults' = 0 PROVE TokensFiled(n)' /\ KnowsTokens(n)'
    <2>1. TokensFiled(q)
        BY <1>4, Undisturbed DEF Turn, Agreed
    <2>2. TokensFiled(n)'
        BY <1>1, <2>1 DEF TokensFiled, Renewing, Plain, HasToken
    <2>3. KnowsTokens(n)'
        BY <1>1, <1>4 DEF KnowsTokens
    <2> QED BY <2>2, <2>3
<1> QED BY <1>2, <1>3, <1>4, BecomesAgreed

\* a request of which nothing is known yet but that its user exists
Light(n) ==
    /\ n.pc \in {"idle", "auth", "target", "globus", "unFind"}
    /\ n.pc # "idle" /\ n.op \in OnUser => Known(n.u)

LEMMA LightKnows ==
    ASSUME NEW n, Light(n)
    PROVE  Plain(n) /\ Knows(n) /\ KnowsTokens(n)
BY DEF Light, Plain, Knows, KnowsTokens, Filling

LEMMA IdleLight == Light(Idle)
BY DEF Light, Idle

LEMMA AuthorizedPlace ==
    ASSUME NEW q \in Request, NEW id, NEW admin, NEW n, n = Authorized(q, id, admin), n # Idle
    PROVE  n.op = q.op /\ n.u = q.u /\ n.pc \in {"globus", "unFind", "target"}
<1>1. PICK g : g = [q EXCEPT !.tok = Portal, !.load = Nobody,
                             !.boss = admin /\ q.op \in {"create", "update"}]
    OBVIOUS
<1>2. g.op = q.op /\ g.u = q.u
    BY <1>1 DEF Request
<1>3. \/ n = [g EXCEPT !.pc = "globus", !.ret = "unique"]
      \/ n = [g EXCEPT !.pc = "unFind"]
      \/ n = [g EXCEPT !.pc = "target", !.ret = "act"]
    BY <1>1 DEF Authorized
<1>4. g = [x \in DOMAIN g |-> g[x]] /\ {"pc", "op", "u"} \subseteq DOMAIN g
    BY <1>1 DEF Request
<1> QED BY <1>2, <1>3, <1>4

LEMMA AuthorizedLight ==
    ASSUME NEW q \in Request, q.op \in OnUser => Known(q.u), NEW id, NEW admin
    PROVE  Light(Authorized(q, id, admin))
<1>1. PICK n : n = Authorized(q, id, admin)
    OBVIOUS
<1> QED BY <1>1, AuthorizedPlace, IdleLight DEF Light

LEMMA LightAgreed ==
    ASSUME NEW r, NEW q, NEW n, Turn(r, q), Step(r, n),
           UNCHANGED <<table, caches, history>>, Fault \/ UNCHANGED faults,
           Plain(q), Light(n)
    PROVE  Agreed(req[r])'
<1>1. Plain(n) /\ Knows(n) /\ KnowsTokens(n)
    BY LightKnows
<1>2. req'[r] = n
    BY Stepped DEF Turn
<1> QED BY <1>1, <1>2, QuietAgreed

LEMMA BeginAgreed ==
    ASSUME NEW r, NEW q, Turn(r, q), NEW op \in Ops, NEW tok \in Tokens \cup {Portal},
           NEW u \in MaybeUser, NEW g \in GlobusIDs \cup {Nobody},
           NEW flag \in {"keep", "grant", "drop"}, op \in OnUser => u \in Users \ FreshUsers,
           Begin(r, op, tok, u, g, flag)
    PROVE  Agreed(req[r])'
<1>1. PICK b : b = [Idle EXCEPT !.op = op, !.pc = "auth", !.tok = tok, !.u = u,
                                !.g = g, !.flag = flag]
    OBVIOUS
<1>2. b \in Request
    BY <1>1, UserAssumption DEF Idle, Request, PCs
<1>3. b.pc = "auth" /\ b.op = op /\ b.u = u
    BY <1>1 DEF Idle
<1>4. op \in OnUser => Known(u)
    BY DEF FreshUsers, Known
<1>5. Plain(q) /\ Idle.pc = "idle"
    BY DEF Begin, Turn, Plain, Idle
<1>6. PICK n : n = IF tok = Portal THEN Authorized(b, Nobody, TRUE) ELSE b
    OBVIOUS
<1>7. Light(n)
    BY <1>2, <1>3, <1>4, <1>6, AuthorizedLight DEF Light
<1>8. Step(r, n) /\ UNCHANGED <<table, caches, history, faults>>
    BY <1>1, <1>6 DEF Begin
<1> QED BY <1>5, <1>7, <1>8, LightAgreed

LEMMA StartAgreed ==
    ASSUME NEW r, NEW q, Turn(r, q), Start(r)
    PROVE  Agreed(req[r])'
<1>1. PICK tok \in {Portal} \cup {t \in Tokens : issued[t] # Nobody} :
        \/ authenticateUser(r, tok)
        \/ \E g \in GlobusIDs :
            \/ findUser(r, tok, g)
            \/ \E flag \in {"grant", "drop"} : createUser(r, tok, g, flag)
        \/ \E u \in Users \ FreshUsers :
            \/ getUserInfo(r, tok, u)
            \/ \E flag \in {"keep", "grant", "drop"} : updateUser(r, tok, u, flag)
            \/ replaceUserToken(r, tok, u)
            \/ deleteUser(r, tok, u)
    BY DEF Start
<1>2. CASE authenticateUser(r, tok)
    BY <1>2, BeginAgreed DEF authenticateUser, Ops, OnUser
<1>3. ASSUME NEW g \in GlobusIDs, findUser(r, tok, g) PROVE Agreed(req[r])'
    BY <1>3, BeginAgreed DEF findUser, Ops, OnUser
<1>4. ASSUME NEW g \in GlobusIDs, NEW flag \in {"grant", "drop"},
             createUser(r, tok, g, flag)
      PROVE  Agreed(req[r])'
    BY <1>4, BeginAgreed DEF createUser, Ops, OnUser
<1>5. ASSUME NEW u \in Users \ FreshUsers, NEW flag \in {"keep", "grant", "drop"},
             updateUser(r, tok, u, flag)
      PROVE  Agreed(req[r])'
    BY <1>5, BeginAgreed DEF updateUser, Ops, OnUser
<1>6. ASSUME NEW u \in Users \ FreshUsers,
             getUserInfo(r, tok, u) \/ replaceUserToken(r, tok, u) \/ deleteUser(r, tok, u)
      PROVE  Agreed(req[r])'
    BY <1>6, BeginAgreed DEF getUserInfo, replaceUserToken, deleteUser, Ops, OnUser
<1> QED BY <1>1, <1>2, <1>3, <1>4, <1>5, <1>6

\* A request that has got hold of the user's record as the table has it goes on
\* with that knowledge.
LEMMA ActKnows ==
    ASSUME NEW q \in Request, NEW rec, q.op \in OnUser, Known(q.u),
           table[rec.id] # Nobody, table[rec.id].globus = rec.globus,
           NEW n, n = Act(q, rec)
    PROVE  /\ Plain(n) /\ Knows(n) /\ n.pc \in {"idle", "unFind", "put"}
           /\ table[rec.id].token = rec.token => KnowsTokens(n)
<1>1. \/ n = Idle
      \/ n = [q EXCEPT !.pc = "unFind", !.load = Nobody]
      \/ q.op # "create" /\ n = [q EXCEPT !.pc = "put", !.view = rec, !.load = Nobody]
    BY DEF Act, OnUser
<1>2. CASE n = Idle
    BY <1>2, IdleLight, LightKnows DEF Idle
<1>3. CASE n = [q EXCEPT !.pc = "unFind", !.load = Nobody]
    <2>1. n.pc = "unFind" /\ n.u = q.u
        BY <1>3 DEF Request
    <2> QED BY <2>1, LightKnows DEF Light
<1>4. CASE q.op # "create" /\ n = [q EXCEPT !.pc = "put", !.view = rec, !.load = Nobody]
    <2>1. n.pc = "put" /\ n.u = q.u /\ n.op = q.op /\ n.view = rec
        BY <1>4 DEF Request
    <2> QED BY <1>4, <2>1 DEF Plain, Knows, KnowsTokens, Filling
<1> QED BY <1>1, <1>2, <1>3, <1>4

\* A lookup by token, ID or Globus ID that misses: the item is read.
LEMMA FetchAgreed ==
    ASSUME NEW r, NEW q, Turn(r, q), q.pc \in {"auth", "target", "globus"},
           NEW e, NEW matches \in SUBSET Stored, fetch(r, e, matches),
           q.pc = "globus" => matches = {rec \in Stored : rec.globus = q.g}
    PROVE  Agreed(req[r])'
<1>1. UNCHANGED <<table, caches, history>> /\ Plain(q)
    BY DEF fetch, Plain
<1>2. q.ret # "done" /\ (q.ret = "unique" => q.pc = "globus")
    BY DEF Turn, Good, Control
<1>3. q \in Request /\ (q.op \in OnUser => Known(q.u))
    BY DEF Turn, Good, Agreed, Knows
<1>4. CASE Step(r, Absent(q)) /\ ((matches = {} /\ UNCHANGED faults) \/ Fault)
    <2>1. PICK n : n = Absent(q)
        OBVIOUS
    <2>2. CASE q.op = "create" /\ q.ret = "unique"
        <3>1. n = [q EXCEPT !.pc = "put"]
            BY <2>1, <2>2 DEF Absent
        <3>2. n.pc = "put" /\ n.op = "create" /\ n.g = q.g
            BY <1>3, <2>2, <3>1 DEF Request
        <3>3. Plain(n) /\ Knows(n)
            BY <3>2 DEF Plain, Knows, OnUser, Filling
        <3>4. faults' = 0 => matches = {}
            BY <1>4, Undisturbed DEF Turn
        <3>5. matches = {} => \A u \in Users : table[u] # Nobody => table[u].globus # q.g
            BY <1>2, <2>2 DEF Stored
        <3>6. faults' = 0 => KnowsTokens(n)
            BY <3>2, <3>4, <3>5 DEF KnowsTokens, Filling
        <3>7. req'[r] = n
            BY <1>4, <2>1, Stepped DEF Turn
        <3> QED BY <1>1, <1>4, <3>3, <3>6, <3>7, QuietAgreed
    <2>3. CASE ~(q.op = "create" /\ q.ret = "unique")
        BY <1>1, <1>4, <2>3, IdleLight, LightAgreed DEF Absent
    <2> QED BY <2>2, <2>3
<1>5. CASE Step(r, Idle) /\ UNCHANGED faults
    BY <1>1, <1>5, IdleLight, LightAgreed
<1>6. ASSUME NEW rec \in matches, UNCHANGED faults,
             Step(r, [q EXCEPT !.pc = "fillID", !.load = rec])
      PROVE  Agreed(req[r])'
    <2>1. PICK n : n = [q EXCEPT !.pc = "fillID", !.load = rec]
        OBVIOUS
    <2>2. n.pc = "fillID" /\ n.load = rec /\ n.op = q.op /\ n.u = q.u /\ n.ret = q.ret
        BY <1>3, <2>1 DEF Request
    <2>3. table[rec.id] = rec /\ rec # Nobody
        BY DEF Stored, Turn, IInv, Placed
    <2>4. Plain(n) /\ Knows(n) /\ KnowsTokens(n)
        BY <1>2, <1>3, <2>2, <2>3 DEF Plain, Knows, KnowsTokens, Filling
    <2>5. req'[r] = n
        BY <1>6, <2>1, Stepped DEF Turn
    <2> QED BY <1>1, <1>6, <2>4, <2>5, QuietAgreed
<1> QED BY <1>4, <1>5, <1>6 DEF fetch, Turn

LEMMA FindAgreed ==
    ASSUME NEW r, NEW q, Turn(r, q),
           findUserByToken(r) \/ getUser(r) \/ findUserByGlobusID(r)
    PROVE  Agreed(req[r])'
<1>1. q \in Request /\ Control(q) /\ q = req[r] /\ Stored \subseteq Stored
    BY DEF Turn, Good
<1>2. CASE findUserByToken(r)
    <2>1. q.pc = "auth" /\ q.ret = "authorize" /\ Plain(q)
        BY <1>1, <1>2 DEF findUserByToken, Control, Plain
    <2>2. CASE findCached(r, byToken[q.tok])
        <3>1. PICK rec : rec = byToken[q.tok].rec
            OBVIOUS
        <3>2. PICK n : n = Authorized(q, rec.id, rec.admin)
            OBVIOUS
        <3>3. Step(r, n) /\ UNCHANGED <<table, caches, history, faults>>
            BY <1>1, <2>1, <2>2, <3>1, <3>2 DEF findCached, Resume
        <3>4. Light(n)
            BY <1>1, <2>1, <3>2, AuthorizedLight DEF Turn, Agreed, Knows
        <3> QED BY <2>1, <3>3, <3>4, LightAgreed
    <2>3. CASE fetch(r, byToken[q.tok], {rec \in Stored : rec.token = q.tok})
        BY <2>1, <2>3, FetchAgreed
    <2> QED BY <1>1, <1>2, <2>2, <2>3 DEF findUserByToken, lookup
<1>3. CASE getUser(r)
    <2>1. q.pc = "target" /\ q.ret = "act" /\ Plain(q) /\ q.op \in OnUser /\ q.u \in Users
        BY <1>1, <1>3 DEF getUser, Control, Operands, Plain
    <2>2. CASE findCached(r, byID[q.u])
        <3>1. PICK rec : rec = byID[q.u].rec
            OBVIOUS
        <3>2. PICK n : n = Act(q, rec)
            OBVIOUS
        <3>3. Step(r, n) /\ UNCHANGED <<table, caches, history, faults>>
            BY <1>1, <2>1, <2>2, <3>1, <3>2 DEF findCached, Resume
        <3>4. rec # Nobody
            BY <2>1, <2>2, <3>1 DEF findCached, CacheHit, Turn, IInv, AllGenuine, Sound
        <3>5. rec.id = q.u /\ table[q.u] # Nobody /\ table[q.u].globus = rec.globus
            BY <2>1, <3>1, <3>4 DEF Turn, Agreed, Filed
        <3>6. faults = 0 => table[q.u].token = rec.token
            BY <2>1, <3>1, <3>4 DEF Turn, Agreed, TokensFiled, Renewing
        <3>7. Known(q.u)
            BY <2>1 DEF Turn, Agreed, Knows
        <3>8. Plain(n) /\ Knows(n) /\ (faults = 0 => KnowsTokens(n))
            BY <1>1, <2>1, <3>2, <3>5, <3>6, <3>7, ActKnows
        <3>9. req'[r] = n
            BY <3>3, Stepped DEF Turn
        <3> QED BY <2>1, <3>3, <3>8, <3>9, QuietAgreed
    <2>3. CASE fetch(r, byID[q.u], {rec \in Stored : rec.id = q.u})
        BY <2>1, <2>3, FetchAgreed
    <2> QED BY <1>1, <1>3, <2>2, <2>3 DEF getUser, lookup
<1>4. CASE findUserByGlobusID(r)
    <2>1. q.pc = "globus" /\ q.ret = "unique" /\ Plain(q)
        BY <1>1, <1>4 DEF findUserByGlobusID, Control, Plain
    <2>2. CASE findCached(r, byGlobus[q.g])
        <3>1. Step(r, Idle) /\ UNCHANGED <<table, caches, history, faults>>
            BY <1>1, <2>1, <2>2 DEF findCached, Resume, Registered
        <3> QED BY <2>1, <3>1, IdleLight, LightAgreed
    <2>3. CASE fetch(r, byGlobus[q.g], {rec \in Stored : rec.globus = q.g})
        BY <2>1, <2>3, FetchAgreed
    <2> QED BY <1>1, <1>4, <2>2, <2>3 DEF findUserByGlobusID, lookup
<1> QED BY <1>2, <1>3, <1>4

(***************************************************************************)
(* Steps that change a cache                                               *)
(***************************************************************************)
\* what moving on to another step of the handler leaves of the request
LEMMA Moved ==
    ASSUME NEW q \in Request, NEW pc, NEW n, n = [q EXCEPT !.pc = pc]
    PROVE  /\ n.pc = pc /\ n.op = q.op /\ n.u = q.u /\ n.ret = q.ret
           /\ n.view = q.view /\ n.load = q.load
BY DEF Request

\* who has the record in hand that a request caches
LEMMA LoadTyped ==
    ASSUME NEW r, NEW q, Turn(r, q), q.pc \in Filling
    PROVE  /\ q.load # Nobody /\ q.load.id \in Users
           /\ q.load.token \in Tokens /\ q.load.globus \in GlobusIDs
           /\ Cached(q.load).rec = q.load
BY DEF Turn, Good, Control, Request, UserRec, Cached

LEMMA CacheByIDAgreed ==
    ASSUME NEW r, NEW q, Turn(r, q), cacheByID(r)
    PROVE  Agreed(req[r])'
<1>1. q \in Request /\ q = req[r] /\ q.pc = "fillID" /\ q.pc \in Filling
    BY DEF Turn, Good, cacheByID, Filling
<1>2. PICK l : l = q.load
    OBVIOUS
<1>3. PICK n : n = [q EXCEPT !.pc = IF q.ret = "done" /\ q.op = "replace" THEN "dropToken"
                                    ELSE "fillToken"]
    OBVIOUS
<1>4. /\ n.pc = IF q.ret = "done" /\ q.op = "replace" THEN "dropToken" ELSE "fillToken"
      /\ n.op = q.op /\ n.u = q.u /\ n.ret = q.ret /\ n.view = q.view /\ n.load = l
    BY <1>1, <1>2, <1>3, Moved
<1>5. /\ Step(r, n) /\ byID' = [byID EXCEPT ![l.id] = Cached(l)]
      /\ table' = table /\ byToken' = byToken /\ byGlobus' = byGlobus /\ issued' = issued
      /\ revoked' = revoked /\ gone' = gone /\ faults' = faults
    BY <1>1, <1>2, <1>3 DEF cacheByID, Goto, history
<1>6. l # Nobody /\ l.id \in Users /\ Cached(l).rec = l
    BY <1>1, <1>2, LoadTyped
<1>7. \A u \in Users : byID'[u].rec = IF u = l.id THEN l ELSE byID[u].rec
    BY <1>5, <1>6 DEF Turn, IInv, TypeOK
<1>8. table[l.id] # Nobody /\ table[l.id].globus = l.globus
    BY <1>1, <1>2 DEF Turn, Agreed, Knows
<1>9. \A g \in GlobusIDs : byGlobus[g].rec # Nobody => byGlobus[g].rec.id \in Users
    BY DEF Turn, IInv, TypeOK, Entry, UserRec
<1>10. Filed'
    <2>1. \A u \in Users : byID'[u].rec # Nobody =>
            byID'[u].rec.id = u /\ table[u] # Nobody /\ table[u].globus = byID'[u].rec.globus
        BY <1>7, <1>8 DEF Turn, Agreed, Filed
    <2>2. \A g \in GlobusIDs : byGlobus[g].rec # Nobody =>
            /\ byGlobus[g].rec.globus = g
            /\ byID'[byGlobus[g].rec.id].rec # Nobody
            /\ byID'[byGlobus[g].rec.id].rec.globus = g
        BY <1>6, <1>7, <1>8, <1>9 DEF Turn, Agreed, Filed
    <2>3. \A u \in gone : table[u] = Nobody /\ Known(u)
        BY DEF Turn, Agreed, Filed
    <2> QED BY <1>5, <2>1, <2>2, <2>3 DEF Filed, Known
<1>11. Knows(n)'
    <2>1. n.op \in OnUser => Known(n.u)'
        BY <1>1, <1>4, <1>5 DEF Turn, Agreed, Knows, Known
    <2> QED BY <1>4, <1>5, <1>6, <1>7, <1>8, <2>1 DEF Knows, Filling
<1>12. ASSUME faults' = 0 PROVE TokensFiled(n)' /\ KnowsTokens(n)'
    <2>1. TokensFiled(q) /\ KnowsTokens(q)
        BY <1>5, <1>12 DEF Turn, Agreed
    <2>2. table[l.id].token = l.token
        BY <1>1, <1>2, <2>1 DEF KnowsTokens
    <2>3. \A u \in Users : byID'[u].rec # Nobody => byID'[u].rec.token = table[u].token
        BY <1>2, <1>7, <2>1, <2>2 DEF TokensFiled, Renewing
    <2>4. \A t \in Tokens : byToken[t].rec # Nobody => byToken[t].rec.id \in Users
        BY DEF Turn, IInv, TypeOK, Entry, UserRec
    <2>5. ASSUME NEW t \in Tokens, byToken[t].rec # Nobody
          PROVE  /\ byID'[byToken[t].rec.id].rec # Nobody
                 /\ \/ byID'[byToken[t].rec.id].rec.token = t
                    \/ n.pc = "dropToken" /\ n.view.token = t
        <3>1. PICK u \in Users : u = byToken[t].rec.id
            BY <2>4, <2>5
        <3>2. byID[u].rec # Nobody /\ byID[u].rec.token = t
            BY <1>1, <2>1, <2>5, <3>1 DEF TokensFiled
        <3>3. CASE u # l.id
            BY <1>7, <3>1, <3>2, <3>3
        <3>4. CASE u = l.id
            <4>1. t = IF q.op = "replace" /\ q.ret = "done" THEN q.view.token ELSE l.token
                BY <1>1, <1>2, <2>1, <2>2, <3>2, <3>4 DEF TokensFiled, Renewing
            <4> QED BY <1>4, <1>6, <1>7, <3>1, <3>4, <4>1
        <3> QED BY <3>3, <3>4
    <2>6. TokensFiled(n)'
        <3>1. /\ \A t \in revoked :
                 byToken[t].rec = Nobody /\ issued[t] # Nobody /\ \A u \in Users : ~HasToken(u, t)
              /\ \A u, v \in Users : table[u] # Nobody /\ table[v] # Nobody
                                     /\ table[u].globus = table[v].globus => u = v
            BY <2>1 DEF TokensFiled
        <3>2. n.pc # "fillID"
            BY <1>4
        <3> QED BY <1>5, <2>3, <2>5, <3>1, <3>2 DEF TokensFiled, Renewing, HasToken
    <2>7. KnowsTokens(n)'
        BY <1>1, <1>2, <1>4, <1>5, <2>1 DEF KnowsTokens, Filling
    <2> QED BY <2>6, <2>7
<1>13. req'[r] = n
    BY <1>5, Stepped DEF Turn
<1> QED BY <1>10, <1>11, <1>12, <1>13, BecomesAgreed

\* Changing userByTokenCache only leaves the rest of what is filed alone.
LEMMA TokenCacheStep ==
    ASSUME NEW r, NEW q, Turn(r, q), UNCHANGED <<table, byID, byGlobus, history>>
    PROVE  /\ Filed'
           /\ table' = table /\ byID' = byID /\ byGlobus' = byGlobus
           /\ issued' = issued /\ revoked' = revoked
           /\ \A u : Known(u) => Known(u)'
BY DEF Turn, Agreed, Filed, Known, history

LEMMA DropOldTokenAgreed ==
    ASSUME NEW r, NEW q, Turn(r, q), dropOldToken(r)
    PROVE  Agreed(req[r])'
<1>1. q \in Request /\ q = req[r] /\ q.pc = "dropToken" /\ q.pc \in Filling
    BY DEF Turn, Good, dropOldToken, Filling
<1>2. PICK n : n = [q EXCEPT !.pc = "fillToken"]
    OBVIOUS
<1>3. /\ n.pc = "fillToken" /\ n.op = q.op /\ n.u = q.u /\ n.ret = q.ret
      /\ n.view = q.view /\ n.load = q.load
    BY <1>1, <1>2, Moved
<1>4. /\ Step(r, n) /\ byToken' = [byToken EXCEPT ![q.view.token] = NoEntry]
      /\ UNCHANGED <<table, byID, byGlobus, history, faults>>
    BY <1>1, <1>2 DEF dropOldToken, Goto
<1>5. /\ Filed'
      /\ table' = table /\ byID' = byID /\ byGlobus' = byGlobus
      /\ issued' = issued /\ revoked' = revoked /\ faults' = faults
      /\ \A u : Known(u) => Known(u)'
    BY <1>4, TokenCacheStep
<1>6. \A t \in Tokens : byToken'[t].rec = IF t = q.view.token THEN Nobody ELSE byToken[t].rec
    BY <1>4, NoEntrySound DEF Turn, IInv, TypeOK
<1>7. Knows(n)'
    BY <1>1, <1>3, <1>5 DEF Turn, Agreed, Knows, Filling
<1>8. ASSUME faults' = 0 PROVE TokensFiled(n)' /\ KnowsTokens(n)'
    <2>1. TokensFiled(q) /\ KnowsTokens(q)
        BY <1>5, <1>8 DEF Turn, Agreed
    <2>2. TokensFiled(n)'
        <3>1. \A t \in Tokens : byToken'[t].rec # Nobody =>
                /\ byID[byToken'[t].rec.id].rec # Nobody
                /\ byID[byToken'[t].rec.id].rec.token = t
            BY <1>6, <2>1 DEF TokensFiled
        <3>2. \A t \in revoked : byToken'[t].rec = Nobody
            BY <1>6, <2>1 DEF TokensFiled, Turn, IInv, TypeOK
        <3> QED BY <1>1, <1>3, <1>5, <2>1, <3>1, <3>2 DEF TokensFiled, Renewing, HasToken
    <2>3. q.view.token \in Tokens
        BY <1>1 DEF Turn, Good, Control, Request, UserRec
    <2>4. KnowsTokens(n)'
        BY <1>1, <1>3, <1>5, <1>6, <2>1, <2>3 DEF KnowsTokens, Filling
    <2> QED BY <2>2, <2>4
<1>9. req'[r] = n
    BY <1>4, Stepped DEF Turn
<1> QED BY <1>5, <1>7, <1>8, <1>9, BecomesAgreed

LEMMA CacheByTokenAgreed ==
    ASSUME NEW r, NEW q, Turn(r, q), cacheByToken(r)
    PROVE  Agreed(req[r])'
<1>1. q \in Request /\ q = req[r] /\ q.pc = "fillToken" /\ q.pc \in Filling
    BY DEF Turn, Good, cacheByToken, Filling
<1>2. PICK l : l = q.load
    OBVIOUS
<1>3. PICK n : n = [q EXCEPT !.pc = "fillGlobus"]
    OBVIOUS
<1>4. /\ n.pc = "fillGlobus" /\ n.op = q.op /\ n.u = q.u /\ n.ret = q.ret
      /\ n.view = q.view /\ n.load = l
    BY <1>1, <1>2, <1>3, Moved
<1>5. /\ Step(r, n) /\ byToken' = [byToken EXCEPT ![l.token] = Cached(l)]
      /\ UNCHANGED <<table, byID, byGlobus, history, faults>>
    BY <1>1, <1>2, <1>3 DEF cacheByToken, Goto
<1>6. /\ Filed'
      /\ table' = table /\ byID' = byID /\ byGlobus' = byGlobus
      /\ issued' = issued /\ revoked' = revoked /\ faults' = faults
      /\ \A u : Known(u) => Known(u)'
    BY <1>5, TokenCacheStep
<1>7. l # Nobody /\ l.id \in Users /\ l.token \in Tokens /\ Cached(l).rec = l
    BY <1>1, <1>2, LoadTyped
<1>8. \A t \in Tokens : byToken'[t].rec = IF t = l.token THEN l ELSE byToken[t].rec
    BY <1>5, <1>7 DEF Turn, IInv, TypeOK
<1>9. byID[l.id].rec = l /\ table[l.id] # Nobody /\ table[l.id].globus = l.globus
    BY <1>1, <1>2 DEF Turn, Agreed, Knows, Filling
<1>10. Knows(n)'
    <2>1. n.op \in OnUser => Known(n.u)
        BY <1>1, <1>4 DEF Turn, Agreed, Knows
    <2> QED BY <1>4, <1>6, <1>9, <2>1 DEF Knows, Filling
<1>11. ASSUME faults' = 0 PROVE TokensFiled(n)' /\ KnowsTokens(n)'
    <2>1. TokensFiled(q) /\ KnowsTokens(q)
        BY <1>6, <1>11 DEF Turn, Agreed
    <2>2. table[l.id].token = l.token
        BY <1>1, <1>2, <2>1 DEF KnowsTokens
    <2>3. l.token \notin revoked
        BY <1>7, <1>9, <2>1, <2>2 DEF TokensFiled, HasToken
    <2>4. TokensFiled(n)'
        <3>1. \A t \in Tokens : byToken'[t].rec # Nobody =>
                /\ byID[byToken'[t].rec.id].rec # Nobody
                /\ byID[byToken'[t].rec.id].rec.token = t
            BY <1>1, <1>7, <1>8, <1>9, <2>1 DEF TokensFiled
        <3>2. \A t \in revoked : byToken'[t].rec = Nobody
            BY <1>8, <2>1, <2>3 DEF TokensFiled, Turn, IInv, TypeOK
        <3> QED BY <1>1, <1>4, <1>6, <2>1, <3>1, <3>2 DEF TokensFiled, Renewing, HasToken
    <2>5. q.op = "replace" /\ q.ret = "done" => byToken'[q.view.token].rec = Nobody
        <3> SUFFICES ASSUME q.op = "replace", q.ret = "done"
                     PROVE  byToken'[q.view.token].rec = Nobody
            OBVIOUS
        <3>1. q.view.token \in Tokens
            BY <1>1 DEF Turn, Good, Control, Request, UserRec
        <3> QED BY <1>1, <1>2, <1>8, <2>1, <3>1 DEF KnowsTokens
    <2>6. KnowsTokens(n)'
        BY <1>1, <1>2, <1>4, <1>6, <2>1, <2>5 DEF KnowsTokens, Filling
    <2> QED BY <2>4, <2>6
<1>12. req'[r] = n
    BY <1>5, Stepped DEF Turn
<1> QED BY <1>6, <1>10, <1>11, <1>12, BecomesAgreed

\* The last step of a lookup, or of a write: a replaced token is withdrawn.
LEMMA CacheByGlobusIDAgreed ==
    ASSUME NEW r, NEW q, Turn(r, q), cacheByGlobusID(r)
    PROVE  Agreed(req[r])'
<1>1. q \in Request /\ q = req[r] /\ q.pc = "fillGlobus" /\ q.pc \in Filling
    BY DEF Turn, Good, cacheByGlobusID, Filling
<1>2. PICK l : l = q.load
    OBVIOUS
<1>3. PICK n : n = Resume(q, l)
    OBVIOUS
<1>4. /\ Step(r, n) /\ byGlobus' = [byGlobus EXCEPT ![l.globus] = Cached(l)]
      /\ revoked' = IF q.ret = "done" /\ q.op = "replace"
                    THEN revoked \cup {q.view.token} ELSE revoked
      /\ table' = table /\ byID' = byID /\ byToken' = byToken /\ issued' = issued
      /\ gone' = gone /\ faults' = faults
    BY <1>1, <1>2, <1>3 DEF cacheByGlobusID
<1>5. l # Nobody /\ l.id \in Users /\ l.globus \in GlobusIDs /\ Cached(l).rec = l
    BY <1>1, <1>2, LoadTyped
<1>6. \A g \in GlobusIDs : byGlobus'[g].rec = IF g = l.globus THEN l ELSE byGlobus[g].rec
    BY <1>4, <1>5 DEF Turn, IInv, TypeOK
<1>7. byID[l.id].rec = l /\ table[l.id] # Nobody /\ table[l.id].globus = l.globus
    BY <1>1, <1>2 DEF Turn, Agreed, Knows, Filling
<1>8. Filed'
    <2>1. \A g \in GlobusIDs : byGlobus'[g].rec # Nobody =>
            /\ byGlobus'[g].rec.globus = g
            /\ byID[byGlobus'[g].rec.id].rec # Nobody
            /\ byID[byGlobus'[g].rec.id].rec.globus = g
        BY <1>5, <1>6, <1>7 DEF Turn, Agreed, Filed
    <2>2. /\ \A u \in Users : byID[u].rec # Nobody =>
               byID[u].rec.id = u /\ table[u] # Nobody /\ table[u].globus = byID[u].rec.globus
          /\ \A u \in gone : table[u] = Nobody /\ Known(u)
        BY DEF Turn, Agreed, Filed
    <2> QED BY <1>4, <2>1, <2>2 DEF Filed, Known
<1>9. /\ Plain(n) /\ Knows(n) /\ n.pc \in {"idle", "target", "globus", "unFind", "put"}
      /\ faults = 0 => KnowsTokens(n)
      /\ q.ret = "done" => n = Idle
    <2>1. q.op \in OnUser => Known(q.u)
        BY <1>1 DEF Turn, Agreed, Knows
    <2>2. CASE q.ret = "authorize"
        <3>1. n = Authorized(q, l.id, l.admin)
            BY <1>3, <2>2 DEF Resume
        <3>2. Light(n)
            BY <1>1, <2>1, <3>1, AuthorizedLight
        <3>3. n.pc # "auth"
            BY <1>1, <3>1, AuthorizedPlace DEF Idle
        <3> QED BY <2>2, <3>2, <3>3, LightKnows DEF Light
    <2>3. CASE q.ret = "act"
        <3>1. n = Act(q, l) /\ q.op \in OnUser
            BY <1>3, <2>3 DEF Resume, Turn, Good, Control
        <3>2. faults = 0 => table[l.id].token = l.token
            BY <1>1, <1>2 DEF Turn, Agreed, KnowsTokens
        <3> QED BY <1>1, <1>7, <2>1, <2>3, <3>1, <3>2, ActKnows
    <2>4. CASE q.ret \notin {"authorize", "act"}
        <3>1. n = Idle
            BY <1>3, <2>4 DEF Resume, Registered
        <3> QED BY <3>1, IdleLight, LightKnows DEF Idle
    <2> QED BY <2>2, <2>3, <2>4
<1>10. Knows(n)'
    BY <1>4, <1>9 DEF Knows, Known, Filling
<1>11. ASSUME faults' = 0 PROVE TokensFiled(n)' /\ KnowsTokens(n)'
    <2>1. TokensFiled(q) /\ KnowsTokens(q) /\ KnowsTokens(n)
        BY <1>4, <1>9, <1>11 DEF Turn, Agreed
    <2>2. ASSUME NEW t \in revoked'
          PROVE  byToken[t].rec = Nobody /\ issued[t] # Nobody /\ \A u \in Users : ~HasToken(u, t)
        <3>1. CASE t \in revoked
            BY <2>1, <3>1 DEF TokensFiled
        <3>2. CASE q.ret = "done" /\ q.op = "replace" /\ t = q.view.token
            <4>1. /\ byToken[t].rec = Nobody /\ q.view.id = l.id
                  /\ t # l.token /\ table[l.id].token = l.token
                BY <1>1, <1>2, <2>1, <3>2 DEF KnowsTokens
            <4>2. q.view # Nobody /\ issued[t] = q.view.id
                BY <3>2 DEF Turn, Good, Control, Genuine
            <4>3. issued[t] = l.id /\ issued[t] # Nobody
                BY <1>5, <4>1, <4>2, UserAssumption
            <4>4. \A u \in Users : HasToken(u, t) => u = l.id
                BY <4>3 DEF Turn, IInv, AllGenuine, Placed, Genuine, HasToken
            <4> QED BY <4>1, <4>3, <4>4 DEF HasToken
        <3> QED BY <1>4, <3>1, <3>2
    <2>3. TokensFiled(n)'
        <3>1. \A u \in Users : byID[u].rec # Nobody => byID[u].rec.token = table[u].token
            BY <1>1, <2>1 DEF TokensFiled, Renewing
        <3>2. \A t \in Tokens : byToken[t].rec # Nobody =>
                byID[byToken[t].rec.id].rec # Nobody /\ byID[byToken[t].rec.id].rec.token = t
            BY <1>1, <2>1 DEF TokensFiled
        <3>3. \A u, v \in Users : table[u] # Nobody /\ table[v] # Nobody
                                  /\ table[u].globus = table[v].globus => u = v
            BY <2>1 DEF TokensFiled
        <3> QED BY <1>4, <1>9, <2>2, <3>1, <3>2, <3>3 DEF TokensFiled, Renewing, HasToken
    <2>4. KnowsTokens(n)'
        BY <1>4, <1>9, <2>1 DEF KnowsTokens, Filling
    <2> QED BY <2>3, <2>4
<1>12. req'[r] = n
    BY <1>4, Stepped DEF Turn
<1> QED BY <1>8, <1>10, <1>11, <1>12, BecomesAgreed

(***************************************************************************)
(* Steps that change the table                                             *)
(***************************************************************************)
\* The record that addUser or updateUser writes: a new user with a new token, or
\* the user at hand with the Globus ID the user has had, and with the same token
\* unless it is replaced by a new one.
New(q, rec) ==
    /\ q.op = "create" /\ rec.globus = q.g
    /\ ~Known(rec.id) /\ issued[rec.token] = Nobody
Changed(q, rec) ==
    /\ q.op # "create" /\ rec.id = q.view.id /\ rec.globus = q.view.globus
    /\ \/ q.op # "replace" /\ rec.token = q.view.token
       \/ q.op = "replace" /\ issued[rec.token] = Nobody

LEMMA WrittenRecord ==
    ASSUME NEW r, NEW q, Turn(r, q), q.pc = "put", NEW rec \in Written(q)
    PROVE  /\ rec # Nobody /\ rec.id \in Users /\ rec.token \in Tokens
           /\ New(q, rec) \/ Changed(q, rec)
<1>1. /\ q \in Request /\ q.op \in {"create", "update", "replace"}
      /\ q.op # "create" => q.view \in UserRec
    BY DEF Turn, Good, Control, Request
<1>2. q.op = "create" => q.g \in GlobusIDs
    BY DEF Turn, Good, Control, Operands
<1>3. CASE q.op = "create"
    <2>1. PICK u \in FreshUsers, t \in FreshTokens :
            rec = [id |-> u, token |-> t, globus |-> q.g, admin |-> q.flag = "grant"]
        BY <1>3 DEF Written
    <2>2. u \in Users /\ ~Known(u) /\ t \in Tokens /\ issued[t] = Nobody
        BY DEF FreshUsers, FreshTokens, Known
    <2>3. rec \in UserRec
        BY <1>2, <1>3, <2>1, <2>2 DEF UserRec
    <2>4. rec.id = u /\ rec.token = t /\ rec.globus = q.g
        BY <2>1
    <2> QED BY <1>3, <2>2, <2>3, <2>4, UserAssumption DEF New
<1>4. CASE q.op = "replace"
    <2>1. PICK t \in FreshTokens : rec = [q.view EXCEPT !.token = t]
        BY <1>4 DEF Written
    <2>2. t \in Tokens /\ issued[t] = Nobody
        BY DEF FreshTokens
    <2>3. /\ rec \in UserRec /\ rec.token = t /\ rec.id = q.view.id
          /\ rec.globus = q.view.globus /\ rec.id \in Users
        BY <1>1, <1>4, <2>1, <2>2 DEF UserRec
    <2> QED BY <1>4, <2>2, <2>3, UserAssumption DEF Changed
<1>5. CASE q.op = "update"
    <2>1. rec = WithFlag(q.view, q.flag) /\ q.view \in UserRec
        BY <1>1, <1>5 DEF Written
    <2>2. PICK a : a = IF q.flag = "keep" THEN q.view.admin ELSE q.flag = "grant"
        OBVIOUS
    <2>3. a \in BOOLEAN
        <3>1. (q.flag = "grant") \in BOOLEAN
            OBVIOUS
        <3> QED BY <2>1, <2>2, <3>1 DEF UserRec
    <2>4. rec = [q.view EXCEPT !.admin = a]
        BY <2>1, <2>2 DEF WithFlag
    <2>5. /\ rec \in UserRec /\ rec.token = q.view.token /\ rec.id = q.view.id
          /\ rec.globus = q.view.globus
        BY <2>1, <2>3, <2>4 DEF UserRec
    <2>6. rec.id \in Users /\ rec.token \in Tokens
        BY <2>5 DEF UserRec
    <2> QED BY <1>5, <2>5, <2>6, UserAssumption DEF Changed
<1> QED BY <1>1, <1>3, <1>4, <1>5

\* A user with a new ID is in no cache and not in the table; one whose record
\* changes is in the table with the same Globus ID.
LEMMA WrittenPlace ==
    ASSUME NEW r, NEW q, Turn(r, q), q.pc = "put", NEW rec, rec.id \in Users,
           New(q, rec) \/ Changed(q, rec)
    PROVE  /\ New(q, rec) => table[rec.id] = Nobody /\ byID[rec.id].rec = Nobody
           /\ Changed(q, rec) => /\ table[rec.id] # Nobody
                                 /\ table[rec.id].globus = rec.globus
<1>1. ASSUME New(q, rec) PROVE table[rec.id] = Nobody
    <2>1. table[rec.id] # Nobody =>
            issued[table[rec.id].token] = rec.id /\ table[rec.id].token \in Tokens
        BY DEF Turn, IInv, TypeOK, AllGenuine, Genuine, Placed, UserRec
    <2> QED BY <1>1, <2>1 DEF New, Known
<1>2. ASSUME New(q, rec) PROVE byID[rec.id].rec = Nobody
    BY <1>1, <1>2 DEF Turn, Agreed, Filed
<1>3. ASSUME Changed(q, rec)
      PROVE  table[rec.id] # Nobody /\ table[rec.id].globus = rec.globus
    BY <1>3 DEF Changed, Turn, Agreed, Knows
<1> QED BY <1>1, <1>2, <1>3

LEMMA PutAgreed ==
    ASSUME NEW r, NEW q, Turn(r, q), putUser(r)
    PROVE  Agreed(req[r])'
<1>1. q = req[r] /\ q.pc = "put" /\ q \in Request
    BY DEF Turn, Good, putUser
<1>2. PICK rec \in Written(q) :
        LET stored == [table EXCEPT ![rec.id] = rec] IN
        /\ issued' = [issued EXCEPT ![rec.token] = rec.id]
        /\ \/ /\ table' = stored
              /\ Step(r, [q EXCEPT !.pc = "fillID", !.load = rec, !.ret = "done"])
              /\ UNCHANGED faults
           \/ /\ Fault
              /\ table' \in {table, stored}
              /\ Step(r, Idle)
    BY <1>1 DEF putUser
<1>3. /\ byID' = byID /\ byToken' = byToken /\ byGlobus' = byGlobus
      /\ revoked' = revoked /\ gone' = gone
    BY DEF putUser, caches
<1>4. /\ rec # Nobody /\ rec.id \in Users /\ rec.token \in Tokens
      /\ New(q, rec) \/ Changed(q, rec)
    BY <1>1, WrittenRecord
<1>5. /\ New(q, rec) => table[rec.id] = Nobody /\ byID[rec.id].rec = Nobody
      /\ Changed(q, rec) => table[rec.id] # Nobody /\ table[rec.id].globus = rec.globus
    BY <1>1, <1>4, WrittenPlace
<1>6. /\ \A t \in Tokens : issued'[t] = IF t = rec.token THEN rec.id ELSE issued[t]
      /\ \A t \in Tokens : issued[t] # Nobody => issued'[t] = issued[t]
    <2>1. issued' = [issued EXCEPT ![rec.token] = rec.id] /\ issued \in [Tokens -> MaybeUser]
        BY <1>2 DEF Turn, IInv, TypeOK
    <2>2. issued[rec.token] \in {Nobody, rec.id}
        <3>1. CASE New(q, rec) \/ issued[rec.token] = Nobody
            BY <3>1 DEF New
        <3>2. CASE q.op # "create" /\ rec.token = q.view.token /\ rec.id = q.view.id
            BY <1>1, <3>2 DEF Turn, Good, Control, Genuine
        <3> QED BY <1>4, <3>1, <3>2 DEF Changed
    <2> QED BY <1>4, <2>1, <2>2
<1>7. \A u \in Users : Known(u) => Known(u)'
    BY <1>6, UserAssumption DEF Known
<1>8. /\ table' \in {table, [table EXCEPT ![rec.id] = rec]}
      /\ \A u \in Users : [table EXCEPT ![rec.id] = rec][u] = IF u = rec.id THEN rec ELSE table[u]
    BY <1>2, <1>4 DEF Turn, IInv, TypeOK
<1>9. Filed'
    <2>0. \A u \in Users : table'[u] = table[u] \/ (u = rec.id /\ table'[u] = rec)
        BY <1>8
    <2>1. ASSUME NEW u \in Users, byID[u].rec # Nobody
          PROVE  byID[u].rec.id = u /\ table'[u] # Nobody /\ table'[u].globus = byID[u].rec.globus
        <3>1. byID[u].rec.id = u /\ table[u] # Nobody /\ table[u].globus = byID[u].rec.globus
            BY <2>1 DEF Turn, Agreed, Filed
        <3>2. u = rec.id => table[u].globus = rec.globus
            BY <1>4, <1>5, <2>1
        <3> QED BY <1>4, <2>0, <3>1, <3>2
    <2>2. ASSUME NEW u \in gone PROVE table'[u] = Nobody /\ Known(u)'
        <3>1. u \in Users /\ table[u] = Nobody /\ Known(u)
            BY DEF Turn, Agreed, Filed, IInv, TypeOK
        <3>2. u # rec.id
            BY <1>4, <1>5, <3>1 DEF New
        <3> QED BY <1>7, <1>8, <3>1, <3>2
    <2>3. \A g \in GlobusIDs : byGlobus[g].rec # Nobody =>
            /\ byGlobus[g].rec.globus = g
            /\ byID[byGlobus[g].rec.id].rec # Nobody
            /\ byID[byGlobus[g].rec.id].rec.globus = g
        BY DEF Turn, Agreed, Filed
    <2> QED BY <1>3, <2>1, <2>2, <2>3 DEF Filed
<1>10. CASE Fault /\ Step(r, Idle)
    <2>1. faults' # 0
        BY <1>10, Undisturbed DEF Turn
    <2>2. Knows(Idle)'
        BY DEF Knows, Idle, Filling
    <2>3. req'[r] = Idle
        BY <1>10, Stepped DEF Turn
    <2>4. PICK n : n = Idle
        OBVIOUS
    <2> QED BY <1>9, <2>1, <2>2, <2>3, <2>4, BecomesAgreed
<1>11. CASE /\ table' = [table EXCEPT ![rec.id] = rec] /\ UNCHANGED faults
            /\ Step(r, [q EXCEPT !.pc = "fillID", !.load = rec, !.ret = "done"])
    <2>1. PICK n : n = [q EXCEPT !.pc = "fillID", !.load = rec, !.ret = "done"]
        OBVIOUS
    <2>2. /\ n.pc = "fillID" /\ n.load = rec /\ n.ret = "done"
          /\ n.op = q.op /\ n.u = q.u /\ n.view = q.view
        BY <1>1, <2>1 DEF Request
    <2>3. \A u \in Users : table'[u] = IF u = rec.id THEN rec ELSE table[u]
        BY <1>8, <1>11
    <2>4. Knows(n)'
        <3>1. q.op \in OnUser => Known(q.u) /\ q.u \in Users
            BY <1>1 DEF Turn, Good, Control, Operands, Agreed, Knows
        <3>2. n.op \in OnUser => Known(n.u)'
            BY <1>7, <2>2, <3>1
        <3> QED BY <1>4, <2>2, <2>3, <3>2 DEF Knows, Filling
    <2>5. ASSUME faults' = 0 PROVE TokensFiled(n)' /\ KnowsTokens(n)'
        <3>1. TokensFiled(q) /\ KnowsTokens(q)
            BY <1>11, <2>5 DEF Turn, Agreed
        <3>2. Changed(q, rec) => table[rec.id].token = q.view.token
            BY <1>1, <3>1 DEF Changed, KnowsTokens
        <3>3. ASSUME NEW u \in Users, byID[u].rec # Nobody
              PROVE  byID[u].rec.token = IF Renewing(n, u) THEN n.view.token ELSE table'[u].token
            <4>1. byID[u].rec.token = table[u].token
                BY <1>1, <3>1, <3>3 DEF TokensFiled, Renewing
            <4>2. CASE u # rec.id
                BY <2>2, <2>3, <4>1, <4>2 DEF Renewing
            <4>3. CASE u = rec.id
                <5>1. Changed(q, rec)
                    BY <1>4, <1>5, <3>3, <4>3
                <5> QED BY <2>2, <2>3, <3>2, <4>1, <4>3, <5>1 DEF Changed, Renewing
            <4> QED BY <4>2, <4>3
        <3>4. \A t \in Tokens : byToken[t].rec # Nobody =>
                byID[byToken[t].rec.id].rec # Nobody /\ byID[byToken[t].rec.id].rec.token = t
            BY <1>1, <3>1 DEF TokensFiled
        <3>5. ASSUME NEW t \in revoked
              PROVE  /\ byToken[t].rec = Nobody /\ issued'[t] # Nobody
                     /\ \A u \in Users : table'[u] # Nobody => table'[u].token # t
            <4>1. /\ t \in Tokens /\ byToken[t].rec = Nobody /\ issued[t] # Nobody
                  /\ \A u \in Users : table[u] # Nobody => table[u].token # t
                BY <3>1 DEF TokensFiled, HasToken, Turn, IInv, TypeOK
            <4>2. rec.token # t
                <5>1. CASE issued[rec.token] = Nobody
                    BY <4>1, <5>1
                <5>2. CASE Changed(q, rec) /\ rec.token = q.view.token
                    BY <1>4, <1>5, <3>2, <4>1, <5>2
                <5> QED BY <1>4, <5>1, <5>2 DEF New, Changed
            <4> QED BY <1>6, <2>3, <4>1, <4>2
        <3>6. ASSUME NEW u \in Users, NEW v \in Users, table'[u] # Nobody, table'[v] # Nobody,
                     table'[u].globus = table'[v].globus
              PROVE  u = v
            <4>1. \A x, y \in Users : table[x] # Nobody /\ table[y] # Nobody
                                      /\ table[x].globus = table[y].globus => x = y
                BY <3>1 DEF TokensFiled
            <4>2. New(q, rec) => \A x \in Users : table[x] # Nobody => table[x].globus # rec.globus
                BY <1>1, <3>1 DEF New, KnowsTokens
            <4> QED BY <1>4, <1>5, <2>3, <3>6, <4>1, <4>2
        <3>7. TokensFiled(n)'
            <4>1. \A u \in Users : Renewing(n, u)' <=> Renewing(n, u)
                BY DEF Renewing
            <4>2. n.pc # "dropToken"
                BY <2>2
            <4>3. /\ \A u \in Users : byID'[u].rec # Nobody =>
                       byID'[u].rec.token = IF Renewing(n, u)' THEN n.view.token ELSE table'[u].token
                  /\ \A t \in Tokens : byToken'[t].rec # Nobody =>
                       byID'[byToken'[t].rec.id].rec # Nobody /\ byID'[byToken'[t].rec.id].rec.token = t
                BY <1>3, <3>3, <3>4, <4>1
            <4>4. \A t \in revoked' :
                    /\ byToken'[t].rec = Nobody /\ issued'[t] # Nobody
                    /\ \A u \in Users : ~HasToken(u, t)'
                BY <1>3, <3>5 DEF HasToken
            <4> QED BY <3>6, <4>2, <4>3, <4>4 DEF TokensFiled
        <3>8. KnowsTokens(n)'
            <4>1. table'[rec.id].token = rec.token
                BY <1>4, <2>3
            <4>2. q.op = "replace" => q.view.id = rec.id /\ q.view.token # rec.token
                <5> SUFFICES ASSUME q.op = "replace"
                             PROVE  q.view.id = rec.id /\ q.view.token # rec.token
                    OBVIOUS
                <5>1. q.view.id = rec.id /\ issued[rec.token] = Nobody
                    BY <1>4 DEF New, Changed
                <5>2. q.view # Nobody /\ issued[q.view.token] = q.view.id
                    BY <1>1 DEF Turn, Good, Control, Genuine
                <5> QED BY <1>4, <5>1, <5>2, UserAssumption
            <4> QED BY <2>2, <4>1, <4>2 DEF KnowsTokens, Filling
        <3> QED BY <3>7, <3>8
    <2>6. req'[r] = n
        BY <1>11, <2>1, Stepped DEF Turn
    <2> QED BY <1>9, <2>4, <2>5, <2>6, BecomesAgreed
<1> QED BY <1>2, <1>10, <1>11

(***************************************************************************)
(* removeUser                                                              *)
(***************************************************************************)
LEMMA FindInCacheAgreed ==
    ASSUME NEW r, NEW q, Turn(r, q), findInCache(r)
    PROVE  Agreed(req[r])'
<1>1. q \in Request /\ q = req[r] /\ q.pc = "unFind" /\ q.op \in OnUser /\ q.u \in Users
    BY DEF Turn, Good, Control, Operands, findInCache, Removing, OnUser
<1>2. PICK rec : rec = byID[q.u].rec
    OBVIOUS
<1>3. PICK n : n = [q EXCEPT !.view = rec, !.pc = IF rec = Nobody THEN "unID" ELSE "unToken"]
    OBVIOUS
<1>4. /\ n.pc = IF rec = Nobody THEN "unID" ELSE "unToken"
      /\ n.op = q.op /\ n.u = q.u /\ n.view = rec
    BY <1>1, <1>3 DEF Request
<1>5. Step(r, n) /\ UNCHANGED <<table, caches, history, faults>>
    BY <1>1, <1>2, <1>3 DEF findInCache
<1>6. rec = Nobody => \A g \in GlobusIDs : byGlobus[g].rec # Nobody => byGlobus[g].rec.id # q.u
    BY <1>2 DEF Turn, Agreed, Filed
<1>7. faults = 0 /\ rec = Nobody =>
        \A t \in Tokens : byToken[t].rec # Nobody => byToken[t].rec.id # q.u
    BY <1>2 DEF Turn, Agreed, TokensFiled
<1>8. Known(q.u)
    BY <1>1 DEF Turn, Agreed, Knows
<1>9. Plain(q) /\ Plain(n) /\ Knows(n) /\ (faults = 0 => KnowsTokens(n))
    BY <1>1, <1>2, <1>4, <1>6, <1>7, <1>8 DEF Plain, Knows, KnowsTokens, Filling
<1>10. req'[r] = n
    BY <1>5, Stepped DEF Turn
<1> QED BY <1>5, <1>9, <1>10, QuietAgreed

LEMMA UncacheTokenAgreed ==
    ASSUME NEW r, NEW q, Turn(r, q), uncacheToken(r)
    PROVE  Agreed(req[r])'
<1>1. q \in Request /\ q = req[r] /\ q.pc = "unToken" /\ q.u \in Users /\ q.view # Nobody
    BY DEF Turn, Good, Control, Operands, uncacheToken, Removing, OnUser
<1>2. PICK n : n = [q EXCEPT !.pc = "unGlobus"]
    OBVIOUS
<1>3. n.pc = "unGlobus" /\ n.op = q.op /\ n.u = q.u /\ n.view = q.view
    BY <1>1, <1>2, Moved
<1>4. /\ Step(r, n) /\ byToken' = [byToken EXCEPT ![q.view.token] = NoEntry]
      /\ UNCHANGED <<table, byID, byGlobus, history, faults>>
    BY <1>1, <1>2 DEF uncacheToken, Goto
<1>5. /\ Filed'
      /\ table' = table /\ byID' = byID /\ byGlobus' = byGlobus
      /\ issued' = issued /\ revoked' = revoked /\ faults' = faults
      /\ \A u : Known(u) => Known(u)'
    BY <1>4, TokenCacheStep
<1>6. \A t \in Tokens : byToken'[t].rec = IF t = q.view.token THEN Nobody ELSE byToken[t].rec
    BY <1>4, NoEntrySound DEF Turn, IInv, TypeOK
<1>7. byID[q.u].rec = q.view
    BY <1>1 DEF Turn, Agreed, Knows
<1>8. Knows(n)'
    <2>1. n.op \in OnUser => Known(n.u)'
        BY <1>1, <1>3, <1>5 DEF Turn, Agreed, Knows
    <2> QED BY <1>3, <1>5, <1>7, <2>1 DEF Knows, Filling
<1>9. ASSUME faults' = 0 PROVE TokensFiled(n)' /\ KnowsTokens(n)'
    <2>1. TokensFiled(q)
        BY <1>5, <1>9 DEF Turn, Agreed
    <2>2. \A t \in Tokens : byToken[t].rec # Nobody =>
            byID[byToken[t].rec.id].rec # Nobody /\ byID[byToken[t].rec.id].rec.token = t
        BY <1>1, <2>1 DEF TokensFiled
    <2>3. TokensFiled(n)'
        <3>1. \A t \in revoked : byToken'[t].rec = Nobody
            BY <1>6, <2>1 DEF TokensFiled, Turn, IInv, TypeOK
        <3>2. \A t \in Tokens : byToken'[t].rec # Nobody =>
                byID[byToken'[t].rec.id].rec # Nobody /\ byID[byToken'[t].rec.id].rec.token = t
            BY <1>6, <2>2
        <3> QED BY <1>1, <1>3, <1>5, <2>1, <3>1, <3>2 DEF TokensFiled, Renewing, HasToken
    <2>4. \A t \in Tokens : byToken'[t].rec # Nobody => byToken'[t].rec.id # q.u
        BY <1>6, <1>7, <2>2
    <2>5. KnowsTokens(n)'
        BY <1>3, <2>4 DEF KnowsTokens, Filling
    <2> QED BY <2>3, <2>5
<1>10. req'[r] = n
    BY <1>4, Stepped DEF Turn
<1> QED BY <1>5, <1>8, <1>9, <1>10, BecomesAgreed

LEMMA UncacheGlobusIDAgreed ==
    ASSUME NEW r, NEW q, Turn(r, q), uncacheGlobusID(r)
    PROVE  Agreed(req[r])'
<1>1. q \in Request /\ q = req[r] /\ q.pc = "unGlobus" /\ q.u \in Users
    BY DEF Turn, Good, Control, Operands, uncacheGlobusID, Removing, OnUser
<1>2. PICK n : n = [q EXCEPT !.pc = "unID"]
    OBVIOUS
<1>3. n.pc = "unID" /\ n.op = q.op /\ n.u = q.u
    BY <1>1, <1>2, Moved
<1>4. /\ Step(r, n) /\ byGlobus' = [byGlobus EXCEPT ![q.view.globus] = NoEntry]
      /\ table' = table /\ byID' = byID /\ byToken' = byToken /\ issued' = issued
      /\ revoked' = revoked /\ gone' = gone /\ faults' = faults
    BY <1>1, <1>2 DEF uncacheGlobusID, Goto, history
<1>5. \A g \in GlobusIDs : byGlobus'[g].rec = IF g = q.view.globus THEN Nobody
                                              ELSE byGlobus[g].rec
    BY <1>4, NoEntrySound DEF Turn, IInv, TypeOK
<1>6. byID[q.u].rec = q.view
    BY <1>1 DEF Turn, Agreed, Knows
<1>7. Filed'
    <2>1. \A g \in GlobusIDs : byGlobus'[g].rec # Nobody =>
            /\ byGlobus'[g].rec.globus = g
            /\ byID[byGlobus'[g].rec.id].rec # Nobody
            /\ byID[byGlobus'[g].rec.id].rec.globus = g
        BY <1>5 DEF Turn, Agreed, Filed
    <2> QED BY <1>4, <2>1 DEF Turn, Agreed, Filed, Known
<1>8. Knows(n)'
    <2>1. n.op \in OnUser => Known(n.u)'
        BY <1>1, <1>3, <1>4 DEF Turn, Agreed, Knows, Known
    <2>2. \A g \in GlobusIDs : byGlobus'[g].rec # Nobody => byGlobus'[g].rec.id # q.u
        BY <1>5, <1>6 DEF Turn, Agreed, Filed
    <2> QED BY <1>3, <2>1, <2>2 DEF Knows, Filling
<1>9. ASSUME faults' = 0 PROVE TokensFiled(n)' /\ KnowsTokens(n)'
    <2>1. TokensFiled(q) /\ KnowsTokens(q)
        BY <1>4, <1>9 DEF Turn, Agreed
    <2>2. TokensFiled(n)'
        BY <1>1, <1>3, <1>4, <2>1 DEF TokensFiled, Renewing, HasToken
    <2>3. KnowsTokens(n)'
        BY <1>1, <1>3, <1>4, <2>1 DEF KnowsTokens, Filling
    <2> QED BY <2>2, <2>3
<1>10. req'[r] = n
    BY <1>4, Stepped DEF Turn
<1> QED BY <1>7, <1>8, <1>9, <1>10, BecomesAgreed

LEMMA UncacheIDAgreed ==
    ASSUME NEW r, NEW q, Turn(r, q), uncacheID(r)
    PROVE  Agreed(req[r])'
<1>1. q \in Request /\ q = req[r] /\ q.pc = "unID" /\ q.u \in Users
    BY DEF Turn, Good, Control, Operands, uncacheID, Removing, OnUser
<1>2. PICK n : n = [q EXCEPT !.pc = "dbDelete"]
    OBVIOUS
<1>3. n.pc = "dbDelete" /\ n.op = q.op /\ n.u = q.u
    BY <1>1, <1>2, Moved
<1>4. /\ Step(r, n) /\ byID' = [byID EXCEPT ![q.u] = NoEntry]
      /\ table' = table /\ byGlobus' = byGlobus /\ byToken' = byToken /\ issued' = issued
      /\ revoked' = revoked /\ gone' = gone /\ faults' = faults
    BY <1>1, <1>2 DEF uncacheID, Goto, history
<1>5. \A u \in Users : byID'[u].rec = IF u = q.u THEN Nobody ELSE byID[u].rec
    BY <1>4, NoEntrySound DEF Turn, IInv, TypeOK
<1>6. \A g \in GlobusIDs : byGlobus[g].rec # Nobody =>
        byGlobus[g].rec.id # q.u /\ byGlobus[g].rec.id \in Users
    BY <1>1 DEF Turn, Agreed, Knows, IInv, TypeOK, Entry, UserRec
<1>7. Filed'
    <2>1. \A g \in GlobusIDs : byGlobus[g].rec # Nobody =>
            /\ byGlobus[g].rec.globus = g
            /\ byID'[byGlobus[g].rec.id].rec # Nobody
            /\ byID'[byGlobus[g].rec.id].rec.globus = g
        BY <1>5, <1>6 DEF Turn, Agreed, Filed
    <2>2. \A u \in Users : byID'[u].rec # Nobody =>
            byID'[u].rec.id = u /\ table[u] # Nobody /\ table[u].globus = byID'[u].rec.globus
        BY <1>5 DEF Turn, Agreed, Filed
    <2> QED BY <1>4, <2>1, <2>2 DEF Turn, Agreed, Filed, Known
<1>8. Knows(n)'
    <2>1. n.op \in OnUser => Known(n.u)'
        BY <1>1, <1>3, <1>4 DEF Turn, Agreed, Knows, Known
    <2> QED BY <1>1, <1>3, <1>4, <1>5, <1>6, <2>1 DEF Knows, Filling
<1>9. ASSUME faults' = 0 PROVE TokensFiled(n)' /\ KnowsTokens(n)'
    <2>1. TokensFiled(q) /\ KnowsTokens(q)
        BY <1>4, <1>9 DEF Turn, Agreed
    <2>2. \A t \in Tokens : byToken[t].rec # Nobody =>
            byToken[t].rec.id # q.u /\ byToken[t].rec.id \in Users
        BY <1>1, <2>1 DEF KnowsTokens, Turn, IInv, TypeOK, Entry, UserRec
    <2>3. TokensFiled(n)'
        <3>1. \A u \in Users : byID'[u].rec # Nobody => byID'[u].rec.token = table[u].token
            BY <1>1, <1>5, <2>1 DEF TokensFiled, Renewing
        <3>2. \A t \in Tokens : byToken[t].rec # Nobody =>
                byID'[byToken[t].rec.id].rec # Nobody /\ byID'[byToken[t].rec.id].rec.token = t
            BY <1>1, <1>5, <2>1, <2>2 DEF TokensFiled
        <3>3. /\ \A t \in revoked :
                   byToken[t].rec = Nobody /\ issued[t] # Nobody /\ \A u \in Users : ~HasToken(u, t)
              /\ \A u, v \in Users : table[u] # Nobody /\ table[v] # Nobody
                                     /\ table[u].globus = table[v].globus => u = v
            BY <2>1 DEF TokensFiled
        <3> QED BY <1>3, <1>4, <3>1, <3>2, <3>3 DEF TokensFiled, Renewing, HasToken
    <2>4. KnowsTokens(n)'
        BY <1>1, <1>3, <1>4, <2>1 DEF KnowsTokens, Filling
    <2> QED BY <2>3, <2>4
<1>10. req'[r] = n
    BY <1>4, Stepped DEF Turn
<1> QED BY <1>7, <1>8, <1>9, <1>10, BecomesAgreed

LEMMA RemoveAgreed ==
    ASSUME NEW r, NEW q, Turn(r, q), removeUser(r)
    PROVE  Agreed(req[r])'
<1>1. q = req[r] /\ q.pc = "dbDelete" /\ q.op \in OnUser /\ q.u \in Users
    BY DEF Turn, Good, Control, Operands, removeUser, Removing, OnUser
<1>2. /\ Step(r, Idle) /\ issued' = issued
      /\ byID' = byID /\ byToken' = byToken /\ byGlobus' = byGlobus
      /\ \/ /\ table' = [table EXCEPT ![q.u] = Nobody] /\ UNCHANGED faults
            /\ gone' = gone \cup {q.u} /\ revoked' = revoked \cup TokensOf(q.u)
         \/ /\ table' \in {table, [table EXCEPT ![q.u] = Nobody]} /\ Fault
            /\ UNCHANGED <<gone, revoked>>
    BY <1>1 DEF removeUser, caches
<1>3. \A u \in Users : table'[u] = table[u] \/ (u = q.u /\ table'[u] = Nobody)
    BY <1>2 DEF Turn, IInv, TypeOK
<1>4. byID[q.u].rec = Nobody /\ Known(q.u)
    BY <1>1 DEF Turn, Agreed, Knows
<1>5. \A u \in gone' : u \in gone \/ (u = q.u /\ table'[u] = Nobody)
    BY <1>1, <1>2 DEF Turn, IInv, TypeOK
<1>6. Filed'
    <2>1. \A u \in Users : byID[u].rec # Nobody =>
            byID[u].rec.id = u /\ table'[u] # Nobody /\ table'[u].globus = byID[u].rec.globus
        BY <1>3, <1>4 DEF Turn, Agreed, Filed
    <2>2. \A u \in gone' : table'[u] = Nobody /\ Known(u)
        BY <1>3, <1>4, <1>5 DEF Turn, Agreed, Filed, IInv, TypeOK
    <2>3. \A g \in GlobusIDs : byGlobus[g].rec # Nobody =>
            /\ byGlobus[g].rec.globus = g
            /\ byID[byGlobus[g].rec.id].rec # Nobody
            /\ byID[byGlobus[g].rec.id].rec.globus = g
        BY DEF Turn, Agreed, Filed
    <2> QED BY <1>2, <2>1, <2>2, <2>3 DEF Filed, Known
<1>7. PICK n : n = Idle
    OBVIOUS
<1>8. n.pc = "idle"
    BY <1>7 DEF Idle
<1>9. Knows(n)'
    BY <1>8 DEF Knows, Filling
<1>10. ASSUME faults' = 0 PROVE TokensFiled(n)' /\ KnowsTokens(n)'
    <2>0. ~Fault /\ faults = 0
        BY <1>2, <1>10, Undisturbed DEF Turn
    <2>1. TokensFiled(q) /\ KnowsTokens(q)
        BY <2>0 DEF Turn, Agreed
    <2>2. /\ table' = [table EXCEPT ![q.u] = Nobody] /\ revoked' = revoked \cup TokensOf(q.u)
          /\ \A u \in Users : table'[u] = IF u = q.u THEN Nobody ELSE table[u]
        BY <1>2, <2>0 DEF Turn, IInv, TypeOK
    <2>3. \A t \in Tokens : byToken[t].rec # Nobody => issued[t] = byToken[t].rec.id
        BY DEF Turn, IInv, AllGenuine, Placed, Sound, Genuine
    <2>4. ASSUME NEW t \in TokensOf(q.u)
          PROVE  /\ byToken[t].rec = Nobody /\ issued[t] # Nobody
                 /\ \A u \in Users : table'[u] # Nobody => table'[u].token # t
        <3>1. t \in Tokens /\ issued[t] = q.u
            BY DEF TokensOf
        <3>2. byToken[t].rec = Nobody
            BY <1>1, <2>1, <2>3, <3>1 DEF KnowsTokens
        <3>3. \A u \in Users : table[u] # Nobody /\ table[u].token = t => u = q.u
            BY <3>1 DEF Turn, IInv, AllGenuine, Placed, Genuine
        <3> QED BY <1>1, <2>2, <3>1, <3>2, <3>3, UserAssumption
    <2>5. ASSUME NEW t \in revoked
          PROVE  /\ byToken[t].rec = Nobody /\ issued[t] # Nobody
                 /\ \A u \in Users : table'[u] # Nobody => table'[u].token # t
        BY <2>1, <2>2 DEF TokensFiled, HasToken
    <2>6. \A u \in Users : byID[u].rec # Nobody => byID[u].rec.token = table'[u].token
        BY <1>1, <1>4, <2>1, <2>2 DEF TokensFiled, Renewing
    <2>7. \A t \in Tokens : byToken[t].rec # Nobody =>
            byID[byToken[t].rec.id].rec # Nobody /\ byID[byToken[t].rec.id].rec.token = t
        BY <1>1, <2>1 DEF TokensFiled
    <2>8. \A u, v \in Users : table'[u] # Nobody /\ table'[v] # Nobody
                              /\ table'[u].globus = table'[v].globus => u = v
        BY <2>1, <2>2 DEF TokensFiled
    <2>9. \A t \in revoked' : byToken[t].rec = Nobody /\ issued[t] # Nobody
                              /\ \A u \in Users : table'[u] # Nobody => table'[u].token # t
        BY <2>2, <2>4, <2>5
    <2>10. TokensFiled(n)'
        BY <1>2, <1>8, <2>6, <2>7, <2>8, <2>9 DEF TokensFiled, Renewing, HasToken
    <2> QED BY <1>8, <2>10 DEF KnowsTokens, Filling
<1>11. req'[r] = n
    BY <1>2, <1>7, Stepped DEF Turn
<1> QED BY <1>6, <1>9, <1>10, <1>11, BecomesAgreed

(***************************************************************************)
(* The theorems about agreement                                            *)
(***************************************************************************)
\* Cache records keep their content when they expire.
LEMMA ExpiryAgreed ==
    ASSUME NEW r, NEW q, Turn(r, q),
           \/ \E u \in Users : ExpireByID(u)
           \/ \E t \in Tokens : ExpireByToken(t)
           \/ \E g \in GlobusIDs : ExpireByGlobusID(g)
    PROVE  Agreed(req[r])'
<1>1. /\ table' = table /\ req' = req /\ issued' = issued /\ revoked' = revoked
      /\ gone' = gone /\ faults' = faults
    BY DEF ExpireByID, ExpireByToken, ExpireByGlobusID, history
<1>2. byID \in [Users -> Entry] /\ byToken \in [Tokens -> Entry] /\ byGlobus \in [GlobusIDs -> Entry]
    BY DEF Turn, IInv, TypeOK
<1>3. /\ \A u \in Users : byID'[u].rec = byID[u].rec
      /\ \A t \in Tokens : byToken'[t].rec = byToken[t].rec
      /\ \A g \in GlobusIDs : byGlobus'[g].rec = byGlobus[g].rec
    <2> DEFINE Same == /\ \A u \in Users : byID'[u].rec = byID[u].rec
                       /\ \A t \in Tokens : byToken'[t].rec = byToken[t].rec
                       /\ \A g \in GlobusIDs : byGlobus'[g].rec = byGlobus[g].rec
    <2>1. ASSUME NEW u \in Users, ExpireByID(u) PROVE Same
        BY <1>2, <2>1 DEF ExpireByID, Entry
    <2>2. ASSUME NEW t \in Tokens, ExpireByToken(t) PROVE Same
        BY <1>2, <2>2 DEF ExpireByToken, Entry
    <2>3. ASSUME NEW g \in GlobusIDs, ExpireByGlobusID(g) PROVE Same
        BY <1>2, <2>3 DEF ExpireByGlobusID, Entry
    <2> HIDE DEF Same
    <2> QED BY <2>1, <2>2, <2>3 DEF Same
<1>4. /\ \A g \in GlobusIDs : byGlobus[g].rec # Nobody => byGlobus[g].rec.id \in Users
      /\ \A t \in Tokens : byToken[t].rec # Nobody => byToken[t].rec.id \in Users
    BY DEF Turn, IInv, TypeOK, Entry, UserRec
<1>5. Filed'
    BY <1>1, <1>3, <1>4 DEF Turn, Agreed, Filed, Known
<1>6. /\ q.pc \in Filling => q.load.id \in Users
      /\ q.op \in OnUser => q.u \in Users
      /\ q.pc \in Removing => q.op \in OnUser
      /\ q.op = "replace" /\ q.ret = "done" => q.view.token \in Tokens
    BY LoadTyped DEF Turn, Good, Control, Operands, OnUser, Request, UserRec
<1>7. Knows(q)'
    BY <1>1, <1>3, <1>6 DEF Turn, Agreed, Knows, Known, Filling, Removing
<1>8. ASSUME faults' = 0 PROVE TokensFiled(q)' /\ KnowsTokens(q)'
    <2>1. TokensFiled(q) /\ KnowsTokens(q)
        BY <1>1, <1>8 DEF Turn, Agreed
    <2>2. TokensFiled(q)'
        <3>1. \A t \in revoked : t \in Tokens
            BY DEF Turn, IInv, TypeOK
        <3> QED BY <1>1, <1>3, <1>4, <2>1, <3>1 DEF TokensFiled, Renewing, HasToken
    <2>3. KnowsTokens(q)'
        BY <1>1, <1>3, <1>6, <2>1 DEF KnowsTokens, Filling
    <2> QED BY <2>2, <2>3
<1>9. req'[r] = q
    BY <1>1 DEF Turn
<1> QED BY <1>5, <1>7, <1>8, <1>9, BecomesAgreed

LEMMA ProceedAgreed ==
    ASSUME NEW r, NEW q, Turn(r, q), Proceed(r)
    PROVE  Agreed(req[r])'
<1>1. CASE findUserByToken(r) \/ getUser(r) \/ findUserByGlobusID(r)
    BY <1>1, FindAgreed
<1>2. CASE cacheByID(r) \/ dropOldToken(r) \/ cacheByToken(r) \/ cacheByGlobusID(r)
    BY <1>2, CacheByIDAgreed, DropOldTokenAgreed, CacheByTokenAgreed, CacheByGlobusIDAgreed
<1>3. CASE addUser(r) \/ rewriteUser(r)
    BY <1>3, PutAgreed DEF addUser, rewriteUser
<1>4. CASE findInCache(r) \/ uncacheToken(r) \/ uncacheGlobusID(r) \/ uncacheID(r)
    BY <1>4, FindInCacheAgreed, UncacheTokenAgreed, UncacheGlobusIDAgreed, UncacheIDAgreed
<1>5. CASE removeUser(r)
    BY <1>5, RemoveAgreed
<1> QED BY <1>1, <1>2, <1>3, <1>4, <1>5 DEF Proceed

\* One request at a time: whatever calls fail, who is cached is in the table under
\* the same Globus ID and can be found again for removal, and who was deleted is
\* nowhere; and unless a call failed the tokens agree as well, so that one that was
\* replaced or whose user was deleted is nowhere (replaceUserToken, removeUser,
\* findUserByToken, findUserByGlobusID).
THEOREM AgreementInvariant == OneThread => (Spec => []AgreeInv)
<1> SUFFICES ASSUME OneThread PROVE Spec => []AgreeInv
    OBVIOUS
<1>1. Init => AgreeInv
    <2> SUFFICES ASSUME Init, NEW r \in Requests PROVE Agreed(req[r])
        BY DEF AgreeInv
    <2>1. req[r].pc = "idle"
        BY DEF Init, Idle
    <2>2. /\ \A u \in Users : table[u] = Nobody /\ byID[u].rec = Nobody
          /\ \A t \in Tokens : byToken[t].rec = Nobody
          /\ \A g \in GlobusIDs : byGlobus[g].rec = Nobody
          /\ revoked = {} /\ gone = {}
        BY DEF Init, NoEntry
    <2>3. Filed
        BY <2>2 DEF Filed
    <2>4. TokensFiled(req[r])
        BY <2>2 DEF TokensFiled
    <2>5. Knows(req[r]) /\ KnowsTokens(req[r])
        BY <2>1 DEF Knows, KnowsTokens, Filling
    <2> QED BY <2>3, <2>4, <2>5 DEF Agreed
<1>2. IInv /\ AgreeInv /\ [Next]_vars => AgreeInv'
    <2> SUFFICES ASSUME IInv, AgreeInv, [Next]_vars, NEW r \in Requests
                 PROVE  Agreed(req[r])'
        BY DEF AgreeInv
    <2>1. PICK q : q = req[r]
        OBVIOUS
    <2>2. Turn(r, q)
        BY <2>1, RequestGood DEF Turn, AgreeInv
    <2>3. CASE UNCHANGED vars
        <3>1. req'[r] = q /\ Agreed(q)
            BY <2>1, <2>2, <2>3 DEF vars, Turn
        <3>2. Filed' /\ Knows(q)' /\ (faults' = 0 => TokensFiled(q)' /\ KnowsTokens(q)')
            BY <2>3, <3>1 DEF vars, Agreed, Filed, Knows, TokensFiled, KnowsTokens,
                              Known, Renewing, HasToken
        <3> QED BY <3>1, <3>2, BecomesAgreed
    <2>4. CASE \E s \in Requests : Start(s) \/ Proceed(s)
        <3>1. Start(r) \/ Proceed(r)
            BY <2>4 DEF OneThread
        <3> QED BY <2>2, <3>1, StartAgreed, ProceedAgreed
    <2>5. CASE \/ \E u \in Users : ExpireByID(u)
               \/ \E t \in Tokens : ExpireByToken(t)
               \/ \E g \in GlobusIDs : ExpireByGlobusID(g)
        BY <2>2, <2>5, ExpiryAgreed
    <2> QED BY <2>3, <2>4, <2>5 DEF Next
<1> QED BY <1>1, <1>2, UserInvariant, PTL DEF Spec

\* Requests that come one after the other leave the table of users and its caches
\* in agreement, so that replacing a token and deleting a user take effect at once,
\* for any number of users, tokens and Globus IDs.
THEOREM AccountsAgreement == OneThread => (Spec => []AccountsAgree)
<1> SUFFICES ASSUME OneThread PROVE Spec => []AccountsAgree
    OBVIOUS
<1>1. IInv /\ AgreeInv => AccountsAgree
    <2> SUFFICES ASSUME IInv, AgreeInv PROVE AccountsAgree
        OBVIOUS
    <2>1. PICK r \in Requests : TRUE
        BY DEF OneThread
    <2>2. PICK q : q = req[r]
        OBVIOUS
    <2>3. Filed /\ (faults = 0 => TokensFiled(q))
        BY <2>2 DEF AgreeInv, Agreed
    <2>4. /\ \A u \in Users : CacheHit(byID[u]) => byID[u].rec # Nobody
          /\ \A t \in Tokens : CacheHit(byToken[t]) => byToken[t].rec # Nobody
          /\ \A g \in GlobusIDs : CacheHit(byGlobus[g]) => byGlobus[g].rec # Nobody
        BY DEF IInv, AllGenuine, Sound, CacheHit
    <2>5. /\ \A g \in GlobusIDs : byGlobus[g].rec # Nobody => byGlobus[g].rec.id \in Users
          /\ revoked \subseteq Tokens /\ gone \subseteq Users
        BY DEF IInv, TypeOK, Entry, UserRec
    <2>6. RevokedTokenRejected
        BY <2>3, <2>4, <2>5 DEF RevokedTokenRejected, Reliable, TokensFiled
    <2>7. DeletedUserNotFound
        BY <2>3, <2>4, <2>5 DEF DeletedUserNotFound, Filed
    <2>8. CachesSynchronized
        <3> SUFFICES ASSUME Quiescent, Reliable PROVE CachesSynchronized
            BY DEF CachesSynchronized
        <3>1. q.pc = "idle" /\ TokensFiled(q)
            BY <2>2, <2>3 DEF Quiescent, Reliable
        <3>2. \A t \in Tokens : byToken[t].rec # Nobody =>
                byID[byToken[t].rec.id].rec # Nobody /\ byID[byToken[t].rec.id].rec.token = t
            BY <3>1 DEF TokensFiled
        <3>3. \A g \in GlobusIDs : byGlobus[g].rec # Nobody =>
                byID[byGlobus[g].rec.id].rec # Nobody /\ byID[byGlobus[g].rec.id].rec.globus = g
            BY <2>3 DEF Filed
        <3> QED BY <3>2, <3>3 DEF CachesSynchronized
    <2>9. OneUserPerGlobusID
        BY <2>3 DEF OneUserPerGlobusID, Reliable, TokensFiled
    <2> QED BY <2>6, <2>7, <2>8, <2>9 DEF AccountsAgree, IInv
<1> QED BY <1>1, UserInvariant, AgreementInvariant, PTL
=============================================================================

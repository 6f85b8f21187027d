----------------------- MODULE MonitoringCredentials -----------------------
(***************************************************************************)
(* The pool of S3 monitoring credentials and its assignment to clusters.   *)
(*                                                                         *)
(* Every server thread runs one request at a time.  A request is a         *)
(* sequence of calls on the database (each one atomic) and on the two      *)
(* in-process caches of cluster records (clusterCache, by ID, and          *)
(* clusterByNameCache); other requests may run between any two of them.    *)
(* A cluster record is reduced to the credential it names: the other       *)
(* attributes are either all there (complete) or all missing.              *)
(***************************************************************************)
EXTENDS Naturals, FiniteSets

CONSTANTS
    Requests,   \* server threads (crow's worker pool)
    Clusters,   \* cluster IDs; IDGenerator never issues one twice
    Keys,       \* S3 credentials, each named by its access key
    NoCluster,  \* "no cluster chosen yet" in a request
    NoKey,      \* the invalid S3Credential, stored as " "
    Offered,    \* the endpoints clients call (all of Ops, or some in an instance)
    FreshKeys,  \* TRUE: an administrator never adds the same access key twice
    MaxFaults   \* bound: database calls that may report failure

ASSUME CredAssumption ==
    /\ NoKey \notin Keys
    /\ NoCluster \notin Clusters
    /\ FreshKeys \in BOOLEAN
    /\ MaxFaults \in Nat

VARIABLES
    creds,      \* monitoring credential table, one item per access key
    items,      \* cluster table, the main item of each cluster
    byID,       \* clusterCache
    byName,     \* clusterByNameCache; a cluster keeps its name
    req,        \* the request each thread is executing
    minted,     \* cluster IDs ever generated
    issued,     \* access keys ever added
    served,     \* <<cluster, key>> pairs returned to clients
    reported,   \* keys named in "Failed to set monitoring credential" mails
    abandoned,  \* history: keys named by records that a failed setup removed
    faults      \* database calls that have reported failure

vars == <<creds, items, byID, byName, req, minted, issued, served, reported,
          abandoned, faults>>

MaybeKey == Keys \cup {NoKey}

Ops == {"none", "get", "remove", "delete", "update", "create", "revoke", "drop"}

PCs == {"idle", "find", "fillID", "fillName", "scan", "acquire", "set",
        "detach", "erase", "revokeKey", "put", "putNew", "uncacheName",
        "uncacheID", "dbDelete", "getCred", "findUsing", "dbDrop", "serve",
        "access", "rewrite", "ready"}

CredItem == [present : BOOLEAN, inUse : BOOLEAN, revoked : BOOLEAN]
ClusterItem == [present : BOOLEAN, complete : BOOLEAN, cred : MaybeKey]
CacheEntry == [st : {"none", "live", "expired"}, cred : MaybeKey]

\* op: the handler; c, k: its cluster and its credential; view: the credential
\* in the handler's copy of the cluster; load, ret: the record a lookup has read
\* and where the handler goes on after it; cand: candidates of the allocation;
\* status: how the last request of the thread was answered, "error" standing for
\* a 403, 404 or 500 response and for an exception that left the handler
Request == [pc : PCs, op : Ops, c : Clusters \cup {NoCluster}, k : MaybeKey,
            view : MaybeKey, load : MaybeKey,
            ret : {"idle", "entry", "serve", "revokeKey", "detach", "reply",
                   "setup", "access", "ready"},
            cand : SUBSET Keys, status : {"ok", "error"}]

NoItem == [present |-> FALSE, complete |-> FALSE, cred |-> NoKey]
NoCred == [present |-> FALSE, inUse |-> FALSE, revoked |-> FALSE]
NewCred == [present |-> TRUE, inUse |-> FALSE, revoked |-> FALSE]
NoEntry == [st |-> "none", cred |-> NoKey]
Entry(k) == [st |-> "live", cred |-> k]

Idle(s) == [pc |-> "idle", op |-> "none", c |-> NoCluster, k |-> NoKey,
            view |-> NoKey, load |-> NoKey, ret |-> "idle", cand |-> {},
            status |-> s]

(***************************************************************************)
(* Credential records (conditions and updates of the DynamoDB requests)    *)
(***************************************************************************)
\* "#inUse = :false AND #revoked = :false", the filter of the Scan
Available(k) == creds[k].present /\ ~creds[k].inUse /\ ~creds[k].revoked

\* mutant of MayAcquire: the update trusts the Scan
MayAcquireUnchecked(k) == creds[k].present
\* the condition of the UpdateItem that acquires a candidate, which repeats it
MayAcquire(k) == creds[k].present /\ ~creds[k].inUse /\ ~creds[k].revoked

\* mutant of Revoked: the revoked flag is forgotten
Released(x) == [x EXCEPT !.inUse = FALSE]
\* revokeMonitoringCredential: "SET #inUse = :false, #revoked = :true"
Revoked(x) == [x EXCEPT !.inUse = FALSE, !.revoked = TRUE]

\* the condition of deleteMonitoringCredential: "#inUse = :false"
MayDelete(k) == creds[k].present /\ ~creds[k].inUse

(***************************************************************************)
(* Database calls.  A call that reports failure may nevertheless have been *)
(* carried out: the answer can be lost.                                    *)
(***************************************************************************)
Fault == faults < MaxFaults /\ faults' = faults + 1

Step(r, changes) == req' = [req EXCEPT ![r] = changes]
Goto(r, pc) == Step(r, [req[r] EXCEPT !.pc = pc])
Reply(r, s) == Step(r, Idle(s))

Begin(r, op, c, k, pc) ==
    /\ op \in Offered
    /\ req[r].pc = "idle"
    /\ Step(r, [Idle("ok") EXCEPT !.op = op, !.c = c, !.k = k,
                                    !.pc = pc, !.ret = "entry"])

(***************************************************************************)
(* Looking up a cluster: findClusterByID / findClusterByName               *)
(***************************************************************************)
\* Where a handler continues once getCluster has returned a valid cluster
\* holding credential k.
Handler(op, k) ==
    CASE op = "get"    -> IF k = NoKey THEN "scan" ELSE "serve"
      [] op = "remove" -> IF k = NoKey THEN "idle" ELSE "detach"
      [] op = "delete" -> IF k = NoKey THEN "uncacheName" ELSE "detach"
      [] OTHER         -> "put"

\* The request after a lookup has returned a cluster holding k.  The first
\* lookup gives the handler its copy of the cluster; the result of the lookup
\* that refreshes the caches after a write is not used, nor is that of
\* configPathForCluster, with which the setup of a cluster begins.
Returned(q, k) ==
    IF q.ret = "setup" THEN [q EXCEPT !.pc = "find", !.ret = "access", !.load = NoKey]
    ELSE IF q.ret # "entry" THEN [q EXCEPT !.pc = q.ret, !.load = NoKey]
    ELSE IF Handler(q.op, k) = "idle" THEN Idle("ok")
    ELSE [q EXCEPT !.pc = Handler(q.op, k), !.view = k, !.load = NoKey,
                   !.k = IF q.op \in {"remove", "delete"} THEN k ELSE q.k]

\* a lookup that finds no cluster ends the handler with 404, and the setup with an
\* exception; a refresh goes on
NotFound(q) == IF q.ret \in {"entry", "access"} THEN Idle("error")
               ELSE [q EXCEPT !.pc = q.ret]

findCached(r, cache) ==
    /\ req[r].pc = "find"
    /\ cache[req[r].c].st = "live"
    /\ Step(r, Returned(req[r], cache[req[r].c].cred))
    /\ UNCHANGED <<creds, items, byID, byName, minted, issued, served, reported, abandoned, faults>>

\* a miss: the item is fetched; by name it is found through the ByName index,
\* which an item without a name is not in, by ID findOrThrow raises an exception
fetchCluster(r, cache, incomplete) ==
    LET c == req[r].c IN
    /\ req[r].pc = "find"
    /\ cache[c].st # "live"
    /\ \/ /\ \/ ~items[c].present /\ UNCHANGED faults
             \/ Fault
          /\ Step(r, NotFound(req[r]))
       \/ /\ items[c].present /\ ~items[c].complete
          /\ Step(r, incomplete)
          /\ UNCHANGED faults
       \/ /\ items[c].complete
          /\ Step(r, [req[r] EXCEPT !.pc = "fillID", !.load = items[c].cred])
          /\ UNCHANGED faults
    /\ UNCHANGED <<creds, items, byID, byName, minted, issued, served, reported, abandoned>>

\* refreshes look the cluster up by ID; the client chooses ID or name
findClusterByID(r) ==
    findCached(r, byID) \/ fetchCluster(r, byID, Idle("error"))

findClusterByName(r) ==
    /\ req[r].ret = "entry"
    /\ findCached(r, byName) \/ fetchCluster(r, byName, NotFound(req[r]))

cacheByID(r) ==
    /\ req[r].pc = "fillID"
    /\ byID' = [byID EXCEPT ![req[r].c] = Entry(req[r].load)]
    /\ Goto(r, "fillName")
    /\ UNCHANGED <<creds, items, byName, minted, issued, served, reported, abandoned, faults>>

cacheByName(r) ==
    /\ req[r].pc = "fillName"
    /\ byName' = [byName EXCEPT ![req[r].c] = Entry(req[r].load)]
    /\ IF req[r].ret = "reply" THEN \E s \in {"ok", "error"} : Reply(r, s)
       ELSE Step(r, Returned(req[r], req[r].load))
    /\ UNCHANGED <<creds, items, byID, minted, issued, served, reported, abandoned, faults>>

\* CacheRecord::expired: an expired record is a miss.  It stays in the map, which
\* only removeCluster notices, and only for the ID cache.
ExpireByID(c) ==
    /\ byID[c].st = "live"
    /\ byID' = [byID EXCEPT ![c] = [st |-> "expired", cred |-> NoKey]]
    /\ UNCHANGED <<creds, items, byName, req, minted, issued, served, reported, abandoned, faults>>

ExpireByName(c) ==
    /\ byName[c].st = "live"
    /\ byName' = [byName EXCEPT ![c] = NoEntry]
    /\ UNCHANGED <<creds, items, byID, req, minted, issued, served, reported, abandoned, faults>>

(***************************************************************************)
(* Starting a request                                                      *)
(***************************************************************************)
UnchangedExceptReq == UNCHANGED <<creds, items, byID, byName, minted, issued,
                                  served, reported, abandoned, faults>>

BeginOnCluster(r, op, c) ==
    /\ c \in minted
    /\ Begin(r, op, c, NoKey, "find")
    /\ UnchangedExceptReq

getClusterMonitoringCredential(r, c) == BeginOnCluster(r, "get", c)
removeClusterMonitoringCredential(r, c) == BeginOnCluster(r, "remove", c)
deleteCluster(r, c) == BeginOnCluster(r, "delete", c)
updateCluster(r, c) == BeginOnCluster(r, "update", c)

createCluster(r, c) ==
    /\ c \notin minted
    /\ minted' = minted \cup {c}
    /\ Begin(r, "create", c, NoKey, "putNew")
    /\ UNCHANGED <<creds, items, byID, byName, issued, served, reported, abandoned, faults>>

revokeMonitoringCredential(r, k) ==
    Begin(r, "revoke", NoCluster, k, "getCred") /\ UnchangedExceptReq

deleteMonitoringCredential(r, k) ==
    Begin(r, "drop", NoCluster, k, "getCred") /\ UnchangedExceptReq

\* PutItem without a condition: an item already stored under the key is replaced
addMonitoringCredential(k) ==
    /\ FreshKeys => k \notin issued
    /\ issued' = issued \cup {k}
    /\ creds' = [creds EXCEPT ![k] = NewCred]
    /\ UNCHANGED <<items, byID, byName, req, minted, served, reported, abandoned, faults>>

(***************************************************************************)
(* allocateMonitoringCredential                                            *)
(***************************************************************************)
scanAvailable(r) ==
    LET found == {k \in Keys : Available(k)} IN
    /\ req[r].pc = "scan"
    /\ \/ /\ found # {}
          /\ Step(r, [req[r] EXCEPT !.pc = "acquire", !.cand = found])
          /\ UNCHANGED faults
       \/ /\ \/ found = {} /\ UNCHANGED faults
             \/ Fault
          /\ Reply(r, "error")
    /\ UNCHANGED <<creds, items, byID, byName, minted, issued, served, reported, abandoned>>

\* mutant of NextCandidate: the candidate is tried again
SameCandidate(r, k) == Goto(r, "acquire")
\* the next candidate, or a new Scan when none is left
NextCandidate(r, k) ==
    Step(r, [req[r] EXCEPT !.cand = @ \ {k},
                           !.pc = IF @ = "acquire" /\ req[r].cand = {k}
                                  THEN "scan" ELSE "acquire"])

\* mutant of Acquired: the update has no effect
AcquiredNothing(k) == creds
Acquired(k) == [creds EXCEPT ![k].inUse = TRUE]

acquireCandidate(r, k) ==
    /\ req[r].pc = "acquire"
    /\ k \in req[r].cand
    /\ \/ /\ MayAcquire(k)
          /\ creds' = Acquired(k)
          /\ Step(r, [req[r] EXCEPT !.pc = "set", !.k = k, !.cand = {}])
          /\ UNCHANGED faults
       \/ /\ ~MayAcquire(k)
          /\ NextCandidate(r, k)
          /\ UNCHANGED <<creds, faults>>
       \/ /\ Fault
          /\ \/ UNCHANGED creds
             \/ MayAcquire(k) /\ creds' = Acquired(k)
          /\ NextCandidate(r, k)
    /\ UNCHANGED <<items, byID, byName, minted, issued, served, reported, abandoned>>

(***************************************************************************)
(* setClusterMonitoringCredential, removeClusterMonitoringCredential: a    *)
(* conditional UpdateItem, then the cache entry is erased and reloaded     *)
(***************************************************************************)
\* "attribute_not_exists(#monCredential) OR #monCredential = :nocred";
\* UpdateItem creates an item that does not exist
MaySet(c) == items[c].cred = NoKey
WithCred(c, k) == [items EXCEPT ![c].present = TRUE, ![c].cred = k]

setClusterCredential(r) ==
    LET c == req[r].c IN
    LET k == req[r].k IN
    /\ req[r].pc = "set"
    /\ \/ /\ MaySet(c)
          /\ items' = WithCred(c, k)
          /\ Step(r, [req[r] EXCEPT !.pc = "erase", !.view = k, !.ret = "serve"])
          /\ UNCHANGED <<reported, faults>>
       \/ /\ \/ ~MaySet(c) /\ UNCHANGED <<items, faults>>
             \/ Fault /\ UNCHANGED items
             \/ Fault /\ MaySet(c) /\ items' = WithCred(c, k)
          /\ reported' = reported \cup {k}
          /\ Reply(r, "error")
    /\ UNCHANGED <<creds, byID, byName, minted, issued, served, abandoned>>

detachClusterCredential(r) ==
    LET c == req[r].c IN
    /\ req[r].pc = "detach"
    /\ \/ /\ items[c].present
          /\ items' = [items EXCEPT ![c].cred = NoKey]
          /\ Step(r, [req[r] EXCEPT !.pc = "erase", !.ret = "revokeKey"])
          /\ UNCHANGED faults
       \/ /\ \/ ~items[c].present /\ UNCHANGED <<items, faults>>
             \/ Fault /\ UNCHANGED items
             \/ Fault /\ items[c].present /\ items' = [items EXCEPT ![c].cred = NoKey]
          /\ Reply(r, "error")
    /\ UNCHANGED <<creds, byID, byName, minted, issued, served, reported, abandoned>>

\* mutant of eraseCacheEntry: the entry is not erased, so nothing is reloaded
keepCacheEntry(r) ==
    /\ req[r].pc = "erase"
    /\ Goto(r, "find")
    /\ UNCHANGED <<creds, items, byID, byName, minted, issued, served, reported, abandoned, faults>>

eraseCacheEntry(r) ==
    /\ req[r].pc = "erase"
    /\ byID' = [byID EXCEPT ![req[r].c] = NoEntry]
    /\ Goto(r, "find")
    /\ UNCHANGED <<creds, items, byName, minted, issued, served, reported, abandoned, faults>>

\* the credential is returned to the client
serveCredential(r) ==
    /\ req[r].pc = "serve"
    /\ served' = served \cup {<<req[r].c, req[r].view>>}
    /\ Reply(r, "ok")
    /\ UNCHANGED <<creds, items, byID, byName, minted, issued, reported, abandoned, faults>>

(***************************************************************************)
(* Revoking and deleting credential records                                *)
(***************************************************************************)
getMonitoringCredential(r) ==
    /\ req[r].pc = "getCred"
    /\ \/ /\ creds[req[r].k].present
          /\ Goto(r, IF req[r].op = "revoke" THEN "findUsing" ELSE "dbDrop")
          /\ UNCHANGED faults
       \/ /\ \/ ~creds[req[r].k].present /\ UNCHANGED faults
             \/ Fault
          /\ Reply(r, "error")
    /\ UNCHANGED <<creds, items, byID, byName, minted, issued, served, reported, abandoned>>

\* a Scan; the handler also goes on when it fails
findClusterUsingCredential(r) ==
    LET using == {c \in Clusters : items[c].cred = req[r].k} IN
    /\ req[r].pc = "findUsing"
    /\ \/ \E c \in using :
            /\ items[c].complete
            /\ Step(r, [req[r] EXCEPT !.pc = "fillID", !.c = c,
                                      !.load = req[r].k, !.ret = "detach"])
            /\ UNCHANGED faults
       \/ /\ \E c \in using : ~items[c].complete
          /\ Reply(r, "error")
          /\ UNCHANGED faults
       \/ /\ \/ using = {} /\ UNCHANGED faults
             \/ Fault
          /\ Goto(r, "revokeKey")
    /\ UNCHANGED <<creds, items, byID, byName, minted, issued, served, reported, abandoned>>

\* What each caller does with the outcome of the revocation.  The internal
\* helper behind "remove" and "delete" tests the wrong flag and goes on.
AfterRevocation(q, done) ==
    CASE q.op = "revoke" -> Idle(IF done THEN "ok" ELSE "error")
      [] q.op = "remove" -> Idle("ok")
      [] OTHER -> [q EXCEPT !.pc = "uncacheName"]

markRevoked(k) == [creds EXCEPT ![k] = Revoked(@)]

revokeKey(r) ==
    LET k == req[r].k IN
    /\ req[r].pc = "revokeKey"
    /\ \/ /\ creds[k].present
          /\ creds' = markRevoked(k)
          /\ Step(r, AfterRevocation(req[r], TRUE))
          /\ UNCHANGED faults
       \/ /\ \/ ~creds[k].present /\ UNCHANGED <<creds, faults>>
             \/ Fault /\ UNCHANGED creds
             \/ Fault /\ creds[k].present /\ creds' = markRevoked(k)
          /\ Step(r, AfterRevocation(req[r], FALSE))
    /\ UNCHANGED <<items, byID, byName, minted, issued, served, reported, abandoned>>

dropCredential(r) ==
    LET k == req[r].k IN
    /\ req[r].pc = "dbDrop"
    /\ \/ /\ MayDelete(k)
          /\ creds' = [creds EXCEPT ![k] = NoCred]
          /\ Reply(r, "ok")
          /\ UNCHANGED faults
       \/ /\ \/ ~MayDelete(k) /\ UNCHANGED <<creds, faults>>
             \/ Fault /\ UNCHANGED creds
             \/ Fault /\ MayDelete(k) /\ creds' = [creds EXCEPT ![k] = NoCred]
          /\ Reply(r, "error")
    /\ UNCHANGED <<items, byID, byName, minted, issued, served, reported, abandoned>>

(***************************************************************************)
(* Writing and deleting cluster records                                    *)
(***************************************************************************)
Whole(k) == [present |-> TRUE, complete |-> TRUE, cred |-> k]

\* addCluster: PutItem, then both caches, then the setup of the cluster
addCluster(r) ==
    LET c == req[r].c IN
    /\ req[r].pc = "putNew"
    /\ \/ /\ items' = [items EXCEPT ![c] = Whole(NoKey)]
          /\ Step(r, [req[r] EXCEPT !.pc = "fillID", !.ret = "setup"])
          /\ UNCHANGED faults
       \/ /\ Fault
          /\ \/ UNCHANGED items
             \/ items' = [items EXCEPT ![c] = Whole(NoKey)]
          /\ Reply(r, "error")
    /\ UNCHANGED <<creds, byID, byName, minted, issued, served, reported, abandoned>>

\* an update that is refused, or changes nothing but locations
keepRecord(r) ==
    /\ req[r].pc = "put"
    /\ \E s \in {"ok", "error"} : Reply(r, s)
    /\ UnchangedExceptReq

\* PersistentStore::updateCluster writes every attribute of the handler's copy,
\* the credential included, whether or not the item still exists.  A request with
\* a new kubeconfig goes on to the setup, any other to the locations and its answer.
putCluster(r) ==
    LET c == req[r].c IN
    /\ req[r].pc = "put"
    /\ \/ /\ items' = [items EXCEPT ![c] = Whole(req[r].view)]
          /\ \E ret \in {"setup", "reply"} :
               Step(r, [req[r] EXCEPT !.pc = "fillID", !.load = req[r].view, !.ret = ret])
          /\ UNCHANGED faults
       \/ /\ Fault
          /\ \/ UNCHANGED items
             \/ items' = [items EXCEPT ![c] = Whole(req[r].view)]
          /\ Reply(r, "error")
    /\ UNCHANGED <<creds, byID, byName, minted, issued, served, reported, abandoned>>

(***************************************************************************)
(* ensureClusterSetup, the end of createCluster and of an updateCluster    *)
(* that brings a kubeconfig                                                *)
(***************************************************************************)
\* kubectl is asked for the service accounts and their namespace.  A cluster that
\* cannot be reached loses its record when it is created, and keeps it when it is
\* updated; wrong accounts cost it its record in both cases, or only an answer.
checkAccess(r) ==
    /\ req[r].pc = "access"
    /\ \/ Goto(r, "rewrite")
       \/ Goto(r, "uncacheName")
       \/ Reply(r, "error")
    /\ UnchangedExceptReq

\* the handler's copy is written a second time; nobody looks at the outcome
rewriteCluster(r) ==
    LET c == req[r].c IN
    /\ req[r].pc = "rewrite"
    /\ \/ /\ items' = [items EXCEPT ![c] = Whole(req[r].view)]
          /\ Step(r, [req[r] EXCEPT !.pc = "fillID", !.load = req[r].view, !.ret = "ready"])
          /\ UNCHANGED faults
       \/ /\ Fault
          /\ \/ UNCHANGED items
             \/ items' = [items EXCEPT ![c] = Whole(req[r].view)]
          /\ Goto(r, "ready")
    /\ UNCHANGED <<creds, byID, byName, minted, issued, served, reported, abandoned>>

\* helm 2 must be able to run its tiller; where it cannot, the record is removed
checkHelm(r) ==
    /\ req[r].pc = "ready"
    /\ \/ Goto(r, "uncacheName")
       \/ \E s \in {"ok", "error"} : Reply(r, s)
    /\ UnchangedExceptReq

(***************************************************************************)
(* PersistentStore::removeCluster, called by deleteCluster and by a setup  *)
(* that fails                                                              *)
(***************************************************************************)
\* removeCluster: the name is taken from the ID cache, if it is there
uncacheName(r) ==
    LET c == req[r].c IN
    /\ req[r].pc = "uncacheName"
    /\ byName' = IF byID[c].st # "none" THEN [byName EXCEPT ![c] = NoEntry] ELSE byName
    /\ Goto(r, "uncacheID")
    /\ UNCHANGED <<creds, items, byID, minted, issued, served, reported, abandoned, faults>>

uncacheID(r) ==
    /\ req[r].pc = "uncacheID"
    /\ byID' = [byID EXCEPT ![req[r].c] = NoEntry]
    /\ Goto(r, "dbDelete")
    /\ UNCHANGED <<creds, items, byName, minted, issued, served, reported, abandoned, faults>>

\* deleteCluster has revoked the credential before; a failed setup ignores it
removeCluster(r) ==
    LET c == req[r].c IN
    /\ req[r].pc = "dbDelete"
    /\ \/ /\ items' = [items EXCEPT ![c] = NoItem]
          /\ Reply(r, IF req[r].op = "delete" THEN "ok" ELSE "error")
          /\ UNCHANGED faults
       \/ /\ Fault
          /\ \/ UNCHANGED items
             \/ items' = [items EXCEPT ![c] = NoItem]
          /\ Reply(r, "error")
    /\ abandoned' = IF req[r].op = "delete" THEN abandoned
                    ELSE abandoned \cup ({items[c].cred} \ {items'[c].cred, NoKey})
    /\ UNCHANGED <<creds, byID, byName, minted, issued, served, reported>>

(***************************************************************************)
(* The specification                                                       *)
(***************************************************************************)
Init ==
    /\ creds = [k \in Keys |-> NoCred]
    /\ items = [c \in Clusters |-> NoItem]
    /\ byID = [c \in Clusters |-> NoEntry]
    /\ byName = [c \in Clusters |-> NoEntry]
    /\ req = [r \in Requests |-> Idle("ok")]
    /\ minted = {} /\ issued = {} /\ served = {} /\ reported = {}
    /\ abandoned = {}
    /\ faults = 0

Start(r) ==
    \/ \E c \in Clusters :
        \/ getClusterMonitoringCredential(r, c)
        \/ removeClusterMonitoringCredential(r, c)
        \/ deleteCluster(r, c)
        \/ updateCluster(r, c)
        \/ createCluster(r, c)
    \/ \E k \in Keys :
        \/ revokeMonitoringCredential(r, k)
        \/ deleteMonitoringCredential(r, k)

\* the next step of a request under way
Proceed(r) ==
    \/ findClusterByID(r) \/ findClusterByName(r)
    \/ cacheByID(r) \/ cacheByName(r)
    \/ scanAvailable(r)
    \/ \E k \in Keys : acquireCandidate(r, k)
    \/ setClusterCredential(r) \/ detachClusterCredential(r)
    \/ eraseCacheEntry(r) \/ serveCredential(r)
    \/ getMonitoringCredential(r) \/ findClusterUsingCredential(r)
    \/ revokeKey(r) \/ dropCredential(r)
    \/ addCluster(r) \/ keepRecord(r) \/ putCluster(r)
    \/ checkAccess(r) \/ rewriteCluster(r) \/ checkHelm(r)
    \/ uncacheName(r) \/ uncacheID(r) \/ removeCluster(r)

Next ==
    \/ \E r \in Requests : Start(r) \/ Proceed(r)
    \/ \E k \in Keys : addMonitoringCredential(k)
    \/ \E c \in Clusters : ExpireByID(c) \/ ExpireByName(c)

Spec == Init /\ [][Next]_vars

\* A thread that has a request to execute keeps executing it.
FairSpec == Spec /\ \A r \in Requests : WF_vars(Proceed(r))

(***************************************************************************)
(* Properties                                                              *)
(***************************************************************************)
\* Every variable has its type: the items and cache entries the handlers build
\* have the shape the next reader of the table or of the cache expects.
TypeOK ==
    /\ creds \in [Keys -> CredItem]
    /\ items \in [Clusters -> ClusterItem]
    /\ byID \in [Clusters -> CacheEntry]
    /\ byName \in [Clusters -> CacheEntry]
    /\ req \in [Requests -> Request]
    /\ minted \subseteq Clusters
    /\ issued \subseteq Keys
    /\ served \subseteq Clusters \X Keys
    /\ reported \subseteq Keys
    /\ abandoned \subseteq Keys
    /\ faults \in 0..MaxFaults

\* However requests interleave, whichever copy of a cluster record they write
\* back and whichever database answers are lost, no two cluster records ever
\* name the same credential (allocateMonitoringCredential's conditional
\* update, setClusterMonitoringCredential, updateCluster).
NoSharedCredential ==
    \A c, d \in Clusters :
        items[c].cred = items[d].cred /\ items[c].cred # NoKey => c = d

\* Over the whole history of the server, a credential returned to the owner of
\* one cluster is never returned to the owner of another, even after it has
\* been removed, revoked or deleted (getClusterMonitoringCredential).
ServedToOneCluster ==
    \A x, y \in served : x[2] = y[2] => x[1] = y[1]

\* A credential that has left the pool (it is in use or revoked) never becomes
\* available for allocation again: no request, and no lost answer, can undo what
\* allocateMonitoringCredential and revokeMonitoringCredential wrote.
NeverBackInPool ==
    [][\A k \in Keys : creds[k].inUse \/ creds[k].revoked => ~Available(k)']_vars

Quiescent == \A r \in Requests : req[r].pc = "idle"
\* between requests, as long as no database call has reported failure
Settled == Quiescent /\ faults = 0

\* Between requests, and unless a database call failed, a credential that a cluster
\* record names is marked in use, and one marked in use is named by a record, or was
\* until a failing setup removed it: nothing else leaks a credential, and none is used
\* behind the pool's back.
InUseAccounted ==
    LET held == {items[c].cred : c \in Clusters}
        used == {k \in Keys : creds[k].inUse}
    IN  Settled => held \ {NoKey} \subseteq used /\ used \subseteq held \cup abandoned

\* Between requests, and unless a database call failed, no cluster record names a
\* credential that was revoked.
RevokedNotHeld ==
    Settled => \A c \in Clusters :
        items[c].cred # NoKey => ~creds[items[c].cred].revoked

\* Unless a database call failed, the server never has to tell the operators that
\* an allocated credential could not be recorded.
NothingReported == faults = 0 => reported = {}

\* Between requests, and unless a database call failed, a cluster record found in
\* either cache is the record in the database.
CachesCoherent ==
    Settled => \A c \in Clusters : \A e \in {byID[c], byName[c]} :
        e.st = "live" => items[c] = Whole(e.cred)

\* Between requests, and unless a database call failed, a cluster that is in the
\* by-name cache is also in the main cache, on which removeCluster relies to find
\* the name to erase.
CachesSynchronized ==
    Settled => \A c \in Clusters : byName[c].st # "none" => byID[c].st # "none"

\* The pool's flags, the cluster records and both cluster caches tell the same
\* (allocateMonitoringCredential, revokeMonitoringCredential, addCluster,
\* updateCluster, removeCluster), between requests and unless a call failed.
PoolAccounted ==
    /\ InUseAccounted /\ RevokedNotHeld /\ NothingReported
    /\ CachesCoherent /\ CachesSynchronized

\* A request to update a cluster does not delete its record: "Don't automatically
\* delete cluster record if we get an error" (updateCluster, where it calls
\* ensureClusterSetup).
UpdateKeepsRecord ==
    [][\A r \in Requests : \A c \in Clusters :
        req[r].op = "update" /\ req[r].c = c /\ req'[r] # req[r] /\ items[c].present
            => items'[c].present]_vars

\* A request for a cluster's credential is answered: the loop that looks for an
\* available credential does not run for ever.
AllocationEnds ==
    \A r \in Requests : req[r].pc = "scan" ~> req[r].pc \notin {"scan", "acquire"}

(***************************************************************************)
(* The inductive invariant behind NoSharedCredential, ServedToOneCluster   *)
(* and NeverBackInPool                                                     *)
(***************************************************************************)
OnCluster == {"find", "fillID", "fillName", "scan", "acquire", "set", "detach",
              "erase", "put", "putNew", "uncacheName", "uncacheID", "dbDelete", "serve",
              "access", "rewrite", "ready"}
OnKey == {"set", "detach", "revokeKey", "getCred", "findUsing", "dbDrop"}

\* a request has the operands that the step it is at, or the one it will go on
\* to after a lookup, needs
Control(q) ==
    /\ q.pc \in OnCluster => q.c \in Clusters
    /\ q.pc \in OnKey => q.k \in Keys
    /\ q.pc = "serve" => q.view \in Keys
    /\ q.pc \in {"getCred", "findUsing"} => q.view = NoKey
    /\ q.pc = "findUsing" => q.op = "revoke"
    /\ q.pc = "revokeKey" /\ q.op # "revoke" => q.c \in Clusters
    /\ q.pc \in {"find", "erase", "fillID", "fillName"} =>
        /\ q.ret # "idle"
        /\ q.ret \in {"revokeKey", "detach"} => q.k \in Keys
        /\ q.ret = "serve" => q.view \in Keys
    /\ q.pc \in {"find", "erase"} => q.ret \notin {"detach", "reply", "setup", "ready"}
    /\ q.pc = "erase" => q.ret \notin {"entry", "access"}

ControlOK == \A r \in Requests : Control(req[r])

\* a request links key k to cluster c
Links(q, k, c) == q.c = c /\ k \in {q.k, q.view, q.load}

\* k is linked to c somewhere: in the table, in a cache, in the memory of a
\* request or in an answer already given
Bound(k, c) ==
    \/ items[c].cred = k
    \/ byID[c].cred = k \/ byName[c].cred = k
    \/ <<c, k>> \in served
    \/ \E r \in Requests : Links(req[r], k, c)

\* a key is linked to one cluster at most
Exclusive ==
    \A k \in Keys : \A c, d \in Clusters : Bound(k, c) /\ Bound(k, d) => c = d

\* a key that is linked to a cluster has been added and cannot be allocated
BoundTaken ==
    \A k \in Keys : \A c \in Clusters : Bound(k, c) => k \in issued /\ ~Available(k)

\* a key that was never added has no record
RecordsIssued ==
    \A k \in Keys : creds[k].present \/ creds[k].inUse \/ creds[k].revoked => k \in issued

IInv == TypeOK /\ ControlOK /\ Exclusive /\ BoundTaken /\ RecordsIssued
=============================================================================

------------------------------ MODULE Workloads ------------------------------
(***************************************************************************)
(* What groups run on clusters: application instances, secrets and         *)
(* persistent volume claims, each with a record in the database, entries   *)
(* in the expiring caches and an object in Kubernetes (a helm release, a   *)
(* secret, a claim), and the cascades that delete them with their cluster  *)
(* or group.                                                               *)
(*                                                                         *)
(* The three kinds share this structure and differ in details (see Kinds); *)
(* they have tables and caches of their own, so a behaviour is about the   *)
(* requests for one of them.  A request is a sequence of atomic database,  *)
(* kubectl and helm calls and cache updates with which those of another    *)
(* request interleave.  Requests refused by the checks of authorization    *)
(* (GroupMembership, ClusterAccess) and of the request's body have no      *)
(* effect and are not represented.                                         *)
(***************************************************************************)
EXTENDS Naturals, FiniteSets

CONSTANTS
    Requests,   \* server threads
    Objects,    \* record IDs; IDGenerator never issues one twice
    Names,      \* names of objects, unique within a group on a cluster
    Groups,     \* group IDs
    Clusters,   \* cluster IDs
    GroupOf,    \* the group that owns each object
    Owner,      \* the group that owns each cluster
    Kinds,      \* the kinds examined
    Versions,   \* configurations of instances
    Default,    \* the chart's own configuration, deployed for an empty one
    None,       \* no object, no cluster
    Forces,     \* values of the requests' parameter force
    Cascades,   \* whether groups and clusters are deleted
    MaxFaults   \* bound: calls that may fail

ASSUME WorkloadAssumption ==
    /\ IsFiniteSet(Objects) \* IDs have a fixed length
    /\ GroupOf \in [Objects -> Groups]
    /\ Kinds \subseteq {"instance", "secret", "volume"}
    /\ None \notin Objects \cup Clusters \cup Versions
    /\ Default \notin Versions \cup {None}
    /\ Forces \subseteq BOOLEAN /\ Cascades \in BOOLEAN
    /\ MaxFaults \in Nat

VARIABLES
    kind,       \* the kind of object the behaviour is about
    nameOf,     \* the name each object has
    clusterOf,  \* the cluster each object is placed on
    groups,     \* groups that exist
    clusters,   \* clusters that exist
    table,      \* records in the database
    configs,    \* the configuration items of instances
    main,       \* instanceCache, secretCache, volumeCache
    cat,        \* the caches by group, by cluster and by both
    allValid,   \* instanceCacheExpirationTime, volumeCacheExpirationTime
    configCache,\* instanceConfigCache
    holder,     \* the record each object in Kubernetes was deployed for, None where there is none
    deployed,   \* the configuration each of them was deployed with
    issued,     \* IDs that were issued
    req,        \* the request each thread is executing
    overlapped, \* whether two requests were ever in progress at a time
    struck,     \* whether an object was ever deleted on behalf of another record
    faults      \* calls that have failed

vars == <<kind, nameOf, clusterOf, groups, clusters, table, configs, main, cat, allValid,
          configCache, holder, deployed, issued, req, overlapped, struck, faults>>
fixed == <<kind, nameOf, clusterOf>>
stored == <<table, configs>>
listings == <<main, cat, allValid>>
caches == <<main, cat, allValid, configCache>>
kubernetes == <<holder, deployed>>
places == <<groups, clusters>>

\* Kubernetes knows an object by its kind, cluster, namespace (one per group) and name
Slot(o) == <<clusterOf[o], GroupOf[o], nameOf[o]>>
Slots == Clusters \X Groups \X Names
running == {k \in Slots : holder[k] # None}
runAs(k, o, v) == holder' = [holder EXCEPT ![k] = o] /\ deployed' = [deployed EXCEPT ![k] = v]
takeDown(S) == holder' = [k \in Slots |-> IF k \in S THEN None ELSE holder[k]]

\* the caches' keys: a group, a cluster, a group on a cluster
Keys == {<<"group", g>> : g \in Groups} \cup {<<"cluster", c>> : c \in Clusters}
        \cup {<<"both", g, c>> : g \in Groups, c \in Clusters}
Whole == <<"all">>
KeysOf(o) == {<<"group", GroupOf[o]>>, <<"cluster", clusterOf[o]>>,
              <<"both", GroupOf[o], clusterOf[o]>>}
Matching(key) == IF key = Whole THEN Objects ELSE {o \in Objects : key \in KeysOf(o)}
\* there is no cache of the secrets by cluster
IsCached(key) == ~(kind = "secret" /\ key[1] = "cluster")

\* as in GroupMembership: values present, those not expired, whether it is complete;
\* old are the values that expire before the category does
Category == [known : SUBSET Objects, live : SUBSET Objects, old : SUBSET Objects, valid : BOOLEAN]
NoCategory == [known |-> {}, live |-> {}, old |-> {}, valid |-> FALSE]

insertAll(c, S) == [c EXCEPT !.known = @ \cup S, !.live = @ \cup S, !.old = @ \ S]
eraseOne(c, x) ==
    IF c.known \subseteq {x} THEN NoCategory
    ELSE [c EXCEPT !.known = @ \ {x}, !.live = @ \ {x}, !.old = @ \ {x}]
\* renewed: whether the listing has inserted its result, and with it new expirations
update_expiration(c, renewed) ==
    IF c.known = {} THEN c
    ELSE [c EXCEPT !.valid = TRUE, !.old = IF renewed THEN {} ELSE c.live]

(***************************************************************************)
(* Requests                                                                *)
(***************************************************************************)
Ops == {"none", "list", "get", "create", "delete", "update", "restart",
        "deleteGroup", "deleteCluster"}
PCs == {"idle", "find", "fill", "config", "list", "listFill", "listMark", "put", "putConfig", "cache",
        "namespace", "deploy", "cleanup", "undeploy", "stop", "reinstall", "uncache", "dbDelete",
        "dbDeleteConfig", "next", "ping", "namespaces", "removeGroup", "removeCluster"}

\* o, key: the object and the listing the request is at; todo: what is left of a
\* listing's result; config: the configuration to deploy; force: the request's
\* parameter; bad: whether a deletion of a cascade failed; then: what follows a
\* removal; c: the cluster of a cascade; reach: whether the ping reached it
Request == [op : Ops, pc : PCs, o : Objects \cup {None}, key : Keys \cup {Whole},
            todo : SUBSET Objects, force : BOOLEAN, bad : BOOLEAN,
            then : {"idle", "put", "cleanup", "next"},
            c : Clusters \cup {None}, owned : SUBSET Clusters, reach : BOOLEAN,
            config : Versions \cup {Default, None}]
Idle == [op |-> "none", pc |-> "idle", o |-> None, key |-> Whole, todo |-> {},
         force |-> FALSE, bad |-> FALSE, then |-> "idle", c |-> None, owned |-> {},
         reach |-> TRUE, config |-> None]

Alone(r) == \A s \in Requests \ {r} : req[s].pc = "idle"
\* calls fail in requests that run alone
Fault(r) == Alone(r) /\ ~overlapped /\ faults < MaxFaults /\ faults' = faults + 1

Step(r, q) == req' = [req EXCEPT ![r] = q]
Goto(r, pc) == Step(r, [req[r] EXCEPT !.pc = pc])
At(r, pc) == req[r].pc = pc
\* internal::deleteCluster: the instances come first, from the list of all; owned
\* are the clusters that remain to be deleted with their group
ClusterCascade(c, force, owned) ==
    [Idle EXCEPT !.op = "deleteCluster", !.pc = IF kind = "instance" THEN "list" ELSE "ping",
                 !.key = IF kind = "instance" THEN Whole ELSE <<"cluster", c>>,
                 !.c = c, !.force = force, !.owned = owned]
Cascade(q) == q.op \in {"deleteGroup", "deleteCluster"}

(***************************************************************************)
(* Reading one record: getApplicationInstance, getSecret,                  *)
(* getPersistentVolumeClaim                                                *)
(***************************************************************************)
AfterFind(q) ==
    CASE q.op = "delete"  -> [q EXCEPT !.pc = "undeploy"]
      [] q.op = "update"  -> [q EXCEPT !.pc = "stop"]
      [] q.op = "restart" -> [q EXCEPT !.pc = "config"]
      [] OTHER            -> Idle

getObject(r) ==
    LET q == req[r] IN
    /\ At(r, "find")
    /\ \/ main[q.o] = "live" /\ Step(r, AfterFind(q)) /\ UNCHANGED faults
       \/ main[q.o] # "live" /\ q.o \in table /\ Goto(r, "fill") /\ UNCHANGED faults
       \/ main[q.o] # "live" /\ q.o \notin table /\ Step(r, Idle) /\ UNCHANGED faults
       \/ main[q.o] # "live" /\ Fault(r) /\ Step(r, Idle)
    /\ UNCHANGED <<fixed, places, stored, caches, kubernetes, issued>>

\* replaceCacheRecord and insert_or_assign for the records S, in the categories K
Filled(S, K) ==
    [k \in Keys |-> IF IsCached(k) /\ k \in K THEN insertAll(cat[k], S \cap Matching(k))
                    ELSE cat[k]]
fillAll(S) ==
    /\ main' = [o \in Objects |-> IF o \in S THEN "live" ELSE main[o]]
    /\ cat' = Filled(S, Keys)
    /\ UNCHANGED allValid

cacheFound(r) ==
    /\ At(r, "fill")
    /\ fillAll({req[r].o})
    /\ Step(r, AfterFind(req[r]))
    /\ UNCHANGED <<fixed, places, stored, configCache, kubernetes, issued, faults>>

\* getApplicationInstanceConfig, called by restartApplicationInstance: an item that
\* is missing or cannot be read looks like an empty configuration
getConfig(r) ==
    LET q == req[r]
        Go(v) == Step(r, [q EXCEPT !.pc = "stop", !.config = IF v = None THEN Default ELSE v]) IN
    /\ At(r, "config")
    /\ \/ configCache[q.o] \in Versions /\ Go(configCache[q.o]) /\ UNCHANGED <<configCache, faults>>
       \/ /\ configCache[q.o] \notin Versions
          /\ Go(configs[q.o])
          /\ configCache' = IF configs[q.o] = None THEN configCache
                            ELSE [configCache EXCEPT ![q.o] = configs[q.o]]
          /\ UNCHANGED faults
       \/ configCache[q.o] \notin Versions /\ Fault(r) /\ Go(None) /\ UNCHANGED configCache
    /\ UNCHANGED <<fixed, places, stored, listings, kubernetes, issued>>

(***************************************************************************)
(* Listings                                                                *)
(***************************************************************************)
\* where the handler goes on with a listing's result S; createX looks for the name
AfterList(q, S) ==
    CASE q.op = "create" ->
           IF \E x \in S : nameOf[x] = nameOf[q.o] THEN Idle ELSE [q EXCEPT !.pc = "put"]
      [] Cascade(q)      ->
           [q EXCEPT !.pc = "next", !.todo = {o \in S : q.c = None \/ clusterOf[o] = q.c}]
      [] OTHER           -> Idle

Served(key) == IF key = Whole THEN allValid ELSE cat[key].valid
\* the listing of everything returns expired records too, the others leave them out
FromCache(key) == IF key = Whole THEN {o \in Objects : main[o] # "none"} ELSE cat[key].live

\* From the caches if the category is up to date, else a Query or a paged Scan; a
\* failed one looks like the end of the results.  Without a match, listings other
\* than those of secrets return at once.
listObjects(r) ==
    LET q == req[r]
        found == table \cap Matching(q.key) IN
    /\ At(r, "list")
    /\ \/ Served(q.key) /\ Step(r, AfterList(q, FromCache(q.key))) /\ UNCHANGED faults
       \/ /\ ~Served(q.key) /\ (found = {} => q.key = Whole)
          /\ Step(r, [q EXCEPT !.pc = "listFill", !.todo = found]) /\ UNCHANGED faults
       \/ /\ ~Served(q.key) /\ found = {} /\ q.key # Whole
          /\ Step(r, AfterList(q, {})) /\ UNCHANGED faults
       \/ ~Served(q.key) /\ Fault(r) /\ Step(r, AfterList(q, {}))
    /\ UNCHANGED <<fixed, places, stored, caches, kubernetes, issued>>

\* listPersistentVolumeClaimsByClusterOrGroup leaves volumeByClusterCache alone
FilledByListing(q, k) == ~(kind = "volume" /\ q.key # Whole /\ k[1] = "cluster")

cacheListed(r) ==
    LET q == req[r] IN
    /\ At(r, "listFill")
    /\ main' = [o \in Objects |-> IF o \in q.todo THEN "live" ELSE main[o]]
    /\ cat' = Filled(q.todo, {k \in Keys : FilledByListing(q, k)})
    /\ Goto(r, "listMark")
    /\ UNCHANGED <<fixed, places, stored, allValid, configCache, kubernetes, issued, faults>>

\* Which categories count as up to date after a listing: the one asked for; the
\* Scan of the volumes also marks those of all groups and clusters it met.
Marked(q) ==
    IF q.key # Whole THEN {q.key}
    ELSE IF kind = "volume"
    THEN {<<"group", GroupOf[o]>> : o \in q.todo} \cup {<<"cluster", clusterOf[o]>> : o \in q.todo}
         \cup {<<"both", GroupOf[o], clusterOf[p]>> : o \in q.todo, p \in q.todo}
    ELSE {}
markListed(r) ==
    LET q == req[r] IN
    /\ At(r, "listMark")
    /\ cat' = [k \in Keys |->
                  IF IsCached(k) /\ k \in Marked(q)
                  THEN update_expiration(cat[k], FilledByListing(q, k))
                  ELSE cat[k]]
    /\ allValid' = (allValid \/ q.key = Whole)
    /\ Step(r, AfterList(q, q.todo))
    /\ UNCHANGED <<fixed, places, stored, main, configCache, kubernetes, issued, faults>>

(***************************************************************************)
(* addApplicationInstance (two items), addSecret, addPersistentVolumeClaim *)
(***************************************************************************)
\* the handlers of creations answer 500; updateApplicationInstance ignores a failure
putRecord(r) ==
    LET q == req[r]
        more == table \cup {q.o} IN
    /\ At(r, "put")
    /\ \/ table' = more /\ Goto(r, IF kind = "instance" THEN "putConfig" ELSE "cache")
          /\ UNCHANGED faults
       \/ Fault(r) /\ table' \in {table, more} /\ Step(r, Idle)
    /\ UNCHANGED <<fixed, places, configs, caches, kubernetes, issued>>

putConfig(r) ==
    LET q == req[r]
        more == [configs EXCEPT ![q.o] = q.config] IN
    /\ At(r, "putConfig")
    /\ \/ configs' = more /\ Goto(r, "cache") /\ UNCHANGED faults
       \/ Fault(r) /\ configs' \in {configs, more} /\ Step(r, Idle)
    /\ UNCHANGED <<fixed, places, table, caches, kubernetes, issued>>

\* the configuration is inserted only if the cache has none, expired or not
cacheNew(r) ==
    LET q == req[r] IN
    /\ At(r, "cache")
    /\ fillAll({q.o})
    /\ configCache' = IF kind = "instance" /\ configCache[q.o] = None
                      THEN [configCache EXCEPT ![q.o] = q.config] ELSE configCache
    /\ Step(r, IF q.op = "create" THEN [q EXCEPT !.pc = "namespace"] ELSE Idle)
    /\ UNCHANGED <<fixed, places, stored, kubernetes, issued, faults>>

(***************************************************************************)
(* Deployment: kubectl_create_namespace, then kubectl create or helm       *)
(* install, which Kubernetes refuses if the name is taken                  *)
(***************************************************************************)
\* a namespace that exists already is as good as a new one; otherwise it throws
kubectl_create_namespace(r, created) ==
    IF created THEN UNCHANGED faults ELSE Fault(r)
\* the record is removed again, also by updates and restarts
createNamespace(r) ==
    /\ At(r, "namespace")
    /\ \/ kubectl_create_namespace(r, TRUE) /\ Goto(r, "deploy")
       \/ /\ kubectl_create_namespace(r, FALSE)
          /\ Step(r, [req[r] EXCEPT !.pc = "uncache", !.then = "idle"])
    /\ UNCHANGED <<fixed, places, stored, caches, kubernetes, issued>>

Deployed(q) ==
    IF q.op = "update" THEN [q EXCEPT !.pc = "uncache", !.then = "put"] ELSE Idle
\* a failed creation removes the record; helm's broken release is then cleaned up
NotDeployed(q) ==
    IF q.op # "create" THEN [q EXCEPT !.pc = "cleanup"]
    ELSE [q EXCEPT !.pc = "uncache", !.then = IF kind = "instance" THEN "cleanup" ELSE "idle"]

\* mutant of deploy: the object is created although the name is taken
deployOver(r) ==
    LET q == req[r] IN
    /\ At(r, "deploy")
    /\ \/ runAs(Slot(q.o), q.o, q.config) /\ Step(r, Deployed(q)) /\ UNCHANGED faults
       \/ Fault(r) /\ Step(r, NotDeployed(q)) /\ UNCHANGED kubernetes
    /\ UNCHANGED <<fixed, places, stored, caches, issued>>
\* A deployment that fails may leave its object behind: with helm, a broken release;
\* with kubectl, when the answer is lost.
deploy(r) ==
    LET q == req[r]
        k == Slot(q.o) IN
    /\ At(r, "deploy")
    /\ \/ k \notin running /\ runAs(k, q.o, q.config) /\ Step(r, Deployed(q)) /\ UNCHANGED faults
       \/ k \in running /\ UNCHANGED kubernetes /\ Step(r, NotDeployed(q)) /\ UNCHANGED faults
       \/ /\ k \notin running /\ Fault(r) /\ Step(r, NotDeployed(q))
          /\ (runAs(k, q.o, q.config) \/ UNCHANGED kubernetes)
    /\ UNCHANGED <<fixed, places, stored, caches, issued>>

\* helm delete of the name the failed installation had
cleanup(r) ==
    LET k == Slot(req[r].o) IN
    /\ At(r, "cleanup")
    /\ \/ takeDown({k}) /\ UNCHANGED faults
       \/ Fault(r) /\ UNCHANGED holder
    /\ Step(r, Idle)
    /\ UNCHANGED <<fixed, places, stored, caches, deployed, issued>>

(***************************************************************************)
(* updateApplicationInstance, restartApplicationInstance: helm delete, for *)
(* which a missing release is no error, a wait until the pods are gone,    *)
(* and the installation anew                                               *)
(***************************************************************************)
stopInstance(r) ==
    LET k == Slot(req[r].o) IN
    /\ At(r, "stop")
    /\ \/ takeDown({k}) /\ Goto(r, "reinstall") /\ UNCHANGED faults
       \/ Fault(r) /\ Step(r, Idle) /\ (takeDown({k}) \/ UNCHANGED holder)
    /\ UNCHANGED <<fixed, places, stored, caches, deployed, issued>>

\* the wait gives up after 120 s and goes on; writing the values file may fail
awaitStopped(r) ==
    /\ At(r, "reinstall")
    /\ \/ Goto(r, "namespace") /\ UNCHANGED faults
       \/ Fault(r) /\ Step(r, Idle)
    /\ UNCHANGED <<fixed, places, stored, caches, kubernetes, issued>>

(***************************************************************************)
(* internal::deleteApplicationInstance, deleteSecret, deleteVolumeClaim    *)
(***************************************************************************)
Forced(q) == q.force \/ q.op = "deleteGroup" \/ (q.op = "deleteCluster" /\ kind # "instance")
\* the deletion gives up; a cascade over instances that is not forced, too
Undeployed(q) == [q EXCEPT !.pc = "uncache"]
Kept(q) ==
    CASE q.op = "delete" -> Idle
      [] q.op = "deleteCluster" /\ kind = "instance" /\ ~q.force -> Idle
      [] OTHER           -> [q EXCEPT !.pc = "next", !.bad = TRUE]

\* the namespace is derived from the group's record, the kubeconfig from the cluster's
Addressable(o) == GroupOf[o] \in groups /\ clusterOf[o] \in clusters

\* mutant of undeploy: the record of an object that could not be deleted is removed
undeployAnyway(r) ==
    LET q == req[r] IN
    /\ At(r, "undeploy")
    /\ \/ Addressable(q.o) /\ takeDown({Slot(q.o)}) /\ UNCHANGED faults
       \/ UNCHANGED <<holder, faults>>
    /\ Step(r, Undeployed(q))
    /\ UNCHANGED <<fixed, places, stored, caches, deployed, issued>>
undeploy(r) ==
    LET q == req[r]
        k == Slot(q.o)
        there == Addressable(q.o) /\ k \in running IN
    /\ At(r, "undeploy")
    /\ \/ there /\ q.reach /\ takeDown({k}) /\ Step(r, Undeployed(q))
          /\ UNCHANGED faults
       \/ /\ ~there /\ q.reach
          /\ Step(r, IF Forced(q) THEN Undeployed(q) ELSE Kept(q))
          /\ UNCHANGED <<holder, faults>>
       \* a claim that a pod mounts is kept even if the deletion is forced
       \/ /\ kind = "volume" /\ there /\ q.reach /\ Step(r, Kept(q))
          /\ UNCHANGED <<holder, faults>>
       \/ /\ there /\ q.reach /\ Fault(r)
          /\ (takeDown({k}) \/ UNCHANGED holder)
          /\ Step(r, IF Forced(q) THEN Undeployed(q) ELSE Kept(q))
       \/ ~q.reach /\ Step(r, Undeployed(q)) /\ UNCHANGED <<holder, faults>>
    /\ UNCHANGED <<fixed, places, stored, caches, deployed, issued>>

(***************************************************************************)
(* removeApplicationInstance (two items), removeSecret,                    *)
(* removePersistentVolumeClaim: the caches first, then the database        *)
(***************************************************************************)
\* the main cache's record, expired or not, tells which categories to erase from;
\* those by group and cluster go as a whole, except for instances
ErasedFrom(o) ==
    [k \in Keys |->
        IF k \notin KeysOf(o) THEN cat[k]
        ELSE IF k[1] = "both" /\ kind # "instance" THEN NoCategory
        ELSE eraseOne(cat[k], o)]
\* mutant of uncache: the categories keep the record
uncacheMain(r) ==
    LET o == req[r].o IN
    /\ At(r, "uncache")
    /\ main' = [main EXCEPT ![o] = "none"]
    /\ configCache' = [configCache EXCEPT ![o] = None]
    /\ Goto(r, "dbDelete")
    /\ UNCHANGED <<fixed, places, stored, cat, allValid, kubernetes, issued, faults>>
uncache(r) ==
    LET o == req[r].o IN
    /\ At(r, "uncache")
    /\ cat' = IF main[o] = "none" THEN cat ELSE ErasedFrom(o)
    /\ main' = [main EXCEPT ![o] = "none"]
    /\ configCache' = [configCache EXCEPT ![o] = None]
    /\ Goto(r, "dbDelete")
    /\ UNCHANGED <<fixed, places, stored, allValid, kubernetes, issued, faults>>

\* An update goes on to store the instance anew whatever the removal returned, a
\* failed installation to clean up; a cascade takes note of the failure.
AfterRemove(q, ok) ==
    CASE q.then = "next" /\ ~ok -> Kept(q)
      [] q.then = "idle"        -> Idle
      [] OTHER                  -> [q EXCEPT !.pc = q.then]

dbDelete(r) ==
    LET q == req[r]
        rest == table \ {q.o} IN
    /\ At(r, "dbDelete")
    /\ \/ /\ table' = rest
          /\ IF kind = "instance" THEN Goto(r, "dbDeleteConfig") ELSE Step(r, AfterRemove(q, TRUE))
          /\ UNCHANGED faults
       \/ Fault(r) /\ table' \in {table, rest} /\ Step(r, AfterRemove(q, FALSE))
    /\ UNCHANGED <<fixed, places, configs, caches, kubernetes, issued>>

dbDeleteConfig(r) ==
    LET q == req[r]
        rest == [configs EXCEPT ![q.o] = None] IN
    /\ At(r, "dbDeleteConfig")
    /\ \/ configs' = rest /\ Step(r, AfterRemove(q, TRUE)) /\ UNCHANGED faults
       \/ Fault(r) /\ configs' \in {configs, rest} /\ Step(r, AfterRemove(q, FALSE))
    /\ UNCHANGED <<fixed, places, table, caches, kubernetes, issued>>

(***************************************************************************)
(* The cascades: deleteGroup, deleteCluster                                *)
(***************************************************************************)
\* deleteGroup removes the group's record before anything it owns, and does not
\* look for volumes
removeGroup(r) ==
    LET q == req[r] IN
    /\ At(r, "removeGroup")
    /\ \/ /\ groups' = groups \ {q.key[2]}
          /\ Goto(r, IF kind = "volume" THEN "namespaces" ELSE "list") /\ UNCHANGED faults
       \/ Fault(r) /\ groups' \in {groups, groups \ {q.key[2]}} /\ Step(r, Idle)
    /\ UNCHANGED <<fixed, clusters, stored, caches, kubernetes, issued>>

\* the deletions of a cascade, in any order (those of secrets and volumes are futures)
nextDeletion(r) ==
    LET q == req[r] IN
    /\ At(r, "next")
    /\ \E o \in q.todo :
        Step(r, [q EXCEPT !.o = o, !.todo = @ \ {o}, !.pc = "undeploy", !.then = "next"])
    /\ UNCHANGED <<fixed, places, stored, caches, kubernetes, issued, faults>>

\* deleteCluster goes on only if every deletion succeeded or it is forced; with the
\* instances gone it checks whether the cluster can be reached
endDeletions(r) ==
    LET q == req[r] IN
    /\ At(r, "next")
    /\ q.todo = {}
    /\ Step(r, CASE q.op = "deleteGroup" -> [q EXCEPT !.pc = "namespaces"]
                 [] q.op = "deleteCluster" /\ kind = "instance" -> [q EXCEPT !.pc = "ping"]
                 [] q.op = "deleteCluster" /\ kind # "instance" /\ q.bad /\ ~q.force -> Idle
                 [] OTHER -> [q EXCEPT !.pc = "namespaces"])
    /\ UNCHANGED <<fixed, places, stored, caches, kubernetes, issued, faults>>

\* mutant of pingCluster: the cluster's secrets and volumes are left alone
pingOnly(r) ==
    /\ At(r, "ping")
    /\ Goto(r, "namespaces")
    /\ UNCHANGED <<fixed, places, stored, caches, kubernetes, issued, faults>>
\* unreachable clusters must be deleted by force; secrets and volumes follow
pingCluster(r) ==
    LET q == req[r]
        then == IF kind = "instance" THEN "namespaces" ELSE "list" IN
    /\ At(r, "ping")
    /\ \/ Goto(r, then) /\ UNCHANGED faults
       \/ /\ Fault(r)
          /\ Step(r, IF q.force THEN [q EXCEPT !.pc = then, !.reach = FALSE] ELSE Idle)
    /\ UNCHANGED <<fixed, places, stored, caches, kubernetes, issued>>

\* a group's namespace on every cluster, or every group's namespace on a cluster
Doomed(q) ==
    IF q.op = "deleteGroup" THEN {k \in Slots : k[1] \in clusters /\ k[2] = q.key[2]}
    ELSE {k \in Slots : k[1] = q.c /\ k[2] \in groups}
\* the clusters deleted with their owning group are deleted by force, one by one here
NextOwned(owned) ==
    IF owned = {} THEN {Idle} ELSE {ClusterCascade(c, TRUE, owned \ {c}) : c \in owned}
NextCascade(q) ==
    IF q.op = "deleteCluster" THEN {[q EXCEPT !.pc = "removeCluster"]}
    ELSE NextOwned({c \in clusters : Owner[c] = q.key[2]})
\* with all that runs in them; a namespace that is not there is no failure
kubectl_delete_namespace(r, spaces) ==
    \/ takeDown(spaces) /\ UNCHANGED faults
    \/ Fault(r) /\ UNCHANGED holder
\* failures are logged and ignored
deleteNamespaces(r) ==
    LET q == req[r] IN
    /\ At(r, "namespaces")
    /\ \/ q.reach /\ kubectl_delete_namespace(r, Doomed(q))
       \/ ~q.reach /\ UNCHANGED <<holder, faults>>
    /\ \E p \in NextCascade(q) : Step(r, p)
    /\ UNCHANGED <<fixed, places, stored, caches, deployed, issued>>

removeCluster(r) ==
    LET q == req[r] IN
    /\ At(r, "removeCluster")
    /\ \/ clusters' = clusters \ {q.c} /\ UNCHANGED faults
       \/ Fault(r) /\ clusters' \in {clusters, clusters \ {q.c}}
    /\ \E p \in NextOwned(q.owned) : Step(r, p)
    /\ UNCHANGED <<fixed, groups, stored, caches, kubernetes, issued>>

(***************************************************************************)
(* The passage of time.  Records and categories have the same validity,    *)
(* and a listing renews the records before it marks their category, so the *)
(* category expires first, but for the moment between the two.  Values a   *)
(* listing did not renew (old) expire before their category.               *)
(***************************************************************************)
ExpireRecord(o) ==
    /\ main[o] = "live"
    /\ \A k \in KeysOf(o) : o \in cat[k].live /\ cat[k].valid => o \in cat[k].old
    /\ \A r \in Requests : At(r, "listMark") => o \notin req[r].todo
    /\ main' = [main EXCEPT ![o] = "expired"]
    /\ cat' = [k \in Keys |-> [cat[k] EXCEPT !.live = @ \ {o}, !.old = @ \ {o}]]
    /\ configCache' = [configCache EXCEPT ![o] = IF @ \in Versions THEN Default ELSE @]
    /\ UNCHANGED <<fixed, places, stored, allValid, kubernetes, issued, req,
                   overlapped, struck, faults>>
ExpireCopy(k, o) ==
    /\ o \in cat[k].old
    /\ cat' = [cat EXCEPT ![k].live = @ \ {o}, ![k].old = @ \ {o}]
    /\ UNCHANGED <<fixed, places, stored, main, allValid, configCache, kubernetes, issued, req,
                   overlapped, struck, faults>>
ExpireCategory(k) ==
    /\ cat[k].valid
    /\ cat' = [cat EXCEPT ![k].valid = FALSE, ![k].old = {}]
    /\ UNCHANGED <<fixed, places, stored, main, allValid, configCache, kubernetes, issued, req,
                   overlapped, struck, faults>>
ExpireWhole ==
    /\ allValid
    /\ allValid' = FALSE
    /\ UNCHANGED <<fixed, places, stored, main, cat, configCache, kubernetes, issued, req,
                   overlapped, struck, faults>>

(***************************************************************************)
(* The specification                                                       *)
(***************************************************************************)
Begin(r, q) ==
    /\ At(r, "idle")
    /\ Step(r, q)
    /\ overlapped' = (overlapped \/ ~Alone(r))
    /\ UNCHANGED <<fixed, places, stored, caches, kubernetes, struck, faults>>

listBy(r, key) ==
    Begin(r, [Idle EXCEPT !.op = "list", !.pc = "list", !.key = key]) /\ UNCHANGED issued
\* fetch, scale and log endpoints read the record and ask Kubernetes
fetch(r, o) == Begin(r, [Idle EXCEPT !.op = "get", !.pc = "find", !.o = o]) /\ UNCHANGED issued
create(r, o, v) ==
    /\ o \notin issued /\ Addressable(o)
    /\ issued' = issued \cup {o}
    /\ Begin(r, [Idle EXCEPT !.op = "create", !.pc = "list", !.o = o, !.config = v,
                             !.key = <<"both", GroupOf[o], clusterOf[o]>>])
delete(r, o, force) ==
    Begin(r, [Idle EXCEPT !.op = "delete", !.pc = "find", !.o = o, !.force = force])
    /\ UNCHANGED issued
update(r, o, v) ==
    /\ kind = "instance" /\ Addressable(o)
    /\ Begin(r, [Idle EXCEPT !.op = "update", !.pc = "find", !.o = o, !.config = v])
    /\ UNCHANGED issued
restart(r, o) ==
    /\ kind = "instance" /\ Addressable(o)
    /\ Begin(r, [Idle EXCEPT !.op = "restart", !.pc = "find", !.o = o])
    /\ UNCHANGED issued
deleteGroup(r, g) ==
    /\ Cascades /\ g \in groups
    /\ Begin(r, [Idle EXCEPT !.op = "deleteGroup", !.pc = "removeGroup", !.key = <<"group", g>>])
    /\ UNCHANGED issued
deleteCluster(r, c, force) ==
    /\ Cascades /\ c \in clusters
    /\ Begin(r, ClusterCascade(c, force, {}))
    /\ UNCHANGED issued

ConfigsOf == IF kind = "instance" THEN Versions ELSE {None}

\* The service starts with empty caches on whatever was stored and runs; no two
\* stored objects have the same place in Kubernetes.
Init ==
    /\ kind \in Kinds
    /\ nameOf \in [Objects -> Names] /\ clusterOf \in [Objects -> Clusters]
    /\ groups = Groups /\ clusters = Clusters
    /\ table \in SUBSET Objects
    /\ \A o, p \in table : Slot(o) = Slot(p) => o = p
    /\ \E v \in ConfigsOf :
        /\ configs = [o \in Objects |-> IF o \in table THEN v ELSE None]
        /\ deployed = [k \in Slots |-> v]
    /\ main = [o \in Objects |-> "none"]
    /\ cat = [k \in Keys |-> NoCategory]
    /\ allValid = FALSE
    /\ configCache = [o \in Objects |-> None]
    /\ holder = [k \in Slots |-> IF \E o \in table : Slot(o) = k
                                 THEN CHOOSE o \in table : Slot(o) = k ELSE None]
    /\ issued = table
    /\ req = [r \in Requests |-> Idle]
    /\ overlapped = FALSE
    /\ struck = FALSE
    /\ faults = 0

Start(r) ==
    \/ \E key \in Keys \cup {Whole} :
        (key # Whole \/ kind # "secret") /\ listBy(r, key)
    \/ \E o \in Objects :
        \/ fetch(r, o) \/ restart(r, o)
        \/ \E v \in ConfigsOf : create(r, o, v) \/ update(r, o, v)
        \/ \E force \in Forces : delete(r, o, force)
    \/ \E g \in Groups : deleteGroup(r, g)
    \/ \E c \in Clusters, force \in Forces : deleteCluster(r, c, force)

\* Kubernetes deletes objects by their names: the one that is there may have been
\* deployed for another record of that name
Strikes(r) ==
    \/ At(r, "undeploy") /\ \E k \in running \ running' : holder[k] # req[r].o
    \/ At(r, "namespaces") /\ running \ running' # {}

Proceed(r) ==
    /\ \/ getObject(r) \/ cacheFound(r) \/ getConfig(r)
       \/ listObjects(r) \/ cacheListed(r) \/ markListed(r)
       \/ putRecord(r) \/ putConfig(r) \/ cacheNew(r)
       \/ createNamespace(r) \/ deploy(r) \/ cleanup(r) \/ stopInstance(r) \/ awaitStopped(r)
       \/ undeploy(r) \/ uncache(r) \/ dbDelete(r) \/ dbDeleteConfig(r)
       \/ removeGroup(r) \/ nextDeletion(r) \/ endDeletions(r) \/ pingCluster(r)
       \/ deleteNamespaces(r) \/ removeCluster(r)
    /\ struck' = (struck \/ Strikes(r))
    /\ UNCHANGED overlapped

Expire ==
    \/ \E o \in Objects : ExpireRecord(o)
    \/ \E k \in Keys : ExpireCategory(k) \/ \E o \in Objects : ExpireCopy(k, o)
    \/ ExpireWhole

Next == Expire \/ \E r \in Requests : Start(r) \/ Proceed(r)

Spec == Init /\ [][Next]_vars

(***************************************************************************)
(* Properties                                                              *)
(***************************************************************************)
Quiescent == \A r \in Requests : req[r].pc = "idle"
\* between requests, as long as no call has failed
Settled == Quiescent /\ faults = 0

\* Every variable has its type, and a category without values does not exist.
TypeOK ==
    /\ kind \in Kinds
    /\ nameOf \in [Objects -> Names] /\ clusterOf \in [Objects -> Clusters]
    /\ groups \subseteq Groups /\ clusters \subseteq Clusters
    /\ table \subseteq issued /\ issued \subseteq Objects
    /\ configs \in [Objects -> Versions \cup {None, Default}]
    /\ main \in [Objects -> {"none", "live", "expired"}]
    /\ cat \in [Keys -> Category]
    /\ \A k \in Keys : cat[k].known = {} => cat[k] = NoCategory
    /\ allValid \in BOOLEAN
    /\ configCache \in [Objects -> Versions \cup {None, Default}]
    /\ holder \in [Slots -> Objects \cup {None}]
    /\ deployed \in [Slots -> Versions \cup {None, Default}]
    /\ req \in [Requests -> Request]
    /\ overlapped \in BOOLEAN /\ struck \in BOOLEAN
    /\ faults \in 0..MaxFaults

\* Between requests that ran one at a time, whatever calls failed, every record in
\* the caches is stored: a deleted object cannot be looked up or listed again.
CachedStored ==
    Quiescent /\ ~overlapped =>
        \A o \in Objects \ table : main[o] = "none" /\ \A k \in Keys : o \notin cat[k].known

\* Between requests that ran one at a time, and unless a call failed, a listing
\* that the caches answer is complete; the volumes by cluster are the exception,
\* whose category is marked complete without what was found.
ListingsComplete ==
    Settled /\ ~overlapped =>
        /\ \A k \in Keys : cat[k].valid /\ (k[1] = "cluster" => kind # "volume") =>
               table \cap Matching(k) \subseteq cat[k].known
        /\ allValid => \A o \in table : main[o] # "none"

\* Between requests, and unless a call failed, every record of a secret or a volume
\* has an object in Kubernetes that was deployed for it, whatever creations and
\* deletions overlapped, so no two records have the same name in a group on a
\* cluster: the creation whose object Kubernetes refuses removes its record again.
\* Deletions of objects that were deployed for other records are the exception.
RecordsRun ==
    Settled /\ kind # "instance" /\ ~struck => \A o \in table : holder[Slot(o)] = o

\* Between requests, unless a call failed or was forced, every secret and volume in
\* Kubernetes is recorded, whatever creations and deletions overlapped.
RunningRecorded ==
    Settled /\ kind # "instance" /\ TRUE \notin Forces /\ ~Cascades =>
        running \subseteq {Slot(o) : o \in table}

\* Between requests that ran one at a time, and unless a call failed, what runs is
\* what is recorded, with the configuration that is recorded.
KubernetesAgrees ==
    Settled /\ ~overlapped =>
        /\ \A k \in running : \E o \in table : Slot(o) = k
        /\ \A o, p \in table : Slot(o) = Slot(p) => o = p
        /\ \A o \in table : Addressable(o) =>
               Slot(o) \in running /\ deployed[Slot(o)] = configs[o]

\* Between requests that ran one at a time, and unless a call failed, no instance or
\* secret of a deleted group or on a deleted cluster is recorded.
NothingLeftBehind ==
    Settled /\ ~overlapped /\ kind # "volume" => \A o \in table : Addressable(o)

\* The records of instances, secrets and volumes, their caches and the listings
\* made from them are well-formed and agree (addSecret, removeSecret,
\* listSecrets and their likes).
RecordsKept == TypeOK /\ CachedStored /\ ListingsComplete

\* What is recorded and what runs on the clusters agree, and deleting a group or a
\* cluster leaves nothing (createInstance, deleteInstance, deleteGroup,
\* deleteCluster).
ClustersAgree == KubernetesAgrees /\ NothingLeftBehind
=============================================================================

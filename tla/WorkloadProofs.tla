--------------------------- MODULE WorkloadProofs ---------------------------
(***************************************************************************)
(* Proofs about Workloads for any number of threads, objects, names,       *)
(* groups and clusters.  The invariant has four parts:                     *)
(*                                                                         *)
(*   WorkTyped    the types, the path that requests of each operation      *)
(*                take, and that only issued IDs are stored or cached;     *)
(*   RecordsHeld  whatever is recorded has its object in Kubernetes or is  *)
(*                about to get it or to be removed;                        *)
(*   Orderly      an object whose record is still to be stored is unknown  *)
(*                to the caches and to every other request;                *)
(*   Balanced     at each place in Kubernetes there are at least as many   *)
(*                records that stay as objects, there or to be deployed.   *)
(*                                                                         *)
(* For the last three a step matters only if it stores or removes a        *)
(* record, or deploys or deletes an object (Effective); StepQuietOr-       *)
(* Effective says of all the others what they leave alone (Quiet).         *)
(*                                                                         *)
(* Two more are about requests that come one at a time: OneAtATime relates *)
(* the caches to the table, and AgreedAlone the table to what runs on the  *)
(* clusters.                                                               *)
(***************************************************************************)
EXTENDS Workloads, FiniteSetTheorems, TLAPS

(***************************************************************************)
(* Types, and the way each request takes                                   *)
(***************************************************************************)
Removing == {"uncache", "dbDelete", "dbDeleteConfig"}
Installing == {"namespace", "deploy", "cleanup"}

\* The steps a request of each kind consists of.
Path(op) ==
    CASE op = "none"    -> {"idle"}
      [] op = "list"    -> {"list", "listFill", "listMark"}
      [] op = "get"     -> {"find", "fill"}
      [] op = "create"  -> {"list", "listFill", "listMark", "put", "putConfig", "cache"}
                           \cup Installing \cup Removing
      [] op = "delete"  -> {"find", "fill", "undeploy"} \cup Removing
      [] op = "update"  -> {"find", "fill", "stop", "reinstall", "put", "putConfig", "cache"}
                           \cup Installing \cup Removing
      [] op = "restart" -> {"find", "fill", "config", "stop", "reinstall"}
                           \cup Installing \cup Removing
      [] OTHER          -> {"list", "listFill", "listMark", "next", "undeploy", "ping", "namespaces",
                            "removeGroup", "removeCluster"} \cup Removing

\* The steps that are about one object.
AboutOne == {"find", "fill", "config", "put", "putConfig", "cache", "undeploy", "stop", "reinstall"}
            \cup Installing \cup Removing

\* A request in a service whose requests are about kind k and that has issued the
\* IDs in I: it is on its way, its object is one that was issued where it is
\* stored or cached, and what only instances have is done for instances only.
Fits(q, k, I) ==
    /\ q \in Request
    /\ q.pc \in Path(q.op)
    /\ q.pc \in AboutOne => q.o \in Objects
    /\ q.op = "create" => q.o \in I \cap Objects
    /\ q.op = "update" /\ q.pc # "find" => q.o \in I
    /\ q.pc = "fill" => q.o \in I
    /\ q.pc \in {"listFill", "listMark"} => q.todo \subseteq I
    /\ q.then = "cleanup" => q.op = "create"
    /\ q.then = "put" => q.op = "update"
    /\ q.then = "next" => Cascade(q)
    /\ k # "instance" => /\ q.op \notin {"update", "restart"}
                         /\ q.pc \notin {"putConfig", "cleanup", "dbDeleteConfig"}
                         /\ q.then # "cleanup"

RequestsFit == \A r \in Requests : Fits(req[r], kind, issued)

\* What the main cache knows was issued.
CachedIssued == \A o \in Objects : main[o] # "none" => o \in issued

WorkTyped == TypeOK /\ RequestsFit /\ CachedIssued

\* The types of everything but the requests.
StoreTyped ==
    /\ kind \in Kinds
    /\ nameOf \in [Objects -> Names] /\ clusterOf \in [Objects -> Clusters]
    /\ groups \subseteq Groups /\ clusters \subseteq Clusters
    /\ table \subseteq issued /\ issued \subseteq Objects
    /\ configs \in [Objects -> Versions \cup {None, Default}]
    /\ main \in [Objects -> {"none", "live", "expired"}]
    /\ cat \in [Keys -> Category]
    /\ \A k \in Keys : cat[k].known = {} => cat[k] = NoCategory
    /\ allValid \in BOOLEAN
    /\ configCache \in [Objects -> Versions \cup {None, Default}]
    /\ holder \in [Slots -> Objects \cup {None}]
    /\ deployed \in [Slots -> Versions \cup {None, Default}]
    /\ overlapped \in BOOLEAN /\ struck \in BOOLEAN
    /\ faults \in 0..MaxFaults
    /\ CachedIssued

(***************************************************************************)
(* Where a handler goes on                                                 *)
(***************************************************************************)
LEMMA IdleFits == \A k, I : Fits(Idle, k, I)
BY DEF Fits, Idle, Request, PCs, Ops, Path, AboutOne, Installing, Removing, Cascade

\* IDs issued later leave a request fit.
LEMMA FitsLater ==
    ASSUME NEW q, NEW k, NEW I, NEW J, Fits(q, k, I), I \subseteq J
    PROVE  Fits(q, k, J)
BY DEF Fits

\* A request that only moves on is fit where it may be.
LEMMA GoesOn ==
    ASSUME NEW q, NEW k, NEW I, Fits(q, k, I), NEW pc \in PCs,
           pc \in Path(q.op),
           pc \in AboutOne => q.o \in Objects,
           q.op = "update" /\ pc # "find" => q.o \in I,
           pc = "fill" => q.o \in I,
           pc \in {"listFill", "listMark"} => q.todo \subseteq I,
           k # "instance" => pc \notin {"putConfig", "cleanup", "dbDeleteConfig"}
    PROVE  Fits([q EXCEPT !.pc = pc], k, I)
<1>1. PICK n : n = [q EXCEPT !.pc = pc]
  OBVIOUS
<1>2. /\ n \in Request /\ n.pc = pc /\ n.op = q.op /\ n.o = q.o /\ n.todo = q.todo
      /\ n.then = q.then
  BY <1>1 DEF Fits, Request
<1>3. Fits(n, k, I)
  BY <1>2 DEF Fits, Cascade
<1> QED BY <1>1, <1>3

\* The same when what follows a removal changes, too.
LEMMA GoesOnThen ==
    ASSUME NEW q, NEW k, NEW I, Fits(q, k, I), NEW pc \in PCs,
           NEW then \in {"idle", "put", "cleanup", "next"},
           pc \in Path(q.op),
           pc \in AboutOne => q.o \in Objects,
           q.op = "update" /\ pc # "find" => q.o \in I,
           pc = "fill" => q.o \in I,
           pc \in {"listFill", "listMark"} => q.todo \subseteq I,
           then = "cleanup" => q.op = "create",
           then = "put" => q.op = "update",
           then = "next" => Cascade(q),
           k # "instance" => pc \notin {"putConfig", "cleanup", "dbDeleteConfig"} /\ then # "cleanup"
    PROVE  Fits([q EXCEPT !.pc = pc, !.then = then], k, I)
<1>1. PICK n : n = [q EXCEPT !.pc = pc, !.then = then]
  OBVIOUS
<1>2. /\ n \in Request /\ n.pc = pc /\ n.op = q.op /\ n.o = q.o /\ n.todo = q.todo
      /\ n.then = then
  BY <1>1 DEF Fits, Request
<1>3. Fits(n, k, I)
  BY <1>2 DEF Fits, Cascade
<1> QED BY <1>1, <1>3
\* Reading the object's record leads on (getApplicationInstance, getSecret,
\* getPersistentVolumeClaim).
LEMMA AfterFindFits ==
    ASSUME NEW q, NEW k, NEW I, Fits(q, k, I), q.pc \in {"find", "fill"}, q.o \in I
    PROVE  Fits(AfterFind(q), k, I)
<1>1. q.o \in Objects
  BY DEF Fits, AboutOne
<1>2. CASE q.op = "delete"
  BY <1>1, <1>2, GoesOn DEF AfterFind, Path, PCs
<1>3. CASE q.op = "update"
  BY <1>1, <1>3, GoesOn DEF AfterFind, Path, PCs
<1>4. CASE q.op = "restart"
  BY <1>1, <1>4, GoesOn DEF AfterFind, Path, PCs
<1>5. CASE q.op \notin {"delete", "update", "restart"}
  BY <1>5, IdleFits DEF AfterFind
<1> QED BY <1>2, <1>3, <1>4, <1>5

\* A listing leads to the record's creation or to the deletions of a cascade.
LEMMA AfterListFits ==
    ASSUME NEW q, NEW k, NEW I, Fits(q, k, I), q.pc \in {"list", "listMark"},
           NEW S \in SUBSET Objects
    PROVE  Fits(AfterList(q, S), k, I)
<1>1. CASE q.op = "create"
  <2>1. q.o \in Objects
    BY <1>1 DEF Fits
  <2>2. Fits([q EXCEPT !.pc = "put"], k, I)
    BY <1>1, <2>1, GoesOn DEF Path, PCs
  <2>3. AfterList(q, S) = IF \E x \in S : nameOf[x] = nameOf[q.o] THEN Idle
                          ELSE [q EXCEPT !.pc = "put"]
    BY <1>1 DEF AfterList, Cascade
  <2> QED BY <2>2, <2>3, IdleFits
<1>2. CASE Cascade(q)
  <2>1. PICK n : n = [q EXCEPT !.pc = "next", !.todo = {o \in S : q.c = None \/ clusterOf[o] = q.c}]
    OBVIOUS
  <2>2. AfterList(q, S) = n
    BY <1>2, <2>1 DEF AfterList, Cascade
  <2>3. /\ n \in Request /\ n.pc = "next" /\ n.op = q.op /\ n.o = q.o /\ n.then = q.then
    BY <2>1 DEF Fits, Request, PCs
  <2>4. Fits(n, k, I)
    BY <1>2, <2>3 DEF Fits, Cascade, Path, AboutOne, Installing, Removing
  <2> QED BY <2>2, <2>4
<1>3. CASE q.op # "create" /\ ~Cascade(q)
  BY <1>3, IdleFits DEF AfterList
<1> QED BY <1>1, <1>2, <1>3

\* A deployment that succeeds or fails (createSecret, createVolumeClaim,
\* installApplicationImpl, updateApplicationInstance).
LEMMA AfterDeployFits ==
    ASSUME NEW q, NEW I, Fits(q, kind, I), q.pc = "deploy"
    PROVE  Fits(Deployed(q), kind, I) /\ Fits(NotDeployed(q), kind, I)
<1>0. /\ q.o \in Objects /\ q.op \in {"create", "update", "restart"}
      /\ q.op = "update" => q.o \in I
      /\ q.op # "create" => kind = "instance"
  BY DEF Fits, AboutOne, Installing, Path, Removing, Request, Ops
<1>1. Fits(Deployed(q), kind, I)
  <2>1. CASE q.op = "update"
    <3>1. Fits([q EXCEPT !.pc = "uncache", !.then = "put"], kind, I)
      BY <1>0, <2>1, GoesOnThen DEF Path, PCs, Removing
    <3> QED BY <2>1, <3>1 DEF Deployed
  <2>2. CASE q.op # "update"
    BY <2>2, IdleFits DEF Deployed
  <2> QED BY <2>1, <2>2
<1>2. Fits(NotDeployed(q), kind, I)
  <2>1. CASE q.op = "create"
    <3>1. PICK then \in {"idle", "cleanup"} :
            /\ then = IF kind = "instance" THEN "cleanup" ELSE "idle"
      OBVIOUS
    <3>2. Fits([q EXCEPT !.pc = "uncache", !.then = then], kind, I)
      BY <1>0, <2>1, <3>1, GoesOnThen DEF Path, PCs, Removing
    <3> QED BY <2>1, <3>1, <3>2 DEF NotDeployed
  <2>2. CASE q.op # "create"
    <3>1. Fits([q EXCEPT !.pc = "cleanup"], kind, I)
      BY <1>0, <2>2, GoesOn DEF Path, PCs, Installing
    <3> QED BY <2>2, <3>1 DEF NotDeployed
  <2> QED BY <2>1, <2>2
<1> QED BY <1>1, <1>2

\* A deletion that gives up, and one that goes on to remove the record
\* (deleteApplicationInstance, deleteSecret, deleteVolumeClaim).
LEMMA AfterUndeployFits ==
    ASSUME NEW q, NEW I, Fits(q, kind, I), q.pc = "undeploy" \/ (q.then = "next" /\ q.pc \in Removing)
    PROVE  Fits(Kept(q), kind, I) /\ Fits(Undeployed(q), kind, I)
<1>0. q.o \in Objects /\ (q.op = "delete" \/ Cascade(q)) /\ q \in Request
  BY DEF Fits, AboutOne, Installing, Path, Removing, Request, Ops, Cascade
<1>1. Fits(Undeployed(q), kind, I)
  BY <1>0, GoesOn DEF Path, PCs, Removing, Cascade, Undeployed
<1>2. CASE Kept(q) = Idle
  BY <1>1, <1>2, IdleFits
<1>3. CASE Kept(q) # Idle
  <2>1. PICK n : n = [q EXCEPT !.pc = "next", !.bad = TRUE]
    OBVIOUS
  <2>2. Kept(q) = n /\ q.op # "delete"
    BY <1>3, <2>1 DEF Kept
  <2>3. n \in Request /\ n.pc = "next" /\ n.op = q.op /\ n.o = q.o /\ n.then = q.then
    BY <1>0, <2>1 DEF Request, PCs
  <2>4. Fits(n, kind, I)
    BY <1>0, <2>2, <2>3 DEF Fits, Cascade, Path, AboutOne, Installing, Removing
  <2> QED BY <1>1, <2>2, <2>4
<1> QED BY <1>2, <1>3

\* What follows the removal of a record, whether it succeeded or not.
LEMMA AfterRemoveFits ==
    ASSUME NEW q, NEW I, Fits(q, kind, I), q.pc \in {"dbDelete", "dbDeleteConfig"}, NEW ok \in BOOLEAN
    PROVE  Fits(AfterRemove(q, ok), kind, I)
<1>0. q.o \in Objects /\ q \in Request
  BY DEF Fits, AboutOne, Removing
<1>1. CASE q.then = "next" /\ ~ok
  BY <1>1, AfterUndeployFits DEF AfterRemove, Removing
<1>2. CASE q.then = "idle"
  BY <1>2, IdleFits DEF AfterRemove
<1>3. CASE q.then # "idle" /\ ~(q.then = "next" /\ ~ok)
  <2>1. PICK pc \in PCs : pc = q.then
    BY <1>0 DEF Request, PCs
  <2>2. AfterRemove(q, ok) = [q EXCEPT !.pc = pc]
    BY <1>3, <2>1 DEF AfterRemove
  <2>3. q.then \in {"put", "cleanup", "next"}
    BY <1>0, <1>3 DEF Request
  <2>4. /\ q.op = "update" => q.o \in I
        /\ kind # "instance" => pc # "cleanup"
        /\ pc \in Path(q.op)
    BY <1>0, <2>1, <2>3 DEF Fits, Path, Cascade, Installing
  <2>5. Fits([q EXCEPT !.pc = pc], kind, I)
    BY <1>0, <2>1, <2>3, <2>4, GoesOn
  <2> QED BY <2>2, <2>5
<1> QED BY <1>1, <1>2, <1>3

\* The deletion of a cluster, alone or with the group that owns it
\* (internal::deleteCluster).
LEMMA ClusterCascadeFits ==
    ASSUME kind \in {"instance", "secret", "volume"}, NEW c \in Clusters, NEW force \in BOOLEAN,
           NEW owned \in SUBSET Clusters, NEW I
    PROVE  Fits(ClusterCascade(c, force, owned), kind, I)
<1>1. PICK n : n = ClusterCascade(c, force, owned)
  OBVIOUS
<1>2. <<"cluster", c>> \in Keys
  BY DEF Keys
<1>3. /\ n \in Request /\ n.op = "deleteCluster" /\ n.pc \in {"list", "ping"} /\ n.then = "idle"
  BY <1>1, <1>2 DEF ClusterCascade, Idle, Request, PCs, Ops, Whole
<1>4. Fits(n, kind, I)
  BY <1>3 DEF Fits, Path, AboutOne, Installing, Removing, Cascade
<1> QED BY <1>1, <1>4
LEMMA NextOwnedFits ==
    ASSUME kind \in {"instance", "secret", "volume"}, NEW owned \in SUBSET Clusters, NEW I,
           NEW q \in NextOwned(owned)
    PROVE  Fits(q, kind, I)
<1>1. CASE owned = {}
  BY <1>1, IdleFits DEF NextOwned
<1>2. CASE owned # {}
  <2>1. PICK c \in owned : q = ClusterCascade(c, TRUE, owned \ {c})
    BY <1>2 DEF NextOwned
  <2> QED BY <2>1, ClusterCascadeFits
<1> QED BY <1>1, <1>2
(***************************************************************************)
(* Categories of the caches                                                *)
(***************************************************************************)
\* A category without values does not exist.
Proper(c) == c \in Category /\ (c.known = {} => c = NoCategory)

LEMMA NoCategoryProper == Proper(NoCategory)
BY DEF Proper, Category, NoCategory

LEMMA SameCategory ==
    ASSUME NEW c \in Category, NEW d \in Category,
           c.known = d.known, c.live = d.live, c.old = d.old, c.valid = d.valid
    PROVE  c = d
BY DEF Category

\* insert_or_assign for the records S, none of which may match.
LEMMA InsertProper ==
    ASSUME NEW c, Proper(c), NEW S \in SUBSET Objects PROVE Proper(insertAll(c, S))
<1>1. PICK d : d = insertAll(c, S)
  OBVIOUS
<1>2. /\ d \in Category /\ d.known = c.known \cup S /\ d.live = c.live \cup S
      /\ d.old = c.old \ S /\ d.valid = c.valid
  BY <1>1 DEF insertAll, Proper, Category
<1>3. ASSUME d.known = {} PROVE d = NoCategory
  <2>1. c = NoCategory /\ S = {}
    BY <1>2, <1>3 DEF Proper
  <2>2. /\ NoCategory \in Category /\ NoCategory.known = {} /\ NoCategory.live = {}
        /\ NoCategory.old = {}
    BY DEF NoCategory, Category
  <2>3. d.known = {} /\ d.live = {} /\ d.old = {} /\ d.valid = NoCategory.valid
    BY <1>2, <2>1, <2>2
  <2> QED BY <1>2, <2>2, <2>3, SameCategory
<1> QED BY <1>1, <1>2, <1>3 DEF Proper

LEMMA EraseProper == ASSUME NEW c, Proper(c), NEW x PROVE Proper(eraseOne(c, x))
<1>1. CASE c.known \subseteq {x}
  BY <1>1, NoCategoryProper DEF eraseOne
<1>2. CASE ~(c.known \subseteq {x})
  <2>1. PICK d : d = [c EXCEPT !.known = @ \ {x}, !.live = @ \ {x}, !.old = @ \ {x}]
    OBVIOUS
  <2>2. d \in Category /\ d.known # {}
    BY <1>2, <2>1 DEF Proper, Category
  <2> QED BY <1>2, <2>1, <2>2 DEF Proper, eraseOne
<1> QED BY <1>1, <1>2

LEMMA RenewProper ==
    ASSUME NEW c, Proper(c), NEW renewed \in BOOLEAN PROVE Proper(update_expiration(c, renewed))
<1>1. CASE c.known = {}
  BY <1>1 DEF update_expiration
<1>2. CASE c.known # {}
  <2>1. PICK S \in SUBSET Objects : S = IF renewed THEN {} ELSE c.live
    BY DEF Proper, Category
  <2>2. PICK d : d = [c EXCEPT !.valid = TRUE, !.old = S]
    OBVIOUS
  <2>3. d \in Category /\ d.known # {}
    BY <1>2, <2>1, <2>2 DEF Proper, Category
  <2>4. update_expiration(c, renewed) = d
    BY <1>2, <2>1, <2>2 DEF update_expiration
  <2> QED BY <2>3, <2>4 DEF Proper
<1> QED BY <1>1, <1>2

\* A category some of whose values, or which itself, has expired.
LEMMA ExpiredProper ==
    ASSUME NEW c, Proper(c), NEW o PROVE Proper([c EXCEPT !.live = @ \ {o}, !.old = @ \ {o}])
<1>1. PICK d : d = [c EXCEPT !.live = @ \ {o}, !.old = @ \ {o}]
  OBVIOUS
<1>2. /\ d \in Category /\ d.known = c.known /\ d.live = c.live \ {o}
      /\ d.old = c.old \ {o} /\ d.valid = c.valid
  BY <1>1 DEF Proper, Category
<1>3. ASSUME d.known = {} PROVE d = NoCategory
  <2>1. c = NoCategory
    BY <1>2, <1>3 DEF Proper
  <2>2. NoCategory \in Category /\ NoCategory.live = {} /\ NoCategory.old = {}
    BY DEF NoCategory, Category
  <2> QED BY <1>2, <2>1, <2>2, SameCategory
<1> QED BY <1>1, <1>2, <1>3 DEF Proper
LEMMA OutdatedProper ==
    ASSUME NEW c, Proper(c), c.valid PROVE Proper([c EXCEPT !.valid = FALSE, !.old = {}])
<1>1. c.known # {}
  BY DEF Proper, NoCategory
<1>2. PICK d : d = [c EXCEPT !.valid = FALSE, !.old = {}]
  OBVIOUS
<1>3. d \in Category /\ d.known # {}
  BY <1>1, <1>2 DEF Proper, Category
<1> QED BY <1>2, <1>3 DEF Proper

\* What the caches hold after the records S were cached.
LEMMA FilledTyped ==
    ASSUME WorkTyped, NEW S \in SUBSET Objects, NEW K, cat' = Filled(S, K)
    PROVE  /\ cat' \in [Keys -> Category]
           /\ \A k \in Keys : cat'[k].known = {} => cat'[k] = NoCategory
<1>1. ASSUME NEW k \in Keys PROVE Proper(cat'[k])
  <2>1. Proper(cat[k]) /\ S \cap Matching(k) \in SUBSET Objects
    BY DEF WorkTyped, TypeOK, Proper
  <2>2. Proper(insertAll(cat[k], S \cap Matching(k)))
    BY <2>1, InsertProper
  <2> QED BY <2>1, <2>2 DEF Filled
<1> QED BY <1>1 DEF Proper, Filled

(***************************************************************************)
(* What an action has to establish                                         *)
(***************************************************************************)
LEMMA Advance ==
    ASSUME WorkTyped, NEW r \in Requests, NEW q, Fits(q, kind', issued'), Step(r, q),
           kind' = kind, issued \subseteq issued', StoreTyped'
    PROVE  WorkTyped'
<1>1. /\ req' \in [Requests -> Request]
      /\ req'[r] = q
      /\ \A s \in Requests : s # r => req'[s] = req[s]
  BY DEF WorkTyped, TypeOK, Step, Fits
<1>2. TypeOK' /\ CachedIssued'
  BY <1>1 DEF TypeOK, StoreTyped
<1>3. ASSUME NEW s \in Requests PROVE Fits(req'[s], kind', issued')
  <2>1. CASE s = r
    BY <1>1, <2>1
  <2>2. CASE s # r
    BY <1>1, <2>2, FitsLater DEF WorkTyped, RequestsFit
  <2> QED BY <2>1, <2>2
<1> QED BY <1>2, <1>3 DEF WorkTyped, RequestsFit

\* What a step of a request does to the variables that keep count.
Counted == faults' \in 0..MaxFaults /\ struck' \in BOOLEAN /\ overlapped' = overlapped
Untouched == UNCHANGED <<fixed, places, stored, caches, kubernetes, issued>>

LEMMA AdvanceQuietly ==
    ASSUME WorkTyped, NEW r \in Requests, NEW q, Fits(q, kind, issued), Step(r, q),
           Untouched, Counted
    PROVE  WorkTyped'
<1>1. /\ UNCHANGED <<kind, nameOf, clusterOf, groups, clusters, table, configs, main, cat,
                     allValid, configCache, holder, deployed, issued, overlapped>>
      /\ struck' \in BOOLEAN /\ faults' \in 0..MaxFaults
  BY DEF Untouched, Counted, fixed, places, stored, caches, kubernetes
<1>2. StoreTyped'
  BY <1>1 DEF WorkTyped, TypeOK, StoreTyped, CachedIssued
<1> QED BY <1>1, <1>2, Advance

\* A step of a request counts the calls that fail within the bound.
LEMMA CountTyped ==
    ASSUME WorkTyped, NEW r \in Requests, Proceed(r)
    PROVE  Counted
<1>1. faults' = faults \/ Fault(r)
  BY DEF Proceed, getObject, cacheFound, getConfig, listObjects, cacheListed, markListed, putRecord,
         putConfig, cacheNew, createNamespace, kubectl_create_namespace, deploy, cleanup,
         stopInstance, awaitStopped, undeploy, uncache, dbDelete, dbDeleteConfig, removeGroup,
         nextDeletion, endDeletions, pingCluster, deleteNamespaces, kubectl_delete_namespace,
         removeCluster
<1>2. faults' \in 0..MaxFaults
  BY <1>1, WorkloadAssumption DEF Fault, WorkTyped, TypeOK
<1>3. struck' \in BOOLEAN /\ overlapped' = overlapped
  BY DEF Proceed
<1> QED BY <1>2, <1>3 DEF Counted
\* Reading an object's record and its configuration (getApplicationInstance,
\* getSecret, getPersistentVolumeClaim, getApplicationInstanceConfig).
LEMMA ReadingTyped ==
    ASSUME WorkTyped, NEW r \in Requests, Counted, getObject(r) \/ cacheFound(r) \/ getConfig(r)
    PROVE  WorkTyped'
<1> DEFINE q == req[r]
<1>0. Fits(q, kind, issued) /\ q \in Request
  BY DEF WorkTyped, TypeOK, RequestsFit
<1>1. CASE getObject(r)
  <2>1. q.pc = "find" /\ Untouched /\ q.o \in Objects
    BY <1>0, <1>1 DEF getObject, At, Untouched, Fits, AboutOne
  <2>2. CASE main[q.o] = "live" /\ Step(r, AfterFind(q))
    <3>1. q.o \in issued
      BY <2>1, <2>2 DEF WorkTyped, CachedIssued
    <3> QED BY <1>0, <2>1, <2>2, <3>1, AfterFindFits, AdvanceQuietly
  <2>3. CASE q.o \in table /\ Goto(r, "fill")
    <3>1. q.o \in issued /\ "fill" \in PCs /\ "fill" \in Path(q.op)
      BY <1>0, <2>1, <2>3
         DEF WorkTyped, TypeOK, PCs, Fits, Path, Request, Ops, Installing, Removing
    <3>2. Fits([q EXCEPT !.pc = "fill"], kind, issued)
      BY <1>0, <2>1, <3>1, GoesOn
    <3> QED BY <2>1, <2>3, <3>2, AdvanceQuietly DEF Goto
  <2>4. CASE Step(r, Idle)
    BY <2>1, <2>4, IdleFits, AdvanceQuietly
  <2> QED BY <1>1, <2>2, <2>3, <2>4 DEF getObject
<1>2. CASE cacheFound(r)
  <2>1. /\ q.pc = "fill" /\ q.o \in Objects /\ q.o \in issued /\ Step(r, AfterFind(q))
        /\ UNCHANGED <<kind, nameOf, clusterOf, groups, clusters, table, configs, configCache,
                       allValid, holder, deployed, issued, overlapped>>
        /\ main' = [o \in Objects |-> IF o \in {q.o} THEN "live" ELSE main[o]]
        /\ cat' = Filled({q.o}, Keys)
    BY <1>0, <1>2 DEF cacheFound, fillAll, At, fixed, places, stored, kubernetes, Counted, Fits, AboutOne
  <2>2. Fits(AfterFind(q), kind, issued)
    BY <1>0, <2>1, AfterFindFits
  <2>3. /\ cat' \in [Keys -> Category]
        /\ \A k \in Keys : cat'[k].known = {} => cat'[k] = NoCategory
    BY <2>1, FilledTyped
  <2>4. StoreTyped'
    BY <2>1, <2>3 DEF WorkTyped, TypeOK, StoreTyped, CachedIssued, Counted
  <2> QED BY <2>1, <2>2, <2>4, Advance
<1>3. CASE getConfig(r)
  <2>1. /\ q.pc = "config" /\ q.o \in Objects
        /\ UNCHANGED <<kind, nameOf, clusterOf, groups, clusters, table, configs, main, cat,
                       allValid, holder, deployed, issued, overlapped>>
    BY <1>0, <1>3
       DEF getConfig, At, fixed, places, stored, listings, kubernetes, Counted, Fits, AboutOne
  <2>2. PICK v \in Versions \cup {None, Default} :
          /\ Step(r, [q EXCEPT !.pc = "stop", !.config = IF v = None THEN Default ELSE v])
          /\ configCache' \in [Objects -> Versions \cup {None, Default}]
    <3>1. q.o \in Objects /\ configs[q.o] \in Versions \cup {None, Default}
      BY <2>1 DEF WorkTyped, TypeOK
    <3>2. configCache \in [Objects -> Versions \cup {None, Default}]
      BY DEF WorkTyped, TypeOK
    <3>3. [configCache EXCEPT ![q.o] = configs[q.o]] \in [Objects -> Versions \cup {None, Default}]
      BY <3>1, <3>2
    <3> QED BY <1>3, <3>1, <3>2, <3>3 DEF getConfig
  <2>3. PICK n : n = [q EXCEPT !.pc = "stop", !.config = IF v = None THEN Default ELSE v]
    OBVIOUS
  <2>4. /\ n \in Request /\ n.pc = "stop" /\ n.op = q.op /\ n.o = q.o /\ n.then = q.then
    <3>1. PICK c : c = (IF v = None THEN Default ELSE v)
      OBVIOUS
    <3>2. c \in Versions \cup {Default, None} /\ n = [q EXCEPT !.pc = "stop", !.config = c]
      BY <2>2, <2>3, <3>1
    <3> QED BY <1>0, <3>2 DEF Request, PCs
  <2>5. q.op = "restart"
    BY <1>0, <2>1 DEF Fits, Path, Request, Ops, Installing, Removing
  <2>6. Fits(n, kind, issued)
    BY <1>0, <2>1, <2>4, <2>5 DEF Fits, Path, Cascade
  <2>7. StoreTyped'
    BY <2>1, <2>2 DEF WorkTyped, TypeOK, StoreTyped, CachedIssued, Counted
  <2> QED BY <2>1, <2>2, <2>3, <2>6, <2>7, Advance
<1> QED BY <1>1, <1>2, <1>3

\* The listings (listApplicationInstances, listSecrets,
\* listPersistentVolumeClaims and those by cluster or group).
LEMMA ListingTyped ==
    ASSUME WorkTyped, NEW r \in Requests, Counted,
           listObjects(r) \/ cacheListed(r) \/ markListed(r)
    PROVE  WorkTyped'
<1> DEFINE q == req[r]
<1>0. Fits(q, kind, issued) /\ q \in Request
  BY DEF WorkTyped, TypeOK, RequestsFit
<1>1. CASE listObjects(r)
  <2>1. q.pc = "list" /\ Untouched
    BY <1>0, <1>1 DEF listObjects, At, Untouched
  <2>2. FromCache(q.key) \in SUBSET Objects
    <3>1. q.key # Whole => q.key \in Keys
      BY <1>0 DEF Request
    <3> QED BY <3>1 DEF FromCache, WorkTyped, TypeOK, Category
  <2>3. CASE \E S \in SUBSET Objects : Step(r, AfterList(q, S))
    BY <1>0, <2>1, <2>3, AfterListFits, AdvanceQuietly
  <2>4. CASE Step(r, [q EXCEPT !.pc = "listFill", !.todo = table \cap Matching(q.key)])
    <3>1. PICK n : n = [q EXCEPT !.pc = "listFill", !.todo = table \cap Matching(q.key)]
      OBVIOUS
    <3>2. /\ n \in Request /\ n.pc = "listFill" /\ n.op = q.op /\ n.o = q.o /\ n.then = q.then
          /\ n.todo \subseteq issued
      BY <1>0, <3>1 DEF Request, PCs, WorkTyped, TypeOK
    <3>3. "listFill" \in Path(q.op)
      BY <1>0, <2>1 DEF Fits, Path, Request, Ops, Installing, Removing
    <3>4. Fits(n, kind, issued)
      BY <1>0, <2>1, <3>2, <3>3 DEF Fits, Cascade, AboutOne, Installing, Removing
    <3> QED BY <2>1, <2>4, <3>1, <3>4, AdvanceQuietly
  <2> QED BY <1>1, <2>2, <2>3, <2>4 DEF listObjects
<1>2. CASE cacheListed(r)
  <2>1. /\ q.pc = "listFill" /\ Step(r, [q EXCEPT !.pc = "listMark"])
        /\ q.todo \subseteq issued /\ q.todo \in SUBSET Objects
        /\ UNCHANGED <<kind, nameOf, clusterOf, groups, clusters, table, configs, configCache,
                       allValid, holder, deployed, issued, overlapped>>
        /\ main' = [o \in Objects |-> IF o \in q.todo THEN "live" ELSE main[o]]
        /\ cat' = Filled(q.todo, {k \in Keys : FilledByListing(q, k)})
    BY <1>0, <1>2
       DEF cacheListed, At, Goto, fixed, places, stored, kubernetes, Counted, Fits, Request
  <2>2. "listMark" \in Path(q.op) /\ q.op # "update"
    BY <1>0, <2>1 DEF Fits, Path, Request, Ops, Installing, Removing
  <2>3. Fits([q EXCEPT !.pc = "listMark"], kind, issued)
    BY <1>0, <2>1, <2>2, GoesOn DEF PCs, AboutOne, Installing, Removing
  <2>4. /\ cat' \in [Keys -> Category]
        /\ \A k \in Keys : cat'[k].known = {} => cat'[k] = NoCategory
    BY <2>1, FilledTyped
  <2>5. StoreTyped'
    BY <2>1, <2>4 DEF WorkTyped, TypeOK, StoreTyped, CachedIssued, Counted
  <2> QED BY <2>1, <2>3, <2>5, Advance
<1>3. CASE markListed(r)
  <2>1. /\ q.pc = "listMark" /\ Step(r, AfterList(q, q.todo)) /\ q.todo \in SUBSET Objects
        /\ UNCHANGED <<kind, nameOf, clusterOf, groups, clusters, table, configs, main,
                       configCache, holder, deployed, issued, overlapped>>
        /\ allValid' = (allValid \/ q.key = Whole)
    BY <1>0, <1>3 DEF markListed, At, fixed, places, stored, kubernetes, Counted, Request
  <2>2. Fits(AfterList(q, q.todo), kind, issued)
    BY <1>0, <2>1, AfterListFits
  <2>3. ASSUME NEW k \in Keys PROVE Proper(cat'[k])
    <3>1. Proper(cat[k]) /\ FilledByListing(q, k) \in BOOLEAN
      BY DEF WorkTyped, TypeOK, Proper, FilledByListing
    <3>2. Proper(update_expiration(cat[k], FilledByListing(q, k)))
      BY <3>1, RenewProper
    <3> QED BY <1>3, <3>1, <3>2 DEF markListed
  <2>4. /\ cat' \in [Keys -> Category]
        /\ \A k \in Keys : cat'[k].known = {} => cat'[k] = NoCategory
    BY <1>3, <2>3 DEF markListed, Proper
  <2>5. allValid' \in BOOLEAN
    BY <2>1 DEF WorkTyped, TypeOK
  <2>6. StoreTyped'
    BY <2>1, <2>4, <2>5 DEF WorkTyped, TypeOK, StoreTyped, CachedIssued, Counted
  <2> QED BY <2>1, <2>2, <2>6, Advance
<1> QED BY <1>1, <1>2, <1>3
\* Storing and caching a record (addApplicationInstance, addSecret,
\* addPersistentVolumeClaim).
LEMMA StoringTyped ==
    ASSUME WorkTyped, NEW r \in Requests, Counted, putRecord(r) \/ putConfig(r) \/ cacheNew(r)
    PROVE  WorkTyped'
<1> DEFINE q == req[r]
<1>0. Fits(q, kind, issued) /\ q \in Request
  BY DEF WorkTyped, TypeOK, RequestsFit
<1>1. CASE putRecord(r) \/ putConfig(r)
  <2>1. /\ q.pc \in {"put", "putConfig"} /\ q.o \in Objects
        /\ q.op \in {"create", "update"} /\ q.o \in issued
        /\ q.pc = "putConfig" => kind = "instance"
    BY <1>0, <1>1
       DEF putRecord, putConfig, At, Fits, AboutOne, Path, Request, Ops, Installing, Removing
  <2>2. /\ UNCHANGED <<kind, nameOf, clusterOf, groups, clusters, main, cat, allValid, configCache,
                       holder, deployed, issued, overlapped>>
        /\ table' \subseteq table \cup {q.o}
        /\ configs' \in {configs, [configs EXCEPT ![q.o] = q.config]}
    BY <1>1 DEF putRecord, putConfig, fixed, places, caches, kubernetes, Counted
  <2>3. PICK pc \in {"putConfig", "cache", "idle"} :
          /\ Step(r, IF pc = "idle" THEN Idle ELSE [q EXCEPT !.pc = pc])
          /\ pc = "putConfig" => kind = "instance"
    BY <1>1 DEF putRecord, putConfig, Goto
  <2>4. pc # "idle" => Fits([q EXCEPT !.pc = pc], kind, issued)
    BY <1>0, <2>1, <2>3, GoesOn DEF Path, PCs
  <2>5. configs' \in [Objects -> Versions \cup {None, Default}]
    BY <1>0, <2>1, <2>2 DEF WorkTyped, TypeOK, Request
  <2>6. StoreTyped'
    BY <2>1, <2>2, <2>5 DEF WorkTyped, TypeOK, StoreTyped, CachedIssued, Counted
  <2> QED BY <2>2, <2>3, <2>4, <2>6, IdleFits, Advance
<1>2. CASE cacheNew(r)
  <2>1. /\ q.pc = "cache" /\ q.o \in Objects /\ q.op \in {"create", "update"} /\ q.o \in issued
        /\ UNCHANGED <<kind, nameOf, clusterOf, groups, clusters, table, configs, allValid,
                       holder, deployed, issued, overlapped>>
        /\ main' = [o \in Objects |-> IF o \in {q.o} THEN "live" ELSE main[o]]
        /\ cat' = Filled({q.o}, Keys)
        /\ configCache' \in {configCache, [configCache EXCEPT ![q.o] = q.config]}
    BY <1>0, <1>2
       DEF cacheNew, fillAll, At, fixed, places, stored, kubernetes, Counted, Fits, AboutOne,
           Path, Request, Ops, Installing, Removing
  <2>2. PICK n : n = IF q.op = "create" THEN [q EXCEPT !.pc = "namespace"] ELSE Idle
    OBVIOUS
  <2>3. Step(r, n) /\ Fits(n, kind, issued)
    <3>1. q.op = "create" => Fits([q EXCEPT !.pc = "namespace"], kind, issued)
      BY <1>0, <2>1, GoesOn DEF Path, PCs, Installing
    <3> QED BY <1>2, <2>2, <3>1, IdleFits DEF cacheNew
  <2>4. /\ cat' \in [Keys -> Category]
        /\ \A k \in Keys : cat'[k].known = {} => cat'[k] = NoCategory
    BY <2>1, FilledTyped
  <2>5. configCache' \in [Objects -> Versions \cup {None, Default}]
    BY <1>0, <2>1 DEF WorkTyped, TypeOK, Request
  <2>6. StoreTyped'
    BY <2>1, <2>4, <2>5 DEF WorkTyped, TypeOK, StoreTyped, CachedIssued, Counted
  <2> QED BY <2>1, <2>3, <2>6, Advance
<1> QED BY <1>1, <1>2

\* The place of an object in Kubernetes.
LEMMA SlotTyped == ASSUME WorkTyped, NEW o \in Objects PROVE Slot(o) \in Slots
BY WorkloadAssumption DEF WorkTyped, TypeOK, Slot, Slots

\* What Kubernetes holds after an object was created or some were deleted.
LEMMA KubernetesTyped ==
    ASSUME WorkTyped
    PROVE  /\ \A k, o \in Objects, v \in Versions \cup {None, Default} : runAs(k, o, v) =>
                  /\ holder' \in [Slots -> Objects \cup {None}]
                  /\ deployed' \in [Slots -> Versions \cup {None, Default}]
           /\ \A S : takeDown(S) => holder' \in [Slots -> Objects \cup {None}]
BY DEF WorkTyped, TypeOK, runAs, takeDown

\* A step that concerns Kubernetes alone.
LEMMA AdvanceCluster ==
    ASSUME WorkTyped, NEW r \in Requests, NEW q, Fits(q, kind, issued), Step(r, q), Counted,
           UNCHANGED <<fixed, places, stored, caches, issued>>,
           holder' \in [Slots -> Objects \cup {None}],
           deployed' \in [Slots -> Versions \cup {None, Default}]
    PROVE  WorkTyped'
<1>1. UNCHANGED <<kind, nameOf, clusterOf, groups, clusters, table, configs, main, cat,
                  allValid, configCache, issued, overlapped>>
  BY DEF Counted, fixed, places, stored, caches
<1>2. StoreTyped'
  BY <1>1 DEF Counted, WorkTyped, TypeOK, StoreTyped, CachedIssued
<1> QED BY <1>1, <1>2, Advance

\* Creating an object in Kubernetes (kubectl_create_namespace, createSecret,
\* installApplicationImpl) and cleaning up after it.
LEMMA DeployingTyped ==
    ASSUME WorkTyped, NEW r \in Requests, Counted, createNamespace(r) \/ deploy(r) \/ cleanup(r)
    PROVE  WorkTyped'
<1> DEFINE q == req[r]
<1>0. /\ Fits(q, kind, issued) /\ q \in Request
      /\ holder \in [Slots -> Objects \cup {None}]
      /\ deployed \in [Slots -> Versions \cup {None, Default}]
  BY DEF WorkTyped, TypeOK, RequestsFit
<1>1. CASE createNamespace(r)
  <2>1. q.pc = "namespace" /\ Untouched
    BY <1>1 DEF createNamespace, At, Untouched
  <2>2. /\ q.op \in {"create", "update", "restart"} /\ q.o \in Objects
        /\ q.op = "update" => q.o \in issued
    BY <1>0, <2>1 DEF Fits, AboutOne, Path, Request, Ops, Installing, Removing
  <2>3. Fits([q EXCEPT !.pc = "deploy"], kind, issued)
    BY <1>0, <2>2, GoesOn DEF Path, PCs, Installing
  <2>4. Fits([q EXCEPT !.pc = "uncache", !.then = "idle"], kind, issued)
    BY <1>0, <2>2, GoesOnThen DEF Path, PCs, Removing
  <2> QED BY <1>1, <2>1, <2>3, <2>4, AdvanceQuietly DEF createNamespace, Goto
<1>2. CASE deploy(r)
  <2>1. /\ q.pc = "deploy" /\ UNCHANGED <<fixed, places, stored, caches, issued>>
        /\ q.o \in Objects /\ q.config \in Versions \cup {None, Default}
    BY <1>0, <1>2 DEF deploy, At, Fits, AboutOne, Installing, Request
  <2>2. /\ holder' \in [Slots -> Objects \cup {None}]
        /\ deployed' \in [Slots -> Versions \cup {None, Default}]
    <3>1. CASE UNCHANGED kubernetes
      BY <1>0, <3>1 DEF kubernetes
    <3>2. CASE runAs(Slot(q.o), q.o, q.config)
      BY <1>0, <2>1, <3>2 DEF runAs
    <3> QED BY <1>2, <3>1, <3>2 DEF deploy
  <2>3. Fits(Deployed(q), kind, issued) /\ Fits(NotDeployed(q), kind, issued)
    BY <1>0, <2>1, AfterDeployFits
  <2>4. Step(r, Deployed(q)) \/ Step(r, NotDeployed(q))
    BY <1>2 DEF deploy
  <2> QED BY <2>1, <2>2, <2>3, <2>4, AdvanceCluster
<1>3. CASE cleanup(r)
  <2>1. UNCHANGED <<fixed, places, stored, caches, deployed, issued>> /\ Step(r, Idle)
    BY <1>3 DEF cleanup
  <2>2. holder' \in [Slots -> Objects \cup {None}]
    BY <1>0, <1>3, KubernetesTyped DEF cleanup
  <2> QED BY <1>0, <2>1, <2>2, IdleFits, AdvanceCluster
<1> QED BY <1>1, <1>2, <1>3

\* Deleting it (deleteApplicationInstance, deleteSecret, deleteVolumeClaim) and
\* stopping an instance to install it anew (updateApplicationInstance).
LEMMA StoppingTyped ==
    ASSUME WorkTyped, NEW r \in Requests, Counted, stopInstance(r) \/ awaitStopped(r) \/ undeploy(r)
    PROVE  WorkTyped'
<1> DEFINE q == req[r]
<1>0. /\ Fits(q, kind, issued) /\ q \in Request
      /\ holder \in [Slots -> Objects \cup {None}]
      /\ deployed \in [Slots -> Versions \cup {None, Default}]
  BY DEF WorkTyped, TypeOK, RequestsFit
<1>1. CASE stopInstance(r) \/ awaitStopped(r)
  <2>1. /\ q.pc \in {"stop", "reinstall"}
        /\ UNCHANGED <<fixed, places, stored, caches, deployed, issued>>
    BY <1>1 DEF stopInstance, awaitStopped, kubernetes, At
  <2>2. holder' \in [Slots -> Objects \cup {None}]
    BY <1>0, <1>1, KubernetesTyped DEF stopInstance, awaitStopped, kubernetes
  <2>3. /\ q.op \in {"update", "restart"} /\ q.o \in Objects
        /\ q.op = "update" => q.o \in issued
    BY <1>0, <2>1 DEF Fits, AboutOne, Path, Request, Ops, Installing, Removing
  <2>4. PICK pc \in {"reinstall", "namespace", "idle"} :
          Step(r, IF pc = "idle" THEN Idle ELSE [q EXCEPT !.pc = pc])
    BY <1>1 DEF stopInstance, awaitStopped, Goto
  <2>5. pc # "idle" => Fits([q EXCEPT !.pc = pc], kind, issued)
    BY <1>0, <2>3, GoesOn DEF Path, PCs, Installing
  <2> QED BY <1>0, <2>1, <2>2, <2>4, <2>5, IdleFits, AdvanceCluster
<1>2. CASE undeploy(r)
  <2>1. q.pc = "undeploy" /\ UNCHANGED <<fixed, places, stored, caches, deployed, issued>>
    BY <1>2 DEF undeploy, At
  <2>2. holder' \in [Slots -> Objects \cup {None}]
    BY <1>0, <1>2, KubernetesTyped DEF undeploy
  <2>3. Fits(Kept(q), kind, issued) /\ Fits(Undeployed(q), kind, issued)
    BY <1>0, <2>1, AfterUndeployFits
  <2>4. Step(r, Kept(q)) \/ Step(r, Undeployed(q))
    BY <1>2 DEF undeploy
  <2> QED BY <1>0, <2>1, <2>2, <2>3, <2>4, AdvanceCluster
<1> QED BY <1>1, <1>2

\* Removing a record from the caches and the database (removeApplicationInstance,
\* removeSecret, removePersistentVolumeClaim).
LEMMA RemovingTyped ==
    ASSUME WorkTyped, NEW r \in Requests, Counted, uncache(r) \/ dbDelete(r) \/ dbDeleteConfig(r)
    PROVE  WorkTyped'
<1> DEFINE q == req[r]
<1>0. Fits(q, kind, issued) /\ q \in Request
  BY DEF WorkTyped, TypeOK, RequestsFit
<1>1. /\ q.pc \in Removing /\ q.o \in Objects
      /\ q.op = "update" => q.o \in issued
      /\ q.pc = "dbDeleteConfig" => kind = "instance"
      /\ Removing \subseteq Path(q.op)
  BY <1>0 DEF uncache, dbDelete, dbDeleteConfig, At, Removing, Fits, AboutOne, Path, Request, Ops,
              Installing
<1>2. CASE uncache(r)
  <2>1. /\ UNCHANGED <<kind, nameOf, clusterOf, groups, clusters, table, configs, allValid,
                       holder, deployed, issued, overlapped>>
        /\ Step(r, [q EXCEPT !.pc = "dbDelete"])
        /\ main' = [main EXCEPT ![q.o] = "none"]
        /\ configCache' = [configCache EXCEPT ![q.o] = None]
    BY <1>2 DEF uncache, Goto, fixed, places, stored, kubernetes, Counted
  <2>2. Fits([q EXCEPT !.pc = "dbDelete"], kind, issued)
    BY <1>0, <1>1, GoesOn DEF PCs, Removing
  <2>3. ASSUME NEW k \in Keys PROVE Proper(cat'[k])
    <3>1. Proper(cat[k])
      BY DEF WorkTyped, TypeOK, Proper
    <3>2. Proper(eraseOne(cat[k], q.o)) /\ Proper(NoCategory)
      BY <3>1, EraseProper, NoCategoryProper
    <3> QED BY <1>2, <3>1, <3>2 DEF uncache, ErasedFrom
  <2>4. cat' = cat \/ cat' = ErasedFrom(q.o)
    BY <1>2 DEF uncache
  <2>5. /\ cat' \in [Keys -> Category]
        /\ \A k \in Keys : cat'[k].known = {} => cat'[k] = NoCategory
    BY <2>3, <2>4 DEF ErasedFrom, Proper, WorkTyped, TypeOK
  <2>6. StoreTyped'
    BY <1>1, <2>1, <2>5 DEF WorkTyped, TypeOK, StoreTyped, CachedIssued, Counted
  <2> QED BY <2>1, <2>2, <2>6, Advance
<1>3. CASE dbDelete(r) \/ dbDeleteConfig(r)
  <2>1. /\ q.pc \in {"dbDelete", "dbDeleteConfig"}
        /\ UNCHANGED <<kind, nameOf, clusterOf, groups, clusters, main, cat, allValid, configCache,
                       holder, deployed, issued, overlapped>>
        /\ table' \subseteq table
        /\ configs' \in {configs, [configs EXCEPT ![q.o] = None]}
    BY <1>3 DEF dbDelete, dbDeleteConfig, At, fixed, places, caches, kubernetes, Counted
  <2>2. StoreTyped'
    BY <1>1, <2>1 DEF WorkTyped, TypeOK, StoreTyped, CachedIssued, Counted
  <2>3. Fits(AfterRemove(q, TRUE), kind, issued) /\ Fits(AfterRemove(q, FALSE), kind, issued)
    BY <1>0, <2>1, AfterRemoveFits
  <2>4. kind = "instance" => Fits([q EXCEPT !.pc = "dbDeleteConfig"], kind, issued)
    BY <1>0, <1>1, GoesOn DEF PCs, Removing
  <2>5. \/ Step(r, AfterRemove(q, TRUE)) \/ Step(r, AfterRemove(q, FALSE))
        \/ kind = "instance" /\ Step(r, [q EXCEPT !.pc = "dbDeleteConfig"])
    BY <1>3 DEF dbDelete, dbDeleteConfig, Goto
  <2> QED BY <2>1, <2>2, <2>3, <2>4, <2>5, Advance
<1> QED BY <1>2, <1>3
\* A step of a cascade that may take the group, the cluster or its objects away.
LEMMA AdvanceCascade ==
    ASSUME WorkTyped, NEW r \in Requests, NEW q, Fits(q, kind, issued), Step(r, q), Counted,
           UNCHANGED <<fixed, stored, caches, deployed, issued>>,
           groups' \subseteq groups, clusters' \subseteq clusters,
           holder' \in [Slots -> Objects \cup {None}]
    PROVE  WorkTyped'
<1>1. UNCHANGED <<kind, nameOf, clusterOf, table, configs, main, cat, allValid, configCache,
                  deployed, issued, overlapped>>
  BY DEF Counted, fixed, stored, caches
<1>2. StoreTyped'
  BY <1>1 DEF Counted, WorkTyped, TypeOK, StoreTyped, CachedIssued
<1> QED BY <1>1, <1>2, Advance

\* The cascades (deleteGroup, internal::deleteCluster).
LEMMA CascadesTyped ==
    ASSUME WorkTyped, NEW r \in Requests, Counted,
           \/ removeGroup(r) \/ nextDeletion(r) \/ endDeletions(r) \/ pingCluster(r)
           \/ deleteNamespaces(r) \/ removeCluster(r)
    PROVE  WorkTyped'
<1> DEFINE q == req[r]
<1>0. /\ Fits(q, kind, issued) /\ q \in Request
      /\ holder \in [Slots -> Objects \cup {None}]
      /\ clusters \subseteq Clusters
      /\ kind \in {"instance", "secret", "volume"}
  BY WorkloadAssumption DEF WorkTyped, TypeOK, RequestsFit
<1>1. /\ q.pc \in {"removeGroup", "next", "ping", "namespaces", "removeCluster"}
      /\ q.op \in {"deleteGroup", "deleteCluster"}
      /\ {"list", "next", "undeploy", "ping", "namespaces", "removeCluster"} \subseteq Path(q.op)
  BY <1>0 DEF removeGroup, nextDeletion, endDeletions, pingCluster, deleteNamespaces, removeCluster,
              At, Fits, Path, Request, Ops, Installing, Removing
<1>2. ASSUME NEW pc \in {"list", "ping", "namespaces", "removeCluster"}
      PROVE  Fits([q EXCEPT !.pc = pc], kind, issued)
  BY <1>0, <1>1, GoesOn DEF PCs, AboutOne, Installing, Removing
<1>3. CASE removeGroup(r)
  <2>1. /\ UNCHANGED <<fixed, stored, caches, deployed, holder, issued>>
        /\ groups' \subseteq groups /\ clusters' = clusters
    BY <1>3 DEF removeGroup, kubernetes
  <2>2. Step(r, Idle) \/ \E pc \in {"list", "namespaces"} : Step(r, [q EXCEPT !.pc = pc])
    BY <1>3 DEF removeGroup, Goto
  <2> QED BY <1>0, <1>2, <2>1, <2>2, IdleFits, AdvanceCascade
<1>4. CASE nextDeletion(r)
  <2>1. Untouched
    BY <1>4 DEF nextDeletion, Untouched
  <2>2. PICK o \in q.todo :
          Step(r, [q EXCEPT !.o = o, !.todo = @ \ {o}, !.pc = "undeploy", !.then = "next"])
    BY <1>4 DEF nextDeletion
  <2>3. PICK n : n = [q EXCEPT !.o = o, !.todo = @ \ {o}, !.pc = "undeploy", !.then = "next"]
    OBVIOUS
  <2>4. /\ n \in Request /\ n.pc = "undeploy" /\ n.op = q.op /\ n.o \in Objects /\ n.then = "next"
    BY <1>0, <2>3 DEF Request, PCs
  <2>5. Fits(n, kind, issued)
    BY <1>0, <1>1, <2>4 DEF Fits, Cascade
  <2> QED BY <2>1, <2>2, <2>3, <2>5, AdvanceQuietly
<1>5. CASE endDeletions(r)
  <2>1. Untouched
    BY <1>5 DEF endDeletions, Untouched
  <2>2. Step(r, Idle) \/ \E pc \in {"ping", "namespaces"} : Step(r, [q EXCEPT !.pc = pc])
    BY <1>5 DEF endDeletions
  <2> QED BY <1>2, <2>1, <2>2, IdleFits, AdvanceQuietly
<1>6. CASE pingCluster(r)
  <2>1. Untouched
    BY <1>6 DEF pingCluster, Untouched
  <2>2. PICK pc \in {"namespaces", "list"} :
          \/ Step(r, [q EXCEPT !.pc = pc])
          \/ Step(r, [q EXCEPT !.pc = pc, !.reach = FALSE])
          \/ Step(r, Idle)
    BY <1>6 DEF pingCluster, Goto
  <2>3. PICK n : n = [q EXCEPT !.pc = pc, !.reach = FALSE]
    OBVIOUS
  <2>4. n \in Request /\ n.pc = pc /\ n.op = q.op /\ n.o = q.o /\ n.then = q.then
    BY <1>0, <2>3 DEF Request, PCs
  <2>5. Fits(n, kind, issued)
    BY <1>0, <1>1, <2>4 DEF Fits, Cascade, AboutOne, Installing, Removing
  <2> QED BY <1>2, <2>1, <2>2, <2>3, <2>5, IdleFits, AdvanceQuietly
<1>7. CASE deleteNamespaces(r)
  <2>1. UNCHANGED <<fixed, stored, caches, deployed, issued, groups, clusters>>
    BY <1>7 DEF deleteNamespaces, places
  <2>2. holder' \in [Slots -> Objects \cup {None}]
    BY <1>0, <1>7, KubernetesTyped DEF deleteNamespaces, kubectl_delete_namespace
  <2>3. PICK p \in NextCascade(q) : Step(r, p)
    BY <1>7 DEF deleteNamespaces
  <2>4. Fits(p, kind, issued)
    <3>1. CASE q.op = "deleteCluster"
      BY <1>2, <2>3, <3>1 DEF NextCascade
    <3>2. CASE q.op = "deleteGroup"
      <4>1. PICK owned \in SUBSET Clusters : p \in NextOwned(owned)
        BY <1>0, <2>3, <3>2 DEF NextCascade
      <4> QED BY <1>0, <4>1, NextOwnedFits
    <3> QED BY <1>1, <3>1, <3>2
  <2> QED BY <2>1, <2>2, <2>3, <2>4, AdvanceCascade
<1>8. CASE removeCluster(r)
  <2>1. /\ UNCHANGED <<fixed, stored, caches, deployed, holder, issued, groups>>
        /\ clusters' \subseteq clusters
    BY <1>8 DEF removeCluster, kubernetes
  <2>2. PICK p \in NextOwned(q.owned) : Step(r, p)
    BY <1>8 DEF removeCluster
  <2>3. Fits(p, kind, issued)
    BY <1>0, <2>2, NextOwnedFits DEF Request
  <2> QED BY <1>0, <2>1, <2>2, <2>3, AdvanceCascade
<1> QED BY <1>3, <1>4, <1>5, <1>6, <1>7, <1>8

\* A request arrives.
LEMMA BeginTyped ==
    ASSUME WorkTyped, NEW r \in Requests, NEW q, Fits(q, kind, issued'), Begin(r, q),
           issued \subseteq issued', issued' \subseteq Objects
    PROVE  WorkTyped'
<1>1. /\ UNCHANGED <<kind, nameOf, clusterOf, groups, clusters, table, configs, main, cat,
                     allValid, configCache, holder, deployed, struck, faults>>
      /\ Step(r, q)
      /\ overlapped' \in BOOLEAN
  BY DEF Begin, fixed, places, stored, caches, kubernetes
<1>2. StoreTyped'
  BY <1>1 DEF WorkTyped, TypeOK, StoreTyped, CachedIssued
<1> QED BY <1>1, <1>2, Advance
LEMMA StartTyped == ASSUME WorkTyped, NEW r \in Requests, Start(r) PROVE WorkTyped'
<1>0. /\ kind \in {"instance", "secret", "volume"} /\ issued \subseteq Objects
      /\ \A o \in Objects : <<"both", GroupOf[o], clusterOf[o]>> \in Keys
      /\ \A g \in Groups : <<"group", g>> \in Keys
      /\ Forces \subseteq BOOLEAN
  BY WorkloadAssumption DEF WorkTyped, TypeOK, Keys
<1> USE DEF Fits, Path, AboutOne, Installing, Removing, Cascade, Request, PCs, Ops, Idle
<1>1. ASSUME NEW key \in Keys \cup {Whole}, listBy(r, key) PROVE WorkTyped'
  <2>1. PICK n : n = [Idle EXCEPT !.op = "list", !.pc = "list", !.key = key]
    OBVIOUS
  <2>2. Begin(r, n) /\ issued' = issued /\ Fits(n, kind, issued)
    BY <1>1, <2>1 DEF listBy
  <2> QED BY <1>0, <2>2, BeginTyped
<1>2. ASSUME NEW o \in Objects, fetch(r, o) PROVE WorkTyped'
  <2>1. PICK n : n = [Idle EXCEPT !.op = "get", !.pc = "find", !.o = o]
    OBVIOUS
  <2>2. Begin(r, n) /\ issued' = issued /\ Fits(n, kind, issued)
    BY <1>2, <2>1 DEF fetch
  <2> QED BY <1>0, <2>2, BeginTyped
<1>3. ASSUME NEW o \in Objects, restart(r, o) PROVE WorkTyped'
  <2>1. PICK n : n = [Idle EXCEPT !.op = "restart", !.pc = "find", !.o = o]
    OBVIOUS
  <2>2. Begin(r, n) /\ issued' = issued /\ Fits(n, kind, issued)
    BY <1>3, <2>1 DEF restart
  <2> QED BY <1>0, <2>2, BeginTyped
<1>4. ASSUME NEW o \in Objects, NEW v \in ConfigsOf, create(r, o, v) PROVE WorkTyped'
  <2>1. PICK n : n = [Idle EXCEPT !.op = "create", !.pc = "list", !.o = o, !.config = v,
                                  !.key = <<"both", GroupOf[o], clusterOf[o]>>]
    OBVIOUS
  <2>2. Begin(r, n) /\ issued' = issued \cup {o}
    BY <1>4, <2>1 DEF create
  <2>3. v \in Versions \cup {Default, None}
    BY DEF ConfigsOf
  <2>4. Fits(n, kind, issued')
    BY <1>0, <2>1, <2>2, <2>3
  <2> QED BY <1>0, <2>2, <2>4, BeginTyped
<1>5. ASSUME NEW o \in Objects, NEW v \in ConfigsOf, update(r, o, v) PROVE WorkTyped'
  <2>1. PICK n : n = [Idle EXCEPT !.op = "update", !.pc = "find", !.o = o, !.config = v]
    OBVIOUS
  <2>2. v \in Versions \cup {Default, None}
    BY DEF ConfigsOf
  <2>3. Begin(r, n) /\ issued' = issued /\ Fits(n, kind, issued)
    BY <1>5, <2>1, <2>2 DEF update
  <2> QED BY <1>0, <2>3, BeginTyped
<1>6. ASSUME NEW o \in Objects, NEW force \in Forces, delete(r, o, force) PROVE WorkTyped'
  <2>1. PICK n : n = [Idle EXCEPT !.op = "delete", !.pc = "find", !.o = o, !.force = force]
    OBVIOUS
  <2>2. Begin(r, n) /\ issued' = issued /\ Fits(n, kind, issued)
    BY <1>0, <1>6, <2>1 DEF delete
  <2> QED BY <1>0, <2>2, BeginTyped
<1>7. ASSUME NEW g \in Groups, deleteGroup(r, g) PROVE WorkTyped'
  <2>1. PICK n : n = [Idle EXCEPT !.op = "deleteGroup", !.pc = "removeGroup", !.key = <<"group", g>>]
    OBVIOUS
  <2>2. Begin(r, n) /\ issued' = issued /\ Fits(n, kind, issued)
    BY <1>0, <1>7, <2>1 DEF deleteGroup
  <2> QED BY <1>0, <2>2, BeginTyped
<1>8. ASSUME NEW c \in Clusters, NEW force \in Forces, deleteCluster(r, c, force) PROVE WorkTyped'
  <2>1. Begin(r, ClusterCascade(c, force, {})) /\ issued' = issued
    BY <1>8 DEF deleteCluster
  <2>2. force \in BOOLEAN
    BY <1>0
  <2> HIDE DEF Fits
  <2>3. Fits(ClusterCascade(c, force, {}), kind, issued)
    BY <1>0, <2>2, ClusterCascadeFits
  <2> QED BY <1>0, <2>1, <2>3, BeginTyped
<1> QED BY <1>1, <1>2, <1>3, <1>4, <1>5, <1>6, <1>7, <1>8 DEF Start
\* A step that changes the caches alone, and in them no ID that was not there.
LEMMA AdvanceCaches ==
    ASSUME WorkTyped,
           UNCHANGED <<fixed, places, stored, kubernetes, issued, req, overlapped, struck, faults>>,
           main' \in [Objects -> {"none", "live", "expired"}],
           \A o \in Objects : main'[o] # "none" => main[o] # "none",
           cat' \in [Keys -> Category], \A k \in Keys : Proper(cat'[k]),
           allValid' \in BOOLEAN,
           configCache' \in [Objects -> Versions \cup {None, Default}]
    PROVE  WorkTyped'
<1>1. /\ UNCHANGED <<kind, nameOf, clusterOf, groups, clusters, table, configs, holder, deployed,
                     issued, req, overlapped, struck, faults>>
  BY DEF fixed, places, stored, kubernetes
<1>2. TypeOK' /\ CachedIssued'
  BY <1>1 DEF WorkTyped, TypeOK, CachedIssued, Proper
<1> QED BY <1>1, <1>2 DEF WorkTyped, RequestsFit

\* The passage of time.
LEMMA ExpiryTyped == ASSUME WorkTyped, Expire PROVE WorkTyped'
<1>0. /\ main \in [Objects -> {"none", "live", "expired"}] /\ cat \in [Keys -> Category]
      /\ \A k \in Keys : Proper(cat[k])
      /\ allValid \in BOOLEAN /\ configCache \in [Objects -> Versions \cup {None, Default}]
  BY DEF WorkTyped, TypeOK, Proper
<1>1. CASE \E o \in Objects : ExpireRecord(o)
  <2>1. PICK o \in Objects : ExpireRecord(o)
    BY <1>1
  <2>2. /\ UNCHANGED <<fixed, places, stored, kubernetes, issued, req, overlapped, struck, faults,
                       allValid>>
        /\ main[o] = "live" /\ main' = [main EXCEPT ![o] = "expired"]
        /\ configCache' = [configCache EXCEPT ![o] = IF @ \in Versions THEN Default ELSE @]
        /\ cat' = [k \in Keys |-> [cat[k] EXCEPT !.live = @ \ {o}, !.old = @ \ {o}]]
    BY <2>1 DEF ExpireRecord
  <2>3. ASSUME NEW k \in Keys PROVE Proper(cat'[k])
    <3>1. Proper([cat[k] EXCEPT !.live = @ \ {o}, !.old = @ \ {o}])
      BY <1>0, ExpiredProper
    <3> QED BY <2>2, <3>1
  <2>4. cat' \in [Keys -> Category]
    BY <2>2, <2>3 DEF Proper
  <2>5. main' \in [Objects -> {"none", "live", "expired"}]
    BY <1>0, <2>2
  <2>6. configCache' \in [Objects -> Versions \cup {None, Default}]
    BY <1>0, <2>2
  <2>7. \A p \in Objects : main'[p] # "none" => main[p] # "none"
    BY <1>0, <2>2
  <2> QED BY <1>0, <2>2, <2>3, <2>4, <2>5, <2>6, <2>7, AdvanceCaches
<1>2. CASE \E k \in Keys : ExpireCategory(k)
  <2>1. PICK k \in Keys : ExpireCategory(k)
    BY <1>2
  <2>2. PICK d : d = [cat[k] EXCEPT !.valid = FALSE, !.old = {}]
    OBVIOUS
  <2>3. Proper(d) /\ cat' = [cat EXCEPT ![k] = d]
    BY <1>0, <2>1, <2>2, OutdatedProper DEF ExpireCategory
  <2>4. cat' \in [Keys -> Category] /\ \A l \in Keys : Proper(cat'[l])
    BY <1>0, <2>3 DEF Proper
  <2> QED BY <1>0, <2>1, <2>4, AdvanceCaches DEF ExpireCategory
<1>3. CASE \E k \in Keys, o \in Objects : ExpireCopy(k, o)
  <2>1. PICK k \in Keys, o \in Objects : ExpireCopy(k, o)
    BY <1>3
  <2>2. PICK d : d = [cat[k] EXCEPT !.live = @ \ {o}, !.old = @ \ {o}]
    OBVIOUS
  <2>3. Proper(d) /\ cat' = [cat EXCEPT ![k] = d]
    BY <1>0, <2>1, <2>2, ExpiredProper DEF ExpireCopy
  <2>4. cat' \in [Keys -> Category] /\ \A l \in Keys : Proper(cat'[l])
    BY <1>0, <2>3 DEF Proper
  <2> QED BY <1>0, <2>1, <2>4, AdvanceCaches DEF ExpireCopy
<1>4. CASE ExpireWhole
  BY <1>0, <1>4, AdvanceCaches DEF ExpireWhole
<1> QED BY <1>1, <1>2, <1>3, <1>4 DEF Expire

LEMMA StepTyped == ASSUME WorkTyped, [Next]_vars PROVE WorkTyped'
<1>1. CASE UNCHANGED vars
  <2>1. /\ UNCHANGED <<kind, nameOf, clusterOf, groups, clusters, table, configs, main, cat, allValid,
                       configCache, holder, deployed, issued, req, overlapped, struck, faults>>
    BY <1>1 DEF vars
  <2>2. TypeOK' /\ CachedIssued'
    BY <2>1 DEF WorkTyped, TypeOK, CachedIssued
  <2> QED BY <2>1, <2>2 DEF WorkTyped, RequestsFit
<1>2. CASE Expire
  BY <1>2, ExpiryTyped
<1>3. CASE \E r \in Requests : Start(r)
  BY <1>3, StartTyped
<1>4. ASSUME NEW r \in Requests, Proceed(r) PROVE WorkTyped'
  <2>1. Counted
    BY <1>4, CountTyped
  <2> QED BY <1>4, <2>1, ReadingTyped, ListingTyped, StoringTyped, DeployingTyped, StoppingTyped,
             RemovingTyped, CascadesTyped DEF Proceed
<1> QED BY <1>1, <1>2, <1>3, <1>4 DEF Next

LEMMA InitTyped == ASSUME Init PROVE WorkTyped
<1>1. /\ kind \in Kinds /\ nameOf \in [Objects -> Names] /\ clusterOf \in [Objects -> Clusters]
      /\ groups = Groups /\ clusters = Clusters /\ table \subseteq Objects /\ issued = table
      /\ main = [o \in Objects |-> "none"] /\ cat = [k \in Keys |-> NoCategory]
      /\ allValid = FALSE /\ configCache = [o \in Objects |-> None]
      /\ req = [r \in Requests |-> Idle]
      /\ overlapped = FALSE /\ struck = FALSE /\ faults = 0
  BY DEF Init
<1>2. /\ configs \in [Objects -> Versions \cup {None, Default}]
      /\ deployed \in [Slots -> Versions \cup {None, Default}]
  <2>1. PICK v \in ConfigsOf :
          /\ configs = [o \in Objects |-> IF o \in table THEN v ELSE None]
          /\ deployed = [k \in Slots |-> v]
    BY DEF Init
  <2>2. v \in Versions \cup {None, Default}
    BY DEF ConfigsOf
  <2> QED BY <2>1, <2>2
<1>3. holder \in [Slots -> Objects \cup {None}]
  <2>1. holder = [k \in Slots |-> IF \E o \in table : Slot(o) = k
                                  THEN CHOOSE o \in table : Slot(o) = k ELSE None]
    BY DEF Init
  <2>2. \A k \in Slots : (\E o \in table : Slot(o) = k) => (CHOOSE o \in table : Slot(o) = k) \in Objects
    BY <1>1
  <2> QED BY <2>1, <2>2
<1>4. Idle \in Request
  BY DEF Idle, Request, Ops, PCs
<1>5. NoCategory \in Category /\ 0 \in 0..MaxFaults
  BY WorkloadAssumption DEF NoCategory, Category
<1>6. TypeOK
  BY <1>1, <1>2, <1>3, <1>4, <1>5 DEF TypeOK
<1> QED BY <1>1, <1>6, IdleFits DEF WorkTyped, RequestsFit, CachedIssued

\* Every variable has its type whatever requests on instances, secrets, volumes,
\* groups and clusters overlap and whichever calls fail; requests take the path of
\* their operation, and only objects that were issued are stored or cached.
THEOREM WorkloadTypes == Spec => [](TypeOK /\ RequestsFit /\ CachedIssued)
<1>1. Init => WorkTyped
  BY InitTyped
<1>2. WorkTyped /\ [Next]_vars => WorkTyped'
  BY StepTyped
<1> QED BY <1>1, <1>2, PTL DEF Spec, WorkTyped
(***************************************************************************)
(* Records of secrets and volumes and their objects in Kubernetes          *)
(***************************************************************************)
\* Request q creates object o, whose record is stored and which is not yet deployed.
Places(q, o) == q.o = o /\ q.op = "create" /\ q.pc \in {"cache", "namespace", "deploy"}
\* Request q removes the record of object o.
Withdraws(q, o) == q.o = o /\ q.pc \in {"uncache", "dbDelete"}

\* A step that neither stores nor removes a record, neither creates nor deletes an
\* object, and after which the same objects are being placed and withdrawn.
SameFor(q, n) == \A o \in Objects : /\ Places(q, o) <=> Places(n, o)
                                    /\ Withdraws(q, o) <=> Withdraws(n, o)
Quiet == /\ UNCHANGED <<kind, nameOf, clusterOf, table, holder>>
         /\ \A s \in Requests : SameFor(req[s], req'[s])

\* The steps that do.
Effective(r) == putRecord(r) \/ deploy(r) \/ undeploy(r) \/ dbDelete(r) \/ deleteNamespaces(r)

LEMMA StepsReq ==
    ASSUME WorkTyped, NEW r \in Requests, NEW n, Step(r, n)
    PROVE  req'[r] = n /\ \A s \in Requests : s # r => req'[s] = req[s]
BY DEF WorkTyped, TypeOK, Step

LEMMA SameQuiet ==
    ASSUME WorkTyped, NEW r \in Requests, NEW n, Step(r, n), SameFor(req[r], n),
           UNCHANGED <<kind, nameOf, clusterOf, table, holder>>
    PROVE  Quiet
<1>1. ASSUME NEW s \in Requests PROVE SameFor(req[s], req'[s])
  <2>1. CASE s = r
    BY <2>1, StepsReq
  <2>2. CASE s # r
    BY <2>2, StepsReq DEF SameFor
  <2> QED BY <2>1, <2>2
<1> QED BY <1>1 DEF Quiet

\* A request that is at neither is the same for this purpose wherever it goes on,
\* unless it goes there.
Apart(q) == q.pc \notin {"cache", "namespace", "deploy", "uncache", "dbDelete"}
LEMMA ApartSame == ASSUME NEW q, NEW n, Apart(q), Apart(n) PROVE SameFor(q, n)
BY DEF Apart, SameFor, Places, Withdraws
LEMMA IdleApart == Apart(Idle)
BY DEF Apart, Idle

\* No call fails in a behaviour without failed calls.
LEMMA NoFault == ASSUME WorkTyped, faults' = 0, NEW r \in Requests PROVE ~Fault(r)
BY WorkloadAssumption DEF WorkTyped, TypeOK, Fault

\* The steps of a request that are not about Kubernetes or the table.
LEMMA ProceedQuiet ==
    ASSUME WorkTyped, kind # "instance", faults' = 0, NEW r \in Requests, Proceed(r), ~Effective(r)
    PROVE  Quiet
<1> DEFINE q == req[r]
<1>0. Fits(q, kind, issued) /\ q \in Request /\ ~Fault(r)
  BY NoFault DEF WorkTyped, TypeOK, RequestsFit
<1>1. CASE getObject(r) \/ cacheFound(r)
  <2>1. PICK n \in {AfterFind(q), [q EXCEPT !.pc = "fill"], Idle} : Step(r, n)
    BY <1>0, <1>1 DEF getObject, cacheFound, Goto
  <2>2. Apart(q) /\ Apart(n)
    <3>1. Apart(q) /\ q.op \notin {"update", "restart"}
      BY <1>0, <1>1 DEF getObject, cacheFound, At, Apart, Fits
    <3>2. Apart([q EXCEPT !.pc = "fill"]) /\ Apart([q EXCEPT !.pc = "undeploy"])
      BY <1>0 DEF Apart, Request
    <3>3. AfterFind(q) \in {[q EXCEPT !.pc = "undeploy"], Idle}
      BY <3>1 DEF AfterFind
    <3> QED BY <3>1, <3>2, <3>3, <2>1, IdleApart
  <2>3. UNCHANGED <<kind, nameOf, clusterOf, table, holder>>
    BY <1>1 DEF getObject, cacheFound, fixed, stored, kubernetes
  <2> QED BY <2>1, <2>2, <2>3, ApartSame, SameQuiet
<1>2. CASE listObjects(r) \/ cacheListed(r) \/ markListed(r)
  <2>1. q.pc \in {"list", "listFill", "listMark"}
    BY <1>2 DEF listObjects, cacheListed, markListed, At
  <2>2. PICK n : Step(r, n) /\ \/ \E S : n = AfterList(q, S)
                               \/ \E S : n = [q EXCEPT !.pc = "listFill", !.todo = S]
                               \/ n = [q EXCEPT !.pc = "listMark"]
    BY <1>0, <1>2 DEF listObjects, cacheListed, markListed, Goto
  <2>3. Apart(n)
    <3>1. ASSUME NEW S PROVE /\ Apart(AfterList(q, S))
                             /\ Apart([q EXCEPT !.pc = "listFill", !.todo = S])
      <4>1. /\ Apart([q EXCEPT !.pc = "put"])
            /\ Apart([q EXCEPT !.pc = "listFill", !.todo = S])
            /\ \A T : Apart([q EXCEPT !.pc = "next", !.todo = T])
        BY <1>0 DEF Apart, Request
      <4>2. CASE q.op = "create"
        <5>1. AfterList(q, S) \in {Idle, [q EXCEPT !.pc = "put"]}
          BY <4>2 DEF AfterList, Cascade
        <5> QED BY <4>1, <5>1, IdleApart
      <4>3. CASE Cascade(q)
        <5>1. AfterList(q, S) =
                [q EXCEPT !.pc = "next", !.todo = {o \in S : q.c = None \/ clusterOf[o] = q.c}]
          BY <4>3 DEF AfterList, Cascade
        <5> QED BY <4>1, <5>1
      <4>4. CASE q.op # "create" /\ ~Cascade(q)
        BY <4>1, <4>4, IdleApart DEF AfterList
      <4> QED BY <4>2, <4>3, <4>4
    <3>2. Apart([q EXCEPT !.pc = "listMark"])
      BY <1>0 DEF Apart, Request
    <3> QED BY <2>2, <3>1, <3>2
  <2>4. Apart(q) /\ UNCHANGED <<kind, nameOf, clusterOf, table, holder>>
    BY <1>2, <2>1 DEF listObjects, cacheListed, markListed, fixed, stored, kubernetes, Apart
  <2> QED BY <2>2, <2>3, <2>4, ApartSame, SameQuiet
<1>3. CASE cacheNew(r) \/ createNamespace(r) \/ uncache(r)
  <2>1. PICK n : /\ Step(r, n)
                 /\ \/ q.pc = "cache" /\ q.op = "create" /\ n = [q EXCEPT !.pc = "namespace"]
                    \/ q.pc = "namespace" /\ q.op = "create" /\ n = [q EXCEPT !.pc = "deploy"]
                    \/ q.pc = "uncache" /\ n = [q EXCEPT !.pc = "dbDelete"]
    <3>1. q.pc \in {"cache", "namespace"} => q.op = "create"
      BY <1>0 DEF Fits, Path, Request, Ops, Installing, Removing
    <3> QED BY <1>0, <1>3, <3>1
            DEF cacheNew, createNamespace, uncache, kubectl_create_namespace, Goto, At
  <2>2. SameFor(q, n)
    BY <1>0, <2>1 DEF SameFor, Places, Withdraws, Request
  <2>3. UNCHANGED <<kind, nameOf, clusterOf, table, holder>>
    BY <1>3 DEF cacheNew, createNamespace, uncache, fixed, stored, kubernetes
  <2> QED BY <2>1, <2>2, <2>3, SameQuiet
<1>4. CASE removeGroup(r) \/ endDeletions(r) \/ pingCluster(r)
  <2>1. PICK n : Step(r, n) /\ \/ \E pc \in {"namespaces", "list", "ping"} : n = [q EXCEPT !.pc = pc]
                               \/ n = Idle
    BY <1>0, <1>4 DEF removeGroup, endDeletions, pingCluster, Goto
  <2>2. Apart(q) /\ Apart(n)
    <3>1. Apart(q)
      BY <1>4 DEF removeGroup, endDeletions, pingCluster, At, Apart
    <3> QED BY <1>0, <2>1, <3>1, IdleApart DEF Apart, Request
  <2>3. UNCHANGED <<kind, nameOf, clusterOf, table, holder>>
    BY <1>4 DEF removeGroup, endDeletions, pingCluster, fixed, stored, kubernetes
  <2> QED BY <2>1, <2>2, <2>3, ApartSame, SameQuiet
<1>5. CASE nextDeletion(r)
  <2>1. PICK n : /\ Step(r, n)
                 /\ \E o \in q.todo : n = [q EXCEPT !.o = o, !.todo = @ \ {o}, !.pc = "undeploy",
                                                   !.then = "next"]
    BY <1>5 DEF nextDeletion
  <2>2. Apart(q) /\ Apart(n)
    BY <1>0, <1>5, <2>1 DEF nextDeletion, At, Apart, Request
  <2>3. UNCHANGED <<kind, nameOf, clusterOf, table, holder>>
    BY <1>5 DEF nextDeletion, fixed, stored, kubernetes
  <2> QED BY <2>1, <2>2, <2>3, ApartSame, SameQuiet
<1>6. CASE removeCluster(r)
  <2>1. PICK n \in NextOwned(q.owned) : Step(r, n)
    BY <1>6 DEF removeCluster
  <2>2. n.pc \in {"idle", "list", "ping"}
    <3>1. CASE q.owned = {}
      BY <2>1, <3>1 DEF NextOwned, Idle
    <3>2. CASE q.owned # {}
      <4>1. PICK c \in q.owned : n = ClusterCascade(c, TRUE, q.owned \ {c})
        BY <2>1, <3>2 DEF NextOwned
      <4> QED BY <4>1 DEF ClusterCascade, Idle
    <3> QED BY <3>1, <3>2
  <2>3. Apart(q) /\ Apart(n)
    BY <1>6, <2>2 DEF removeCluster, At, Apart
  <2>4. UNCHANGED <<kind, nameOf, clusterOf, table, holder>>
    BY <1>6 DEF removeCluster, fixed, stored, kubernetes
  <2> QED BY <2>1, <2>3, <2>4, ApartSame, SameQuiet
<1>7. ~(getConfig(r) \/ putConfig(r) \/ cleanup(r) \/ stopInstance(r) \/ awaitStopped(r) \/ dbDeleteConfig(r))
  BY <1>0 DEF getConfig, putConfig, cleanup, stopInstance, awaitStopped, dbDeleteConfig, At, Fits,
              Path, Request, Ops, Installing, Removing
<1> QED BY <1>1, <1>2, <1>3, <1>4, <1>5, <1>6, <1>7 DEF Proceed, Effective
\* Requests that arrive, and time.
LEMMA BeginQuiet ==
    ASSUME WorkTyped, NEW r \in Requests, NEW n, Begin(r, n), Apart(n)
    PROVE  Quiet
<1>1. /\ UNCHANGED <<kind, nameOf, clusterOf, table, holder>> /\ Step(r, n) /\ Apart(req[r])
  BY DEF Begin, fixed, stored, kubernetes, At, Apart
<1> QED BY <1>1, ApartSame, SameQuiet
LEMMA StartQuiet == ASSUME WorkTyped, NEW r \in Requests, Start(r) PROVE Quiet
<1>1. ASSUME NEW key, listBy(r, key) PROVE Quiet
  <2>1. Apart([Idle EXCEPT !.op = "list", !.pc = "list", !.key = key])
    BY DEF Apart, Idle
  <2> QED BY <1>1, <2>1, BeginQuiet DEF listBy
<1>2. ASSUME NEW o, fetch(r, o) PROVE Quiet
  <2>1. Apart([Idle EXCEPT !.op = "get", !.pc = "find", !.o = o])
    BY DEF Apart, Idle
  <2> QED BY <1>2, <2>1, BeginQuiet DEF fetch
<1>3. ASSUME NEW o, restart(r, o) PROVE Quiet
  <2>1. Apart([Idle EXCEPT !.op = "restart", !.pc = "find", !.o = o])
    BY DEF Apart, Idle
  <2> QED BY <1>3, <2>1, BeginQuiet DEF restart
<1>4. ASSUME NEW o, NEW v, create(r, o, v) PROVE Quiet
  <2>1. Apart([Idle EXCEPT !.op = "create", !.pc = "list", !.o = o, !.config = v,
                           !.key = <<"both", GroupOf[o], clusterOf[o]>>])
    BY DEF Apart, Idle
  <2> QED BY <1>4, <2>1, BeginQuiet DEF create
<1>5. ASSUME NEW o, NEW v, update(r, o, v) PROVE Quiet
  <2>1. Apart([Idle EXCEPT !.op = "update", !.pc = "find", !.o = o, !.config = v])
    BY DEF Apart, Idle
  <2> QED BY <1>5, <2>1, BeginQuiet DEF update
<1>6. ASSUME NEW o, NEW force, delete(r, o, force) PROVE Quiet
  <2>1. Apart([Idle EXCEPT !.op = "delete", !.pc = "find", !.o = o, !.force = force])
    BY DEF Apart, Idle
  <2> QED BY <1>6, <2>1, BeginQuiet DEF delete
<1>7. ASSUME NEW g, deleteGroup(r, g) PROVE Quiet
  <2>1. Apart([Idle EXCEPT !.op = "deleteGroup", !.pc = "removeGroup", !.key = <<"group", g>>])
    BY DEF Apart, Idle
  <2> QED BY <1>7, <2>1, BeginQuiet DEF deleteGroup
<1>8. ASSUME NEW c, NEW force, deleteCluster(r, c, force) PROVE Quiet
  <2>1. Apart(ClusterCascade(c, force, {}))
    BY DEF Apart, ClusterCascade, Idle
  <2> QED BY <1>8, <2>1, BeginQuiet DEF deleteCluster
<1> QED BY <1>1, <1>2, <1>3, <1>4, <1>5, <1>6, <1>7, <1>8 DEF Start
LEMMA ExpiryQuiet == ASSUME Expire PROVE Quiet
<1>1. UNCHANGED <<kind, nameOf, clusterOf, table, holder, req>>
  BY DEF Expire, ExpireRecord, ExpireCategory, ExpireCopy, ExpireWhole, fixed, stored, kubernetes
<1> QED BY <1>1 DEF Quiet, SameFor

\* Every step is quiet or effective, and neither kind nor place of an object changes.
LEMMA StepQuietOrEffective ==
    ASSUME WorkTyped, [Next]_vars, kind # "instance", faults' = 0
    PROVE  \/ Quiet
           \/ \E r \in Requests : Proceed(r) /\ Effective(r)
<1>1. CASE UNCHANGED vars
  BY <1>1 DEF vars, Quiet, SameFor
<1>2. CASE Expire \/ \E r \in Requests : Start(r)
  BY <1>2, StartQuiet, ExpiryQuiet
<1>3. CASE \E r \in Requests : Proceed(r)
  BY <1>3, ProceedQuiet
<1> QED BY <1>1, <1>2, <1>3 DEF Next

\* Whatever is recorded has its object in Kubernetes, or is about to be deployed, or
\* about to be removed.
RecordsHeld ==
    kind # "instance" /\ faults = 0 /\ ~struck =>
        \A o \in table : \/ holder[Slot(o)] = o
                         \/ \E r \in Requests : Places(req[r], o) \/ Withdraws(req[r], o)

\* What an effective step of a secret's or volume's request does, no call failing.
LEMMA PutEffect ==
    ASSUME WorkTyped, kind # "instance", faults' = 0, NEW r \in Requests, putRecord(r)
    PROVE  /\ req[r].op = "create" /\ req[r].pc = "put" /\ req[r].o \in Objects
           /\ Step(r, [req[r] EXCEPT !.pc = "cache"])
           /\ table' = table \cup {req[r].o} /\ holder' = holder
BY NoFault
   DEF putRecord, At, Goto, kubernetes, WorkTyped, TypeOK, RequestsFit, Fits, Path, AboutOne, Request,
       Ops, Installing, Removing
LEMMA DeployEffect ==
    ASSUME WorkTyped, kind # "instance", faults' = 0, NEW r \in Requests, deploy(r)
    PROVE  /\ req[r].op = "create" /\ req[r].pc = "deploy" /\ req[r].o \in Objects
           /\ table' = table
           /\ \/ /\ holder[Slot(req[r].o)] = None
                 /\ holder' = [holder EXCEPT ![Slot(req[r].o)] = req[r].o]
                 /\ Step(r, Idle)
              \/ /\ holder[Slot(req[r].o)] # None /\ holder' = holder
                 /\ Step(r, [req[r] EXCEPT !.pc = "uncache", !.then = "idle"])
<1> DEFINE q == req[r]
<1>1. /\ q.op = "create" /\ q.pc = "deploy" /\ q.o \in Objects
  BY DEF deploy, At, WorkTyped, TypeOK, RequestsFit, Fits, Path, AboutOne, Request, Ops, Installing,
         Removing
<1>2. Deployed(q) = Idle /\ NotDeployed(q) = [q EXCEPT !.pc = "uncache", !.then = "idle"]
  BY <1>1 DEF Deployed, NotDeployed
<1>3. Slot(q.o) \in Slots
  BY <1>1, SlotTyped
<1> QED BY <1>1, <1>2, <1>3, NoFault DEF deploy, runAs, running, kubernetes, stored
LEMMA UndeployEffect ==
    ASSUME WorkTyped, kind # "instance", faults' = 0, NEW r \in Requests, undeploy(r)
    PROVE  /\ req[r].pc = "undeploy" /\ req[r].o \in Objects /\ table' = table
           /\ \/ /\ holder[Slot(req[r].o)] # None
                 /\ holder' = [k \in Slots |-> IF k = Slot(req[r].o) THEN None ELSE holder[k]]
                 /\ Step(r, [req[r] EXCEPT !.pc = "uncache"])
              \/ holder' = holder /\ Step(r, Kept(req[r]))
              \/ /\ Forced(req[r]) \/ ~req[r].reach
                 /\ holder' = holder /\ Step(r, [req[r] EXCEPT !.pc = "uncache"])
<1> DEFINE q == req[r]
<1>1. q.pc = "undeploy" /\ q.o \in Objects
  BY DEF undeploy, At, WorkTyped, TypeOK, RequestsFit, Fits, AboutOne
<1> QED BY <1>1, NoFault DEF undeploy, takeDown, running, Undeployed, stored
LEMMA DbDeleteEffect ==
    ASSUME WorkTyped, kind # "instance", faults' = 0, NEW r \in Requests, dbDelete(r)
    PROVE  /\ req[r].pc = "dbDelete" /\ req[r].o \in Objects
           /\ table' = table \ {req[r].o} /\ holder' = holder
           /\ \E n : Step(r, n) /\ n.pc \in {"idle", "next"}
<1> DEFINE q == req[r]
<1>1. q.pc = "dbDelete" /\ q.o \in Objects /\ q.then \in {"idle", "next"} /\ q \in Request
  BY DEF dbDelete, At, WorkTyped, TypeOK, RequestsFit, Fits, AboutOne, Removing, Request
<1>2. AfterRemove(q, TRUE).pc \in {"idle", "next"}
  BY <1>1 DEF AfterRemove, Idle, Request
<1>3. table' = table \ {q.o} /\ Step(r, AfterRemove(q, TRUE)) /\ holder' = holder
  BY NoFault DEF dbDelete, kubernetes
<1> QED BY <1>1, <1>2, <1>3
LEMMA NamespacesEffect ==
    ASSUME WorkTyped, faults' = 0, NEW r \in Requests, deleteNamespaces(r), ~Strikes(r)
    PROVE  Quiet
<1> DEFINE q == req[r]
<1>1. PICK S : takeDown(S) \/ UNCHANGED holder
  BY DEF deleteNamespaces, kubectl_delete_namespace
<1>2. holder \in [Slots -> Objects \cup {None}] /\ running \ running' = {}
  BY DEF Strikes, deleteNamespaces, At, WorkTyped, TypeOK
<1>3. holder' = holder
  <2>1. CASE takeDown(S)
    <3>1. /\ holder' \in [Slots -> Objects \cup {None}]
          /\ \A k \in Slots : holder'[k] = IF k \in S THEN None ELSE holder[k]
      BY <1>2, <2>1 DEF takeDown
    <3>2. \A k \in Slots : holder'[k] = holder[k]
      BY <1>2, <3>1 DEF running
    <3> QED BY <1>2, <3>1, <3>2
  <2> QED BY <1>1, <2>1
<1>4. PICK n \in NextCascade(q) : Step(r, n)
  BY DEF deleteNamespaces
<1>5. Apart(q) /\ Apart(n)
  <2>1. CASE q.op = "deleteCluster"
    BY <1>4, <2>1 DEF NextCascade, Apart, WorkTyped, TypeOK, Request, deleteNamespaces, At
  <2>2. CASE q.op # "deleteCluster"
    <3>1. PICK owned : n \in NextOwned(owned)
      BY <1>4, <2>2 DEF NextCascade
    <3>2. CASE owned = {}
      BY <3>1, <3>2, IdleApart DEF NextOwned, deleteNamespaces, At, Apart
    <3>3. CASE owned # {}
      <4>1. PICK c \in owned : n = ClusterCascade(c, TRUE, owned \ {c})
        BY <3>1, <3>3 DEF NextOwned
      <4> QED BY <4>1 DEF ClusterCascade, Idle, deleteNamespaces, At, Apart
    <3> QED BY <3>2, <3>3
  <2> QED BY <2>1, <2>2
<1> QED BY <1>3, <1>4, <1>5, ApartSame, SameQuiet DEF deleteNamespaces, fixed, stored
\* Kinds and places of objects never change; failed calls and deletions on behalf
\* of other records are not forgotten.
LEMMA ProceedHistory ==
    ASSUME WorkTyped, NEW r \in Requests, Proceed(r)
    PROVE  /\ UNCHANGED <<kind, nameOf, clusterOf>>
           /\ faults' = 0 => faults = 0
           /\ ~struck' => ~struck
<1>1. UNCHANGED fixed /\ (faults' = faults \/ Fault(r))
  BY DEF Proceed, getObject, cacheFound, getConfig, listObjects, cacheListed, markListed, putRecord,
         putConfig, cacheNew, createNamespace, kubectl_create_namespace, deploy, cleanup,
         stopInstance, awaitStopped, undeploy, uncache, dbDelete, dbDeleteConfig, removeGroup,
         nextDeletion, endDeletions, pingCluster, deleteNamespaces, kubectl_delete_namespace,
         removeCluster
<1>2. ~struck' => ~struck
  BY DEF Proceed
<1> QED BY <1>1, <1>2, NoFault DEF fixed
LEMMA HistoryLasts ==
    ASSUME WorkTyped, [Next]_vars
    PROVE  /\ UNCHANGED <<kind, nameOf, clusterOf>> /\ \A o : Slot(o)' = Slot(o)
           /\ faults' = 0 => faults = 0
           /\ ~struck' => ~struck
<1>1. CASE UNCHANGED vars
  BY <1>1 DEF vars, Slot
<1>2. CASE Expire
  <2>1. UNCHANGED <<fixed, struck, faults>>
    BY <1>2 DEF Expire, ExpireRecord, ExpireCategory, ExpireCopy, ExpireWhole
  <2> QED BY <2>1 DEF fixed, Slot
<1>3. ASSUME NEW r \in Requests, Start(r) PROVE UNCHANGED <<fixed, struck, faults>>
  BY <1>3 DEF Start, listBy, fetch, restart, create, update, delete, deleteGroup, deleteCluster, Begin
<1>4. CASE \E r \in Requests : Start(r)
  BY <1>3, <1>4 DEF fixed, Slot
<1>5. CASE \E r \in Requests : Proceed(r)
  BY <1>5, ProceedHistory DEF Slot
<1> QED BY <1>1, <1>2, <1>4, <1>5 DEF Next

LEMMA RecordsHeldKept ==
    ASSUME WorkTyped, RecordsHeld, [Next]_vars PROVE RecordsHeld'
<1> SUFFICES ASSUME kind' # "instance", faults' = 0, ~struck', NEW p \in table'
             PROVE  \/ (holder[Slot(p)] = p)'
                    \/ \E s \in Requests : Places(req'[s], p) \/ Withdraws(req'[s], p)
  BY DEF RecordsHeld
<1>1. /\ kind' = kind /\ faults = 0 /\ ~struck
      /\ \A r \in Requests : Proceed(r) => ~Strikes(r)
      /\ \A o : Slot(o)' = Slot(o)
  BY HistoryLasts DEF Proceed
<1>2. /\ holder \in [Slots -> Objects \cup {None}] /\ table' \subseteq Objects
      /\ None \notin Objects
      /\ \A o \in table : \/ holder[Slot(o)] = o
                          \/ \E s \in Requests : Places(req[s], o) \/ Withdraws(req[s], o)
      /\ req \in [Requests -> Request]
  BY <1>1, StepTyped, WorkloadAssumption DEF WorkTyped, TypeOK, RecordsHeld
<1>3. p \in Objects /\ Slot(p) \in Slots
  BY <1>2, SlotTyped
<1>4. CASE Quiet
  BY <1>1, <1>2, <1>3, <1>4 DEF Quiet, SameFor
<1>5. ASSUME NEW r \in Requests, Proceed(r), Effective(r)
      PROVE  \/ holder'[Slot(p)] = p
             \/ \E s \in Requests : Places(req'[s], p) \/ Withdraws(req'[s], p)
  <2> DEFINE q == req[r]
             k == Slot(q.o)
  <2>0. q \in Request /\ (q.o \in Objects => k \in Slots)
    BY <1>2, SlotTyped
  <2>1. CASE putRecord(r)
    <3>1. q.op = "create" /\ q.pc = "put" /\ table' = table \cup {q.o} /\ holder' = holder
          /\ Step(r, [q EXCEPT !.pc = "cache"])
      BY <1>1, <2>1, PutEffect
    <3>2. req'[r] = [q EXCEPT !.pc = "cache"] /\ \A s \in Requests : s # r => req'[s] = req[s]
      BY <3>1, StepsReq
    <3>3. Places(req'[r], q.o)
      BY <2>0, <3>1, <3>2 DEF Places, Request
    <3>4. ~Places(q, p) /\ ~Withdraws(q, p)
      BY <3>1 DEF Places, Withdraws
    <3>5. CASE p = q.o
      BY <3>3, <3>5
    <3>6. CASE p # q.o
      BY <1>2, <3>1, <3>2, <3>4, <3>6
    <3> QED BY <3>5, <3>6
  <2>2. CASE deploy(r)
    <3>1. /\ q.op = "create" /\ q.pc = "deploy" /\ q.o \in Objects /\ table' = table
          /\ \/ holder[k] = None /\ holder' = [holder EXCEPT ![k] = q.o] /\ Step(r, Idle)
             \/ /\ holder[k] # None /\ holder' = holder
                /\ Step(r, [q EXCEPT !.pc = "uncache", !.then = "idle"])
      BY <1>1, <2>2, DeployEffect
    <3>2. \A s \in Requests : s # r => req'[s] = req[s]
      BY <3>1, StepsReq
    <3>3. CASE p = q.o
      <4>1. CASE holder' = [holder EXCEPT ![k] = q.o]
        BY <1>2, <1>3, <3>3, <4>1
      <4>2. CASE Step(r, [q EXCEPT !.pc = "uncache", !.then = "idle"])
        <5>1. req'[r] = [q EXCEPT !.pc = "uncache", !.then = "idle"]
          BY <4>2, StepsReq
        <5>2. Withdraws(req'[r], p)
          BY <2>0, <3>3, <5>1 DEF Withdraws, Request
        <5> QED BY <5>2
      <4> QED BY <3>1, <4>1, <4>2
    <3>4. CASE p # q.o
      <4>1. ~Places(q, p) /\ ~Withdraws(q, p)
        BY <3>4 DEF Places, Withdraws
      <4>2. holder[Slot(p)] = p => holder'[Slot(p)] = p
        BY <1>2, <1>3, <3>1
      <4> QED BY <1>2, <3>1, <3>2, <4>1, <4>2
    <3> QED BY <3>3, <3>4
  <2>3. CASE undeploy(r)
    <3>1. /\ q.pc = "undeploy" /\ q.o \in Objects /\ table' = table
          /\ \/ /\ holder[k] # None
                /\ holder' = [l \in Slots |-> IF l = k THEN None ELSE holder[l]]
                /\ Step(r, [q EXCEPT !.pc = "uncache"])
             \/ holder' = holder /\ \E n : Step(r, n)
      BY <1>1, <2>3, UndeployEffect
    <3>2. /\ \A s \in Requests : s # r => req'[s] = req[s]
          /\ ~Places(q, p) /\ ~Withdraws(q, p)
      BY <3>1, StepsReq DEF Places, Withdraws
    <3>3. CASE holder' = holder
      BY <1>2, <3>1, <3>2, <3>3
    <3>4. CASE /\ holder[k] # None
               /\ holder' = [l \in Slots |-> IF l = k THEN None ELSE holder[l]]
               /\ Step(r, [q EXCEPT !.pc = "uncache"])
      <4>1. holder[k] = q.o
        <5>1. k \in running /\ k \notin running'
          BY <2>0, <3>1, <3>4 DEF running
        <5> QED BY <1>1, <1>5, <3>1, <5>1 DEF Strikes, At
      <4>2. CASE p = q.o
        <5>1. req'[r] = [q EXCEPT !.pc = "uncache"]
          BY <3>4, StepsReq
        <5>2. Withdraws(req'[r], p)
          BY <2>0, <4>2, <5>1 DEF Withdraws, Request
        <5> QED BY <5>2
      <4>3. CASE p # q.o
        <5>1. holder[Slot(p)] = p => holder'[Slot(p)] = p
          BY <1>3, <3>4, <4>1, <4>3
        <5> QED BY <1>2, <3>1, <3>2, <5>1
      <4> QED BY <4>2, <4>3
    <3> QED BY <3>1, <3>3, <3>4
  <2>4. CASE dbDelete(r)
    <3>1. /\ q.pc = "dbDelete" /\ table' = table \ {q.o} /\ holder' = holder
          /\ \E n : Step(r, n)
      BY <1>1, <2>4, DbDeleteEffect
    <3>2. \A s \in Requests : s # r => req'[s] = req[s]
      BY <3>1, StepsReq
    <3>3. ~Places(q, p) /\ ~Withdraws(q, p)
      BY <3>1 DEF Places, Withdraws
    <3> QED BY <1>2, <3>1, <3>2, <3>3
  <2>5. CASE deleteNamespaces(r)
    <3>1. Quiet
      BY <1>1, <1>5, <2>5, NamespacesEffect
    <3> QED BY <1>2, <1>3, <3>1 DEF Quiet, SameFor
  <2> QED BY <1>5, <2>1, <2>2, <2>3, <2>4, <2>5 DEF Effective
<1>6. (holder[Slot(p)])' = holder'[Slot(p)]
  BY <1>1
<1>7. Quiet \/ \E r \in Requests : Proceed(r) /\ Effective(r)
  BY <1>1, StepQuietOrEffective
<1> QED BY <1>4, <1>5, <1>6, <1>7

(***************************************************************************)
(* Objects that are being created                                          *)
(***************************************************************************)
\* What RunningRecorded is about: no instances, cascades or forced deletions.
Tame == kind # "instance" /\ ~Cascades /\ TRUE \notin Forces
Plain(q) == ~Cascade(q) /\ q.reach /\ ~q.force /\ q.then = "idle"

\* An object whose creation has not come to storing its record: nothing and no
\* other request knows its ID, but one that asks for it in vain.
Unstored(q) == q.op = "create" /\ q.pc \in {"list", "listFill", "listMark", "put"}
Fresh(o) == o \notin issued \/ \E r \in Requests : Unstored(req[r]) /\ req[r].o = o
Unknown(o) ==
    /\ o \notin table /\ main[o] = "none"
    /\ \A s \in Requests : /\ o \notin req[s].todo
                           /\ req[s].o = o => req[s].op = "create" \/ req[s].pc = "find"
OneCreator == \A r, s \in Requests :
    req[r].op = "create" /\ req[s].op = "create" /\ req[r].o = req[s].o => r = s
Orderly ==
    Tame /\ faults = 0 =>
        /\ \A r \in Requests : Plain(req[r])
        /\ OneCreator
        /\ \A o \in Objects : Fresh(o) => Unknown(o)

\* How a request goes on from q to n, as far as it matters for this.
GoesOrderly(q, n) ==
    /\ Plain(n)
    /\ n = Idle \/ (n.op = q.op /\ n.o = q.o)
    /\ n.todo \subseteq q.todo \cup table
    /\ n # Idle /\ q.pc = "find" => q.o \in table \/ main[q.o] # "none"
    /\ Unstored(n) => Unstored(q)
    /\ \A o \in table' \ table : o = q.o /\ Unstored(q) /\ ~Unstored(n)
    /\ \A o \in Objects : main'[o] # "none" /\ main[o] = "none" =>
           \/ o \in q.todo
           \/ o = q.o /\ (q.pc = "fill" \/ (q.op = "create" /\ q.pc = "cache"))

LEMMA IdleOrderly ==
    ASSUME NEW q, table' \subseteq table, main' = main
    PROVE  GoesOrderly(q, Idle)
BY DEF GoesOrderly, Plain, Cascade, Unstored, Idle

LEMMA ProceedOrderly ==
    ASSUME WorkTyped, Tame, faults' = 0, NEW r \in Requests, Proceed(r), Plain(req[r])
    PROVE  \E n \in Request : Step(r, n) /\ GoesOrderly(req[r], n)
<1> DEFINE q == req[r]
<1>0. /\ Fits(q, kind, issued) /\ q \in Request /\ ~Fault(r) /\ kind # "instance"
      /\ q.op \in {"list", "get", "create", "delete"} /\ q.pc # "idle"
      /\ main \in [Objects -> {"none", "live", "expired"}]
  <2>1. q.pc # "idle"
    BY DEF Proceed, getObject, cacheFound, getConfig, listObjects, cacheListed, markListed, putRecord,
           putConfig, cacheNew, createNamespace, deploy, cleanup, stopInstance, awaitStopped,
           undeploy, uncache, dbDelete, dbDeleteConfig, removeGroup, nextDeletion, endDeletions,
           pingCluster, deleteNamespaces, removeCluster, At
  <2>2. /\ Fits(q, kind, issued) /\ q \in Request /\ ~Fault(r) /\ kind # "instance"
        /\ main \in [Objects -> {"none", "live", "expired"}]
    BY NoFault DEF WorkTyped, TypeOK, RequestsFit, Tame
  <2>3. q.op \in {"list", "get", "create", "delete"}
    BY <2>1, <2>2 DEF Fits, Path, Plain, Cascade, Request, Ops
  <2> QED BY <2>1, <2>2, <2>3
<1>1. ASSUME NEW pc \in PCs, Step(r, [q EXCEPT !.pc = pc]), pc # "find",
             q.pc = "find" => q.o \in table \/ main[q.o] # "none",
             Unstored([q EXCEPT !.pc = pc]) => Unstored(q),
             \A o \in table' \ table : o = q.o /\ Unstored(q) /\ pc = "cache",
             \A o \in Objects : main'[o] # "none" /\ main[o] = "none" =>
                 \/ o \in q.todo
                 \/ o = q.o /\ (q.pc = "fill" \/ (q.op = "create" /\ q.pc = "cache"))
      PROVE  \E n \in Request : Step(r, n) /\ GoesOrderly(q, n)
  <2>1. PICK n : n = [q EXCEPT !.pc = pc]
    OBVIOUS
  <2>2. /\ n \in Request /\ n.pc = pc /\ n.op = q.op /\ n.o = q.o /\ n.todo = q.todo
        /\ n.reach = q.reach /\ n.force = q.force /\ n.then = q.then
    BY <1>0, <2>1 DEF Request
  <2>3. Plain(n) /\ (pc = "cache" => ~Unstored(n))
    BY <2>2 DEF Plain, Cascade, Unstored
  <2>4. GoesOrderly(q, n)
    BY <1>1, <2>1, <2>2, <2>3 DEF GoesOrderly
  <2> QED BY <1>1, <2>1, <2>2, <2>4
<1>2. ASSUME Step(r, Idle), table' \subseteq table, main' = main
      PROVE  \E n \in Request : Step(r, n) /\ GoesOrderly(q, n)
  BY <1>2, IdleOrderly DEF Idle, Request, Ops, PCs
<1>3. CASE getObject(r)
  <2>1. q.pc = "find" /\ table' = table /\ main' = main
    BY <1>3 DEF getObject, At, stored, caches
  <2>2. CASE q.o \in table /\ Step(r, [q EXCEPT !.pc = "fill"])
    <3>1. ~Unstored([q EXCEPT !.pc = "fill"])
      BY <1>0 DEF Unstored, Request
    <3> QED BY <1>1, <2>1, <2>2, <3>1 DEF PCs
  <2>3. CASE main[q.o] = "live" /\ Step(r, AfterFind(q))
    <3>1. CASE q.op = "delete"
      <4>1. AfterFind(q) = [q EXCEPT !.pc = "undeploy"] /\ ~Unstored([q EXCEPT !.pc = "undeploy"])
        BY <1>0, <3>1 DEF AfterFind, Unstored, Request
      <4> QED BY <1>1, <2>1, <2>3, <4>1 DEF PCs
    <3>2. CASE q.op # "delete"
      BY <1>0, <1>2, <2>1, <2>3, <3>2 DEF AfterFind
    <3> QED BY <3>1, <3>2
  <2>4. CASE Step(r, Idle)
    BY <1>2, <2>1, <2>4
  <2> QED BY <1>3, <2>2, <2>3, <2>4 DEF getObject, Goto
<1>4. CASE cacheFound(r)
  <2>1. /\ q.pc = "fill" /\ table' = table /\ Step(r, AfterFind(q))
        /\ main' = [o \in Objects |-> IF o \in {q.o} THEN "live" ELSE main[o]]
    BY <1>4 DEF cacheFound, fillAll, At, stored
  <2>2. \A o \in Objects : main'[o] # "none" /\ main[o] = "none" => o = q.o
    BY <2>1
  <2>3. CASE q.op = "delete"
    <3>1. AfterFind(q) = [q EXCEPT !.pc = "undeploy"] /\ ~Unstored([q EXCEPT !.pc = "undeploy"])
      BY <1>0, <2>3 DEF AfterFind, Unstored, Request
    <3> QED BY <1>1, <2>1, <2>2, <3>1 DEF PCs
  <2>4. CASE q.op # "delete"
    <3>1. AfterFind(q) = Idle
      BY <1>0, <2>4 DEF AfterFind
    <3>2. GoesOrderly(q, Idle)
      BY <2>1, <2>2 DEF GoesOrderly, Plain, Cascade, Unstored, Idle
    <3> QED BY <2>1, <3>1, <3>2 DEF Idle, Request, Ops, PCs
  <2> QED BY <2>3, <2>4
<1>5. CASE listObjects(r)
  <2>1. q.pc = "list" /\ table' = table /\ main' = main
    BY <1>5 DEF listObjects, At, stored, caches
  <2>2. ASSUME NEW S, Step(r, AfterList(q, S)) PROVE \E n \in Request : Step(r, n) /\ GoesOrderly(q, n)
    <3>1. CASE AfterList(q, S) = Idle
      BY <1>2, <2>1, <2>2, <3>1
    <3>2. CASE AfterList(q, S) # Idle
      <4>1. q.op = "create" /\ AfterList(q, S) = [q EXCEPT !.pc = "put"] /\ Unstored(q)
        BY <2>1, <3>2 DEF AfterList, Plain, Unstored
      <4> QED BY <1>1, <2>1, <2>2, <4>1 DEF PCs
    <3> QED BY <3>1, <3>2
  <2>3. CASE Step(r, [q EXCEPT !.pc = "listFill", !.todo = table \cap Matching(q.key)])
    <3>1. PICK n : n = [q EXCEPT !.pc = "listFill", !.todo = table \cap Matching(q.key)]
      OBVIOUS
    <3>2. /\ n \in Request /\ n.pc = "listFill" /\ n.op = q.op /\ n.o = q.o /\ n.todo \subseteq table
          /\ n.reach = q.reach /\ n.force = q.force /\ n.then = q.then
      BY <1>0, <3>1 DEF Request, PCs, WorkTyped, TypeOK
    <3>3. GoesOrderly(q, n)
      BY <2>1, <3>2 DEF GoesOrderly, Plain, Cascade, Unstored
    <3> QED BY <2>3, <3>1, <3>2, <3>3
  <2> QED BY <1>0, <1>5, <2>2, <2>3 DEF listObjects
<1>6. CASE cacheListed(r)
  <2>1. /\ q.pc = "listFill" /\ table' = table /\ Step(r, [q EXCEPT !.pc = "listMark"])
        /\ main' = [o \in Objects |-> IF o \in q.todo THEN "live" ELSE main[o]]
    BY <1>6 DEF cacheListed, At, Goto, stored
  <2>2. Unstored([q EXCEPT !.pc = "listMark"]) => Unstored(q)
    BY <1>0, <2>1 DEF Unstored, Request
  <2>3. \A o \in Objects : main'[o] # "none" /\ main[o] = "none" => o \in q.todo
    BY <2>1
  <2> QED BY <1>1, <2>1, <2>2, <2>3 DEF PCs
<1>7. CASE markListed(r)
  <2>1. q.pc = "listMark" /\ table' = table /\ main' = main /\ Step(r, AfterList(q, q.todo))
    BY <1>7 DEF markListed, At, stored
  <2>2. CASE AfterList(q, q.todo) = Idle
    BY <1>2, <2>1, <2>2
  <2>3. CASE AfterList(q, q.todo) # Idle
    <3>1. q.op = "create" /\ AfterList(q, q.todo) = [q EXCEPT !.pc = "put"] /\ Unstored(q)
      BY <2>1, <2>3 DEF AfterList, Plain, Unstored
    <3> QED BY <1>1, <2>1, <3>1 DEF PCs
  <2> QED BY <2>2, <2>3
<1>8. CASE putRecord(r)
  <2>1. /\ q.op = "create" /\ q.pc = "put" /\ Step(r, [q EXCEPT !.pc = "cache"])
        /\ table' = table \cup {q.o} /\ main' = main
    BY <1>0, <1>8, PutEffect DEF putRecord, caches
  <2>2. Unstored(q) /\ ~Unstored([q EXCEPT !.pc = "cache"])
    BY <1>0, <2>1 DEF Unstored, Request
  <2> QED BY <1>1, <2>1, <2>2 DEF PCs
<1>9. CASE cacheNew(r)
  <2>1. /\ q.pc = "cache" /\ q.op = "create" /\ table' = table
        /\ Step(r, [q EXCEPT !.pc = "namespace"])
        /\ main' = [o \in Objects |-> IF o \in {q.o} THEN "live" ELSE main[o]]
    <3>1. q.pc = "cache" /\ q.op = "create"
      BY <1>0, <1>9 DEF cacheNew, At, Fits, Path, Installing, Removing
    <3> QED BY <1>9, <3>1 DEF cacheNew, fillAll, stored
  <2>2. ~Unstored([q EXCEPT !.pc = "namespace"])
    BY <1>0 DEF Unstored, Request
  <2>3. \A o \in Objects : main'[o] # "none" /\ main[o] = "none" => o = q.o
    BY <2>1
  <2> QED BY <1>1, <2>1, <2>2, <2>3 DEF PCs
<1>10. CASE createNamespace(r)
  <2>1. q.pc = "namespace" /\ table' = table /\ main' = main /\ Step(r, [q EXCEPT !.pc = "deploy"])
    BY <1>0, <1>10 DEF createNamespace, kubectl_create_namespace, At, Goto, stored, caches
  <2>2. ~Unstored([q EXCEPT !.pc = "deploy"])
    BY <1>0 DEF Unstored, Request
  <2> QED BY <1>1, <2>1, <2>2 DEF PCs
<1>11. CASE deploy(r)
  <2>1. /\ q.pc = "deploy" /\ table' = table /\ main' = main
        /\ Step(r, Idle) \/ Step(r, [q EXCEPT !.pc = "uncache", !.then = "idle"])
    BY <1>0, <1>11, DeployEffect DEF deploy, caches
  <2>2. CASE Step(r, Idle)
    BY <1>2, <2>1, <2>2
  <2>3. CASE Step(r, [q EXCEPT !.pc = "uncache", !.then = "idle"])
    <3>1. PICK n : n = [q EXCEPT !.pc = "uncache", !.then = "idle"]
      OBVIOUS
    <3>2. /\ n \in Request /\ n.pc = "uncache" /\ n.op = q.op /\ n.o = q.o /\ n.todo = q.todo
          /\ n.reach = q.reach /\ n.force = q.force /\ n.then = "idle"
      BY <1>0, <3>1 DEF Request, PCs
    <3>3. GoesOrderly(q, n)
      BY <2>1, <3>2 DEF GoesOrderly, Plain, Cascade, Unstored
    <3> QED BY <2>3, <3>1, <3>2, <3>3
  <2> QED BY <2>1, <2>2, <2>3
<1>12. CASE undeploy(r)
  <2>1. /\ q.pc = "undeploy" /\ table' = table /\ main' = main
        /\ Step(r, Kept(q)) \/ Step(r, [q EXCEPT !.pc = "uncache"])
    BY <1>0, <1>12, UndeployEffect DEF undeploy, caches
  <2>2. q.op = "delete" /\ Kept(q) = Idle
    BY <1>0, <2>1 DEF Fits, Path, Kept, Installing, Removing
  <2>3. ~Unstored([q EXCEPT !.pc = "uncache"])
    BY <1>0 DEF Unstored, Request
  <2> QED BY <1>1, <1>2, <2>1, <2>2, <2>3 DEF PCs
<1>13. CASE uncache(r)
  <2>1. /\ q.pc = "uncache" /\ table' = table /\ main' = [main EXCEPT ![q.o] = "none"]
        /\ Step(r, [q EXCEPT !.pc = "dbDelete"])
    BY <1>13 DEF uncache, At, Goto, stored
  <2>2. ~Unstored([q EXCEPT !.pc = "dbDelete"])
    BY <1>0 DEF Unstored, Request
  <2>3. \A o \in Objects : main'[o] # "none" => main[o] # "none"
    BY <1>0, <2>1
  <2> QED BY <1>1, <2>1, <2>2, <2>3 DEF PCs
<1>14. CASE dbDelete(r)
  <2>1. Step(r, AfterRemove(q, TRUE)) /\ table' = table \ {q.o} /\ main' = main
    BY <1>0, <1>14 DEF dbDelete, caches
  <2>2. AfterRemove(q, TRUE) = Idle
    BY DEF AfterRemove, Plain
  <2> QED BY <1>2, <2>1, <2>2
<1>15. ~(\/ getConfig(r) \/ putConfig(r) \/ cleanup(r) \/ stopInstance(r) \/ awaitStopped(r)
         \/ dbDeleteConfig(r) \/ removeGroup(r) \/ nextDeletion(r) \/ endDeletions(r)
         \/ pingCluster(r) \/ deleteNamespaces(r) \/ removeCluster(r))
  BY <1>0 DEF getConfig, putConfig, cleanup, stopInstance, awaitStopped, dbDeleteConfig, removeGroup,
              nextDeletion, endDeletions, pingCluster, deleteNamespaces, removeCluster, At, Fits,
              Path, Installing, Removing
<1> QED BY <1>3, <1>4, <1>5, <1>6, <1>7, <1>8, <1>9, <1>10, <1>11, <1>12, <1>13, <1>14, <1>15
        DEF Proceed
LEMMA OrderlyProceed ==
    ASSUME WorkTyped, Orderly, NEW r \in Requests, Proceed(r), Tame, faults' = 0
    PROVE  Orderly'
<1> DEFINE q == req[r]
<1>0. /\ faults = 0 /\ issued' = issued /\ main \in [Objects -> {"none", "live", "expired"}]
  <2>1. issued' = issued
    BY DEF Proceed, getObject, cacheFound, getConfig, listObjects, cacheListed, markListed, putRecord,
           putConfig, cacheNew, createNamespace, deploy, cleanup, stopInstance, awaitStopped,
           undeploy, uncache, dbDelete, dbDeleteConfig, removeGroup, nextDeletion, endDeletions,
           pingCluster, deleteNamespaces, removeCluster
  <2> QED BY <2>1, ProceedHistory DEF WorkTyped, TypeOK
<1>1. /\ \A s \in Requests : Plain(req[s])
      /\ OneCreator /\ \A o \in Objects : Fresh(o) => Unknown(o)
  BY <1>0 DEF Orderly
<1>2. PICK n \in Request : Step(r, n) /\ GoesOrderly(q, n)
  BY <1>1, ProceedOrderly
<1>3. req'[r] = n /\ \A s \in Requests : s # r => req'[s] = req[s]
  BY <1>2, StepsReq
<1>4. \A s \in Requests : Plain(req'[s])
  BY <1>1, <1>2, <1>3 DEF GoesOrderly
<1>5. \A s \in Requests : req'[s].op = "create" => req[s].op = "create" /\ req'[s].o = req[s].o
  BY <1>2, <1>3 DEF GoesOrderly, Idle
<1>6. OneCreator'
  BY <1>1, <1>5 DEF OneCreator
<1>7. ASSUME NEW o \in Objects, Fresh(o)' PROVE Unknown(o)'
  <2>1. Fresh(o)
    <3>1. ASSUME NEW s \in Requests, Unstored(req'[s]), req'[s].o = o
          PROVE  Unstored(req[s]) /\ req[s].o = o
      BY <1>2, <1>3, <1>5, <3>1 DEF GoesOrderly, Unstored
    <3> QED BY <1>0, <1>7, <3>1 DEF Fresh
  <2>2. Unknown(o)
    BY <1>1, <2>1
  <2>3. q.op = "create" /\ q.o = o => Unstored(n)
    <3>1. ASSUME q.op = "create", q.o = o PROVE Unstored(n)
      <4>1. o \in issued'
        BY <1>0, <3>1 DEF WorkTyped, RequestsFit, Fits
      <4>2. PICK s \in Requests : Unstored(req'[s]) /\ req'[s].o = o
        BY <1>7, <4>1 DEF Fresh
      <4>3. req[s].op = "create" /\ req[s].o = o
        BY <1>5, <4>2 DEF Unstored
      <4>4. s = r
        BY <1>1, <3>1, <4>3 DEF OneCreator
      <4> QED BY <1>3, <4>2, <4>4
    <3> QED BY <3>1
  <2>4. o \notin table'
    BY <1>2, <2>2, <2>3 DEF GoesOrderly, Unknown, Unstored
  <2>5. main'[o] = "none"
    <3>1. ~(q.op = "create" /\ q.pc = "cache" /\ q.o = o)
      BY <1>2, <2>3 DEF GoesOrderly, Unstored
    <3>2. o \notin q.todo /\ ~(q.pc = "fill" /\ q.o = o)
      <4>1. q.pc = "fill" => q.op # "create"
        BY DEF WorkTyped, RequestsFit, Fits, Path, Installing, Removing
      <4> QED BY <2>2, <4>1 DEF Unknown
    <3> QED BY <1>2, <2>2, <3>1, <3>2 DEF GoesOrderly, Unknown
  <2>6. ASSUME NEW s \in Requests
        PROVE  o \notin req'[s].todo /\ (req'[s].o = o => req'[s].op = "create" \/ req'[s].pc = "find")
    <3>1. CASE s # r
      BY <1>3, <2>2, <3>1 DEF Unknown
    <3>2. CASE s = r
      <4>1. o \notin n.todo
        BY <1>2, <2>2 DEF GoesOrderly, Unknown
      <4>2. ASSUME n.o = o, n.op # "create", n.pc # "find" PROVE FALSE
        <5>1. n # Idle
          BY <4>2, WorkloadAssumption DEF Idle
        <5>2. n.op = q.op /\ q.o = o
          BY <1>2, <4>2, <5>1 DEF GoesOrderly
        <5>3. q.pc = "find"
          BY <2>2, <4>2, <5>2 DEF Unknown
        <5> QED BY <1>2, <2>2, <5>1, <5>2, <5>3 DEF GoesOrderly, Unknown
      <4> QED BY <1>3, <3>2, <4>1, <4>2
    <3> QED BY <3>1, <3>2
  <2> QED BY <2>4, <2>5, <2>6 DEF Unknown
<1> QED BY <1>4, <1>6, <1>7 DEF Orderly

\* A request arrives that creates a new object, or one that knows of no object but
\* by the ID it was given.
LEMMA OrderlyBegin ==
    ASSUME WorkTyped, Orderly, NEW r \in Requests, NEW n, Begin(r, n), Tame, Plain(n), n.todo = {},
           \/ n.op # "create" /\ n.pc \in {"list", "find"} /\ (n.pc = "list" => n.o = None)
              /\ issued' = issued
           \/ n.op = "create" /\ n.o \in Objects /\ n.o \notin issued /\ issued' = issued \cup {n.o}
    PROVE  Orderly'
<1> SUFFICES ASSUME faults' = 0 PROVE Orderly'
  BY DEF Orderly
<1>0. UNCHANGED <<table, main, faults>> /\ Step(r, n) /\ req[r].pc = "idle" /\ faults = 0
  BY DEF Begin, stored, caches, At
<1>1. /\ \A s \in Requests : Plain(req[s])
      /\ OneCreator /\ \A o \in Objects : Fresh(o) => Unknown(o)
  BY <1>0 DEF Orderly
<1>2. req'[r] = n /\ \A s \in Requests : s # r => req'[s] = req[s]
  BY <1>0, StepsReq
<1>3. \A s \in Requests : req[s].op = "create" => req[s].o \in issued
  BY DEF WorkTyped, RequestsFit, Fits
<1>4. OneCreator'
  <2> SUFFICES ASSUME NEW s \in Requests, NEW t \in Requests, req'[s].op = "create",
                      req'[t].op = "create", req'[s].o = req'[t].o
               PROVE  s = t
    BY DEF OneCreator
  <2>1. CASE s # r /\ t # r
    BY <1>1, <1>2, <2>1 DEF OneCreator
  <2>2. CASE s = r \/ t = r
    BY <1>2, <1>3, <2>2
  <2> QED BY <2>1, <2>2
<1>5. ASSUME NEW o \in Objects, Fresh(o)' PROVE Unknown(o)'
  <2>1. Fresh(o)
    <3>1. CASE o \notin issued'
      BY <3>1 DEF Fresh
    <3>2. CASE \E s \in Requests : Unstored(req'[s]) /\ req'[s].o = o
      <4>1. PICK s \in Requests : Unstored(req'[s]) /\ req'[s].o = o
        BY <3>2
      <4>2. CASE s = r
        BY <1>2, <4>1, <4>2 DEF Fresh, Unstored
      <4>3. CASE s # r
        BY <1>2, <4>1, <4>3 DEF Fresh
      <4> QED BY <4>2, <4>3
    <3> QED BY <1>5, <3>1, <3>2 DEF Fresh
  <2>2. Unknown(o)
    BY <1>1, <2>1
  <2>3. ASSUME NEW s \in Requests
        PROVE  o \notin req'[s].todo /\ (req'[s].o = o => req'[s].op = "create" \/ req'[s].pc = "find")
    <3>1. CASE s # r
      BY <1>2, <2>2, <3>1 DEF Unknown
    <3>2. CASE s = r
      BY <1>2, <3>2, WorkloadAssumption
    <3> QED BY <3>1, <3>2
  <2> QED BY <1>0, <2>2, <2>3 DEF Unknown
<1>6. \A s \in Requests : Plain(req'[s])
  BY <1>1, <1>2
<1> QED BY <1>4, <1>5, <1>6 DEF Orderly

LEMMA OrderlyStart == ASSUME WorkTyped, Orderly, NEW r \in Requests, Start(r), Tame PROVE Orderly'
<1> USE DEF Plain, Cascade
<1>1. ASSUME NEW key, listBy(r, key) PROVE Orderly'
  <2>1. PICK n : n = [Idle EXCEPT !.op = "list", !.pc = "list", !.key = key]
    OBVIOUS
  <2>2. /\ Begin(r, n) /\ issued' = issued /\ Plain(n) /\ n.todo = {} /\ n.op = "list"
        /\ n.pc = "list" /\ n.o = None
    BY <1>1, <2>1 DEF listBy, Idle
  <2> QED BY <2>2, OrderlyBegin
<1>2. ASSUME NEW o, fetch(r, o) PROVE Orderly'
  <2>1. PICK n : n = [Idle EXCEPT !.op = "get", !.pc = "find", !.o = o]
    OBVIOUS
  <2>2. /\ Begin(r, n) /\ issued' = issued /\ Plain(n) /\ n.todo = {} /\ n.op = "get"
        /\ n.pc = "find"
    BY <1>2, <2>1 DEF fetch, Idle
  <2> QED BY <2>2, OrderlyBegin
<1>3. ASSUME NEW o \in Objects, NEW v, create(r, o, v) PROVE Orderly'
  <2>1. PICK n : n = [Idle EXCEPT !.op = "create", !.pc = "list", !.o = o, !.config = v,
                                  !.key = <<"both", GroupOf[o], clusterOf[o]>>]
    OBVIOUS
  <2>2. /\ Begin(r, n) /\ Plain(n) /\ n.todo = {} /\ n.op = "create" /\ n.o = o
        /\ o \notin issued /\ issued' = issued \cup {o}
    BY <1>3, <2>1 DEF create, Idle
  <2> QED BY <2>2, OrderlyBegin
<1>4. ASSUME NEW o, NEW force \in Forces, delete(r, o, force) PROVE Orderly'
  <2>1. PICK n : n = [Idle EXCEPT !.op = "delete", !.pc = "find", !.o = o, !.force = force]
    OBVIOUS
  <2>2. force = FALSE
    BY WorkloadAssumption DEF Tame
  <2>3. /\ Begin(r, n) /\ issued' = issued /\ Plain(n) /\ n.todo = {} /\ n.op = "delete"
        /\ n.pc = "find"
    BY <1>4, <2>1, <2>2 DEF delete, Idle
  <2> QED BY <2>3, OrderlyBegin
<1>5. ASSUME NEW o, NEW v, NEW g, NEW c, NEW force,
             \/ restart(r, o) \/ update(r, o, v) \/ deleteGroup(r, g) \/ deleteCluster(r, c, force)
      PROVE  Orderly'
  BY <1>5 DEF restart, update, deleteGroup, deleteCluster, Tame
<1> QED BY <1>1, <1>2, <1>3, <1>4, <1>5 DEF Start

LEMMA OrderlyKept == ASSUME WorkTyped, Orderly, [Next]_vars PROVE Orderly'
<1> SUFFICES ASSUME Tame', faults' = 0 PROVE Orderly'
  BY DEF Orderly
<1>1. Tame /\ faults = 0
  BY HistoryLasts DEF Tame
<1>2. CASE UNCHANGED vars
  BY <1>2 DEF vars, Orderly, Tame, Plain, OneCreator, Fresh, Unstored, Unknown
<1>3. CASE Expire
  <2>1. UNCHANGED <<table, issued, req>>
    BY <1>3 DEF Expire, ExpireRecord, ExpireCategory, ExpireCopy, ExpireWhole, stored
  <2>2. \A o \in Objects : main[o] = "none" => main'[o] = "none"
    <3>1. main \in [Objects -> {"none", "live", "expired"}]
      BY DEF WorkTyped, TypeOK
    <3> QED BY <1>3, <3>1 DEF Expire, ExpireRecord, ExpireCategory, ExpireCopy, ExpireWhole
  <2> QED BY <1>1, <2>1, <2>2 DEF Orderly, OneCreator, Fresh, Unknown
<1>4. CASE \E r \in Requests : Start(r)
  BY <1>1, <1>4, OrderlyStart
<1>5. CASE \E r \in Requests : Proceed(r)
  BY <1>1, <1>5, OrderlyProceed
<1> QED BY <1>2, <1>3, <1>4, <1>5 DEF Next
(***************************************************************************)
(* What runs is recorded                                                   *)
(***************************************************************************)
Placed(o) == \E r \in Requests : Places(req[r], o)
Withdrawn(o) == \E r \in Requests : Withdraws(req[r], o)

\* At a place in Kubernetes: the records that are not being removed, the objects
\* that are yet to be deployed, and whether one is there.
Standing(k) == {o \in table : Slot(o) = k /\ ~Withdrawn(o)}
Pending(k) == {o \in Objects : Slot(o) = k /\ Placed(o)}
Occupied(k) == IF holder[k] = None THEN 0 ELSE 1

\* There is a record for each of those to be deployed and one more for the object
\* that is there, whichever record that was deployed for.
Balanced ==
    Tame /\ faults = 0 =>
        \A k \in Slots : Cardinality(Pending(k)) + Occupied(k) <= Cardinality(Standing(k))

\* Both are finite.
LEMMA PlaceFinite ==
    ASSUME WorkTyped, NEW k
    PROVE  /\ IsFiniteSet(Standing(k)) /\ IsFiniteSet(Pending(k))
           /\ Cardinality(Standing(k)) \in Nat /\ Cardinality(Pending(k)) \in Nat
<1>1. Standing(k) \in SUBSET Objects /\ Pending(k) \in SUBSET Objects
  BY DEF Standing, Pending, WorkTyped, TypeOK
<1> QED BY <1>1, FS_Subset, FS_CardinalityType, WorkloadAssumption

\* A step of a request is none to objects it is not about.
LEMMA OthersStay ==
    ASSUME WorkTyped, NEW r \in Requests, NEW n, Step(r, n), n.o \in {req[r].o, None},
           NEW o \in Objects, o # req[r].o
    PROVE  (Placed(o)' <=> Placed(o)) /\ (Withdrawn(o)' <=> Withdrawn(o))
<1>1. req'[r] = n /\ \A s \in Requests : s # r => req'[s] = req[s]
  BY StepsReq
<1>2. ~Places(n, o) /\ ~Withdraws(n, o) /\ ~Places(req[r], o) /\ ~Withdraws(req[r], o)
  BY WorkloadAssumption DEF Places, Withdraws
<1> QED BY <1>1, <1>2 DEF Placed, Withdrawn

\* What a step about object x does to the sets at x's place and elsewhere.
LEMMA PlaceChanges ==
    ASSUME WorkTyped, NEW r \in Requests, NEW n, Step(r, n), NEW x \in Objects, req[r].o = x,
           n.o \in {x, None}, \A o : Slot(o)' = Slot(o), table' \ {x} = table \ {x}, NEW k \in Slots,
           NEW l, l = Slot(x)
    PROVE  /\ k # l => Pending(k)' = Pending(k) /\ Standing(k)' = Standing(k)
           /\ Pending(l)' = IF Placed(x)' THEN Pending(l) \cup {x}
                                  ELSE Pending(l) \ {x}
           /\ Standing(l)' = IF x \in table' /\ ~Withdrawn(x)'
                                   THEN Standing(l) \cup {x} ELSE Standing(l) \ {x}
<1>1. \A o \in Objects : o # x => /\ (Placed(o)' <=> Placed(o)) /\ (Withdrawn(o)' <=> Withdrawn(o))
                                  /\ (o \in table' <=> o \in table)
  BY OthersStay
<1>2. table \subseteq Objects /\ table' \subseteq Objects
  BY DEF WorkTyped, TypeOK
<1>3. k # l => Pending(k)' = Pending(k) /\ Standing(k)' = Standing(k)
  BY <1>1, <1>2 DEF Pending, Standing
<1>4. Pending(l)' = {o \in Objects : Slot(o)' = l /\ Placed(o)'}
  BY DEF Pending
<1>5. Standing(l)' = {o \in table' : Slot(o)' = l /\ ~Withdrawn(o)'}
  BY DEF Standing
<1>6. Pending(l)' = IF Placed(x)' THEN Pending(l) \cup {x} ELSE Pending(l) \ {x}
  BY <1>1, <1>4 DEF Pending
<1>7. Standing(l)' = IF x \in table' /\ ~Withdrawn(x)'
                           THEN Standing(l) \cup {x} ELSE Standing(l) \ {x}
  BY <1>1, <1>2, <1>5 DEF Standing
<1> QED BY <1>3, <1>6, <1>7
\* The balance at place k after a step about object x.
Balance(k) == Cardinality(Pending(k)) + Occupied(k) <= Cardinality(Standing(k))
LEMMA BalanceLasts ==
    ASSUME WorkTyped, WorkTyped', NEW r \in Requests, NEW n, Step(r, n), NEW x \in Objects,
           req[r].o = x, n.o \in {x, None}, \A o : Slot(o)' = Slot(o), table' \ {x} = table \ {x},
           NEW l, l = Slot(x),
           \A k \in Slots : Balance(k), NEW k \in Slots, k # l => holder'[k] = holder[k],
           \* the cases at x's place: storing, deploying, giving up, removing, and no change
           \/ /\ ~Placed(x) /\ Placed(x)' /\ x \notin table /\ x \in table' /\ ~Withdrawn(x)'
              /\ Occupied(l)' = Occupied(l)
           \/ /\ Placed(x) /\ ~Placed(x)' /\ (x \in table' /\ ~Withdrawn(x)' <=> x \in table /\ ~Withdrawn(x))
              /\ Occupied(l) = 0 /\ Occupied(l)' = 1
           \/ /\ Placed(x) /\ ~Placed(x)'
              /\ Occupied(l)' = Occupied(l)
           \/ /\ Placed(x)' <=> Placed(x)
              /\ Occupied(l) = 1 /\ Occupied(l)' = 0
           \/ /\ Placed(x)' <=> Placed(x)
              /\ x \in table' /\ ~Withdrawn(x)' <=> x \in table /\ ~Withdrawn(x)
              /\ Occupied(l)' = Occupied(l)
    PROVE  Balance(k)'
<1> DEFINE P == Pending(l)
           S == Standing(l)
           Q == Pending(l)'
           T == Standing(l)'
<1>0. l \in Slots
  BY SlotTyped
<1>1. CASE k # l
  <2>1. Pending(k)' = Pending(k) /\ Standing(k)' = Standing(k)
    BY <1>1, PlaceChanges
  <2>2. Occupied(k)' = Occupied(k)
    BY <1>1 DEF Occupied
  <2> QED BY <2>1, <2>2 DEF Balance
<1>2. CASE k = l
  <2>1. /\ Q = IF Placed(x)' THEN P \cup {x} ELSE P \ {x}
        /\ T = IF x \in table' /\ ~Withdrawn(x)' THEN S \cup {x} ELSE S \ {x}
    BY PlaceChanges
  <2>2. /\ x \in P <=> Placed(x)
        /\ x \in S <=> x \in table /\ ~Withdrawn(x)
    BY DEF Pending, Standing
  <2>3. /\ IsFiniteSet(P) /\ IsFiniteSet(S) /\ Cardinality(P) \in Nat /\ Cardinality(S) \in Nat
    BY PlaceFinite
  <2>4. /\ Cardinality(P \cup {x}) = IF x \in P THEN Cardinality(P) ELSE Cardinality(P) + 1
        /\ Cardinality(S \cup {x}) = IF x \in S THEN Cardinality(S) ELSE Cardinality(S) + 1
    BY <2>3, FS_AddElement
  <2>5. /\ Cardinality(P \ {x}) = IF x \in P THEN Cardinality(P) - 1 ELSE Cardinality(P)
        /\ Cardinality(S \ {x}) = IF x \in S THEN Cardinality(S) - 1 ELSE Cardinality(S)
    BY <2>3, FS_RemoveElement
  <2>6. Occupied(l) \in {0, 1} /\ Cardinality(P) + Occupied(l) <= Cardinality(S)
    BY <1>0 DEF Balance, Occupied
  <2> HIDE DEF P, S, Q, T
  <2>7. Cardinality(Q) + Occupied(l)' <= Cardinality(T)
    BY <2>1, <2>2, <2>3, <2>4, <2>5, <2>6
  <2> QED BY <1>2, <2>7 DEF Balance, Q, T
<1> QED BY <1>1, <1>2
LEMMA BalanceEffective ==
    ASSUME WorkTyped, Orderly, Tame, faults' = 0, [Next]_vars, \A k \in Slots : Balance(k),
           NEW r \in Requests, Proceed(r), Effective(r), NEW k \in Slots,
           NEW x, x = req[r].o, NEW l, l = Slot(x)
    PROVE  Balance(k)'
<1> DEFINE q == req[r]
<1>0. /\ WorkTyped' /\ q \in Request /\ kind # "instance" /\ faults = 0
      /\ \A o : Slot(o)' = Slot(o)
      /\ None \notin Objects /\ holder \in [Slots -> Objects \cup {None}]
      /\ Idle.o = None
  BY StepTyped, HistoryLasts, WorkloadAssumption DEF WorkTyped, TypeOK, Tame, Idle
<1>1. /\ \A s \in Requests : Plain(req[s])
      /\ OneCreator /\ \A o \in Objects : Fresh(o) => Unknown(o)
  BY <1>0 DEF Orderly
<1>2. ASSUME NEW n, Step(r, n) PROVE req'[r] = n /\ \A s \in Requests : s # r => req'[s] = req[s]
  BY <1>2, StepsReq
<1>3. CASE putRecord(r)
  <2>1. PICK n : n = [q EXCEPT !.pc = "cache"]
    OBVIOUS
  <2>2. /\ q.op = "create" /\ q.pc = "put" /\ x \in Objects /\ Step(r, n)
        /\ table' = table \cup {x} /\ holder' = holder
    BY <1>0, <1>3, <2>1, PutEffect
  <2>3. n.pc = "cache" /\ n.op = "create" /\ n.o = x
    BY <1>0, <2>1, <2>2 DEF Request
  <2>4. Fresh(x) /\ Unknown(x)
    BY <1>1, <2>2 DEF Fresh, Unstored
  <2>5. \A s \in Requests : s # r => ~Places(req[s], x) /\ ~Withdraws(req[s], x)
    <3>1. \A s \in Requests : s # r /\ req[s].o = x => req[s].op # "create"
      BY <1>1, <2>2 DEF OneCreator
    <3> QED BY <2>4, <3>1 DEF Unknown, Places, Withdraws
  <2>6. ~Placed(x) /\ Placed(x)' /\ ~Withdrawn(x)'
    BY <1>2, <2>2, <2>3, <2>5 DEF Placed, Withdrawn, Places, Withdraws
  <2>7. x \notin table /\ x \in table' /\ table' \ {x} = table \ {x}
    BY <2>2, <2>4 DEF Unknown
  <2>8. Occupied(l)' = Occupied(l)
    BY <1>0, <2>2 DEF Occupied
  <2> QED BY <1>0, <2>2, <2>3, <2>6, <2>7, <2>8, BalanceLasts
<1>4. CASE deploy(r)
  <2>1. /\ q.op = "create" /\ q.pc = "deploy" /\ x \in Objects /\ table' = table
        /\ \/ holder[l] = None /\ holder' = [holder EXCEPT ![l] = x] /\ Step(r, Idle)
           \/ /\ holder[l] # None /\ holder' = holder
              /\ Step(r, [q EXCEPT !.pc = "uncache", !.then = "idle"])
    BY <1>0, <1>4, DeployEffect
  <2>2. Placed(x) /\ l \in Slots
    BY <1>0, <2>1, SlotTyped DEF Placed, Places
  <2>3. PICK n : /\ Step(r, n) /\ n.pc \in {"idle", "uncache"} /\ n.o \in {x, None}
                 /\ n.pc = "idle" => n.o = None /\ holder[l] = None /\ holder' = [holder EXCEPT ![l] = x]
                 /\ n.pc = "uncache" => holder' = holder
    <3>1. CASE holder[l] = None /\ holder' = [holder EXCEPT ![l] = x] /\ Step(r, Idle)
      <4>1. Idle.pc = "idle"
        BY DEF Idle
      <4> QED BY <1>0, <3>1, <4>1
    <3>2. CASE holder' = holder /\ Step(r, [q EXCEPT !.pc = "uncache", !.then = "idle"])
      <4>1. PICK m : m = [q EXCEPT !.pc = "uncache", !.then = "idle"]
        OBVIOUS
      <4>2. m.pc = "uncache" /\ m.o = x
        BY <1>0, <4>1 DEF Request
      <4> QED BY <3>2, <4>1, <4>2
    <3> QED BY <2>1, <3>1, <3>2
  <2>4. ~Placed(x)'
    <3>1. \A s \in Requests : s # r => ~Places(req[s], x)
      BY <1>1, <2>1 DEF OneCreator, Places
    <3>2. ~Places(n, x)
      BY <2>3 DEF Places
    <3> QED BY <1>2, <2>3, <3>1, <3>2 DEF Placed
  <2>5. CASE n.pc = "idle"
    <3>1. Occupied(l) = 0 /\ Occupied(l)' = 1
      BY <1>0, <2>1, <2>2, <2>3, <2>5 DEF Occupied
    <3>2. Withdrawn(x)' <=> Withdrawn(x)
      BY <1>2, <2>1, <2>3, <2>5 DEF Withdrawn, Withdraws
    <3>3. k # l => holder'[k] = holder[k]
      BY <1>0, <2>3, <2>5
    <3> QED BY <1>0, <2>1, <2>2, <2>3, <2>4, <3>1, <3>2, <3>3, BalanceLasts
  <2>6. CASE n.pc = "uncache"
    <3>1. Occupied(l)' = Occupied(l)
      BY <1>0, <2>3, <2>6 DEF Occupied
    <3> QED BY <1>0, <2>1, <2>2, <2>3, <2>4, <2>6, <3>1, BalanceLasts
  <2> QED BY <2>3, <2>5, <2>6
<1>5. CASE undeploy(r)
  <2>1. /\ q.pc = "undeploy" /\ x \in Objects /\ table' = table
        /\ \/ /\ holder[l] # None
              /\ holder' = [j \in Slots |-> IF j = l THEN None ELSE holder[j]]
              /\ Step(r, [q EXCEPT !.pc = "uncache"])
           \/ holder' = holder /\ Step(r, Kept(q))
           \/ /\ Forced(q) \/ ~q.reach
              /\ holder' = holder /\ Step(r, [q EXCEPT !.pc = "uncache"])
    BY <1>0, <1>5, UndeployEffect
  <2>2. ~Forced(q) /\ q.reach /\ q.op = "delete" /\ l \in Slots
    <3>1. q.op = "delete"
      BY <1>1, <2>1 DEF WorkTyped, RequestsFit, Fits, Path, Plain, Cascade, Installing, Removing,
                        Request, Ops
    <3> QED BY <1>1, <2>1, <3>1, SlotTyped DEF Plain, Forced
  <2>3. ~Places(q, x) /\ ~Withdraws(q, x)
    BY <2>1 DEF Places, Withdraws
  <2>4. CASE holder' = holder /\ Step(r, Kept(q))
    <3>1. Kept(q) = Idle
      BY <2>2 DEF Kept
    <3>2. /\ Placed(x)' <=> Placed(x)
          /\ Withdrawn(x)' <=> Withdrawn(x)
      BY <1>0, <1>2, <2>1, <2>3, <2>4, <3>1 DEF Placed, Withdrawn, Places, Withdraws
    <3>3. Occupied(l)' = Occupied(l)
      BY <1>0, <2>4 DEF Occupied
    <3> QED BY <1>0, <2>1, <2>4, <3>1, <3>2, <3>3, BalanceLasts
  <2>5. CASE /\ holder[l] # None
             /\ holder' = [j \in Slots |-> IF j = l THEN None ELSE holder[j]]
             /\ Step(r, [q EXCEPT !.pc = "uncache"])
    <3>1. PICK n : n = [q EXCEPT !.pc = "uncache"]
      OBVIOUS
    <3>2. n.pc = "uncache" /\ n.o = x /\ Step(r, n)
      BY <1>0, <2>5, <3>1 DEF Request
    <3>3. Placed(x)' <=> Placed(x)
      BY <1>2, <2>3, <3>2 DEF Placed, Places
    <3>4. Occupied(l) = 1 /\ Occupied(l)' = 0
      BY <1>0, <2>2, <2>5 DEF Occupied
    <3>5. k # l => holder'[k] = holder[k]
      BY <2>5
    <3> QED BY <1>0, <2>1, <3>2, <3>3, <3>4, <3>5, BalanceLasts
  <2> QED BY <2>1, <2>2, <2>4, <2>5
<1>6. CASE dbDelete(r)
  <2>1. /\ q.pc = "dbDelete" /\ x \in Objects /\ table' = table \ {x} /\ holder' = holder
        /\ Step(r, Idle)
    <3>1. /\ q.pc = "dbDelete" /\ x \in Objects /\ table' = table \ {x} /\ holder' = holder
      BY <1>0, <1>6, DbDeleteEffect
    <3>2. Step(r, AfterRemove(q, TRUE))
      BY <1>0, <1>6, NoFault DEF dbDelete
    <3>3. AfterRemove(q, TRUE) = Idle
      BY <1>1 DEF AfterRemove, Plain
    <3> QED BY <3>1, <3>2, <3>3
  <2>2. Withdrawn(x) /\ x \notin table' /\ table' \ {x} = table \ {x}
    BY <2>1 DEF Withdrawn, Withdraws
  <2>3. Placed(x)' <=> Placed(x)
    <3>1. ~Places(q, x) /\ ~Places(Idle, x)
      BY <2>1 DEF Places, Idle
    <3> QED BY <1>2, <2>1, <3>1 DEF Placed
  <2>4. Occupied(l)' = Occupied(l)
    BY <1>0, <2>1 DEF Occupied
  <2> QED BY <1>0, <2>1, <2>2, <2>3, <2>4, BalanceLasts
<1>7. ~deleteNamespaces(r)
  BY <1>1 DEF deleteNamespaces, At, WorkTyped, RequestsFit, Fits, Path, Plain, Cascade, Installing,
              Removing, Request, Ops
<1> QED BY <1>3, <1>4, <1>5, <1>6, <1>7 DEF Effective

LEMMA BalancedKept == ASSUME WorkTyped, Orderly, Balanced, [Next]_vars PROVE Balanced'
<1> SUFFICES ASSUME Tame', faults' = 0, NEW k \in Slots PROVE Balance(k)'
  BY DEF Balanced, Balance
<1>1. /\ Tame /\ faults = 0 /\ \A o : Slot(o)' = Slot(o)
  BY HistoryLasts DEF Tame
<1>2. \A j \in Slots : Balance(j)
  BY <1>1 DEF Balanced, Balance
<1>3. CASE Quiet
  <2>1. \A o \in Objects : (Placed(o)' <=> Placed(o)) /\ (Withdrawn(o)' <=> Withdrawn(o))
    BY <1>3 DEF Quiet, SameFor, Placed, Withdrawn
  <2>2. table \subseteq Objects /\ table' = table /\ holder' = holder
    BY <1>3 DEF Quiet, WorkTyped, TypeOK
  <2>3. Pending(k)' = Pending(k) /\ Standing(k)' = Standing(k) /\ Occupied(k)' = Occupied(k)
    BY <1>1, <2>1, <2>2 DEF Pending, Standing, Occupied
  <2> QED BY <1>2, <2>3 DEF Balance
<1>4. CASE \E r \in Requests : Proceed(r) /\ Effective(r)
  <2>1. PICK r \in Requests : Proceed(r) /\ Effective(r)
    BY <1>4
  <2>2. PICK x : x = req[r].o
    OBVIOUS
  <2>3. PICK l : l = Slot(x)
    OBVIOUS
  <2> QED BY <1>1, <1>2, <2>1, <2>2, <2>3, BalanceEffective
<1> QED BY <1>1, <1>3, <1>4, StepQuietOrEffective DEF Tame

\* The inductive invariant: types, what is recorded has its object, objects being
\* created are known to no one else, and the balance of records and objects.
WorkInv == WorkTyped /\ RecordsHeld /\ Orderly /\ Balanced

\* It holds however requests overlap; where calls fail or requests are of the kinds a
\* part does not speak of, that part asks nothing.
THEOREM WorkloadInvariant == Spec => []WorkInv
<1>1. ASSUME Init PROVE WorkInv
  <2>1. WorkTyped
    BY <1>1, InitTyped
  <2>2. /\ req = [r \in Requests |-> Idle] /\ issued = table /\ table \subseteq Objects
        /\ main = [o \in Objects |-> "none"]
        /\ \A o, p \in table : Slot(o) = Slot(p) => o = p
        /\ holder = [k \in Slots |-> IF \E o \in table : Slot(o) = k
                                     THEN CHOOSE o \in table : Slot(o) = k ELSE None]
    BY <1>1 DEF Init
  <2>3. RecordsHeld
    <3>1. ASSUME NEW o \in table PROVE holder[Slot(o)] = o
      <4>1. Slot(o) \in Slots /\ \A p \in table : Slot(p) = Slot(o) => p = o
        BY <2>1, <2>2, SlotTyped
      <4>2. (CHOOSE p \in table : Slot(p) = Slot(o)) = o
        BY <4>1
      <4> QED BY <2>2, <4>1, <4>2
    <3> QED BY <3>1 DEF RecordsHeld
  <2>4. \A r \in Requests : /\ Plain(req[r]) /\ req[r].op = "none" /\ req[r].pc = "idle"
                            /\ req[r].todo = {} /\ req[r].o = None
    BY <2>2 DEF Idle, Plain, Cascade
  <2>5. Orderly
    BY <2>2, <2>4, WorkloadAssumption DEF Orderly, OneCreator, Fresh, Unstored, Unknown
  <2>6. Balanced
    <3> SUFFICES ASSUME NEW k \in Slots PROVE Balance(k)
      BY DEF Balanced, Balance
    <3>1. Pending(k) = {} /\ Standing(k) = {o \in table : Slot(o) = k}
      BY <2>4 DEF Pending, Placed, Places, Standing, Withdrawn, Withdraws
    <3>2. Cardinality(Pending(k)) = 0
      BY <3>1, FS_EmptySet
    <3>3. IsFiniteSet(Standing(k)) /\ Cardinality(Standing(k)) \in Nat
      BY <2>1, PlaceFinite
    <3>4. CASE holder[k] = None
      BY <3>2, <3>3, <3>4 DEF Balance, Occupied
    <3>5. CASE holder[k] # None
      <4>1. Standing(k) # {}
        BY <2>2, <3>1, <3>5
      <4>2. Cardinality(Standing(k)) # 0
        BY <3>3, <4>1, FS_EmptySet
      <4> QED BY <3>2, <3>3, <3>5, <4>2 DEF Balance, Occupied
    <3> QED BY <3>4, <3>5
  <2> QED BY <2>1, <2>3, <2>5, <2>6 DEF WorkInv
<1>2. WorkInv /\ [Next]_vars => WorkInv'
  BY StepTyped, RecordsHeldKept, OrderlyKept, BalancedKept DEF WorkInv
<1> QED BY <1>1, <1>2, PTL DEF Spec

\* Between requests every record of a secret or a volume has the object that was
\* deployed for it, and no two records have the same one, unless an object was
\* deleted on behalf of another record (createSecret, createVolumeClaim and their
\* deletions).
THEOREM RecordsHaveObjects == Spec => []RecordsRun
<1>1. WorkInv => RecordsRun
  BY DEF WorkInv, RecordsRun, RecordsHeld, Settled, Quiescent, Places, Withdraws
<1> QED BY <1>1, WorkloadInvariant, PTL

\* Whatever creations and deletions of secrets and volumes overlapped, what runs on
\* the clusters is recorded: between requests nothing is pending, so that the
\* balance leaves a record for each object in Kubernetes.
THEOREM WhatRunsIsRecorded == Spec => []RunningRecorded
<1>1. ASSUME WorkInv PROVE RunningRecorded
  <2> SUFFICES ASSUME Settled, Tame, NEW k \in running PROVE \E o \in table : Slot(o) = k
    BY DEF RunningRecorded, Tame
  <2>1. k \in Slots /\ Occupied(k) = 1
    BY DEF running, Occupied
  <2>2. Cardinality(Pending(k)) + 1 <= Cardinality(Standing(k))
    BY <1>1, <2>1 DEF WorkInv, Balanced, Settled
  <2>3. /\ Cardinality(Pending(k)) \in Nat /\ IsFiniteSet(Standing(k))
        /\ Cardinality(Standing(k)) \in Nat
    BY <1>1, PlaceFinite DEF WorkInv
  <2>4. Standing(k) # {}
    BY <2>2, <2>3, FS_EmptySet
  <2> QED BY <2>4 DEF Standing
<1> QED BY <1>1, WorkloadInvariant, PTL

(***************************************************************************)
(* The caches and the table                                                *)
(*                                                                         *)
(* As long as no two requests were in progress at a time: what is cached   *)
(* is stored, in Filed also between the steps of a request; what a listing *)
(* has found and read stays right until it is cached and its category is   *)
(* marked (Knows); and a category that is up to date lacks only the object *)
(* the request in progress is adding or removing (Complete).               *)
(***************************************************************************)
\* A request that has stored the record of o and not yet cached it, or has dropped
\* it from the caches and not yet from the table.
Absent(q, o) == q.o = o /\ q.pc \in {"putConfig", "cache", "dbDelete"}

\* What is cached is stored, is in the main cache and in the categories it belongs
\* to, and categories that have no cache are never up to date.
Filed ==
    /\ \A o \in Objects : main[o] # "none" => o \in table
    /\ \A k \in Keys : \A o \in cat[k].known : main[o] # "none" /\ o \in Matching(k)
    /\ \A k \in Keys : cat[k].valid => IsCached(k)

\* What request q has read or done still holds.
Knows(q) ==
    /\ q.pc \in {"fill", "putConfig", "cache"} => q.o \in table
    /\ q.pc = "dbDelete" => main[q.o] = "none"
    /\ q.pc \in {"listFill", "listMark"} => q.todo = table \cap Matching(q.key)
    /\ q.pc = "listMark" =>
           /\ \A o \in q.todo : main[o] # "none"
           /\ \A k \in Keys : IsCached(k) /\ FilledByListing(q, k) =>
                  q.todo \cap Matching(k) \subseteq cat[k].known

\* The categories that are up to date have every record that request q is not at.
Complete(q) ==
    /\ \A k \in Keys : cat[k].valid /\ (k[1] = "cluster" => kind # "volume") =>
           \A o \in table \cap Matching(k) : o \in cat[k].known \/ Absent(q, o)
    /\ allValid => \A o \in table : main[o] # "none" \/ Absent(q, o)

\* One request at a time, which knows what it is doing; between requests nothing is
\* missing.
Lone == \A r, s \in Requests : ~At(r, "idle") /\ ~At(s, "idle") => r = s
Informed(q) == Filed /\ Knows(q) /\ (faults = 0 => Complete(q))
OneAtATime ==
    ~overlapped =>
        /\ Lone /\ Filed
        /\ Quiescent => Informed(Idle)
        /\ \A r \in Requests : ~At(r, "idle") => Informed(req[r])

\* No such request: it has nothing to cache or to mark.
Free(q) == q.pc \notin {"fill", "putConfig", "cache", "dbDelete", "listFill", "listMark"}

\* Where handlers go on: with the listing or the record at hand, and after a
\* deployment or a removal.
LEMMA FreeNext ==
    ASSUME NEW q \in Request
    PROVE  /\ Free(Idle) /\ Free(AfterFind(q)) /\ Free(Deployed(q)) /\ Free(NotDeployed(q))
           /\ Free(Undeployed(q)) /\ Free(Kept(q))
           /\ \A ok \in BOOLEAN : Free(AfterRemove(q, ok))
           /\ \A S : Free(AfterList(q, S))
<1>1. Free(Idle)
  BY DEF Free, Idle
<1>2. ASSUME NEW pc \in {"undeploy", "stop", "config", "put", "next", "uncache", "cleanup"}
      PROVE  /\ Free([q EXCEPT !.pc = pc])
             /\ \A S : Free([q EXCEPT !.pc = pc, !.todo = S])
             /\ \A t : Free([q EXCEPT !.pc = pc, !.then = t])
             /\ \A b : Free([q EXCEPT !.pc = pc, !.bad = b])
  BY DEF Free, Request
<1>3. Free(AfterFind(q))
  <2>1. \/ AfterFind(q) = Idle
        \/ \E pc \in {"undeploy", "stop", "config"} : AfterFind(q) = [q EXCEPT !.pc = pc]
    BY DEF AfterFind
  <2> QED BY <1>1, <1>2, <2>1
<1>4. Free(Deployed(q)) /\ Free(NotDeployed(q)) /\ Free(Undeployed(q)) /\ Free(Kept(q))
  <2>1. Free(Deployed(q))
    BY <1>1, <1>2 DEF Deployed
  <2>2. Free(NotDeployed(q))
    BY <1>2 DEF NotDeployed
  <2>3. Free(Undeployed(q))
    BY <1>2 DEF Undeployed
  <2>4. Kept(q) = Idle \/ Kept(q) = [q EXCEPT !.pc = "next", !.bad = TRUE]
    BY DEF Kept
  <2> QED BY <1>1, <1>2, <2>1, <2>2, <2>3, <2>4
<1>5. ASSUME NEW ok \in BOOLEAN PROVE Free(AfterRemove(q, ok))
  <2>1. CASE q.then = "next" /\ ~ok
    BY <1>4, <2>1 DEF AfterRemove
  <2>2. CASE q.then = "idle"
    BY <1>1, <2>2 DEF AfterRemove
  <2>3. CASE q.then # "idle" /\ ~(q.then = "next" /\ ~ok)
    <3>1. AfterRemove(q, ok) = [q EXCEPT !.pc = q.then] /\ q.then \in {"put", "cleanup", "next"}
      BY <2>3 DEF AfterRemove, Request
    <3> QED BY <1>2, <3>1
  <2> QED BY <2>1, <2>2, <2>3
<1>6. ASSUME NEW S PROVE Free(AfterList(q, S))
  <2>1. PICK T : T = {o \in S : q.c = None \/ clusterOf[o] = q.c}
    OBVIOUS
  <2>2. \/ AfterList(q, S) = Idle
        \/ AfterList(q, S) = [q EXCEPT !.pc = "put"]
        \/ AfterList(q, S) = [q EXCEPT !.pc = "next", !.todo = T]
    BY <2>1 DEF AfterList
  <2>3. Free([q EXCEPT !.pc = "put"]) /\ Free([q EXCEPT !.pc = "next", !.todo = T])
    BY <1>2
  <2> QED BY <1>1, <2>2, <2>3
<1> QED BY <1>1, <1>3, <1>4, <1>5, <1>6

(***************************************************************************)
(* Steps of a request that runs alone                                      *)
(***************************************************************************)
\* Where objects belong does not change.
LEMMA SamePlaces ==
    ASSUME UNCHANGED <<kind, nameOf, clusterOf>>
    PROVE  \A k : /\ Matching(k)' = Matching(k) /\ (IsCached(k)' <=> IsCached(k))
                  /\ \A q : FilledByListing(q, k)' <=> FilledByListing(q, k)
BY DEF Matching, KeysOf, IsCached, FilledByListing

\* What an idle request knows any other idle one knows.
LEMMA IdleInformed ==
    ASSUME NEW q, NEW n, q.pc = "idle", n.pc = "idle", Informed(q)' PROVE Informed(n)'
BY DEF Informed, Knows, Complete, Absent

\* The request that moved and ran alone is the only one that has to know anything.
LEMMA AloneInformed ==
    ASSUME WorkTyped, NEW r \in Requests, NEW n, Step(r, n), Alone(r), Informed(n)'
    PROVE  OneAtATime'
<1>1. req'[r] = n /\ \A s \in Requests : s # r => req'[s] = req[s] /\ req[s].pc = "idle"
  BY StepsReq DEF Alone
<1>2. Lone' /\ Filed'
  BY <1>1 DEF Lone, At, Informed
<1>3. ASSUME NEW s \in Requests, ~At(s, "idle")' PROVE Informed(req[s])'
  BY <1>1, <1>3 DEF At
<1>4. ASSUME Quiescent' PROVE Informed(Idle)'
  <2>1. n.pc = "idle" /\ Idle.pc = "idle"
    BY <1>1, <1>4 DEF Quiescent, Idle
  <2> QED BY <2>1, IdleInformed
<1> QED BY <1>2, <1>3, <1>4 DEF OneAtATime

\* The caches still hold what is stored.
LEMMA FiledLasts ==
    ASSUME WorkTyped, Filed, UNCHANGED <<kind, nameOf, clusterOf, table>>,
           \A o \in Objects : main'[o] # "none" <=> main[o] # "none",
           \A k \in Keys : cat'[k].known = cat[k].known /\ (cat'[k].valid => cat[k].valid)
    PROVE  Filed'
<1>1. \A k \in Keys : cat[k].known \subseteq Objects
  BY DEF WorkTyped, TypeOK, Category
<1>2. \A k : Matching(k)' = Matching(k) /\ (IsCached(k)' <=> IsCached(k))
  BY SamePlaces
<1> QED BY <1>1, <1>2 DEF Filed

\* Nothing is stored or removed, the caches know what they knew and at most forget
\* that it was complete; the request goes on to nothing that it does not know.
LEMMA SteadyInformed ==
    ASSUME WorkTyped, NEW q, NEW n, Informed(q),
           UNCHANGED <<kind, nameOf, clusterOf, table>>,
           \A o \in Objects : main'[o] # "none" <=> main[o] # "none",
           \A k \in Keys : cat'[k].known = cat[k].known /\ (cat'[k].valid => cat[k].valid),
           allValid' => allValid,
           faults' = 0 => faults = 0 /\ \A o \in Objects : Absent(q, o) => Absent(n, o),
           n.pc \in {"fill", "putConfig", "cache"} => n.o \in table,
           n.pc = "listFill" => n.todo = table \cap Matching(n.key),
           n.pc = "dbDelete" => n = q /\ q.o \in Objects,
           n.pc = "listMark" => n = q
    PROVE  Informed(n)'
<1>1. /\ table \subseteq Objects /\ \A k \in Keys : cat[k].known \subseteq Objects
      /\ \A k : Matching(k) \subseteq Objects
  BY DEF WorkTyped, TypeOK, Category, Matching
<1>2. \A k : /\ Matching(k)' = Matching(k) /\ (IsCached(k)' <=> IsCached(k))
             /\ (FilledByListing(n, k)' <=> FilledByListing(n, k))
  BY SamePlaces
<1>3. Filed'
  BY FiledLasts DEF Informed
<1>4. Knows(n)'
  <2>1. n.pc \in {"fill", "putConfig", "cache"} => n.o \in table'
    OBVIOUS
  <2>2. n.pc = "dbDelete" => main'[n.o] = "none"
    BY DEF Informed, Knows
  <2>3. n.pc \in {"listFill", "listMark"} => n.todo = (table \cap Matching(n.key))'
    BY <1>2 DEF Informed, Knows
  <2>4. ASSUME n.pc = "listMark"
        PROVE  /\ \A o \in n.todo : main'[o] # "none"
               /\ \A k \in Keys : IsCached(k)' /\ FilledByListing(n, k)' =>
                      n.todo \cap Matching(k)' \subseteq cat'[k].known
    <3>1. Knows(n) /\ n.todo \subseteq Objects
      BY <1>1, <2>4 DEF Informed, Knows
    <3>2. \A o \in n.todo : main'[o] # "none"
      BY <2>4, <3>1 DEF Knows
    <3>3. \A k \in Keys : IsCached(k)' /\ FilledByListing(n, k)' =>
                      n.todo \cap Matching(k)' \subseteq cat'[k].known
      BY <1>2, <2>4, <3>1 DEF Knows
    <3> QED BY <3>2, <3>3
  <2> QED BY <2>1, <2>2, <2>3, <2>4 DEF Knows
<1>5. ASSUME faults' = 0 PROVE Complete(n)'
  <2>1. Complete(q) /\ \A o \in Objects : Absent(q, o) => Absent(n, o)
    BY <1>5 DEF Informed
  <2>2. ASSUME NEW k \in Keys, cat'[k].valid, k[1] = "cluster" => kind' # "volume",
               NEW o \in (table \cap Matching(k))'
        PROVE  o \in cat'[k].known \/ Absent(n, o)
    BY <1>1, <1>2, <2>1, <2>2 DEF Complete
  <2>3. allValid' => \A o \in table' : main'[o] # "none" \/ Absent(n, o)
    BY <1>1, <2>1 DEF Complete
  <2>4. \A o : Absent(n, o)' <=> Absent(n, o)
    BY DEF Absent
  <2> QED BY <2>2, <2>3, <2>4 DEF Complete
<1> QED BY <1>3, <1>4, <1>5 DEF Informed

\* A request with nothing to cache or to mark goes on.
LEMMA FreeInformed ==
    ASSUME WorkTyped, NEW q, NEW n, Informed(q), Free(n),
           UNCHANGED <<kind, nameOf, clusterOf, table, main, cat, allValid>>,
           faults' = 0 => faults = 0 /\ Free(q)
    PROVE  Informed(n)'
<1>1. faults' = 0 => \A o \in Objects : ~Absent(q, o)
  BY DEF Free, Absent
<1> QED BY <1>1, SteadyInformed DEF Free

(***************************************************************************)
(* The steps that read or change neither the table nor the caches, or only *)
(* read them (getApplicationInstance, listApplicationInstances, the        *)
(* deployments, deletions and cascades and their likes)                    *)
(***************************************************************************)
Telling(r) == cacheFound(r) \/ cacheListed(r) \/ markListed(r) \/ putRecord(r) \/ cacheNew(r)
              \/ uncache(r) \/ dbDelete(r)

\* After such a step the request knows what it has just read and, unless a call
\* failed, is still at the object it stored.
Follows(q, n) ==
    \/ Free(n) /\ (Free(q) \/ faults' # 0)
    \/ Free(q) /\ n.pc = "fill" /\ n.o \in table
    \/ Free(q) /\ n.pc = "listFill" /\ n.todo = table \cap Matching(n.key)
    \/ q.pc = "putConfig" /\ n.pc = "cache" /\ n.o = q.o

\* The deletions that follow one of a group or of a cluster.
LEMMA NextOwnedFree == ASSUME NEW owned, NEW n \in NextOwned(owned) PROVE Free(n)
<1>1. CASE owned = {}
  BY <1>1 DEF NextOwned, Idle, Free
<1>2. CASE owned # {}
  <2>1. PICK c \in owned : n = ClusterCascade(c, TRUE, owned \ {c})
    BY <1>2 DEF NextOwned
  <2>2. n.pc \in {"list", "ping"}
    BY <2>1 DEF ClusterCascade, Idle
  <2> QED BY <2>2 DEF Free
<1> QED BY <1>1, <1>2

LEMMA ProceedSteady ==
    ASSUME WorkTyped, NEW r \in Requests, Proceed(r), ~Telling(r)
    PROVE  /\ UNCHANGED <<table, main, cat, allValid>>
           /\ \E n : Step(r, n) /\ Follows(req[r], n)
<1> DEFINE q == req[r]
<1>0. q \in Request /\ (Fault(r) => faults' # 0)
  BY NoFault DEF WorkTyped, TypeOK
<1>1. UNCHANGED <<table, main, cat, allValid>>
  BY DEF Proceed, Telling, getObject, getConfig, listObjects, putConfig, createNamespace, deploy,
         cleanup, stopInstance, awaitStopped, undeploy, dbDeleteConfig, removeGroup, nextDeletion,
         endDeletions, pingCluster, deleteNamespaces, removeCluster, stored, caches, listings
<1> SUFFICES \E n : Step(r, n) /\ Follows(q, n)
  BY <1>1
<1>2. ASSUME NEW n, Step(r, n), Free(n), Free(q) \/ faults' # 0
      PROVE  \E m : Step(r, m) /\ Follows(q, m)
  BY <1>2 DEF Follows
<1>3. ASSUME NEW pc \in {"deploy", "uncache", "reinstall", "namespace", "namespaces", "list", "ping",
                         "removeCluster", "next", "stop"}
      PROVE  /\ Free([q EXCEPT !.pc = pc])
             /\ \A t : Free([q EXCEPT !.pc = pc, !.then = t])
             /\ \A b : Free([q EXCEPT !.pc = pc, !.reach = b])
             /\ \A v : Free([q EXCEPT !.pc = pc, !.config = v])
  BY <1>0 DEF Free, Request
<1>4. CASE getObject(r)
  <2>1. Free(q)
    BY <1>4 DEF getObject, At, Free
  <2>2. CASE q.o \in table /\ Step(r, [q EXCEPT !.pc = "fill"])
    <3>1. PICK n : n = [q EXCEPT !.pc = "fill"]
      OBVIOUS
    <3>2. n.pc = "fill" /\ n.o \in table
      BY <1>0, <2>2, <3>1 DEF Request
    <3> QED BY <2>1, <2>2, <3>1, <3>2 DEF Follows
  <2>3. CASE Step(r, AfterFind(q)) \/ Step(r, Idle)
    BY <1>0, <1>2, <2>1, <2>3, FreeNext
  <2> QED BY <1>4, <2>2, <2>3 DEF getObject, Goto
<1>5. CASE getConfig(r)
  <2>1. Free(q)
    BY <1>5 DEF getConfig, At, Free
  <2>2. \E v : Step(r, [q EXCEPT !.pc = "stop", !.config = v])
    BY <1>5 DEF getConfig
  <2> QED BY <1>2, <1>3, <2>1, <2>2
<1>6. CASE listObjects(r)
  <2>1. Free(q)
    BY <1>6 DEF listObjects, At, Free
  <2>2. CASE Step(r, [q EXCEPT !.pc = "listFill", !.todo = table \cap Matching(q.key)])
    <3>1. PICK n : n = [q EXCEPT !.pc = "listFill", !.todo = table \cap Matching(q.key)]
      OBVIOUS
    <3>2. n.pc = "listFill" /\ n.todo = table \cap Matching(n.key)
      BY <1>0, <3>1 DEF Request
    <3> QED BY <2>1, <2>2, <3>1, <3>2 DEF Follows
  <2>3. CASE \E S : Step(r, AfterList(q, S))
    BY <1>0, <1>2, <2>1, <2>3, FreeNext
  <2> QED BY <1>6, <2>2, <2>3 DEF listObjects
<1>7. CASE putConfig(r)
  <2>1. CASE Goto(r, "cache")
    <3>1. PICK n : n = [q EXCEPT !.pc = "cache"]
      OBVIOUS
    <3>2. n.pc = "cache" /\ n.o = q.o
      BY <1>0, <3>1 DEF Request
    <3>3. Step(r, n) /\ q.pc = "putConfig"
      BY <1>7, <2>1, <3>1 DEF Goto, putConfig, At
    <3> QED BY <3>2, <3>3 DEF Follows
  <2>2. CASE Step(r, Idle) /\ Fault(r)
    BY <1>0, <1>2, <2>2, FreeNext
  <2> QED BY <1>7, <2>1, <2>2 DEF putConfig
<1>8. CASE createNamespace(r) \/ awaitStopped(r)
  <2>1. Free(q)
    BY <1>8 DEF createNamespace, awaitStopped, At, Free
  <2>2. \/ \E pc \in {"deploy", "namespace"} : Step(r, [q EXCEPT !.pc = pc])
        \/ Step(r, [q EXCEPT !.pc = "uncache", !.then = "idle"])
        \/ Step(r, Idle)
    BY <1>8 DEF createNamespace, awaitStopped, Goto
  <2> QED BY <1>0, <1>2, <1>3, <2>1, <2>2, FreeNext
<1>9. CASE deploy(r) \/ cleanup(r) \/ stopInstance(r)
  <2>1. Free(q)
    BY <1>9 DEF deploy, cleanup, stopInstance, At, Free
  <2>2. \/ Step(r, Deployed(q)) \/ Step(r, NotDeployed(q)) \/ Step(r, Idle)
        \/ Step(r, [q EXCEPT !.pc = "reinstall"])
    BY <1>9 DEF deploy, cleanup, stopInstance, Goto
  <2> QED BY <1>0, <1>2, <1>3, <2>1, <2>2, FreeNext
<1>10. CASE undeploy(r)
  <2>1. Free(q)
    BY <1>10 DEF undeploy, At, Free
  <2>2. Step(r, Undeployed(q)) \/ Step(r, Kept(q))
    BY <1>10 DEF undeploy
  <2> QED BY <1>0, <1>2, <2>1, <2>2, FreeNext
<1>11. CASE dbDeleteConfig(r)
  <2>1. Free(q)
    BY <1>11 DEF dbDeleteConfig, At, Free
  <2>2. \E ok \in BOOLEAN : Step(r, AfterRemove(q, ok))
    BY <1>11 DEF dbDeleteConfig
  <2> QED BY <1>0, <1>2, <2>1, <2>2, FreeNext
<1>12. CASE removeGroup(r) \/ endDeletions(r) \/ pingCluster(r)
  <2>1. Free(q)
    BY <1>12 DEF removeGroup, endDeletions, pingCluster, At, Free
  <2>2. \/ \E pc \in {"namespaces", "list", "ping"} :
              Step(r, [q EXCEPT !.pc = pc]) \/ Step(r, [q EXCEPT !.pc = pc, !.reach = FALSE])
        \/ Step(r, Idle)
    BY <1>12 DEF removeGroup, endDeletions, pingCluster, Goto
  <2> QED BY <1>0, <1>2, <1>3, <2>1, <2>2, FreeNext
<1>13. CASE nextDeletion(r)
  <2>1. PICK n : /\ Step(r, n)
                 /\ \E o \in q.todo : n = [q EXCEPT !.o = o, !.todo = @ \ {o}, !.pc = "undeploy",
                                                   !.then = "next"]
    BY <1>13 DEF nextDeletion
  <2>2. Free(q) /\ Free(n)
    BY <1>0, <1>13, <2>1 DEF nextDeletion, At, Free, Request
  <2> QED BY <1>2, <2>1, <2>2
<1>14. CASE deleteNamespaces(r) \/ removeCluster(r)
  <2>1. Free(q)
    BY <1>14 DEF deleteNamespaces, removeCluster, At, Free
  <2>2. PICK n : Step(r, n) /\ (n = [q EXCEPT !.pc = "removeCluster"] \/ \E owned : n \in NextOwned(owned))
    BY <1>14 DEF deleteNamespaces, removeCluster, NextCascade
  <2>3. Free(n)
    BY <1>3, <2>2, NextOwnedFree
  <2> QED BY <1>2, <2>1, <2>2, <2>3
<1> QED BY <1>4, <1>5, <1>6, <1>7, <1>8, <1>9, <1>10, <1>11, <1>12, <1>13, <1>14
        DEF Proceed, Telling

(***************************************************************************)
(* The steps that store, cache or remove a record or mark a category       *)
(***************************************************************************)
\* A listing's or a record's caching inserts what matches into the categories K that
\* have a cache, and completes none (replaceCacheRecord).
LEMMA FilledKnown ==
    ASSUME WorkTyped, NEW S, NEW K, cat' = Filled(S, K)
    PROVE  \A k \in Keys :
               /\ IsCached(k) /\ k \in K => cat'[k].known = cat[k].known \cup (S \cap Matching(k))
               /\ ~(IsCached(k) /\ k \in K) => cat'[k].known = cat[k].known
               /\ cat'[k].valid = cat[k].valid
<1>1. SUFFICES ASSUME NEW k \in Keys
      PROVE  /\ IsCached(k) /\ k \in K => cat'[k].known = cat[k].known \cup (S \cap Matching(k))
             /\ ~(IsCached(k) /\ k \in K) => cat'[k].known = cat[k].known
             /\ cat'[k].valid = cat[k].valid
  OBVIOUS
<1>2. PICK d : d = insertAll(cat[k], S \cap Matching(k))
  OBVIOUS
<1>3. d.known = cat[k].known \cup (S \cap Matching(k)) /\ d.valid = cat[k].valid
  BY <1>2 DEF insertAll, WorkTyped, TypeOK, Category
<1>4. cat'[k] = IF IsCached(k) /\ k \in K THEN d ELSE cat[k]
  BY <1>2 DEF Filled
<1> QED BY <1>3, <1>4

\* Stored records are cached; the one that was missing is, if any was, among them.
LEMMA FillInformed ==
    ASSUME WorkTyped, NEW q, NEW n, Informed(q),
           UNCHANGED <<kind, nameOf, clusterOf, table, allValid>>,
           NEW S \in SUBSET table, NEW K,
           main' = [o \in Objects |-> IF o \in S THEN "live" ELSE main[o]],
           cat' = Filled(S, K),
           \A o : Absent(q, o) => o \in S /\ Keys \subseteq K,
           faults' = 0 => faults = 0,
           Knows(n)'
    PROVE  Informed(n)'
<1>1. table \subseteq Objects /\ (\A k \in Keys : cat[k].known \subseteq Objects) /\ S \subseteq Objects
  BY DEF WorkTyped, TypeOK, Category
<1>2. \A k : Matching(k)' = Matching(k) /\ (IsCached(k)' <=> IsCached(k))
  BY SamePlaces
<1>3. \A k \in Keys :
        /\ IsCached(k) /\ k \in K => cat'[k].known = cat[k].known \cup (S \cap Matching(k))
        /\ ~(IsCached(k) /\ k \in K) => cat'[k].known = cat[k].known
        /\ cat'[k].valid = cat[k].valid
  BY FilledKnown
<1>4. Filed'
  <2>1. \A o \in Objects : main'[o] # "none" => o \in table'
    BY <1>1 DEF Informed, Filed
  <2>2. ASSUME NEW k \in Keys, NEW o \in cat'[k].known PROVE main'[o] # "none" /\ o \in Matching(k)'
    <3>1. CASE o \in cat[k].known
      BY <1>1, <1>2, <3>1 DEF Informed, Filed
    <3>2. CASE o \in S \cap Matching(k)
      BY <1>1, <1>2, <3>2
    <3> QED BY <1>3, <2>2, <3>1, <3>2
  <2>3. \A k \in Keys : cat'[k].valid => IsCached(k)'
    BY <1>2, <1>3 DEF Informed, Filed
  <2> QED BY <2>1, <2>2, <2>3 DEF Filed
<1>5. ASSUME faults' = 0 PROVE Complete(n)'
  <2>1. Complete(q)
    BY <1>5 DEF Informed
  <2>2. ASSUME NEW k \in Keys, cat'[k].valid, k[1] = "cluster" => kind' # "volume",
               NEW o \in (table \cap Matching(k))'
        PROVE  o \in cat'[k].known
    <3>1. cat[k].valid /\ IsCached(k) /\ o \in table \cap Matching(k)
      BY <1>2, <1>3, <2>2 DEF Informed, Filed
    <3>2. o \in cat[k].known \/ Absent(q, o)
      BY <2>1, <2>2, <3>1 DEF Complete
    <3> QED BY <1>3, <3>1, <3>2
  <2>3. allValid' => \A o \in table' : main'[o] # "none"
    BY <1>1, <2>1 DEF Complete
  <2> QED BY <2>2, <2>3 DEF Complete
<1> QED BY <1>4, <1>5 DEF Informed

\* The record that was found in the table (getApplicationInstance, getSecret,
\* getPersistentVolumeClaim).
LEMMA FoundInformed ==
    ASSUME WorkTyped, NEW r \in Requests, cacheFound(r), Informed(req[r]), faults' = 0 => faults = 0
    PROVE  \E n : Step(r, n) /\ Informed(n)'
<1> DEFINE q == req[r]
<1>1. /\ q.pc = "fill" /\ Step(r, AfterFind(q)) /\ q \in Request
      /\ UNCHANGED <<kind, nameOf, clusterOf, table, allValid>>
      /\ main' = [o \in Objects |-> IF o \in {q.o} THEN "live" ELSE main[o]]
      /\ cat' = Filled({q.o}, Keys)
  BY DEF cacheFound, fillAll, At, fixed, stored, WorkTyped, TypeOK
<1>2. PICK n : n = AfterFind(q)
  OBVIOUS
<1>3. PICK p : p = q
  OBVIOUS
<1>4. Free(n) /\ {p.o} \subseteq table /\ (\A o : ~Absent(p, o)) /\ Informed(p)
  BY <1>1, <1>2, <1>3, FreeNext DEF Informed, Knows, Absent
<1>5. Knows(n)'
  BY <1>4 DEF Free, Knows
<1>6. Informed(n)'
  BY <1>1, <1>3, <1>4, <1>5, FillInformed
<1> QED BY <1>1, <1>2, <1>6

\* The record that was stored (addApplicationInstance, addSecret,
\* addPersistentVolumeClaim).
LEMMA NewInformed ==
    ASSUME WorkTyped, NEW r \in Requests, cacheNew(r), Informed(req[r]), faults' = 0 => faults = 0
    PROVE  \E n : Step(r, n) /\ Informed(n)'
<1> DEFINE q == req[r]
<1>1. /\ q.pc = "cache" /\ q \in Request
      /\ Step(r, IF q.op = "create" THEN [q EXCEPT !.pc = "namespace"] ELSE Idle)
      /\ UNCHANGED <<kind, nameOf, clusterOf, table, allValid>>
      /\ main' = [o \in Objects |-> IF o \in {q.o} THEN "live" ELSE main[o]]
      /\ cat' = Filled({q.o}, Keys)
  BY DEF cacheNew, fillAll, At, fixed, stored, WorkTyped, TypeOK
<1>2. PICK n : n = IF q.op = "create" THEN [q EXCEPT !.pc = "namespace"] ELSE Idle
  OBVIOUS
<1>3. PICK p : p = q
  OBVIOUS
<1>4. Free([q EXCEPT !.pc = "namespace"]) /\ Free(Idle)
  BY <1>1, FreeNext DEF Free, Request
<1>5. Free(n) /\ {p.o} \subseteq table /\ (\A o : Absent(p, o) => o \in {p.o}) /\ Informed(p)
  BY <1>1, <1>2, <1>3, <1>4 DEF Informed, Knows, Absent
<1>6. Knows(n)'
  BY <1>5 DEF Free, Knows
<1>7. Informed(n)'
  BY <1>1, <1>3, <1>5, <1>6, FillInformed
<1> QED BY <1>1, <1>2, <1>7

\* What a listing found, before its category is marked (listApplicationInstances and
\* its likes).
LEMMA ListedInformed ==
    ASSUME WorkTyped, NEW r \in Requests, cacheListed(r), Informed(req[r]), faults' = 0 => faults = 0
    PROVE  \E n : Step(r, n) /\ Informed(n)'
<1> DEFINE q == req[r]
<1>1. /\ q.pc = "listFill" /\ q \in Request /\ Step(r, [q EXCEPT !.pc = "listMark"])
      /\ UNCHANGED <<kind, nameOf, clusterOf, table, allValid>>
      /\ main' = [o \in Objects |-> IF o \in q.todo THEN "live" ELSE main[o]]
      /\ cat' = Filled(q.todo, {k \in Keys : FilledByListing(q, k)})
  BY DEF cacheListed, Goto, At, fixed, stored, WorkTyped, TypeOK
<1>2. PICK n : n = [q EXCEPT !.pc = "listMark"]
  OBVIOUS
<1>3. PICK p : p = q
  OBVIOUS
<1>4. PICK K : K = {k \in Keys : FilledByListing(q, k)}
  OBVIOUS
<1>5. cat' = Filled(p.todo, K) /\ \A k \in Keys : k \in K <=> FilledByListing(p, k)
  BY <1>1, <1>3, <1>4
<1>6. /\ n.pc = "listMark" /\ n.todo = p.todo /\ n.key = p.key /\ p.todo = table \cap Matching(p.key)
      /\ p.todo \in SUBSET Objects
      /\ p.todo \in SUBSET table /\ (\A o : ~Absent(p, o)) /\ Informed(p)
  BY <1>1, <1>2, <1>3 DEF Informed, Knows, Absent, Request
<1>7. \A k : /\ Matching(k)' = Matching(k) /\ (IsCached(k)' <=> IsCached(k))
             /\ (FilledByListing(n, k)' <=> FilledByListing(p, k))
  BY <1>1, <1>6, SamePlaces DEF FilledByListing
<1>8. Knows(n)'
  <2>1. \A o \in n.todo : main'[o] # "none"
    BY <1>1, <1>3, <1>6
  <2>2. ASSUME NEW k \in Keys, IsCached(k)', FilledByListing(n, k)'
        PROVE  n.todo \cap Matching(k)' \subseteq cat'[k].known
    <3>1. k \in K /\ IsCached(k)
      BY <1>7, <1>5, <2>2
    <3>2. cat'[k].known = cat[k].known \cup (p.todo \cap Matching(k))
      BY <1>5, <3>1, FilledKnown
    <3> QED BY <1>6, <1>7, <3>2
  <2>3. n.todo = (table \cap Matching(n.key))'
    BY <1>1, <1>6, <1>7
  <2> QED BY <1>6, <2>1, <2>2, <2>3 DEF Knows
<1>9. Informed(n)'
  BY <1>1, <1>3, <1>6, <1>8, <1>5, FillInformed
<1> QED BY <1>1, <1>2, <1>9

\* The listing's category, or those of all groups and clusters it met (the Scan of
\* listPersistentVolumeClaims), are complete: what it found is what is stored.
LEMMA MarkedInformed ==
    ASSUME WorkTyped, NEW r \in Requests, markListed(r), Informed(req[r]), faults' = 0 => faults = 0
    PROVE  \E n : Step(r, n) /\ Informed(n)'
<1> DEFINE q == req[r]
<1>1. /\ q.pc = "listMark" /\ q \in Request /\ Step(r, AfterList(q, q.todo))
      /\ UNCHANGED <<kind, nameOf, clusterOf, table, main>>
      /\ cat' = [k \in Keys |-> IF IsCached(k) /\ k \in Marked(q)
                                THEN update_expiration(cat[k], FilledByListing(q, k))
                                ELSE cat[k]]
      /\ allValid' = (allValid \/ q.key = Whole)
  BY DEF markListed, At, fixed, stored, WorkTyped, TypeOK
<1>2. PICK n : n = AfterList(q, q.todo)
  OBVIOUS
<1>3. PICK p : p = q
  OBVIOUS
<1>4. /\ Free(n) /\ p.pc = "listMark" /\ Informed(p) /\ Filed /\ (\A o : ~Absent(p, o))
      /\ p.todo = table \cap Matching(p.key)
      /\ \A o \in p.todo : main[o] # "none"
      /\ \A k \in Keys : IsCached(k) /\ FilledByListing(p, k) =>
             p.todo \cap Matching(k) \subseteq cat[k].known
  BY <1>1, <1>2, <1>3, FreeNext DEF Informed, Knows, Absent
<1>5. \A k : Matching(k)' = Matching(k) /\ (IsCached(k)' <=> IsCached(k))
  BY <1>1, SamePlaces
<1>6. ASSUME NEW k \in Keys
      PROVE  /\ cat'[k].known = cat[k].known
             /\ cat'[k].valid => cat[k].valid \/ (IsCached(k) /\ k \in Marked(p))
  <2>1. cat[k] \in Category
    BY DEF WorkTyped, TypeOK
  <2>2. PICK d : d = update_expiration(cat[k], FilledByListing(q, k))
    OBVIOUS
  <2>3. d.known = cat[k].known
    <3>1. PICK S : S = IF FilledByListing(q, k) THEN {} ELSE cat[k].live
      OBVIOUS
    <3>2. d = IF cat[k].known = {} THEN cat[k] ELSE [cat[k] EXCEPT !.valid = TRUE, !.old = S]
      BY <2>2, <3>1 DEF update_expiration
    <3>3. [cat[k] EXCEPT !.valid = TRUE, !.old = S].known = cat[k].known
      BY <2>1 DEF Category
    <3> QED BY <3>2, <3>3
  <2>4. cat'[k] = IF IsCached(k) /\ k \in Marked(p) THEN d ELSE cat[k]
    BY <1>1, <1>3, <2>2
  <2> QED BY <2>3, <2>4
<1>7. Filed'
  BY <1>1, <1>4, <1>5, <1>6 DEF Filed
<1>8. ASSUME faults' = 0 PROVE Complete(n)'
  <2>1. Complete(p) /\ table \subseteq Objects
    BY <1>4, <1>8 DEF Informed, WorkTyped, TypeOK
  <2>2. ASSUME NEW k \in Keys, cat'[k].valid, k[1] = "cluster" => kind' # "volume",
               NEW o \in (table \cap Matching(k))'
        PROVE  o \in cat'[k].known
    <3>1. o \in table \cap Matching(k) /\ (k[1] = "cluster" => kind # "volume")
      BY <1>1, <1>5, <2>2
    <3>2. CASE cat[k].valid
      BY <1>4, <1>6, <2>1, <3>1, <3>2 DEF Complete
    <3>3. CASE IsCached(k) /\ k \in Marked(p)
      <4>1. FilledByListing(p, k)
        BY <3>1 DEF FilledByListing
      <4>2. p.key = Whole \/ p.key = k
        BY <3>3 DEF Marked
      <4>3. o \in p.todo
        BY <1>4, <2>1, <3>1, <4>2 DEF Matching
      <4> QED BY <1>4, <1>6, <3>1, <3>3, <4>1, <4>3
    <3> QED BY <1>6, <2>2, <3>2, <3>3
  <2>3. ASSUME allValid', NEW o \in table' PROVE main'[o] # "none"
    <3>1. CASE allValid
      BY <1>1, <1>4, <2>1, <2>3, <3>1 DEF Complete
    <3>2. CASE p.key = Whole
      BY <1>1, <1>4, <2>1, <2>3, <3>2 DEF Matching
    <3> QED BY <1>1, <1>3, <2>3, <3>1, <3>2
  <2> QED BY <2>2, <2>3 DEF Complete
<1>9. Knows(n)'
  BY <1>4 DEF Free, Knows
<1> QED BY <1>1, <1>2, <1>7, <1>8, <1>9 DEF Informed

\* A record is stored, or may be if the call fails (addApplicationInstance,
\* addSecret, addPersistentVolumeClaim).
LEMMA PutInformed ==
    ASSUME WorkTyped, NEW r \in Requests, putRecord(r), Informed(req[r]), faults' = 0 => faults = 0
    PROVE  \E n : Step(r, n) /\ Informed(n)'
<1> DEFINE q == req[r]
<1>1. /\ q.pc = "put" /\ q \in Request
      /\ UNCHANGED <<kind, nameOf, clusterOf, main, cat, allValid>>
      /\ table' \in {table, table \cup {q.o}}
  BY DEF putRecord, At, fixed, caches, WorkTyped, TypeOK
<1>2. PICK n : /\ Step(r, n)
               /\ \/ table' = table \cup {q.o} /\ n.pc \in {"putConfig", "cache"} /\ n.o = q.o
                  \/ Free(n) /\ faults' # 0
  <2>1. CASE Fault(r) /\ Step(r, Idle)
    BY <2>1, NoFault DEF Free, Idle
  <2>2. CASE /\ table' = table \cup {q.o}
             /\ \E pc \in {"putConfig", "cache"} : Step(r, [q EXCEPT !.pc = pc])
    <3>1. PICK pc \in {"putConfig", "cache"} : Step(r, [q EXCEPT !.pc = pc])
      BY <2>2
    <3>2. PICK n : n = [q EXCEPT !.pc = pc]
      OBVIOUS
    <3>3. n.pc = pc /\ n.o = q.o
      BY <1>1, <3>2 DEF Request
    <3> QED BY <2>2, <3>1, <3>2, <3>3
  <2> QED BY <2>1, <2>2 DEF putRecord, Goto
<1>3. Filed /\ \A o : ~Absent(q, o)
  BY <1>1 DEF Informed, Absent
<1>4. \A k : Matching(k)' = Matching(k) /\ (IsCached(k)' <=> IsCached(k))
  BY <1>1, SamePlaces
<1>5. Filed'
  BY <1>1, <1>3, <1>4 DEF Filed
<1>6. Knows(n)'
  BY <1>2 DEF Free, Knows
<1>7. ASSUME faults' = 0 PROVE Complete(n)'
  <2>1. Complete(q)
    BY <1>7 DEF Informed
  <2>2. table' = table \cup {q.o} /\ \A o : Absent(n, o) <=> o = q.o
    BY <1>2, <1>7 DEF Absent
  <2>3. ASSUME NEW k \in Keys, cat'[k].valid, k[1] = "cluster" => kind' # "volume",
               NEW o \in (table \cap Matching(k))'
        PROVE  o \in cat'[k].known \/ Absent(n, o)
    BY <1>1, <1>3, <1>4, <2>1, <2>2, <2>3 DEF Complete
  <2>4. allValid' => \A o \in table' : main'[o] # "none" \/ Absent(n, o)
    BY <1>1, <1>3, <2>1, <2>2 DEF Complete
  <2>5. \A o : Absent(n, o)' <=> Absent(n, o)
    BY DEF Absent
  <2> QED BY <2>3, <2>4, <2>5 DEF Complete
<1> QED BY <1>2, <1>5, <1>6, <1>7 DEF Informed

\* A record that is to be removed leaves the caches: the categories it is in lose it,
\* and some go as a whole (removeApplicationInstance, removeSecret,
\* removePersistentVolumeClaim).
LEMMA ErasedKnown ==
    ASSUME WorkTyped, NEW o \in Objects, NEW k \in Keys
    PROVE  /\ ErasedFrom(o)[k].known \subseteq cat[k].known
           /\ k \in KeysOf(o) => o \notin ErasedFrom(o)[k].known
           /\ ErasedFrom(o)[k].valid =>
                  cat[k].valid /\ cat[k].known \ {o} \subseteq ErasedFrom(o)[k].known
<1>1. cat[k] \in Category
  BY DEF WorkTyped, TypeOK
<1>2. NoCategory.known = {} /\ NoCategory.valid = FALSE
  BY DEF NoCategory
<1>3. PICK d : d = [cat[k] EXCEPT !.known = @ \ {o}, !.live = @ \ {o}, !.old = @ \ {o}]
  OBVIOUS
<1>4. d.known = cat[k].known \ {o} /\ d.valid = cat[k].valid
  BY <1>1, <1>3 DEF Category
<1>5. eraseOne(cat[k], o) \in {NoCategory, d}
  BY <1>3 DEF eraseOne
<1>6. k \in KeysOf(o) => ErasedFrom(o)[k] \in {NoCategory, d}
  BY <1>5 DEF ErasedFrom
<1>7. k \notin KeysOf(o) => ErasedFrom(o)[k] = cat[k]
  BY DEF ErasedFrom
<1>8. CASE k \notin KeysOf(o)
  BY <1>7, <1>8
<1>9. CASE k \in KeysOf(o) /\ ErasedFrom(o)[k] = NoCategory
  BY <1>2, <1>9
<1>10. CASE k \in KeysOf(o) /\ ErasedFrom(o)[k] = d
  BY <1>4, <1>10
<1> QED BY <1>6, <1>8, <1>9, <1>10

LEMMA UncacheInformed ==
    ASSUME WorkTyped, NEW r \in Requests, uncache(r), Informed(req[r]), faults' = 0 => faults = 0
    PROVE  \E n : Step(r, n) /\ Informed(n)'
<1> DEFINE q == req[r]
<1>1. /\ q.pc = "uncache" /\ q \in Request /\ Step(r, [q EXCEPT !.pc = "dbDelete"])
      /\ UNCHANGED <<kind, nameOf, clusterOf, table, allValid>>
      /\ cat' = IF main[q.o] = "none" THEN cat ELSE ErasedFrom(q.o)
      /\ main' = [main EXCEPT ![q.o] = "none"]
      /\ Fits(q, kind, issued)
  BY DEF uncache, Goto, At, fixed, stored, WorkTyped, TypeOK, RequestsFit
<1>2. PICK n : n = [q EXCEPT !.pc = "dbDelete"]
  OBVIOUS
<1>3. PICK x \in Objects : x = q.o
  BY <1>1 DEF Fits, AboutOne, Removing
<1>4. /\ n.pc = "dbDelete" /\ n.o = x
      /\ Filed /\ (\A o : ~Absent(q, o)) /\ (\A o : Absent(n, o) <=> o = x)
  BY <1>1, <1>2, <1>3 DEF Informed, Absent, Request
<1>5. \A k : Matching(k)' = Matching(k) /\ (IsCached(k)' <=> IsCached(k))
  BY <1>1, SamePlaces
<1>6. main'[x] = "none" /\ \A o \in Objects : o # x => main'[o] = main[o]
  BY <1>1, <1>3 DEF WorkTyped, TypeOK
<1>7. ASSUME NEW k \in Keys
      PROVE  /\ cat'[k].known \subseteq cat[k].known /\ x \notin cat'[k].known
             /\ cat'[k].valid => cat[k].valid /\ cat[k].known \ {x} \subseteq cat'[k].known
  <2>1. CASE main[x] = "none"
    <3>1. cat' = cat /\ x \notin cat[k].known
      BY <1>1, <1>3, <1>4, <2>1 DEF Filed
    <3> QED BY <3>1
  <2>2. CASE main[x] # "none"
    <3>1. cat' = ErasedFrom(x)
      BY <1>1, <1>3, <2>2
    <3>2. k \notin KeysOf(x) => x \notin cat[k].known
      <4>1. k # Whole
        BY DEF Keys, Whole
      <4> QED BY <1>4, <4>1 DEF Filed, Matching
    <3> QED BY <3>1, <3>2, ErasedKnown
  <2> QED BY <2>1, <2>2
<1>8. \A k \in Keys : cat[k].known \subseteq Objects
  BY DEF WorkTyped, TypeOK, Category
<1>9. Filed'
  BY <1>1, <1>4, <1>5, <1>6, <1>7, <1>8 DEF Filed
<1>10. ASSUME faults' = 0 PROVE Complete(n)'
  <2>1. Complete(q) /\ table \subseteq Objects
    BY <1>10 DEF Informed, WorkTyped, TypeOK
  <2>2. ASSUME NEW k \in Keys, cat'[k].valid, k[1] = "cluster" => kind' # "volume",
               NEW o \in (table \cap Matching(k))'
        PROVE  o \in cat'[k].known \/ Absent(n, o)
    <3>1. o \in cat[k].known
      BY <1>1, <1>4, <1>5, <1>7, <2>1, <2>2 DEF Complete
    <3> QED BY <1>4, <1>7, <2>2, <3>1
  <2>3. allValid' => \A o \in table' : main'[o] # "none" \/ Absent(n, o)
    BY <1>1, <1>4, <1>6, <2>1 DEF Complete
  <2>4. \A o : Absent(n, o)' <=> Absent(n, o)
    BY DEF Absent
  <2> QED BY <2>2, <2>3, <2>4 DEF Complete
<1>11. Knows(n)'
  BY <1>4, <1>6 DEF Knows
<1> QED BY <1>1, <1>2, <1>9, <1>10, <1>11 DEF Informed

\* A record leaves the table, or may if the call fails.
LEMMA DbDeleteInformed ==
    ASSUME WorkTyped, NEW r \in Requests, dbDelete(r), Informed(req[r]), faults' = 0 => faults = 0
    PROVE  \E n : Step(r, n) /\ Informed(n)'
<1> DEFINE q == req[r]
<1>1. /\ q.pc = "dbDelete" /\ q \in Request
      /\ UNCHANGED <<kind, nameOf, clusterOf, main, cat, allValid>>
      /\ table' \in {table, table \ {q.o}}
      /\ faults' = 0 => table' = table \ {q.o}
  BY NoFault DEF dbDelete, At, fixed, caches, WorkTyped, TypeOK
<1>2. PICK n : Step(r, n) /\ Free(n)
  <2>1. \/ Step(r, [q EXCEPT !.pc = "dbDeleteConfig"])
        \/ \E ok \in BOOLEAN : Step(r, AfterRemove(q, ok))
    BY DEF dbDelete, Goto
  <2>2. Free([q EXCEPT !.pc = "dbDeleteConfig"])
    BY <1>1 DEF Free, Request
  <2> QED BY <1>1, <2>1, <2>2, FreeNext
<1>3. Filed /\ main[q.o] = "none" /\ \A o : Absent(q, o) => o = q.o
  BY <1>1 DEF Informed, Knows, Absent
<1>4. \A k : Matching(k)' = Matching(k) /\ (IsCached(k)' <=> IsCached(k))
  BY <1>1, SamePlaces
<1>5. Filed'
  BY <1>1, <1>3, <1>4 DEF Filed
<1>6. Knows(n)'
  BY <1>2 DEF Free, Knows
<1>7. ASSUME faults' = 0 PROVE Complete(n)'
  <2>1. Complete(q) /\ table' = table \ {q.o}
    BY <1>1, <1>7 DEF Informed
  <2>2. ASSUME NEW k \in Keys, cat'[k].valid, k[1] = "cluster" => kind' # "volume",
               NEW o \in (table \cap Matching(k))'
        PROVE  o \in cat'[k].known
    BY <1>1, <1>3, <1>4, <2>1, <2>2 DEF Complete
  <2>3. allValid' => \A o \in table' : main'[o] # "none"
    BY <1>1, <1>3, <2>1 DEF Complete
  <2> QED BY <2>2, <2>3 DEF Complete
<1> QED BY <1>2, <1>5, <1>6, <1>7 DEF Informed

(***************************************************************************)
(* Every step                                                              *)
(***************************************************************************)
LEMMA ProceedInformed ==
    ASSUME WorkTyped, NEW r \in Requests, Proceed(r), Informed(req[r])
    PROVE  \E n : Step(r, n) /\ Informed(n)'
<1> DEFINE q == req[r]
<1>1. UNCHANGED <<kind, nameOf, clusterOf>> /\ (faults' = 0 => faults = 0)
  BY ProceedHistory
<1>2. CASE Telling(r)
  BY <1>1, <1>2, FoundInformed, NewInformed, ListedInformed, MarkedInformed, PutInformed,
     UncacheInformed, DbDeleteInformed DEF Telling
<1>3. CASE ~Telling(r)
  <2>1. UNCHANGED <<table, main, cat, allValid>>
    BY <1>3, ProceedSteady
  <2>2. PICK n : Step(r, n) /\ Follows(q, n)
    BY <1>3, ProceedSteady
  <2>3. PICK p : p = q
    OBVIOUS
  <2>4. Informed(p) /\ Follows(p, n)
    BY <2>2, <2>3
  <2>5. faults' = 0 => \A o \in Objects : Absent(p, o) => Absent(n, o)
    BY <2>4 DEF Follows, Free, Absent
  <2>6. n.pc \in {"fill", "putConfig", "cache"} => n.o \in table
    BY <2>4 DEF Follows, Free, Informed, Knows
  <2>7. /\ n.pc \notin {"dbDelete", "listMark"}
        /\ n.pc = "listFill" => n.todo = table \cap Matching(n.key)
    BY <2>4 DEF Follows, Free
  <2>8. Informed(n)'
    BY <1>1, <2>1, <2>4, <2>5, <2>6, <2>7, SteadyInformed
  <2> QED BY <2>2, <2>8
<1> QED BY <1>2, <1>3

\* A request that arrives knows nothing yet.
LEMMA StartFree ==
    ASSUME NEW r \in Requests, Start(r) PROVE \E n : Begin(r, n) /\ Free(n)
<1>1. ASSUME NEW key, listBy(r, key) PROVE \E n : Begin(r, n) /\ Free(n)
  <2>1. PICK n : n = [Idle EXCEPT !.op = "list", !.pc = "list", !.key = key]
    OBVIOUS
  <2>2. Begin(r, n)
    BY <1>1, <2>1 DEF listBy
  <2>3. Free(n)
    BY <2>1 DEF Free, Idle
  <2> QED BY <2>2, <2>3
<1>2. ASSUME NEW o, fetch(r, o) PROVE \E n : Begin(r, n) /\ Free(n)
  <2>1. PICK n : n = [Idle EXCEPT !.op = "get", !.pc = "find", !.o = o]
    OBVIOUS
  <2>2. Begin(r, n)
    BY <1>2, <2>1 DEF fetch
  <2>3. Free(n)
    BY <2>1 DEF Free, Idle
  <2> QED BY <2>2, <2>3
<1>3. ASSUME NEW o, restart(r, o) PROVE \E n : Begin(r, n) /\ Free(n)
  <2>1. PICK n : n = [Idle EXCEPT !.op = "restart", !.pc = "find", !.o = o]
    OBVIOUS
  <2>2. Begin(r, n)
    BY <1>3, <2>1 DEF restart
  <2>3. Free(n)
    BY <2>1 DEF Free, Idle
  <2> QED BY <2>2, <2>3
<1>4. ASSUME NEW o, NEW v, create(r, o, v) PROVE \E n : Begin(r, n) /\ Free(n)
  <2>1. PICK n : n = [Idle EXCEPT !.op = "create", !.pc = "list", !.o = o, !.config = v,
                                  !.key = <<"both", GroupOf[o], clusterOf[o]>>]
    OBVIOUS
  <2>2. Begin(r, n)
    BY <1>4, <2>1 DEF create
  <2>3. Free(n)
    BY <2>1 DEF Free, Idle
  <2> QED BY <2>2, <2>3
<1>5. ASSUME NEW o, NEW v, update(r, o, v) PROVE \E n : Begin(r, n) /\ Free(n)
  <2>1. PICK n : n = [Idle EXCEPT !.op = "update", !.pc = "find", !.o = o, !.config = v]
    OBVIOUS
  <2>2. Begin(r, n)
    BY <1>5, <2>1 DEF update
  <2>3. Free(n)
    BY <2>1 DEF Free, Idle
  <2> QED BY <2>2, <2>3
<1>6. ASSUME NEW o, NEW force, delete(r, o, force) PROVE \E n : Begin(r, n) /\ Free(n)
  <2>1. PICK n : n = [Idle EXCEPT !.op = "delete", !.pc = "find", !.o = o, !.force = force]
    OBVIOUS
  <2>2. Begin(r, n)
    BY <1>6, <2>1 DEF delete
  <2>3. Free(n)
    BY <2>1 DEF Free, Idle
  <2> QED BY <2>2, <2>3
<1>7. ASSUME NEW g, deleteGroup(r, g) PROVE \E n : Begin(r, n) /\ Free(n)
  <2>1. PICK n : n = [Idle EXCEPT !.op = "deleteGroup", !.pc = "removeGroup", !.key = <<"group", g>>]
    OBVIOUS
  <2>2. Begin(r, n)
    BY <1>7, <2>1 DEF deleteGroup
  <2>3. Free(n)
    BY <2>1 DEF Free, Idle
  <2> QED BY <2>2, <2>3
<1>8. ASSUME NEW c, NEW force, deleteCluster(r, c, force) PROVE \E n : Begin(r, n) /\ Free(n)
  <2>1. PICK n : n = ClusterCascade(c, force, {})
    OBVIOUS
  <2>2. Begin(r, n)
    BY <1>8, <2>1 DEF deleteCluster
  <2>3. Free(n)
    BY <2>1 DEF Free, Idle, ClusterCascade
  <2> QED BY <2>2, <2>3
<1> QED BY <1>1, <1>2, <1>3, <1>4, <1>5, <1>6, <1>7, <1>8 DEF Start

LEMMA StartInformed ==
    ASSUME WorkTyped, OneAtATime, NEW r \in Requests, Start(r) PROVE OneAtATime'
<1>1. PICK n : Begin(r, n) /\ Free(n)
  BY StartFree
<1>2. /\ Step(r, n) /\ At(r, "idle") /\ overlapped' = (overlapped \/ ~Alone(r))
      /\ UNCHANGED <<kind, nameOf, clusterOf, table, main, cat, allValid, faults>>
  BY <1>1 DEF Begin, fixed, stored, caches
<1>3. CASE overlapped'
  BY <1>3 DEF OneAtATime
<1>4. CASE ~overlapped'
  <2>1. Alone(r) /\ ~overlapped
    BY <1>2, <1>4
  <2>2. Informed(Idle)
    BY <1>2, <2>1 DEF OneAtATime, Quiescent, At, Alone
  <2>3. Free(Idle)
    BY DEF Free, Idle
  <2>4. Informed(n)'
    BY <1>1, <1>2, <2>2, <2>3, FreeInformed
  <2> QED BY <1>2, <2>1, <2>4, AloneInformed
<1> QED BY <1>3, <1>4

\* Records and categories expire: what the caches know does not change, and they are
\* complete for no more than before.
LEMMA ExpiryInformed == ASSUME WorkTyped, OneAtATime, Expire PROVE OneAtATime'
<1>0. /\ main \in [Objects -> {"none", "live", "expired"}] /\ cat \in [Keys -> Category]
  BY DEF WorkTyped, TypeOK
<1>1. UNCHANGED <<kind, nameOf, clusterOf, table, req, overlapped, faults>>
  BY DEF Expire, ExpireRecord, ExpireCategory, ExpireCopy, ExpireWhole, fixed, stored
<1>2. allValid' => allValid
  BY DEF Expire, ExpireRecord, ExpireCategory, ExpireCopy, ExpireWhole
<1>3. \A o \in Objects : main'[o] # "none" <=> main[o] # "none"
  <2>1. CASE \E x \in Objects : ExpireRecord(x)
    <3>1. PICK x \in Objects : main[x] = "live" /\ main' = [main EXCEPT ![x] = "expired"]
      BY <2>1 DEF ExpireRecord
    <3> QED BY <1>0, <3>1
  <2>2. CASE main' = main
    BY <2>2
  <2> QED BY <2>1, <2>2 DEF Expire, ExpireCategory, ExpireCopy, ExpireWhole
<1>4. ASSUME NEW k \in Keys
      PROVE  cat'[k].known = cat[k].known /\ (cat'[k].valid => cat[k].valid)
  <2>0. cat[k] \in Category
    BY <1>0
  <2>1. ASSUME NEW x, ExpireRecord(x)
        PROVE  cat'[k].known = cat[k].known /\ (cat'[k].valid => cat[k].valid)
    <3>1. PICK d : d = [cat[k] EXCEPT !.live = @ \ {x}, !.old = @ \ {x}]
      OBVIOUS
    <3>2. d.known = cat[k].known /\ d.valid = cat[k].valid
      BY <2>0, <3>1 DEF Category
    <3>3. cat'[k] = d
      BY <2>1, <3>1 DEF ExpireRecord
    <3> QED BY <3>2, <3>3
  <2>2. ASSUME NEW l \in Keys, NEW x, ExpireCopy(l, x)
        PROVE  cat'[k].known = cat[k].known /\ (cat'[k].valid => cat[k].valid)
    <3>1. PICK d : d = [cat[l] EXCEPT !.live = @ \ {x}, !.old = @ \ {x}]
      OBVIOUS
    <3>2. d.known = cat[l].known /\ d.valid = cat[l].valid
      BY <1>0, <3>1 DEF Category
    <3>3. cat' = [cat EXCEPT ![l] = d]
      BY <1>0, <2>2, <3>1 DEF ExpireCopy
    <3> QED BY <1>0, <3>2, <3>3
  <2>3. ASSUME NEW l \in Keys, ExpireCategory(l)
        PROVE  cat'[k].known = cat[k].known /\ (cat'[k].valid => cat[k].valid)
    <3>1. PICK d : d = [cat[l] EXCEPT !.valid = FALSE, !.old = {}]
      OBVIOUS
    <3>2. d.known = cat[l].known /\ d.valid = FALSE
      BY <1>0, <3>1 DEF Category
    <3>3. cat' = [cat EXCEPT ![l] = d]
      BY <1>0, <2>3, <3>1 DEF ExpireCategory
    <3> QED BY <1>0, <3>2, <3>3
  <2>4. CASE cat' = cat
    BY <2>4
  <2> QED BY <2>1, <2>2, <2>3, <2>4 DEF Expire, ExpireWhole
<1>5. ASSUME NEW p, Informed(p), p.pc = "dbDelete" => p.o \in Objects PROVE Informed(p)'
  BY <1>1, <1>2, <1>3, <1>4, <1>5, SteadyInformed DEF Informed, Knows
<1>6. ASSUME ~overlapped, Filed PROVE Filed'
  BY <1>1, <1>3, <1>4, <1>6, FiledLasts
<1>7. ASSUME NEW s \in Requests, Informed(req[s]) PROVE Informed(req[s])'
  <2>1. PICK p : p = req[s]
    OBVIOUS
  <2>2. p.pc = "dbDelete" => p.o \in Objects
    BY <2>1 DEF WorkTyped, RequestsFit, Fits, AboutOne, Removing
  <2>3. Informed(p)'
    BY <1>5, <1>7, <2>1, <2>2
  <2> QED BY <1>1, <2>1, <2>3
<1>8. ASSUME Informed(Idle) PROVE Informed(Idle)'
  <2>1. Idle.pc = "idle"
    BY DEF Idle
  <2> QED BY <1>5, <1>8, <2>1
<1> QED BY <1>1, <1>6, <1>7, <1>8 DEF OneAtATime, Lone, Quiescent, At

LEMMA StepInformed == ASSUME WorkTyped, OneAtATime, [Next]_vars PROVE OneAtATime'
<1>1. CASE UNCHANGED vars
  BY <1>1 DEF vars, OneAtATime, Lone, Quiescent, Filed, Informed, Knows, Complete, Absent, At, Matching,
              KeysOf, IsCached, FilledByListing
<1>2. CASE Expire \/ \E r \in Requests : Start(r)
  BY <1>2, ExpiryInformed, StartInformed
<1>3. ASSUME NEW r \in Requests, Proceed(r) PROVE OneAtATime'
  <2>1. overlapped' = overlapped /\ ~At(r, "idle")
    BY <1>3 DEF Proceed, getObject, cacheFound, getConfig, listObjects, cacheListed, markListed,
                putRecord, putConfig, cacheNew, createNamespace, deploy, cleanup, stopInstance,
                awaitStopped, undeploy, uncache, dbDelete, dbDeleteConfig, removeGroup, nextDeletion,
                endDeletions, pingCluster, deleteNamespaces, removeCluster, At
  <2>2. CASE overlapped
    BY <2>1, <2>2 DEF OneAtATime
  <2>3. CASE ~overlapped
    <3>1. Alone(r) /\ Informed(req[r])
      BY <2>1, <2>3 DEF OneAtATime, Lone, Alone, At
    <3>2. PICK n : Step(r, n) /\ Informed(n)'
      BY <1>3, <3>1, ProceedInformed
    <3> QED BY <3>1, <3>2, AloneInformed
  <2> QED BY <2>2, <2>3
<1> QED BY <1>1, <1>2, <1>3 DEF Next

\* As long as no two requests were in progress at a time, whatever is cached is
\* stored, at every step of a request, and a listing that the caches answer lacks
\* none but the object that is being added or removed, unless a call failed.
THEOREM RecordsInvariant == Spec => [](WorkTyped /\ OneAtATime)
<1>1. ASSUME Init PROVE WorkTyped /\ OneAtATime
  <2>1. WorkTyped
    BY <1>1, InitTyped
  <2>2. /\ main = [o \in Objects |-> "none"] /\ cat = [k \in Keys |-> NoCategory]
        /\ allValid = FALSE /\ req = [r \in Requests |-> Idle]
    BY <1>1 DEF Init
  <2>3. NoCategory.known = {} /\ NoCategory.valid = FALSE
    BY DEF NoCategory
  <2>4. \A r \in Requests : req[r].pc = "idle"
    BY <2>2 DEF Idle
  <2>5. Lone /\ Filed
    BY <2>2, <2>3, <2>4 DEF Lone, At, Filed
  <2>6. Knows(Idle) /\ Complete(Idle)
    BY <2>2, <2>3 DEF Knows, Complete, Idle
  <2> QED BY <2>1, <2>4, <2>5, <2>6 DEF OneAtATime, Informed, At
<1>2. (WorkTyped /\ OneAtATime) /\ [Next]_vars => (WorkTyped /\ OneAtATime)'
  BY StepTyped, StepInformed
<1> QED BY <1>1, <1>2, PTL DEF Spec

\* Between requests that ran one at a time every cached record is stored, and unless
\* a call failed a listing from the caches is complete (addApplicationInstance,
\* removeSecret, listPersistentVolumeClaims and their likes).
THEOREM RecordsAndCaches == Spec => []RecordsKept
<1>1. ASSUME WorkTyped, OneAtATime PROVE RecordsKept
  <2>1. TypeOK
    BY <1>1 DEF WorkTyped
  <2>2. ASSUME Quiescent, ~overlapped, NEW o \in Objects \ table
        PROVE  main[o] = "none" /\ \A k \in Keys : o \notin cat[k].known
    <3>1. Filed
      BY <1>1, <2>2 DEF OneAtATime
    <3> QED BY <2>2, <3>1 DEF Filed
  <2>3. ASSUME Settled, ~overlapped
        PROVE  /\ \A k \in Keys : cat[k].valid /\ (k[1] = "cluster" => kind # "volume") =>
                      table \cap Matching(k) \subseteq cat[k].known
               /\ allValid => \A o \in table : main[o] # "none"
    <3>1. Complete(Idle)
      BY <1>1, <2>3 DEF OneAtATime, Informed, Settled
    <3>2. \A o : ~Absent(Idle, o)
      BY DEF Absent, Idle
    <3> QED BY <3>1, <3>2 DEF Complete
  <2> QED BY <2>1, <2>2, <2>3 DEF RecordsKept, CachedStored, ListingsComplete
<1> QED BY <1>1, RecordsInvariant, PTL(***************************************************************************)
(* What runs and what is recorded                                          *)
(*                                                                         *)
(* As long as no two requests were in progress at a time and no call has   *)
(* failed: what runs on the clusters is what is recorded (SlotsAgree), but *)
(* for the object or the group the request in progress is at, of which the *)
(* request knows what it has found and done (KnowsObject, KnowsCascade);   *)
(* what is cached of the configurations is what is stored (ConfigsAgree);  *)
(* and what a listing has renewed does not expire before its category      *)
(* (Lively), so that a listing from the caches misses no name and no       *)
(* record that a cascade has to delete.                                    *)
(***************************************************************************)
\* Request q has stored the record of o and not yet deployed it, has taken it down to
\* deploy it anew, or has taken it down and not yet removed its record.
Bare(q, o) ==
    /\ q.o = o
    /\ \/ q.op = "create" /\ q.pc \in {"putConfig", "cache", "namespace", "deploy"}
       \/ q.op \in {"update", "restart"} /\ q.pc \in {"reinstall", "namespace", "deploy"}
       \/ (q.op = "delete" \/ Cascade(q)) /\ q.pc \in {"uncache", "dbDelete"}
\* Request q has deployed a new configuration of o and has still to record it.
Shifted(q, o) ==
    q.o = o /\ q.op = "update" /\ q.pc \in {"uncache", "dbDelete", "dbDeleteConfig", "put", "putConfig"}
\* Request q has deleted group g and has not yet deleted its namespaces.
Leaves(q, g) == q.op = "deleteGroup" /\ q.pc # "removeGroup" /\ q.key = <<"group", g>>
\* Request q has deleted the namespaces on cluster c and has still to remove c.
Emptied(q, c) == q.op = "deleteCluster" /\ q.pc = "removeCluster" /\ q.c = c

\* What runs is recorded and what is recorded runs, with the recorded configuration,
\* but for what q is at.
SlotsAgree(q) ==
    /\ \A k \in running :
           /\ k[1] \in clusters
           /\ k[2] \in groups \/ Leaves(q, k[2])
           /\ \/ \E o \in table : Slot(o) = k
              \/ Shifted(q, q.o) /\ Slot(q.o) = k
              \/ Leaves(q, k[2])
    /\ \A o, p \in table : Slot(o) = Slot(p) => o = p
    /\ \A o \in table : Addressable(o) =>
           \/ Slot(o) \in running /\ deployed[Slot(o)] = configs[o]
           \/ Bare(q, o) \/ Shifted(q, o) \/ Emptied(q, clusterOf[o])
    /\ kind # "volume" => \A o \in table : Addressable(o) \/ Leaves(q, GroupOf[o])

\* A creation is at an object of its own, whose place is free.
Creates(q) ==
    /\ Addressable(q.o) /\ q.config \in ConfigsOf
    /\ q.pc \notin Removing \cup {"cleanup"}
    /\ q.pc \in {"list", "listFill", "listMark"} =>
           q.o \notin table /\ q.key = <<"both", GroupOf[q.o], clusterOf[q.o]>>
    /\ q.pc = "put" => \A x \in table : Slot(x) # Slot(q.o)
    /\ q.pc \in {"putConfig", "cache", "namespace", "deploy"} => q.o \in table /\ Slot(q.o) \notin running
    /\ q.pc \in {"cache", "namespace", "deploy"} => configs[q.o] = q.config
\* An update deploys the new configuration before it records it, in a record of its own.
Updates(q) ==
    /\ Addressable(q.o) /\ q.config \in Versions
    /\ q.pc # "cleanup"
    /\ q.pc \in Removing => q.then = "put"
    /\ q.pc \in {"stop", "reinstall", "namespace", "deploy", "uncache", "dbDelete", "putConfig", "cache"} =>
           q.o \in table
    /\ q.pc \in {"reinstall", "namespace", "deploy"} => Slot(q.o) \notin running
    /\ q.pc \in {"dbDeleteConfig", "put"} => \A x \in table : Slot(x) # Slot(q.o)
    /\ Shifted(q, q.o) => Slot(q.o) \in running /\ deployed[Slot(q.o)] = q.config
    /\ q.pc = "cache" => configs[q.o] = q.config
\* A restart deploys the recorded configuration again.
Restarts(q) ==
    /\ Addressable(q.o)
    /\ q.pc \notin Removing \cup {"cleanup"}
    /\ q.pc \in {"config", "stop", "reinstall", "namespace", "deploy"} => q.o \in table
    /\ q.pc \in {"reinstall", "namespace", "deploy"} => Slot(q.o) \notin running
    /\ q.pc \in {"stop", "reinstall", "namespace", "deploy"} => configs[q.o] = q.config
\* A deletion removes the record of what no longer runs, but for what goes with the
\* namespaces of a deleted group.
Removes(q) ==
    /\ q.pc \in {"undeploy", "uncache", "dbDelete"} => q.o \in table
    /\ q.pc \in {"uncache", "dbDelete"} => Slot(q.o) \notin running \/ Leaves(q, GroupOf[q.o])
    /\ q.pc = "dbDeleteConfig" => q.o \notin table
KnowsObject(q) ==
    /\ q.op = "create" => Creates(q)
    /\ q.op = "update" => Updates(q)
    /\ q.op = "restart" => Restarts(q)
    /\ q.op = "delete" \/ Cascade(q) => Removes(q)

\* The objects a cascade has to delete.
Scope(q) == IF q.op = "deleteGroup" THEN {o \in Objects : q.key = <<"group", GroupOf[o]>>}
            ELSE {o \in Objects : clusterOf[o] = q.c}
\* What a cascade has still to delete, and what it has deleted.
KnowsCascade(q) ==
    /\ q.op = "deleteGroup" =>
           /\ q.c = None /\ q.pc \notin {"ping", "removeCluster"}
           /\ kind = "volume" => q.pc \in {"removeGroup", "namespaces"}
           /\ \E g \in Groups : q.key = <<"group", g>> /\ (q.pc # "removeGroup" => g \notin groups)
    /\ q.op = "deleteCluster" =>
           /\ q.c \in Clusters /\ q.pc # "removeGroup"
           /\ q.key = IF kind = "instance" THEN Whole ELSE <<"cluster", q.c>>
           /\ q.pc = "removeCluster" => \A k \in running : k[1] # q.c
    /\ Cascade(q) /\ q.pc \in Removing \cup {"undeploy", "next"} =>
           /\ q.todo \subseteq table \cap Scope(q)
           /\ q.pc # "next" => q.o \in Scope(q) \ q.todo /\ q.then = "next"
           /\ kind # "volume" =>
                  \A o \in table \cap Scope(q) :
                      o \in q.todo \/ (o = q.o /\ q.pc \in {"undeploy", "uncache", "dbDelete"})
    /\ /\ Cascade(q) /\ kind # "volume"
       /\ q.pc \in {"namespaces", "removeCluster"} \/ (q.pc = "ping" /\ kind = "instance")
       => table \cap Scope(q) = {}

\* Every stored instance has its configuration, and what is cached is what is stored.
ConfigsAgree(q) ==
    /\ \A o \in table : configs[o] \in ConfigsOf \/ (q.o = o /\ q.pc = "putConfig")
    /\ \A o \in Objects : configs[o] \in ConfigsOf \cup {None}
    /\ \A o \in Objects : configCache[o] \in Versions => o \in table /\ configs[o] = configCache[o]
    /\ q.pc \in {"dbDelete", "putConfig"} => configCache[q.o] \notin Versions

\* Categories whose values a listing renews when it marks them.
Renewed(k) == k[1] = "cluster" => kind # "volume"
\* Such a category expires before its values do.
Tight(c) == c.live \subseteq c.known /\ c.old = {} /\ (c.valid => c.known \subseteq c.live)
Lively(q) ==
    /\ \A k \in Keys : cat[k].live \subseteq cat[k].known /\ (Renewed(k) => Tight(cat[k]))
    /\ q.pc = "listMark" => \A k \in Keys : IsCached(k) /\ Renewed(k) =>
           q.todo \cap Matching(k) \subseteq cat[k].live

Agreed(q) == q.reach /\ SlotsAgree(q) /\ KnowsObject(q) /\ KnowsCascade(q) /\ ConfigsAgree(q) /\ Lively(q)
AgreedAlone ==
    ~overlapped /\ faults = 0 =>
        /\ Quiescent => Agreed(Idle)
        /\ \A r \in Requests : ~At(r, "idle") => Agreed(req[r])

(***************************************************************************)
(* What a step leaves as it was                                            *)
(***************************************************************************)
\* What Kubernetes runs after a deletion and after a deployment.
LEMMA TakenDown == ASSUME WorkTyped, NEW S, takeDown(S) PROVE running' = running \ S
BY DEF takeDown, running

LEMMA RunsAs ==
    ASSUME WorkTyped, NEW k \in Slots, NEW o \in Objects, NEW v, runAs(k, o, v)
    PROVE  /\ running' = running \cup {k}
           /\ deployed'[k] = v /\ \A l \in Slots : l # k => deployed'[l] = deployed[l]
<1>1. holder \in [Slots -> Objects \cup {None}] /\ deployed \in [Slots -> Versions \cup {None, Default}]
  BY DEF WorkTyped, TypeOK
<1>2. o # None
  BY WorkloadAssumption
<1> QED BY <1>1, <1>2 DEF runAs, running

\* A request goes on and is still at what it was at.
Succeeds(q, n) ==
    /\ \A o : (Bare(q, o) => Bare(n, o)) /\ (Shifted(q, o) => Shifted(n, o))
    /\ \A g : Leaves(q, g) => Leaves(n, g)
    /\ \A c : Emptied(q, c) => Emptied(n, c)

LEMMA SlotsLast ==
    ASSUME NEW q, NEW n, SlotsAgree(q), Succeeds(q, n),
           UNCHANGED <<kind, nameOf, clusterOf, groups, clusters, table, configs, holder, deployed>>
    PROVE  SlotsAgree(n)'
<1>1. running' = running /\ \A o : Slot(o)' = Slot(o) /\ (Addressable(o)' <=> Addressable(o))
  BY DEF running, Slot, Addressable
<1>2. ASSUME NEW k \in running
      PROVE  /\ k[1] \in clusters
             /\ k[2] \in groups \/ Leaves(n, k[2])
             /\ \/ \E o \in table : Slot(o) = k
                \/ Shifted(n, n.o) /\ Slot(n.o) = k
                \/ Leaves(n, k[2])
  BY DEF SlotsAgree, Succeeds, Shifted
<1>3. ASSUME NEW o \in table, Addressable(o)
      PROVE  \/ Slot(o) \in running /\ deployed[Slot(o)] = configs[o]
             \/ Bare(n, o) \/ Shifted(n, o) \/ Emptied(n, clusterOf[o])
  BY <1>3 DEF SlotsAgree, Succeeds
<1>4. kind # "volume" => \A o \in table : Addressable(o) \/ Leaves(n, GroupOf[o])
  BY DEF SlotsAgree, Succeeds
<1>5. \A o, p \in table : Slot(o) = Slot(p) => o = p
  BY DEF SlotsAgree
<1> QED BY <1>1, <1>2, <1>3, <1>4, <1>5 DEF SlotsAgree, Bare, Shifted, Leaves, Emptied

LEMMA KnownLasts ==
    ASSUME NEW n, KnowsObject(n), KnowsCascade(n),
           UNCHANGED <<kind, nameOf, clusterOf, groups, clusters, table, configs, holder, deployed>>
    PROVE  KnowsObject(n)' /\ KnowsCascade(n)'
<1>1. /\ running' = running
      /\ \A o : Slot(o)' = Slot(o) /\ (Addressable(o)' <=> Addressable(o))
      /\ Scope(n)' = Scope(n) /\ ConfigsOf' = ConfigsOf
  BY DEF running, Slot, Addressable, Scope, ConfigsOf
<1>2. (Creates(n) => Creates(n)') /\ (Restarts(n) => Restarts(n)')
  BY <1>1 DEF Creates, Restarts
<1>3. Updates(n) => Updates(n)'
  BY <1>1 DEF Updates, Shifted
<1>4. Removes(n) => Removes(n)'
  BY <1>1 DEF Removes, Leaves
<1>5. KnowsCascade(n)'
  BY <1>1 DEF KnowsCascade, Cascade
<1> QED BY <1>2, <1>3, <1>4, <1>5 DEF KnowsObject, Cascade

LEMMA ConfigsLast ==
    ASSUME NEW q, NEW n, ConfigsAgree(q), q.pc # "putConfig", n.pc \notin {"dbDelete", "putConfig"},
           UNCHANGED <<kind, table, configs, configCache>>
    PROVE  ConfigsAgree(n)'
BY DEF ConfigsAgree, ConfigsOf

LEMMA LivelyLasts ==
    ASSUME NEW q, NEW n, Lively(q), n.pc # "listMark", UNCHANGED <<kind, cat>>
    PROVE  Lively(n)'
BY DEF Lively, Renewed, Tight

\* A request that changes nothing and goes on with what it knows.
LEMMA QuietAgreed ==
    ASSUME NEW q, NEW n, Agreed(q), Succeeds(q, n), n.reach, KnowsObject(n), KnowsCascade(n),
           q.pc # "putConfig", n.pc \notin {"dbDelete", "putConfig", "listMark"},
           UNCHANGED <<kind, nameOf, clusterOf, groups, clusters, table, configs, holder, deployed,
                       configCache, cat>>
    PROVE  Agreed(n)'
BY SlotsLast, KnownLasts, ConfigsLast, LivelyLasts DEF Agreed

\* An idle request is at nothing.
LEMMA IdleKnows ==
    /\ KnowsObject(Idle) /\ KnowsCascade(Idle) /\ Idle.reach /\ Idle.pc = "idle" /\ Idle.op = "none"
    /\ KnowsObject(Idle)' /\ KnowsCascade(Idle)'
BY DEF KnowsObject, KnowsCascade, Cascade, Idle

(***************************************************************************)
(* Where a request goes on, and what it then knows                         *)
(***************************************************************************)
Moved(q, n, pc) ==
    /\ n.pc = pc /\ n.op = q.op /\ n.o = q.o /\ n.key = q.key /\ n.c = q.c /\ n.config = q.config
    /\ n.reach = q.reach /\ n.todo = q.todo /\ n.then = q.then

LEMMA MovesOn == ASSUME NEW q \in Request, NEW pc PROVE Moved(q, [q EXCEPT !.pc = pc], pc)
<1>1. PICK n : n = [q EXCEPT !.pc = pc]
  OBVIOUS
<1>2. Moved(q, n, pc)
  BY <1>1 DEF Request, Moved
<1> QED BY <1>1, <1>2

\* A step of a request that runs alone while no call fails.
LEMMA Going ==
    ASSUME WorkTyped, NEW r \in Requests, faults' = 0
    PROVE  req[r] \in Request /\ Fits(req[r], kind, issued) /\ ~Fault(r)
BY NoFault DEF WorkTyped, TypeOK, RequestsFit

\* The record of the object has been found.
LEMMA AfterFindKnows ==
    ASSUME NEW q \in Request, Fits(q, kind, issued), Agreed(q), q.pc \in {"find", "fill"}, q.o \in table,
           NEW n, n = AfterFind(q) \/ Moved(q, n, "fill")
    PROVE  /\ Succeeds(q, n) /\ n.reach /\ KnowsObject(n) /\ KnowsCascade(n)
           /\ n.pc \in {"idle", "fill", "undeploy", "stop", "config"}
<1>1. q.op \in {"get", "delete", "update", "restart"} /\ ~Cascade(q) /\ q.reach /\ KnowsObject(q)
  BY DEF Fits, Path, Installing, Removing, Cascade, Agreed, Request, Ops
<1>2. CASE n = Idle
  BY <1>1, <1>2, IdleKnows DEF Succeeds, Bare, Shifted, Leaves, Emptied
<1>3. CASE \E pc \in {"fill", "undeploy", "stop", "config"} :
             /\ Moved(q, n, pc)
             /\ pc = "undeploy" => q.op = "delete"
             /\ pc = "stop" => q.op = "update"
             /\ pc = "config" => q.op = "restart"
  <2>1. n.reach /\ n.pc \in {"fill", "undeploy", "stop", "config"} /\ ~Cascade(n) /\ n.op = q.op /\ n.o = q.o
    BY <1>1, <1>3 DEF Moved, Cascade
  <2>2. Succeeds(q, n)
    BY <1>1, <2>1 DEF Succeeds, Bare, Shifted, Leaves, Emptied
  <2>3. q.op = "update" => Updates(n)
    BY <1>1, <1>3 DEF Moved, KnowsObject, Updates, Shifted, Removing
  <2>4. q.op = "restart" => Restarts(n)
    BY <1>1, <1>3 DEF Moved, KnowsObject, Restarts, Removing
  <2>5. q.op = "delete" => Removes(n)
    BY <1>1, <1>3 DEF Moved, Removes
  <2>6. KnowsObject(n) /\ KnowsCascade(n)
    BY <1>1, <2>1, <2>3, <2>4, <2>5 DEF KnowsObject, KnowsCascade, Cascade
  <2> QED BY <2>1, <2>2, <2>6
<1>4. \/ AfterFind(q) = Idle
      \/ AfterFind(q) = [q EXCEPT !.pc = "undeploy"] /\ q.op = "delete"
      \/ AfterFind(q) = [q EXCEPT !.pc = "stop"] /\ q.op = "update"
      \/ AfterFind(q) = [q EXCEPT !.pc = "config"] /\ q.op = "restart"
  BY DEF AfterFind
<1>5. \A pc : Moved(q, [q EXCEPT !.pc = pc], pc)
  BY MovesOn
<1> QED BY <1>2, <1>3, <1>4, <1>5

LEMMA FindAgreed ==
    ASSUME WorkTyped, NEW r \in Requests, getObject(r), Informed(req[r]), Agreed(req[r]), faults' = 0
    PROVE  \E n : Step(r, n) /\ Agreed(n)'
<1> DEFINE q == req[r]
<1>1. q \in Request /\ Fits(q, kind, issued) /\ ~Fault(r)
  BY Going
<1>2. /\ q.pc = "find" /\ q.o \in Objects
      /\ UNCHANGED <<kind, nameOf, clusterOf, groups, clusters, table, configs, holder, deployed,
                     configCache, cat>>
  BY <1>1 DEF getObject, At, fixed, places, stored, caches, kubernetes, Fits, AboutOne
<1>3. main[q.o] = "live" => q.o \in table
  BY <1>2 DEF Informed, Filed
<1>4. PICK n : Step(r, n) /\ (n = Idle \/ (q.o \in table /\ (n = AfterFind(q) \/ Moved(q, n, "fill"))))
  BY <1>1, <1>3, MovesOn DEF getObject, Goto
<1>5. CASE n = Idle
  <2>1. q.op \in {"get", "delete", "update", "restart"}
    BY <1>1, <1>2 DEF Fits, Path, Installing, Removing, Request, Ops
  <2>2. Succeeds(q, n)
    BY <1>2, <2>1 DEF Succeeds, Bare, Shifted, Leaves, Emptied, Cascade
  <2>3. Agreed(n)'
    BY <1>2, <1>5, <2>2, IdleKnows, QuietAgreed
  <2> QED BY <1>4, <2>3
<1>6. CASE q.o \in table /\ (n = AfterFind(q) \/ Moved(q, n, "fill"))
  <2>1. /\ Succeeds(q, n) /\ n.reach /\ KnowsObject(n) /\ KnowsCascade(n)
        /\ n.pc \in {"idle", "fill", "undeploy", "stop", "config"}
    BY <1>1, <1>2, <1>6, AfterFindKnows
  <2>2. PICK p : p = q
    OBVIOUS
  <2>3. Agreed(n)'
    BY <1>2, <2>1, <2>2, QuietAgreed
  <2> QED BY <1>4, <2>3
<1> QED BY <1>4, <1>5, <1>6

\* A listing that is right leads a creation to an object whose name is free, and a
\* cascade to all that it has to delete.
LEMMA AfterListKnows ==
    ASSUME WorkTyped, NEW q \in Request, Fits(q, kind, issued), Agreed(q), q.pc \in {"list", "listMark"},
           NEW S, S \subseteq table \cap Matching(q.key),
           Renewed(q.key) => table \cap Matching(q.key) \subseteq S,
           NEW n, n = AfterList(q, S)
    PROVE  /\ Succeeds(q, n) /\ n.reach /\ KnowsObject(n) /\ KnowsCascade(n)
           /\ n.pc \in {"idle", "put", "next"}
<1>1. /\ q.op \in {"list", "create", "deleteGroup", "deleteCluster"} /\ q.reach /\ KnowsObject(q)
      /\ KnowsCascade(q) /\ table \subseteq Objects
  BY DEF Fits, Path, Installing, Removing, Agreed, Request, Ops, WorkTyped, TypeOK
<1>2. CASE n = Idle /\ ~Cascade(q)
  BY <1>1, <1>2, IdleKnows DEF Succeeds, Bare, Shifted, Leaves, Emptied, Cascade
<1>3. CASE q.op = "create" /\ n # Idle
  <2>1. Creates(q)
    BY <1>1, <1>3 DEF KnowsObject
  <2>2. Moved(q, n, "put") /\ \A x \in S : nameOf[x] # nameOf[q.o]
    <3>1. n = [q EXCEPT !.pc = "put"] /\ \A x \in S : nameOf[x] # nameOf[q.o]
      BY <1>3 DEF AfterList, Cascade
    <3>2. Moved(q, [q EXCEPT !.pc = "put"], "put")
      BY MovesOn
    <3> QED BY <3>1, <3>2
  <2>3. Renewed(q.key)
    <3>1. q.key = <<"both", GroupOf[q.o], clusterOf[q.o]>>
      BY <2>1 DEF Creates
    <3> QED BY <3>1 DEF Renewed
  <2>4. ASSUME NEW x \in table, Slot(x) = Slot(q.o) PROVE FALSE
    <3>1. q.key = <<"both", GroupOf[x], clusterOf[x]>> /\ nameOf[x] = nameOf[q.o]
      BY <2>1, <2>4 DEF Creates, Slot
    <3>2. x \in Matching(q.key)
      BY <1>1, <3>1 DEF Matching, KeysOf
    <3> QED BY <2>2, <2>3, <3>1, <3>2
  <2>5. Creates(n)
    BY <2>1, <2>2, <2>4 DEF Creates, Moved, Removing
  <2>6. KnowsObject(n) /\ KnowsCascade(n) /\ n.reach /\ n.pc = "put"
    BY <1>1, <1>3, <2>2, <2>5 DEF KnowsObject, KnowsCascade, Cascade, Moved
  <2>7. Succeeds(q, n)
    BY <1>3 DEF Succeeds, Bare, Shifted, Leaves, Emptied, Cascade
  <2> QED BY <2>6, <2>7
<1>4. CASE Cascade(q)
  <2>1. PICK T : T = {o \in S : q.c = None \/ clusterOf[o] = q.c}
    OBVIOUS
  <2>2. n = [q EXCEPT !.pc = "next", !.todo = T]
    BY <1>4, <2>1 DEF AfterList, Cascade
  <2>3. /\ n.pc = "next" /\ n.todo = T /\ n.op = q.op /\ n.o = q.o /\ n.key = q.key /\ n.c = q.c
        /\ n.reach = q.reach
    BY <2>2 DEF Request
  <2>4. /\ q.op = "deleteGroup" => Scope(q) = Matching(q.key) /\ q.c = None /\ Renewed(q.key)
        /\ q.op = "deleteCluster" => /\ kind # "volume" => Renewed(q.key)
                                     /\ Scope(q) = {o \in Objects : clusterOf[o] = q.c} /\ q.c # None
                                     /\ Scope(q) \subseteq Matching(q.key)
    <3>1. CASE q.op = "deleteGroup"
      <4>1. q.c = None /\ \E g \in Groups : q.key = <<"group", g>>
        BY <1>1, <3>1 DEF KnowsCascade
      <4>2. Scope(q) = Matching(q.key) /\ Renewed(q.key)
        BY <3>1, <4>1 DEF Scope, Matching, Whole, KeysOf, Renewed
      <4> QED BY <3>1, <4>1, <4>2
    <3>2. CASE q.op = "deleteCluster"
      <4>1. q.c \in Clusters /\ q.key = IF kind = "instance" THEN Whole ELSE <<"cluster", q.c>>
        BY <1>1, <3>2 DEF KnowsCascade
      <4>2. q.c # None
        BY <4>1, WorkloadAssumption
      <4>3. kind # "volume" => Renewed(q.key)
        BY <4>1 DEF Renewed, Whole
      <4>4. Scope(q) = {o \in Objects : clusterOf[o] = q.c}
        BY <3>2 DEF Scope
      <4>5. Scope(q) \subseteq Matching(q.key)
        BY <4>1, <4>4 DEF Matching, Whole, KeysOf
      <4> QED BY <3>2, <4>2, <4>3, <4>4, <4>5
    <3> QED BY <1>4, <3>1, <3>2 DEF Cascade
  <2>5. T \subseteq table \cap Scope(q)
    BY <1>1, <1>4, <2>1, <2>4 DEF Cascade
  <2>6. kind # "volume" => \A o \in table \cap Scope(q) : o \in T
    BY <1>4, <2>1, <2>4 DEF Cascade
  <2>7. Scope(n) = Scope(q) /\ Cascade(n)
    BY <1>4, <2>3 DEF Scope, Cascade
  <2>8. KnowsCascade(n)
    <3>1. q.op = "deleteGroup" => kind # "volume" /\ \E g \in Groups : q.key = <<"group", g>> /\ g \notin groups
      BY <1>1 DEF KnowsCascade
    <3> QED BY <1>1, <2>3, <2>4, <2>5, <2>6, <2>7, <3>1 DEF KnowsCascade, Removing
  <2>9. KnowsObject(n)
    BY <1>4, <2>3 DEF KnowsObject, Removes, Cascade
  <2>10. Succeeds(q, n)
    BY <1>4, <2>3 DEF Succeeds, Bare, Shifted, Leaves, Emptied, Cascade
  <2> QED BY <1>1, <2>3, <2>8, <2>9, <2>10
<1>5. q.op = "list" => n = Idle /\ ~Cascade(q)
  BY DEF AfterList, Cascade
<1>6. q.op = "create" => ~Cascade(q)
  BY DEF Cascade
<1>7. q.op \in {"deleteGroup", "deleteCluster"} => Cascade(q)
  BY DEF Cascade
<1> QED BY <1>1, <1>2, <1>3, <1>4, <1>5, <1>6, <1>7

\* A listing that the caches answer is right.
LEMMA FromCacheRight ==
    ASSUME WorkTyped, NEW q \in Request, q.pc = "list", Informed(q), Agreed(q), faults = 0, Served(q.key)
    PROVE  /\ FromCache(q.key) \subseteq table \cap Matching(q.key)
           /\ Renewed(q.key) => table \cap Matching(q.key) \subseteq FromCache(q.key)
<1>1. Filed /\ Complete(q) /\ Lively(q) /\ \A o : ~Absent(q, o)
  BY DEF Informed, Agreed, Absent
<1>2. table \subseteq Objects /\ cat \in [Keys -> Category]
  BY DEF WorkTyped, TypeOK
<1>3. CASE q.key = Whole
  <2>1. Matching(q.key) = Objects /\ FromCache(q.key) = {o \in Objects : main[o] # "none"} /\ allValid
    BY <1>3 DEF Matching, FromCache, Served
  <2>2. \A o \in table : main[o] # "none"
    BY <1>1, <2>1 DEF Complete
  <2> QED BY <1>1, <1>2, <2>1, <2>2 DEF Filed
<1>4. CASE q.key # Whole
  <2>1. PICK k \in Keys : k = q.key
    BY <1>4 DEF Request
  <2>2. FromCache(k) = cat[k].live /\ cat[k].valid
    BY <1>4, <2>1 DEF FromCache, Served
  <2>3. cat[k].live \subseteq cat[k].known /\ cat[k].known \subseteq Objects
    BY <1>1, <1>2 DEF Lively, Category
  <2>4. FromCache(k) \subseteq table \cap Matching(k)
    BY <1>1, <2>2, <2>3 DEF Filed
  <2>5. ASSUME Renewed(k) PROVE table \cap Matching(k) \subseteq FromCache(k)
    <3>1. cat[k].known \subseteq cat[k].live
      BY <1>1, <2>2, <2>5 DEF Lively, Tight
    <3>2. table \cap Matching(k) \subseteq cat[k].known
      BY <1>1, <2>2, <2>5 DEF Complete, Renewed
    <3> QED BY <2>2, <3>1, <3>2
  <2> QED BY <2>1, <2>4, <2>5
<1> QED BY <1>3, <1>4

LEMMA ListAgreed ==
    ASSUME WorkTyped, NEW r \in Requests, listObjects(r), Informed(req[r]), Agreed(req[r]),
           faults = 0, faults' = 0
    PROVE  \E n : Step(r, n) /\ Agreed(n)'
<1> DEFINE q == req[r]
<1>1. q \in Request /\ Fits(q, kind, issued) /\ ~Fault(r)
  BY Going
<1>2. /\ q.pc = "list"
      /\ UNCHANGED <<kind, nameOf, clusterOf, groups, clusters, table, configs, holder, deployed,
                     configCache, cat>>
  BY DEF listObjects, At, fixed, places, stored, caches, kubernetes
<1>3. PICK p : p = q
  OBVIOUS
<1>4. CASE Step(r, [q EXCEPT !.pc = "listFill", !.todo = table \cap Matching(q.key)])
  <2>1. PICK n : n = [q EXCEPT !.pc = "listFill", !.todo = table \cap Matching(q.key)]
    OBVIOUS
  <2>2. /\ n.pc = "listFill" /\ n.op = q.op /\ n.o = q.o /\ n.key = q.key /\ n.c = q.c
        /\ n.reach = q.reach /\ n.config = q.config
    BY <1>1, <2>1 DEF Request
  <2>3. q.reach /\ KnowsObject(q) /\ KnowsCascade(q) /\ q.op \in {"list", "create", "deleteGroup", "deleteCluster"}
    BY <1>1, <1>2 DEF Agreed, Fits, Path, Installing, Removing, Request, Ops
  <2>4. Succeeds(q, n)
    BY <1>2, <2>2, <2>3 DEF Succeeds, Bare, Shifted, Leaves, Emptied, Cascade
  <2>5. q.op = "create" => Creates(n)
    BY <1>2, <2>2, <2>3 DEF KnowsObject, Creates, Removing
  <2>6. KnowsObject(n)
    BY <2>2, <2>3, <2>5 DEF KnowsObject, Removes
  <2>7. KnowsCascade(n)
    BY <1>2, <2>2, <2>3 DEF KnowsCascade, Cascade, Removing
  <2>8. Agreed(n)'
    BY <1>2, <1>3, <2>2, <2>3, <2>4, <2>6, <2>7, QuietAgreed
  <2> QED BY <1>4, <2>1, <2>8
<1>5. ASSUME NEW S, Step(r, AfterList(q, S)), S \subseteq table \cap Matching(q.key),
             Renewed(q.key) => table \cap Matching(q.key) \subseteq S
      PROVE  \E n : Step(r, n) /\ Agreed(n)'
  <2>1. PICK n : n = AfterList(q, S)
    OBVIOUS
  <2>2. /\ Succeeds(q, n) /\ n.reach /\ KnowsObject(n) /\ KnowsCascade(n)
        /\ n.pc \in {"idle", "put", "next"}
    BY <1>1, <1>2, <1>5, <2>1, AfterListKnows
  <2>3. Agreed(n)'
    BY <1>2, <1>3, <2>2, QuietAgreed
  <2> QED BY <1>5, <2>1, <2>3
<1>6. CASE Served(q.key) /\ Step(r, AfterList(q, FromCache(q.key)))
  BY <1>1, <1>2, <1>5, <1>6, FromCacheRight
<1>7. CASE table \cap Matching(q.key) = {} /\ Step(r, AfterList(q, {}))
  BY <1>5, <1>7
<1> QED BY <1>1, <1>4, <1>6, <1>7 DEF listObjects

\* The configuration that a restart deploys is the one that is stored.
LEMMA ConfigAgreed ==
    ASSUME WorkTyped, NEW r \in Requests, getConfig(r), Informed(req[r]), Agreed(req[r]), faults' = 0
    PROVE  \E n : Step(r, n) /\ Agreed(n)'
<1> DEFINE q == req[r]
<1>1. q \in Request /\ Fits(q, kind, issued) /\ ~Fault(r)
  BY Going
<1>2. /\ q.pc = "config" /\ q.op = "restart" /\ kind = "instance" /\ q.o \in Objects
      /\ UNCHANGED <<kind, nameOf, clusterOf, groups, clusters, table, configs, holder, deployed, cat>>
  BY <1>1 DEF getConfig, At, fixed, places, stored, listings, kubernetes, Fits, Path, Installing,
              Removing, Request, Ops, AboutOne
<1>3. /\ q.reach /\ SlotsAgree(q) /\ Restarts(q) /\ ConfigsAgree(q) /\ Lively(q)
      /\ configCache \in [Objects -> Versions \cup {None, Default}] /\ table \subseteq Objects
  BY <1>2 DEF Agreed, KnowsObject, WorkTyped, TypeOK
<1>4. configs[q.o] \in Versions /\ q.o \in table /\ None \notin Versions
  BY <1>2, <1>3, WorkloadAssumption DEF Restarts, ConfigsAgree, ConfigsOf
<1>5. /\ Step(r, [q EXCEPT !.pc = "stop", !.config = configs[q.o]])
      /\ configCache' = configCache \/ configCache' = [configCache EXCEPT ![q.o] = configs[q.o]]
  <2>1. CASE configCache[q.o] \in Versions /\ configCache' = configCache
             /\ Step(r, [q EXCEPT !.pc = "stop", !.config =
                                IF configCache[q.o] = None THEN Default ELSE configCache[q.o]])
    <3>1. configCache[q.o] = configs[q.o]
      BY <1>2, <1>3, <2>1 DEF ConfigsAgree
    <3> QED BY <1>4, <2>1, <3>1
  <2>2. CASE /\ Step(r, [q EXCEPT !.pc = "stop", !.config =
                                IF configs[q.o] = None THEN Default ELSE configs[q.o]])
             /\ configCache' = IF configs[q.o] = None THEN configCache
                               ELSE [configCache EXCEPT ![q.o] = configs[q.o]]
    BY <1>4, <2>2
  <2> QED BY <1>1, <2>1, <2>2 DEF getConfig
<1>6. PICK n : n = [q EXCEPT !.pc = "stop", !.config = configs[q.o]]
  OBVIOUS
<1>7. /\ n.pc = "stop" /\ n.op = "restart" /\ n.o = q.o /\ n.config = configs[q.o] /\ n.reach = q.reach
  BY <1>1, <1>2, <1>6 DEF Request
<1>8. KnowsObject(n) /\ KnowsCascade(n)
  BY <1>3, <1>4, <1>7 DEF KnowsObject, KnowsCascade, Cascade, Restarts, Removing
<1>9. KnowsObject(n)' /\ KnowsCascade(n)'
  BY <1>2, <1>8, KnownLasts
<1>10. SlotsAgree(n)'
  <2>1. Succeeds(q, n)
    BY <1>2 DEF Succeeds, Bare, Shifted, Leaves, Emptied, Cascade
  <2> QED BY <1>2, <1>3, <2>1, SlotsLast
<1>11. ConfigsAgree(n)'
  BY <1>2, <1>3, <1>4, <1>5, <1>7 DEF ConfigsAgree, ConfigsOf
<1>12. Lively(n)'
  BY <1>2, <1>3, <1>7, LivelyLasts
<1> QED BY <1>3, <1>5, <1>6, <1>7, <1>9, <1>10, <1>11, <1>12 DEF Agreed

\* The namespace is there, or the old instance is gone.
LEMMA PreparedAgreed ==
    ASSUME WorkTyped, NEW r \in Requests, createNamespace(r) \/ awaitStopped(r), Agreed(req[r]), faults' = 0
    PROVE  \E n : Step(r, n) /\ Agreed(n)'
<1> DEFINE q == req[r]
<1>1. q \in Request /\ Fits(q, kind, issued) /\ ~Fault(r)
  BY Going
<1>2. UNCHANGED <<kind, nameOf, clusterOf, groups, clusters, table, configs, holder, deployed,
                  configCache, cat>>
  BY DEF createNamespace, awaitStopped, fixed, places, stored, caches, kubernetes
<1>3. PICK n : Step(r, n) /\ ( \/ q.pc = "namespace" /\ Moved(q, n, "deploy")
                               \/ q.pc = "reinstall" /\ Moved(q, n, "namespace"))
  BY <1>1, MovesOn DEF createNamespace, awaitStopped, kubectl_create_namespace, Goto, At
<1>4. q.op \in {"create", "update", "restart"} /\ q.reach /\ KnowsObject(q)
      /\ (q.pc = "reinstall" => q.op # "create")
  BY <1>1, <1>3 DEF Fits, Path, Installing, Removing, Request, Ops, Agreed
<1>5. Succeeds(q, n)
  BY <1>3, <1>4 DEF Succeeds, Bare, Shifted, Leaves, Emptied, Cascade, Moved
<1>6. KnowsObject(n)
  <2>1. q.op = "create" => Creates(n)
    BY <1>3, <1>4 DEF KnowsObject, Creates, Moved, Removing
  <2>2. q.op = "update" => Updates(n)
    BY <1>3, <1>4 DEF KnowsObject, Updates, Moved, Shifted, Removing
  <2>3. q.op = "restart" => Restarts(n)
    BY <1>3, <1>4 DEF KnowsObject, Restarts, Moved, Removing
  <2> QED BY <1>3, <1>4, <2>1, <2>2, <2>3 DEF KnowsObject, Moved, Cascade
<1>7. KnowsCascade(n) /\ n.reach /\ n.pc \notin {"dbDelete", "putConfig", "listMark"} /\ q.pc # "putConfig"
  BY <1>3, <1>4 DEF KnowsCascade, Cascade, Moved
<1>8. PICK p : p = q
  OBVIOUS
<1>9. Agreed(n)'
  BY <1>2, <1>5, <1>6, <1>7, <1>8, QuietAgreed
<1> QED BY <1>3, <1>9

\* The deletions of a cascade.
LEMMA CascadeAgreed ==
    ASSUME WorkTyped, NEW r \in Requests, nextDeletion(r) \/ endDeletions(r) \/ pingCluster(r),
           Agreed(req[r]), faults' = 0
    PROVE  \E n : Step(r, n) /\ Agreed(n)'
<1> DEFINE q == req[r]
<1>1. q \in Request /\ Fits(q, kind, issued) /\ ~Fault(r)
  BY Going
<1>2. /\ q.pc \in {"next", "ping"}
      /\ UNCHANGED <<kind, nameOf, clusterOf, groups, clusters, table, configs, holder, deployed,
                     configCache, cat>>
  BY DEF nextDeletion, endDeletions, pingCluster, At, fixed, places, stored, caches, kubernetes
<1>3. q.op \in {"deleteGroup", "deleteCluster"} /\ q.reach /\ KnowsCascade(q) /\ table \subseteq Objects
  BY <1>1, <1>2 DEF Fits, Path, Installing, Removing, Request, Ops, Agreed, WorkTyped, TypeOK
<1>4. ASSUME NEW n, Step(r, n), n.op = q.op, n.key = q.key, n.reach, KnowsCascade(n), KnowsObject(n),
             n.pc \notin {"removeGroup", "dbDelete", "putConfig", "listMark"}
      PROVE  \E m : Step(r, m) /\ Agreed(m)'
  <2>1. PICK p : p = q
    OBVIOUS
  <2>2. Succeeds(q, n)
    BY <1>2, <1>3, <1>4 DEF Succeeds, Bare, Shifted, Leaves, Emptied, Cascade
  <2>3. Agreed(n)'
    BY <1>2, <1>4, <2>1, <2>2, QuietAgreed
  <2> QED BY <1>4, <2>3
<1>5. ASSUME nextDeletion(r) PROVE \E n : Step(r, n) /\ Agreed(n)'
  <2>1. PICK o \in q.todo :
              Step(r, [q EXCEPT !.o = o, !.todo = @ \ {o}, !.pc = "undeploy", !.then = "next"])
    BY <1>5 DEF nextDeletion
  <2>2. PICK n : n = [q EXCEPT !.o = o, !.todo = @ \ {o}, !.pc = "undeploy", !.then = "next"]
    OBVIOUS
  <2>3. /\ n.o = o /\ n.todo = q.todo \ {o} /\ n.pc = "undeploy" /\ n.then = "next" /\ n.op = q.op
        /\ n.key = q.key /\ n.c = q.c /\ n.reach = q.reach
    BY <1>1, <2>2 DEF Request
  <2>4. Cascade(q) /\ Cascade(n) /\ Scope(n) = Scope(q) /\ q.pc = "next"
    BY <1>3, <1>5, <2>3 DEF Scope, Cascade, nextDeletion, At
  <2>5. /\ q.todo \subseteq table \cap Scope(q)
        /\ kind # "volume" => \A x \in table \cap Scope(q) : x \in q.todo
    BY <1>3, <2>4 DEF KnowsCascade
  <2>6. KnowsCascade(n)
    BY <1>3, <2>1, <2>3, <2>4, <2>5 DEF KnowsCascade, Removing
  <2>7. KnowsObject(n)
    BY <1>3, <2>1, <2>3, <2>5 DEF KnowsObject, Removes
  <2> QED BY <1>3, <1>4, <2>1, <2>2, <2>3, <2>6, <2>7
<1>6. ASSUME NEW n, Step(r, n), Moved(q, n, "namespaces") \/ Moved(q, n, "ping") \/ Moved(q, n, "list"),
             n.pc \in {"ping", "list"} => q.op = "deleteCluster",
             n.pc = "ping" => kind = "instance",
             n.pc = "namespaces" \/ n.pc = "ping" => kind = "volume" \/ table \cap Scope(q) = {}
      PROVE  \E m : Step(r, m) /\ Agreed(m)'
  <2>1. Scope(n) = Scope(q) /\ Cascade(n) /\ n.op = q.op /\ n.key = q.key /\ n.reach
    BY <1>3, <1>6 DEF Scope, Moved, Cascade
  <2>2. KnowsCascade(n)
    BY <1>2, <1>3, <1>6, <2>1 DEF KnowsCascade, Moved, Removing
  <2>3. KnowsObject(n)
    BY <1>3, <1>6, <2>1 DEF KnowsObject, Removes, Moved
  <2>4. n.pc \notin {"removeGroup", "dbDelete", "putConfig", "listMark"}
    BY <1>6 DEF Moved
  <2> QED BY <1>4, <1>6, <2>1, <2>2, <2>3, <2>4
<1>7. \A pc : Moved(q, [q EXCEPT !.pc = pc], pc)
  BY <1>1, MovesOn
<1>8. ASSUME endDeletions(r) PROVE \E n : Step(r, n) /\ Agreed(n)'
  <2>1. Cascade(q) /\ q.pc = "next" /\ q.todo = {}
    BY <1>3, <1>8 DEF Cascade, endDeletions, At
  <2>2. kind = "volume" \/ table \cap Scope(q) = {}
    BY <1>3, <2>1 DEF KnowsCascade
  <2>3. \/ Step(r, [q EXCEPT !.pc = "namespaces"])
        \/ Step(r, [q EXCEPT !.pc = "ping"]) /\ q.op = "deleteCluster" /\ kind = "instance"
        \/ Step(r, Idle) /\ q.op = "deleteCluster"
    BY <1>8 DEF endDeletions
  <2>4. CASE Step(r, Idle) /\ q.op = "deleteCluster"
    <3>1. PICK p : p = q
      OBVIOUS
    <3>2. Succeeds(q, Idle)
      BY <2>1, <2>4 DEF Succeeds, Bare, Shifted, Leaves, Emptied, Cascade
    <3>3. Agreed(Idle)'
      BY <1>2, <2>1, <3>1, <3>2, IdleKnows, QuietAgreed
    <3> QED BY <2>4, <3>3
  <2>5. CASE Step(r, [q EXCEPT !.pc = "namespaces"])
    <3>1. PICK n : n = [q EXCEPT !.pc = "namespaces"]
      OBVIOUS
    <3>2. Step(r, n) /\ Moved(q, n, "namespaces") /\ n.pc = "namespaces"
      BY <1>7, <2>5, <3>1 DEF Moved
    <3> QED BY <1>6, <2>2, <3>2
  <2>6. CASE Step(r, [q EXCEPT !.pc = "ping"]) /\ q.op = "deleteCluster" /\ kind = "instance"
    <3>1. PICK n : n = [q EXCEPT !.pc = "ping"]
      OBVIOUS
    <3>2. Step(r, n) /\ Moved(q, n, "ping") /\ n.pc = "ping"
      BY <1>7, <2>6, <3>1 DEF Moved
    <3> QED BY <1>6, <2>2, <2>6, <3>2
  <2> QED BY <2>3, <2>4, <2>5, <2>6
<1>9. ASSUME pingCluster(r) PROVE \E n : Step(r, n) /\ Agreed(n)'
  <2>1. Cascade(q) /\ q.pc = "ping" /\ q.op = "deleteCluster"
    BY <1>3, <1>9 DEF Cascade, pingCluster, At, KnowsCascade
  <2>2. kind = "instance" => table \cap Scope(q) = {}
    BY <1>3, <2>1 DEF KnowsCascade
  <2>3. Step(r, [q EXCEPT !.pc = IF kind = "instance" THEN "namespaces" ELSE "list"])
    BY <1>1, <1>9 DEF pingCluster, Goto
  <2>4. PICK pc : pc = IF kind = "instance" THEN "namespaces" ELSE "list"
    OBVIOUS
  <2>5. PICK n : n = [q EXCEPT !.pc = pc]
    OBVIOUS
  <2>6. Step(r, n) /\ Moved(q, n, pc) /\ n.pc = pc
    BY <1>7, <2>3, <2>4, <2>5 DEF Moved
  <2>7. CASE kind = "instance"
    BY <1>6, <2>2, <2>4, <2>6, <2>7
  <2>8. CASE kind # "instance"
    BY <1>6, <2>1, <2>4, <2>6, <2>8
  <2> QED BY <2>7, <2>8
<1> QED BY <1>5, <1>8, <1>9

(***************************************************************************)
(* The steps that deploy and take down                                     *)
(***************************************************************************)
\* What has to be shown of the state after a step.
LEMMA SlotsAfter ==
    ASSUME NEW n, UNCHANGED <<kind, nameOf, clusterOf>>,
           \A k \in running' :
               /\ k[1] \in clusters'
               /\ k[2] \in groups' \/ Leaves(n, k[2])
               /\ \/ \E o \in table' : Slot(o) = k
                  \/ Shifted(n, n.o) /\ Slot(n.o) = k
                  \/ Leaves(n, k[2]),
           \A o, p \in table' : Slot(o) = Slot(p) => o = p,
           \A o \in table' : GroupOf[o] \in groups' /\ clusterOf[o] \in clusters' =>
               \/ Slot(o) \in running' /\ deployed'[Slot(o)] = configs'[o]
               \/ Bare(n, o) \/ Shifted(n, o) \/ Emptied(n, clusterOf[o]),
           kind # "volume" => \A o \in table' :
               (GroupOf[o] \in groups' /\ clusterOf[o] \in clusters') \/ Leaves(n, GroupOf[o])
    PROVE  SlotsAgree(n)'
<1>1. \A o : Slot(o)' = Slot(o)
  BY DEF Slot
<1>2. \A o : Addressable(o)' <=> GroupOf[o] \in groups' /\ clusterOf[o] \in clusters'
  BY DEF Addressable
<1> QED BY <1>1, <1>2 DEF SlotsAgree, Bare, Shifted, Leaves, Emptied

\* What the cascades know, where only what runs has changed.
LEMMA CascadeLasts ==
    ASSUME NEW n, KnowsCascade(n), n.pc # "removeCluster", UNCHANGED <<kind, clusterOf, groups, table>>
    PROVE  KnowsCascade(n)'
<1>1. Scope(n)' = Scope(n)
  BY DEF Scope
<1> QED BY <1>1 DEF KnowsCascade, Cascade

\* The configurations and the categories are what they were.
LEMMA RunningAgreed ==
    ASSUME NEW q, NEW n, Agreed(q), n.reach, SlotsAgree(n)', KnowsObject(n)', KnowsCascade(n)',
           q.pc # "putConfig", n.pc \notin {"dbDelete", "putConfig", "listMark"},
           UNCHANGED <<kind, table, configs, configCache, cat>>
    PROVE  Agreed(n)'
BY ConfigsLast, LivelyLasts DEF Agreed

LEMMA DeployAgreed ==
    ASSUME WorkTyped, NEW r \in Requests, deploy(r), Agreed(req[r]), faults' = 0
    PROVE  \E n : Step(r, n) /\ Agreed(n)'
<1> DEFINE q == req[r]
<1>1. q \in Request /\ Fits(q, kind, issued) /\ ~Fault(r)
  BY Going
<1>2. /\ q.pc = "deploy" /\ q.op \in {"create", "update", "restart"}
      /\ UNCHANGED <<kind, nameOf, clusterOf, groups, clusters, table, configs, configCache, cat>>
  BY <1>1 DEF deploy, At, fixed, places, stored, caches, Fits, Path, Installing, Removing, Request, Ops
<1>3. /\ q.reach /\ SlotsAgree(q) /\ KnowsObject(q) /\ q.o \in table /\ Slot(q.o) \notin running
      /\ Addressable(q.o) /\ (q.op # "update" => configs[q.o] = q.config)
  BY <1>2 DEF Agreed, KnowsObject, Creates, Updates, Restarts
<1>4. PICK o \in Objects : o = q.o
  BY <1>3 DEF WorkTyped, TypeOK
<1>5. runAs(Slot(o), o, q.config) /\ Step(r, Deployed(q))
  BY <1>1, <1>3, <1>4 DEF deploy
<1>6. /\ Slot(o) \in Slots /\ running' = running \cup {Slot(o)}
      /\ deployed'[Slot(o)] = q.config /\ \A l \in Slots : l # Slot(o) => deployed'[l] = deployed[l]
  BY <1>4, <1>5, RunsAs, SlotTyped
<1>7. PICK n : /\ Step(r, n) /\ n.reach
               /\ \/ n = Idle /\ q.op # "update"
                  \/ /\ q.op = "update" /\ n.op = "update" /\ n.pc = "uncache" /\ n.then = "put" /\ n.o = o
                     /\ n.config = q.config
  <2>1. CASE q.op = "update"
    <3>1. PICK n : n = [q EXCEPT !.pc = "uncache", !.then = "put"]
      OBVIOUS
    <3>2. n.pc = "uncache" /\ n.then = "put" /\ n.o = o /\ n.config = q.config /\ n.reach /\ n.op = "update"
      BY <1>1, <1>3, <1>4, <2>1, <3>1 DEF Request
    <3>3. Step(r, n)
      BY <1>5, <2>1, <3>1 DEF Deployed
    <3> QED BY <2>1, <3>2, <3>3
  <2>2. CASE q.op # "update"
    BY <1>5, <2>2, IdleKnows DEF Deployed
  <2> QED BY <2>1, <2>2
<1>8. /\ \A x : ~Shifted(q, x) /\ ~Emptied(q, x) /\ ~Leaves(q, x) /\ (Bare(q, x) => x = o)
      /\ n.op = "update" => Shifted(n, o)
  BY <1>2, <1>4, <1>7, IdleKnows DEF Shifted, Emptied, Leaves, Bare, Cascade
<1>9. SlotsAgree(n)'
  <2>1. ASSUME NEW k \in running'
        PROVE  k[1] \in clusters /\ k[2] \in groups /\ \E x \in table : Slot(x) = k
    <3>1. CASE k = Slot(o)
      BY <1>3, <1>4, <3>1 DEF Addressable, Slot
    <3>2. CASE k \in running
      BY <1>3, <1>8, <3>2 DEF SlotsAgree
    <3> QED BY <1>6, <2>1, <3>1, <3>2
  <2>2. ASSUME NEW x \in table, GroupOf[x] \in groups, clusterOf[x] \in clusters
        PROVE  (Slot(x) \in running' /\ deployed'[Slot(x)] = configs[x]) \/ Shifted(n, x)
    <3>1. CASE x = o
      BY <1>3, <1>4, <1>6, <1>7, <1>8, <3>1
    <3>2. CASE x # o
      <4>1. Slot(x) # Slot(o) /\ Slot(x) \in running /\ deployed[Slot(x)] = configs[x]
        BY <1>3, <1>4, <1>8, <2>2, <3>2 DEF SlotsAgree, Addressable
      <4>2. Slot(x) \in Slots
        BY <4>1 DEF running
      <4> QED BY <1>6, <4>1, <4>2
    <3> QED BY <3>1, <3>2
  <2>3. \A x, p \in table : Slot(x) = Slot(p) => x = p
    BY <1>3 DEF SlotsAgree
  <2>4. kind # "volume" => \A x \in table : GroupOf[x] \in groups /\ clusterOf[x] \in clusters
    BY <1>3, <1>8 DEF SlotsAgree, Addressable
  <2> QED BY <1>2, <2>1, <2>2, <2>3, <2>4, SlotsAfter
<1>10. KnowsObject(n)' /\ KnowsCascade(n)'
  <2>1. CASE n = Idle
    BY <2>1, IdleKnows
  <2>2. CASE n.op = "update"
    <3>1. Updates(q)
      BY <1>7, <2>2, IdleKnows, <1>3 DEF KnowsObject
    <3>2. Slot(o)' = Slot(o) /\ Addressable(o)'
      BY <1>2, <1>3, <1>4 DEF Slot, Addressable
    <3>3. Updates(n)'
      BY <1>2, <1>3, <1>4, <1>6, <1>7, <2>2, <3>1, <3>2, IdleKnows DEF Updates, Shifted, Removing
    <3> QED BY <2>2, <3>3 DEF KnowsObject, KnowsCascade, Cascade
  <2> QED BY <1>7, <2>1, <2>2
<1>11. n.pc \notin {"dbDelete", "putConfig", "listMark"}
  BY <1>7, IdleKnows
<1>12. PICK p : p = q
  OBVIOUS
<1>13. Agreed(n)'
  BY <1>2, <1>7, <1>9, <1>10, <1>11, <1>12, RunningAgreed
<1> QED BY <1>7, <1>13

\* What is taken down at a place of its own (stopInstance, undeploy).
LEMMA TakenDownAgrees ==
    ASSUME WorkTyped, NEW q, SlotsAgree(q), q.o \in table, takeDown({Slot(q.o)}),
           UNCHANGED <<kind, nameOf, clusterOf, groups, clusters, table, configs, deployed>>,
           NEW n, Succeeds(q, n), Bare(n, q.o)
    PROVE  SlotsAgree(n)' /\ Slot(q.o) \notin running'
<1>1. running' = running \ {Slot(q.o)}
  BY TakenDown
<1>2. ASSUME NEW k \in running'
      PROVE  /\ k[1] \in clusters
             /\ k[2] \in groups \/ Leaves(n, k[2])
             /\ \/ \E o \in table : Slot(o) = k
                \/ Shifted(n, n.o) /\ Slot(n.o) = k
                \/ Leaves(n, k[2])
  BY <1>1 DEF SlotsAgree, Succeeds, Shifted
<1>3. \A o, p \in table : Slot(o) = Slot(p) => o = p
  BY DEF SlotsAgree
<1>4. ASSUME NEW o \in table, GroupOf[o] \in groups, clusterOf[o] \in clusters
      PROVE  \/ Slot(o) \in running' /\ deployed'[Slot(o)] = configs[o]
             \/ Bare(n, o) \/ Shifted(n, o) \/ Emptied(n, clusterOf[o])
  <2>1. CASE o = q.o
    BY <2>1
  <2>2. CASE o # q.o
    BY <1>1, <1>3, <1>4, <2>2 DEF SlotsAgree, Succeeds, Addressable
  <2> QED BY <2>1, <2>2
<1>5. kind # "volume" => \A o \in table :
          (GroupOf[o] \in groups /\ clusterOf[o] \in clusters) \/ Leaves(n, GroupOf[o])
  BY DEF SlotsAgree, Succeeds, Addressable
<1>6. SlotsAgree(n)'
  BY <1>2, <1>3, <1>4, <1>5, SlotsAfter
<1> QED BY <1>1, <1>6

LEMMA StopAgreed ==
    ASSUME WorkTyped, NEW r \in Requests, stopInstance(r), Agreed(req[r]), faults' = 0
    PROVE  \E n : Step(r, n) /\ Agreed(n)'
<1> DEFINE q == req[r]
<1>1. q \in Request /\ Fits(q, kind, issued) /\ ~Fault(r)
  BY Going
<1>2. /\ q.pc = "stop" /\ q.op \in {"update", "restart"} /\ takeDown({Slot(q.o)})
      /\ UNCHANGED <<kind, nameOf, clusterOf, groups, clusters, table, configs, deployed, configCache, cat>>
  BY <1>1 DEF stopInstance, At, fixed, places, stored, caches, Fits, Path, Installing, Removing,
              Request, Ops
<1>3. PICK n : Step(r, n) /\ Moved(q, n, "reinstall")
  BY <1>1, MovesOn DEF stopInstance, Goto
<1>4. q.reach /\ SlotsAgree(q) /\ KnowsObject(q) /\ q.o \in table
  BY <1>2 DEF Agreed, KnowsObject, Updates, Restarts
<1>5. Succeeds(q, n) /\ Bare(n, q.o)
  BY <1>2, <1>3 DEF Succeeds, Bare, Shifted, Leaves, Emptied, Cascade, Moved
<1>6. PICK p : p = q
  OBVIOUS
<1>7. SlotsAgree(n)' /\ Slot(p.o) \notin running'
  BY <1>2, <1>4, <1>5, <1>6, TakenDownAgrees
<1>8. /\ n.o = p.o /\ Slot(n.o)' = Slot(p.o) /\ (Addressable(p.o) => Addressable(n.o)')
  BY <1>2, <1>3, <1>6 DEF Slot, Addressable, Moved
<1>9. KnowsObject(n)' /\ KnowsCascade(n)'
  <2>1. q.op = "update" => Updates(n)'
    BY <1>2, <1>3, <1>4, <1>6, <1>7, <1>8 DEF KnowsObject, Updates, Moved, Shifted, Removing
  <2>2. q.op = "restart" => Restarts(n)'
    BY <1>2, <1>3, <1>4, <1>6, <1>7, <1>8 DEF KnowsObject, Restarts, Moved, Removing
  <2> QED BY <1>2, <1>3, <2>1, <2>2 DEF KnowsObject, KnowsCascade, Cascade, Moved
<1>10. n.reach /\ n.pc = "reinstall"
  BY <1>3, <1>4 DEF Moved
<1>11. Agreed(n)'
  BY <1>2, <1>6, <1>7, <1>9, <1>10, RunningAgreed
<1> QED BY <1>3, <1>11

LEMMA NoCleanup ==
    ASSUME WorkTyped, NEW r \in Requests, cleanup(r), Agreed(req[r]), faults' = 0 PROVE FALSE
<1> DEFINE q == req[r]
<1>1. Fits(q, kind, issued) /\ q.pc = "cleanup"
  BY Going DEF cleanup, At
<1>2. q.op \in {"create", "update", "restart"}
  BY <1>1 DEF Fits, Path, Installing, Removing, Request, Ops
<1> QED BY <1>1, <1>2 DEF Agreed, KnowsObject, Creates, Updates, Restarts

\* A deletion that gives up ends; only the volumes' cascades go on after one.
LEMMA KeptIs ==
    ASSUME NEW q \in Request, q.op \in {"delete", "deleteGroup", "deleteCluster"},
           ~Forced(q) \/ kind = "volume",
           NEW n, n = Kept(q)
    PROVE  \/ n = Idle /\ q.op # "deleteGroup"
           \/ /\ kind = "volume" /\ Cascade(q) /\ n.pc = "next" /\ n.op = q.op /\ n.key = q.key /\ n.c = q.c
              /\ n.todo = q.todo /\ n.reach = q.reach /\ n.o = q.o
<1>1. \/ n = Idle /\ q.op # "deleteGroup"
      \/ n = [q EXCEPT !.pc = "next", !.bad = TRUE] /\ q.op # "delete"
         /\ ~(q.op = "deleteCluster" /\ kind = "instance" /\ ~q.force)
  BY DEF Kept
<1>2. CASE n = [q EXCEPT !.pc = "next", !.bad = TRUE] /\ q.op # "delete"
           /\ ~(q.op = "deleteCluster" /\ kind = "instance" /\ ~q.force)
  <2>1. Cascade(q) /\ kind = "volume"
    BY <1>2 DEF Cascade, Forced
  <2>2. n.pc = "next" /\ n.op = q.op /\ n.key = q.key /\ n.c = q.c /\ n.todo = q.todo /\ n.reach = q.reach
        /\ n.o = q.o
    BY <1>2 DEF Request
  <2> QED BY <2>1, <2>2
<1> QED BY <1>1, <1>2

LEMMA UndeployAgreed ==
    ASSUME WorkTyped, NEW r \in Requests, undeploy(r), Agreed(req[r]), faults' = 0
    PROVE  \E n : Step(r, n) /\ Agreed(n)'
<1> DEFINE q == req[r]
           there == Addressable(q.o) /\ Slot(q.o) \in running
<1>1. q \in Request /\ Fits(q, kind, issued) /\ ~Fault(r)
  BY Going
<1>2. /\ q.pc = "undeploy" /\ q.op \in {"delete", "deleteGroup", "deleteCluster"}
      /\ UNCHANGED <<kind, nameOf, clusterOf, groups, clusters, table, configs, deployed, configCache, cat>>
  BY <1>1 DEF undeploy, At, fixed, places, stored, caches, Fits, Path, Installing, Removing, Request, Ops
<1>3. /\ q.reach /\ SlotsAgree(q) /\ Removes(q) /\ KnowsCascade(q) /\ q.o \in table
  BY <1>2 DEF Agreed, KnowsObject, Removes, Cascade
<1>4. PICK p : p = q
  OBVIOUS
<1>5. \/ takeDown({Slot(q.o)}) /\ Step(r, [q EXCEPT !.pc = "uncache"])
      \/ ~there /\ Step(r, [q EXCEPT !.pc = "uncache"]) /\ holder' = holder
      \/ (~Forced(q) \/ kind = "volume") /\ Step(r, Kept(q)) /\ holder' = holder
  BY <1>1, <1>3 DEF undeploy, Undeployed
<1>6. ASSUME NEW n, Moved(q, n, "uncache")
      PROVE  Succeeds(q, n) /\ Bare(n, q.o) /\ KnowsCascade(n) /\ n.pc = "uncache" /\ n.reach
             /\ n.o = q.o /\ (n.op = "delete" \/ Cascade(n)) /\ n.op \notin {"create", "update", "restart"}
  <2>1. Succeeds(q, n) /\ Bare(n, q.o)
    BY <1>2, <1>6 DEF Succeeds, Bare, Shifted, Leaves, Emptied, Cascade, Moved
  <2>2. Scope(n) = Scope(q) /\ (Cascade(n) <=> Cascade(q))
    BY <1>6 DEF Scope, Moved, Cascade
  <2>3. KnowsCascade(n)
    BY <1>2, <1>3, <1>6, <2>2 DEF KnowsCascade, Moved, Removing
  <2> QED BY <1>2, <1>3, <1>6, <2>1, <2>3 DEF Moved, Cascade
<1>7. CASE takeDown({Slot(q.o)}) /\ Step(r, [q EXCEPT !.pc = "uncache"])
  <2>1. PICK n : n = [q EXCEPT !.pc = "uncache"]
    OBVIOUS
  <2>2. Moved(q, n, "uncache")
    BY <1>1, <2>1, MovesOn
  <2>3. SlotsAgree(n)' /\ Slot(p.o) \notin running'
    BY <1>2, <1>3, <1>4, <1>6, <1>7, <2>2, TakenDownAgrees
  <2>4. n.o = p.o /\ Slot(n.o)' = Slot(p.o)
    BY <1>2, <1>4, <1>6, <2>2 DEF Slot
  <2>5. Removes(n)'
    BY <1>2, <1>3, <1>4, <1>6, <2>2, <2>3, <2>4 DEF Removes
  <2>6. KnowsObject(n)' /\ KnowsCascade(n)'
    BY <1>2, <1>6, <2>2, <2>5, CascadeLasts DEF KnowsObject
  <2>7. Agreed(n)'
    BY <1>2, <1>4, <1>6, <2>2, <2>3, <2>6, RunningAgreed
  <2> QED BY <1>7, <2>1, <2>7
<1>8. CASE ~there /\ Step(r, [q EXCEPT !.pc = "uncache"]) /\ holder' = holder
  <2>1. PICK n : n = [q EXCEPT !.pc = "uncache"]
    OBVIOUS
  <2>2. Moved(q, n, "uncache")
    BY <1>1, <2>1, MovesOn
  <2>3. Slot(q.o) \notin running \/ Leaves(q, GroupOf[q.o])
    <3>1. CASE Slot(q.o) \in running
      <4>1. Slot(q.o)[1] = clusterOf[q.o] /\ Slot(q.o)[2] = GroupOf[q.o]
        BY DEF Slot
      <4>2. clusterOf[q.o] \in clusters /\ (GroupOf[q.o] \in groups \/ Leaves(q, GroupOf[q.o]))
        BY <1>3, <3>1, <4>1 DEF SlotsAgree
      <4> QED BY <1>8, <3>1, <4>2 DEF Addressable
    <3> QED BY <3>1
  <2>4. Removes(n)
    BY <1>3, <1>6, <2>2, <2>3 DEF Removes, Succeeds
  <2>5. KnowsObject(n)
    BY <1>6, <2>2, <2>4 DEF KnowsObject
  <2>6. Agreed(n)'
    BY <1>2, <1>4, <1>6, <1>8, <2>2, <2>5, QuietAgreed
  <2> QED BY <1>8, <2>1, <2>6
<1>9. CASE (~Forced(q) \/ kind = "volume") /\ Step(r, Kept(q)) /\ holder' = holder
  <2>1. PICK n : n = Kept(q)
    OBVIOUS
  <2>2. CASE n = Idle /\ q.op # "deleteGroup"
    <3>1. Succeeds(q, n)
      BY <1>2, <2>2 DEF Succeeds, Bare, Shifted, Leaves, Emptied, Cascade
    <3>2. Agreed(n)'
      BY <1>2, <1>4, <1>9, <2>2, <3>1, IdleKnows, QuietAgreed
    <3> QED BY <1>9, <2>1, <3>2
  <2>3. CASE kind = "volume" /\ Cascade(q) /\ n.pc = "next" /\ n.op = q.op /\ n.key = q.key /\ n.c = q.c
             /\ n.todo = q.todo /\ n.reach = q.reach /\ n.o = q.o
    <3>1. Succeeds(q, n)
      BY <1>2, <2>3 DEF Succeeds, Bare, Shifted, Leaves, Emptied, Cascade
    <3>2. Scope(n) = Scope(q) /\ Cascade(n)
      BY <2>3 DEF Scope, Cascade
    <3>3. KnowsCascade(n)
      BY <1>2, <1>3, <2>3, <3>2 DEF KnowsCascade, Removing
    <3>4. KnowsObject(n)
      BY <1>2, <2>3 DEF KnowsObject, Removes
    <3>5. Agreed(n)'
      BY <1>2, <1>3, <1>4, <1>9, <2>3, <3>1, <3>3, <3>4, QuietAgreed
    <3> QED BY <1>9, <2>1, <3>5
  <2> QED BY <1>1, <1>2, <1>9, <2>1, <2>2, <2>3, KeptIs
<1> QED BY <1>5, <1>7, <1>8, <1>9

(***************************************************************************)
(* The ends of the cascades                                                *)
(***************************************************************************)
\* The deletion of the next cluster starts afresh.
LEMMA NextOwnedKnows ==
    ASSUME UNCHANGED kind, NEW owned, owned \subseteq Clusters, NEW n \in NextOwned(owned)
    PROVE  n.reach /\ n.pc \in {"idle", "list", "ping"} /\ KnowsObject(n)' /\ KnowsCascade(n)'
<1>1. CASE n = Idle
  BY <1>1, IdleKnows
<1>2. CASE n # Idle
  <2>1. PICK c \in owned : n = ClusterCascade(c, TRUE, owned \ {c})
    BY <1>2 DEF NextOwned
  <2>2. /\ n.op = "deleteCluster" /\ n.pc = IF kind = "instance" THEN "list" ELSE "ping"
        /\ n.key = (IF kind = "instance" THEN Whole ELSE <<"cluster", c>>) /\ n.c = c /\ n.reach
    BY <2>1 DEF ClusterCascade, Idle
  <2>3. KnowsObject(n)'
    BY <2>2 DEF KnowsObject, Removes, Leaves
  <2>4. KnowsCascade(n)'
    BY <2>2 DEF KnowsCascade, Cascade, Removing
  <2> QED BY <2>2, <2>3, <2>4
<1> QED BY <1>1, <1>2

LEMMA NamespacesAgreed ==
    ASSUME WorkTyped, NEW r \in Requests, deleteNamespaces(r), Agreed(req[r]), faults' = 0
    PROVE  \E n : Step(r, n) /\ Agreed(n)'
<1> DEFINE q == req[r]
<1>1. q \in Request /\ Fits(q, kind, issued) /\ ~Fault(r)
  BY Going
<1>2. /\ q.pc = "namespaces" /\ q.op \in {"deleteGroup", "deleteCluster"}
      /\ UNCHANGED <<kind, nameOf, clusterOf, groups, clusters, table, configs, deployed, configCache, cat>>
  BY <1>1 DEF deleteNamespaces, At, fixed, places, stored, caches, Fits, Path, Installing, Removing,
              Request, Ops
<1>3. /\ q.reach /\ SlotsAgree(q) /\ KnowsCascade(q) /\ table \subseteq Objects /\ clusters \subseteq Clusters
      /\ (kind # "volume" => table \cap Scope(q) = {})
  BY <1>2 DEF Agreed, KnowsCascade, Cascade, WorkTyped, TypeOK
<1>4. PICK n : Step(r, n) /\ n \in NextCascade(q)
  BY DEF deleteNamespaces
<1>5. running' = running \ Doomed(q)
  BY <1>1, <1>3, TakenDown DEF deleteNamespaces, kubectl_delete_namespace
<1>6. \A o : ~Bare(q, o) /\ ~Shifted(q, o) /\ \A c : ~Emptied(q, c)
  BY <1>2 DEF Bare, Shifted, Emptied
<1>7. PICK p : p = q
  OBVIOUS
<1>8. CASE q.op = "deleteGroup"
  <2>1. PICK g \in Groups : q.key = <<"group", g>> /\ g \notin groups
    BY <1>2, <1>3, <1>8 DEF KnowsCascade
  <2>2. Doomed(q) = {k \in Slots : k[1] \in clusters /\ k[2] = g} /\ (\A h : Leaves(q, h) <=> h = g)
    BY <1>2, <1>8, <2>1 DEF Doomed, Leaves
  <2>3. n \in NextOwned({c \in clusters : Owner[c] = g})
    BY <1>4, <1>8, <2>1 DEF NextCascade
  <2>4. n.reach /\ n.pc \in {"idle", "list", "ping"} /\ KnowsObject(n)' /\ KnowsCascade(n)'
    BY <1>2, <1>3, <2>3, NextOwnedKnows
  <2>5. SlotsAgree(n)'
    <3>1. ASSUME NEW k \in running'
          PROVE  k[1] \in clusters /\ k[2] \in groups /\ \E o \in table : Slot(o) = k
      <4>1. k \in running /\ k[1] \in clusters /\ k \in Slots
        BY <1>3, <1>5 DEF SlotsAgree, running
      <4>2. k[2] # g
        BY <1>5, <2>2, <4>1
      <4> QED BY <1>3, <1>6, <2>2, <4>1, <4>2 DEF SlotsAgree
    <3>2. \A x, y \in table : Slot(x) = Slot(y) => x = y
      BY <1>3 DEF SlotsAgree
    <3>3. ASSUME NEW o \in table, GroupOf[o] \in groups, clusterOf[o] \in clusters
          PROVE  Slot(o) \in running' /\ deployed[Slot(o)] = configs[o]
      <4>1. Slot(o) \in running /\ deployed[Slot(o)] = configs[o]
        BY <1>3, <1>6, <3>3 DEF SlotsAgree, Addressable
      <4>2. Slot(o)[2] # g
        BY <2>1, <3>3 DEF Slot
      <4> QED BY <1>5, <2>2, <4>1, <4>2
    <3>4. ASSUME kind # "volume", NEW o \in table PROVE GroupOf[o] \in groups /\ clusterOf[o] \in clusters
      <4>1. GroupOf[o] # g
        BY <1>3, <1>8, <2>1, <3>4 DEF Scope
      <4> QED BY <1>3, <2>2, <3>4, <4>1 DEF SlotsAgree, Addressable
    <3> QED BY <1>2, <3>1, <3>2, <3>3, <3>4, SlotsAfter
  <2>6. Agreed(n)'
    BY <1>2, <1>7, <2>4, <2>5, RunningAgreed
  <2> QED BY <1>4, <2>6
<1>9. CASE q.op = "deleteCluster"
  <2>1. PICK c \in Clusters : c = q.c
    BY <1>3, <1>9 DEF KnowsCascade
  <2>2. Doomed(q) = {k \in Slots : k[1] = c /\ k[2] \in groups} /\ (\A h : ~Leaves(q, h))
    BY <1>9, <2>1 DEF Doomed, Leaves
  <2>3. n = [q EXCEPT !.pc = "removeCluster"]
    BY <1>4, <1>9 DEF NextCascade
  <2>4. Moved(q, n, "removeCluster")
    BY <1>1, <2>3, MovesOn
  <2>5. n.reach /\ n.pc = "removeCluster" /\ n.op = "deleteCluster" /\ n.c = c /\ Emptied(n, c) /\ n.key = q.key
    BY <1>3, <1>9, <2>1, <2>4 DEF Moved, Emptied
  <2>6. ASSUME NEW k \in running'
        PROVE  /\ k \in running /\ k[1] # c /\ k[1] \in clusters /\ k[2] \in groups
               /\ \E o \in table : Slot(o) = k
    <3>1. k \in running /\ k[1] \in clusters /\ k[2] \in groups /\ k \in Slots /\ \E o \in table : Slot(o) = k
      BY <1>3, <1>5, <1>6, <2>2 DEF SlotsAgree, running
    <3> QED BY <1>5, <2>2, <3>1
  <2>7. SlotsAgree(n)'
    <3>1. \A x, y \in table : Slot(x) = Slot(y) => x = y
      BY <1>3 DEF SlotsAgree
    <3>2. ASSUME NEW o \in table, GroupOf[o] \in groups, clusterOf[o] \in clusters
          PROVE  (Slot(o) \in running' /\ deployed[Slot(o)] = configs[o]) \/ Emptied(n, clusterOf[o])
      <4>1. Slot(o) \in running /\ deployed[Slot(o)] = configs[o]
        BY <1>3, <1>6, <3>2 DEF SlotsAgree, Addressable
      <4>2. Slot(o)[1] = clusterOf[o]
        BY DEF Slot
      <4> QED BY <1>5, <2>2, <2>5, <4>1, <4>2
    <3>3. kind # "volume" => \A o \in table : GroupOf[o] \in groups /\ clusterOf[o] \in clusters
      BY <1>3, <2>2 DEF SlotsAgree, Addressable
    <3> QED BY <1>2, <2>6, <3>1, <3>2, <3>3, SlotsAfter
  <2>8. KnowsObject(n)'
    BY <2>5 DEF KnowsObject, Removes
  <2>9. KnowsCascade(n)'
    <3>1. Scope(n)' = Scope(p)
      BY <1>2, <1>7, <1>9, <2>1, <2>5 DEF Scope
    <3>2. p.key = IF kind = "instance" THEN Whole ELSE <<"cluster", c>>
      BY <1>3, <1>7, <1>9, <2>1 DEF KnowsCascade
    <3> QED BY <1>2, <1>3, <1>7, <2>5, <2>6, <3>1, <3>2 DEF KnowsCascade, Cascade, Removing
  <2>10. Agreed(n)'
    BY <1>2, <1>7, <2>5, <2>7, <2>8, <2>9, RunningAgreed
  <2> QED BY <1>4, <2>10
<1> QED BY <1>2, <1>8, <1>9

LEMMA RemoveGroupAgreed ==
    ASSUME WorkTyped, NEW r \in Requests, removeGroup(r), Agreed(req[r]), faults' = 0
    PROVE  \E n : Step(r, n) /\ Agreed(n)'
<1> DEFINE q == req[r]
<1>1. q \in Request /\ Fits(q, kind, issued) /\ ~Fault(r)
  BY Going
<1>2. /\ q.pc = "removeGroup" /\ q.op \in {"deleteGroup", "deleteCluster"}
      /\ UNCHANGED <<kind, nameOf, clusterOf, clusters, table, configs, holder, deployed, configCache, cat>>
  BY <1>1 DEF removeGroup, At, fixed, stored, caches, kubernetes, Fits, Path, Installing, Removing,
              Request, Ops
<1>3. q.op = "deleteGroup" /\ q.reach /\ SlotsAgree(q) /\ KnowsCascade(q)
  BY <1>2 DEF Agreed, KnowsCascade
<1>4. PICK g \in Groups : q.key = <<"group", g>>
  BY <1>3 DEF KnowsCascade
<1>5. /\ groups' = groups \ {g}
      /\ Step(r, [q EXCEPT !.pc = IF kind = "volume" THEN "namespaces" ELSE "list"])
  BY <1>1, <1>4 DEF removeGroup, Goto
<1>6. PICK pc : pc = IF kind = "volume" THEN "namespaces" ELSE "list"
  OBVIOUS
<1>7. PICK n : Step(r, n) /\ Moved(q, n, pc)
  BY <1>1, <1>5, <1>6, MovesOn
<1>8. /\ n.op = "deleteGroup" /\ n.key = <<"group", g>> /\ n.c = q.c /\ n.reach
      /\ n.pc = IF kind = "volume" THEN "namespaces" ELSE "list"
  BY <1>3, <1>4, <1>6, <1>7 DEF Moved
<1>9. (\A h : Leaves(n, h) <=> h = g) /\ (\A h : ~Leaves(q, h) /\ ~Shifted(q, h) /\ ~Emptied(q, h) /\ ~Bare(q, h))
  BY <1>2, <1>3, <1>8 DEF Leaves, Shifted, Emptied, Bare
<1>10. running' = running
  BY <1>2 DEF running
<1>11. SlotsAgree(n)'
  <2>1. ASSUME NEW k \in running'
        PROVE  /\ k[1] \in clusters
               /\ k[2] \in groups' \/ Leaves(n, k[2])
               /\ \E o \in table : Slot(o) = k
    BY <1>3, <1>5, <1>9, <1>10 DEF SlotsAgree
  <2>2. \A o, p \in table : Slot(o) = Slot(p) => o = p
    BY <1>3 DEF SlotsAgree
  <2>3. ASSUME NEW o \in table, GroupOf[o] \in groups', clusterOf[o] \in clusters
        PROVE  Slot(o) \in running' /\ deployed[Slot(o)] = configs[o]
    BY <1>3, <1>5, <1>9, <1>10, <2>3 DEF SlotsAgree, Addressable
  <2>4. kind # "volume" => \A o \in table :
            (GroupOf[o] \in groups' /\ clusterOf[o] \in clusters) \/ Leaves(n, GroupOf[o])
    BY <1>3, <1>5, <1>9 DEF SlotsAgree, Addressable
  <2> QED BY <1>2, <2>1, <2>2, <2>3, <2>4, SlotsAfter
<1>12. KnowsObject(n)'
  BY <1>8 DEF KnowsObject, Removes
<1>13. KnowsCascade(n)'
  <2>1. q.c = None
    BY <1>3 DEF KnowsCascade
  <2>2. PICK p : p = q
    OBVIOUS
  <2>3. n.c = None
    BY <1>8, <2>1
  <2> QED BY <1>2, <1>5, <1>8, <2>3 DEF KnowsCascade, Cascade, Removing
<1>14. PICK p : p = q
  OBVIOUS
<1>15. Agreed(n)'
  BY <1>2, <1>8, <1>11, <1>12, <1>13, <1>14, RunningAgreed
<1> QED BY <1>7, <1>15

LEMMA RemoveClusterAgreed ==
    ASSUME WorkTyped, NEW r \in Requests, removeCluster(r), Agreed(req[r]), faults' = 0
    PROVE  \E n : Step(r, n) /\ Agreed(n)'
<1> DEFINE q == req[r]
<1>1. q \in Request /\ Fits(q, kind, issued) /\ ~Fault(r)
  BY Going
<1>2. /\ q.pc = "removeCluster" /\ q.op \in {"deleteGroup", "deleteCluster"}
      /\ UNCHANGED <<kind, nameOf, clusterOf, groups, table, configs, holder, deployed, configCache, cat>>
  BY <1>1 DEF removeCluster, At, fixed, stored, caches, kubernetes, Fits, Path, Installing, Removing,
              Request, Ops
<1>3. q.op = "deleteCluster" /\ SlotsAgree(q) /\ KnowsCascade(q) /\ table \subseteq Objects
  BY <1>2 DEF Agreed, KnowsCascade, WorkTyped, TypeOK
<1>4. clusters' = clusters \ {q.c} /\ \E n \in NextOwned(q.owned) : Step(r, n)
  BY <1>1 DEF removeCluster
<1>5. PICK n \in NextOwned(q.owned) : Step(r, n)
  BY <1>4
<1>6. n.reach /\ n.pc \in {"idle", "list", "ping"} /\ KnowsObject(n)' /\ KnowsCascade(n)'
  BY <1>1, <1>2, NextOwnedKnows DEF Request
<1>7. \A h : ~Leaves(q, h) /\ ~Shifted(q, h) /\ ~Bare(q, h) /\ (Emptied(q, h) => h = q.c)
  BY <1>2, <1>3 DEF Leaves, Shifted, Emptied, Bare
<1>8. running' = running /\ \A k \in running : k[1] # q.c
  BY <1>2, <1>3 DEF running, KnowsCascade
<1>9. SlotsAgree(n)'
  <2>1. ASSUME NEW k \in running'
        PROVE  k[1] \in clusters' /\ k[2] \in groups /\ \E o \in table : Slot(o) = k
    BY <1>3, <1>4, <1>7, <1>8 DEF SlotsAgree
  <2>2. \A o, p \in table : Slot(o) = Slot(p) => o = p
    BY <1>3 DEF SlotsAgree
  <2>3. ASSUME NEW o \in table, GroupOf[o] \in groups, clusterOf[o] \in clusters'
        PROVE  Slot(o) \in running' /\ deployed[Slot(o)] = configs[o]
    BY <1>3, <1>4, <1>7, <1>8, <2>3 DEF SlotsAgree, Addressable
  <2>4. ASSUME kind # "volume", NEW o \in table PROVE GroupOf[o] \in groups /\ clusterOf[o] \in clusters'
    <3>1. clusterOf[o] # q.c
      BY <1>2, <1>3, <2>4 DEF KnowsCascade, Cascade, Scope
    <3> QED BY <1>3, <1>4, <1>7, <2>4, <3>1 DEF SlotsAgree, Addressable
  <2> QED BY <1>2, <2>1, <2>2, <2>3, <2>4, SlotsAfter
<1>10. PICK p : p = q
  OBVIOUS
<1>11. Agreed(n)'
  BY <1>2, <1>6, <1>9, <1>10, RunningAgreed
<1> QED BY <1>5, <1>11

(***************************************************************************)
(* The steps that store and remove records                                 *)
(***************************************************************************)
LEMMA PutAgreed ==
    ASSUME WorkTyped, NEW r \in Requests, putRecord(r), Agreed(req[r]), faults' = 0
    PROVE  \E n : Step(r, n) /\ Agreed(n)'
<1> DEFINE q == req[r]
<1>1. q \in Request /\ Fits(q, kind, issued) /\ ~Fault(r)
  BY Going
<1>2. /\ q.pc = "put" /\ q.op \in {"create", "update"} /\ (kind # "instance" => q.op = "create")
      /\ UNCHANGED <<kind, nameOf, clusterOf, groups, clusters, configs, holder, deployed, configCache, cat>>
  BY <1>1 DEF putRecord, At, fixed, places, caches, kubernetes, Fits, Path, Installing, Removing,
              Request, Ops
<1>3. /\ q.reach /\ SlotsAgree(q) /\ KnowsObject(q) /\ ConfigsAgree(q) /\ Lively(q)
      /\ Addressable(q.o) /\ \A x \in table : Slot(x) # Slot(q.o)
  BY <1>2 DEF Agreed, KnowsObject, Creates, Updates
<1>4. PICK o \in Objects : o = q.o
  BY <1>1, <1>2 DEF Fits, AboutOne
<1>5. PICK pc : pc = IF kind = "instance" THEN "putConfig" ELSE "cache"
  OBVIOUS
<1>6. table' = table \cup {o} /\ Step(r, [q EXCEPT !.pc = pc])
  BY <1>1, <1>4, <1>5 DEF putRecord, Goto
<1>7. PICK n : Step(r, n) /\ Moved(q, n, pc)
  BY <1>1, <1>6, MovesOn
<1>8. /\ n.op = q.op /\ n.o = o /\ n.reach /\ n.config = q.config
      /\ n.pc = IF kind = "instance" THEN "putConfig" ELSE "cache"
  BY <1>3, <1>4, <1>5, <1>7 DEF Moved
<1>9. PICK p : p = q
  OBVIOUS
<1>10. /\ running' = running /\ (\A x : Slot(x)' = Slot(x)) /\ (\A x : Addressable(x)' <=> Addressable(x))
       /\ ConfigsOf' = ConfigsOf
  BY <1>2 DEF running, Slot, Addressable, ConfigsOf
<1>11. /\ \A x : ~Leaves(q, x) /\ ~Emptied(q, x) /\ ~Bare(q, x) /\ (Shifted(q, x) => Shifted(n, x))
       /\ Bare(n, o) \/ Shifted(n, o)
  BY <1>2, <1>4, <1>8 DEF Leaves, Emptied, Bare, Shifted, Cascade
<1>12. SlotsAgree(n)'
  <2>1. ASSUME NEW k \in running'
        PROVE  /\ k[1] \in clusters /\ k[2] \in groups
               /\ \/ \E x \in table' : Slot(x) = k
                  \/ Shifted(n, n.o) /\ Slot(n.o) = k
    BY <1>3, <1>4, <1>6, <1>8, <1>10, <1>11 DEF SlotsAgree
  <2>2. \A x, y \in table' : Slot(x) = Slot(y) => x = y
    BY <1>3, <1>4, <1>6 DEF SlotsAgree
  <2>3. ASSUME NEW x \in table', GroupOf[x] \in groups, clusterOf[x] \in clusters
        PROVE  \/ Slot(x) \in running' /\ deployed[Slot(x)] = configs[x]
               \/ Bare(n, x) \/ Shifted(n, x)
    <3>1. CASE x = o
      BY <1>11, <3>1
    <3>2. CASE x \in table
      BY <1>3, <1>10, <1>11, <2>3, <3>2 DEF SlotsAgree, Addressable
    <3> QED BY <1>6, <2>3, <3>1, <3>2
  <2>4. kind # "volume" => \A x \in table' : GroupOf[x] \in groups /\ clusterOf[x] \in clusters
    BY <1>3, <1>4, <1>6, <1>11 DEF SlotsAgree, Addressable
  <2> QED BY <1>2, <2>1, <2>2, <2>3, <2>4, SlotsAfter
<1>13. KnowsObject(n)'
  <2>1. ASSUME q.op = "create" PROVE Creates(n)'
    <3>1. Creates(p)
      BY <1>3, <1>9, <2>1 DEF KnowsObject
    <3>2. Slot(o) \notin running
      BY <1>2, <1>3, <1>4, <1>11, <2>1 DEF SlotsAgree, Shifted
    <3>3. kind # "instance" => configs[o] = None /\ q.config = None
      BY <1>3, <1>9, <3>1 DEF ConfigsAgree, ConfigsOf, Creates
    <3> QED BY <1>2, <1>4, <1>6, <1>8, <1>9, <1>10, <3>1, <3>2, <3>3 DEF Creates, Removing
  <2>2. ASSUME q.op = "update" PROVE Updates(n)'
    <3>1. Updates(p) /\ Shifted(p, p.o) /\ kind = "instance"
      BY <1>2, <1>3, <1>9, <2>2 DEF KnowsObject, Shifted
    <3> QED BY <1>2, <1>4, <1>6, <1>8, <1>9, <1>10, <3>1 DEF Updates, Removing
  <2> QED BY <1>2, <1>8, <2>1, <2>2 DEF KnowsObject, Cascade
<1>14. KnowsCascade(n)'
  BY <1>2, <1>8 DEF KnowsCascade, Cascade
<1>15. ConfigsAgree(n)'
  <2>1. configCache[o] \notin Versions
    BY <1>3, <1>4 DEF ConfigsAgree
  <2>2. ConfigsAgree(p) /\ p.pc = "put"
    BY <1>2, <1>3, <1>9
  <2>3. \A x \in table' : configs[x] \in ConfigsOf \/ (n.o = x /\ n.pc = "putConfig")
    BY <1>4, <1>6, <1>8, <2>2 DEF ConfigsAgree, ConfigsOf
  <2> QED BY <1>2, <1>6, <1>8, <1>10, <2>1, <2>2, <2>3 DEF ConfigsAgree
<1>16. Lively(n)'
  <2>1. n.pc # "listMark"
    BY <1>8
  <2>2. Lively(p)
    BY <1>3, <1>9
  <2> QED BY <1>2, <2>1, <2>2, LivelyLasts
<1> QED BY <1>7, <1>8, <1>12, <1>13, <1>14, <1>15, <1>16 DEF Agreed

LEMMA PutConfigAgreed ==
    ASSUME WorkTyped, NEW r \in Requests, putConfig(r), Agreed(req[r]), faults' = 0
    PROVE  \E n : Step(r, n) /\ Agreed(n)'
<1> DEFINE q == req[r]
<1>1. q \in Request /\ Fits(q, kind, issued) /\ ~Fault(r)
  BY Going
<1>2. /\ q.pc = "putConfig" /\ q.op \in {"create", "update"} /\ kind = "instance" /\ q.o \in Objects
      /\ UNCHANGED <<kind, nameOf, clusterOf, groups, clusters, table, holder, deployed, configCache, cat>>
  BY <1>1 DEF putConfig, At, fixed, places, caches, kubernetes, Fits, Path, Installing, Removing,
              Request, Ops, AboutOne
<1>3. /\ q.reach /\ SlotsAgree(q) /\ KnowsObject(q) /\ ConfigsAgree(q) /\ Lively(q)
      /\ Addressable(q.o) /\ q.o \in table /\ q.config \in Versions
      /\ configs \in [Objects -> Versions \cup {None, Default}]
      /\ table \subseteq Objects
  BY <1>2 DEF Agreed, KnowsObject, Creates, Updates, ConfigsOf, WorkTyped, TypeOK
<1>4. PICK o \in Objects : o = q.o
  BY <1>2
<1>5. PICK v \in Versions : v = q.config
  BY <1>3
<1>6. /\ configs' = [configs EXCEPT ![o] = v] /\ configs'[o] = v
      /\ \A x \in Objects : x # o => configs'[x] = configs[x]
  BY <1>1, <1>3, <1>4, <1>5 DEF putConfig
<1>7. PICK n : Step(r, n) /\ Moved(q, n, "cache")
  BY <1>1, MovesOn DEF putConfig, Goto
<1>8. n.op = q.op /\ n.o = o /\ n.reach /\ n.config = v /\ n.pc = "cache"
  BY <1>3, <1>4, <1>5, <1>7 DEF Moved
<1>9. PICK p : p = q
  OBVIOUS
<1>10. /\ running' = running /\ (\A x : Slot(x)' = Slot(x)) /\ (\A x : Addressable(x)' <=> Addressable(x))
       /\ ConfigsOf' = ConfigsOf
  BY <1>2 DEF running, Slot, Addressable, ConfigsOf
<1>11. /\ \A x : ~Leaves(q, x) /\ ~Emptied(q, x) /\ (Bare(q, x) => x = o /\ Bare(n, x)) /\ (Shifted(q, x) => x = o)
       /\ q.op = "update" => Shifted(q, o)
  BY <1>2, <1>4, <1>8 DEF Leaves, Emptied, Bare, Shifted, Cascade
<1>12. q.op = "update" => Slot(o) \in running /\ deployed[Slot(o)] = v
  BY <1>3, <1>4, <1>5, <1>11 DEF KnowsObject, Updates
<1>13. SlotsAgree(n)'
  <2>1. ASSUME NEW k \in running'
        PROVE  k[1] \in clusters /\ k[2] \in groups /\ \E x \in table : Slot(x) = k
    BY <1>3, <1>10, <1>11 DEF SlotsAgree
  <2>2. \A x, y \in table : Slot(x) = Slot(y) => x = y
    BY <1>3 DEF SlotsAgree
  <2>3. ASSUME NEW x \in table, GroupOf[x] \in groups, clusterOf[x] \in clusters
        PROVE  (Slot(x) \in running' /\ deployed[Slot(x)] = configs'[x]) \/ Bare(n, x)
    <3>1. CASE x = o
      <4>1. q.op = "create" => Bare(n, o)
        BY <1>8 DEF Bare
      <4> QED BY <1>2, <1>6, <1>10, <1>12, <3>1, <4>1
    <3>2. CASE x # o
      BY <1>3, <1>6, <1>10, <1>11, <2>3, <3>2 DEF SlotsAgree, Addressable
    <3> QED BY <3>1, <3>2
  <2>4. kind # "volume" => \A x \in table : GroupOf[x] \in groups /\ clusterOf[x] \in clusters
    BY <1>3, <1>11 DEF SlotsAgree, Addressable
  <2> QED BY <1>2, <2>1, <2>2, <2>3, <2>4, SlotsAfter
<1>14. KnowsObject(n)'
  <2>1. ASSUME q.op = "create" PROVE Creates(n)'
    <3>1. Creates(p)
      BY <1>3, <1>9, <2>1 DEF KnowsObject
    <3> QED BY <1>2, <1>3, <1>4, <1>5, <1>6, <1>8, <1>9, <1>10, <3>1 DEF Creates, Removing, ConfigsOf
  <2>2. ASSUME q.op = "update" PROVE Updates(n)'
    BY <1>2, <1>3, <1>4, <1>5, <1>6, <1>8, <1>10, <2>2 DEF Updates, Removing, Shifted
  <2> QED BY <1>2, <1>8, <2>1, <2>2 DEF KnowsObject, Cascade
<1>15. KnowsCascade(n)'
  BY <1>2, <1>8 DEF KnowsCascade, Cascade
<1>16. ConfigsAgree(n)'
  <2>1. configCache[o] \notin Versions /\ ConfigsAgree(p) /\ p.o = o
    BY <1>2, <1>3, <1>4, <1>9 DEF ConfigsAgree
  <2>2. \A x \in Objects : configs'[x] \in ConfigsOf \cup {None}
    BY <1>2, <1>6, <2>1 DEF ConfigsAgree, ConfigsOf
  <2>3. \A x \in table : configs'[x] \in ConfigsOf
    BY <1>2, <1>3, <1>6, <2>1 DEF ConfigsAgree, ConfigsOf
  <2> QED BY <1>2, <1>6, <1>8, <1>10, <2>1, <2>2, <2>3 DEF ConfigsAgree
<1>17. Lively(n)'
  <2>1. n.pc # "listMark" /\ Lively(p)
    BY <1>3, <1>8, <1>9
  <2> QED BY <1>2, <2>1, LivelyLasts
<1> QED BY <1>7, <1>8, <1>13, <1>14, <1>15, <1>16, <1>17 DEF Agreed

\* After a removal a deletion ends, an update stores the record anew and a cascade
\* goes on.
LEMMA AfterRemoveIs ==
    ASSUME NEW q \in Request, Fits(q, kind, issued), Agreed(q), q.pc \in {"dbDelete", "dbDeleteConfig"},
           NEW n, n = AfterRemove(q, TRUE)
    PROVE  \/ q.op = "delete" /\ n = Idle
           \/ q.op = "update" /\ Moved(q, n, "put")
           \/ Cascade(q) /\ Moved(q, n, "next")
<1>1. q.op \in {"create", "delete", "update", "restart", "deleteGroup", "deleteCluster"}
  BY DEF Fits, Path, Installing, Removing, Request, Ops
<1>2. q.op \notin {"create", "restart"}
  BY DEF Agreed, KnowsObject, Creates, Restarts, Removing
<1>3. /\ q.op = "delete" => q.then = "idle"
      /\ q.op = "update" => q.then = "put"
      /\ Cascade(q) => q.then = "next"
  <2>1. q.op = "delete" => q.then = "idle"
    BY DEF Fits, Cascade, Request
  <2>2. q.op = "update" => q.then = "put"
    BY DEF Agreed, KnowsObject, Updates, Removing
  <2>3. Cascade(q) => q.then = "next"
    BY DEF Agreed, KnowsCascade, Removing
  <2> QED BY <2>1, <2>2, <2>3
<1>4. /\ q.then = "idle" => n = Idle
      /\ q.then # "idle" => n = [q EXCEPT !.pc = q.then]
  BY DEF AfterRemove
<1>5. \A pc : Moved(q, [q EXCEPT !.pc = pc], pc)
  BY MovesOn
<1> QED BY <1>1, <1>2, <1>3, <1>4, <1>5 DEF Cascade

LEMMA DbDeleteAgreed ==
    ASSUME WorkTyped, NEW r \in Requests, dbDelete(r), Agreed(req[r]), faults' = 0
    PROVE  \E n : Step(r, n) /\ Agreed(n)'
<1> DEFINE q == req[r]
<1>1. q \in Request /\ Fits(q, kind, issued) /\ ~Fault(r)
  BY Going
<1>2. /\ q.pc = "dbDelete" /\ q.o \in Objects
      /\ UNCHANGED <<kind, nameOf, clusterOf, groups, clusters, configs, holder, deployed, configCache, cat>>
  BY <1>1 DEF dbDelete, At, fixed, places, caches, kubernetes, Fits, AboutOne, Removing
<1>3. PICK o \in Objects : o = q.o
  BY <1>2
<1>4. table' = table \ {o} /\ \E n : Step(r, n) /\ (Moved(q, n, "dbDeleteConfig") \/ n = AfterRemove(q, TRUE))
  BY <1>1, <1>3, MovesOn DEF dbDelete, Goto
<1>5. PICK n : Step(r, n) /\ (Moved(q, n, "dbDeleteConfig") \/ n = AfterRemove(q, TRUE))
  BY <1>4
<1>6. /\ q.op \in {"delete", "update"} \/ Cascade(q)
      /\ \/ q.op = "delete" /\ n = Idle
         \/ q.op = "update" /\ Moved(q, n, "put")
         \/ Cascade(q) /\ Moved(q, n, "next")
         \/ Moved(q, n, "dbDeleteConfig")
  <2>1. q.op \in {"create", "delete", "update", "restart", "deleteGroup", "deleteCluster"}
    BY <1>1, <1>2 DEF Fits, Path, Installing, Removing, Request, Ops
  <2>2. q.op \notin {"create", "restart"}
    BY <1>2 DEF Agreed, KnowsObject, Creates, Restarts, Removing
  <2>3. PICK p : p = q
    OBVIOUS
  <2>4. p.pc \in {"dbDelete", "dbDeleteConfig"} /\ p \in Request /\ Fits(p, kind, issued) /\ Agreed(p)
    BY <1>1, <1>2, <2>3
  <2>5. n = AfterRemove(p, TRUE) =>
           \/ p.op = "delete" /\ n = Idle
           \/ p.op = "update" /\ Moved(p, n, "put")
           \/ Cascade(p) /\ Moved(p, n, "next")
    BY <2>4, AfterRemoveIs
  <2> QED BY <1>5, <2>1, <2>2, <2>3, <2>5 DEF Cascade
<1>7. /\ q.reach /\ SlotsAgree(q) /\ KnowsObject(q) /\ KnowsCascade(q) /\ ConfigsAgree(q) /\ Lively(q)
      /\ o \in table /\ table \subseteq Objects
  BY <1>2, <1>3, <1>6 DEF Agreed, KnowsObject, Updates, Removes, WorkTyped, TypeOK
<1>8. PICK p : p = q
  OBVIOUS
<1>9. /\ running' = running /\ (\A x : Slot(x)' = Slot(x)) /\ (\A x : Addressable(x)' <=> Addressable(x))
  BY <1>2 DEF running, Slot, Addressable
<1>10. n.reach /\ n.pc \in {"idle", "put", "next", "dbDeleteConfig"}
  BY <1>6, <1>7, IdleKnows DEF Moved
<1>11. /\ \A x : ~Emptied(q, x) /\ (Leaves(q, x) => Leaves(n, x)) /\ (Bare(q, x) => x = o)
                 /\ (Shifted(q, x) => x = o /\ Shifted(n, x))
       /\ ~Shifted(q, o) => Slot(o) \notin running \/ Leaves(q, GroupOf[o])
  <2>1. \A x : ~Emptied(q, x)
    BY <1>2 DEF Emptied
  <2>2. \A x : (Bare(q, x) => x = o) /\ (Shifted(q, x) => x = o)
    BY <1>3 DEF Bare, Shifted
  <2>3. \A x : Leaves(q, x) => Leaves(n, x)
    BY <1>6 DEF Leaves, Moved, Cascade
  <2>4. \A x : Shifted(q, x) => Shifted(n, x)
    BY <1>6 DEF Shifted, Moved, Cascade
  <2>5. ASSUME ~Shifted(q, o) PROVE Slot(o) \notin running \/ Leaves(q, GroupOf[o])
    <3>1. q.op # "update"
      BY <1>2, <1>3, <2>5 DEF Shifted
    <3> QED BY <1>2, <1>3, <1>6, <1>7, <3>1 DEF KnowsObject, Removes
  <2> QED BY <2>1, <2>2, <2>3, <2>4, <2>5
<1>12. \A x, y \in table : Slot(x) = Slot(y) => x = y
  BY <1>7 DEF SlotsAgree
<1>13. SlotsAgree(n)'
  <2>1. ASSUME NEW k \in running'
        PROVE  /\ k[1] \in clusters
               /\ k[2] \in groups \/ Leaves(n, k[2])
               /\ \/ \E x \in table' : Slot(x) = k
                  \/ Shifted(n, n.o) /\ Slot(n.o) = k
                  \/ Leaves(n, k[2])
    <3>1. /\ k[1] \in clusters
          /\ k[2] \in groups \/ Leaves(n, k[2])
      BY <1>7, <1>9, <1>11, <2>1 DEF SlotsAgree
    <3>2. Shifted(q, o) => Shifted(n, n.o) /\ n.o = o
      BY <1>11 DEF Shifted
    <3>3. CASE k = Slot(o)
      <4>1. k[2] = GroupOf[o]
        BY <3>3 DEF Slot
      <4> QED BY <1>9, <1>11, <2>1, <3>1, <3>2, <3>3, <4>1
    <3>4. CASE k # Slot(o)
      BY <1>3, <1>4, <1>7, <1>9, <1>11, <2>1, <3>1, <3>4 DEF SlotsAgree
    <3> QED BY <3>3, <3>4
  <2>2. ASSUME NEW x \in table', GroupOf[x] \in groups, clusterOf[x] \in clusters
        PROVE  Slot(x) \in running' /\ deployed[Slot(x)] = configs[x]
    BY <1>4, <1>7, <1>9, <1>11, <2>2 DEF SlotsAgree, Addressable
  <2>3. kind # "volume" => \A x \in table' :
            (GroupOf[x] \in groups /\ clusterOf[x] \in clusters) \/ Leaves(n, GroupOf[x])
    BY <1>4, <1>7, <1>11 DEF SlotsAgree, Addressable
  <2> QED BY <1>2, <1>4, <1>12, <2>1, <2>2, <2>3, SlotsAfter
<1>14. KnowsObject(n)' /\ KnowsCascade(n)'
  <2>1. CASE n = Idle
    BY <2>1, IdleKnows
  <2>2. CASE n.op = "update"
    <3>1. n.pc \in {"put", "dbDeleteConfig"} /\ n.op = q.op /\ n.o = o /\ n.config = q.config /\ n.then = q.then
      BY <1>3, <1>6, <2>2, IdleKnows DEF Moved, Cascade
    <3>2. Updates(p) /\ Shifted(p, p.o) /\ p.op = "update" /\ p.o = o
      BY <1>2, <1>3, <1>7, <1>8, <2>2, <3>1 DEF KnowsObject, Shifted
    <3>3. \A x \in table' : Slot(x) # Slot(o)
      BY <1>4, <1>7, <1>12
    <3>4. p.then = "put" /\ p.config \in Versions /\ Addressable(o) /\ Slot(o) \in running
          /\ deployed[Slot(o)] = p.config
      BY <1>2, <1>8, <3>2 DEF Updates, Removing
    <3>5. Updates(n)'
      BY <1>2, <1>8, <1>9, <3>1, <3>3, <3>4 DEF Updates, Shifted
    <3> QED BY <2>2, <3>5 DEF KnowsObject, KnowsCascade, Cascade
  <2>3. CASE n.op \in {"delete", "deleteGroup", "deleteCluster"}
    <3>1. /\ n.pc \in {"next", "dbDeleteConfig"} /\ n.op = q.op /\ n.o = o /\ n.todo = q.todo
          /\ n.key = q.key /\ n.c = q.c /\ n.then = q.then
      BY <1>3, <1>6, <2>3, IdleKnows DEF Moved, Cascade
    <3>2. KnowsObject(n)'
      BY <1>4, <2>3, <3>1 DEF KnowsObject, Removes
    <3>3. Scope(n)' = Scope(p) /\ (Cascade(n)' <=> Cascade(p))
      BY <1>2, <1>8, <3>1 DEF Scope, Cascade
    <3>4. KnowsCascade(p) /\ p.o = o /\ p.pc = "dbDelete"
      BY <1>2, <1>3, <1>7, <1>8
    <3>5. Cascade(p) =>
             /\ p.todo \subseteq table \cap Scope(p)
             /\ o \in Scope(p) \ p.todo /\ p.then = "next"
             /\ kind # "volume" => \A x \in table \cap Scope(p) : x \in p.todo \/ x = o
      BY <3>4 DEF KnowsCascade, Removing
    <3>6. Cascade(p) => p.todo \subseteq table' /\ (kind # "volume" => \A x \in table' \cap Scope(p) : x \in p.todo)
      BY <1>4, <3>5
    <3>7. KnowsCascade(n)'
      BY <1>2, <1>8, <3>1, <3>3, <3>4, <3>5, <3>6 DEF KnowsCascade, Removing
    <3> QED BY <3>2, <3>7
  <2> QED BY <1>6, <2>1, <2>2, <2>3 DEF Moved, Cascade
<1>15. ConfigsAgree(n)'
  <2>1. configCache[o] \notin Versions /\ ConfigsAgree(p) /\ p.pc = "dbDelete" /\ ConfigsOf' = ConfigsOf
    BY <1>2, <1>3, <1>7, <1>8 DEF ConfigsAgree, ConfigsOf
  <2> QED BY <1>2, <1>4, <1>10, <2>1 DEF ConfigsAgree
<1>16. Lively(n)'
  <2>1. n.pc # "listMark" /\ Lively(p)
    BY <1>7, <1>8, <1>10
  <2> QED BY <1>2, <2>1, LivelyLasts
<1> QED BY <1>5, <1>10, <1>13, <1>14, <1>15, <1>16 DEF Agreed

LEMMA DbDeleteConfigAgreed ==
    ASSUME WorkTyped, NEW r \in Requests, dbDeleteConfig(r), Agreed(req[r]), faults' = 0
    PROVE  \E n : Step(r, n) /\ Agreed(n)'
<1> DEFINE q == req[r]
<1>1. q \in Request /\ Fits(q, kind, issued) /\ ~Fault(r)
  BY Going
<1>2. /\ q.pc = "dbDeleteConfig" /\ q.o \in Objects
      /\ UNCHANGED <<kind, nameOf, clusterOf, groups, clusters, table, holder, deployed, configCache, cat>>
  BY <1>1 DEF dbDeleteConfig, At, fixed, places, caches, kubernetes, Fits, AboutOne, Removing
<1>3. PICK o \in Objects : o = q.o
  BY <1>2
<1>4. PICK n : Step(r, n) /\ n = AfterRemove(q, TRUE)
  BY <1>1 DEF dbDeleteConfig
<1>5. PICK p : p = q
  OBVIOUS
<1>6. p \in Request /\ Fits(p, kind, issued) /\ Agreed(p) /\ p.pc = "dbDeleteConfig" /\ p.o = o /\ n = AfterRemove(p, TRUE)
  BY <1>1, <1>2, <1>3, <1>4, <1>5
<1>7. \/ p.op = "delete" /\ n = Idle
      \/ p.op = "update" /\ Moved(p, n, "put")
      \/ Cascade(p) /\ Moved(p, n, "next")
  <2>1. p.pc \in {"dbDelete", "dbDeleteConfig"} /\ p \in Request /\ Fits(p, kind, issued) /\ Agreed(p)
    BY <1>6
  <2>2. n = AfterRemove(p, TRUE) =>
           \/ p.op = "delete" /\ n = Idle
           \/ p.op = "update" /\ Moved(p, n, "put")
           \/ Cascade(p) /\ Moved(p, n, "next")
    BY <2>1, AfterRemoveIs
  <2> QED BY <1>6, <2>2
<1>8. /\ p.reach /\ SlotsAgree(p) /\ KnowsObject(p) /\ KnowsCascade(p) /\ ConfigsAgree(p) /\ Lively(p)
      /\ o \notin table /\ table \subseteq Objects
  BY <1>6, <1>7 DEF Agreed, KnowsObject, Updates, Removes, WorkTyped, TypeOK
<1>9. configs' = [configs EXCEPT ![o] = None] /\ configs \in [Objects -> Versions \cup {None, Default}]
  BY <1>1, <1>3 DEF dbDeleteConfig, WorkTyped, TypeOK
<1>10. configs'[o] = None /\ (\A x \in Objects : x # o => configs'[x] = configs[x])
       /\ \A x \in table : configs'[x] = configs[x]
  BY <1>8, <1>9
<1>11. n.reach /\ n.pc \in {"idle", "put", "next"}
  BY <1>7, <1>8, IdleKnows DEF Moved
<1>12. /\ \A x : ~Emptied(p, x) /\ (Leaves(p, x) => Leaves(n, x)) /\ ~Bare(p, x)
       /\ \A x : Shifted(p, x) => Shifted(n, x)
  BY <1>6, <1>7 DEF Emptied, Leaves, Bare, Shifted, Moved, Cascade
<1>13. running' = running /\ (\A x : Slot(x)' = Slot(x)) /\ (\A x : Addressable(x)' <=> Addressable(x))
       /\ ConfigsOf' = ConfigsOf
  BY <1>2 DEF running, Slot, Addressable, ConfigsOf
<1>14. SlotsAgree(n)'
  <2>1. ASSUME NEW k \in running'
        PROVE  /\ k[1] \in clusters
               /\ k[2] \in groups \/ Leaves(n, k[2])
               /\ \/ \E x \in table : Slot(x) = k
                  \/ Shifted(n, n.o) /\ Slot(n.o) = k
                  \/ Leaves(n, k[2])
    <3>1. Shifted(p, p.o) => Shifted(n, n.o) /\ n.o = p.o
      BY <1>12 DEF Shifted
    <3> QED BY <1>8, <1>12, <1>13, <2>1, <3>1 DEF SlotsAgree
  <2>2. \A x, y \in table : Slot(x) = Slot(y) => x = y
    BY <1>8 DEF SlotsAgree
  <2>3. ASSUME NEW x \in table, GroupOf[x] \in groups, clusterOf[x] \in clusters
        PROVE  (Slot(x) \in running' /\ deployed[Slot(x)] = configs'[x]) \/ Shifted(n, x)
    BY <1>8, <1>10, <1>12, <1>13, <2>3 DEF SlotsAgree, Addressable
  <2>4. kind # "volume" => \A x \in table :
            (GroupOf[x] \in groups /\ clusterOf[x] \in clusters) \/ Leaves(n, GroupOf[x])
    BY <1>8, <1>12 DEF SlotsAgree, Addressable
  <2> QED BY <1>2, <2>1, <2>2, <2>3, <2>4, SlotsAfter
<1>15. KnowsObject(n)'
  <2>1. CASE n = Idle
    BY <2>1, IdleKnows
  <2>2. CASE p.op = "update" /\ Moved(p, n, "put")
    <3>1. Updates(p) /\ Shifted(p, o)
      BY <1>6, <1>8, <2>2 DEF KnowsObject, Shifted
    <3>2. Updates(n)'
      BY <1>2, <1>6, <1>13, <2>2, <3>1 DEF Updates, Moved, Shifted, Removing
    <3> QED BY <2>2, <3>2 DEF KnowsObject, Moved, Cascade
  <2>3. CASE Cascade(p) /\ Moved(p, n, "next")
    BY <2>3 DEF KnowsObject, Moved, Cascade, Removes
  <2> QED BY <1>7, <2>1, <2>2, <2>3
<1>16. KnowsCascade(n)'
  <2>1. CASE ~Cascade(p)
    BY <1>7, <2>1, IdleKnows DEF KnowsCascade, Cascade, Moved
  <2>2. CASE Cascade(p)
    <3>1. Moved(p, n, "next")
      BY <1>7, <2>2 DEF Cascade
    <3>2. Scope(n) = Scope(p) /\ Cascade(n)
      BY <2>2, <3>1 DEF Scope, Moved, Cascade
    <3>3. KnowsCascade(n)
      BY <1>6, <1>8, <2>2, <3>1, <3>2 DEF KnowsCascade, Moved, Removing
    <3> QED BY <1>2, <1>11, <3>3, CascadeLasts
  <2> QED BY <2>1, <2>2
<1>17. ConfigsAgree(n)'
  <2>1. \A x \in Objects : configCache[x] \in Versions => x # o
    BY <1>8 DEF ConfigsAgree
  <2>2. \A x \in Objects : configs'[x] \in ConfigsOf \cup {None}
    BY <1>8, <1>10 DEF ConfigsAgree
  <2>3. \A x \in table : configs'[x] \in ConfigsOf
    BY <1>6, <1>8, <1>10 DEF ConfigsAgree
  <2> QED BY <1>2, <1>8, <1>10, <1>11, <1>13, <2>1, <2>2, <2>3 DEF ConfigsAgree
<1>18. Lively(n)'
  BY <1>2, <1>8, <1>11, LivelyLasts
<1> QED BY <1>4, <1>11, <1>14, <1>15, <1>16, <1>17, <1>18 DEF Agreed

(***************************************************************************)
(* The steps that change the caches                                        *)
(***************************************************************************)
LEMMA CachesAgreed ==
    ASSUME NEW q, NEW n, Agreed(q), Succeeds(q, n), n.reach, KnowsObject(n), KnowsCascade(n),
           UNCHANGED <<kind, nameOf, clusterOf, groups, clusters, table, configs, holder, deployed>>,
           ConfigsAgree(n)', Lively(n)'
    PROVE  Agreed(n)'
BY SlotsLast, KnownLasts DEF Agreed

\* The categories themselves.
TightOnes == \A k \in Keys : cat[k].live \subseteq cat[k].known /\ (Renewed(k) => Tight(cat[k]))

LEMMA FilledTight ==
    ASSUME WorkTyped, TightOnes, UNCHANGED kind, NEW S, NEW K, cat' = Filled(S, K)
    PROVE  /\ TightOnes'
           /\ \A k \in Keys : IsCached(k) /\ k \in K => S \cap Matching(k) \subseteq cat'[k].live
<1> SUFFICES ASSUME NEW k \in Keys
             PROVE  /\ cat'[k].live \subseteq cat'[k].known
                    /\ Renewed(k) => Tight(cat'[k])
                    /\ IsCached(k) /\ k \in K => S \cap Matching(k) \subseteq cat'[k].live
  BY DEF TightOnes, Renewed, Tight
<1>1. cat[k] \in Category /\ cat[k].live \subseteq cat[k].known /\ (Renewed(k) => Tight(cat[k]))
  BY DEF WorkTyped, TypeOK, TightOnes
<1>2. PICK T : T = S \cap Matching(k)
  OBVIOUS
<1>3. PICK d : d = insertAll(cat[k], T)
  OBVIOUS
<1>4. d.known = cat[k].known \cup T /\ d.live = cat[k].live \cup T /\ d.old = cat[k].old \ T /\ d.valid = cat[k].valid
  BY <1>1, <1>3 DEF insertAll, Category
<1>5. d.live \subseteq d.known /\ (Tight(cat[k]) => Tight(d)) /\ T \subseteq d.live
  BY <1>1, <1>4 DEF Tight
<1>6. cat'[k] = IF IsCached(k) /\ k \in K THEN d ELSE cat[k]
  BY <1>2, <1>3 DEF Filled
<1>7. CASE IsCached(k) /\ k \in K
  BY <1>1, <1>2, <1>5, <1>6, <1>7
<1>8. CASE ~(IsCached(k) /\ k \in K)
  BY <1>1, <1>6, <1>8
<1> QED BY <1>7, <1>8

LEMMA FoundAgreed ==
    ASSUME WorkTyped, NEW r \in Requests, cacheFound(r), Informed(req[r]), Agreed(req[r]), faults' = 0
    PROVE  \E n : Step(r, n) /\ Agreed(n)'
<1> DEFINE q == req[r]
<1>1. q \in Request /\ Fits(q, kind, issued)
  BY Going
<1>2. /\ q.pc = "fill" /\ q.o \in table /\ cat' = Filled({q.o}, Keys) /\ Step(r, AfterFind(q))
      /\ UNCHANGED <<kind, nameOf, clusterOf, groups, clusters, table, configs, holder, deployed, configCache>>
  BY DEF cacheFound, fillAll, At, fixed, places, stored, kubernetes, Informed, Knows
<1>3. PICK n : n = AfterFind(q)
  OBVIOUS
<1>4. PICK p : p = q
  OBVIOUS
<1>5. /\ Succeeds(q, n) /\ n.reach /\ KnowsObject(n) /\ KnowsCascade(n)
      /\ n.pc \in {"idle", "fill", "undeploy", "stop", "config"}
  BY <1>1, <1>2, <1>3, AfterFindKnows
<1>6. ConfigsAgree(p) /\ TightOnes
  BY <1>4 DEF Agreed, Lively, TightOnes
<1>7. TightOnes'
  BY <1>2, <1>4, <1>6, FilledTight
<1>8. Lively(n)'
  BY <1>5, <1>7 DEF Lively, TightOnes
<1>9. ConfigsAgree(n)'
  BY <1>2, <1>4, <1>5, <1>6, ConfigsLast
<1>10. Agreed(n)'
  BY <1>2, <1>4, <1>5, <1>8, <1>9, CachesAgreed
<1> QED BY <1>2, <1>3, <1>10

LEMMA NewAgreed ==
    ASSUME WorkTyped, NEW r \in Requests, cacheNew(r), Informed(req[r]), Agreed(req[r]), faults' = 0
    PROVE  \E n : Step(r, n) /\ Agreed(n)'
<1> DEFINE q == req[r]
<1>1. q \in Request /\ Fits(q, kind, issued)
  BY Going
<1>2. /\ q.pc = "cache" /\ q.op \in {"create", "update"} /\ q.o \in Objects /\ cat' = Filled({q.o}, Keys)
      /\ configCache' = IF kind = "instance" /\ configCache[q.o] = None
                        THEN [configCache EXCEPT ![q.o] = q.config] ELSE configCache
      /\ Step(r, IF q.op = "create" THEN [q EXCEPT !.pc = "namespace"] ELSE Idle)
      /\ UNCHANGED <<kind, nameOf, clusterOf, groups, clusters, table, configs, holder, deployed>>
  BY <1>1 DEF cacheNew, fillAll, At, fixed, places, stored, kubernetes, Fits, Path, Installing, Removing,
              Request, Ops, AboutOne
<1>3. PICK n : Step(r, n) /\ (\/ q.op = "create" /\ Moved(q, n, "namespace")
                              \/ q.op = "update" /\ n = Idle)
  BY <1>1, <1>2, MovesOn
<1>4. PICK p : p = q
  OBVIOUS
<1>5. /\ q.reach /\ KnowsObject(q) /\ ConfigsAgree(q) /\ TightOnes /\ q.o \in table /\ configs[q.o] = q.config
      /\ configCache \in [Objects -> Versions \cup {None, Default}]
  BY <1>2 DEF Agreed, Lively, TightOnes, KnowsObject, Creates, Updates, WorkTyped, TypeOK
<1>6. Succeeds(q, n)
  BY <1>2, <1>3 DEF Succeeds, Bare, Shifted, Leaves, Emptied, Cascade, Moved
<1>7. n.reach /\ n.pc \in {"namespace", "idle"}
  BY <1>3, <1>5, IdleKnows DEF Moved
<1>8. KnowsObject(n) /\ KnowsCascade(n)
  <2>1. CASE n = Idle
    BY <2>1, IdleKnows
  <2>2. CASE q.op = "create" /\ Moved(q, n, "namespace")
    <3>1. Creates(n)
      BY <1>2, <1>5, <2>2 DEF KnowsObject, Creates, Moved, Removing
    <3> QED BY <2>2, <3>1 DEF KnowsObject, KnowsCascade, Cascade, Moved
  <2> QED BY <1>3, <2>1, <2>2
<1>9. Lively(n)'
  <2>1. TightOnes'
    BY <1>2, <1>4, <1>5, FilledTight
  <2> QED BY <1>7, <2>1 DEF Lively, TightOnes
<1>10. ConfigsAgree(n)'
  <2>1. ConfigsAgree(p) /\ p.pc = "cache" /\ p.o \in table /\ configs[p.o] = p.config
    BY <1>2, <1>4, <1>5
  <2>2. ASSUME NEW x \in Objects, configCache'[x] \in Versions PROVE x \in table /\ configs[x] = configCache'[x]
    BY <1>2, <1>4, <1>5, <2>1, <2>2 DEF ConfigsAgree
  <2> QED BY <1>2, <1>7, <2>1, <2>2 DEF ConfigsAgree, ConfigsOf
<1>11. Agreed(n)'
  BY <1>2, <1>4, <1>6, <1>7, <1>8, <1>9, <1>10, CachesAgreed
<1> QED BY <1>3, <1>11

LEMMA ListedAgreed ==
    ASSUME WorkTyped, NEW r \in Requests, cacheListed(r), Agreed(req[r]), faults' = 0
    PROVE  \E n : Step(r, n) /\ Agreed(n)'
<1> DEFINE q == req[r]
<1>1. q \in Request /\ Fits(q, kind, issued)
  BY Going
<1>2. /\ q.pc = "listFill" /\ cat' = Filled(q.todo, {k \in Keys : FilledByListing(q, k)})
      /\ UNCHANGED <<kind, nameOf, clusterOf, groups, clusters, table, configs, holder, deployed, configCache>>
  BY DEF cacheListed, At, fixed, places, stored, kubernetes
<1>3. PICK n : Step(r, n) /\ Moved(q, n, "listMark")
  BY <1>1, MovesOn DEF cacheListed, Goto
<1>4. PICK p : p = q
  OBVIOUS
<1>5. /\ q.reach /\ KnowsObject(q) /\ KnowsCascade(q) /\ ConfigsAgree(q) /\ TightOnes
      /\ q.op \in {"list", "create", "deleteGroup", "deleteCluster"}
  BY <1>1, <1>2 DEF Agreed, Lively, TightOnes, Fits, Path, Installing, Removing, Request, Ops
<1>6. Succeeds(q, n)
  BY <1>2, <1>3, <1>5 DEF Succeeds, Bare, Shifted, Leaves, Emptied, Cascade, Moved
<1>7. KnowsObject(n)
  <2>1. q.op = "create" => Creates(n)
    BY <1>2, <1>3, <1>5 DEF KnowsObject, Creates, Removing, Moved
  <2> QED BY <1>3, <1>5, <2>1 DEF KnowsObject, Removes, Moved
<1>8. KnowsCascade(n) /\ n.reach /\ n.pc = "listMark" /\ n.todo = q.todo
  BY <1>2, <1>3, <1>5 DEF KnowsCascade, Cascade, Removing, Moved
<1>9. Lively(n)'
  <2>1. /\ TightOnes'
        /\ \A k \in Keys : IsCached(k) /\ FilledByListing(p, k) => p.todo \cap Matching(k) \subseteq cat'[k].live
    BY <1>2, <1>4, <1>5, FilledTight
  <2>2. \A k \in Keys : Renewed(k) => FilledByListing(p, k)
    BY DEF Renewed, FilledByListing
  <2>3. \A k : Matching(k)' = Matching(k) /\ (IsCached(k)' <=> IsCached(k)) /\ (Renewed(k)' <=> Renewed(k))
    BY <1>2, SamePlaces DEF Renewed
  <2> QED BY <1>4, <1>8, <2>1, <2>2, <2>3 DEF Lively, TightOnes
<1>10. ConfigsAgree(n)'
  BY <1>2, <1>4, <1>5, <1>8, ConfigsLast
<1>11. Agreed(n)'
  BY <1>2, <1>4, <1>6, <1>7, <1>8, <1>9, <1>10, CachesAgreed
<1> QED BY <1>3, <1>11

LEMMA MarkedAgreed ==
    ASSUME WorkTyped, NEW r \in Requests, markListed(r), Informed(req[r]), Agreed(req[r]), faults' = 0
    PROVE  \E n : Step(r, n) /\ Agreed(n)'
<1> DEFINE q == req[r]
<1>1. q \in Request /\ Fits(q, kind, issued)
  BY Going
<1>2. /\ q.pc = "listMark" /\ Step(r, AfterList(q, q.todo))
      /\ cat' = [k \in Keys |-> IF IsCached(k) /\ k \in Marked(q)
                                THEN update_expiration(cat[k], FilledByListing(q, k)) ELSE cat[k]]
      /\ UNCHANGED <<kind, nameOf, clusterOf, groups, clusters, table, configs, holder, deployed, configCache>>
  BY DEF markListed, At, fixed, places, stored, kubernetes
<1>3. PICK n : n = AfterList(q, q.todo)
  OBVIOUS
<1>4. PICK p : p = q
  OBVIOUS
<1>5. /\ p.pc = "listMark" /\ p \in Request /\ p.todo = table \cap Matching(p.key) /\ Filed
      /\ ConfigsAgree(p) /\ Lively(p) /\ TightOnes
  BY <1>1, <1>2, <1>4 DEF Informed, Knows, Agreed, Lively, TightOnes
<1>6. /\ Succeeds(p, n) /\ n.reach /\ KnowsObject(n) /\ KnowsCascade(n) /\ n.pc \in {"idle", "put", "next"}
  <2>1. PICK S : S = p.todo
    OBVIOUS
  <2>2. S \subseteq table \cap Matching(p.key) /\ (Renewed(p.key) => table \cap Matching(p.key) \subseteq S)
    BY <1>5, <2>1
  <2>3. p.pc \in {"list", "listMark"} /\ Fits(p, kind, issued) /\ Agreed(p)
    BY <1>1, <1>4, <1>5
  <2>4. n = AfterList(p, S)
    BY <1>3, <1>4, <2>1
  <2> QED BY <1>5, <2>2, <2>3, <2>4, AfterListKnows
<1>7. TightOnes'
  <2> SUFFICES ASSUME NEW k \in Keys
               PROVE  cat'[k].live \subseteq cat'[k].known /\ (Renewed(k) => Tight(cat'[k]))
    BY <1>2 DEF TightOnes, Renewed, Tight
  <2>1. cat[k] \in Category /\ cat[k].live \subseteq cat[k].known /\ (Renewed(k) => Tight(cat[k]))
    BY <1>5 DEF WorkTyped, TypeOK, TightOnes
  <2>2. PICK d : d = update_expiration(cat[k], FilledByListing(p, k))
    OBVIOUS
  <2>3. cat'[k] = IF IsCached(k) /\ k \in Marked(p) THEN d ELSE cat[k]
    BY <1>2, <1>4, <2>2
  <2>4. CASE ~(IsCached(k) /\ k \in Marked(p)) \/ d = cat[k]
    BY <2>1, <2>3, <2>4
  <2>5. CASE IsCached(k) /\ k \in Marked(p) /\ d # cat[k]
    <3>1. PICK e : e = IF FilledByListing(p, k) THEN {} ELSE cat[k].live
      OBVIOUS
    <3>2. d = [cat[k] EXCEPT !.valid = TRUE, !.old = e]
      BY <2>2, <2>5, <3>1 DEF update_expiration
    <3>3. d.known = cat[k].known /\ d.live = cat[k].live /\ d.old = e
      BY <2>1, <3>2 DEF Category
    <3>4. ASSUME Renewed(k) PROVE Tight(d)
      <4>1. e = {}
        BY <3>1, <3>4 DEF FilledByListing, Renewed
      <4>2. p.key = k \/ p.key = Whole
        BY <2>5 DEF Marked
      <4>3. table \cap Matching(k) \subseteq p.todo
        <5>1. table \subseteq Objects /\ Matching(Whole) = Objects
          BY DEF WorkTyped, TypeOK, Matching
        <5> QED BY <1>5, <4>2, <5>1
      <4>4. p.todo \cap Matching(k) \subseteq cat[k].live
        BY <1>5, <2>5, <3>4 DEF Lively
      <4>5. cat[k].known \subseteq table \cap Matching(k)
        <5>1. cat[k].known \subseteq Objects
          BY <2>1 DEF Category
        <5> QED BY <1>5, <5>1 DEF Filed
      <4>6. cat[k].known \subseteq cat[k].live
        BY <4>3, <4>4, <4>5
      <4> QED BY <2>1, <3>3, <4>1, <4>6 DEF Tight
    <3> QED BY <2>1, <2>3, <2>5, <3>3, <3>4
  <2> QED BY <2>4, <2>5
<1>8. Lively(n)'
  BY <1>6, <1>7 DEF Lively, TightOnes
<1>9. ConfigsAgree(n)'
  BY <1>2, <1>5, <1>6, ConfigsLast
<1>10. Agreed(n)'
  BY <1>2, <1>4, <1>6, <1>8, <1>9, CachesAgreed
<1> QED BY <1>2, <1>3, <1>10

LEMMA UncacheAgreed ==
    ASSUME WorkTyped, NEW r \in Requests, uncache(r), Agreed(req[r]), faults' = 0
    PROVE  \E n : Step(r, n) /\ Agreed(n)'
<1> DEFINE q == req[r]
<1>1. q \in Request /\ Fits(q, kind, issued)
  BY Going
<1>2. /\ q.pc = "uncache" /\ q.o \in Objects
      /\ configCache' = [configCache EXCEPT ![q.o] = None]
      /\ cat' = cat \/ cat' = ErasedFrom(q.o)
      /\ UNCHANGED <<kind, nameOf, clusterOf, groups, clusters, table, configs, holder, deployed>>
  BY <1>1 DEF uncache, At, fixed, places, stored, kubernetes, Fits, AboutOne, Removing
<1>3. PICK n : Step(r, n) /\ Moved(q, n, "dbDelete")
  BY <1>1, MovesOn DEF uncache, Goto
<1>4. PICK p : p = q
  OBVIOUS
<1>5. /\ q.reach /\ KnowsObject(q) /\ KnowsCascade(q) /\ ConfigsAgree(p) /\ TightOnes
      /\ configCache \in [Objects -> Versions \cup {None, Default}] /\ None \notin Versions
  BY <1>4, WorkloadAssumption DEF Agreed, Lively, TightOnes, WorkTyped, TypeOK
<1>6. q.op \in {"create", "delete", "update", "restart", "deleteGroup", "deleteCluster"}
  BY <1>1, <1>2 DEF Fits, Path, Installing, Removing, Request, Ops
<1>7. q.op \in {"delete", "update", "deleteGroup", "deleteCluster"}
  BY <1>2, <1>5, <1>6 DEF KnowsObject, Creates, Restarts, Removing
<1>8. Succeeds(q, n)
  BY <1>2, <1>3, <1>7 DEF Succeeds, Bare, Shifted, Leaves, Emptied, Cascade, Moved
<1>9. KnowsObject(n)
  <2>1. q.op = "update" => Updates(n)
    BY <1>2, <1>3, <1>5 DEF KnowsObject, Updates, Moved, Shifted, Removing
  <2>2. q.op \in {"delete", "deleteGroup", "deleteCluster"} => Removes(n)
    BY <1>2, <1>3, <1>5 DEF KnowsObject, Removes, Moved, Leaves, Cascade
  <2> QED BY <1>3, <1>7, <2>1, <2>2 DEF KnowsObject, Moved, Cascade
<1>10. KnowsCascade(n)
  <2>1. Scope(n) = Scope(q) /\ (Cascade(n) <=> Cascade(q))
    BY <1>3 DEF Scope, Cascade, Moved
  <2> QED BY <1>2, <1>3, <1>5, <2>1 DEF KnowsCascade, Moved, Removing
<1>11. n.reach /\ n.pc = "dbDelete" /\ n.o = p.o
  BY <1>3, <1>4, <1>5 DEF Moved
<1>12. TightOnes'
  <2>1. CASE cat' = cat
    BY <1>2, <1>5, <2>1 DEF TightOnes, Renewed, Tight
  <2>2. CASE cat' = ErasedFrom(q.o)
    <3> SUFFICES ASSUME NEW k \in Keys
                 PROVE  cat'[k].live \subseteq cat'[k].known /\ (Renewed(k) => Tight(cat'[k]))
      BY <1>2 DEF TightOnes, Renewed, Tight
    <3>1. cat[k] \in Category /\ cat[k].live \subseteq cat[k].known /\ (Renewed(k) => Tight(cat[k]))
      BY <1>5 DEF WorkTyped, TypeOK, TightOnes
    <3>2. PICK d : d = [cat[k] EXCEPT !.known = @ \ {p.o}, !.live = @ \ {p.o}, !.old = @ \ {p.o}]
      OBVIOUS
    <3>3. d.known = cat[k].known \ {p.o} /\ d.live = cat[k].live \ {p.o} /\ d.old = cat[k].old \ {p.o}
          /\ d.valid = cat[k].valid
      BY <3>1, <3>2 DEF Category
    <3>4. d.live \subseteq d.known /\ (Tight(cat[k]) => Tight(d))
      BY <3>1, <3>3 DEF Tight
    <3>5. NoCategory.live = {} /\ NoCategory.known = {} /\ Tight(NoCategory)
      BY DEF NoCategory, Tight
    <3>6. cat'[k] = cat[k] \/ cat'[k] = NoCategory \/ cat'[k] = d
      BY <1>4, <2>2, <3>2 DEF ErasedFrom, eraseOne
    <3> QED BY <3>1, <3>4, <3>5, <3>6
  <2> QED BY <1>2, <2>1, <2>2
<1>13. Lively(n)'
  BY <1>11, <1>12 DEF Lively, TightOnes
<1>14. ConfigsAgree(n)'
  <2>1. p.o \in Objects /\ p.pc = "uncache" /\ configCache' = [configCache EXCEPT ![p.o] = None]
    BY <1>2, <1>4
  <2>2. configCache'[p.o] = None /\ \A x \in Objects : x # p.o => configCache'[x] = configCache[x]
    BY <1>5, <2>1
  <2>3. \A x \in Objects : configCache'[x] \in Versions => x \in table /\ configs[x] = configCache'[x]
    BY <1>5, <2>2 DEF ConfigsAgree
  <2> QED BY <1>2, <1>5, <1>11, <2>1, <2>2, <2>3 DEF ConfigsAgree, ConfigsOf
<1>15. Agreed(n)'
  BY <1>2, <1>4, <1>8, <1>9, <1>10, <1>11, <1>13, <1>14, CachesAgreed
<1> QED BY <1>3, <1>15

(***************************************************************************)
(* Every step                                                              *)
(***************************************************************************)
LEMMA ProceedAgreed ==
    ASSUME WorkTyped, NEW r \in Requests, Proceed(r), Informed(req[r]), Agreed(req[r]), faults' = 0
    PROVE  \E n : Step(r, n) /\ Agreed(n)'
<1>1. faults = 0
  BY ProceedHistory
<1>2. CASE getObject(r) \/ cacheFound(r) \/ getConfig(r) \/ listObjects(r) \/ cacheListed(r) \/ markListed(r)
  BY <1>1, <1>2, FindAgreed, FoundAgreed, ConfigAgreed, ListAgreed, ListedAgreed, MarkedAgreed
<1>3. CASE putRecord(r) \/ putConfig(r) \/ cacheNew(r) \/ createNamespace(r) \/ deploy(r) \/ cleanup(r)
  BY <1>3, PutAgreed, PutConfigAgreed, NewAgreed, PreparedAgreed, DeployAgreed, NoCleanup
<1>4. CASE stopInstance(r) \/ awaitStopped(r) \/ undeploy(r) \/ uncache(r) \/ dbDelete(r) \/ dbDeleteConfig(r)
  BY <1>4, StopAgreed, PreparedAgreed, UndeployAgreed, UncacheAgreed, DbDeleteAgreed, DbDeleteConfigAgreed
<1>5. CASE removeGroup(r) \/ nextDeletion(r) \/ endDeletions(r) \/ pingCluster(r) \/ deleteNamespaces(r)
           \/ removeCluster(r)
  BY <1>5, RemoveGroupAgreed, CascadeAgreed, NamespacesAgreed, RemoveClusterAgreed
<1> QED BY <1>2, <1>3, <1>4, <1>5 DEF Proceed

\* A request that arrives, and what it knows.
Arrives(n) == n.reach /\ KnowsObject(n) /\ KnowsCascade(n) /\ n.pc \in {"list", "find", "removeGroup", "ping"}

LEMMA StartArrives ==
    ASSUME WorkTyped, NEW r \in Requests, Start(r) PROVE \E n : Begin(r, n) /\ Arrives(n)
<1>0. table \subseteq issued /\ \A c \in Clusters : c # None
  BY WorkloadAssumption DEF WorkTyped, TypeOK
<1>1. ASSUME NEW key, listBy(r, key) PROVE \E n : Begin(r, n) /\ Arrives(n)
  <2>1. PICK n : n = [Idle EXCEPT !.op = "list", !.pc = "list", !.key = key]
    OBVIOUS
  <2>2. n.op = "list" /\ n.pc = "list" /\ n.reach
    BY <2>1 DEF Idle
  <2>3. Arrives(n)
    BY <2>2 DEF Arrives, KnowsObject, KnowsCascade, Cascade
  <2> QED BY <1>1, <2>1, <2>3 DEF listBy
<1>2. ASSUME NEW o, fetch(r, o) PROVE \E n : Begin(r, n) /\ Arrives(n)
  <2>1. PICK n : n = [Idle EXCEPT !.op = "get", !.pc = "find", !.o = o]
    OBVIOUS
  <2>2. n.op = "get" /\ n.pc = "find" /\ n.reach
    BY <2>1 DEF Idle
  <2>3. Arrives(n)
    BY <2>2 DEF Arrives, KnowsObject, KnowsCascade, Cascade
  <2> QED BY <1>2, <2>1, <2>3 DEF fetch
<1>3. ASSUME NEW o, restart(r, o) PROVE \E n : Begin(r, n) /\ Arrives(n)
  <2>1. PICK n : n = [Idle EXCEPT !.op = "restart", !.pc = "find", !.o = o]
    OBVIOUS
  <2>2. n.op = "restart" /\ n.pc = "find" /\ n.reach /\ n.o = o
    BY <2>1 DEF Idle
  <2>3. Arrives(n)
    BY <1>3, <2>2 DEF Arrives, KnowsObject, KnowsCascade, Cascade, Restarts, Removing, restart
  <2> QED BY <1>3, <2>1, <2>3 DEF restart
<1>4. ASSUME NEW o, NEW v \in ConfigsOf, create(r, o, v) PROVE \E n : Begin(r, n) /\ Arrives(n)
  <2>1. PICK n : n = [Idle EXCEPT !.op = "create", !.pc = "list", !.o = o, !.config = v,
                                  !.key = <<"both", GroupOf[o], clusterOf[o]>>]
    OBVIOUS
  <2>2. /\ n.op = "create" /\ n.pc = "list" /\ n.reach /\ n.o = o /\ n.config = v
        /\ n.key = <<"both", GroupOf[o], clusterOf[o]>>
    BY <2>1 DEF Idle
  <2>3. Creates(n)
    BY <1>0, <1>4, <2>2 DEF Creates, Removing, create
  <2>4. Arrives(n)
    BY <2>2, <2>3 DEF Arrives, KnowsObject, KnowsCascade, Cascade
  <2> QED BY <1>4, <2>1, <2>4 DEF create
<1>5. ASSUME NEW o, NEW v \in ConfigsOf, update(r, o, v) PROVE \E n : Begin(r, n) /\ Arrives(n)
  <2>1. PICK n : n = [Idle EXCEPT !.op = "update", !.pc = "find", !.o = o, !.config = v]
    OBVIOUS
  <2>2. n.op = "update" /\ n.pc = "find" /\ n.reach /\ n.o = o /\ n.config = v
    BY <2>1 DEF Idle
  <2>3. Updates(n)
    BY <1>5, <2>2 DEF Updates, Removing, Shifted, update, ConfigsOf
  <2>4. Arrives(n)
    BY <2>2, <2>3 DEF Arrives, KnowsObject, KnowsCascade, Cascade
  <2> QED BY <1>5, <2>1, <2>4 DEF update
<1>6. ASSUME NEW o, NEW force, delete(r, o, force) PROVE \E n : Begin(r, n) /\ Arrives(n)
  <2>1. PICK n : n = [Idle EXCEPT !.op = "delete", !.pc = "find", !.o = o, !.force = force]
    OBVIOUS
  <2>2. n.op = "delete" /\ n.pc = "find" /\ n.reach
    BY <2>1 DEF Idle
  <2>3. Arrives(n)
    BY <2>2 DEF Arrives, KnowsObject, KnowsCascade, Cascade, Removes
  <2> QED BY <1>6, <2>1, <2>3 DEF delete
<1>7. ASSUME NEW g \in Groups, deleteGroup(r, g) PROVE \E n : Begin(r, n) /\ Arrives(n)
  <2>1. PICK n : n = [Idle EXCEPT !.op = "deleteGroup", !.pc = "removeGroup", !.key = <<"group", g>>]
    OBVIOUS
  <2>2. n.op = "deleteGroup" /\ n.pc = "removeGroup" /\ n.reach /\ n.key = <<"group", g>> /\ n.c = None
    BY <2>1 DEF Idle
  <2>3. Arrives(n)
    BY <2>2 DEF Arrives, KnowsObject, KnowsCascade, Cascade, Removes, Removing
  <2> QED BY <1>7, <2>1, <2>3 DEF deleteGroup
<1>8. ASSUME NEW c \in Clusters, NEW force, deleteCluster(r, c, force)
      PROVE  \E n : Begin(r, n) /\ Arrives(n)
  <2>1. PICK n : n = ClusterCascade(c, force, {})
    OBVIOUS
  <2>2. /\ n.op = "deleteCluster" /\ n.pc = (IF kind = "instance" THEN "list" ELSE "ping") /\ n.reach
        /\ n.key = (IF kind = "instance" THEN Whole ELSE <<"cluster", c>>) /\ n.c = c
    BY <2>1 DEF Idle, ClusterCascade
  <2>3. Arrives(n)
    BY <2>2 DEF Arrives, KnowsObject, KnowsCascade, Cascade, Removes, Removing
  <2> QED BY <1>8, <2>1, <2>3 DEF deleteCluster
<1> QED BY <1>1, <1>2, <1>3, <1>4, <1>5, <1>6, <1>7, <1>8 DEF Start

\* The request that moved and ran alone is the only one that has to know anything.
LEMMA AloneAgreed ==
    ASSUME WorkTyped, WorkTyped', NEW r \in Requests, NEW n, Step(r, n), Alone(r), Agreed(n)'
    PROVE  AgreedAlone'
<1>1. req'[r] = n /\ \A s \in Requests : s # r => req'[s] = req[s] /\ req[s].pc = "idle"
  BY StepsReq DEF Alone
<1>2. ASSUME NEW s \in Requests, ~At(s, "idle")' PROVE Agreed(req[s])'
  BY <1>1, <1>2 DEF At
<1>3. ASSUME Quiescent' PROVE Agreed(Idle)'
  <2>1. n.pc = "idle"
    BY <1>1, <1>3 DEF Quiescent
  <2>2. n \in Request /\ n.pc \in Path(n.op)
    BY <1>1 DEF WorkTyped, RequestsFit, Fits, Request, PCs, Ops
  <2>3. n.op \notin {"create", "update", "restart", "delete", "deleteGroup", "deleteCluster"}
    BY <2>1, <2>2 DEF Path, Installing, Removing, Request, Ops
  <2>4. SlotsAgree(n)' /\ ConfigsAgree(n)' /\ Lively(n)'
    BY DEF Agreed
  <2>5. /\ \A x : ~Bare(n, x) /\ ~Shifted(n, x) /\ ~Emptied(n, x) /\ ~Leaves(n, x)
        /\ \A x : ~Bare(Idle, x) /\ ~Shifted(Idle, x) /\ ~Emptied(Idle, x) /\ ~Leaves(Idle, x)
    BY <2>3, IdleKnows DEF Bare, Shifted, Emptied, Leaves, Cascade
  <2>6. SlotsAgree(Idle)'
    BY <2>4, <2>5 DEF SlotsAgree, Bare, Shifted, Emptied, Leaves, Cascade
  <2>7. ConfigsAgree(Idle)' /\ Lively(Idle)'
    BY <2>1, <2>4, IdleKnows DEF ConfigsAgree, Lively
  <2> QED BY <2>6, <2>7, IdleKnows DEF Agreed
<1> QED BY <1>2, <1>3 DEF AgreedAlone

LEMMA StartAgreed ==
    ASSUME WorkTyped, AgreedAlone, NEW r \in Requests, Start(r) PROVE AgreedAlone'
<1>1. PICK n : Begin(r, n) /\ Arrives(n)
  BY StartArrives
<1>2. /\ Step(r, n) /\ At(r, "idle") /\ overlapped' = (overlapped \/ ~Alone(r)) /\ faults' = faults
      /\ UNCHANGED <<kind, nameOf, clusterOf, groups, clusters, table, configs, holder, deployed,
                     configCache, cat>>
  BY <1>1 DEF Begin, fixed, places, stored, caches, kubernetes
<1>3. CASE overlapped' \/ faults' # 0
  BY <1>3 DEF AgreedAlone
<1>4. CASE ~overlapped' /\ faults' = 0
  <2>1. Alone(r) /\ ~overlapped /\ faults = 0
    BY <1>2, <1>4
  <2>2. Agreed(Idle)
    BY <1>2, <2>1 DEF AgreedAlone, Quiescent, At, Alone
  <2>3. Succeeds(Idle, n)
    BY IdleKnows DEF Succeeds, Bare, Shifted, Leaves, Emptied, Cascade
  <2>4. Agreed(n)'
    BY <1>1, <1>2, <2>2, <2>3, IdleKnows, QuietAgreed DEF Arrives
  <2>5. WorkTyped'
    BY StartTyped
  <2> QED BY <1>2, <2>1, <2>4, <2>5, AloneAgreed
<1> QED BY <1>3, <1>4

\* A record expires after the categories that are up to date and have it, but for
\* those a listing does not renew; and not between a listing and its mark.
LEMMA ExpiredTight ==
    ASSUME WorkTyped, Filed, TightOnes, Expire
    PROVE  /\ TightOnes'
           /\ \A k \in Keys : \A x \in cat[k].live : Renewed(k) =>
                  x \in cat'[k].live \/ \A s \in Requests : At(s, "listMark") => x \notin req[s].todo
<1> SUFFICES ASSUME NEW k \in Keys
             PROVE  /\ cat'[k].live \subseteq cat'[k].known
                    /\ Renewed(k) => Tight(cat'[k])
                    /\ \A x \in cat[k].live : Renewed(k) =>
                           x \in cat'[k].live \/ \A s \in Requests : At(s, "listMark") => x \notin req[s].todo
  <2>1. kind' = kind
    BY DEF Expire, ExpireRecord, ExpireCategory, ExpireCopy, ExpireWhole, fixed
  <2> QED BY <2>1 DEF TightOnes, Renewed, Tight
<1>1. /\ cat[k] \in Category /\ cat \in [Keys -> Category]
      /\ cat[k].live \subseteq cat[k].known /\ (Renewed(k) => Tight(cat[k]))
  BY DEF WorkTyped, TypeOK, TightOnes
<1>2. ASSUME NEW x \in Objects, ExpireRecord(x)
      PROVE  /\ cat'[k].live \subseteq cat'[k].known
             /\ Renewed(k) => Tight(cat'[k])
             /\ \A y \in cat[k].live : y \in cat'[k].live \/ y = x
  <2>1. PICK d : d = [cat[k] EXCEPT !.live = @ \ {x}, !.old = @ \ {x}]
    OBVIOUS
  <2>2. d.known = cat[k].known /\ d.live = cat[k].live \ {x} /\ d.old = cat[k].old \ {x}
        /\ d.valid = cat[k].valid
    BY <1>1, <2>1 DEF Category
  <2>3. cat'[k] = d
    BY <1>2, <2>1 DEF ExpireRecord
  <2>4. ASSUME Renewed(k), cat[k].valid, x \in cat[k].known PROVE FALSE
    <3>1. x \in cat[k].live /\ cat[k].old = {}
      BY <1>1, <2>4 DEF Tight
    <3>2. x \in Matching(k)
      BY <2>4 DEF Filed
    <3>3. k \in KeysOf(x)
      BY <3>2 DEF Matching, Keys, Whole
    <3> QED BY <1>2, <2>4, <3>1, <3>3 DEF ExpireRecord
  <2> QED BY <1>1, <2>2, <2>3, <2>4 DEF Tight
<1>3. ASSUME NEW l \in Keys, NEW x, ExpireCopy(l, x)
      PROVE  /\ cat'[k].live \subseteq cat'[k].known
             /\ Renewed(k) => Tight(cat'[k]) /\ cat'[k].live = cat[k].live
  <2>1. PICK d : d = [cat[l] EXCEPT !.live = @ \ {x}, !.old = @ \ {x}]
    OBVIOUS
  <2>2. d.known = cat[l].known /\ d.live = cat[l].live \ {x}
    BY <1>1, <2>1 DEF Category
  <2>3. cat' = [cat EXCEPT ![l] = d]
    BY <1>1, <1>3, <2>1 DEF ExpireCopy
  <2>4. CASE k # l
    BY <1>1, <2>3, <2>4
  <2>5. CASE k = l
    <3>1. cat'[k] = d /\ ~Renewed(k)
      BY <1>1, <1>3, <2>3, <2>5 DEF ExpireCopy, Tight
    <3> QED BY <1>1, <2>2, <2>5, <3>1
  <2> QED BY <2>4, <2>5
<1>4. ASSUME NEW l \in Keys, ExpireCategory(l)
      PROVE  /\ cat'[k].live \subseteq cat'[k].known
             /\ Renewed(k) => Tight(cat'[k]) /\ cat'[k].live = cat[k].live
  <2>1. PICK d : d = [cat[l] EXCEPT !.valid = FALSE, !.old = {}]
    OBVIOUS
  <2>2. d.known = cat[l].known /\ d.live = cat[l].live /\ d.old = {} /\ d.valid = FALSE
    BY <1>1, <2>1 DEF Category
  <2>3. cat' = [cat EXCEPT ![l] = d]
    BY <1>1, <1>4, <2>1 DEF ExpireCategory
  <2>4. cat'[k] = IF k = l THEN d ELSE cat[k]
    BY <1>1, <2>3
  <2> QED BY <1>1, <2>2, <2>4 DEF Tight
<1>5. CASE cat' = cat
  BY <1>1, <1>5
<1>6. CASE \E x \in Objects : ExpireRecord(x)
  <2>1. PICK x \in Objects : ExpireRecord(x)
    BY <1>6
  <2>2. \A s \in Requests : At(s, "listMark") => x \notin req[s].todo
    BY <2>1 DEF ExpireRecord
  <2> QED BY <1>2, <2>1, <2>2
<1> QED BY <1>3, <1>4, <1>5, <1>6 DEF Expire, ExpireWhole

\* Nothing that a request relies on expires.
LEMMA ExpiryAgreed == ASSUME WorkTyped, OneAtATime, AgreedAlone, Expire PROVE AgreedAlone'
<1>1. UNCHANGED <<kind, nameOf, clusterOf, groups, clusters, table, configs, holder, deployed, req,
                  overlapped, faults>>
  BY DEF Expire, ExpireRecord, ExpireCategory, ExpireCopy, ExpireWhole, fixed, places, stored, kubernetes
<1>2. ASSUME NEW x \in Objects, configCache'[x] \in Versions PROVE configCache[x] = configCache'[x]
  <2>1. configCache \in [Objects -> Versions \cup {None, Default}] /\ Default \notin Versions
    BY WorkloadAssumption DEF WorkTyped, TypeOK
  <2>2. CASE \E y \in Objects : ExpireRecord(y)
    BY <1>2, <2>1, <2>2 DEF ExpireRecord
  <2>3. CASE configCache' = configCache
    BY <2>3
  <2> QED BY <2>2, <2>3 DEF Expire, ExpireCategory, ExpireCopy, ExpireWhole
<1>3. ASSUME Filed, NEW p, Agreed(p), p.pc \in {"dbDelete", "putConfig"} => p.o \in Objects,
             p.pc = "listMark" => \E s \in Requests : req[s] = p
      PROVE  Agreed(p)'
  <2>1. TightOnes
    BY <1>3 DEF Agreed, Lively, TightOnes
  <2>2. Lively(p)'
    <3>1. ASSUME p.pc = "listMark", NEW k \in Keys, IsCached(k), Renewed(k)
          PROVE  p.todo \cap Matching(k) \subseteq cat'[k].live
      <4>1. p.todo \cap Matching(k) \subseteq cat[k].live
        BY <1>3, <3>1 DEF Agreed, Lively
      <4>2. PICK s \in Requests : req[s] = p /\ At(s, "listMark")
        BY <1>3, <3>1 DEF At
      <4> QED BY <1>3, <2>1, <3>1, <4>1, <4>2, ExpiredTight
    <3>2. TightOnes'
      BY <1>3, <2>1, ExpiredTight
    <3>3. \A k : Matching(k)' = Matching(k) /\ (IsCached(k)' <=> IsCached(k))
      BY <1>1, SamePlaces
    <3> QED BY <1>1, <3>1, <3>2, <3>3 DEF Lively, TightOnes, Renewed, Tight
  <2>3. ConfigsAgree(p)'
    BY <1>1, <1>2, <1>3 DEF Agreed, ConfigsAgree, ConfigsOf
  <2>4. Succeeds(p, p)
    BY DEF Succeeds
  <2> QED BY <1>1, <1>3, <2>2, <2>3, <2>4, CachesAgreed DEF Agreed
<1>4. CASE overlapped \/ faults # 0
  BY <1>1, <1>4 DEF AgreedAlone
<1>5. CASE ~overlapped /\ faults = 0
  <2>1. Filed
    BY <1>5 DEF OneAtATime
  <2>2. ASSUME NEW s \in Requests, ~At(s, "idle") PROVE Agreed(req[s])'
    <3>1. PICK p : p = req[s]
      OBVIOUS
    <3>2. p.pc \in {"dbDelete", "putConfig"} => p.o \in Objects
      BY <3>1 DEF WorkTyped, RequestsFit, Fits, AboutOne, Removing
    <3>3. Agreed(p)
      BY <1>5, <2>2, <3>1 DEF AgreedAlone
    <3>4. Agreed(p)'
      BY <1>3, <2>1, <3>1, <3>2, <3>3
    <3> QED BY <1>1, <3>1, <3>4
  <2>3. ASSUME Quiescent PROVE Agreed(Idle)'
    <3>1. Agreed(Idle)
      BY <1>5, <2>3 DEF AgreedAlone
    <3> QED BY <1>3, <2>1, <3>1, IdleKnows
  <2> QED BY <1>1, <2>2, <2>3 DEF AgreedAlone, Quiescent, At
<1> QED BY <1>4, <1>5

LEMMA StepAgreed == ASSUME WorkTyped, OneAtATime, AgreedAlone, [Next]_vars PROVE AgreedAlone'
<1>1. CASE UNCHANGED vars
  <2>1. UNCHANGED <<kind, nameOf, clusterOf, groups, clusters, table, configs, holder, deployed,
                    configCache, cat, req, overlapped, faults>>
    BY <1>1 DEF vars
  <2>2. ASSUME NEW p, Agreed(p) PROVE Agreed(p)'
    <3>1. Succeeds(p, p)
      BY DEF Succeeds
    <3>2. ConfigsAgree(p)'
      BY <2>1, <2>2 DEF Agreed, ConfigsAgree, ConfigsOf
    <3>3. Lively(p)'
      <4>1. \A k : Matching(k)' = Matching(k) /\ (IsCached(k)' <=> IsCached(k))
        BY <2>1, SamePlaces
      <4> QED BY <2>1, <2>2, <4>1 DEF Agreed, Lively, Renewed, Tight
    <3> QED BY <2>1, <2>2, <3>1, <3>2, <3>3, CachesAgreed DEF Agreed
  <2>3. ASSUME NEW s \in Requests, Agreed(req[s]) PROVE Agreed(req[s])'
    <3>1. PICK p : p = req[s]
      OBVIOUS
    <3> QED BY <2>1, <2>2, <2>3, <3>1
  <2> QED BY <2>1, <2>2, <2>3 DEF AgreedAlone, Quiescent, At
<1>2. CASE Expire \/ \E r \in Requests : Start(r)
  BY <1>2, ExpiryAgreed, StartAgreed
<1>3. ASSUME NEW r \in Requests, Proceed(r) PROVE AgreedAlone'
  <2>1. overlapped' = overlapped /\ ~At(r, "idle")
    BY <1>3 DEF Proceed, getObject, cacheFound, getConfig, listObjects, cacheListed, markListed,
                putRecord, putConfig, cacheNew, createNamespace, deploy, cleanup, stopInstance,
                awaitStopped, undeploy, uncache, dbDelete, dbDeleteConfig, removeGroup, nextDeletion,
                endDeletions, pingCluster, deleteNamespaces, removeCluster, At
  <2>2. CASE overlapped \/ faults' # 0
    BY <2>1, <2>2 DEF AgreedAlone
  <2>3. CASE ~overlapped /\ faults' = 0
    <3>1. faults = 0
      BY <1>3, <2>3, ProceedHistory
    <3>2. Alone(r) /\ Informed(req[r]) /\ Agreed(req[r])
      BY <2>1, <2>3, <3>1 DEF OneAtATime, AgreedAlone, Lone, Alone, At
    <3>3. PICK n : Step(r, n) /\ Agreed(n)'
      BY <1>3, <2>3, <3>2, ProceedAgreed
    <3>4. WorkTyped'
      BY StepTyped
    <3> QED BY <3>2, <3>3, <3>4, AloneAgreed
  <2> QED BY <2>2, <2>3
<1> QED BY <1>1, <1>2, <1>3 DEF Next

\* As long as no two requests were in progress at a time and no call failed, what
\* runs is what is recorded at every step of every handler, but for the object or the
\* group that the handler is at (createInstance, updateInstance, restartInstance,
\* deleteInstance, deleteGroup, deleteCluster and their likes).
THEOREM ClustersInvariant == Spec => [](WorkTyped /\ OneAtATime /\ AgreedAlone)
<1>1. ASSUME Init, WorkTyped PROVE AgreedAlone
  <2>1. PICK v \in ConfigsOf : /\ configs = [o \in Objects |-> IF o \in table THEN v ELSE None]
                               /\ deployed = [k \in Slots |-> v]
    BY <1>1 DEF Init
  <2>2. /\ req = [r \in Requests |-> Idle] /\ groups = Groups /\ clusters = Clusters
        /\ table \subseteq Objects /\ clusterOf \in [Objects -> Clusters]
        /\ cat = [k \in Keys |-> NoCategory] /\ configCache = [o \in Objects |-> None]
        /\ \A o, p \in table : Slot(o) = Slot(p) => o = p
        /\ holder = [k \in Slots |-> IF \E o \in table : Slot(o) = k
                                     THEN CHOOSE o \in table : Slot(o) = k ELSE None]
    BY <1>1 DEF Init
  <2>3. /\ \A k \in Slots : k[1] \in Clusters /\ k[2] \in Groups
        /\ \A o \in Objects : o # None /\ Slot(o) \in Slots /\ GroupOf[o] \in Groups
        /\ None \notin Versions
    BY <1>1, SlotTyped, WorkloadAssumption DEF Slots
  <2>4. SlotsAgree(Idle)
    <3>1. ASSUME NEW k \in running
          PROVE  k[1] \in clusters /\ k[2] \in groups /\ \E o \in table : Slot(o) = k
      BY <2>2, <2>3 DEF running
    <3>2. ASSUME NEW o \in table PROVE Slot(o) \in running /\ deployed[Slot(o)] = configs[o]
      <4>1. (CHOOSE p \in table : Slot(p) = Slot(o)) \in table
        OBVIOUS
      <4> QED BY <2>1, <2>2, <2>3, <4>1 DEF running
    <3>3. \A o \in table : Addressable(o)
      BY <2>2, <2>3 DEF Addressable
    <3> QED BY <2>2, <3>1, <3>2, <3>3 DEF SlotsAgree
  <2>5. ConfigsAgree(Idle)
    BY <2>1, <2>2, <2>3, IdleKnows DEF ConfigsAgree
  <2>6. Lively(Idle)
    <3>1. NoCategory.known = {} /\ NoCategory.live = {} /\ NoCategory.old = {}
      BY DEF NoCategory
    <3> QED BY <2>2, <3>1, IdleKnows DEF Lively, Tight
  <2>7. \A r \in Requests : req[r].pc = "idle"
    BY <2>2, IdleKnows
  <2> QED BY <2>4, <2>5, <2>6, <2>7, IdleKnows DEF AgreedAlone, Agreed, At
<1>2. (WorkTyped /\ OneAtATime /\ AgreedAlone) /\ [Next]_vars => AgreedAlone'
  BY StepAgreed
<1>3. ASSUME Init PROVE WorkTyped /\ AgreedAlone
  BY <1>1, <1>3, InitTyped
<1>4. (WorkTyped /\ OneAtATime)' /\ AgreedAlone' => (WorkTyped /\ OneAtATime /\ AgreedAlone)'
  OBVIOUS
<1> QED BY <1>2, <1>3, <1>4, RecordsInvariant, PTL DEF Spec

\* Between requests that ran one at a time, unless a call failed, what runs on the
\* clusters is what is recorded, with the configuration that is recorded, and of a
\* deleted group and on a deleted cluster no instance or secret is left.
THEOREM RecordsAndClusters == Spec => []ClustersAgree
<1>1. ASSUME AgreedAlone, Settled, ~overlapped
      PROVE  /\ \A k \in running : \E o \in table : Slot(o) = k
             /\ \A o, p \in table : Slot(o) = Slot(p) => o = p
             /\ \A o \in table : Addressable(o) =>
                    Slot(o) \in running /\ deployed[Slot(o)] = configs[o]
             /\ kind # "volume" => \A o \in table : Addressable(o)
  <2>1. SlotsAgree(Idle)
    BY <1>1 DEF AgreedAlone, Settled, Agreed
  <2>2. \A x : ~Bare(Idle, x) /\ ~Shifted(Idle, x) /\ ~Emptied(Idle, x) /\ ~Leaves(Idle, x)
    BY IdleKnows DEF Bare, Shifted, Emptied, Leaves, Cascade
  <2> QED BY <2>1, <2>2 DEF SlotsAgree
<1>2. AgreedAlone => ClustersAgree
  BY <1>1 DEF ClustersAgree, KubernetesAgrees, NothingLeftBehind
<1> QED BY <1>2, ClustersInvariant, PTL
=============================================================================

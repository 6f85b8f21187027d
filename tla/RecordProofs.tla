---------------------------- MODULE RecordProofs ----------------------------
(***************************************************************************)
(* Proofs about records and the caches they are kept in: the record,       *)
(* caches and kubeconfig file of a cluster; the multimap behind the caches *)
(* by category; the records of a cluster's name in DNS; the records, names *)
(* and listing of groups; the catalogue of applications; and the           *)
(* inspection of a cluster, which compares records with what is deployed;  *)
(* and the application permissions of a group on a cluster, where requests *)
(* that do not overlap implement PermissionRegister, and overlapping ones  *)
(* keep what none of them names.  All of them for any number of requests,  *)
(* keys and values.                                                        *)
(***************************************************************************)
EXTENDS ClusterRecords, Multimap, Names, GroupRecords, Catalogue, Inspection, AppPermissions,
        FiniteSetTheorems, TLAPS

-----------------------------------------------------------------------------
(* The record of a cluster.                                                *)

ConfigValues == Nat \cup Sites \cup {Missing}
Looking == ClusterOps \ {"create", "list"}
CallPlaces == {"idle", "find", "cache", "write", "path", "put", "erase", "delete", "delete sites",
               "list", "stamp", "place", "locate", "record sites"}

ClusterTypes ==
  /\ clusterItem \in Nat \cup {Missing} /\ siteItem \in Sites \cup {Missing}
  /\ clusterRecord \in {Missing} \cup [config : ConfigValues, live : BOOLEAN]
  /\ configsMade \in Nat /\ overlapped \in BOOLEAN
  /\ clusterCall \in [ClusterRequests -> [op : ClusterOps \cup {"none", "stored"},
                                          at : CallPlaces, config : ConfigValues]]
  /\ \A r \in ClusterRequests :
       /\ Is(r, "idle") => clusterCall[r] = NoCall
       /\ Is(r, "find") => clusterCall[r].op \in Looking
       /\ Is(r, "list") => clusterCall[r].op = "list"
       /\ Is(r, "cache") \/ Is(r, "write") => clusterCall[r].op \in Looking \cup {"list", "stored"}

Busy == {r \in ClusterRequests : clusterCall[r] # NoCall}
NoneAt(places) == \A r \in ClusterRequests : clusterCall[r].at \notin places
Present == clusterRecord # Missing <=> clusterItem # Missing

(* What the place of the one request in progress says of the records.      *)
CallAgrees(r) ==
  /\ Is(r, "cache") => Config(r) = clusterItem /\ clusterItem # Missing
  /\ Is(r, "write") => /\ Config(r) = clusterItem /\ clusterItem # Missing
                       /\ clusterRecord # Missing /\ clusterRecord.config = clusterItem
  /\ Is(r, "delete") => clusterRecord = Missing /\ siteCache = Missing
  /\ Is(r, "delete sites") => clusterRecord = Missing /\ clusterItem = Missing /\ siteCache = Missing
  /\ Is(r, "stamp") => Present
  /\ Is(r, "record sites") => Config(r) = siteItem

(* One request at a time: each part of the agreement holds except while    *)
(* that request is between the two steps that change both sides of it.     *)
OneAtATime ==
  /\ \A r, s \in Busy : r = s
  /\ ~Phantom(clusterItem, clusterRecord)
  /\ NoneAt({"cache", "write"}) =>
       (clusterRecord # Missing /\ clusterRecord.live =>
          clusterRecord.config = clusterItem /\ configFile = clusterItem)
  /\ NoneAt({"cache", "delete"}) => (listingValid => Present)
  /\ NoneAt({"record sites"}) => (siteCache # Missing => siteCache = siteItem)
  /\ \A r \in ClusterRequests : CallAgrees(r)

ClusterInv == ClusterTypes /\ (~overlapped => OneAtATime)

(* Two elements of a finite set that does not have more than one are equal. *)
LEMMA AtMostOne ==
  ASSUME NEW S, IsFiniteSet(S), ~(Cardinality(S) > 1), NEW r \in S, NEW s \in S
  PROVE  r = s
<1> SUFFICES ASSUME r # s PROVE FALSE
  OBVIOUS
<1>1. IsFiniteSet({r}) /\ Cardinality({r}) = 1
  BY FS_Singleton
<1>2. Cardinality({r} \cup {s}) = 2
  BY <1>1, FS_AddElement
<1>3. {r} \cup {s} \in SUBSET S
  OBVIOUS
<1>4. Cardinality({r} \cup {s}) <= Cardinality(S)
  BY <1>3, FS_Subset
<1>5. Cardinality(S) \in Nat
  BY FS_CardinalityType
<1> QED BY <1>2, <1>4, <1>5

(* When overlapped is not set after a step, either the records agree with  *)
(* no request in progress, or it was not set before, nothing failed and at *)
(* most one request is in progress.                                        *)
LEMMA Watched ==
  ASSUME ClusterTypes, ClusterTypes', NEW failed \in BOOLEAN, Watch(failed), ~overlapped', ~OneAtATime'
  PROVE  ~overlapped /\ ~failed /\ \A r, s \in Busy' : r = s
<1>1. CallsInProgress = Busy'
  BY DEF CallsInProgress, Busy
<1>2. CASE /\ Busy' = {} /\ ~Phantom(clusterItem', clusterRecord')
           /\ Agree(clusterItem', clusterRecord', configFile', listingValid', siteItem', siteCache')
  <2>1. \A r \in ClusterRequests : clusterCall'[r] = NoCall /\ clusterCall'[r].at = "idle"
    BY <1>2 DEF Busy, NoCall
  <2>2. OneAtATime'
    BY <1>2, <2>1 DEF OneAtATime, NoneAt, CallAgrees, Is, Agree, Present
  <2> QED BY <2>2
<1>3. CASE ~(/\ Busy' = {} /\ ~Phantom(clusterItem', clusterRecord')
             /\ Agree(clusterItem', clusterRecord', configFile', listingValid', siteItem', siteCache'))
  <2>1. overlapped' = (overlapped \/ failed \/ Cardinality(Busy') > 1)
    BY <1>1, <1>3 DEF Watch
  <2>2. ~overlapped /\ ~failed /\ ~(Cardinality(Busy') > 1)
    BY <2>1
  <2>3. IsFiniteSet(Busy')
    <3>1. Busy' \in SUBSET ClusterRequests
      BY DEF Busy
    <3> QED BY <3>1, ClusterAssumption, FS_Subset
  <2> QED BY <2>2, <2>3, AtMostOne
<1> QED BY <1>2, <1>3

(* The agreement, as seen by the only request in progress.                 *)
AgreesAt(r) ==
  /\ ~Phantom(clusterItem, clusterRecord)
  /\ clusterCall[r].at \notin {"cache", "write"} =>
       (clusterRecord # Missing /\ clusterRecord.live =>
          clusterRecord.config = clusterItem /\ configFile = clusterItem)
  /\ clusterCall[r].at \notin {"cache", "delete"} => (listingValid => Present)
  /\ clusterCall[r].at # "record sites" => (siteCache # Missing => siteCache = siteItem)
  /\ CallAgrees(r)

(* What a step of request r has to establish.                              *)
LEMMA CallStep ==
  ASSUME ClusterInv, NEW r \in ClusterRequests, ClusterTypes', r \in Busy \/ r \in Busy',
         \A s \in ClusterRequests : s # r => clusterCall'[s] = clusterCall[s],
         NEW failed \in BOOLEAN, Watch(failed),
         ~failed /\ AgreesAt(r) => AgreesAt(r)'
  PROVE  ClusterInv'
<1> SUFFICES ASSUME ~overlapped', ~OneAtATime' PROVE FALSE
  BY DEF ClusterInv
<1>1. ~overlapped /\ ~failed /\ \A p, s \in Busy' : p = s
  BY Watched DEF ClusterInv
<1>2. OneAtATime
  BY <1>1 DEF ClusterInv
<1>3. \A s \in ClusterRequests : s # r => clusterCall[s] = NoCall /\ clusterCall'[s] = NoCall
  BY <1>1, <1>2 DEF OneAtATime, Busy
<1>4. NoCall.at = "idle"
  BY DEF NoCall
<1>5. AgreesAt(r)
  BY <1>2, <1>3, <1>4 DEF OneAtATime, AgreesAt, NoneAt
<1>6. AgreesAt(r)'
  BY <1>1, <1>5
<1>7. \A s \in ClusterRequests : CallAgrees(s)'
  BY <1>3, <1>4, <1>6 DEF AgreesAt, CallAgrees, Is
<1>8. OneAtATime'
  BY <1>1, <1>3, <1>4, <1>6, <1>7 DEF OneAtATime, AgreesAt, NoneAt
<1> QED BY <1>8

CallRecords == [op : ClusterOps \cup {"none", "stored"}, at : CallPlaces, config : ConfigValues]

(* The places a request goes on to when it has the record.                 *)
LEMMA GoesOnTyped ==
  ASSUME NEW op \in Looking \cup {"list"}
  PROVE  /\ GoesOn[op] \in {"path", "put", "erase", "stamp", "place", "locate"}
         /\ GoesOn[op] = "stamp" => op = "list"
BY DEF GoesOn, Looking, ClusterOps

(* Request r is replaced by a well-formed one.                             *)
LEMMA CallTyped ==
  ASSUME ClusterTypes, NEW r \in ClusterRequests, NEW c \in CallRecords,
         clusterCall' = [clusterCall EXCEPT ![r] = c],
         c.at = "idle" => c = NoCall,
         c.at = "find" => c.op \in Looking, c.at = "list" => c.op = "list",
         c.at \in {"cache", "write"} => c.op \in Looking \cup {"list", "stored"},
         clusterItem' \in Nat \cup {Missing}, siteItem' \in Sites \cup {Missing},
         clusterRecord' \in {Missing} \cup [config : ConfigValues, live : BOOLEAN],
         configsMade' \in Nat, overlapped' \in BOOLEAN
  PROVE  /\ ClusterTypes' /\ clusterCall'[r] = c
         /\ \A s \in ClusterRequests : s # r => clusterCall'[s] = clusterCall[s]
BY DEF ClusterTypes, CallRecords, Is

(* A request that has ended.                                               *)
LEMMA NoCallTyped == NoCall \in CallRecords /\ NoCall.at = "idle"
BY DEF NoCall, CallRecords, CallPlaces, ConfigValues

(* Whether requests overlapped stays a truth value.                        *)
LEMMA WatchTyped ==
  ASSUME ClusterTypes, NEW failed \in BOOLEAN, Watch(failed)
  PROVE  overlapped' \in BOOLEAN
BY DEF Watch, ClusterTypes

(* A request that goes on keeps what it does.                              *)
Moved(r, at, config) == [clusterCall[r] EXCEPT !.at = at, !.config = config]

(* It stays well-formed.                                                   *)
GoesWell(r) ==
  \A at \in CallPlaces, config \in ConfigValues : Goes(r, at, config) =>
    /\ Moved(r, at, config) \in CallRecords
    /\ clusterCall' = [clusterCall EXCEPT ![r] = Moved(r, at, config)]
    /\ Moved(r, at, config).op = clusterCall[r].op
    /\ Moved(r, at, config).at = at /\ Moved(r, at, config).config = config

(* That holds of every request.                                            *)
LEMMA GoesTyped == ASSUME ClusterTypes, NEW r \in ClusterRequests PROVE GoesWell(r)
<1> SUFFICES ASSUME NEW at \in CallPlaces, NEW config \in ConfigValues, Goes(r, at, config)
             PROVE  LET c == Moved(r, at, config) IN
                    /\ c \in CallRecords /\ clusterCall' = [clusterCall EXCEPT ![r] = c]
                    /\ c.op = clusterCall[r].op /\ c.at = at /\ c.config = config
  BY DEF GoesWell
<1> DEFINE c == Moved(r, at, config)
<1>1. clusterCall \in [ClusterRequests -> CallRecords]
  BY DEF ClusterTypes, CallRecords
<1>2. c \in CallRecords /\ c.op = clusterCall[r].op /\ c.at = at /\ c.config = config
  BY <1>1 DEF CallRecords, Moved
<1>3. clusterCall' = [clusterCall EXCEPT ![r] = c]
  BY <1>1 DEF Goes, Moved
<1> QED BY <1>2, <1>3

(* A request begins: nothing is changed yet.                               *)
LEMMA RequestPreserves ==
  ASSUME ClusterInv, NEW r \in ClusterRequests, requestCluster(r)
  PROVE  ClusterInv'
<1>0. ClusterTypes /\ Watch(FALSE)
  BY DEF ClusterInv, requestCluster
<1>1. PICK op \in ClusterOps :
        clusterCall' = [clusterCall EXCEPT ![r] = [op |-> op, at |-> Begins[op], config |-> Missing]]
  BY DEF requestCluster
<1> DEFINE c == [op |-> op, at |-> Begins[op], config |-> Missing]
<1>2. /\ Begins[op] \in {"put", "list", "find"}
      /\ (Begins[op] = "find" => op \in Looking)
      /\ (Begins[op] = "list" => op = "list")
  BY DEF Begins, ClusterOps, Looking
<1>3. c \in CallRecords /\ c.at = Begins[op] /\ c.op = op
  BY <1>2 DEF CallRecords, CallPlaces, ConfigValues
<1>4. UNCHANGED <<clusterItem, clusterRecord, configFile, listingValid, siteItem, siteCache, configsMade>>
  BY DEF requestCluster, siteVars
<1>5. /\ ClusterTypes' /\ clusterCall'[r] = c
      /\ \A s \in ClusterRequests : s # r => clusterCall'[s] = clusterCall[s]
  <2> HIDE DEF c
  <2> QED BY <1>0, <1>1, <1>2, <1>3, <1>4, CallTyped, WatchTyped DEF ClusterTypes, c
<1>6. clusterCall[r].at = "idle" /\ r \in Busy'
  BY <1>2, <1>3, <1>5, NoCallTyped DEF requestCluster, Busy
<1>7. AgreesAt(r) => AgreesAt(r)'
  BY <1>2, <1>3, <1>4, <1>5, <1>6 DEF AgreesAt, CallAgrees, Is, Present
<1> QED BY <1>0, <1>5, <1>6, <1>7, CallStep

(* A request that ends without a change, or after a failed call.           *)
LEMMA EndPreserves ==
  ASSUME ClusterInv, NEW r \in ClusterRequests, Ends(r), clusterCall[r].at # "idle",
         NEW failed \in BOOLEAN, Watch(failed),
         UNCHANGED <<clusterItem, clusterRecord, configFile, listingValid, siteItem, siteCache, configsMade>>,
         failed \/ clusterCall[r].at \notin {"cache", "write", "delete", "record sites"}
  PROVE  ClusterInv'
<1>1. /\ ClusterTypes' /\ clusterCall'[r] = NoCall
      /\ \A s \in ClusterRequests : s # r => clusterCall'[s] = clusterCall[s]
  BY NoCallTyped, CallTyped, WatchTyped DEF ClusterInv, ClusterTypes, Ends
<1>2. r \in Busy
  BY NoCallTyped DEF Busy
<1>3. ~failed /\ AgreesAt(r) => AgreesAt(r)'
  BY <1>1, NoCallTyped DEF AgreesAt, CallAgrees, Is, Present
<1> QED BY <1>1, <1>2, <1>3, CallStep

(* A request that goes on to a place where everything has to agree.        *)
LEMMA QuietlyPreserves ==
  ASSUME ClusterInv, NEW r \in ClusterRequests, NEW at \in CallPlaces, NEW config \in ConfigValues,
         Goes(r, at, config), clusterCall[r].at \notin {"idle", "cache", "write", "delete", "record sites"},
         Watch(FALSE),
         UNCHANGED <<clusterItem, clusterRecord, configFile, listingValid, siteItem, siteCache, configsMade>>,
         at \notin {"idle", "find", "list", "write", "delete", "delete sites"},
         at = "cache" => /\ clusterCall[r].op \in Looking \cup {"list", "stored"}
                         /\ config = clusterItem /\ clusterItem # Missing,
         at = "stamp" /\ ~Phantom(clusterItem, clusterRecord) => Present,
         at = "record sites" => config = siteItem
  PROVE  ClusterInv'
<1>0. ClusterTypes
  BY DEF ClusterInv
<1> DEFINE c == Moved(r, at, config)
<1>1. /\ c \in CallRecords /\ clusterCall' = [clusterCall EXCEPT ![r] = c]
      /\ c.op = clusterCall[r].op /\ c.at = at /\ c.config = config
  <2>1. GoesWell(r)
    BY <1>0, GoesTyped
  <2> QED BY <2>1 DEF GoesWell
<1> HIDE DEF c
<1>2. /\ ClusterTypes' /\ clusterCall'[r] = c
      /\ \A s \in ClusterRequests : s # r => clusterCall'[s] = clusterCall[s]
  BY <1>0, <1>1, CallTyped, WatchTyped DEF ClusterTypes
<1>3. r \in Busy
  BY NoCallTyped DEF Busy
<1>4. AgreesAt(r) => AgreesAt(r)'
  BY <1>1, <1>2 DEF AgreesAt, CallAgrees, Is, Present, Config
<1> QED BY <1>2, <1>3, <1>4, CallStep

(* A step of request r that changes a record, a file, an item or the       *)
(* locations, and replaces the request by c; it keeps what agrees unless it*)
(* fails.                                                                  *)
LEMMA ChangePreserves ==
  ASSUME ClusterInv, NEW r \in ClusterRequests, NEW c \in CallRecords,
         clusterCall' = [clusterCall EXCEPT ![r] = c], clusterCall[r].at # "idle",
         c.at = "idle" => c = NoCall, c.at \notin {"find", "list"},
         c.at \in {"cache", "write"} => c.op \in Looking \cup {"list", "stored"},
         clusterItem' \in Nat \cup {Missing}, siteItem' \in Sites \cup {Missing},
         clusterRecord' \in {Missing} \cup [config : ConfigValues, live : BOOLEAN],
         configsMade' \in Nat, NEW failed \in BOOLEAN, Watch(failed),
         ~failed /\ clusterCall'[r] = c /\ AgreesAt(r) => AgreesAt(r)'
  PROVE  ClusterInv'
<1>0. ClusterTypes
  BY DEF ClusterInv
<1>1. /\ ClusterTypes' /\ clusterCall'[r] = c
      /\ \A s \in ClusterRequests : s # r => clusterCall'[s] = clusterCall[s]
  BY <1>0, CallTyped, WatchTyped
<1>2. r \in Busy
  BY NoCallTyped DEF Busy
<1> QED BY <1>1, <1>2, CallStep

(* The lookup of a cluster (findClusterByID, findClusterByName).           *)
LEMMA FindPreserves ==
  ASSUME ClusterInv, NEW r \in ClusterRequests, findCluster(r)
  PROVE  ClusterInv'
<1> DEFINE op == clusterCall[r].op
<1>0. /\ UNCHANGED <<clusterItem, clusterRecord, configFile, listingValid, siteItem, siteCache, configsMade>>
      /\ clusterCall[r].at = "find" /\ op \in Looking
      /\ clusterItem \in ConfigValues /\ Missing \in ConfigValues
  BY DEF findCluster, siteVars, Is, ClusterInv, ClusterTypes, ConfigValues
<1>1. CASE clusterRecord # Missing /\ Goes(r, GoesOn[op], Missing) /\ Watch(FALSE)
  <2>1. GoesOn[op] \in {"path", "put", "erase", "stamp", "place", "locate"}
    BY <1>0, GoesOnTyped
  <2>2. ~Phantom(clusterItem, clusterRecord) => Present
    BY <1>1 DEF Phantom, Present
  <2> QED BY <1>0, <1>1, <2>1, <2>2, QuietlyPreserves DEF CallPlaces
<1>2. CASE clusterItem # Missing /\ Goes(r, "cache", clusterItem) /\ Watch(FALSE)
  BY <1>0, <1>2, QuietlyPreserves DEF CallPlaces
<1>3. CASE Ends(r) /\ (Watch(FALSE) \/ Watch(TRUE))
  BY <1>0, <1>3, EndPreserves
<1> QED BY <1>1, <1>2, <1>3 DEF findCluster

(* The caches take over what the request holds.                            *)
LEMMA CachePreserves ==
  ASSUME ClusterInv, NEW r \in ClusterRequests, cacheCluster(r)
  PROVE  ClusterInv'
<1> DEFINE c == Moved(r, "write", Config(r))
<1>0. /\ ClusterTypes /\ clusterCall[r].at = "cache" /\ Config(r) \in ConfigValues
      /\ clusterCall[r].op \in Looking \cup {"list", "stored"}
  BY DEF ClusterInv, ClusterTypes, cacheCluster, Is, Config
<1>1. /\ c \in CallRecords /\ clusterCall' = [clusterCall EXCEPT ![r] = c]
      /\ c.op = clusterCall[r].op /\ c.at = "write" /\ c.config = Config(r)
  <2>1. GoesWell(r)
    BY <1>0, GoesTyped
  <2>2. "write" \in CallPlaces /\ Goes(r, "write", Config(r))
    BY DEF cacheCluster, CallPlaces
  <2> QED BY <1>0, <2>1, <2>2 DEF GoesWell
<1> HIDE DEF c
<1>2. /\ clusterRecord' = [config |-> Config(r), live |-> TRUE] /\ Watch(FALSE)
      /\ UNCHANGED <<clusterItem, configFile, listingValid, siteItem, siteCache, configsMade>>
  BY DEF cacheCluster, siteVars
<1>3. /\ clusterRecord' \in [config : ConfigValues, live : BOOLEAN] /\ clusterRecord' # Missing
      /\ clusterRecord'.config = Config(r)
  <2>1. Missing \notin [config : ConfigValues, live : BOOLEAN]
    BY ClusterAssumption DEF ConfigValues
  <2>2. clusterRecord' \in [config : ConfigValues, live : BOOLEAN] /\ clusterRecord'.config = Config(r)
    BY <1>0, <1>2
  <2> QED BY <2>1, <2>2
<1>4. clusterCall'[r] = c /\ AgreesAt(r) => AgreesAt(r)'
  BY <1>0, <1>1, <1>2, <1>3 DEF AgreesAt, CallAgrees, Is, Config, Present, Phantom
<1> QED BY <1>0, <1>1, <1>2, <1>3, <1>4, ChangePreserves DEF ClusterTypes

(* The file follows the caches (writeClusterConfigToDisk).                 *)
LEMMA WritePreserves ==
  ASSUME ClusterInv, NEW r \in ClusterRequests, writeClusterConfigToDisk(r)
  PROVE  ClusterInv'
<1> DEFINE op == clusterCall[r].op
<1>0. /\ ClusterTypes /\ clusterCall[r].at = "write"
      /\ op \in Looking \cup {"list", "stored"} /\ Missing \in ConfigValues
  BY DEF ClusterInv, ClusterTypes, writeClusterConfigToDisk, Is, ConfigValues
<1>1. /\ configFile' = Config(r) /\ Watch(FALSE)
      /\ UNCHANGED <<clusterItem, clusterRecord, listingValid, siteItem, siteCache, configsMade>>
  BY DEF writeClusterConfigToDisk, siteVars
<1>2. CASE Ends(r)
  <2>1. clusterCall' = [clusterCall EXCEPT ![r] = NoCall]
    BY <1>2 DEF Ends
  <2>2. clusterCall'[r] = NoCall /\ AgreesAt(r) => AgreesAt(r)'
    BY <1>0, <1>1, NoCallTyped DEF AgreesAt, CallAgrees, Is, Config, Present, Phantom
  <2> QED BY <1>0, <1>1, <2>1, <2>2, NoCallTyped, ChangePreserves DEF ClusterTypes
<1>3. CASE op \notin {"create", "stored"} /\ Goes(r, GoesOn[op], Missing)
  <2> DEFINE c == Moved(r, GoesOn[op], Missing)
  <2>1. GoesOn[op] \in {"path", "put", "erase", "stamp", "place", "locate"}
    BY <1>0, <1>3, GoesOnTyped
  <2>2. /\ c \in CallRecords /\ clusterCall' = [clusterCall EXCEPT ![r] = c]
        /\ c.at \in {"path", "put", "erase", "stamp", "place", "locate"}
    <3>1. GoesOn[op] \in CallPlaces
      BY <2>1 DEF CallPlaces
    <3>2. GoesWell(r)
      BY <1>0, GoesTyped
    <3>3. c.at = GoesOn[op] /\ c \in CallRecords /\ clusterCall' = [clusterCall EXCEPT ![r] = c]
      BY <1>0, <1>3, <3>1, <3>2 DEF GoesWell
    <3> QED BY <2>1, <3>3
  <2> HIDE DEF c
  <2>3. clusterCall'[r] = c /\ AgreesAt(r) => AgreesAt(r)'
    BY <1>0, <1>1, <2>2 DEF AgreesAt, CallAgrees, Is, Config, Present, Phantom
  <2> QED BY <1>0, <1>1, <2>2, <2>3, ChangePreserves DEF ClusterTypes
<1> QED BY <1>2, <1>3 DEF writeClusterConfigToDisk

(* addCluster and updateCluster: a new config is stored, or nothing is, or *)
(* the config without an answer.                                           *)
LEMMA StorePreserves ==
  ASSUME ClusterInv, NEW r \in ClusterRequests, storeCluster(r)
  PROVE  ClusterInv'
<1>0. /\ ClusterTypes /\ clusterCall[r].at = "put"
      /\ UNCHANGED <<clusterRecord, configFile, listingValid, siteItem, siteCache>>
  BY DEF ClusterInv, storeCluster, Is, siteVars
<1>1. CASE Ends(r) /\ UNCHANGED <<configsMade, clusterItem>> /\ Watch(FALSE)
  BY <1>0, <1>1, EndPreserves
<1>2. CASE /\ Watch(FALSE) /\ configsMade' = configsMade + 1 /\ clusterItem' = configsMade'
           /\ clusterCall' = [clusterCall EXCEPT ![r] = [op |-> "stored", at |-> "cache", config |-> configsMade']]
  <2> DEFINE c == [op |-> "stored", at |-> "cache", config |-> configsMade']
  <2>1. configsMade' \in Nat
    BY <1>0, <1>2 DEF ClusterTypes
  <2>2. clusterItem' # Missing
    BY <1>2, <2>1, ClusterAssumption
  <2>3. c \in CallRecords /\ c.op = "stored" /\ c.at = "cache" /\ c.config = clusterItem'
    BY <1>2, <2>1 DEF CallRecords, CallPlaces, ConfigValues
  <2>4. clusterCall' = [clusterCall EXCEPT ![r] = c]
    BY <1>2
  <2> HIDE DEF c
  <2>5. clusterCall'[r] = c /\ AgreesAt(r) => AgreesAt(r)'
    BY <1>0, <2>2, <2>3 DEF AgreesAt, CallAgrees, Is, Config, Present, Phantom
  <2>6. /\ clusterItem' \in Nat \cup {Missing} /\ siteItem' \in Sites \cup {Missing}
        /\ clusterRecord' \in {Missing} \cup [config : ConfigValues, live : BOOLEAN]
    BY <1>0, <1>2, <2>1 DEF ClusterTypes
  <2> QED BY <1>0, <1>2, <2>1, <2>3, <2>4, <2>5, <2>6, ChangePreserves
<1>3. CASE Ends(r) /\ configsMade' = configsMade + 1 /\ clusterItem' = configsMade' /\ Watch(TRUE)
  <2>1. /\ configsMade' \in Nat /\ clusterItem' \in Nat \cup {Missing} /\ siteItem' \in Sites \cup {Missing}
        /\ clusterRecord' \in {Missing} \cup [config : ConfigValues, live : BOOLEAN]
    BY <1>0, <1>3 DEF ClusterTypes
  <2> QED BY <1>0, <1>3, <2>1, NoCallTyped, ChangePreserves DEF Ends
<1> QED BY <1>1, <1>2, <1>3 DEF storeCluster

(* removeCluster: everything local first, then the items.                  *)
LEMMA RemovePreserves ==
  ASSUME ClusterInv, NEW r \in ClusterRequests,
         eraseCluster(r) \/ deleteClusterItem(r) \/ deleteSiteItem(r)
  PROVE  ClusterInv'
<1>0. ClusterTypes /\ GoesWell(r) /\ Missing \in ConfigValues
  BY GoesTyped DEF ClusterInv, ConfigValues
<1>1. CASE eraseCluster(r)
  <2> DEFINE c == Moved(r, "delete", Missing)
  <2>1. /\ clusterCall[r].at = "erase" /\ Goes(r, "delete", Missing) /\ "delete" \in CallPlaces
        /\ clusterRecord' = Missing /\ configFile' = Missing /\ siteCache' = Missing
        /\ UNCHANGED <<clusterItem, listingValid, siteItem, configsMade>> /\ Watch(FALSE)
    BY <1>1 DEF eraseCluster, Is, CallPlaces
  <2>2. c \in CallRecords /\ clusterCall' = [clusterCall EXCEPT ![r] = c] /\ c.at = "delete"
    BY <1>0, <2>1 DEF GoesWell
  <2> HIDE DEF c
  <2>3. clusterCall'[r] = c /\ AgreesAt(r) => AgreesAt(r)'
    BY <2>1, <2>2 DEF AgreesAt, CallAgrees, Is, Present, Phantom
  <2> QED BY <1>0, <2>1, <2>2, <2>3, ChangePreserves DEF ClusterTypes
<1>2. CASE deleteClusterItem(r)
  <2>1. /\ clusterCall[r].at = "delete" /\ "delete sites" \in CallPlaces
        /\ UNCHANGED <<clusterRecord, configFile, listingValid, siteItem, siteCache, configsMade>>
    BY <1>2 DEF deleteClusterItem, Is, siteVars, CallPlaces
  <2>2. CASE clusterItem' = Missing /\ Goes(r, "delete sites", Missing) /\ Watch(FALSE)
    <3> DEFINE c == Moved(r, "delete sites", Missing)
    <3>1. c \in CallRecords /\ clusterCall' = [clusterCall EXCEPT ![r] = c] /\ c.at = "delete sites"
      BY <1>0, <2>1, <2>2 DEF GoesWell
    <3> HIDE DEF c
    <3>2. clusterCall'[r] = c /\ AgreesAt(r) => AgreesAt(r)'
      BY <2>1, <2>2, <3>1 DEF AgreesAt, CallAgrees, Is, Present, Phantom
    <3> QED BY <1>0, <2>1, <2>2, <3>1, <3>2, ChangePreserves DEF ClusterTypes
  <2>3. CASE clusterItem' \in {Missing, clusterItem} /\ Ends(r) /\ Watch(TRUE)
    BY <1>0, <2>1, <2>3, NoCallTyped, ChangePreserves DEF ClusterTypes, Ends
  <2> QED BY <1>2, <2>2, <2>3 DEF deleteClusterItem
<1>3. CASE deleteSiteItem(r)
  <2>1. /\ clusterCall[r].at = "delete sites" /\ siteItem' \in {Missing, siteItem}
        /\ clusterCall' = [clusterCall EXCEPT ![r] = NoCall] /\ Watch(FALSE)
        /\ UNCHANGED <<clusterItem, clusterRecord, configFile, listingValid, siteCache, configsMade>>
    BY <1>3 DEF deleteSiteItem, Is, Ends
  <2>2. clusterCall'[r] = NoCall /\ AgreesAt(r) => AgreesAt(r)'
    BY <2>1, NoCallTyped DEF AgreesAt, CallAgrees, Is, Present, Phantom
  <2> QED BY <1>0, <2>1, <2>2, NoCallTyped, ChangePreserves DEF ClusterTypes
<1> QED BY <1>1, <1>2, <1>3

(* The listing of clusters, and commands that run with the config.         *)
LEMMA ListPreserves ==
  ASSUME ClusterInv, NEW r \in ClusterRequests,
         configPathForCluster(r) \/ scanClusters(r) \/ stampListing(r)
  PROVE  ClusterInv'
<1>0. ClusterTypes /\ Missing \in ConfigValues /\ clusterItem \in ConfigValues
  BY DEF ClusterInv, ClusterTypes, ConfigValues
<1>1. CASE configPathForCluster(r)
  BY <1>1, EndPreserves DEF configPathForCluster, Is, siteVars
<1>2. CASE scanClusters(r)
  <2>1. /\ clusterCall[r].at = "list" /\ {"cache", "stamp"} \subseteq CallPlaces
        /\ UNCHANGED <<clusterItem, clusterRecord, configFile, listingValid, siteItem, siteCache, configsMade>>
    BY <1>2 DEF scanClusters, Is, siteVars, CallPlaces
  <2>2. CASE Ends(r) /\ (Watch(FALSE) \/ Watch(TRUE))
    BY <2>1, <2>2, EndPreserves
  <2>3. CASE clusterItem # Missing /\ Goes(r, "cache", clusterItem) /\ Watch(FALSE)
    <3>1. clusterCall[r].op \in Looking \cup {"list", "stored"}
      BY <1>0, <2>1 DEF ClusterTypes, Is
    <3> QED BY <1>0, <2>1, <2>3, <3>1, QuietlyPreserves
  <2>4. CASE clusterItem = Missing /\ Goes(r, "stamp", Missing) /\ Watch(FALSE)
    BY <1>0, <2>1, <2>4, QuietlyPreserves DEF Phantom, Present
  <2> QED BY <1>2, <2>2, <2>3, <2>4 DEF scanClusters
<1>3. CASE stampListing(r)
  <2>1. /\ clusterCall[r].at = "stamp" /\ listingValid' = TRUE
        /\ clusterCall' = [clusterCall EXCEPT ![r] = NoCall] /\ Watch(FALSE)
        /\ UNCHANGED <<clusterItem, clusterRecord, configFile, siteItem, siteCache, configsMade>>
    BY <1>3 DEF stampListing, Is, Ends, siteVars
  <2>2. clusterCall'[r] = NoCall /\ AgreesAt(r) => AgreesAt(r)'
    BY <2>1, NoCallTyped DEF AgreesAt, CallAgrees, Is, Present, Phantom
  <2> QED BY <1>0, <2>1, <2>2, NoCallTyped, ChangePreserves DEF ClusterTypes
<1> QED BY <1>1, <1>2, <1>3

(* The cluster's locations: the item first, then the cache.                *)
LEMMA SitesPreserve ==
  ASSUME ClusterInv, NEW r \in ClusterRequests,
         setLocationsForCluster(r) \/ getLocationsForCluster(r) \/ recordSites(r)
  PROVE  ClusterInv'
<1>0. /\ ClusterTypes /\ GoesWell(r) /\ siteItem \in ConfigValues /\ "record sites" \in CallPlaces
  BY GoesTyped DEF ClusterInv, ClusterTypes, ConfigValues, CallPlaces
<1>1. CASE setLocationsForCluster(r)
  <2>1. /\ clusterCall[r].at = "place"
        /\ UNCHANGED <<clusterItem, clusterRecord, configFile, listingValid, siteCache, configsMade>>
    BY <1>1 DEF setLocationsForCluster, Is
  <2>2. ASSUME NEW s \in Sites, siteItem' = s, Goes(r, "record sites", s), Watch(FALSE) PROVE ClusterInv'
    <3> DEFINE c == Moved(r, "record sites", s)
    <3>1. s \in ConfigValues
      BY DEF ConfigValues
    <3>2. /\ c \in CallRecords /\ clusterCall' = [clusterCall EXCEPT ![r] = c]
          /\ c.at = "record sites" /\ c.config = s
      BY <1>0, <2>2, <3>1 DEF GoesWell
    <3> HIDE DEF c
    <3>3. clusterCall'[r] = c /\ AgreesAt(r) => AgreesAt(r)'
      BY <2>1, <2>2, <3>2 DEF AgreesAt, CallAgrees, Is, Config, Present, Phantom
    <3> QED BY <1>0, <2>1, <2>2, <3>2, <3>3, ChangePreserves DEF ClusterTypes
  <2>3. CASE Ends(r) /\ UNCHANGED siteItem /\ Watch(FALSE)
    BY <2>1, <2>3, EndPreserves
  <2>4. CASE Ends(r) /\ siteItem' \in Sites /\ Watch(TRUE)
    BY <1>0, <2>1, <2>4, NoCallTyped, ChangePreserves DEF ClusterTypes, Ends
  <2> QED BY <1>1, <2>2, <2>3, <2>4 DEF setLocationsForCluster
<1>2. CASE getLocationsForCluster(r)
  <2>1. /\ clusterCall[r].at = "locate"
        /\ UNCHANGED <<clusterItem, clusterRecord, configFile, listingValid, siteItem, siteCache, configsMade>>
    BY <1>2 DEF getLocationsForCluster, Is, siteVars
  <2>2. CASE Ends(r) /\ (Watch(FALSE) \/ Watch(TRUE))
    BY <2>1, <2>2, EndPreserves
  <2>3. CASE Goes(r, "record sites", siteItem) /\ Watch(FALSE)
    BY <1>0, <2>1, <2>3, QuietlyPreserves
  <2> QED BY <1>2, <2>2, <2>3 DEF getLocationsForCluster
<1>3. CASE recordSites(r)
  <2>1. /\ clusterCall[r].at = "record sites" /\ siteCache' = Config(r)
        /\ clusterCall' = [clusterCall EXCEPT ![r] = NoCall] /\ Watch(FALSE)
        /\ UNCHANGED <<clusterItem, clusterRecord, configFile, listingValid, siteItem, configsMade>>
    BY <1>3 DEF recordSites, Is, Ends
  <2>2. clusterCall'[r] = NoCall /\ AgreesAt(r) => AgreesAt(r)'
    BY <2>1, NoCallTyped DEF AgreesAt, CallAgrees, Is, Config, Present, Phantom
  <2> QED BY <1>0, <2>1, <2>2, NoCallTyped, ChangePreserves DEF ClusterTypes
<1> QED BY <1>1, <1>2, <1>3

(* What expires breaks no agreement.                                       *)
LEMMA ExpiryPreserves ==
  ASSUME ClusterInv, expireRecord \/ expireListing \/ expireSites
  PROVE  ClusterInv'
<1>0. ClusterTypes /\ Watch(FALSE)
  BY DEF ClusterInv, expireRecord, expireListing, expireSites
<1>1. /\ UNCHANGED <<clusterItem, configFile, siteItem, clusterCall, configsMade>>
      /\ clusterRecord' \in {Missing} \cup [config : ConfigValues, live : BOOLEAN]
      /\ clusterRecord' # Missing <=> clusterRecord # Missing
      /\ clusterRecord # Missing =>
           clusterRecord'.config = clusterRecord.config /\ (clusterRecord'.live => clusterRecord.live)
      /\ listingValid' => listingValid
      /\ siteCache' \in {siteCache, Missing}
  <2>1. CASE expireRecord
    <3>1. /\ UNCHANGED <<clusterItem, configFile, listingValid, siteItem, siteCache, clusterCall, configsMade>>
          /\ clusterRecord \in [config : ConfigValues, live : BOOLEAN] /\ clusterRecord # Missing
          /\ clusterRecord' = [clusterRecord EXCEPT !.live = FALSE]
      BY <1>0, <2>1 DEF expireRecord, siteVars, ClusterTypes
    <3>2. Missing \notin [config : ConfigValues, live : BOOLEAN]
      BY ClusterAssumption DEF ConfigValues
    <3>3. /\ clusterRecord' \in [config : ConfigValues, live : BOOLEAN]
          /\ clusterRecord'.config = clusterRecord.config /\ clusterRecord'.live = FALSE
      BY <3>1
    <3> QED BY <3>1, <3>2, <3>3
  <2>2. CASE expireListing
    BY <1>0, <2>2 DEF expireListing, siteVars, ClusterTypes
  <2>3. CASE expireSites
    BY <1>0, <2>3 DEF expireSites, ClusterTypes
  <2> QED BY <2>1, <2>2, <2>3
<1>2. ClusterTypes'
  BY <1>0, <1>1, WatchTyped DEF ClusterTypes, Is
<1>3. ASSUME ~overlapped', ~OneAtATime' PROVE FALSE
  <2>1. OneAtATime /\ \A r, s \in Busy' : r = s
    BY <1>0, <1>2, <1>3, Watched DEF ClusterInv
  <2>2. OneAtATime'
    BY <1>1, <2>1 DEF OneAtATime, NoneAt, CallAgrees, Is, Config, Present, Phantom
  <2> QED BY <1>3, <2>2
<1> QED BY <1>2, <1>3 DEF ClusterInv

(* For any number of requests, configs and locations: as long as requests  *)
(* come one at a time, no read or deletion fails and every write that is   *)
(* made is answered, every pair of places that hold the same datum agrees  *)
(* except between the two steps of the one request that changes both; and  *)
(* so again once what a failure left behind has expired or been replaced.  *)
THEOREM ClusterInvariant == ClusterSpec => []ClusterInv
<1>1. ClusterInit => ClusterInv
  <2> SUFFICES ASSUME ClusterInit PROVE ClusterInv
    OBVIOUS
  <2>1. \A r \in ClusterRequests : clusterCall[r] = NoCall
    BY DEF ClusterInit
  <2>2. ClusterTypes
    <3>1. clusterCall \in [ClusterRequests -> CallRecords]
      BY NoCallTyped DEF ClusterInit
    <3> QED BY <2>1, <3>1, NoCallTyped DEF ClusterInit, ClusterTypes, CallRecords, Is
  <2>3. OneAtATime
    BY <2>1, NoCallTyped DEF ClusterInit, OneAtATime, Busy, NoneAt, CallAgrees, Is, Present, Phantom
  <2> QED BY <2>2, <2>3 DEF ClusterInv
<1>2. ClusterInv /\ [ClusterNext]_clusterVars => ClusterInv'
  <2> SUFFICES ASSUME ClusterInv, [ClusterNext]_clusterVars PROVE ClusterInv'
    OBVIOUS
  <2>1. CASE UNCHANGED clusterVars
    BY <2>1 DEF clusterVars, ClusterInv, ClusterTypes, OneAtATime, Busy, NoneAt, CallAgrees, Is,
                Config, Present
  <2>2. ASSUME NEW r \in ClusterRequests, serveCluster(r) PROVE ClusterInv'
    BY <2>2, FindPreserves, CachePreserves, WritePreserves, StorePreserves, RemovePreserves,
       ListPreserves, SitesPreserve DEF serveCluster
  <2> QED BY <2>1, <2>2, RequestPreserves, ExpiryPreserves DEF ClusterNext
<1> QED BY <1>1, <1>2, PTL DEF ClusterSpec

(* While requests come one at a time and no read, deletion or answer to a  *)
(* write is lost, the cached record, the kubeconfig file, the listing and  *)
(* the cached locations are those of the table, for any number of clients, *)
(* configs and locations.                                                  *)
THEOREM ClusterRecordsAgree == ClusterSpec => []RecordsAgree
<1>1. ClusterInv => RecordsAgree
  BY NoCallTyped DEF ClusterInv, OneAtATime, NoneAt, RecordsAgree, Agree, Present
<1> QED BY <1>1, ClusterInvariant, PTL
-----------------------------------------------------------------------------
(* The multimap of the category caches.                                    *)

MapValues == [id : MapIDs, version : MapVersions]

MapTypes ==
  /\ DOMAIN data \subseteq MapKeys
  /\ pairs \in [DOMAIN pairs -> MapVersions] /\ DOMAIN pairs \subseteq MapKeys \X MapIDs

(* What a category holds, and what it must hold.                           *)
ValuesOf(k) == IF HasKey(k) THEN data[k].values ELSE {}
Holds(k) == PairsOf(k) = ValuesOf(k)

MapInv ==
  /\ MapTypes
  /\ reply.answer = reply.right
  /\ \A k \in MapKeys : Holds(k)
  /\ \A k \in DOMAIN data : data[k].values # {}

(* The pairs of a key are values, one for each ID that has a version.      *)
LEMMA PairsTyped ==
  ASSUME MapTypes, NEW k \in MapKeys
  PROVE  /\ PairsOf(k) \in SUBSET MapValues
         /\ \A id \in MapIDs : /\ Has(k, id) <=> id \in Values(PairsOf(k))
                               /\ Has(k, id) => {v \in PairsOf(k) : v.id = id} = {[id |-> id, version |-> pairs[<<k, id>>]]}
<1>1. PairsOf(k) \in SUBSET MapValues
  BY DEF MapTypes, PairsOf, MapValues
<1>2. ASSUME NEW id \in MapIDs
      PROVE  Has(k, id) <=> id \in Values(PairsOf(k))
  <2>1. ASSUME Has(k, id) PROVE id \in Values(PairsOf(k))
    <3>1. <<k, id>> \in DOMAIN pairs /\ <<k, id>>[1] = k /\ <<k, id>>[2] = id
      BY <2>1 DEF Has
    <3>2. [id |-> id, version |-> pairs[<<k, id>>]] \in PairsOf(k)
      BY <3>1 DEF PairsOf
    <3> QED BY <3>2 DEF Values
  <2>2. ASSUME id \in Values(PairsOf(k)) PROVE Has(k, id)
    <3>1. PICK p \in DOMAIN pairs : p[1] = k /\ p[2] = id
      BY <2>2 DEF Values, PairsOf
    <3>2. p = <<k, id>>
      BY <3>1 DEF MapTypes
    <3> QED BY <3>1, <3>2 DEF Has
  <2> QED BY <2>1, <2>2
<1>3. ASSUME NEW id \in MapIDs, Has(k, id)
      PROVE  {v \in PairsOf(k) : v.id = id} = {[id |-> id, version |-> pairs[<<k, id>>]]}
  <2>1. \A p \in DOMAIN pairs : p[1] = k /\ p[2] = id => p = <<k, id>>
    BY DEF MapTypes
  <2> QED BY <1>3, <2>1 DEF PairsOf, Has
<1> QED BY <1>1, <1>2, <1>3

(* A pair that is put in replaces the one with its ID.                     *)
LEMMA PairPut ==
  ASSUME MapTypes, NEW k \in MapKeys, NEW v \in MapValues, PutPair(k, v)
  PROVE  /\ pairs' \in [DOMAIN pairs' -> MapVersions] /\ DOMAIN pairs' \subseteq MapKeys \X MapIDs
         /\ PairsOf(k)' = Without(PairsOf(k), v.id) \cup {v}
         /\ \A x \in MapKeys : x # k => PairsOf(x)' = PairsOf(x)
<1>1. /\ v.id \in MapIDs /\ v.version \in MapVersions /\ v = [id |-> v.id, version |-> v.version]
      /\ DOMAIN pairs' = DOMAIN pairs \cup {<<k, v.id>>}
      /\ pairs'[<<k, v.id>>] = v.version
      /\ \A p \in DOMAIN pairs : p # <<k, v.id>> => pairs'[p] = pairs[p]
  BY DEF PutPair, MapValues
<1>2. pairs' \in [DOMAIN pairs' -> MapVersions] /\ DOMAIN pairs' \subseteq MapKeys \X MapIDs
  BY <1>1 DEF PutPair, MapTypes
<1>3. \A p \in DOMAIN pairs \cup {<<k, v.id>>} : p[1] = k /\ p[2] = v.id => p = <<k, v.id>>
  BY DEF MapTypes
<1>4. PairsOf(k)' = Without(PairsOf(k), v.id) \cup {v}
  BY <1>1, <1>3 DEF PairsOf, Without
<1>5. ASSUME NEW x \in MapKeys, x # k PROVE PairsOf(x)' = PairsOf(x)
  BY <1>1, <1>5 DEF PairsOf
<1> QED BY <1>2, <1>4, <1>5

(* So is one that is taken out, and all pairs of a key.                    *)
LEMMA PairDropped ==
  ASSUME MapTypes, NEW k \in MapKeys, NEW id \in MapIDs, DropPairs({<<k, id>>})
  PROVE  /\ pairs' \in [DOMAIN pairs' -> MapVersions] /\ DOMAIN pairs' \subseteq MapKeys \X MapIDs
         /\ PairsOf(k)' = Without(PairsOf(k), id)
         /\ \A x \in MapKeys : x # k => PairsOf(x)' = PairsOf(x)
<1>1. /\ DOMAIN pairs' = DOMAIN pairs \ {<<k, id>>}
      /\ \A p \in DOMAIN pairs' : pairs'[p] = pairs[p]
  BY DEF DropPairs
<1>2. pairs' \in [DOMAIN pairs' -> MapVersions] /\ DOMAIN pairs' \subseteq MapKeys \X MapIDs
  BY <1>1 DEF DropPairs, MapTypes
<1>3. \A p \in DOMAIN pairs : p[1] = k /\ p[2] = id <=> p = <<k, id>>
  BY DEF MapTypes
<1>4. PairsOf(k)' = Without(PairsOf(k), id)
  BY <1>1, <1>3 DEF PairsOf, Without
<1>5. ASSUME NEW x \in MapKeys, x # k PROVE PairsOf(x)' = PairsOf(x)
  BY <1>1, <1>5 DEF PairsOf
<1> QED BY <1>2, <1>4, <1>5

LEMMA KeyDropped ==
  ASSUME MapTypes, NEW k \in MapKeys, DropPairs({k} \X MapIDs)
  PROVE  /\ pairs' \in [DOMAIN pairs' -> MapVersions] /\ DOMAIN pairs' \subseteq MapKeys \X MapIDs
         /\ PairsOf(k)' = {}
         /\ \A x \in MapKeys : x # k => PairsOf(x)' = PairsOf(x)
<1>1. /\ DOMAIN pairs' = DOMAIN pairs \ ({k} \X MapIDs)
      /\ \A p \in DOMAIN pairs' : pairs'[p] = pairs[p]
  BY DEF DropPairs
<1>2. pairs' \in [DOMAIN pairs' -> MapVersions] /\ DOMAIN pairs' \subseteq MapKeys \X MapIDs
  BY <1>1 DEF DropPairs, MapTypes
<1>3. \A p \in DOMAIN pairs : p[1] = k <=> p \in {k} \X MapIDs
  BY DEF MapTypes
<1>4. PairsOf(k)' = {}
  BY <1>1, <1>3 DEF PairsOf
<1>5. ASSUME NEW x \in MapKeys, x # k PROVE PairsOf(x)' = PairsOf(x)
  <2>1. \A p \in DOMAIN pairs : p[1] = x => p \in DOMAIN pairs'
    BY <1>1, <1>3, <1>5
  <2> QED BY <1>1, <2>1 DEF PairsOf
<1> QED BY <1>2, <1>4, <1>5

(* A category that is put in place, and one that is dropped.               *)
LEMMA CategoryPut ==
  ASSUME MapInv, NEW k \in MapKeys, NEW S, NEW time, S # {}, PutCategory(k, S, time)
  PROVE  /\ DOMAIN data' \subseteq MapKeys /\ \A x \in DOMAIN data' : data'[x].values # {}
         /\ ValuesOf(k)' = S /\ \A x \in MapKeys : x # k => ValuesOf(x)' = ValuesOf(x)
BY DEF MapInv, MapTypes, PutCategory, ValuesOf, HasKey

LEMMA CategoryDropped ==
  ASSUME MapInv, NEW k \in MapKeys, DropCategory(k)
  PROVE  /\ DOMAIN data' \subseteq MapKeys /\ \A x \in DOMAIN data' : data'[x].values # {}
         /\ ValuesOf(k)' = {} /\ \A x \in MapKeys : x # k => ValuesOf(x)' = ValuesOf(x)
BY DEF MapInv, MapTypes, DropCategory, ValuesOf, HasKey
(* What a step on one key has to establish.                                *)
LEMMA MapStep ==
  ASSUME MapInv, NEW k \in MapKeys,
         pairs' \in [DOMAIN pairs' -> MapVersions] /\ DOMAIN pairs' \subseteq MapKeys \X MapIDs,
         DOMAIN data' \subseteq MapKeys /\ \A x \in DOMAIN data' : data'[x].values # {},
         \A x \in MapKeys : x # k => PairsOf(x)' = PairsOf(x) /\ ValuesOf(x)' = ValuesOf(x),
         PairsOf(k)' = ValuesOf(k)', NEW answer, Replies(answer, answer)
  PROVE  MapInv'
<1>1. MapTypes'
  BY DEF MapTypes
<1>2. \A x \in MapKeys : Holds(x)'
  BY DEF MapInv, Holds
<1>3. reply'.answer = reply'.right
  BY DEF Replies
<1> QED BY <1>1, <1>2, <1>3 DEF MapInv

(* What is left alone.                                                     *)
LEMMA DataKept ==
  ASSUME MapInv, UNCHANGED data
  PROVE  /\ DOMAIN data' \subseteq MapKeys /\ \A x \in DOMAIN data' : data'[x].values # {}
         /\ \A x \in MapKeys : ValuesOf(x)' = ValuesOf(x)
BY DEF MapInv, MapTypes, ValuesOf, HasKey

LEMMA PairsKept ==
  ASSUME MapInv, UNCHANGED pairs
  PROVE  /\ pairs' \in [DOMAIN pairs' -> MapVersions] /\ DOMAIN pairs' \subseteq MapKeys \X MapIDs
         /\ \A x \in MapKeys : PairsOf(x)' = PairsOf(x)
BY DEF MapInv, MapTypes, PairsOf

(* Whether a category has a value is whether there is such a pair.         *)
LEMMA Known ==
  ASSUME MapInv, NEW k \in MapKeys, NEW id \in MapIDs
  PROVE  /\ HasKey(k) /\ id \in Values(data[k].values) <=> Has(k, id)
         /\ ~HasKey(k) => PairsOf(k) = {}
         /\ HasKey(k) => PairsOf(k) = data[k].values /\ data[k].values # {}
<1>1. PairsOf(k) = ValuesOf(k) /\ (Has(k, id) <=> id \in Values(PairsOf(k)))
  BY PairsTyped DEF MapInv, Holds
<1>2. Values({}) = {}
  BY DEF Values
<1> QED BY <1>1, <1>2 DEF ValuesOf, MapInv, HasKey

(* The operations that put a value in.                                     *)
LEMMA PutPreserves ==
  ASSUME MapInv, NEW k \in MapKeys, NEW v \in MapValues,
         insert(k, v) \/ insert_or_assign(k, v) \/ update(k, v)
  PROVE  MapInv'
<1>1. v.id \in MapIDs
  BY DEF MapValues
<1>2. /\ HasKey(k) /\ v.id \in Values(data[k].values) <=> Has(k, v.id)
      /\ ~HasKey(k) => PairsOf(k) = {}
      /\ HasKey(k) => PairsOf(k) = data[k].values /\ data[k].values # {}
  BY <1>1, Known
<1>3. MapTypes
  BY DEF MapInv
<1>4. ASSUME NEW S, NEW time, PutCategory(k, S, time), PutPair(k, v),
             S = Without(PairsOf(k), v.id) \cup {v}, NEW answer, Replies(answer, answer)
      PROVE  MapInv'
  <2>1. S # {}
    BY <1>4
  <2>2. /\ DOMAIN data' \subseteq MapKeys /\ \A x \in DOMAIN data' : data'[x].values # {}
        /\ ValuesOf(k)' = S /\ \A x \in MapKeys : x # k => ValuesOf(x)' = ValuesOf(x)
    BY <1>4, <2>1, CategoryPut
  <2>3. /\ pairs' \in [DOMAIN pairs' -> MapVersions] /\ DOMAIN pairs' \subseteq MapKeys \X MapIDs
        /\ PairsOf(k)' = Without(PairsOf(k), v.id) \cup {v}
        /\ \A x \in MapKeys : x # k => PairsOf(x)' = PairsOf(x)
    BY <1>3, <1>4, PairPut
  <2> QED BY <1>4, <2>2, <2>3, MapStep
<1>5. Without({}, v.id) = {}
  BY DEF Without
<1>6. ASSUME ~HasKey(k) \/ v.id \notin Values(data[k].values)
      PROVE  Without(PairsOf(k), v.id) = PairsOf(k)
  BY <1>2, <1>6 DEF Without, Values
<1>7. ASSUME NEW answer, Replies(answer, answer), UNCHANGED pairs,
             \/ UNCHANGED data
             \/ HasKey(k) /\ PutCategory(k, data[k].values, data[k].time)
      PROVE  MapInv'
  <2>1. /\ DOMAIN data' \subseteq MapKeys /\ \A x \in DOMAIN data' : data'[x].values # {}
        /\ \A x \in MapKeys : ValuesOf(x)' = ValuesOf(x)
    <3>1. CASE UNCHANGED data
      BY <3>1, DataKept
    <3>2. CASE HasKey(k) /\ PutCategory(k, data[k].values, data[k].time)
      <4>1. data[k].values # {} /\ ValuesOf(k) = data[k].values
        BY <1>2, <3>2 DEF ValuesOf
      <4> QED BY <3>2, <4>1, CategoryPut
    <3> QED BY <1>7, <3>1, <3>2
  <2>2. PairsOf(k) = ValuesOf(k)
    BY DEF MapInv, Holds
  <2> QED BY <1>7, <2>1, <2>2, PairsKept, MapStep
<1>8. CASE insert(k, v)
  <2>1. CASE Has(k, v.id)
    BY <1>2, <1>7, <1>8, <2>1 DEF insert, Replies
  <2>2. CASE ~Has(k, v.id)
    <3>1. PutPair(k, v) /\ Replies(TRUE, TRUE)
      BY <1>2, <1>8, <2>2 DEF insert, Replies
    <3>2. CASE HasKey(k)
      <4>1. PutCategory(k, data[k].values \cup {v}, data[k].time)
        BY <1>2, <1>8, <2>2, <3>2 DEF insert
      <4>2. data[k].values \cup {v} = Without(PairsOf(k), v.id) \cup {v}
        BY <1>2, <1>6, <2>2, <3>2
      <4> QED BY <1>4, <3>1, <4>1, <4>2
    <3>3. CASE ~HasKey(k)
      <4>1. PutCategory(k, {v}, Past) /\ {v} = Without(PairsOf(k), v.id) \cup {v}
        BY <1>2, <1>5, <1>8, <3>3 DEF insert
      <4> QED BY <1>4, <3>1, <4>1
    <3> QED BY <3>2, <3>3
  <2> QED BY <2>1, <2>2
<1>9. CASE insert_or_assign(k, v)
  <2>1. PutPair(k, v) /\ Replies(~Has(k, v.id), ~Has(k, v.id))
    BY <1>2, <1>9 DEF insert_or_assign, Replies
  <2>2. CASE HasKey(k)
    BY <1>2, <1>4, <1>9, <2>1, <2>2 DEF insert_or_assign
  <2>3. CASE ~HasKey(k)
    BY <1>2, <1>4, <1>5, <1>9, <2>1, <2>3 DEF insert_or_assign
  <2> QED BY <2>2, <2>3
<1>10. CASE update(k, v)
  <2>1. Replies(Has(k, v.id), Has(k, v.id))
    <3>1. Replies(HasKey(k) /\ v.id \in Values(data[k].values), Has(k, v.id))
      BY <1>10 DEF update
    <3>2. (HasKey(k) /\ v.id \in Values(data[k].values)) = Has(k, v.id)
      BY <1>2 DEF Has
    <3> QED BY <3>1, <3>2
  <2>2. CASE Has(k, v.id)
    BY <1>2, <1>4, <1>10, <2>1, <2>2 DEF update
  <2>3. CASE ~Has(k, v.id)
    BY <1>2, <1>7, <1>10, <2>1, <2>3 DEF update
  <2> QED BY <2>2, <2>3
<1> QED BY <1>8, <1>9, <1>10

(* The operations that take something out.                                 *)
LEMMA EraseValuePreserves ==
  ASSUME MapInv, NEW k \in MapKeys, NEW id \in MapIDs, eraseValue(k, id)
  PROVE  MapInv'
<1>1. /\ HasKey(k) /\ id \in Values(data[k].values) <=> Has(k, id)
      /\ ~HasKey(k) => PairsOf(k) = {}
      /\ HasKey(k) => PairsOf(k) = data[k].values
  BY Known
<1>2. /\ pairs' \in [DOMAIN pairs' -> MapVersions] /\ DOMAIN pairs' \subseteq MapKeys \X MapIDs
      /\ PairsOf(k)' = Without(PairsOf(k), id)
      /\ \A x \in MapKeys : x # k => PairsOf(x)' = PairsOf(x)
  BY PairDropped DEF eraseValue, MapInv
<1>3. Replies(Has(k, id), Has(k, id))
  <2>1. Replies(HasKey(k) /\ id \in Values(data[k].values), Has(k, id))
    BY DEF eraseValue
  <2>2. (HasKey(k) /\ id \in Values(data[k].values)) = Has(k, id)
    BY <1>1 DEF Has
  <2> QED BY <2>1, <2>2
<1>4. CASE HasKey(k) /\ Without(data[k].values, id) = {}
  <2>1. DropCategory(k)
    BY <1>4 DEF eraseValue
  <2> QED BY <1>1, <1>2, <1>3, <1>4, <2>1, CategoryDropped, MapStep
<1>5. CASE HasKey(k) /\ Without(data[k].values, id) # {}
  <2>1. PutCategory(k, Without(data[k].values, id), data[k].time)
    BY <1>5 DEF eraseValue
  <2>2. /\ DOMAIN data' \subseteq MapKeys /\ \A x \in DOMAIN data' : data'[x].values # {}
        /\ ValuesOf(k)' = Without(data[k].values, id)
        /\ \A x \in MapKeys : x # k => ValuesOf(x)' = ValuesOf(x)
    BY <1>5, <2>1, CategoryPut
  <2> QED BY <1>1, <1>2, <1>3, <1>5, <2>2, MapStep
<1>6. CASE ~HasKey(k)
  <2>1. UNCHANGED data
    BY <1>6 DEF eraseValue
  <2>2. ValuesOf(k)' = {} /\ PairsOf(k)' = {}
    BY <1>1, <1>2, <1>6, <2>1, DataKept DEF ValuesOf, Without
  <2> QED BY <1>2, <1>3, <2>1, <2>2, DataKept, MapStep
<1> QED BY <1>4, <1>5, <1>6

LEMMA ErasePreserves ==
  ASSUME MapInv, NEW k \in MapKeys, erase(k)
  PROVE  MapInv'
<1>1. PairsOf(k) = IF HasKey(k) THEN data[k].values ELSE {}
  BY DEF MapInv, Holds, ValuesOf
<1>2. /\ pairs' \in [DOMAIN pairs' -> MapVersions] /\ DOMAIN pairs' \subseteq MapKeys \X MapIDs
      /\ PairsOf(k)' = {} /\ \A x \in MapKeys : x # k => PairsOf(x)' = PairsOf(x)
  BY KeyDropped DEF erase, MapInv
<1>3. Replies(Cardinality(PairsOf(k)), Cardinality(PairsOf(k)))
  <2>1. (IF HasKey(k) THEN Cardinality(data[k].values) ELSE 0) = Cardinality(PairsOf(k))
    BY <1>1, FS_EmptySet
  <2> QED BY <2>1 DEF erase, Replies
<1>4. CASE HasKey(k)
  <2>1. DropCategory(k)
    BY <1>4 DEF erase
  <2> QED BY <1>2, <1>3, <2>1, CategoryDropped, MapStep
<1>5. CASE ~HasKey(k)
  <2>1. UNCHANGED data
    BY <1>5 DEF erase
  <2>2. ValuesOf(k)' = {}
    BY <1>5, <2>1 DEF ValuesOf, HasKey
  <2> QED BY <1>2, <1>3, <2>1, <2>2, DataKept, MapStep
<1> QED BY <1>4, <1>5

LEMMA ClearPreserves ==
  ASSUME clear
  PROVE  MapInv'
<1>1. DOMAIN data' = {} /\ DOMAIN pairs' = {} /\ reply'.answer = reply'.right
  BY DEF clear, Replies
<1> QED BY <1>1 DEF MapInv, MapTypes, Holds, ValuesOf, HasKey, PairsOf

(* The times of categories, and reading.                                   *)
LEMMA TimesPreserve ==
  ASSUME MapInv, NEW k \in MapKeys, update_expiration(k) \/ expireCategory(k)
  PROVE  MapInv'
<1>1. /\ DOMAIN data' \subseteq MapKeys /\ \A x \in DOMAIN data' : data'[x].values # {}
      /\ \A x \in MapKeys : ValuesOf(x)' = ValuesOf(x)
  <2>1. CASE UNCHANGED data
    BY <2>1, DataKept
  <2>2. ASSUME NEW time, HasKey(k), data' = [data EXCEPT ![k].time = time]
        PROVE  /\ DOMAIN data' \subseteq MapKeys /\ \A x \in DOMAIN data' : data'[x].values # {}
               /\ \A x \in MapKeys : ValuesOf(x)' = ValuesOf(x)
    <3>1. DOMAIN data' = DOMAIN data /\ \A x \in DOMAIN data : data'[x].values = data[x].values
      BY <2>2 DEF HasKey
    <3> QED BY <3>1 DEF MapInv, MapTypes, ValuesOf, HasKey
  <2> QED BY <2>1, <2>2 DEF update_expiration, expireCategory
<1>2. UNCHANGED pairs
  BY DEF update_expiration, expireCategory
<1>3. reply'.answer = reply'.right
  <2>1. HasKey(k) = (PairsOf(k) # {})
    BY DEF MapInv, Holds, ValuesOf, HasKey
  <2> QED BY <2>1 DEF update_expiration, expireCategory, Replies, MapInv
<1>4. \A x \in MapKeys : Holds(x)'
  BY <1>1, <1>2, PairsKept DEF Holds, MapInv
<1> QED BY <1>1, <1>2, <1>3, <1>4 DEF MapInv, MapTypes

LEMMA ReadingPreserves ==
  ASSUME MapInv, NEW k \in MapKeys,
         \/ find(k) \/ contains(k) \/ count(k)
         \/ \E id \in MapIDs : findValue(k, id) \/ containsValue(k, id)
  PROVE  MapInv'
<1>1. UNCHANGED <<data, pairs>>
  BY DEF find, contains, count, findValue, containsValue
<1>2. PairsOf(k) = IF HasKey(k) THEN data[k].values ELSE {}
  BY DEF MapInv, Holds, ValuesOf
<1>3. reply'.answer = reply'.right
  <2>1. CASE find(k)
    BY <1>2, <2>1 DEF find, Replies
  <2>2. CASE contains(k)
    <3>1. HasKey(k) = (PairsOf(k) # {})
      BY <1>2 DEF MapInv, HasKey
    <3> QED BY <2>2, <3>1 DEF contains, Replies
  <2>3. CASE count(k)
    BY <1>2, <2>3, FS_EmptySet DEF count, Replies
  <2>4. ASSUME NEW id \in MapIDs, findValue(k, id) PROVE reply'.answer = reply'.right
    BY <1>2, <2>4 DEF findValue, Replies
  <2>5. ASSUME NEW id \in MapIDs, containsValue(k, id) PROVE reply'.answer = reply'.right
    <3>1. (HasKey(k) /\ id \in Values(data[k].values)) = Has(k, id)
      BY Known DEF Has
    <3> QED BY <2>5, <3>1 DEF containsValue, Replies
  <2> QED BY <2>1, <2>2, <2>3, <2>4, <2>5
<1> QED BY <1>1, <1>3 DEF MapInv, MapTypes, Holds, ValuesOf, HasKey, PairsOf

(* The multimap implements a set of pairs, for any keys, IDs and versions. *)
THEOREM MultimapHolds == MapSpec => []MapInv
<1>1. MapInit => MapInv
  <2> SUFFICES ASSUME MapInit PROVE MapInv
    OBVIOUS
  <2>1. DOMAIN data = {} /\ DOMAIN pairs = {} /\ reply.answer = reply.right
    BY DEF MapInit
  <2> QED BY <2>1 DEF MapInv, MapTypes, Holds, ValuesOf, HasKey, PairsOf
<1>2. MapInv /\ [MapNext]_mapVars => MapInv'
  <2> SUFFICES ASSUME MapInv, [MapNext]_mapVars PROVE MapInv'
    OBVIOUS
  <2>1. CASE UNCHANGED mapVars
    BY <2>1 DEF mapVars, MapInv, MapTypes, Holds, ValuesOf, HasKey, PairsOf
  <2>2. ASSUME NEW k \in MapKeys, NEW id \in MapIDs, NEW n \in MapVersions,
               NEW v, v = [id |-> id, version |-> n],
               insert(k, v) \/ insert_or_assign(k, v) \/ update(k, v)
        PROVE  MapInv'
    <3>1. v \in MapValues
      BY <2>2 DEF MapValues
    <3> QED BY <2>2, <3>1, PutPreserves
  <2> QED BY <2>1, <2>2, ClearPreserves, ErasePreserves, TimesPreserve, ReadingPreserves,
             EraseValuePreserves DEF MapNext
<1> QED BY <1>1, <1>2, PTL DEF MapSpec

(* A category of the caches answers what was put in and not taken out, and *)
(* none is empty, whatever operations came before.                         *)
THEOREM CategoriesHoldPairs == MapSpec => []MapHoldsPairs
<1>1. MapInv => MapHoldsPairs
  BY DEF MapInv, MapHoldsPairs, Holds, ValuesOf
<1> QED BY <1>1, MultimapHolds, PTL
-----------------------------------------------------------------------------
(* The DNS name of a cluster.                                              *)

NameTask == [at : {"idle", "base", "text", "change", "over"}, action : {"none", "set", "remove"},
             type : Types, base : BOOLEAN, stale : BOOLEAN]

NamesTypes ==
  /\ zone \in [Types -> {"none", "slate", "other"}]
  /\ outside \in Nat
  /\ task \in [NameTasks -> NameTask]

(* What a task has seen of the zone is still so, unless it is out of date. *)
Seen(tk) ==
  ~tk.stale =>
    /\ tk.at = "text" => (tk.base <=> zone[tk.type] # "none")
    /\ tk.at = "change" => zone[tk.type] = "none" \/ "slate" \in text

NamesInv ==
  /\ NamesTypes
  /\ \A k \in NameTasks : Seen(task[k])
  /\ NamesOfOthersKept

(* A step of one task that changes nothing in the zone.                    *)
LEMMA LookPreserves ==
  ASSUME NamesInv, NEW k \in NameTasks, NEW tk \in NameTask, Keep,
         task' = [task EXCEPT ![k] = tk], Seen(tk)
  PROVE  NamesInv'
BY DEF NamesInv, NamesTypes, Seen, NamesOfOthersKept, Keep

(* Whoever looked before a change is out of date after it.                 *)
LEMMA OutdatedSeen ==
  ASSUME NEW tk, tk \in [NameTasks -> NameTask]
  PROVE  /\ Outdated(tk) \in [NameTasks -> NameTask]
         /\ \A k \in NameTasks : Outdated(tk)[k].at \in {"text", "change"} => Outdated(tk)[k].stale
BY DEF Outdated, NameTask

LEMMA ZoneChangePreserves ==
  ASSUME NamesInv, NEW k \in NameTasks, setDNSRecord(k) \/ removeDNSRecord(k)
  PROVE  NamesInv'
<1>0. NamesTypes /\ Seen(task[k]) /\ NamesOfOthersKept /\ task[k] \in NameTask /\ outside' = outside
  BY DEF NamesInv, NamesTypes, setDNSRecord, removeDNSRecord
<1>1. task[k].at = "change" /\ task[k].type \in Types
  BY <1>0 DEF setDNSRecord, removeDNSRecord, NameTask
<1>2. CASE task' = [task EXCEPT ![k].at = "over"] /\ UNCHANGED <<zone, text, overwritten>>
  BY <1>0, <1>2 DEF NamesInv, NamesTypes, Seen, NamesOfOthersKept, NameTask
<1>3. CASE /\ \/ zone' = [zone EXCEPT ![task[k].type] = "slate"] /\ text' = {"slate"}
              \/ zone' = [zone EXCEPT ![task[k].type] = "none"] /\ text' = {}
           /\ overwritten' = overwritten \cup Replaced(k)
           /\ task' = [Outdated(task) EXCEPT ![k].at = "over"]
  <2>1. /\ NamesTypes' /\ \A j \in NameTasks : task'[j].at \in {"text", "change"} => task'[j].stale
    <3>1. zone' \in [Types -> {"none", "slate", "other"}]
      BY <1>0, <1>1, <1>3 DEF NamesTypes
    <3>2. Outdated(task) \in [NameTasks -> NameTask]
      BY <1>0, OutdatedSeen DEF NamesTypes
    <3>3. \A j \in NameTasks : Outdated(task)[j].at \in {"text", "change"} => Outdated(task)[j].stale
      BY <1>0, OutdatedSeen DEF NamesTypes
    <3>4. task' \in [NameTasks -> NameTask] /\ task'[k].at = "over"
          /\ \A j \in NameTasks : j # k => task'[j] = Outdated(task)[j]
      BY <1>3, <3>2 DEF NameTask
    <3> QED BY <1>0, <3>1, <3>3, <3>4 DEF NamesTypes
  <2>2. \A j \in NameTasks : Seen(task[j])'
    BY <2>1 DEF Seen
  <2>3. \A o \in Replaced(k) : o.type # "TXT" => o.tagged \/ o.stale
    <3> SUFFICES ASSUME NEW o \in Replaced(k), o.type # "TXT" PROVE o.tagged \/ o.stale
      OBVIOUS
    <3>1. /\ o.tagged = ("slate" \in text) /\ o.stale = task[k].stale
          /\ o.type = task[k].type /\ zone[task[k].type] = "other"
      BY DEF Replaced
    <3>2. CASE task[k].stale
      BY <3>1, <3>2
    <3>3. CASE ~task[k].stale
      <4>1. "slate" \in text
        BY <1>0, <1>1, <3>1, <3>3 DEF Seen
      <4> QED BY <3>1, <4>1
    <3> QED BY <3>2, <3>3
  <2>4. \A o \in overwritten' : o.type # "TXT" => o.tagged \/ o.stale
    BY <1>0, <1>3, <2>3 DEF NamesOfOthersKept
  <2>5. "slate" \in text' => \E t \in Types : zone'[t] = "slate"
    BY <1>0, <1>1, <1>3 DEF NamesTypes
  <2> QED BY <2>1, <2>2, <2>4, <2>5 DEF NamesInv, NamesOfOthersKept
<1> QED BY <1>2, <1>3 DEF setDNSRecord, removeDNSRecord, Go

LEMMA OutsidePreserves ==
  ASSUME NamesInv, changeOutside
  PROVE  NamesInv'
<1>1. zone' \in [Types -> {"none", "slate", "other"}]
  BY DEF changeOutside, NamesInv, NamesTypes
<1>2. outside' \in Nat /\ outside' # 0 /\ overwritten' = overwritten
  BY DEF changeOutside, NamesInv, NamesTypes
<1>3. /\ task' \in [NameTasks -> NameTask]
      /\ \A j \in NameTasks : task'[j].at \in {"text", "change"} => task'[j].stale
  <2>1. task' = Outdated(task) /\ NamesTypes /\ task \in [NameTasks -> NameTask]
    BY DEF changeOutside, NamesInv, NamesTypes
  <2> QED BY <2>1, OutdatedSeen
<1>4. \A j \in NameTasks : Seen(task[j])'
  BY <1>3 DEF Seen
<1> QED BY <1>1, <1>2, <1>3, <1>4 DEF NamesInv, NamesTypes, NamesOfOthersKept

(* What a task has seen is so until the zone changes, for any number of    *)
(* tasks and of changes others make.                                       *)
THEOREM NamesInvariant == NamesSpec => []NamesInv
<1>1. NamesInit => NamesInv
  BY DEF NamesInit, NamesInv, NamesTypes, Seen, NamesOfOthersKept, NoTask, NameTask, Types
<1>2. NamesInv /\ [NamesNext]_namesVars => NamesInv'
  <2> SUFFICES ASSUME NamesInv, [NamesNext]_namesVars PROVE NamesInv'
    OBVIOUS
  <2>1. CASE UNCHANGED namesVars
    BY <2>1 DEF namesVars, NamesInv, NamesTypes, Seen, NamesOfOthersKept
  <2>2. ASSUME NEW k \in NameTasks,
               \/ setClusterDNSRecord(k) \/ removeClusterDNSRecord(k) \/ testBaseRecord(k)
               \/ testTextRecord(k) \/ callFails(k)
        PROVE  NamesInv'
    <3>0. task[k] \in NameTask /\ NamesTypes /\ Seen(task[k]) /\ Keep
      BY <2>2 DEF NamesInv, NamesTypes, setClusterDNSRecord, removeClusterDNSRecord, testBaseRecord,
                  testTextRecord, callFails
    <3>1. CASE setClusterDNSRecord(k)
      <4>1. PICK t \in Types :
              task' = [task EXCEPT ![k] = [NoTask EXCEPT !.at = "base", !.action = "set", !.type = t]]
        BY <3>1 DEF setClusterDNSRecord
      <4>2. [NoTask EXCEPT !.at = "base", !.action = "set", !.type = t] \in NameTask
        BY DEF NoTask, NameTask
      <4>3. Seen([NoTask EXCEPT !.at = "base", !.action = "set", !.type = t])
        BY DEF Seen, NoTask
      <4> QED BY <3>0, <4>1, <4>2, <4>3, LookPreserves
    <3>2. CASE removeClusterDNSRecord(k)
      <4>1. CASE task' = [task EXCEPT ![k].at = "over"]
        BY <3>0, <4>1, LookPreserves DEF Seen, NameTask
      <4>2. ASSUME NEW t \in Types,
                   task' = [task EXCEPT ![k] = [NoTask EXCEPT !.at = "base", !.action = "remove", !.type = t]]
            PROVE  NamesInv'
        <5>1. [NoTask EXCEPT !.at = "base", !.action = "remove", !.type = t] \in NameTask
          BY DEF NoTask, NameTask
        <5>2. Seen([NoTask EXCEPT !.at = "base", !.action = "remove", !.type = t])
          BY DEF Seen, NoTask
        <5> QED BY <3>0, <4>2, <5>1, <5>2, LookPreserves
      <4> QED BY <3>2, <4>1, <4>2 DEF removeClusterDNSRecord, Go
    <3>3. CASE testBaseRecord(k)
      <4> DEFINE tk == [task[k] EXCEPT !.base = zone[task[k].type] # "none", !.at = "text"]
      <4>1. task' = [task EXCEPT ![k] = tk] /\ tk \in NameTask
        BY <3>0, <3>3 DEF testBaseRecord, NameTask, NamesTypes
      <4>2. Seen(tk)
        BY <3>0 DEF Seen, NameTask
      <4> QED BY <3>0, <4>1, <4>2, LookPreserves
    <3>4. CASE testTextRecord(k)
      <4> DEFINE tk == [task[k] EXCEPT !.at = IF safeToModifyDNS(k) THEN "change" ELSE "over"]
      <4>1. task' = [task EXCEPT ![k] = tk] /\ tk \in NameTask
        BY <3>0, <3>4 DEF testTextRecord, Go, NameTask, NamesTypes
      <4>2. Seen(tk)
        BY <3>0, <3>4 DEF Seen, NameTask, testTextRecord, safeToModifyDNS
      <4> QED BY <3>0, <4>1, <4>2, LookPreserves
    <3>5. CASE callFails(k)
      <4> DEFINE tk == [task[k] EXCEPT !.at = "over"]
      <4>1. task' = [task EXCEPT ![k] = tk] /\ tk \in NameTask /\ Seen(tk)
        BY <3>0, <3>5 DEF callFails, Go, NameTask, NamesTypes, Seen
      <4> QED BY <3>0, <4>1, LookPreserves
    <3> QED BY <2>2, <3>1, <3>2, <3>3, <3>4, <3>5
  <2> QED BY <2>1, <2>2, ZoneChangePreserves, OutsidePreserves DEF NamesNext
<1> QED BY <1>1, <1>2, PTL DEF NamesSpec

(* The addresses others gave a name are left alone.                        *)
THEOREM OthersNamesKept == NamesSpec => []NamesOfOthersKept
<1>1. NamesInv => NamesOfOthersKept
  BY DEF NamesInv
<1> QED BY <1>1, NamesInvariant, PTL
-----------------------------------------------------------------------------
(* The records and names of groups.                                        *)

HasGroup == {"byID", "foundID", "foundName", "put", "newID", "newName", "eraseName", "eraseID",
             "deleteItem"}
GroupRequest ==
  [op : {"none", "create", "show", "edit", "delete", "list"},
   at : HasGroup \cup {"idle", "byName", "list", "scan"},
   g : GroupIDs \cup {Nameless}, n : GroupNames \cup {Nameless}, todo : SUBSET GroupIDs]

(* A request has a group with a name wherever it works on one.             *)
FitRequest(q) ==
  /\ q \in GroupRequest
  /\ q.at \in HasGroup \/ (q.at = "byName" /\ q.op = "create") =>
       q.g \in GroupIDs /\ issued[q.g] # Nameless
  /\ q.at = "byName" => q.n \in GroupNames
  /\ q.op = "create" /\ q.at \in {"byName", "put"} => issued[q.g] = q.n
  /\ q.at = "byID" => q.op # "create"
  /\ q.at = "put" => q.op \in {"create", "edit"}
  /\ q.at \in {"byName", "byID", "foundID", "foundName"} => q.op # "list"
  /\ q.at \in {"list", "scan"} => q.op = "list"

GroupTypes ==
  /\ nameOf \in [GroupIDs -> GroupNames \cup {Nameless}]
  /\ issued \in [GroupIDs -> GroupNames \cup {Nameless}]
  /\ \A g \in GroupIDs : nameOf[g] # Nameless => nameOf[g] = issued[g]
  /\ cachedID \in [GroupIDs -> {"none", "live", "expired"}]
  /\ cachedName \in [GroupNames -> [g : GroupIDs \cup {Nameless}, live : BOOLEAN]]
  /\ \A n \in GroupNames : cachedName[n].live => cachedName[n].g # Nameless
  /\ \A n \in GroupNames : cachedName[n].g # Nameless => issued[cachedName[n].g] = n
  /\ listing \in BOOLEAN /\ concurrent \in BOOLEAN /\ faulted \in BOOLEAN
  /\ serving \in [GroupRequests -> GroupRequest]
  /\ \A r \in GroupRequests : FitRequest(serving[r])

(* A group that is stored and not in groupCache is there, or gone, when    *)
(* the request working on it is done; or no listing counts as complete,    *)
(* and every scan in progress has the group still before it.               *)
Uncached(g) == nameOf[g] # Nameless /\ cachedID[g] = "none"
WorksOn(q, g) == q.g = g /\ q.at \in {"newID", "deleteItem"}
Scans(q) == q.op = "list" /\ q.at \in {"scan", "newID", "newName"}
ListingKept ==
  ~faulted => \A g \in GroupIDs : Uncached(g) =>
    \/ \E r \in GroupRequests : WorksOn(serving[r], g)
    \/ ~listing /\ \A r \in GroupRequests : Scans(serving[r]) => g \in serving[r].todo

(* The agreement of the names, while requests come one after the other.    *)
NamesAgree ==
  /\ \A g, h \in GroupIDs : nameOf[g] # Nameless /\ nameOf[g] = nameOf[h] => g = h
  /\ \A g \in GroupIDs : cachedID[g] # "none" => nameOf[g] # Nameless
  /\ \A n \in GroupNames : LET g == cachedName[n].g IN
       g # Nameless => nameOf[g] = n /\ cachedID[g] # "none"

(* What the place of a request says of its group.                          *)
PlaceFits(q) ==
  /\ q.op = "create" /\ q.at \in {"byName", "put"} => nameOf[q.g] = Nameless
  /\ q.op = "create" /\ q.at = "put" => \A g \in GroupIDs : nameOf[g] # q.n
  /\ q.op = "edit" /\ q.at = "put" => nameOf[q.g] # Nameless
  /\ q.at \in {"foundID", "foundName", "newID", "newName"} => nameOf[q.g] # Nameless
  /\ q.at \in {"foundName", "newName"} => cachedID[q.g] # "none"
  /\ q.at \in {"eraseID", "deleteItem"} => \A n \in GroupNames : cachedName[n].g # q.g
  /\ q.at = "deleteItem" => cachedID[q.g] = "none"

InTurn ==
  /\ \A r, s \in GroupRequests : serving[r].at # "idle" /\ serving[s].at # "idle" => r = s
  /\ NamesAgree
  /\ \A r \in GroupRequests : PlaceFits(serving[r])

GroupInv == GroupTypes /\ ListingKept /\ (~concurrent /\ ~faulted => InTurn)
(* Nothing is lost by an issued ID: a request that fits goes on to fit.    *)
LEMMA FitKept ==
  ASSUME NEW q, FitRequest(q), issued' \in [GroupIDs -> GroupNames \cup {Nameless}],
         \A g \in GroupIDs : issued[g] # Nameless => issued'[g] = issued[g]
  PROVE  FitRequest(q)'
BY DEF FitRequest, HasGroup

(* Request r goes on as q, and the rest stays well-formed.                 *)
LEMMA GroupTyped ==
  ASSUME GroupTypes, NEW r \in GroupRequests, NEW q, Serves(r, q), FitRequest(q)',
         nameOf' \in [GroupIDs -> GroupNames \cup {Nameless}],
         issued' \in [GroupIDs -> GroupNames \cup {Nameless}],
         \A g \in GroupIDs : issued[g] # Nameless => issued'[g] = issued[g],
         \A g \in GroupIDs : nameOf'[g] # Nameless => nameOf'[g] = issued'[g],
         cachedID' \in [GroupIDs -> {"none", "live", "expired"}],
         cachedName' \in [GroupNames -> [g : GroupIDs \cup {Nameless}, live : BOOLEAN]],
         \A n \in GroupNames : cachedName'[n].live => cachedName'[n].g # Nameless,
         \A n \in GroupNames : cachedName'[n].g # Nameless => issued'[cachedName'[n].g] = n,
         listing' \in BOOLEAN, concurrent' \in BOOLEAN, faulted' \in BOOLEAN
  PROVE  GroupTypes'
<1>1. q \in GroupRequest
  BY DEF FitRequest
<1>2. /\ serving' \in [GroupRequests -> GroupRequest] /\ serving'[r] = q
      /\ \A s \in GroupRequests : s # r => serving'[s] = serving[s]
  BY <1>1 DEF GroupTypes, Serves
<1>3. \A s \in GroupRequests : FitRequest(serving[s])'
  BY <1>2, FitKept DEF GroupTypes
<1> QED BY <1>2, <1>3 DEF GroupTypes

(* What a step of request r has to establish about listings: a group that  *)
(* is not in groupCache is worked on by r from now on; or it was not there *)
(* before, and r neither leaves it, nor claims to have listed it.          *)
LeavesListed(r, q) ==
  ~faulted' => \A g \in GroupIDs : Uncached(g)' =>
    \/ WorksOn(q, g)
    \/ /\ Uncached(g) /\ ~WorksOn(serving[r], g)
       /\ listing' \/ (Scans(q) /\ g \notin q.todo) =>
            listing \/ (Scans(serving[r]) /\ g \notin serving[r].todo)

LEMMA ListingStep ==
  ASSUME GroupTypes, ListingKept, NEW r \in GroupRequests, NEW q, Serves(r, q),
         ~faulted' => ~faulted, LeavesListed(r, q)
  PROVE  ListingKept'
<1>1. /\ serving'[r] = q
      /\ \A s \in GroupRequests : s # r => serving'[s] = serving[s]
  BY DEF GroupTypes, Serves
<1> SUFFICES ASSUME ~faulted', NEW g \in GroupIDs, Uncached(g)',
                    ~\E s \in GroupRequests : WorksOn(serving'[s], g)
             PROVE  ~listing' /\ \A s \in GroupRequests : Scans(serving'[s]) => g \in serving'[s].todo
  BY DEF ListingKept, WorksOn, Scans
<1>2. ~WorksOn(q, g)
  BY <1>1
<1>3. /\ Uncached(g) /\ ~WorksOn(serving[r], g)
      /\ listing' \/ (Scans(q) /\ g \notin q.todo) =>
           listing \/ (Scans(serving[r]) /\ g \notin serving[r].todo)
  BY <1>2 DEF LeavesListed
<1>4. ~\E s \in GroupRequests : WorksOn(serving[s], g)
  BY <1>1, <1>3
<1>5. ~listing /\ \A s \in GroupRequests : Scans(serving[s]) => g \in serving[s].todo
  BY <1>3, <1>4 DEF ListingKept
<1> QED BY <1>1, <1>3, <1>5

(* What a step of the only request has to establish about the names.       *)
LEMMA TurnStep ==
  ASSUME GroupTypes, InTurn, NEW r \in GroupRequests, NEW q, Serves(r, q),
         serving[r].at # "idle" \/ \A s \in GroupRequests : serving[s].at = "idle",
         NamesAgree', PlaceFits(q)'
  PROVE  InTurn'
<1>1. /\ serving'[r] = q
      /\ \A s \in GroupRequests : s # r => serving'[s] = serving[s] /\ serving[s].at = "idle"
  BY DEF GroupTypes, Serves, InTurn
<1>2. \A s \in GroupRequests : s # r => PlaceFits(serving[s])'
  BY <1>1 DEF PlaceFits
<1> QED BY <1>1, <1>2 DEF InTurn

LEMMA NoRequestFits ==
  /\ FitRequest(NoRequest) /\ PlaceFits(NoRequest) /\ ~Scans(NoRequest)
  /\ \A g \in GroupIDs : ~WorksOn(NoRequest, g)
BY DEF NoRequest, FitRequest, GroupRequest, HasGroup, PlaceFits, Scans, WorksOn

(* A step of request r that changes nothing else, except that it may fail. *)
LEMMA LookStep ==
  ASSUME GroupInv, NEW r \in GroupRequests, NEW q, Serves(r, q), FitRequest(q),
         serving[r].at \notin {"idle", "newID", "deleteItem"},
         UNCHANGED <<nameOf, groupCaches, groupHistory>>, faulted' \in {faulted, TRUE},
         ~faulted' => \A g \in GroupIDs : Uncached(g) /\ Scans(q) /\ g \notin q.todo =>
           WorksOn(q, g) \/ listing \/ (Scans(serving[r]) /\ g \notin serving[r].todo),
         InTurn /\ ~faulted' => PlaceFits(q)
  PROVE  GroupInv'
<1>1. UNCHANGED <<nameOf, cachedID, cachedName, listing, issued, concurrent>>
  BY DEF groupCaches, groupHistory
<1>2. GroupTypes /\ ListingKept
  BY DEF GroupInv
<1>3. GroupTypes'
  <2>1. FitRequest(q)'
    BY <1>1 DEF FitRequest
  <2> QED BY <1>1, <1>2, <2>1, GroupTyped DEF GroupTypes
<1>4. ListingKept'
  <2>1. \A g \in GroupIDs : ~WorksOn(serving[r], g)
    BY DEF WorksOn
  <2>2. LeavesListed(r, q)
    BY <1>1, <2>1 DEF LeavesListed, Uncached
  <2> QED BY <1>1, <1>2, <2>2, ListingStep DEF GroupTypes
<1>5. ASSUME ~concurrent', ~faulted' PROVE InTurn'
  <2>1. InTurn
    BY <1>1, <1>5 DEF GroupInv, GroupTypes
  <2>2. NamesAgree' /\ PlaceFits(q)'
    BY <1>1, <1>5, <2>1 DEF InTurn, NamesAgree, PlaceFits
  <2> QED BY <1>2, <2>1, <2>2, TurnStep
<1> QED BY <1>3, <1>4, <1>5 DEF GroupInv

(* Where requests go on after a lookup.                                    *)
LEMMA AfterLookupFits ==
  ASSUME NEW q \in GroupRequest, NEW found \in BOOLEAN, q.op # "list",
         found /\ q.op \in {"edit", "delete"} => q.g \in GroupIDs /\ issued[q.g] # Nameless,
         ~found /\ q.op = "create" => q.g \in GroupIDs /\ issued[q.g] # Nameless /\ issued[q.g] = q.n
  PROVE  /\ FitRequest(AfterLookup(q, found)) /\ ~Scans(AfterLookup(q, found))
         /\ (found /\ q.op = "edit" => nameOf[q.g] # Nameless) /\
            (~found /\ q.op = "create" => nameOf[q.g] = Nameless /\ \A g \in GroupIDs : nameOf[g] # q.n)
              => PlaceFits(AfterLookup(q, found))
<1>1. CASE q.op = "create" /\ ~found
  <2>1. AfterLookup(q, found) = [q EXCEPT !.at = "put"]
    BY <1>1 DEF AfterLookup
  <2> QED BY <1>1, <2>1 DEF FitRequest, GroupRequest, HasGroup, PlaceFits, Scans
<1>2. CASE q.op = "edit" /\ found
  <2>1. AfterLookup(q, found) = [q EXCEPT !.at = "put"]
    BY <1>2 DEF AfterLookup
  <2> QED BY <1>2, <2>1 DEF FitRequest, GroupRequest, HasGroup, PlaceFits, Scans
<1>3. CASE q.op = "delete" /\ found
  <2>1. AfterLookup(q, found) = [q EXCEPT !.at = "eraseName"]
    BY <1>3 DEF AfterLookup
  <2> QED BY <1>3, <2>1 DEF FitRequest, GroupRequest, HasGroup, PlaceFits, Scans
<1>4. CASE ~(q.op = "create" /\ ~found) /\ ~(q.op = "edit" /\ found) /\ ~(q.op = "delete" /\ found)
  <2>1. AfterLookup(q, found) = NoRequest
    BY <1>4 DEF AfterLookup
  <2> QED BY <2>1, NoRequestFits
<1> QED BY <1>1, <1>2, <1>3, <1>4
(* Looking a group up.                                                     *)
LEMMA ByNamePreserves ==
  ASSUME GroupInv, NEW r \in GroupRequests, findGroupByName(r)
  PROVE  GroupInv'
<1> DEFINE q == serving[r]
           c == cachedName[q.n]
<1>1. /\ q.at = "byName" /\ FitRequest(q) /\ q \in GroupRequest /\ q.n \in GroupNames /\ q.op # "list"
      /\ UNCHANGED <<nameOf, groupCaches, groupHistory>>
      /\ GroupTypes
  BY DEF findGroupByName, GroupInv, GroupTypes, FitRequest
<1>2. /\ q.op = "create" => q.g \in GroupIDs /\ issued[q.g] # Nameless /\ issued[q.g] = q.n
      /\ c \in [g : GroupIDs \cup {Nameless}, live : BOOLEAN] /\ (c.live => c.g \in GroupIDs)
  <2>1. q.op = "create" => q.g \in GroupIDs /\ issued[q.g] # Nameless /\ issued[q.g] = q.n
    BY <1>1 DEF FitRequest
  <2>2. c \in [g : GroupIDs \cup {Nameless}, live : BOOLEAN] /\ (c.live => c.g # Nameless)
    BY <1>1 DEF GroupTypes
  <2> QED BY <2>1, <2>2
<1>3. ASSUME NEW p, Serves(r, p), FitRequest(p), ~Scans(p), faulted' \in {faulted, TRUE},
             InTurn /\ ~faulted' => PlaceFits(p)
      PROVE  GroupInv'
  BY <1>1, <1>3, LookStep
<1>4. CASE c.live /\ Serves(r, AfterLookup([q EXCEPT !.g = c.g], TRUE)) /\ UNCHANGED faulted
  <2> DEFINE p == [q EXCEPT !.g = c.g]
  <2>1. p \in GroupRequest /\ p.op = q.op /\ p.g = c.g /\ c.g \in GroupIDs
    BY <1>1, <1>2, <1>4 DEF GroupRequest
  <2>2. c.g # Nameless /\ q.n # Nameless /\ q.n \in GroupNames
    BY <1>1, <2>1, RecordsAssumption
  <2>3. issued[c.g] # Nameless
    BY <1>1, <2>2 DEF GroupTypes
  <2>4. InTurn => nameOf[c.g] # Nameless
    BY <2>2 DEF InTurn, NamesAgree
  <2>5. FitRequest(AfterLookup(p, TRUE)) /\ ~Scans(AfterLookup(p, TRUE))
        /\ (InTurn => PlaceFits(AfterLookup(p, TRUE)))
    BY <1>1, <2>1, <2>3, <2>4, AfterLookupFits
  <2> QED BY <1>3, <1>4, <2>5
<1>5. CASE Named(q.n) = {} /\ Serves(r, AfterLookup(q, FALSE)) /\ UNCHANGED faulted
  <2>1. \A g \in GroupIDs : nameOf[g] # q.n
    <3>1. q.n # Nameless
      BY <1>1, RecordsAssumption
    <3> QED BY <1>5, <3>1 DEF Named, StoredGroups
  <2>2. InTurn /\ q.op = "create" => nameOf[q.g] = Nameless
    BY <1>1 DEF InTurn, PlaceFits
  <2> QED BY <1>1, <1>2, <1>3, <1>5, <2>1, <2>2, AfterLookupFits
<1>6. ASSUME NEW g \in Named(q.n), Serves(r, [q EXCEPT !.at = "foundID", !.g = g]), UNCHANGED faulted
      PROVE  GroupInv'
  <2> DEFINE p == [q EXCEPT !.at = "foundID", !.g = g]
  <2>1. g \in GroupIDs /\ nameOf[g] # Nameless /\ issued[g] # Nameless
    BY <1>1, <1>6 DEF Named, StoredGroups, GroupTypes
  <2>2. FitRequest(p) /\ PlaceFits(p) /\ ~Scans(p)
    BY <1>1, <2>1 DEF FitRequest, GroupRequest, HasGroup, PlaceFits, Scans
  <2> QED BY <1>3, <1>6, <2>2
<1>7. CASE Serves(r, NoRequest) /\ UNCHANGED faulted
  BY <1>3, <1>7, NoRequestFits
<1>8. CASE Fails /\ Serves(r, AfterLookup(q, FALSE))
  BY <1>1, <1>2, <1>3, <1>8, AfterLookupFits DEF Fails
<1> QED BY <1>4, <1>5, <1>6, <1>7, <1>8 DEF findGroupByName

LEMMA ByIDPreserves ==
  ASSUME GroupInv, NEW r \in GroupRequests, findGroupByID(r)
  PROVE  GroupInv'
<1> DEFINE q == serving[r]
<1>1. /\ q.at = "byID" /\ FitRequest(q) /\ q \in GroupRequest /\ q.op \notin {"list", "create"}
      /\ q.g \in GroupIDs /\ issued[q.g] # Nameless
      /\ UNCHANGED <<nameOf, groupCaches, groupHistory>>
      /\ GroupTypes
  BY DEF findGroupByID, GroupInv, GroupTypes, FitRequest, HasGroup
<1>2. ASSUME NEW p, Serves(r, p), FitRequest(p), ~Scans(p), faulted' \in {faulted, TRUE},
             InTurn /\ ~faulted' => PlaceFits(p)
      PROVE  GroupInv'
  BY <1>1, <1>2, LookStep
<1>3. CASE cachedID[q.g] = "live" /\ Serves(r, AfterLookup(q, TRUE)) /\ UNCHANGED faulted
  <2>1. InTurn => nameOf[q.g] # Nameless
    BY <1>1, <1>3 DEF InTurn, NamesAgree
  <2> QED BY <1>1, <1>2, <1>3, <2>1, AfterLookupFits
<1>4. CASE q.g \in StoredGroups /\ Serves(r, [q EXCEPT !.at = "foundID"]) /\ UNCHANGED faulted
  <2> DEFINE p == [q EXCEPT !.at = "foundID"]
  <2>1. nameOf[q.g] # Nameless
    BY <1>4 DEF StoredGroups
  <2>2. FitRequest(p) /\ PlaceFits(p) /\ ~Scans(p)
    BY <1>1, <2>1 DEF FitRequest, GroupRequest, HasGroup, PlaceFits, Scans
  <2> QED BY <1>2, <1>4, <2>2
<1>5. CASE Serves(r, AfterLookup(q, FALSE)) /\ faulted' \in {faulted, TRUE}
  BY <1>1, <1>2, <1>5, AfterLookupFits
<1> QED BY <1>3, <1>4, <1>5 DEF findGroupByID, Fails

(* Where a request goes on once its record is in both caches.              *)
LEMMA AfterCachingFits ==
  ASSUME NEW q, FitRequest(q), q.at \in {"foundName", "newName"}
  PROVE  /\ FitRequest(AfterCaching(q))
         /\ Scans(AfterCaching(q)) => Scans(q) /\ AfterCaching(q).todo = q.todo
         /\ nameOf[q.g] # Nameless => PlaceFits(AfterCaching(q))
<1>1. /\ q \in GroupRequest /\ q.g \in GroupIDs /\ issued[q.g] # Nameless
      /\ q.at = "foundName" => q.op # "list"
  BY DEF FitRequest, HasGroup
<1>2. CASE q.at = "foundName"
  <2>1. AfterCaching(q) = AfterLookup(q, TRUE)
    BY <1>1, <1>2 DEF AfterCaching
  <2> QED BY <1>1, <1>2, <2>1, AfterLookupFits
<1>3. CASE q.at # "foundName" /\ q.op = "list"
  <2>1. AfterCaching(q) = [q EXCEPT !.at = "scan"]
    BY <1>3 DEF AfterCaching
  <2> QED BY <1>1, <1>3, <2>1 DEF FitRequest, GroupRequest, HasGroup, PlaceFits, Scans
<1>4. CASE q.at # "foundName" /\ q.op # "list"
  <2>1. AfterCaching(q) = NoRequest
    BY <1>4 DEF AfterCaching
  <2> QED BY <2>1, NoRequestFits
<1> QED BY <1>2, <1>3, <1>4

(* Putting a record into the two caches.                                   *)
LEMMA CachingPreserves ==
  ASSUME GroupInv, NEW r \in GroupRequests, cacheByID(r) \/ cacheByName(r)
  PROVE  GroupInv'
<1> DEFINE q == serving[r]
<1>1. GroupTypes /\ ListingKept /\ FitRequest(q) /\ q \in GroupRequest
  BY DEF GroupInv, GroupTypes
<1>2. UNCHANGED <<nameOf, listing, issued, concurrent, faulted>> /\ q.at # "idle"
      /\ q.g \in GroupIDs /\ issued[q.g] # Nameless
  BY <1>1 DEF cacheByID, cacheByName, groupHistory, FitRequest, HasGroup
<1>3. CASE cacheByID(r)
  <2>0. PICK p : p = [q EXCEPT !.at = IF q.at = "foundID" THEN "foundName" ELSE "newName"]
    OBVIOUS
  <2>1. /\ Serves(r, p) /\ cachedID' = [cachedID EXCEPT ![q.g] = "live"] /\ cachedName' = cachedName
        /\ q.at \in {"foundID", "newID"}
    BY <1>3, <2>0 DEF cacheByID, Turns
  <2>2. FitRequest(p)
    BY <1>1, <2>0, <2>1 DEF FitRequest, GroupRequest, HasGroup
  <2>3. FitRequest(p)'
    BY <1>2, <2>2 DEF FitRequest
  <2>4. GroupTypes'
    <3>1. cachedID' \in [GroupIDs -> {"none", "live", "expired"}]
      BY <1>1, <2>1 DEF GroupTypes
    <3> QED BY <1>1, <1>2, <2>1, <2>3, <3>1, GroupTyped DEF GroupTypes
  <2>5. LeavesListed(r, p)
    <3>1. \A g \in GroupIDs : Uncached(g)' => g # q.g /\ Uncached(g)
      BY <1>1, <1>2, <2>1 DEF Uncached, GroupTypes
    <3>2. p.todo = q.todo /\ (Scans(p) => Scans(q))
      BY <1>1, <2>0, <2>1 DEF GroupRequest, Scans, FitRequest
    <3> QED BY <1>2, <3>1, <3>2 DEF LeavesListed, WorksOn
  <2>6. ListingKept'
    BY <1>1, <1>2, <2>1, <2>5, ListingStep
  <2>7. ASSUME InTurn PROVE InTurn'
    <3>1. nameOf[q.g] # Nameless
      BY <2>1, <2>7 DEF InTurn, PlaceFits
    <3>2. NamesAgree'
      BY <1>1, <1>2, <2>1, <2>7, <3>1 DEF InTurn, NamesAgree, GroupTypes
    <3>3. PlaceFits(p)'
      <4>1. p.g = q.g /\ p.at \in {"foundName", "newName"}
        BY <1>1, <2>0 DEF GroupRequest
      <4>2. nameOf'[q.g] # Nameless /\ cachedID'[q.g] = "live"
        BY <1>1, <1>2, <2>1, <3>1 DEF GroupTypes
      <4> QED BY <4>1, <4>2 DEF PlaceFits
    <3> QED BY <1>1, <1>2, <2>1, <2>7, <3>2, <3>3, TurnStep
  <2> QED BY <1>2, <2>4, <2>6, <2>7 DEF GroupInv
<1>4. CASE cacheByName(r)
  <2> DEFINE n == issued[q.g]
  <2>0. PICK p : p = AfterCaching(q)
    OBVIOUS
  <2>1. /\ Serves(r, p) /\ cachedName' = [cachedName EXCEPT ![n] = [g |-> q.g, live |-> TRUE]]
        /\ cachedID' = cachedID /\ q.at \in {"foundName", "newName"}
    BY <1>4, <2>0 DEF cacheByName
  <2>2. FitRequest(p) /\ (Scans(p) => Scans(q) /\ p.todo = q.todo)
        /\ (nameOf[q.g] # Nameless => PlaceFits(p))
    BY <1>1, <2>0, <2>1, AfterCachingFits
  <2>3. FitRequest(p)'
    BY <1>2, <2>2 DEF FitRequest
  <2>4. n \in GroupNames
    BY <1>1, <1>2 DEF GroupTypes
  <2>5. GroupTypes'
    <3>1. /\ cachedName' \in [GroupNames -> [g : GroupIDs \cup {Nameless}, live : BOOLEAN]]
          /\ \A m \in GroupNames : cachedName'[m].live => cachedName'[m].g # Nameless
          /\ \A m \in GroupNames : cachedName'[m].g # Nameless => issued'[cachedName'[m].g] = m
      BY <1>1, <1>2, <2>1, <2>4, RecordsAssumption DEF GroupTypes
    <3> QED BY <1>1, <1>2, <2>1, <2>3, <3>1, GroupTyped DEF GroupTypes
  <2>6. LeavesListed(r, p)
    BY <1>2, <2>1, <2>2 DEF LeavesListed, Uncached, WorksOn
  <2>7. ListingKept'
    BY <1>1, <1>2, <2>1, <2>6, ListingStep
  <2>8. ASSUME InTurn PROVE InTurn'
    <3>1. nameOf[q.g] # Nameless /\ nameOf[q.g] = n /\ cachedID[q.g] # "none"
      BY <1>1, <1>2, <2>1, <2>8 DEF InTurn, PlaceFits, GroupTypes
    <3>2. NamesAgree'
      BY <1>1, <1>2, <2>1, <2>8, <3>1 DEF InTurn, NamesAgree, GroupTypes
    <3>3. PlaceFits(p)'
      <4>1. p.at \notin {"eraseID", "deleteItem"}
        BY <1>1, <2>0, <2>1 DEF AfterCaching, AfterLookup, NoRequest, GroupRequest
      <4> QED BY <1>2, <2>1, <2>2, <3>1, <4>1 DEF PlaceFits
    <3> QED BY <1>1, <1>2, <2>1, <2>8, <3>2, <3>3, TurnStep
  <2> QED BY <1>2, <2>5, <2>7, <2>8 DEF GroupInv
<1> QED BY <1>3, <1>4
(* Storing a group.                                                        *)
LEMMA PutGroupPreserves ==
  ASSUME GroupInv, NEW r \in GroupRequests, putGroup(r)
  PROVE  GroupInv'
<1> DEFINE q == serving[r]
<1>1. GroupTypes /\ ListingKept /\ FitRequest(q) /\ q \in GroupRequest
  BY DEF GroupInv, GroupTypes
<1>2. /\ UNCHANGED <<cachedID, cachedName, listing, issued, concurrent>>
      /\ q.at = "put" /\ q.g \in GroupIDs /\ issued[q.g] # Nameless /\ q.op \in {"create", "edit"}
      /\ q.op = "create" => issued[q.g] = q.n
  BY <1>1 DEF putGroup, groupHistory, groupCaches, FitRequest, HasGroup
<1>3. PICK p : Serves(r, p) /\ \/ p = [q EXCEPT !.at = "newID"] /\ faulted' = faulted
                                  /\ nameOf' = [nameOf EXCEPT ![q.g] = issued[q.g]]
                               \/ p = NoRequest /\ faulted' = TRUE
                                  /\ nameOf' \in {nameOf, [nameOf EXCEPT ![q.g] = issued[q.g]]}
  BY DEF putGroup, Turns, Fails
<1>4. GroupTypes'
  <2>1. FitRequest(p)
    BY <1>1, <1>2, <1>3, NoRequestFits DEF FitRequest, GroupRequest, HasGroup
  <2>2. FitRequest(p)'
    BY <1>2, <2>1 DEF FitRequest
  <2>3. /\ nameOf' \in [GroupIDs -> GroupNames \cup {Nameless}]
        /\ \A g \in GroupIDs : nameOf'[g] # Nameless => nameOf'[g] = issued'[g]
    <3>1. nameOf' = nameOf \/ nameOf' = [nameOf EXCEPT ![q.g] = issued[q.g]]
      BY <1>3
    <3> QED BY <1>1, <1>2, <3>1 DEF GroupTypes
  <2>4. faulted' \in BOOLEAN
    BY <1>1, <1>3 DEF GroupTypes
  <2> QED BY <1>1, <1>2, <1>3, <2>2, <2>3, <2>4, GroupTyped DEF GroupTypes
<1>5. ListingKept'
  <2>1. CASE faulted' = TRUE
    BY <2>1 DEF ListingKept
  <2>2. CASE p = [q EXCEPT !.at = "newID"] /\ faulted' = faulted
             /\ nameOf' = [nameOf EXCEPT ![q.g] = issued[q.g]]
    <3>1. p.g = q.g /\ p.at = "newID" /\ p.op # "list"
      BY <1>1, <1>2, <2>2 DEF GroupRequest
    <3>2. \A g \in GroupIDs : g # q.g => (Uncached(g)' => Uncached(g))
      BY <1>1, <1>2, <2>2 DEF Uncached, GroupTypes
    <3>3. LeavesListed(r, p)
      BY <1>2, <3>1, <3>2 DEF LeavesListed, WorksOn, Scans
    <3> QED BY <1>1, <1>3, <2>2, <3>3, ListingStep
  <2> QED BY <1>3, <2>1, <2>2
<1>6. ASSUME ~concurrent', ~faulted' PROVE InTurn'
  <2>1. /\ p = [q EXCEPT !.at = "newID"] /\ faulted' = faulted
        /\ nameOf' = [nameOf EXCEPT ![q.g] = issued[q.g]] /\ InTurn
    BY <1>2, <1>3, <1>6 DEF GroupInv
  <2>2. PlaceFits(q) /\ NamesAgree
    BY <2>1 DEF InTurn
  <2>3. \A g \in GroupIDs : nameOf[g] = issued[q.g] => g = q.g
    <3>1. CASE q.op = "create"
      BY <1>2, <2>2, <3>1 DEF PlaceFits
    <3>2. CASE q.op = "edit"
      <4>1. nameOf[q.g] = issued[q.g]
        BY <1>1, <1>2, <2>2, <3>2 DEF PlaceFits, GroupTypes
      <4> QED BY <1>2, <2>2, <4>1 DEF NamesAgree
    <3> QED BY <1>2, <3>1, <3>2
  <2>4. /\ nameOf'[q.g] = issued[q.g] /\ \A g \in GroupIDs : g # q.g => nameOf'[g] = nameOf[g]
        /\ nameOf[q.g] # Nameless => nameOf'[q.g] = nameOf[q.g]
    BY <1>1, <1>2, <2>1 DEF GroupTypes
  <2>5. NamesAgree'
    <3>1. \A g, h \in GroupIDs : nameOf'[g] # Nameless /\ nameOf'[g] = nameOf'[h] => g = h
      BY <2>2, <2>3, <2>4 DEF NamesAgree
    <3>2. \A g \in GroupIDs : cachedID'[g] # "none" => nameOf'[g] # Nameless
      BY <1>2, <2>2, <2>4 DEF NamesAgree
    <3>3. ASSUME NEW n \in GroupNames, cachedName'[n].g # Nameless
          PROVE  nameOf'[cachedName'[n].g] = n /\ cachedID'[cachedName'[n].g] # "none"
      <4>1. cachedName[n].g \in GroupIDs /\ nameOf[cachedName[n].g] = n /\ n # Nameless
            /\ cachedID[cachedName[n].g] # "none"
        BY <1>1, <1>2, <2>2, <3>3, RecordsAssumption DEF NamesAgree, GroupTypes
      <4> QED BY <1>2, <2>4, <4>1
    <3> QED BY <3>1, <3>2, <3>3 DEF NamesAgree
  <2>6. PlaceFits(p)'
    <3>1. p.g = q.g /\ p.at = "newID"
      BY <1>1, <2>1 DEF GroupRequest
    <3> QED BY <1>2, <2>4, <3>1 DEF PlaceFits
  <2> QED BY <1>1, <1>2, <1>3, <2>1, <2>5, <2>6, TurnStep
<1> QED BY <1>4, <1>5, <1>6 DEF GroupInv

(* Removing a group.                                                       *)
LEMMA RemovalPreserves ==
  ASSUME GroupInv, NEW r \in GroupRequests, eraseName(r) \/ eraseID(r) \/ removeGroup(r)
  PROVE  GroupInv'
<1> DEFINE q == serving[r]
<1>1. GroupTypes /\ ListingKept /\ FitRequest(q) /\ q \in GroupRequest
  BY DEF GroupInv, GroupTypes
<1>2. /\ UNCHANGED <<listing, issued, concurrent>>
      /\ q.at \in {"eraseName", "eraseID", "deleteItem"} /\ q.g \in GroupIDs /\ issued[q.g] # Nameless
  BY <1>1 DEF eraseName, eraseID, removeGroup, groupHistory, groupCaches, FitRequest, HasGroup
<1>3. issued[q.g] \in GroupNames /\ q.g # Nameless
  BY <1>1, <1>2, RecordsAssumption DEF GroupTypes
<1>4. CASE eraseName(r)
  <2>1. PICK p : p = [q EXCEPT !.at = "eraseID"]
    OBVIOUS
  <2>2. /\ Serves(r, p) /\ UNCHANGED <<nameOf, cachedID, faulted>> /\ q.at = "eraseName"
        /\ cachedName' = IF cachedID[q.g] = "none" THEN cachedName
                         ELSE [cachedName EXCEPT ![issued[q.g]] = NoRecord]
    BY <1>4, <2>1 DEF eraseName, Turns
  <2>3. FitRequest(p)' /\ p.g = q.g /\ p.at = "eraseID" /\ p.todo = q.todo /\ p.op = q.op
    BY <1>1, <1>2, <2>1, <2>2 DEF FitRequest, GroupRequest, HasGroup
  <2>4. NoRecord \in [g : GroupIDs \cup {Nameless}, live : BOOLEAN] /\ NoRecord.g = Nameless
        /\ ~NoRecord.live
    BY DEF NoRecord
  <2>5. GroupTypes'
    <3>1. /\ cachedName' \in [GroupNames -> [g : GroupIDs \cup {Nameless}, live : BOOLEAN]]
          /\ \A m \in GroupNames : cachedName'[m].live => cachedName'[m].g # Nameless
          /\ \A m \in GroupNames : cachedName'[m].g # Nameless => issued'[cachedName'[m].g] = m
      BY <1>1, <1>2, <1>3, <2>2, <2>4 DEF GroupTypes
    <3> QED BY <1>1, <1>2, <2>2, <2>3, <3>1, GroupTyped DEF GroupTypes
  <2>6. ListingKept'
    <3>1. LeavesListed(r, p)
      BY <1>2, <2>2, <2>3 DEF LeavesListed, Uncached, WorksOn, Scans
    <3> QED BY <1>1, <2>2, <3>1, ListingStep
  <2>7. ASSUME InTurn PROVE InTurn'
    <3>1. \A n \in GroupNames : cachedName'[n].g # q.g
      <4> SUFFICES ASSUME NEW n \in GroupNames, cachedName'[n].g = q.g PROVE FALSE
        OBVIOUS
      <4>1. cachedName[n].g = q.g
        BY <1>1, <1>2, <1>3, <2>2, <2>4 DEF GroupTypes
      <4>2. cachedID[q.g] # "none" /\ issued[q.g] = n
        BY <1>1, <1>3, <2>7, <4>1 DEF InTurn, NamesAgree, GroupTypes
      <4> QED BY <1>1, <1>3, <2>2, <2>4, <4>2 DEF GroupTypes
    <3>2. NamesAgree'
      <4>1. \A n \in GroupNames : cachedName'[n].g # Nameless => cachedName'[n] = cachedName[n]
        BY <1>1, <1>3, <2>2, <2>4 DEF GroupTypes
      <4> QED BY <2>2, <2>7, <4>1 DEF InTurn, NamesAgree
    <3>3. PlaceFits(p)'
      BY <2>3, <3>1 DEF PlaceFits
    <3> QED BY <1>1, <1>2, <2>2, <2>7, <3>2, <3>3, TurnStep
  <2> QED BY <1>2, <2>2, <2>5, <2>6, <2>7 DEF GroupInv
<1>5. CASE eraseID(r)
  <2>1. PICK p : p = [q EXCEPT !.at = "deleteItem"]
    OBVIOUS
  <2>2. /\ Serves(r, p) /\ UNCHANGED <<nameOf, cachedName, faulted>> /\ q.at = "eraseID"
        /\ cachedID' = [cachedID EXCEPT ![q.g] = "none"]
    BY <1>5, <2>1 DEF eraseID, Turns
  <2>3. FitRequest(p)' /\ p.g = q.g /\ p.at = "deleteItem"
    BY <1>1, <1>2, <2>1, <2>2 DEF FitRequest, GroupRequest, HasGroup
  <2>4. cachedID' \in [GroupIDs -> {"none", "live", "expired"}] /\ cachedID'[q.g] = "none"
        /\ \A g \in GroupIDs : g # q.g => cachedID'[g] = cachedID[g]
    BY <1>1, <1>2, <2>2 DEF GroupTypes
  <2>5. GroupTypes'
    BY <1>1, <1>2, <2>2, <2>3, <2>4, GroupTyped DEF GroupTypes
  <2>6. ListingKept'
    <3>1. LeavesListed(r, p)
      BY <1>2, <2>2, <2>3, <2>4 DEF LeavesListed, Uncached, WorksOn, Scans
    <3> QED BY <1>1, <2>2, <3>1, ListingStep
  <2>7. ASSUME InTurn PROVE InTurn'
    <3>1. \A n \in GroupNames : cachedName[n].g # q.g
      BY <2>2, <2>7 DEF InTurn, PlaceFits
    <3>2. NamesAgree'
      <4>1. \A n \in GroupNames : cachedName[n].g # Nameless => cachedName[n].g \in GroupIDs
        BY <1>1 DEF GroupTypes
      <4> QED BY <2>2, <2>4, <2>7, <3>1, <4>1 DEF InTurn, NamesAgree
    <3>3. PlaceFits(p)'
      BY <2>2, <2>3, <2>4, <3>1 DEF PlaceFits
    <3> QED BY <1>1, <1>2, <2>2, <2>7, <3>2, <3>3, TurnStep
  <2> QED BY <1>2, <2>2, <2>5, <2>6, <2>7 DEF GroupInv
<1>6. CASE removeGroup(r)
  <2>1. /\ Serves(r, NoRequest) /\ UNCHANGED <<cachedID, cachedName>> /\ q.at = "deleteItem"
        /\ \/ nameOf' = [nameOf EXCEPT ![q.g] = Nameless] /\ faulted' = faulted
           \/ faulted' = TRUE /\ nameOf' \in {nameOf, [nameOf EXCEPT ![q.g] = Nameless]}
    BY <1>6 DEF removeGroup, groupCaches, Fails
  <2>2. FitRequest(NoRequest)' /\ PlaceFits(NoRequest)'
    BY NoRequestFits DEF FitRequest, PlaceFits, NoRequest, HasGroup
  <2>3. GroupTypes'
    <3>1. /\ nameOf' \in [GroupIDs -> GroupNames \cup {Nameless}]
          /\ \A g \in GroupIDs : nameOf'[g] # Nameless => nameOf'[g] = issued'[g]
          /\ faulted' \in BOOLEAN
      BY <1>1, <1>2, <2>1 DEF GroupTypes
    <3>2. PICK p : p = NoRequest
      OBVIOUS
    <3>3. Serves(r, p) /\ FitRequest(p)'
      BY <2>1, <2>2, <3>2
    <3> QED BY <1>1, <1>2, <2>1, <3>1, <3>3, GroupTyped DEF GroupTypes
  <2>4. \A g \in GroupIDs : nameOf'[g] # Nameless => nameOf[g] # Nameless /\ nameOf'[g] = nameOf[g]
    BY <1>1, <1>2, <2>1 DEF GroupTypes
  <2>5. ListingKept'
    <3>1. CASE faulted' = TRUE
      BY <3>1 DEF ListingKept
    <3>2. CASE nameOf' = [nameOf EXCEPT ![q.g] = Nameless] /\ faulted' = faulted
      <4>1. nameOf'[q.g] = Nameless
        BY <1>1, <1>2, <3>2 DEF GroupTypes
      <4>2. LeavesListed(r, NoRequest)
        BY <1>2, <2>1, <2>4, <4>1, NoRequestFits DEF LeavesListed, Uncached, WorksOn
      <4> QED BY <1>1, <2>1, <3>2, <4>2, ListingStep
    <3> QED BY <2>1, <3>1, <3>2
  <2>6. ASSUME ~concurrent', ~faulted' PROVE InTurn'
    <3>1. /\ nameOf' = [nameOf EXCEPT ![q.g] = Nameless] /\ InTurn
      BY <1>2, <2>1, <2>6 DEF GroupInv
    <3>2. cachedID[q.g] = "none" /\ \A n \in GroupNames : cachedName[n].g # q.g
      BY <2>1, <3>1 DEF InTurn, PlaceFits
    <3>3. \A g \in GroupIDs : g # q.g => nameOf'[g] = nameOf[g]
      BY <1>1, <1>2, <3>1 DEF GroupTypes
    <3>4. NamesAgree'
      <4>1. \A n \in GroupNames : cachedName[n].g # Nameless => cachedName[n].g \in GroupIDs
        BY <1>1 DEF GroupTypes
      <4> QED BY <2>1, <2>4, <3>1, <3>2, <3>3, <4>1 DEF InTurn, NamesAgree
    <3>5. PICK p : p = NoRequest
      OBVIOUS
    <3>6. Serves(r, p) /\ PlaceFits(p)'
      BY <2>1, <2>2, <3>5
    <3> QED BY <1>1, <1>2, <3>1, <3>4, <3>6, TurnStep
  <2> QED BY <2>3, <2>5, <2>6 DEF GroupInv
<1> QED BY <1>4, <1>5, <1>6
(* Listing the groups.                                                     *)
LEMMA GroupListPreserves ==
  ASSUME GroupInv, NEW r \in GroupRequests, listAllGroups(r) \/ scanPage(r) \/ stampGroups(r)
  PROVE  GroupInv'
<1> DEFINE q == serving[r]
<1>1. GroupTypes /\ ListingKept /\ FitRequest(q) /\ q \in GroupRequest
  BY DEF GroupInv, GroupTypes
<1>2. q.op = "list" /\ q.at \in {"list", "scan"}
  BY <1>1 DEF listAllGroups, scanPage, stampGroups, FitRequest
<1>3. CASE listAllGroups(r)
  <2>1. UNCHANGED <<nameOf, groupCaches, groupHistory, faulted>>
    BY <1>3 DEF listAllGroups
  <2>2. CASE listing /\ Serves(r, NoRequest)
    BY <1>2, <2>1, <2>2, NoRequestFits, LookStep
  <2>3. CASE Serves(r, [q EXCEPT !.at = "scan", !.todo = GroupIDs])
    <3> DEFINE p == [q EXCEPT !.at = "scan", !.todo = GroupIDs]
    <3>1. FitRequest(p) /\ PlaceFits(p) /\ p.todo = GroupIDs
      BY <1>1, <1>2 DEF FitRequest, GroupRequest, HasGroup, PlaceFits
    <3> QED BY <1>2, <2>1, <2>3, <3>1, LookStep
  <2> QED BY <1>3, <2>2, <2>3 DEF listAllGroups
<1>4. CASE scanPage(r)
  <2>1. UNCHANGED <<nameOf, groupCaches, groupHistory>> /\ q.at = "scan"
    BY <1>4 DEF scanPage
  <2>2. CASE Fails /\ Serves(r, NoRequest)
    BY <1>2, <2>1, <2>2, NoRequestFits, LookStep DEF Fails
  <2>3. ASSUME NEW g \in q.todo, faulted' = faulted,
               Serves(r, [q EXCEPT !.todo = @ \ {g}, !.g = g,
                                   !.at = IF g \in StoredGroups THEN "newID" ELSE "scan"])
        PROVE  GroupInv'
    <3> DEFINE p == [q EXCEPT !.todo = @ \ {g}, !.g = g,
                              !.at = IF g \in StoredGroups THEN "newID" ELSE "scan"]
    <3>1. g \in GroupIDs /\ p \in GroupRequest /\ p.g = g /\ p.todo = q.todo \ {g} /\ p.op = "list"
          /\ p.at = IF g \in StoredGroups THEN "newID" ELSE "scan"
      BY <1>1, <1>2, <2>3 DEF GroupRequest, HasGroup
    <3>2. g \in StoredGroups => nameOf[g] # Nameless /\ issued[g] # Nameless
      BY <1>1 DEF StoredGroups, GroupTypes
    <3>3. FitRequest(p) /\ PlaceFits(p)
      BY <3>1, <3>2 DEF FitRequest, HasGroup, PlaceFits
    <3>4. Scans(q)
      BY <1>2, <2>1 DEF Scans
    <3>5. ASSUME NEW h \in GroupIDs, Uncached(h), h \notin p.todo
          PROVE  WorksOn(p, h) \/ h \notin q.todo
      <4>1. h \in StoredGroups
        BY <3>5 DEF Uncached, StoredGroups
      <4> QED BY <3>1, <3>5, <4>1 DEF WorksOn
    <3> HIDE DEF p
    <3> QED BY <2>1, <2>3, <3>3, <3>4, <3>5, LookStep DEF p
  <2> QED BY <1>4, <2>2, <2>3 DEF scanPage
<1>5. CASE stampGroups(r)
  <2>1. /\ UNCHANGED <<nameOf, cachedID, cachedName, issued, concurrent, faulted>>
        /\ listing' = TRUE /\ q.at = "scan" /\ q.todo = {} /\ Serves(r, NoRequest)
    BY <1>5 DEF stampGroups, groupHistory
  <2>2. PICK p : p = NoRequest
    OBVIOUS
  <2>3. Serves(r, p) /\ FitRequest(p)' /\ PlaceFits(p)'
    BY <2>1, <2>2, NoRequestFits DEF FitRequest, PlaceFits, NoRequest, HasGroup
  <2>4. GroupTypes'
    BY <1>1, <2>1, <2>3, GroupTyped DEF GroupTypes
  <2>5. ListingKept'
    <3>1. Scans(q)
      BY <1>2, <2>1 DEF Scans
    <3>2. LeavesListed(r, p)
      BY <2>1, <2>2, <3>1, NoRequestFits DEF LeavesListed, Uncached, WorksOn
    <3> QED BY <1>1, <2>1, <2>3, <3>2, ListingStep
  <2>6. ASSUME InTurn PROVE InTurn'
    <3>1. NamesAgree'
      BY <2>1, <2>6 DEF InTurn, NamesAgree
    <3> QED BY <1>1, <2>1, <2>3, <2>6, <3>1, TurnStep
  <2> QED BY <2>1, <2>4, <2>5, <2>6 DEF GroupInv
<1> QED BY <1>3, <1>4, <1>5

(* A request arrives.                                                      *)
LEMMA GroupRequestPreserves ==
  ASSUME GroupInv, NEW r \in GroupRequests, requestGroup(r)
  PROVE  GroupInv'
<1>1. GroupTypes /\ ListingKept /\ serving[r].at = "idle"
      /\ UNCHANGED <<nameOf, cachedID, cachedName, listing, faulted>>
      /\ concurrent' = (concurrent \/ \E s \in GroupRequests : serving[s].at # "idle")
  BY DEF requestGroup, groupCaches, GroupInv
<1>2. ASSUME NEW q, Serves(r, q), FitRequest(q)', PlaceFits(q)', ~Scans(q),
             issued' \in [GroupIDs -> GroupNames \cup {Nameless}],
             \A g \in GroupIDs : issued[g] # Nameless => issued'[g] = issued[g]
      PROVE  GroupInv'
  <2>1. GroupTypes'
    <3>1. \A g \in GroupIDs : nameOf'[g] # Nameless => nameOf'[g] = issued'[g]
      BY <1>1, <1>2, RecordsAssumption DEF GroupTypes
    <3>2. \A n \in GroupNames : cachedName'[n].g # Nameless => issued'[cachedName'[n].g] = n
      BY <1>1, <1>2, RecordsAssumption DEF GroupTypes
    <3> QED BY <1>1, <1>2, <3>1, <3>2, GroupTyped DEF GroupTypes
  <2>2. ListingKept'
    <3>1. LeavesListed(r, q)
      BY <1>1, <1>2 DEF LeavesListed, Uncached, WorksOn
    <3> QED BY <1>1, <1>2, <3>1, ListingStep
  <2>3. ASSUME ~concurrent', ~faulted' PROVE InTurn'
    <3>1. InTurn /\ \A s \in GroupRequests : serving[s].at = "idle"
      BY <1>1, <2>3 DEF GroupInv
    <3>2. NamesAgree'
      BY <1>1, <3>1 DEF InTurn, NamesAgree
    <3> QED BY <1>1, <1>2, <3>1, <3>2, TurnStep
  <2> QED BY <2>1, <2>2, <2>3 DEF GroupInv
<1>3. ASSUME NEW g \in GroupIDs, NEW n \in GroupNames, issued[g] = Nameless,
             issued' = [issued EXCEPT ![g] = n],
             Serves(r, [NoRequest EXCEPT !.op = "create", !.at = "byName", !.g = g, !.n = n])
      PROVE  GroupInv'
  <2>1. PICK q : q = [NoRequest EXCEPT !.op = "create", !.at = "byName", !.g = g, !.n = n]
    OBVIOUS
  <2>2. q = [op |-> "create", at |-> "byName", g |-> g, n |-> n, todo |-> {}]
    BY <2>1 DEF NoRequest
  <2>3. n # Nameless /\ nameOf[g] = Nameless /\ issued'[g] = n
        /\ issued' \in [GroupIDs -> GroupNames \cup {Nameless}]
        /\ \A h \in GroupIDs : issued[h] # Nameless => issued'[h] = issued[h]
    BY <1>1, <1>3, RecordsAssumption DEF GroupTypes
  <2>4. FitRequest(q)' /\ PlaceFits(q)' /\ ~Scans(q)
    BY <1>1, <2>2, <2>3 DEF FitRequest, GroupRequest, HasGroup, PlaceFits, Scans
  <2> QED BY <1>2, <1>3, <2>1, <2>3, <2>4
<1>4. ASSUME NEW b \in GroupRequest, b.op \in {"show", "edit", "delete"}, issued' = issued,
             b.g # Nameless => issued[b.g] # Nameless, b.g = Nameless => b.n \in GroupNames,
             Serves(r, getGroup(b))
      PROVE  GroupInv'
  <2>1. PICK q : q = getGroup(b)
    OBVIOUS
  <2>2. /\ q \in GroupRequest /\ q.op = b.op /\ q.g = b.g /\ q.n = b.n
        /\ q.at = IF b.g # Nameless THEN "byID" ELSE "byName"
    BY <2>1 DEF getGroup, GroupRequest, HasGroup
  <2>3. FitRequest(q)' /\ PlaceFits(q)' /\ ~Scans(q)
    BY <1>4, <2>2 DEF FitRequest, GroupRequest, HasGroup, PlaceFits, Scans
  <2> QED BY <1>1, <1>2, <1>4, <2>1, <2>3 DEF GroupTypes
<1>5. CASE issued' = issued /\ Serves(r, [NoRequest EXCEPT !.op = "list", !.at = "list"])
  <2>1. PICK q : q = [NoRequest EXCEPT !.op = "list", !.at = "list"]
    OBVIOUS
  <2>2. q = [op |-> "list", at |-> "list", g |-> Nameless, n |-> Nameless, todo |-> {}]
    BY <2>1 DEF NoRequest
  <2>3. FitRequest(q)' /\ PlaceFits(q)' /\ ~Scans(q)
    BY <2>2 DEF FitRequest, GroupRequest, HasGroup, PlaceFits, Scans
  <2> QED BY <1>1, <1>2, <1>5, <2>1, <2>3 DEF GroupTypes
<1>6. ASSUME NEW op \in {"show", "edit", "delete"}, NEW g \in GroupIDs, issued[g] # Nameless,
             issued' = issued, Serves(r, getGroup([NoRequest EXCEPT !.op = op, !.g = g]))
      PROVE  GroupInv'
  <2>0. PICK b : b = [NoRequest EXCEPT !.op = op, !.g = g]
    OBVIOUS
  <2>1. b \in GroupRequest /\ b.op = op /\ b.g = g
    BY <2>0 DEF NoRequest, GroupRequest
  <2>2. b.g # Nameless /\ issued[b.g] # Nameless
    BY <1>6, <2>1, RecordsAssumption
  <2> QED BY <1>4, <1>6, <2>0, <2>1, <2>2
<1>7. ASSUME NEW op \in {"show", "edit", "delete"}, NEW n \in GroupNames,
             issued' = issued, Serves(r, getGroup([NoRequest EXCEPT !.op = op, !.n = n]))
      PROVE  GroupInv'
  <2>0. PICK b : b = [NoRequest EXCEPT !.op = op, !.n = n]
    OBVIOUS
  <2>1. b \in GroupRequest /\ b.op = op /\ b.g = Nameless /\ b.n = n
    BY <2>0 DEF NoRequest, GroupRequest
  <2> QED BY <1>4, <1>7, <2>0, <2>1
<1> QED BY <1>3, <1>5, <1>6, <1>7 DEF requestGroup

(* Records and the listing expire.                                         *)
LEMMA GroupExpiryPreserves ==
  ASSUME GroupInv, expireGroup
  PROVE  GroupInv'
<1>1. UNCHANGED <<nameOf, issued, concurrent, serving, faulted>> /\ GroupTypes
  BY DEF expireGroup, groupHistory, GroupInv
<1>2. /\ cachedID' \in [GroupIDs -> {"none", "live", "expired"}]
      /\ \A g \in GroupIDs : cachedID'[g] = "none" <=> cachedID[g] = "none"
  BY <1>1 DEF expireGroup, GroupTypes
<1>3. /\ cachedName' \in [GroupNames -> [g : GroupIDs \cup {Nameless}, live : BOOLEAN]]
      /\ \A n \in GroupNames : cachedName'[n].g = cachedName[n].g /\ (cachedName'[n].live => cachedName[n].live)
  <2>1. CASE UNCHANGED cachedName
    BY <1>1, <2>1 DEF GroupTypes
  <2>2. ASSUME NEW m \in GroupNames, cachedName' = [cachedName EXCEPT ![m].live = FALSE]
        PROVE  /\ cachedName' \in [GroupNames -> [g : GroupIDs \cup {Nameless}, live : BOOLEAN]]
               /\ \A n \in GroupNames : cachedName'[n].g = cachedName[n].g /\ (cachedName'[n].live => cachedName[n].live)
    <3> DEFINE c == [cachedName[m] EXCEPT !.live = FALSE]
    <3>1. cachedName' = [cachedName EXCEPT ![m] = c]
      BY <2>2
    <3>2. /\ c \in [g : GroupIDs \cup {Nameless}, live : BOOLEAN]
          /\ c.g = cachedName[m].g /\ c.live = FALSE
      BY <1>1 DEF GroupTypes
    <3> HIDE DEF c
    <3> QED BY <1>1, <3>1, <3>2 DEF GroupTypes
  <2> QED BY <2>1, <2>2 DEF expireGroup
<1>4. listing' \in BOOLEAN /\ (listing' => listing)
  <2>1. listing' = listing \/ listing' = FALSE
    BY DEF expireGroup
  <2>2. listing \in BOOLEAN
    BY <1>1 DEF GroupTypes
  <2>3. CASE listing' = listing
    BY <2>2, <2>3
  <2>4. CASE listing' = FALSE
    BY <2>4
  <2> QED BY <2>1, <2>3, <2>4
<1>5. GroupTypes'
  BY <1>1, <1>2, <1>3, <1>4 DEF GroupTypes, FitRequest
<1>6. ListingKept'
  BY <1>1, <1>2, <1>4 DEF GroupInv, ListingKept, Uncached
<1>7. ASSUME InTurn PROVE InTurn'
  <2>1. NamesAgree'
    <3>1. \A n \in GroupNames : cachedName[n].g # Nameless => cachedName[n].g \in GroupIDs
      BY <1>1 DEF GroupTypes
    <3> QED BY <1>1, <1>2, <1>3, <1>7, <3>1 DEF InTurn, NamesAgree
  <2>2. ASSUME NEW r \in GroupRequests PROVE PlaceFits(serving[r])'
    <3>1. PlaceFits(serving[r]) /\ FitRequest(serving[r])
      BY <1>1, <1>7 DEF InTurn, GroupTypes
    <3>2. serving[r].at \in {"foundName", "newName", "deleteItem"} => serving[r].g \in GroupIDs
      BY <3>1 DEF FitRequest, HasGroup
    <3> QED BY <1>1, <1>2, <1>3, <3>1, <3>2 DEF PlaceFits
  <2> QED BY <1>1, <1>7, <2>1, <2>2 DEF InTurn
<1> QED BY <1>1, <1>5, <1>6, <1>7 DEF GroupInv

(* Listings and names, for any number of requests, groups and names.       *)
THEOREM GroupRecordsInvariant == GroupRecordsSpec => []GroupInv
<1>1. GroupInit => GroupInv
  <2> SUFFICES ASSUME GroupInit PROVE GroupInv
    OBVIOUS
  <2>1. \A r \in GroupRequests : serving[r] = NoRequest
    BY DEF GroupInit
  <2>2. NoRequest \in GroupRequest /\ NoRequest.at = "idle"
    BY DEF NoRequest, GroupRequest
  <2>3. GroupTypes
    BY <2>1, <2>2, NoRequestFits DEF GroupInit, GroupTypes, NoRecord
  <2>4. ListingKept
    BY <2>1, NoRequestFits DEF GroupInit, ListingKept
  <2>5. InTurn
    <3>1. NamesAgree
      <4>1. ASSUME NEW g \in GroupIDs, NEW h \in GroupIDs, nameOf[g] # Nameless, nameOf[g] = nameOf[h]
            PROVE  g = h
        <5>1. nameOf[g] \in GroupNames /\ g \in Named(nameOf[g]) /\ h \in Named(nameOf[g])
          BY <4>1 DEF GroupInit, Named, StoredGroups
        <5> QED BY <5>1 DEF GroupInit
      <4> QED BY <4>1 DEF GroupInit, NamesAgree, NoRecord
    <3> QED BY <2>1, <2>2, <3>1, NoRequestFits DEF InTurn
  <2> QED BY <2>3, <2>4, <2>5 DEF GroupInv
<1>2. GroupInv /\ [GroupNext]_groupVars => GroupInv'
  <2> SUFFICES ASSUME GroupInv, [GroupNext]_groupVars PROVE GroupInv'
    OBVIOUS
  <2>1. CASE UNCHANGED groupVars
    BY <2>1 DEF groupVars, groupCaches, groupHistory, GroupInv, GroupTypes, FitRequest, ListingKept,
                Uncached, InTurn, NamesAgree, PlaceFits
  <2>2. ASSUME NEW r \in GroupRequests, requestGroup(r) \/ serveGroup(r) PROVE GroupInv'
    BY <2>2, GroupRequestPreserves, ByNamePreserves, ByIDPreserves, CachingPreserves, PutGroupPreserves,
       RemovalPreserves, GroupListPreserves DEF serveGroup
  <2> QED BY <2>1, <2>2, GroupExpiryPreserves DEF GroupNext
<1> QED BY <1>1, <1>2, PTL DEF GroupRecordsSpec

(* A listing answered from the cache names every group, whatever requests  *)
(* overlapped; and names agree while requests come one after the other.    *)
THEOREM GroupsAgree == GroupRecordsSpec => []GroupRecordsAgree
<1>1. GroupInv => GroupRecordsAgree
  <2> SUFFICES ASSUME GroupInv, AtRest PROVE GroupRecordsAgree
    BY DEF GroupRecordsAgree, GroupsListed, GroupNamesAgree
  <2>1. ~faulted /\ \A r \in GroupRequests : serving[r].at = "idle"
    BY DEF AtRest
  <2>2. GroupsListed
    BY <2>1 DEF GroupsListed, GroupInv, ListingKept, Uncached, WorksOn, StoredGroups
  <2>3. ASSUME ~concurrent PROVE NamesAgree
    BY <2>1, <2>3 DEF GroupInv, InTurn
  <2>4. GroupNamesAgree
    BY <2>3 DEF GroupNamesAgree, NamesAgree, Named, StoredGroups
  <2> QED BY <2>2, <2>4 DEF GroupRecordsAgree
<1> QED BY <1>1, GroupRecordsInvariant, PTL
-----------------------------------------------------------------------------
(* The catalogue of applications.                                          *)

ChartRecords == [name : Charts \cup {""}, version : 0..MaxVersion]
LookupRecord ==
  [op : {"none", "find", "list", "update"},
   at : {"idle", "find", "search", "insert", "list", "update", "fetch", "collect"},
   name : Charts \cup {""}, version : Newest..MaxVersion,
   todo : SUBSET ChartRecords, found : SUBSET ChartRecords, due : SUBSET ChartRecords]

(* A version of a chart that helm's index has, or had before it moved on.  *)
Published(x) == x.name \in Charts /\ x.version \in 1..indexed[x.name]
Offered == {x \in ChartRecords : x = NoChart \/ Published(x)}
NoOlder(found, due) == \A x \in due : \E y \in found : y.name = x.name /\ y.version >= x.version

(* What a request carries was published, what a lookup will remember has   *)
(* the name it was asked for, and a listing that is being collected has a  *)
(* version for everything that was announced before it and still lives.    *)
LookupKnows(q) ==
  /\ q.todo \subseteq Offered /\ q.due \subseteq announced
  /\ q.at \in {"find", "search", "insert"} => q.op = "find"
  /\ q.at \in {"list", "update", "fetch", "collect"} => q.op # "find"
  /\ q.at = "insert" => \A x \in q.todo : x = NoChart \/ x.name = q.name
  /\ q.at = "collect" => /\ \A x \in q.todo \cup q.found : Published(x)
                         /\ NoOlder(q.found, q.due)

CatalogueTypes ==
  /\ indexed \in [Charts -> 1..MaxVersion]
  /\ lookup \in [CatalogueRequests -> LookupRecord] /\ lookedUp \in LookupRecord

CatalogueInv ==
  /\ CatalogueTypes /\ CatalogueRight
  /\ catalogue \subseteq Offered /\ announced \subseteq catalogue \ {NoChart}
  /\ \A r \in CatalogueRequests : LookupKnows(lookup[r])

(* What was published stays so.                                            *)
IndexGrows == \A c \in Charts : indexed'[c] \in 1..MaxVersion /\ indexed'[c] >= indexed[c]

LEMMA StaysPublished ==
  ASSUME indexed \in [Charts -> 1..MaxVersion], IndexGrows
  PROVE  /\ \A x : Published(x) => Published(x)'
         /\ \A x \in Offered : x \in Offered'
BY CatalogueAssumption DEF IndexGrows, Published, Offered

(* A request still knows what it did when the catalogue has grown.         *)
LEMMA StillKnown ==
  ASSUME NEW q \in LookupRecord, LookupKnows(q), indexed \in [Charts -> 1..MaxVersion], IndexGrows,
         announced \subseteq announced'
  PROVE  LookupKnows(q)'
BY StaysPublished DEF LookupKnows

LEMMA NoLookupKnown ==
  NoLookup \in LookupRecord /\ LookupKnows(NoLookup) /\ LookupKnows(NoLookup)'
BY CatalogueAssumption DEF NoLookup, LookupRecord, LookupKnows, Newest

(* What a step of one request has to establish.                            *)
LEMMA LookupStep ==
  ASSUME CatalogueInv, NEW r \in CatalogueRequests, NEW q \in LookupRecord, ToLookup(r, q), LookupKnows(q)',
         lookedUp' \in LookupRecord, CatalogueRight', indexed' \in [Charts -> 1..MaxVersion], IndexGrows,
         announced \subseteq announced', announced' \subseteq catalogue' \ {NoChart},
         catalogue' \subseteq Offered'
  PROVE  CatalogueInv'
<1>1. lookup' = [lookup EXCEPT ![r] = q] /\ lookup \in [CatalogueRequests -> LookupRecord]
  BY DEF ToLookup, CatalogueInv, CatalogueTypes
<1>2. \A s \in CatalogueRequests : lookup'[s] = IF s = r THEN q ELSE lookup[s]
  BY <1>1
<1>3. (\A s \in CatalogueRequests : LookupKnows(lookup[s]))'
  <2> SUFFICES ASSUME NEW s \in CatalogueRequests PROVE LookupKnows(lookup[s])'
    OBVIOUS
  <2>1. CASE s = r
    <3>1. lookup'[s] = q
      BY <1>2, <2>1
    <3> QED BY <3>1 DEF LookupKnows
  <2>2. CASE s # r
    <3>1. PICK p : p = lookup[s]
      OBVIOUS
    <3>2. lookup'[s] = p /\ p \in LookupRecord /\ LookupKnows(p)
      BY <1>1, <1>2, <2>2, <3>1 DEF CatalogueInv
    <3>3. LookupKnows(p)'
      BY <3>2, StillKnown DEF CatalogueInv, CatalogueTypes
    <3> QED BY <3>2, <3>3 DEF LookupKnows
  <2> QED BY <2>1, <2>2
<1> QED BY <1>1, <1>3 DEF CatalogueInv, CatalogueTypes

(* A step that answers nothing and leaves the catalogue as it is.          *)
LEMMA QuietLookup ==
  ASSUME CatalogueInv, NEW r \in CatalogueRequests, NEW q \in LookupRecord, LookupGoesOn(r, q), LookupKnows(q),
         UNCHANGED <<indexed, catalogue, announced>>
  PROVE  CatalogueInv'
<1>1. IndexGrows
  BY DEF IndexGrows, CatalogueInv, CatalogueTypes
<1>2. CatalogueRight'
  BY DEF LookupGoesOn, CatalogueRight, NoLookup
<1>3. LookupKnows(q)' /\ catalogue' \subseteq Offered'
  BY <1>1, StillKnown, StaysPublished DEF CatalogueInv, CatalogueTypes
<1> QED BY <1>1, <1>2, <1>3, NoLookupKnown, LookupStep DEF LookupGoesOn, CatalogueInv, CatalogueTypes

(* An answer.                                                              *)
LEMMA AnswerLookup ==
  ASSUME CatalogueInv, NEW r \in CatalogueRequests, NEW found \in SUBSET Offered, LookupEnds(r, found),
         lookup[r].op = "find" => \A x \in found : x = NoChart \/ x.name = lookup[r].name,
         lookup[r].op = "list" => NoOlder(found, lookup[r].due),
         UNCHANGED indexed, announced \subseteq announced', announced' \subseteq catalogue' \ {NoChart},
         catalogue' \subseteq Offered
  PROVE  CatalogueInv'
<1>1. IndexGrows /\ lookup[r] \in LookupRecord
  BY DEF IndexGrows, CatalogueInv, CatalogueTypes
<1>2. PICK q : q = lookup[r]
  OBVIOUS
<1>3. PICK p : p = [q EXCEPT !.found = found]
  OBVIOUS
<1>4. lookedUp' = p /\ ToLookup(r, NoLookup)
  BY <1>2, <1>3 DEF LookupEnds
<1>5. /\ p \in LookupRecord /\ p.found = found /\ p.op = q.op /\ p.name = q.name /\ p.due = q.due
  BY <1>1, <1>2, <1>3 DEF LookupRecord, Offered
<1>6. CatalogueRight'
  BY <1>2, <1>4, <1>5 DEF CatalogueRight, NoOlder, Offered, Published
<1>7. catalogue' \subseteq Offered'
  BY <1>1, StaysPublished DEF CatalogueInv, CatalogueTypes
<1> QED BY <1>1, <1>4, <1>5, <1>6, <1>7, NoLookupKnown, LookupStep DEF CatalogueInv, CatalogueTypes

(* helm finds nothing but what is published, and everything of the newest  *)
(* version when it is asked for the name that all have in theirs.          *)
LEMMA SearchFinds ==
  ASSUME indexed \in [Charts -> 1..MaxVersion]
  PROVE  /\ \A name : \A version \in Newest..MaxVersion : \A x \in helmSearch(name, version) :
              x \in ChartRecords /\ Published(x)
         /\ \A x : Published(x) =>
              \E y \in helmSearch("app", Newest) : y.name = x.name /\ y.version >= x.version
<1>1. ASSUME NEW name, NEW version \in Newest..MaxVersion, NEW x \in helmSearch(name, version)
      PROVE  x \in ChartRecords /\ Published(x)
  <2>1. PICK c \in Charts : x = Chart(c, IF version = Newest THEN indexed[c] ELSE version) /\ version <= indexed[c]
    BY <1>1 DEF helmSearch
  <2>2. PICK v : v = IF version = Newest THEN indexed[c] ELSE version
    OBVIOUS
  <2>3. indexed[c] \in 1..MaxVersion /\ v \in 1..indexed[c] /\ v \in 0..MaxVersion
    BY <1>1, <2>1, <2>2, CatalogueAssumption DEF Newest
  <2>4. x = [name |-> c, version |-> v]
    BY <2>1, <2>2 DEF Chart
  <2>5. x.name = c /\ x.version = v /\ x \in ChartRecords
    <3>1. c \in Charts /\ v \in 0..MaxVersion
      BY <2>1, <2>3
    <3> QED BY <2>4, <3>1 DEF ChartRecords
  <2> QED BY <2>1, <2>3, <2>5 DEF Published
<1>2. ASSUME NEW x, Published(x)
      PROVE  \E y \in helmSearch("app", Newest) : y.name = x.name /\ y.version >= x.version
  <2>1. /\ x.name \in Charts /\ indexed[x.name] \in 1..MaxVersion
        /\ x.version \in Nat /\ x.version <= indexed[x.name]
    BY <1>2, CatalogueAssumption DEF Published
  <2>2. Chart(x.name, indexed[x.name]) \in helmSearch("app", Newest)
    BY <2>1, CatalogueAssumption DEF helmSearch, FoundBy, Newest
  <2>3. /\ Chart(x.name, indexed[x.name]).name = x.name
        /\ Chart(x.name, indexed[x.name]).version >= x.version
    BY <2>1, CatalogueAssumption DEF Chart
  <2> QED BY <2>2, <2>3
<1> QED BY <1>1, <1>2

(* A request begins: it is told what it must not miss.                     *)
LEMMA AskCorrect ==
  ASSUME CatalogueInv, NEW r \in CatalogueRequests, askCatalogue(r)
  PROVE  CatalogueInv'
<1>1. PICK op \in {"find", "list", "update"}, name \in Charts, version \in Newest..MaxVersion :
        LookupGoesOn(r, [NoLookup EXCEPT !.op = op, !.at = op, !.name = name, !.version = version,
                                         !.due = IF op = "list" THEN announced ELSE {}])
  BY DEF askCatalogue
<1>2. PICK due : due = IF op = "list" THEN announced ELSE {}
  OBVIOUS
<1>3. PICK n : n = [NoLookup EXCEPT !.op = op, !.at = op, !.name = name, !.version = version, !.due = due]
  OBVIOUS
<1>4. due \subseteq announced /\ due \in SUBSET ChartRecords
  BY <1>2 DEF CatalogueInv, Offered
<1>5. n \in LookupRecord /\ n.op = op /\ n.at = op /\ n.todo = {} /\ n.due = due
  BY <1>3, <1>4 DEF NoLookup, LookupRecord
<1>6. LookupKnows(n)
  BY <1>4, <1>5 DEF LookupKnows
<1> QED BY <1>1, <1>2, <1>3, <1>5, <1>6, QuietLookup DEF askCatalogue

(* findApplication.                                                        *)
LEMMA FindCorrect ==
  ASSUME CatalogueInv, NEW r \in CatalogueRequests,
         findCached(r) \/ searchApplication(r) \/ rememberApplication(r)
  PROVE  CatalogueInv'
<1>1. PICK q : q = lookup[r]
  OBVIOUS
<1>2. q \in LookupRecord /\ LookupKnows(q) /\ indexed \in [Charts -> 1..MaxVersion]
  BY <1>1 DEF CatalogueInv, CatalogueTypes
<1>3. announced \subseteq catalogue \ {NoChart} /\ catalogue \subseteq Offered
  BY DEF CatalogueInv
<1>4. CASE findCached(r)
  <2>1. q.at = "find" /\ q.op = "find" /\ UNCHANGED <<indexed, catalogue, announced>>
    BY <1>1, <1>2, <1>4 DEF findCached, LookupAt, LookupKnows
  <2>2. ASSUME NEW x \in catalogue, x.name = q.name, LookupEnds(r, {x}) PROVE CatalogueInv'
    BY <1>1, <1>3, <2>1, <2>2, AnswerLookup
  <2>3. CASE LookupGoesOn(r, [q EXCEPT !.at = "search"])
    <3>1. PICK n : n = [q EXCEPT !.at = "search"]
      OBVIOUS
    <3>2. n \in LookupRecord /\ n.at = "search" /\ n.op = "find" /\ n.todo = q.todo /\ n.due = q.due
      BY <1>2, <2>1, <3>1 DEF LookupRecord
    <3>3. LookupKnows(n)
      BY <1>2, <3>2 DEF LookupKnows
    <3> QED BY <2>1, <2>3, <3>1, <3>2, <3>3, QuietLookup
  <2> QED BY <1>1, <1>4, <2>2, <2>3 DEF findCached
<1>5. CASE searchApplication(r)
  <2>1. q.at = "search" /\ q.op = "find" /\ UNCHANGED <<indexed, catalogue, announced>>
    BY <1>1, <1>2, <1>5 DEF searchApplication, LookupAt, LookupKnows
  <2>2. CASE LookupFails(r)
    BY <2>1, <2>2, NoLookupKnown, QuietLookup DEF LookupFails
  <2>3. CASE LookupEnds(r, {})
    BY <1>1, <1>3, <2>1, <2>3, AnswerLookup
  <2>4. ASSUME NEW x, x = NoChart \/ (x \in helmSearch(q.name, q.version) /\ x.name = q.name),
               LookupGoesOn(r, [q EXCEPT !.at = "insert", !.todo = {x}])
        PROVE  CatalogueInv'
    <3>1. PICK n : n = [q EXCEPT !.at = "insert", !.todo = {x}]
      OBVIOUS
    <3>2. x \in Offered
      <4>1. NoChart \in ChartRecords
        BY CatalogueAssumption DEF NoChart, Chart, ChartRecords
      <4>2. q.version \in Newest..MaxVersion
        BY <1>2 DEF LookupRecord
      <4>3. x = NoChart \/ (x \in ChartRecords /\ Published(x))
        BY <1>2, <2>4, <4>2, SearchFinds
      <4> QED BY <4>1, <4>3 DEF Offered
    <3>3. n \in LookupRecord /\ n.at = "insert" /\ n.op = "find" /\ n.todo = {x} /\ n.due = q.due /\ n.name = q.name
      BY <1>2, <2>1, <3>1, <3>2 DEF LookupRecord, Offered
    <3>4. LookupKnows(n)
      BY <1>2, <2>4, <3>2, <3>3 DEF LookupKnows
    <3> QED BY <2>1, <2>4, <3>1, <3>3, <3>4, QuietLookup
  <2>5. ASSUME NEW x \in IF {y \in helmSearch(q.name, q.version) : y.name = q.name} = {} THEN {NoChart}
                         ELSE {y \in helmSearch(q.name, q.version) : y.name = q.name}
        PROVE  x = NoChart \/ (x \in helmSearch(q.name, q.version) /\ x.name = q.name)
    BY <2>5
  <2> QED BY <1>1, <1>5, <2>2, <2>3, <2>4, <2>5 DEF searchApplication
<1>6. CASE rememberApplication(r)
  <2>1. q.at = "insert" /\ q.op = "find" /\ UNCHANGED <<indexed, announced>> /\ q.todo \in SUBSET Offered
    BY <1>1, <1>2, <1>6 DEF rememberApplication, LookupAt, LookupKnows
  <2>2. PICK x \in q.todo : catalogue' = catalogue \cup {x} /\ LookupEnds(r, q.todo)
    BY <1>1, <1>6 DEF rememberApplication, insertApplication
  <2>3. catalogue' \subseteq Offered /\ announced' \subseteq catalogue' \ {NoChart}
    BY <1>3, <2>1, <2>2
  <2>4. \A y \in q.todo : y = NoChart \/ y.name = q.name
    BY <1>2, <2>1 DEF LookupKnows
  <2> QED BY <1>1, <2>1, <2>2, <2>3, <2>4, AnswerLookup
<1> QED BY <1>4, <1>5, <1>6

(* A listing, from the records or from helm, and the update of helm's      *)
(* index; both replace the records (fetchApplications).                    *)
LEMMA ListCorrect ==
  ASSUME CatalogueInv, NEW r \in CatalogueRequests,
         \/ listCached(r) \/ updateCatalogue(r) \/ fetchApplications(r)
         \/ collectApplication(r) \/ markUpToDate(r)
  PROVE  CatalogueInv'
<1>1. PICK q : q = lookup[r]
  OBVIOUS
<1>2. q \in LookupRecord /\ LookupKnows(q) /\ indexed \in [Charts -> 1..MaxVersion]
  BY <1>1 DEF CatalogueInv, CatalogueTypes
<1>3. announced \subseteq catalogue \ {NoChart} /\ catalogue \subseteq Offered
  BY DEF CatalogueInv
<1>4. PICK f : f = [q EXCEPT !.at = "fetch"]
  OBVIOUS
<1>5. f \in LookupRecord /\ f.at = "fetch" /\ f.op = q.op /\ f.todo = q.todo /\ f.due = q.due
  BY <1>2, <1>4 DEF LookupRecord
<1>6. q.op # "find" => LookupKnows(f)
  BY <1>2, <1>5 DEF LookupKnows
<1>7. CASE listCached(r)
  <2>1. q.at = "list" /\ q.op # "find" /\ UNCHANGED <<indexed, catalogue, announced>>
    BY <1>1, <1>2, <1>7 DEF listCached, LookupAt, LookupKnows
  <2>2. CASE LookupEnds(r, catalogue)
    <3>1. NoOlder(catalogue, q.due)
      <4>1. \A x \in q.due : x \in catalogue /\ x \in ChartRecords
        BY <1>2, <1>3 DEF LookupKnows, Offered
      <4>2. \A x \in q.due : x.version >= x.version
        <5> SUFFICES ASSUME NEW x \in q.due PROVE x.version >= x.version
          OBVIOUS
        <5>1. x.version \in 0..MaxVersion /\ MaxVersion \in Nat
          BY <4>1, CatalogueAssumption DEF ChartRecords
        <5> QED BY <5>1
      <4> QED BY <4>1, <4>2 DEF NoOlder
    <3> QED BY <1>1, <1>3, <2>1, <2>2, <3>1, AnswerLookup
  <2>3. CASE LookupGoesOn(r, f)
    BY <1>5, <1>6, <2>1, <2>3, QuietLookup
  <2> QED BY <1>1, <1>4, <1>7, <2>2, <2>3 DEF listCached
<1>8. CASE updateCatalogue(r)
  <2>1. q.at = "update" /\ UNCHANGED <<catalogue, announced>>
    BY <1>1, <1>8 DEF updateCatalogue, LookupAt
  <2>2. CASE LookupFails(r) /\ UNCHANGED indexed
    BY <2>1, <2>2, NoLookupKnown, QuietLookup DEF LookupFails
  <2>3. ASSUME NEW c \in Charts, NEW version \in 1..MaxVersion, LookupGoesOn(r, f),
               version >= indexed[c], indexed' = [indexed EXCEPT ![c] = version]
        PROVE  CatalogueInv'
    <3>1. IndexGrows /\ indexed' \in [Charts -> 1..MaxVersion]
      BY <1>2, <2>3, CatalogueAssumption DEF IndexGrows
    <3>2. LookupKnows(f)
      <4>1. f.todo = q.todo /\ q.todo \subseteq Offered /\ f.due \subseteq announced
        BY <1>2, <1>5 DEF LookupKnows
      <4>2. q.op # "find"
        BY <1>2, <2>1 DEF LookupKnows
      <4> QED BY <1>6, <4>2
    <3>3. LookupKnows(f)' /\ catalogue' \subseteq Offered'
      BY <1>2, <1>3, <1>5, <2>1, <3>1, <3>2, StillKnown, StaysPublished
    <3>4. CatalogueRight' /\ lookedUp' \in LookupRecord
      BY <2>3, NoLookupKnown DEF LookupGoesOn, CatalogueRight, NoLookup
    <3> QED BY <1>3, <1>5, <2>1, <2>3, <3>1, <3>3, <3>4, LookupStep DEF LookupGoesOn
  <2> QED BY <1>1, <1>4, <1>8, <2>2, <2>3 DEF updateCatalogue
<1>9. CASE fetchApplications(r)
  <2>1. q.at = "fetch" /\ q.op # "find" /\ UNCHANGED <<indexed, catalogue, announced>>
    BY <1>1, <1>2, <1>9 DEF fetchApplications, LookupAt, LookupKnows
  <2>2. CASE LookupFails(r)
    BY <2>1, <2>2, NoLookupKnown, QuietLookup DEF LookupFails
  <2>3. ASSUME NEW lines, lines = helmSearch("app", Newest),
               LookupGoesOn(r, [q EXCEPT !.at = "collect", !.todo = lines, !.found = lines])
        PROVE  CatalogueInv'
    <3>1. PICK n : n = [q EXCEPT !.at = "collect", !.todo = lines, !.found = lines]
      OBVIOUS
    <3>2. \A x \in lines : x \in ChartRecords /\ Published(x)
      <4>1. Newest \in Newest..MaxVersion
        BY CatalogueAssumption DEF Newest
      <4> QED BY <1>2, <2>3, <4>1, SearchFinds
    <3>3. /\ n \in LookupRecord /\ n.at = "collect" /\ n.op = q.op /\ n.todo = lines
          /\ n.found = lines /\ n.due = q.due
      BY <1>2, <3>1, <3>2 DEF LookupRecord
    <3>4. NoOlder(lines, q.due)
      <4>1. \A x \in q.due : Published(x)
        BY <1>2, <1>3 DEF LookupKnows, Offered
      <4> QED BY <1>2, <2>3, <4>1, SearchFinds DEF NoOlder
    <3>5. lines \subseteq Offered
      BY <3>2 DEF Offered
    <3>6. LookupKnows(n)
      BY <1>2, <2>1, <3>2, <3>3, <3>4, <3>5 DEF LookupKnows
    <3> QED BY <2>1, <2>3, <3>1, <3>3, <3>6, QuietLookup
  <2> QED BY <1>1, <1>9, <2>2, <2>3 DEF fetchApplications
<1>10. CASE collectApplication(r)
  <2>1. /\ q.at = "collect" /\ q.op # "find" /\ UNCHANGED <<indexed, announced>>
        /\ (\A x \in q.todo \cup q.found : Published(x)) /\ NoOlder(q.found, q.due)
    BY <1>1, <1>2, <1>10 DEF collectApplication, LookupAt, LookupKnows
  <2>2. PICK x \in q.todo : /\ catalogue' = catalogue \cup {x}
                            /\ LookupGoesOn(r, [q EXCEPT !.todo = @ \ {x}])
    BY <1>1, <1>10 DEF collectApplication, insertApplication
  <2>3. PICK n : n = [q EXCEPT !.todo = @ \ {x}]
    OBVIOUS
  <2>4. /\ n \in LookupRecord /\ n.at = "collect" /\ n.op = q.op /\ n.todo = q.todo \ {x}
        /\ n.found = q.found /\ n.due = q.due
    BY <1>2, <2>1, <2>3 DEF LookupRecord
  <2>5. LookupKnows(n)
    BY <1>2, <2>1, <2>4 DEF LookupKnows
  <2>6. IndexGrows /\ x \in Offered
    BY <1>2, <2>1, <2>2 DEF IndexGrows, LookupKnows
  <2>7. LookupKnows(n)' /\ catalogue' \subseteq Offered'
    <3>1. catalogue' \subseteq Offered
      BY <1>3, <2>2, <2>6
    <3> QED BY <1>2, <2>1, <2>4, <2>5, <2>6, <3>1, StillKnown, StaysPublished
  <2>8. CatalogueRight' /\ lookedUp' \in LookupRecord
    BY <2>2, NoLookupKnown DEF LookupGoesOn, CatalogueRight, NoLookup
  <2>9. announced' \subseteq catalogue' \ {NoChart} /\ ToLookup(r, n)
    BY <1>3, <2>1, <2>2, <2>3 DEF LookupGoesOn
  <2> QED BY <1>2, <2>1, <2>4, <2>6, <2>7, <2>8, <2>9, LookupStep
<1>11. CASE markUpToDate(r)
  <2>1. /\ q.at = "collect" /\ q.op # "find" /\ UNCHANGED <<indexed, catalogue>> /\ LookupEnds(r, q.found)
        /\ (\A x \in q.todo \cup q.found : Published(x)) /\ NoOlder(q.found, q.due)
        /\ announced' = IF q.op = "update" THEN announced \cup (q.found \cap catalogue) ELSE announced
    BY <1>1, <1>2, <1>11 DEF markUpToDate, LookupAt, LookupKnows
  <2>2. ~Published(NoChart)
    BY DEF Published, NoChart, Chart, Charts
  <2>3. q.found \in SUBSET Offered
    BY <1>2, <2>1 DEF LookupRecord, Offered
  <2>4. announced \subseteq announced' /\ announced' \subseteq catalogue' \ {NoChart}
    BY <1>3, <2>1, <2>2
  <2> QED BY <1>1, <1>3, <2>1, <2>3, <2>4, AnswerLookup
<1> QED BY <1>7, <1>8, <1>9, <1>10, <1>11

(* A record that expires is no longer due to anybody.                      *)
LEMMA ExpiryCorrect ==
  ASSUME CatalogueInv, expireApplication \/ expireCatalogue PROVE CatalogueInv'
<1>1. lookedUp' = NoLookup /\ CatalogueRight' /\ lookedUp' \in LookupRecord /\ UNCHANGED indexed
  <2>1. lookedUp' = NoLookup /\ UNCHANGED indexed
    BY DEF expireApplication, expireCatalogue
  <2>2. NoLookup.op = "none"
    BY DEF NoLookup
  <2> QED BY <2>1, <2>2, NoLookupKnown DEF CatalogueRight
<1>2. CASE expireApplication
  <2>1. PICK x \in catalogue :
          /\ catalogue' = catalogue \ {x} /\ announced' = announced \ {x}
          /\ lookup' = [r \in CatalogueRequests |-> [lookup[r] EXCEPT !.due = @ \ {x}]]
    BY <1>2 DEF expireApplication
  <2>2. ASSUME NEW r \in CatalogueRequests
        PROVE  lookup'[r] \in LookupRecord /\ LookupKnows(lookup[r])'
    <3>1. PICK q : q = lookup[r]
      OBVIOUS
    <3>2. q \in LookupRecord /\ LookupKnows(q)
      BY <3>1 DEF CatalogueInv, CatalogueTypes
    <3>3. PICK n : n = [q EXCEPT !.due = @ \ {x}]
      OBVIOUS
    <3>4. lookup'[r] = n
      BY <2>1, <3>1, <3>3
    <3>5. /\ n \in LookupRecord /\ n.at = q.at /\ n.op = q.op /\ n.todo = q.todo /\ n.name = q.name
          /\ n.found = q.found /\ n.due = q.due \ {x}
      BY <3>2, <3>3 DEF LookupRecord
    <3>6. LookupKnows(n)'
      BY <1>1, <2>1, <3>2, <3>5 DEF LookupKnows, NoOlder, Offered, Published
    <3> QED BY <3>4, <3>5, <3>6 DEF LookupKnows
  <2>3. lookup' \in [CatalogueRequests -> LookupRecord]
    BY <2>1, <2>2
  <2>4. catalogue' \subseteq Offered' /\ announced' \subseteq catalogue' \ {NoChart}
    BY <1>1, <2>1 DEF CatalogueInv, Offered, Published
  <2> QED BY <1>1, <2>2, <2>3, <2>4 DEF CatalogueInv, CatalogueTypes
<1>3. CASE expireCatalogue
  BY <1>1, <1>3 DEF expireCatalogue, CatalogueInv, CatalogueTypes, LookupKnows, NoOlder, Offered, Published
<1> QED BY <1>2, <1>3

(* What is remembered and what requests carry was published, whoever looks *)
(* up, lists and updates at the same time; for any number of requests and  *)
(* of versions.                                                            *)
THEOREM CatalogueInvariant == CatalogueSpec => []CatalogueInv
<1>1. CatalogueInit => CatalogueInv
  <2> SUFFICES ASSUME CatalogueInit PROVE CatalogueInv
    OBVIOUS
  <2>1. CatalogueTypes
    BY NoLookupKnown, CatalogueAssumption DEF CatalogueInit, CatalogueTypes
  <2>2. \A r \in CatalogueRequests : LookupKnows(lookup[r])
    BY NoLookupKnown DEF CatalogueInit
  <2> QED BY <2>1, <2>2 DEF CatalogueInit, CatalogueInv, CatalogueRight, NoLookup
<1>2. CatalogueInv /\ [CatalogueNext]_catalogueVars => CatalogueInv'
  <2> SUFFICES ASSUME CatalogueInv, [CatalogueNext]_catalogueVars PROVE CatalogueInv'
    OBVIOUS
  <2>1. CASE UNCHANGED catalogueVars
    BY <2>1 DEF catalogueVars, CatalogueInv, CatalogueTypes, CatalogueRight, LookupKnows, NoOlder,
                Offered, Published
  <2> QED BY <2>1, AskCorrect, FindCorrect, ListCorrect, ExpiryCorrect DEF CatalogueNext
<1> QED BY <1>1, <1>2, PTL DEF CatalogueSpec

(* A lookup finds what was asked for, in a version there is, and a listing *)
(* shows nothing older than a completed update left (findApplication,      *)
(* listApplications, updateCatalog).                                       *)
THEOREM CatalogueAnswers == CatalogueSpec => []CatalogueRight
<1>1. CatalogueInv => CatalogueRight
  BY DEF CatalogueInv
<1> QED BY <1>1, CatalogueInvariant, PTL

-----------------------------------------------------------------------------
(* The inspection of a cluster.                                            *)

InspectionTypes ==
  /\ recorded \subseteq Objects /\ deployed \subseteq Objects
  /\ seen \in [existing : SUBSET Objects, expected : SUBSET Objects, spaces : SUBSET Spaces]
  /\ service \in Services
  /\ fetched \in [Pods -> Pods \cup {NoEvents}] /\ details \in [Pods -> Pods \cup {NoEvents}]
  /\ \A p \in Pods : fetched[p] \in {p, NoEvents}
  /\ judged \in {"Consistent", "Inconsistent"} => looking = "over"

(* What has been seen of an object that nobody changed since the           *)
(* inspection began: it is among the existing ones when it was listed and  *)
(* is there, among the expected ones when it was looked up and is recorded.*)
SeenRight(o) ==
  /\ o \in Releases =>
       /\ looking \in {"instances", "spaces", "secrets", "expected"} => (o \in seen.existing <=> o \in deployed)
       /\ looking \in {"spaces", "secrets", "expected"} => (o \in seen.expected <=> o \in recorded)
  /\ o \in Secrets /\ looking \in {"secrets", "expected"} =>
       (o \in seen.existing <=> o \in deployed /\ SpaceOf(o) \notin seen.spaces)

(* No secret has been seen before it was looked for, and all namespaces    *)
(* have been searched in the end.                                          *)
InOrder ==
  /\ looking \in {"ping", "helm", "instances", "spaces"} => seen.existing \cap Secrets = {}
  /\ looking \in {"ping", "helm", "instances", "spaces", "secrets", "expected"} => seen.expected \cap Secrets = {}
  /\ looking = "expected" => seen.spaces = {}

InspectionInv ==
  /\ InspectionTypes /\ InOrder /\ InspectionRight
  /\ helm = 2 /\ ~blind => \A o \in Objects \ touched : SeenRight(o)

(* Releases and secrets are not mixed up.                                  *)
LEMMA KindsApart == Releases \cap Secrets = {} /\ Objects = Releases \cup Secrets
BY InspectionAssumption DEF Releases, Secrets, Objects

(* Until there is a verdict there is nothing to be exact about.            *)
LEMMA NoVerdict ==
  ASSUME InspectionInv, looking # "over", judged' = judged PROVE InspectionExact'
BY DEF InspectionInv, InspectionTypes, InspectionExact

(* An object that somebody changes is touched, and the others stay.        *)
LEMMA ChangeInspected ==
  ASSUME InspectionInv, NEW o \in Objects, looking \notin {"over", "pods"}, changeObject(o)
  PROVE  InspectionInv'
<1>1. /\ touched' = touched \cup {o}
      /\ UNCHANGED <<helm, looking, seen, blind, judged, pending, fetched, details, service, shown>>
      /\ \A p \in Objects \ {o} : (p \in recorded' <=> p \in recorded) /\ (p \in deployed' <=> p \in deployed)
      /\ recorded' \subseteq Objects /\ deployed' \subseteq Objects
  BY DEF changeObject, InspectionInv, InspectionTypes
<1>2. InspectionTypes' /\ InOrder'
  BY <1>1 DEF InspectionInv, InspectionTypes, InOrder
<1>3. InspectionRight'
  BY <1>1, NoVerdict DEF InspectionInv, InspectionRight, DetailsMatch
<1>4. ASSUME helm' = 2, ~blind', NEW p \in Objects \ touched' PROVE SeenRight(p)'
  <2>1. SeenRight(p) /\ (p \in recorded' <=> p \in recorded) /\ (p \in deployed' <=> p \in deployed)
    BY <1>1, <1>4 DEF InspectionInv
  <2> QED BY <1>1, <2>1 DEF SeenRight
<1> QED BY <1>2, <1>3, <1>4 DEF InspectionInv

(* What a step of the inspection has to establish while it has no verdict. *)
LEMMA Inspected ==
  ASSUME InspectionInv, UNCHANGED <<worldVars, Aside>>, looking # "over", judged \notin {"Consistent", "Inconsistent"},
         judged' \notin {"Consistent", "Inconsistent"}, blind => blind', InOrder',
         seen' \in [existing : SUBSET Objects, expected : SUBSET Objects, spaces : SUBSET Spaces],
         helm = 2 /\ ~blind' => \A o \in Objects \ touched : SeenRight(o) => SeenRight(o)'
  PROVE  InspectionInv'
<1>1. UNCHANGED <<helm, recorded, deployed, touched, fetched, details, service, shown>>
  BY DEF worldVars, Aside
<1>2. InspectionTypes'
  BY <1>1 DEF InspectionInv, InspectionTypes
<1>3. InspectionRight'
  BY <1>1 DEF InspectionInv, InspectionRight, InspectionExact, DetailsMatch
<1>4. helm' = 2 /\ ~blind' => \A o \in Objects \ touched' : SeenRight(o)'
  BY <1>1 DEF InspectionInv
<1> QED BY <1>2, <1>3, <1>4 DEF InspectionInv

(* The listings (ClusterConsistencyResult), one after the other.           *)
LEMMA ListingsInspect ==
  ASSUME InspectionInv,
         pingInspected \/ listReleases \/ listExpectedInstances \/ listNamespaces \/ listSecretsOfNamespace
  PROVE  InspectionInv'
<1>0. /\ seen \in [existing : SUBSET Objects, expected : SUBSET Objects, spaces : SUBSET Spaces] /\ InOrder
      /\ recorded \subseteq Objects /\ deployed \subseteq Objects
      /\ judged \in {"Consistent", "Inconsistent"} => looking = "over"
  BY DEF InspectionInv, InspectionTypes
<1>1. CASE pingInspected
  <2>1. /\ looking = "ping" /\ looking' \in {"over", "helm"} /\ UNCHANGED <<worldVars, seen, blind, Aside>>
        /\ judged' \in {"Unreachable", judged}
    BY <1>1 DEF pingInspected, endWith
  <2>2. InOrder' /\ \A o : SeenRight(o) => SeenRight(o)'
    BY <1>0, <2>1 DEF InOrder, SeenRight
  <2> QED BY <1>0, <2>1, <2>2, Inspected
<1>2. CASE listReleases
  <2>0. looking = "helm" /\ UNCHANGED <<worldVars, blind, Aside>>
    BY <1>2 DEF listReleases
  <2>1. CASE endWith("HelmFailure") /\ UNCHANGED seen
    <3>1. InOrder' /\ \A o : SeenRight(o) => SeenRight(o)'
      BY <1>0, <2>0, <2>1 DEF InOrder, SeenRight, endWith
    <3> QED BY <1>0, <2>0, <2>1, <3>1, Inspected DEF endWith
  <2>2. CASE /\ looking' = "instances" /\ UNCHANGED judged
             /\ seen' = [seen EXCEPT !.existing = helmList]
    <3>1. helmList \subseteq deployed /\ helmList \subseteq Releases /\ (helm = 2 => helmList = deployed \cap Releases)
      BY DEF helmList
    <3>2. /\ seen'.existing = helmList /\ seen'.expected = seen.expected
          /\ seen' \in [existing : SUBSET Objects, expected : SUBSET Objects, spaces : SUBSET Spaces]
      BY <1>0, <2>2, <3>1
    <3>3. InOrder'
      BY <1>0, <2>0, <2>2, <3>1, <3>2, KindsApart DEF InOrder
    <3>4. helm = 2 => \A o \in Objects : SeenRight(o)'
      BY <2>0, <2>2, <3>1, <3>2, KindsApart DEF SeenRight, worldVars
    <3> QED BY <1>0, <2>0, <2>2, <3>2, <3>3, <3>4, Inspected
  <2> QED BY <1>2, <2>1, <2>2 DEF listReleases
<1>3. CASE listExpectedInstances
  <2>1. /\ looking = "instances" /\ looking' = "spaces" /\ UNCHANGED <<worldVars, blind, judged, Aside>>
        /\ seen' = [seen EXCEPT !.expected = recorded \cap Releases]
    BY <1>3 DEF listExpectedInstances
  <2>2. /\ seen'.expected = recorded \cap Releases /\ seen'.existing = seen.existing
        /\ seen' \in [existing : SUBSET Objects, expected : SUBSET Objects, spaces : SUBSET Spaces]
    BY <1>0, <2>1
  <2>3. InOrder'
    BY <1>0, <2>1, <2>2, KindsApart DEF InOrder
  <2>4. \A o \in Objects : SeenRight(o) => SeenRight(o)'
    BY <2>1, <2>2 DEF SeenRight, worldVars
  <2> QED BY <1>0, <2>1, <2>2, <2>3, <2>4, Inspected
<1>4. CASE listNamespaces
  <2>0. looking = "spaces" /\ looking' = "secrets" /\ UNCHANGED <<worldVars, judged, Aside>>
    BY <1>4 DEF listNamespaces
  <2>1. CASE seen' = [seen EXCEPT !.spaces = Spaces] /\ UNCHANGED blind
    <3>1. /\ seen'.expected = seen.expected /\ seen'.existing = seen.existing /\ seen'.spaces = Spaces
          /\ seen' \in [existing : SUBSET Objects, expected : SUBSET Objects, spaces : SUBSET Spaces]
      BY <1>0, <2>1
    <3>2. InOrder'
      BY <1>0, <2>0, <3>1 DEF InOrder
    <3>3. \A o \in Objects : SeenRight(o) => SeenRight(o)'
      <4>1. \A o \in Secrets : o \notin seen.existing /\ SpaceOf(o) \in Spaces
        BY <1>0, <2>0 DEF InOrder, Secrets, SpaceOf
      <4> QED BY <2>0, <3>1, <4>1 DEF SeenRight, worldVars
    <3> QED BY <1>0, <2>0, <2>1, <3>1, <3>2, <3>3, Inspected
  <2>2. CASE blind' = TRUE /\ UNCHANGED seen
    <3>1. InOrder'
      BY <1>0, <2>0, <2>2 DEF InOrder
    <3> QED BY <1>0, <2>0, <2>2, <3>1, Inspected
  <2> QED BY <1>4, <2>1, <2>2 DEF listNamespaces
<1>5. CASE listSecretsOfNamespace
  <2>0. looking = "secrets" /\ UNCHANGED <<worldVars, judged, Aside>>
    BY <1>5 DEF listSecretsOfNamespace
  <2>1. CASE seen.spaces = {} /\ looking' = "expected" /\ UNCHANGED <<seen, blind>>
    <3>1. InOrder' /\ \A o : SeenRight(o) => SeenRight(o)'
      BY <1>0, <2>0, <2>1 DEF InOrder, SeenRight, worldVars
    <3> QED BY <1>0, <2>0, <2>1, <3>1, Inspected
  <2>2. ASSUME NEW n \in seen.spaces, UNCHANGED <<looking, blind>>,
               seen' = [seen EXCEPT !.spaces = @ \ {n},
                          !.existing = @ \cup {s \in deployed \cap Secrets : SpaceOf(s) = n}]
        PROVE  InspectionInv'
    <3>1. /\ seen'.expected = seen.expected /\ seen'.spaces = seen.spaces \ {n}
          /\ seen'.existing = seen.existing \cup {s \in deployed \cap Secrets : SpaceOf(s) = n}
          /\ seen' \in [existing : SUBSET Objects, expected : SUBSET Objects, spaces : SUBSET Spaces]
      BY <1>0, <2>2
    <3>2. InOrder'
      BY <1>0, <2>0, <2>2, <3>1 DEF InOrder
    <3>3. \A o \in Objects : SeenRight(o) => SeenRight(o)'
      BY <2>0, <2>2, <3>1, KindsApart DEF SeenRight, worldVars
    <3> QED BY <1>0, <2>0, <2>2, <3>1, <3>2, <3>3, Inspected
  <2>3. ASSUME NEW n \in seen.spaces, UNCHANGED looking, blind' = TRUE,
               seen' = [seen EXCEPT !.spaces = @ \ {n}]
        PROVE  InspectionInv'
    <3>1. /\ seen'.expected = seen.expected /\ seen'.existing = seen.existing
          /\ seen' \in [existing : SUBSET Objects, expected : SUBSET Objects, spaces : SUBSET Spaces]
      BY <1>0, <2>3
    <3>2. InOrder'
      BY <1>0, <2>0, <2>3, <3>1 DEF InOrder
    <3> QED BY <1>0, <2>0, <2>3, <3>1, <3>2, Inspected
  <2> QED BY <1>5, <2>1, <2>2, <2>3 DEF listSecretsOfNamespace
<1> QED BY <1>1, <1>2, <1>3, <1>4, <1>5

(* The verdict.                                                            *)
LEMMA ComparisonExact == ASSUME InspectionInv, compareRecords PROVE InspectionInv'
<1>1. /\ looking = "expected" /\ looking' = "over" /\ UNCHANGED <<worldVars, blind, Aside>>
      /\ seen' = [seen EXCEPT !.expected = @ \cup (recorded \cap Secrets)]
      /\ judged' = IF MissingIn(seen') = {} /\ UnexpectedIn(seen') = {} THEN "Consistent" ELSE "Inconsistent"
  BY DEF compareRecords, endWith
<1>2. UNCHANGED <<helm, recorded, deployed, touched, fetched, details, service, shown>>
  BY <1>1 DEF worldVars, Aside
<1>3. /\ recorded \subseteq Objects /\ deployed \subseteq Objects /\ seen.spaces = {}
      /\ seen.expected \cap Secrets = {}
      /\ seen \in [existing : SUBSET Objects, expected : SUBSET Objects, spaces : SUBSET Spaces]
  BY <1>1 DEF InspectionInv, InspectionTypes, InOrder
<1>4. /\ seen'.existing = seen.existing /\ seen'.expected = seen.expected \cup (recorded \cap Secrets)
      /\ seen' \in [existing : SUBSET Objects, expected : SUBSET Objects, spaces : SUBSET Spaces]
  BY <1>1, <1>3
<1>5. InspectionTypes' /\ InOrder'
  BY <1>1, <1>2, <1>4 DEF InspectionInv, InspectionTypes, InOrder
<1>6. helm' = 2 /\ ~blind' => \A o \in Objects \ touched' : SeenRight(o)'
  BY <1>1 DEF SeenRight
<1>7. ASSUME helm = 2, ~blind
      PROVE  \A o \in Objects \ touched : (o \in seen'.existing <=> o \in deployed)
                                          /\ (o \in seen'.expected <=> o \in recorded)
  <2> SUFFICES ASSUME NEW o \in Objects \ touched
               PROVE  (o \in seen'.existing <=> o \in deployed) /\ (o \in seen'.expected <=> o \in recorded)
    OBVIOUS
  <2>1. SeenRight(o)
    BY <1>7 DEF InspectionInv
  <2> QED BY <1>1, <1>3, <1>4, <2>1, KindsApart DEF SeenRight
<1>8. InspectionExact'
  <2> SUFFICES ASSUME helm = 2, ~blind PROVE InspectionExact'
    BY <1>1, <1>2 DEF InspectionExact
  <2>1. \A o \in Objects \ touched' : /\ o \in MissingIn(seen') <=> o \in recorded' \ deployed'
                                      /\ o \in UnexpectedIn(seen') <=> o \in deployed' \ recorded'
    BY <1>2, <1>7 DEF MissingIn, UnexpectedIn
  <2>2. ASSUME touched' = {} PROVE judged' = "Consistent" <=> recorded' = deployed'
    <3>1. seen'.existing = deployed /\ seen'.expected = recorded
      BY <1>2, <1>3, <1>4, <1>7, <2>2
    <3> QED BY <1>1, <1>2, <3>1 DEF MissingIn, UnexpectedIn
  <2> QED BY <2>1, <2>2 DEF InspectionExact
<1>9. InspectionRight'
  BY <1>2, <1>8 DEF InspectionInv, InspectionRight, DetailsMatch
<1> QED BY <1>5, <1>6, <1>9 DEF InspectionInv

(* The pods and the services of an instance.                               *)
LEMMA DetailsInspected ==
  ASSUME InspectionInv, looking = "pods", fetchInstanceDetails \/ getServices
  PROVE  InspectionInv'
<1>1. UNCHANGED <<helm, recorded, deployed, touched, looking, seen, blind, judged, service>>
  BY DEF fetchInstanceDetails, fetchPods, getPodEvents, addPodEvents, getServices, Others, worldVars
<1>2. InOrder' /\ InspectionExact' /\ (helm' = 2 /\ ~blind' => \A o \in Objects \ touched' : SeenRight(o)')
  BY <1>1 DEF InspectionInv, InspectionRight, InspectionExact, InOrder, SeenRight
<1>3. fetched \in [Pods -> Pods \cup {NoEvents}] /\ details \in [Pods -> Pods \cup {NoEvents}]
      /\ \A p \in Pods : fetched[p] \in {p, NoEvents} /\ details[p] \in {p, NoEvents}
  BY DEF InspectionInv, InspectionTypes, InspectionRight, DetailsMatch
<1>4. CASE fetchInstanceDetails
  <2>0. UNCHANGED shown
    BY <1>4 DEF fetchInstanceDetails, fetchPods, getPodEvents, addPodEvents, Others
  <2>1. /\ fetched' \in [Pods -> Pods \cup {NoEvents}] /\ details' \in [Pods -> Pods \cup {NoEvents}]
        /\ \A p \in Pods : fetched'[p] \in {p, NoEvents} /\ details'[p] \in {p, NoEvents}
    <3>1. CASE fetchPods
      BY <1>3, <3>1 DEF fetchPods
    <3>2. ASSUME NEW p \in Pods, getPodEvents(p)
          PROVE  <2>1!:
      BY <1>3, <3>2 DEF getPodEvents, NoEvents
    <3>3. ASSUME NEW p \in Pods, addPodEvents(p)
          PROVE  <2>1!:
      BY <1>3, <3>3 DEF addPodEvents
    <3> QED BY <1>4, <3>1, <3>2, <3>3 DEF fetchInstanceDetails
  <2> QED BY <1>1, <1>2, <2>0, <2>1 DEF InspectionInv, InspectionTypes, InspectionRight, DetailsMatch
<1>5. CASE getServices
  <2>1. UNCHANGED <<fetched, details>>
    BY <1>5 DEF getServices
  <2>2. PICK fails \in BOOLEAN, noIngresses \in BOOLEAN :
          shown' = IF noIngresses \/ externalAddress(service, fails) = "left out" THEN "left out"
                   ELSE IF service.ingress THEN "ingress"
                   ELSE IF service.type = "NodePort" /\ ~service.nodePort THEN "" ELSE externalAddress(service, fails)
    BY <1>5 DEF getServices
  <2>3. service \in Services
    BY DEF InspectionInv, InspectionTypes
  <2>4. /\ shown' = "ingress" => service.ingress
        /\ shown' = "balancer" => service.type = "LoadBalancer" /\ service.balanced
        /\ shown' \in {"node", "node, external"} =>
             /\ service.type = "NodePort" /\ service.pod /\ service.nodePort
             /\ service.external => shown' = "node, external"
    BY <2>2, <2>3 DEF externalAddress, Services
  <2> QED BY <1>1, <1>2, <1>3, <2>1, <2>4 DEF InspectionInv, InspectionTypes, InspectionRight, DetailsMatch
<1> QED BY <1>4, <1>5

(* What an inspection has seen of whatever held still is so, and events    *)
(* are fetched for their pods; for any objects, namespaces and pods.       *)
THEOREM InspectionInvariant == InspectionSpec => []InspectionInv
<1>1. InspectionInit => InspectionInv
  <2> SUFFICES ASSUME InspectionInit PROVE InspectionInv
    OBVIOUS
  <2>1. InspectionTypes /\ InOrder
    BY DEF InspectionInit, InspectionTypes, InOrder, NoEvents
  <2>2. InspectionRight
    BY DEF InspectionInit, InspectionRight, InspectionExact, DetailsMatch, NoEvents
  <2>3. \A o : SeenRight(o)
    BY DEF InspectionInit, SeenRight
  <2> QED BY <2>1, <2>2, <2>3 DEF InspectionInv
<1>2. InspectionInv /\ [InspectionNext]_inspectionVars => InspectionInv'
  <2> SUFFICES ASSUME InspectionInv, [InspectionNext]_inspectionVars PROVE InspectionInv'
    OBVIOUS
  <2>1. CASE UNCHANGED inspectionVars
    BY <2>1 DEF inspectionVars, worldVars, InspectionInv, InspectionTypes, InOrder, InspectionRight,
                InspectionExact, DetailsMatch, SeenRight
  <2> QED BY <2>1, ChangeInspected, ListingsInspect, ComparisonExact, DetailsInspected
          DEF InspectionNext, inspectCluster
<1> QED BY <1>1, <1>2, PTL DEF InspectionSpec

(* What is reported of a cluster and of an instance is what is there       *)
(* (verifyCluster, pingCluster, getInstanceInfo, internal_findServices).   *)
THEOREM InspectionReports == InspectionSpec => []InspectionRight
<1>1. InspectionInv => InspectionRight
  BY DEF InspectionInv
<1> QED BY <1>1, InspectionInvariant, PTL

-----------------------------------------------------------------------------
(* The application permissions of a group on a cluster.                    *)

Permissions == Register!Permissions
Verdicts == Register!Verdicts
Items == {NoItem, {None}, {All}} \cup ((SUBSET Apps) \ {{}})
Calls == [op : {"allow", "deny", "query"}, at : {"list", "fill", "change", "record"},
          app : Apps \cup {All}, set : Permissions]

(* The set agrees with what was there at rest on everything not named.     *)
AgreesOn(set, rest, names) == \A a \in Apps \ names : a \in set <=> a \in rest
Naming(c, names) == c.op # "query" =>
  IF c.app = All THEN names = Apps ELSE c.app \in names

(* A request asks about one application, its changes are counted as named, *)
(* and the set it carries is one it may have read.                         *)
CallOK(c, rest, names) ==
  c # Idle =>
    /\ c \in Calls /\ (c.op = "query" => c.app \in Apps) /\ Naming(c, names)
    /\ c.at # "list" => AgreesOn(c.set, rest, names)

(* Undisturbed, one request is in progress at most, it knows the set in    *)
(* the table, and the cache holds nothing else unless it is about to be    *)
(* replaced.                                                               *)
CallKnows(c, item) == c.at \in {"fill", "change", "record"} => c.set = FromItem(item)

PermTypes ==
  /\ permItem \in Items /\ permCache \in Permissions \cup {NoItem}
  /\ named \subseteq Apps /\ disturbed \in BOOLEAN
  /\ verdict \in Verdicts \cup {Unspecified} /\ (disturbed => verdict = Unspecified)
  /\ permCall \in [PermRequests -> Calls \cup {Idle}]

NamedKept ==
  /\ UntouchedKept
  /\ permCache # NoItem => AgreesOn(permCache, atRest, named)
  /\ \A r \in PermRequests : CallOK(permCall[r], atRest, named)

Alone ==
  /\ \A r, s \in PermRequests : permCall[r] # Idle /\ permCall[s] # Idle => r = s
  /\ \A r \in PermRequests : CallKnows(permCall[r], permItem)
  /\ (\E r \in PermRequests : At(r, "record")) \/ permCache \in {NoItem, FromItem(permItem)}

PermInv == PermTypes /\ NamedKept /\ (~disturbed => Alone)

-----------------------------------------------------------------------------
(* Facts about the sets and the calls.                                     *)

(* What is written is what is read back; no set is the absence of one.     *)
LEMMA ItemsRead ==
  /\ \A item \in Items : FromItem(item) \in Permissions
  /\ \A set \in Permissions : ToItem(set) \in Items /\ FromItem(ToItem(set)) = set
  /\ NoItem \notin Permissions
<1> USE PermissionAssumption DEF Permissions, Register!Permissions, Items, NoItem
<1>1. NoItem \notin Permissions
  <2>1. Permissions \subseteq SUBSET (Apps \cup {All, None})
    OBVIOUS
  <2> QED BY <2>1
<1>2. ASSUME NEW item \in Items PROVE FromItem(item) \in Permissions
  BY <1>2 DEF FromItem
<1>3. ASSUME NEW set \in Permissions PROVE ToItem(set) \in Items /\ FromItem(ToItem(set)) = set
  <2>1. CASE set = {}
    <3>1. ToItem(set) = {None} /\ {None} # NoItem
      <4>1. {None} \in SUBSET (Apps \cup {All, None})
        OBVIOUS
      <4> QED BY <2>1, <4>1 DEF ToItem
    <3> QED BY <2>1, <3>1 DEF FromItem
  <2>2. CASE set # {}
    <3>1. ToItem(set) = set /\ set # NoItem /\ None \notin set
      BY <1>1, <2>2 DEF ToItem
    <3> QED BY <2>2, <3>1 DEF FromItem
  <2> QED BY <2>1, <2>2
<1> QED BY <1>1, <1>2, <1>3

AllIdle == \A r \in PermRequests : permCall[r] = Idle
PermissionsAtRest == AllIdle /\ permCache \in {NoItem, FromItem(permItem)}

(* After a step, the permissions are at rest, or the step has only made it *)
(* harder to be undisturbed and counted its names (Observe).               *)
LEMMA Observed ==
  ASSUME NEW failed \in BOOLEAN, NEW names, NEW answer, Observe(failed, names, answer)
  PROVE  /\ PermissionsAtRest' =>
              disturbed' = FALSE /\ atRest' = FromItem(permItem)' /\ named' = {}
         /\ ~PermissionsAtRest' =>
              /\ disturbed' \in BOOLEAN /\ UNCHANGED atRest
              /\ named' = named \cup names
              /\ ~disturbed' =>
                   /\ ~disturbed /\ ~failed
                   /\ \A r, s \in PermRequests :
                        permCall'[r] # Idle /\ permCall'[s] # Idle => r = s
         /\ verdict' = IF disturbed' THEN Unspecified ELSE answer
<1> DEFINE Requesting == {r \in PermRequests : permCall'[r] # Idle}
<1>1. CASE PermissionsAtRest'
  BY <1>1 DEF Observe, PermissionsAtRest, AllIdle
<1>2. CASE ~PermissionsAtRest'
  <2>1. /\ disturbed' = (disturbed \/ failed \/ Cardinality(Requesting) > 1)
        /\ named' = named \cup names
        /\ UNCHANGED atRest
        /\ verdict' = IF disturbed' THEN Unspecified ELSE answer
    BY <1>2 DEF Observe, PermissionsAtRest, AllIdle
  <2>2. ASSUME ~disturbed', NEW r \in Requesting, NEW s \in Requesting PROVE r = s
    <3>1. IsFiniteSet(Requesting)
      BY PermissionAssumption, FS_Subset
    <3> HIDE DEF Requesting
    <3> QED BY <2>1, <2>2, <3>1, AtMostOne
  <2> QED BY <1>2, <2>1, <2>2
<1> QED BY <1>1, <1>2

-----------------------------------------------------------------------------
(* What a step of a request has to establish.                              *)

(* Naming more applications asks less of a request.                        *)
LEMMA NamingLasts ==
  ASSUME NEW c, NEW rest, NEW names, NEW more \in SUBSET Apps,
         CallOK(c, rest, names), names \subseteq more
  PROVE  CallOK(c, rest, more)
BY DEF CallOK, Naming, AgreesOn

(* A request that goes on as c: what is then in the table, in the cache    *)
(* and in c agrees with what was at rest, but for the names there are now, *)
(* and with itself if the request is alone and all went well.              *)
LEMMA PermissionChangePreserves ==
  ASSUME PermInv, NEW r \in PermRequests, NEW c \in Calls \cup {Idle},
         permCall' = [permCall EXCEPT ![r] = c], permCall[r] # Idle \/ c # Idle,
         permItem' \in Items, permCache' \in Permissions \cup {NoItem},
         NEW failed \in BOOLEAN, NEW names \in SUBSET Apps, NEW answer \in Verdicts \cup {Unspecified},
         Observe(failed, names, answer),
         NEW now \in SUBSET Apps, now = named \cup names,
         CallOK(c, atRest, now),
         AgreesOn(FromItem(permItem'), atRest, now),
         permCache' # NoItem => AgreesOn(permCache', atRest, now),
         ~disturbed /\ ~failed /\ (\A s \in PermRequests : s # r => permCall[s] = Idle) =>
           /\ CallKnows(c, permItem')
           /\ c.at = "record" \/ permCache' \in {NoItem, FromItem(permItem')}
  PROVE  PermInv'
<1>0. /\ permCall' \in [PermRequests -> Calls \cup {Idle}] /\ permCall'[r] = c
      /\ \A s \in PermRequests : s # r => permCall'[s] = permCall[s]
  BY DEF PermInv, PermTypes
<1>1. CASE PermissionsAtRest'
  <2>1. /\ disturbed' = FALSE /\ atRest' = FromItem(permItem)' /\ named' = {} /\ verdict' = answer
        /\ permCache' \in {NoItem, FromItem(permItem)'}
        /\ \A s \in PermRequests : permCall'[s] = Idle
    BY <1>1, Observed DEF PermissionsAtRest, AllIdle
  <2>2. PermTypes'
    BY <1>0, <2>1 DEF PermTypes
  <2>3. NamedKept'
    BY <2>1 DEF NamedKept, UntouchedKept, AgreesOn, CallOK
  <2>4. Alone'
    BY <2>1 DEF Alone, CallKnows, Idle
  <2> QED BY <2>2, <2>3, <2>4 DEF PermInv
<1>2. CASE ~PermissionsAtRest'
  <2>1. /\ disturbed' \in BOOLEAN /\ UNCHANGED atRest /\ named' = now
        /\ ~disturbed' =>
             /\ ~disturbed /\ ~failed
             /\ \A s, t \in PermRequests : permCall'[s] # Idle /\ permCall'[t] # Idle => s = t
        /\ verdict' = IF disturbed' THEN Unspecified ELSE answer
    BY <1>2, Observed
  <2>2. PermTypes'
    BY <1>0, <2>1 DEF PermTypes
  <2>3. NamedKept'
    <3>1. UntouchedKept' /\ (permCache' # NoItem => AgreesOn(permCache', atRest', named'))
      BY <2>1 DEF UntouchedKept, AgreesOn, FromItem
    <3>2. ASSUME NEW s \in PermRequests PROVE CallOK(permCall'[s], atRest', named')
      <4>1. CASE s = r
        BY <1>0, <2>1, <4>1
      <4>2. CASE s # r
        <5>1. CallOK(permCall[s], atRest, named) /\ named \subseteq now
          BY DEF PermInv, PermTypes, NamedKept
        <5> QED BY <1>0, <2>1, <4>2, <5>1, NamingLasts
      <4> QED BY <4>1, <4>2
    <3> QED BY <3>1, <3>2 DEF NamedKept
  <2>4. ASSUME ~disturbed' PROVE Alone'
    <3>1. \A s \in PermRequests : s # r => permCall[s] = Idle
      BY <1>0, <2>1, <2>4 DEF PermInv, Alone
    <3>2. /\ CallKnows(c, permItem')
          /\ c.at = "record" \/ permCache' \in {NoItem, FromItem(permItem')}
      BY <2>1, <2>4, <3>1
    <3>3. \A s \in PermRequests : CallKnows(permCall'[s], permItem')
      BY <1>0, <3>1, <3>2 DEF CallKnows, Idle
    <3> QED BY <1>0, <2>1, <2>4, <3>2, <3>3 DEF Alone, At, CallKnows, FromItem
  <2> QED BY <2>2, <2>3, <2>4 DEF PermInv
<1> QED BY <1>1, <1>2

(* A request in progress, and how it goes on.                              *)
Onward(c, pc, set) == [c EXCEPT !.at = pc, !.set = set]

LEMMA InProgress ==
  ASSUME PermInv, NEW r \in PermRequests, permCall[r].at # "idle"
  PROVE  /\ permCall[r] \in Calls /\ permCall[r] # Idle /\ SetOf(r) \in Permissions
         /\ CallOK(permCall[r], atRest, named)
         /\ permCall[r].at # "list" => AgreesOn(SetOf(r), atRest, named)
         /\ \A pc \in {"list", "fill", "change", "record"}, set \in Permissions :
              LET c == Onward(permCall[r], pc, set) IN
              /\ c \in Calls /\ c.at = pc /\ c.set = set /\ c # Idle
              /\ c.app = permCall[r].app /\ c.op = permCall[r].op
<1>1. permCall[r] \in Calls /\ permCall[r] # Idle /\ CallOK(permCall[r], atRest, named)
  BY DEF PermInv, PermTypes, NamedKept, Idle
<1>2. SetOf(r) \in Permissions
  BY <1>1 DEF SetOf, Calls
<1>3. ASSUME NEW pc \in {"list", "fill", "change", "record"}, NEW set \in Permissions
      PROVE  LET c == Onward(permCall[r], pc, set) IN
             /\ c \in Calls /\ c.at = pc /\ c.set = set
             /\ c.app = permCall[r].app /\ c.op = permCall[r].op
  BY <1>1 DEF Calls, Onward
<1>4. \A c : c.at \in {"list", "fill", "change", "record"} => c # Idle
  BY DEF Idle
<1> QED BY <1>1, <1>2, <1>3, <1>4 DEF CallOK, SetOf

(* What an undisturbed request that is alone knows.                        *)
LEMMA AloneKnows ==
  ASSUME PermInv, NEW r \in PermRequests, permCall[r] # Idle, ~disturbed
  PROVE  /\ permCall[r].at \in {"fill", "change", "record"} => SetOf(r) = FromItem(permItem)
         /\ permCall[r].at # "record" => permCache \in {NoItem, FromItem(permItem)}
<1>1. Alone
  BY DEF PermInv
<1>2. \A s \in PermRequests : s # r => permCall[s].at = "idle"
  BY <1>1 DEF Alone, Idle
<1> QED BY <1>1, <1>2 DEF Alone, CallKnows, SetOf, At

(* The steps that read the permissions preserve the invariant              *)
(* (listApplicationsGroupMayUseOnCluster, groupMayUseApplication).         *)
LEMMA PermissionReadingPreserves ==
  ASSUME PermInv, NEW r \in PermRequests,
         \/ listApplicationsGroupMayUseOnCluster(r) \/ fillCache(r) \/ groupMayUseApplication(r)
  PROVE  PermInv'
<1> DEFINE q == permCall[r]
<1>0. q \in Calls /\ q # Idle /\ UNCHANGED permItem
  BY InProgress DEF listApplicationsGroupMayUseOnCluster, fillCache, groupMayUseApplication, At
<1>1. /\ permItem \in Items /\ FromItem(permItem) \in Permissions
      /\ AgreesOn(FromItem(permItem), atRest, named) /\ named \in SUBSET Apps
      /\ permCache # NoItem => permCache \in Permissions /\ AgreesOn(permCache, atRest, named)
      /\ verdict \in Verdicts \cup {Unspecified} /\ {} \in Permissions
  BY ItemsRead DEF PermInv, PermTypes, NamedKept, UntouchedKept, AgreesOn, Permissions,
     Register!Permissions
<1>2. named = named \cup {} /\ {} \in SUBSET Apps
  OBVIOUS
<1>3. CASE listApplicationsGroupMayUseOnCluster(r)
  <2>1. q.at = "list" /\ UNCHANGED permCache
    BY <1>3 DEF listApplicationsGroupMayUseOnCluster, At
  <2>2. CASE permCache # NoItem /\ Moves(r, "change", permCache) /\ Observe(FALSE, {}, verdict)
    <3> DEFINE c == Onward(q, "change", permCache)
    <3>1. permCall' = [permCall EXCEPT ![r] = c]
      BY <2>2 DEF Moves, Onward, PermInv, PermTypes
    <3>2. c \in Calls /\ c.at = "change" /\ c.set = permCache /\ c.app = q.app /\ c.op = q.op
      BY <1>1, <2>1, <2>2, InProgress
    <3>3. CallOK(c, atRest, named)
      BY <1>1, <2>1, <2>2, <3>2, InProgress DEF CallOK, Naming
    <3>4. ~disturbed => permCache = FromItem(permItem)
      BY <1>0, <2>1, <2>2, AloneKnows
    <3> HIDE DEF c
    <3>5. ~disturbed => CallKnows(c, permItem) /\ permCache \in {NoItem, FromItem(permItem)}
      BY <3>2, <3>4 DEF CallKnows
    <3> QED BY <1>0, <1>1, <1>2, <2>1, <2>2, <3>1, <3>2, <3>3, <3>5, PermissionChangePreserves
  <2>3. CASE permCache = NoItem /\ Moves(r, "fill", FromItem(permItem)) /\ Observe(FALSE, {}, verdict)
    <3> DEFINE c == Onward(q, "fill", FromItem(permItem))
    <3>1. permCall' = [permCall EXCEPT ![r] = c]
      BY <2>3 DEF Moves, Onward, PermInv, PermTypes
    <3>2. /\ c \in Calls /\ c.at = "fill" /\ c.set = FromItem(permItem)
          /\ c.app = q.app /\ c.op = q.op
      BY <1>1, <2>1, InProgress
    <3>3. CallOK(c, atRest, named) /\ CallKnows(c, permItem)
      BY <1>1, <2>1, <3>2, InProgress DEF CallOK, Naming, CallKnows
    <3> HIDE DEF c
    <3> QED BY <1>0, <1>1, <1>2, <2>1, <2>3, <3>1, <3>2, <3>3, PermissionChangePreserves
  <2>4. CASE permCache = NoItem /\ Moves(r, "change", {}) /\ Observe(TRUE, Apps, verdict)
    <3> DEFINE c == Onward(q, "change", {})
    <3>1. permCall' = [permCall EXCEPT ![r] = c]
      BY <2>4 DEF Moves, Onward, PermInv, PermTypes
    <3>2. c \in Calls /\ c.app = q.app /\ c.op = q.op
      BY <1>1, <2>1, InProgress
    <3>3. CallOK(c, atRest, Apps) /\ AgreesOn(FromItem(permItem), atRest, Apps)
      BY <1>1, <2>1, <3>2, InProgress DEF CallOK, Naming, AgreesOn
    <3>4. Apps = named \cup Apps /\ Apps \in SUBSET Apps
      BY <1>1
    <3> HIDE DEF c
    <3> QED BY <1>0, <1>1, <2>1, <2>4, <3>1, <3>2, <3>3, <3>4, PermissionChangePreserves
  <2> QED BY <1>3, <2>2, <2>3, <2>4 DEF listApplicationsGroupMayUseOnCluster
<1>4. CASE fillCache(r)
  <2>1. q.at = "fill" /\ permCache' = SetOf(r) /\ Observe(FALSE, {}, verdict)
    BY <1>4 DEF fillCache, At
  <2> DEFINE c == Onward(q, "change", SetOf(r))
  <2>2. permCall' = [permCall EXCEPT ![r] = c]
    BY <1>4 DEF fillCache, Moves, Onward, PermInv, PermTypes
  <2>3. /\ c \in Calls /\ c.at = "change" /\ c.set = SetOf(r) /\ c.app = q.app /\ c.op = q.op
        /\ SetOf(r) \in Permissions /\ AgreesOn(SetOf(r), atRest, named)
    BY <2>1, InProgress
  <2>4. CallOK(c, atRest, named)
    BY <1>1, <2>1, <2>3, InProgress DEF CallOK, Naming
  <2>5. ~disturbed => SetOf(r) = FromItem(permItem)
    BY <1>0, <2>1, AloneKnows
  <2> HIDE DEF c
  <2>6. ~disturbed => CallKnows(c, permItem) /\ permCache' \in {NoItem, FromItem(permItem)}
    BY <2>1, <2>3, <2>5 DEF CallKnows
  <2> QED BY <1>0, <1>1, <1>2, <2>1, <2>2, <2>3, <2>4, <2>6, PermissionChangePreserves
<1>5. CASE groupMayUseApplication(r)
  <2> DEFINE answer == [app |-> q.app, may |-> SetOf(r) \cap {q.app, All} # {}]
  <2>1. /\ q.at = "change" /\ q.op = "query" /\ UNCHANGED permCache
        /\ permCall' = [permCall EXCEPT ![r] = Idle] /\ Observe(FALSE, {}, answer)
    BY <1>5 DEF groupMayUseApplication, At
  <2>2. answer \in Verdicts
    BY <1>0, <2>1, InProgress DEF CallOK, Verdicts, Register!Verdicts
  <2>3. CallOK(Idle, atRest, named) /\ CallKnows(Idle, permItem)
    BY DEF CallOK, CallKnows, Idle
  <2>4. ~disturbed => permCache \in {NoItem, FromItem(permItem)}
    BY <1>0, <2>1, AloneKnows
  <2> HIDE DEF answer
  <2> QED BY <1>0, <1>1, <1>2, <2>1, <2>2, <2>3, <2>4, PermissionChangePreserves
<1> QED BY <1>3, <1>4, <1>5

(* Writing a set that differs only in what is named, and going on with it. *)
LEMMA PermissionPutPreserves ==
  ASSUME PermInv, NEW r \in PermRequests, At(r, "change"), NEW set \in Permissions,
         AgreesOn(set, atRest, named), PutSet(r, set)
  PROVE  PermInv'
<1> DEFINE q == permCall[r]
<1>1. q # Idle /\ q.at = "change" /\ UNCHANGED permCache
  BY InProgress DEF At, PutSet
<1>2. /\ permItem \in Items /\ AgreesOn(FromItem(permItem), atRest, named) /\ named \in SUBSET Apps
      /\ permCache \in Permissions \cup {NoItem}
      /\ permCache # NoItem => AgreesOn(permCache, atRest, named)
      /\ verdict \in Verdicts \cup {Unspecified}
      /\ named = named \cup {} /\ {} \in SUBSET Apps
  BY DEF PermInv, PermTypes, NamedKept, UntouchedKept, AgreesOn
<1>3. CASE permItem' = ToItem(set) /\ Moves(r, "record", set) /\ Observe(FALSE, {}, verdict)
  <2> DEFINE c == Onward(q, "record", set)
  <2>1. permCall' = [permCall EXCEPT ![r] = c]
    BY <1>3 DEF Moves, Onward, PermInv, PermTypes
  <2>2. /\ c \in Calls /\ c.at = "record" /\ c.set = set /\ c.app = q.app /\ c.op = q.op /\ c # Idle
    BY <1>1, InProgress
  <2>3. permItem' \in Items /\ FromItem(permItem') = set
    BY <1>3, ItemsRead
  <2>4. CallOK(c, atRest, named) /\ CallKnows(c, permItem')
    BY <1>1, <2>2, <2>3, InProgress DEF CallOK, Naming, CallKnows
  <2> HIDE DEF c
  <2> QED BY <1>1, <1>2, <1>3, <2>1, <2>2, <2>3, <2>4, PermissionChangePreserves
<1>4. CASE /\ UNCHANGED permItem /\ permCall' = [permCall EXCEPT ![r] = Idle]
           /\ Observe(FALSE, {}, verdict)
  <2>1. CallOK(Idle, atRest, named) /\ CallKnows(Idle, permItem)
    BY DEF CallOK, CallKnows, Idle
  <2>2. ~disturbed => permCache \in {NoItem, FromItem(permItem)}
    BY <1>1, AloneKnows
  <2> QED BY <1>1, <1>2, <1>4, <2>1, <2>2, PermissionChangePreserves
<1>5. CASE /\ permItem' = ToItem(set) /\ permCall' = [permCall EXCEPT ![r] = Idle]
           /\ Observe(TRUE, {}, verdict)
  <2>1. CallOK(Idle, atRest, named)
    BY DEF CallOK
  <2>2. permItem' \in Items /\ AgreesOn(FromItem(permItem'), atRest, named)
    BY <1>5, ItemsRead
  <2> QED BY <1>1, <1>2, <1>5, <2>1, <2>2, PermissionChangePreserves
<1> QED BY <1>3, <1>4, <1>5 DEF PutSet

(* What the changes write: the set they read, but for what they name.      *)
Changed(op, app, set) ==
  IF op = "allow" THEN (IF app = All THEN {All} ELSE (set \ {All}) \cup {app})
  ELSE IF app = All THEN {} ELSE set \ {app}

LEMMA ChangedAgrees ==
  ASSUME NEW op, NEW app \in Apps \cup {All}, NEW set \in Permissions, NEW rest,
         NEW names \in SUBSET Apps, AgreesOn(set, rest, names),
         IF app = All THEN names = Apps ELSE app \in names,
         op = "allow" \/ app = All \/ All \notin set
  PROVE  Changed(op, app, set) \in Permissions /\ AgreesOn(Changed(op, app, set), rest, names)
BY PermissionAssumption DEF Changed, AgreesOn, Permissions, Register!Permissions

(* Changing the permissions preserves the invariant                        *)
(* (allowVoToUseApplication, denyGroupUseOfApplication).                   *)
LEMMA ChangingPreserves ==
  ASSUME PermInv, NEW r \in PermRequests,
         allowVoToUseApplication(r) \/ withdrawApplication(r) \/ recordChange(r)
  PROVE  PermInv'
<1> DEFINE q == permCall[r]
           changed == Changed(q.op, q.app, SetOf(r))
<1>1. /\ permItem \in Items /\ AgreesOn(FromItem(permItem), atRest, named) /\ named \in SUBSET Apps
      /\ permCache \in Permissions \cup {NoItem}
      /\ permCache # NoItem => AgreesOn(permCache, atRest, named)
      /\ verdict \in Verdicts \cup {Unspecified}
      /\ named = named \cup {} /\ {} \in SUBSET Apps
  BY DEF PermInv, PermTypes, NamedKept, UntouchedKept, AgreesOn
<1>2. CallOK(Idle, atRest, named) /\ CallKnows(Idle, permItem)
  BY DEF CallOK, CallKnows, Idle
<1>3. ASSUME q.at = "change", q.op # "query",
             q.op = "allow" \/ q.app = All \/ All \notin SetOf(r)
      PROVE  changed \in Permissions /\ AgreesOn(changed, atRest, named)
  <2>1. /\ SetOf(r) \in Permissions /\ AgreesOn(SetOf(r), atRest, named) /\ q.app \in Apps \cup {All}
        /\ IF q.app = All THEN named = Apps ELSE q.app \in named
    BY <1>3, InProgress DEF CallOK, Naming, Calls
  <2> QED BY <1>1, <1>3, <2>1, ChangedAgrees
<1>4. CASE allowVoToUseApplication(r)
  <2>1. q.at = "change" /\ q.op = "allow" /\ PutSet(r, changed)
    BY <1>4 DEF allowVoToUseApplication, At, Changed
  <2> HIDE DEF changed
  <2> QED BY <1>3, <2>1, PermissionPutPreserves DEF At
<1>5. CASE withdrawApplication(r)
  <2>1. q.at = "change" /\ q.op = "deny"
    BY <1>5 DEF withdrawApplication, At
  <2>2. CASE q.app = All \/ (All \notin SetOf(r) /\ q.app \in SetOf(r))
    <3>1. PutSet(r, changed)
      BY <1>5, <2>1, <2>2 DEF withdrawApplication, Changed
    <3> HIDE DEF changed
    <3> QED BY <1>3, <2>1, <2>2, <3>1, PermissionPutPreserves DEF At
  <2>3. CASE ~(q.app = All \/ (All \notin SetOf(r) /\ q.app \in SetOf(r)))
    <3>1. /\ permCall' = [permCall EXCEPT ![r] = Idle] /\ UNCHANGED <<permItem, permCache>>
          /\ Observe(FALSE, {}, verdict)
      BY <1>5, <2>3 DEF withdrawApplication
    <3>2. q # Idle /\ (~disturbed => permCache \in {NoItem, FromItem(permItem)})
      BY <2>1, InProgress, AloneKnows
    <3> QED BY <1>1, <1>2, <3>1, <3>2, PermissionChangePreserves
  <2> QED BY <2>2, <2>3
<1>6. CASE recordChange(r)
  <2>1. /\ q.at = "record" /\ permCache' = SetOf(r) /\ permCall' = [permCall EXCEPT ![r] = Idle]
        /\ UNCHANGED permItem /\ Observe(FALSE, {}, verdict)
    BY <1>6 DEF recordChange, At
  <2>2. SetOf(r) \in Permissions /\ AgreesOn(SetOf(r), atRest, named) /\ q # Idle
    BY <2>1, InProgress
  <2>3. ~disturbed => SetOf(r) = FromItem(permItem)
    BY <2>1, <2>2, AloneKnows
  <2> QED BY <1>1, <1>2, <2>1, <2>2, <2>3, PermissionChangePreserves
<1> QED BY <1>4, <1>5, <1>6

(* So do the arrival of a request and the expiration of the record.        *)
LEMMA ArrivalPreserves == ASSUME PermInv, NEW r \in PermRequests, requestPermission(r) PROVE PermInv'
<1>1. PICK op \in {"allow", "deny", "query"}, app \in Apps \cup {All}, names \in SUBSET Apps :
        /\ op = "query" => app \in Apps
        /\ permCall' = [permCall EXCEPT ![r] = [op |-> op, at |-> "list", app |-> app, set |-> {}]]
        /\ UNCHANGED <<permItem, permCache>> /\ Observe(FALSE, names, verdict)
        /\ op # "query" => IF app = All THEN names = Apps ELSE app \in names
  <2>1. PICK op \in {"allow", "deny", "query"}, app \in Apps \cup {All} :
          /\ op = "query" => app \in Apps
          /\ permCall' = [permCall EXCEPT ![r] = [op |-> op, at |-> "list", app |-> app, set |-> {}]]
          /\ UNCHANGED <<permItem, permCache>>
          /\ Observe(FALSE, CASE op = "query" -> {} [] op # "query" /\ app = All -> Apps
                              [] OTHER -> {app}, verdict)
    BY DEF requestPermission
  <2>2. CASE op = "query"
    <3>1. Observe(FALSE, {}, verdict)
      BY <2>1, <2>2
    <3> QED BY <2>1, <2>2, <3>1
  <2>3. CASE op # "query" /\ app = All
    <3>1. Observe(FALSE, Apps, verdict)
      BY <2>1, <2>3
    <3> QED BY <2>1, <2>3, <3>1
  <2>4. CASE op # "query" /\ app # All
    <3>1. Observe(FALSE, {app}, verdict)
      BY <2>1, <2>4
    <3> QED BY <2>1, <2>4, <3>1
  <2> QED BY <2>2, <2>3, <2>4
<1> DEFINE c == [op |-> op, at |-> "list", app |-> app, set |-> {}]
           now == named \cup names
<1>2. c \in Calls /\ c # Idle /\ c.at = "list" /\ now \in SUBSET Apps
  <2>1. {} \in Permissions
    BY DEF Permissions, Register!Permissions
  <2> QED BY <1>1, <2>1 DEF Calls, Idle, PermInv, PermTypes
<1>3. CallOK(c, atRest, now) /\ CallKnows(c, permItem)
  BY <1>1, <1>2 DEF CallOK, Naming, CallKnows
<1>4. /\ permItem \in Items /\ AgreesOn(FromItem(permItem), atRest, now)
      /\ permCache \in Permissions \cup {NoItem}
      /\ permCache # NoItem => AgreesOn(permCache, atRest, now)
      /\ verdict \in Verdicts \cup {Unspecified}
  BY DEF PermInv, PermTypes, NamedKept, UntouchedKept, AgreesOn
<1>5. ~disturbed /\ (\A s \in PermRequests : s # r => permCall[s] = Idle) =>
        permCache \in {NoItem, FromItem(permItem)}
  <2>1. permCall[r] = Idle
    BY DEF requestPermission
  <2> QED BY <2>1 DEF PermInv, Alone, At, Idle
<1>6. permCall' = [permCall EXCEPT ![r] = c]
  BY <1>1
<1> HIDE DEF c
<1> QED BY <1>1, <1>2, <1>3, <1>4, <1>5, <1>6, PermissionChangePreserves

LEMMA ExpirationPreserves == ASSUME PermInv, expirePermission PROVE PermInv'
<1>1. permCache' = NoItem /\ UNCHANGED <<permItem, permCall>> /\ Observe(FALSE, {}, verdict)
  BY DEF expirePermission
<1>2. /\ PermissionsAtRest' => disturbed' = FALSE /\ atRest' = FromItem(permItem)' /\ named' = {}
      /\ ~PermissionsAtRest' => /\ UNCHANGED atRest /\ named' = named \cup {}
                     /\ disturbed' \in BOOLEAN /\ (~disturbed' => ~disturbed)
      /\ verdict' = IF disturbed' THEN Unspecified ELSE verdict
  BY <1>1, Observed, Zenon
<1>3. named \cup {} = named
  OBVIOUS
<1>4. PermTypes'
  BY <1>1, <1>2, <1>3 DEF PermInv, PermTypes
<1>5. NamedKept'
  BY <1>1, <1>2, <1>3 DEF PermInv, NamedKept, UntouchedKept, PermissionsAtRest, AllIdle, CallOK, AgreesOn, FromItem
<1>6. ~disturbed' => Alone'
  <2>1. CASE PermissionsAtRest'
    BY <1>1, <2>1 DEF PermissionsAtRest, AllIdle, Alone, CallKnows, Idle
  <2>2. CASE ~PermissionsAtRest'
    BY <1>1, <1>2, <2>2 DEF PermInv, Alone, CallKnows, At, FromItem
  <2> QED BY <2>1, <2>2
<1> QED BY <1>4, <1>5, <1>6 DEF PermInv

-----------------------------------------------------------------------------
(* Theorems.                                                               *)

LEMMA PermissionStep == ASSUME PermInv, [PermissionNext]_permVars PROVE PermInv'
<1>1. CASE PermissionNext
  BY <1>1, PermissionReadingPreserves, ChangingPreserves, ArrivalPreserves, ExpirationPreserves
     DEF PermissionNext
<1>2. CASE UNCHANGED permVars
  BY <1>2 DEF permVars, PermInv, PermTypes, NamedKept, UntouchedKept, Alone, At, FromItem
<1> QED BY <1>1, <1>2

(* At any time, whatever overlaps or fails: the table, the cache and the   *)
(* requests hold sets of permissions that agree with those last at rest on *)
(* everything no request has named since; and a request that nothing has   *)
(* disturbed knows what the table holds (allowVoToUseApplication,          *)
(* denyGroupUseOfApplication, listApplicationsGroupMayUseOnCluster).       *)
THEOREM PermissionInvariant == PermissionSpec => []PermInv
<1>1. PermissionInit => PermInv
  <2> SUFFICES ASSUME PermissionInit PROVE PermInv
    OBVIOUS
  <2>1. FromItem(permItem) = {All} /\ permItem = NoItem /\ permCache = NoItem
    BY DEF PermissionInit, FromItem
  <2>2. \A r \in PermRequests : permCall[r] = Idle
    BY DEF PermissionInit
  <2>3. PermTypes
    BY DEF PermissionInit, PermTypes, Items
  <2>4. NamedKept
    BY <2>1, <2>2 DEF PermissionInit, NamedKept, UntouchedKept, CallOK
  <2>5. Alone
    BY <2>1, <2>2 DEF Alone, CallKnows, Idle
  <2> QED BY <2>3, <2>4, <2>5 DEF PermInv
<1> QED BY <1>1, PermissionStep, PTL DEF PermissionSpec

(* Overlapping changes never decide about an application that none of them *)
(* names (allowVoToUseApplication, denyGroupUseOfApplication).             *)
THEOREM UnnamedKept == PermissionSpec => []UntouchedKept
BY PermissionInvariant, PTL DEF PermInv, NamedKept

(* A request that nothing disturbs does to the table what the register     *)
(* promises: what it has read is what the register holds.                  *)
LEMMA ChangeRefines ==
  ASSUME PermInv, PermInv', NEW r \in PermRequests, ~disturbed, ~disturbed',
         allowVoToUseApplication(r) \/ withdrawApplication(r)
  PROVE  [Register!RegisterNext]_Register!registerVars
<1> DEFINE q == permCall[r]
           held == FromItem(permItem)
<1>1. /\ q.at = "change" /\ q.op \in {"allow", "deny"} /\ q \in Calls /\ SetOf(r) = held
      /\ permItem \in Items /\ held # Unspecified /\ q.app \in Apps \cup {All}
      /\ held \in Permissions
  <2>1. q.at = "change" /\ q.op \in {"allow", "deny"}
    BY DEF allowVoToUseApplication, withdrawApplication, At
  <2>2. permItem \in Items /\ q \in Calls /\ SetOf(r) = held
    BY <2>1, InProgress, AloneKnows DEF PermInv, PermTypes
  <2> QED BY <2>1, <2>2, ItemsRead DEF NoItem, Calls
<1>2. ASSUME NEW set \in Permissions, PutSet(r, set)
      PROVE  /\ FromItem(permItem)' \in {held, set}
             /\ verdict' = verdict
  <2>1. (\E failed : Observe(failed, {}, verdict)) /\ permItem' \in {permItem, ToItem(set)}
    BY <1>2 DEF PutSet
  <2>2. FromItem(permItem)' = FromItem(permItem')
    BY DEF FromItem
  <2> QED BY <1>2, <2>1, <2>2, ItemsRead DEF Observe
<1> DEFINE old == IF disturbed THEN Unspecified ELSE FromItem(permItem)
<1>3. old = held /\ old' = FromItem(permItem)'
  OBVIOUS
<1>4. CASE allowVoToUseApplication(r)
  <2> DEFINE set == IF q.app = All THEN {All} ELSE (held \ {All}) \cup {q.app}
  <2>1. PutSet(r, set) /\ set \in Permissions
    BY <1>1, <1>4 DEF allowVoToUseApplication, Permissions, Register!Permissions
  <2> QED BY <1>1, <1>2, <1>3, <2>1
          DEF Register!RegisterNext, Register!registerVars, Register!Grant, Register!GrantAll
<1>5. CASE withdrawApplication(r)
  <2>1. CASE q.app = All \/ (All \notin held /\ q.app \in held)
    <3> DEFINE set == IF q.app = All THEN {} ELSE held \ {q.app}
    <3>1. PutSet(r, set) /\ set \in Permissions
      BY <1>1, <1>5, <2>1 DEF withdrawApplication, Permissions, Register!Permissions
    <3> QED BY <1>1, <1>2, <1>3, <2>1, <3>1
            DEF Register!RegisterNext, Register!registerVars, Register!Withdraw, Register!WithdrawAll
  <2>2. CASE ~(q.app = All \/ (All \notin held /\ q.app \in held))
    <3>1. UNCHANGED <<permItem, permCache>> /\ Observe(FALSE, {}, verdict)
      BY <1>1, <1>5, <2>2 DEF withdrawApplication
    <3>2. FromItem(permItem)' = held /\ verdict' = verdict
      BY <3>1 DEF FromItem, Observe
    <3> QED BY <1>3, <3>2 DEF Register!registerVars
  <2> QED BY <2>1, <2>2
<1> QED BY <1>4, <1>5

(* So does a query: it answers from what the register holds.               *)
LEMMA QueryRefines ==
  ASSUME PermInv, NEW r \in PermRequests, ~disturbed, ~disturbed', groupMayUseApplication(r)
  PROVE  [Register!RegisterNext]_Register!registerVars
<1> DEFINE q == permCall[r]
           held == FromItem(permItem)
           old == IF disturbed THEN Unspecified ELSE FromItem(permItem)
<1>1. q.at = "change" /\ q.op = "query" /\ UNCHANGED permItem
  BY DEF groupMayUseApplication, At
<1>2. SetOf(r) = held /\ q.app \in Apps /\ held # Unspecified
  <2>1. permItem \in Items /\ q # Idle
    BY <1>1, InProgress DEF PermInv, PermTypes
  <2> QED BY <1>1, <2>1, InProgress, AloneKnows, ItemsRead DEF NoItem, CallOK
<1>3. old = held /\ old' = held
  BY <1>1 DEF FromItem
<1>4. verdict' = [app |-> q.app, may |-> held \cap {q.app, All} # {}]
  BY <1>2 DEF groupMayUseApplication, Observe
<1> QED BY <1>2, <1>3, <1>4
        DEF Register!RegisterNext, Register!registerVars, Register!Ask

(* Any other undisturbed step is invisible: reading, filling the cache,    *)
(* recording a change in it, expiration, and the arrival of a request.     *)
LEMMA OthersInvisible ==
  ASSUME NEW r \in PermRequests, ~disturbed, ~disturbed',
         \/ requestPermission(r) \/ listApplicationsGroupMayUseOnCluster(r) \/ fillCache(r)
         \/ recordChange(r) \/ expirePermission
  PROVE  UNCHANGED Register!registerVars
<1>1. UNCHANGED permItem /\ \E failed, names : Observe(failed, names, verdict)
  BY DEF requestPermission, listApplicationsGroupMayUseOnCluster, fillCache, recordChange,
     expirePermission
<1>2. verdict' = verdict
  BY <1>1 DEF Observe
<1> QED BY <1>1, <1>2 DEF Register!registerVars, FromItem

LEMMA StepRefines ==
  ASSUME PermInv, PermInv', [PermissionNext]_permVars
  PROVE  [Register!RegisterNext]_Register!registerVars
<1> DEFINE old == IF disturbed THEN Unspecified ELSE FromItem(permItem)
<1>0. disturbed \in BOOLEAN /\ disturbed' \in BOOLEAN
  BY DEF PermInv, PermTypes
<1>1. CASE disturbed'
  <2>1. old' = Unspecified /\ verdict' = Unspecified
    BY <1>1 DEF PermInv, PermTypes
  <2> QED BY <2>1 DEF Register!RegisterNext, Register!Disturb
<1>2. CASE disturbed /\ ~disturbed'
  <2>1. old = Unspecified /\ old' = FromItem(permItem)'
    BY <1>2
  <2>2. FromItem(permItem)' \in Permissions /\ verdict' \in Verdicts \cup {Unspecified}
    <3>1. permItem' \in Items /\ FromItem(permItem)' = FromItem(permItem')
      BY DEF PermInv, PermTypes, Items, FromItem
    <3> QED BY <3>1, ItemsRead DEF PermInv, PermTypes, Verdicts, Register!Verdicts
  <2> QED BY <2>1, <2>2 DEF Register!RegisterNext, Register!Settle, Permissions, Verdicts
<1>3. CASE ~disturbed /\ ~disturbed' /\ PermissionNext
  <2>1. ASSUME NEW r \in PermRequests,
               allowVoToUseApplication(r) \/ withdrawApplication(r)
        PROVE  [Register!RegisterNext]_Register!registerVars
    BY <1>3, <2>1, ChangeRefines
  <2>2. ASSUME NEW r \in PermRequests, groupMayUseApplication(r)
        PROVE  [Register!RegisterNext]_Register!registerVars
    BY <1>3, <2>2, QueryRefines
  <2>3. ASSUME NEW r \in PermRequests,
               \/ requestPermission(r) \/ listApplicationsGroupMayUseOnCluster(r)
               \/ fillCache(r) \/ recordChange(r)
        PROVE  UNCHANGED Register!registerVars
    BY <1>3, <2>3, OthersInvisible
  <2>4. ASSUME expirePermission PROVE UNCHANGED Register!registerVars
    BY <1>3, <2>4 DEF expirePermission, Observe, Register!registerVars, FromItem
  <2> QED BY <1>3, <2>1, <2>2, <2>3, <2>4 DEF PermissionNext
<1>4. CASE UNCHANGED permVars
  BY <1>4 DEF permVars, Register!registerVars, FromItem
<1> QED BY <1>0, <1>1, <1>2, <1>3, <1>4

(* Requests that do not overlap see and leave a register of the allowed    *)
(* applications, whatever the cache holds, whenever its record expires and *)
(* whichever write is refused; a write that is made but not answered       *)
(* unsettles it until the cached set is the table's again                  *)
(* (allowVoToUseApplication, denyGroupUseOfApplication,                    *)
(* groupMayUseApplication).                                                *)
THEOREM PermissionsAreRegister == PermissionSpec => ImplementsRegister
<1>1. PermissionInit => Register!RegisterInit
  BY PermissionAssumption DEF PermissionInit, Register!RegisterInit, FromItem
<1> QED BY <1>1, StepRefines, PermissionInvariant, PTL
        DEF PermissionSpec, ImplementsRegister, Register!RegisterSpec

(* Together: one after the other, requests change what a group may use as  *)
(* in a register; overlapping or unanswered, they keep what nobody named.  *)
THEOREM GroupsKeepPermissions == PermissionSpec => PermissionsKept
BY PermissionsAreRegister, UnnamedKept DEF PermissionsKept
=============================================================================

--------------------------- MODULE ClusterRecords ---------------------------
(***************************************************************************)
(* The record of one cluster (PersistentStore.cpp): its item, the record    *)
(* that clusterCache, clusterByNameCache and clusterByGroupCache share, the *)
(* kubeconfig file written from it for kubectl and helm, the listing of all *)
(* clusters and the cluster's locations.  Every step of a request that      *)
(* touches one of these is a step here.                                     *)
(***************************************************************************)
EXTENDS Naturals, FiniteSets

CONSTANTS
  ClusterRequests,  \* the requests in progress
  Sites,            \* the locations of the cluster
  Missing,          \* no config, record, file or location
  MaxConfigs        \* how often a config is stored (a bound)

(* Configs are numbered.                                                   *)
ASSUME ClusterAssumption ==
  /\ IsFiniteSet(ClusterRequests) /\ MaxConfigs \in Nat
  /\ Missing \notin Nat \cup Sites \cup [config : Nat \cup Sites \cup {Missing}, live : BOOLEAN]

VARIABLES
  clusterItem,      \* the config in the table
  clusterRecord,    \* the cached record: its config, and whether it is still valid
  configFile,       \* the content of the file in clusterConfigs
  listingValid,     \* clusterCacheExpirationTime lies ahead
  siteItem,         \* the locations in the table
  siteCache,        \* clusterLocationCache, valid records only
  clusterCall,      \* what each request does, where it is, and the config it holds
  configsMade,      \* how many configs there have been
  overlapped        \* whether requests have overlapped, a read or deletion failed, or
                    \* a write was made without an answer, since the records last
                    \* agreed with no request in progress

clusterVars == <<clusterItem, clusterRecord, configFile, listingValid, siteItem, siteCache,
                 clusterCall, configsMade, overlapped>>

NoCall == [op |-> "none", at |-> "idle", config |-> Missing]
ClusterOps == {"create", "update", "delete", "use", "list", "place", "locate"}

(* Where a request begins, and where it goes on when it has the record.    *)
Begins == [op \in ClusterOps |-> CASE op = "create" -> "put" [] op = "list" -> "list" [] OTHER -> "find"]
GoesOn == [op \in ClusterOps \ {"create"} |->
             CASE op = "use" -> "path" [] op = "update" -> "put" [] op = "delete" -> "erase"
               [] op = "list" -> "stamp" [] OTHER -> op]

-----------------------------------------------------------------------------
(* What agrees when requests come one at a time.                           *)
Agree(item, record, file, listing, sites, cachedSites) ==
  /\ record # Missing /\ record.live => record.config = item /\ file = item
  /\ listing => (record # Missing <=> item # Missing)
  /\ cachedSites # Missing => cachedSites = sites

(* The record of a cluster that is gone is never removed from the cache:   *)
(* it is in every listing from the cache, even after it has expired.       *)
Phantom(item, record) == record # Missing /\ item = Missing

CallsInProgress == {r \in ClusterRequests : clusterCall'[r] # NoCall}

Watch(failed) ==
  overlapped' =
    IF /\ CallsInProgress = {} /\ ~Phantom(clusterItem', clusterRecord')
       /\ Agree(clusterItem', clusterRecord', configFile', listingValid', siteItem', siteCache')
    THEN FALSE ELSE overlapped \/ failed \/ Cardinality(CallsInProgress) > 1

Goes(r, at, config) ==
  clusterCall' = [clusterCall EXCEPT ![r].at = at, ![r].config = config]
Ends(r) == clusterCall' = [clusterCall EXCEPT ![r] = NoCall]
Is(r, at) == clusterCall[r].at = at
Config(r) == clusterCall[r].config
siteVars == <<siteItem, siteCache>>

-----------------------------------------------------------------------------
requestCluster(r) ==
  /\ clusterCall[r] = NoCall
  /\ \E op \in ClusterOps :
       /\ op = "create" => clusterItem = Missing
       /\ op \in {"create", "update"} => configsMade < MaxConfigs
       /\ clusterCall' = [clusterCall EXCEPT ![r] = [op |-> op, at |-> Begins[op], config |-> Missing]]
  /\ UNCHANGED <<clusterItem, clusterRecord, configFile, listingValid, siteVars, configsMade>>
  /\ Watch(FALSE)

(* findClusterByID and findClusterByName: from the cache, or from the      *)
(* table; a cluster that is not found, or a query that fails, ends the     *)
(* request.                                                                *)
findCluster(r) ==
  /\ Is(r, "find")
  /\ UNCHANGED <<clusterItem, clusterRecord, configFile, listingValid, siteVars, configsMade>>
  /\ \/ /\ clusterRecord # Missing /\ clusterRecord.live
        /\ Goes(r, GoesOn[clusterCall[r].op], Missing) /\ Watch(FALSE)
     \/ /\ ~(clusterRecord # Missing /\ clusterRecord.live)
        /\ \/ clusterItem # Missing /\ Goes(r, "cache", clusterItem) /\ Watch(FALSE)
           \/ clusterItem = Missing /\ Ends(r) /\ Watch(FALSE)
           \/ Ends(r) /\ Watch(TRUE)

cacheCluster(r) ==
  /\ Is(r, "cache")
  /\ clusterRecord' = [config |-> Config(r), live |-> TRUE]
  /\ Goes(r, "write", Config(r))
  /\ UNCHANGED <<clusterItem, configFile, listingValid, siteVars, configsMade>>
  /\ Watch(FALSE)

(* The file is replaced after the caches have the record.                  *)
writeClusterConfigToDisk(r) ==
  /\ Is(r, "write")
  /\ configFile' = Config(r)
  /\ IF clusterCall[r].op \in {"create", "stored"} THEN Ends(r)
     ELSE Goes(r, GoesOn[clusterCall[r].op], Missing)
  /\ UNCHANGED <<clusterItem, clusterRecord, listingValid, siteVars, configsMade>>
  /\ Watch(FALSE)

(* The handle of whatever file is there now; without one an exception.     *)
configPathForCluster(r) ==
  /\ Is(r, "path")
  /\ Ends(r)
  /\ UNCHANGED <<clusterItem, clusterRecord, configFile, listingValid, siteVars, configsMade>>
  /\ Watch(FALSE)

(* addCluster and updateCluster: PutItem or UpdateItem, then the caches and*)
(* the file.  The write may fail, or store the config and not be answered: *)
(* then the caches and the file stay as they were.                         *)
storeCluster(r) ==
  /\ Is(r, "put") /\ configsMade < MaxConfigs
  /\ UNCHANGED <<clusterRecord, configFile, listingValid, siteVars>>
  /\ \/ /\ configsMade' = configsMade + 1 /\ clusterItem' = configsMade'
        /\ clusterCall' = [clusterCall EXCEPT ![r] = [op |-> "stored", at |-> "cache", config |-> configsMade']]
        /\ Watch(FALSE)
     \/ Ends(r) /\ UNCHANGED <<configsMade, clusterItem>> /\ Watch(FALSE)
     \/ Ends(r) /\ configsMade' = configsMade + 1 /\ clusterItem' = configsMade' /\ Watch(TRUE)

(* removeCluster: everything local first, then the two items, each of which*)
(* may be deleted although the call fails.                                 *)
eraseFiles(r) ==
  /\ Is(r, "erase")
  /\ configFile' = Missing /\ siteCache' = Missing
  /\ Goes(r, "delete", Missing)
  /\ UNCHANGED <<clusterItem, clusterRecord, listingValid, siteItem, configsMade>>
  /\ Watch(FALSE)

eraseCluster(r) ==
  /\ Is(r, "erase")
  /\ clusterRecord' = Missing /\ configFile' = Missing /\ siteCache' = Missing
  /\ Goes(r, "delete", Missing)
  /\ UNCHANGED <<clusterItem, listingValid, siteItem, configsMade>>
  /\ Watch(FALSE)

deleteClusterItem(r) ==
  /\ Is(r, "delete")
  /\ UNCHANGED <<clusterRecord, configFile, listingValid, siteVars, configsMade>>
  /\ \/ clusterItem' = Missing /\ Goes(r, "delete sites", Missing) /\ Watch(FALSE)
     \/ clusterItem' \in {Missing, clusterItem} /\ Ends(r) /\ Watch(TRUE)

deleteSiteItem(r) ==
  /\ Is(r, "delete sites")
  /\ siteItem' \in {Missing, siteItem}
  /\ Ends(r)
  /\ UNCHANGED <<clusterItem, clusterRecord, configFile, listingValid, siteCache, configsMade>>
  /\ Watch(FALSE)

(* A valid listing is the whole cache, expired records included; otherwise *)
(* the table is scanned and everything found is cached as above.           *)
scanClusters(r) ==
  /\ Is(r, "list")
  /\ UNCHANGED <<clusterItem, clusterRecord, configFile, listingValid, siteVars, configsMade>>
  /\ \/ listingValid /\ Ends(r) /\ Watch(FALSE)
     \/ ~listingValid /\ clusterItem # Missing /\ Goes(r, "cache", clusterItem) /\ Watch(FALSE)
     \/ ~listingValid /\ clusterItem = Missing /\ Goes(r, "stamp", Missing) /\ Watch(FALSE)
     \/ ~listingValid /\ Ends(r) /\ Watch(TRUE)

stampListing(r) ==
  /\ Is(r, "stamp")
  /\ listingValid' = TRUE
  /\ Ends(r)
  /\ UNCHANGED <<clusterItem, clusterRecord, configFile, siteVars, configsMade>>
  /\ Watch(FALSE)

setLocationsForCluster(r) ==
  /\ Is(r, "place")
  /\ UNCHANGED <<clusterItem, clusterRecord, configFile, listingValid, siteCache, configsMade>>
  /\ \/ \E s \in Sites : siteItem' = s /\ Goes(r, "record sites", s) /\ Watch(FALSE)
     \/ Ends(r) /\ UNCHANGED siteItem /\ Watch(FALSE)
     \/ Ends(r) /\ siteItem' \in Sites /\ Watch(TRUE)

(* No item is cached as no locations, which is not told from none cached.  *)
getLocationsForCluster(r) ==
  /\ Is(r, "locate")
  /\ UNCHANGED <<clusterItem, clusterRecord, configFile, listingValid, siteVars, configsMade>>
  /\ \/ siteCache # Missing /\ Ends(r) /\ Watch(FALSE)
     \/ siteCache = Missing /\ Goes(r, "record sites", siteItem) /\ Watch(FALSE)
     \/ siteCache = Missing /\ Ends(r) /\ Watch(TRUE)

recordSites(r) ==
  /\ Is(r, "record sites")
  /\ siteCache' = Config(r)
  /\ Ends(r)
  /\ UNCHANGED <<clusterItem, clusterRecord, configFile, listingValid, siteItem, configsMade>>
  /\ Watch(FALSE)

-----------------------------------------------------------------------------
expireRecord ==
  /\ clusterRecord # Missing /\ clusterRecord.live
  /\ clusterRecord' = [clusterRecord EXCEPT !.live = FALSE]
  /\ UNCHANGED <<clusterItem, configFile, listingValid, siteVars, clusterCall, configsMade>>
  /\ Watch(FALSE)

expireListing ==
  /\ listingValid
  /\ listingValid' = FALSE
  /\ UNCHANGED <<clusterItem, clusterRecord, configFile, siteVars, clusterCall, configsMade>>
  /\ Watch(FALSE)

expireSites ==
  /\ siteCache # Missing
  /\ siteCache' = Missing
  /\ UNCHANGED <<clusterItem, clusterRecord, configFile, listingValid, siteItem, clusterCall, configsMade>>
  /\ Watch(FALSE)

ClusterInit ==
  /\ clusterItem = Missing /\ clusterRecord = Missing /\ configFile = Missing
  /\ listingValid = FALSE /\ siteItem = Missing /\ siteCache = Missing
  /\ clusterCall = [r \in ClusterRequests |-> NoCall]
  /\ configsMade = 0 /\ overlapped = FALSE

serveCluster(r) ==
  \/ findCluster(r) \/ cacheCluster(r) \/ writeClusterConfigToDisk(r) \/ configPathForCluster(r)
  \/ storeCluster(r) \/ eraseCluster(r) \/ deleteClusterItem(r) \/ deleteSiteItem(r)
  \/ scanClusters(r) \/ stampListing(r)
  \/ setLocationsForCluster(r) \/ getLocationsForCluster(r) \/ recordSites(r)

ClusterNext ==
  \/ expireRecord \/ expireListing \/ expireSites
  \/ \E r \in ClusterRequests : requestCluster(r) \/ serveCluster(r)

ClusterSpec == ClusterInit /\ [][ClusterNext]_clusterVars

-----------------------------------------------------------------------------
(* While requests come one at a time and none of their reads and deletions *)
(* fails, a valid record is the item's and so is the file, the listing has *)
(* the clusters of the table and no others, and the cached locations are   *)
(* the stored ones, whatever expires when and whichever write is refused.  *)
(* A write that is made but not answered leaves the caches and the file    *)
(* behind, and counts as a failure until what is valid agrees again.       *)
RecordsAgree ==
  (~overlapped /\ \A r \in ClusterRequests : clusterCall[r] = NoCall) =>
    Agree(clusterItem, clusterRecord, configFile, listingValid, siteItem, siteCache)

(* However requests overlap: once no more configs are stored, commands run *)
(* in the end with the stored config and no other, although the record is  *)
(* seen before its file is written and files may be written out of order.  *)
ConfigSettles ==
  <>[][\A r \in ClusterRequests : configPathForCluster(r) => configFile \in {clusterItem, Missing}]_clusterVars
=============================================================================

--------------------------- MODULE AppPermissions ---------------------------
(***************************************************************************)
(* Which applications a group may use on a cluster (PersistentStore.cpp):   *)
(* one item of the clusters' table and one record of                        *)
(* clusterGroupApplicationCache.  Changing the permissions reads the whole  *)
(* set, from the cache if it can, and writes the whole set back.            *)
(***************************************************************************)
EXTENDS Naturals, FiniteSets

CONSTANTS
  Apps,          \* the applications
  All,           \* wildcardName, all applications
  None,          \* the element that stands for the empty set in the table
  Unspecified,   \* no set: nothing is stored, cached or promised
  PermRequests   \* the requests in progress

ASSUME PermissionAssumption ==
  /\ IsFiniteSet(PermRequests)
  /\ All \notin Apps /\ None \notin Apps /\ All # None
  /\ \A set \in SUBSET (Apps \cup {All, None}) : set # Unspecified

VARIABLES
  permItem,      \* the set in the table, NoItem if there is no item
  permCache,     \* the cached set, NoItem if it is absent or has expired
  permCall,      \* what each request does, and where it is
  verdict,       \* the last answer of groupMayUseApplication, unless disturbed
  disturbed,     \* whether requests have overlapped, a read failed, or a change
                 \* was made without an answer, since they were last at rest
  atRest,        \* the permissions when they were last at rest
  named          \* the applications that requests have named since

permVars == <<permItem, permCache, permCall, verdict, disturbed, atRest, named>>

NoItem == Unspecified
Idle == [op |-> "none", at |-> "idle"]

-----------------------------------------------------------------------------
(* No item means that everything is allowed; the table holds no empty set. *)
FromItem(item) ==
  CASE item = NoItem -> {All}
    [] item # NoItem /\ None \in item -> {}
    [] OTHER -> item

ToItem(set) == IF set = {} THEN {None} ELSE set

(* The auxiliary variables: at rest, no request is in progress and the     *)
(* cache holds nothing else than the table.                                *)
Observe(failed, names, answer) ==
  /\ IF (\A r \in PermRequests : permCall'[r] = Idle) /\ permCache' \in {NoItem, FromItem(permItem')}
     THEN disturbed' = FALSE /\ atRest' = FromItem(permItem') /\ named' = {}
     ELSE /\ disturbed' = \/ disturbed \/ failed
                          \/ Cardinality({r \in PermRequests : permCall'[r] # Idle}) > 1
          /\ named' = named \cup names
          /\ UNCHANGED atRest
  /\ verdict' = IF disturbed' THEN Unspecified ELSE answer

-----------------------------------------------------------------------------
(* A request arrives whose group and cluster exist.                        *)
requestPermission(r) ==
  /\ permCall[r] = Idle
  /\ \E op \in {"allow", "deny", "query"}, app \in Apps \cup {All} :
       /\ op = "query" => app \in Apps
       /\ permCall' = [permCall EXCEPT ![r] = [op |-> op, at |-> "list", app |-> app, set |-> {}]]
       /\ UNCHANGED <<permItem, permCache>>
       /\ Observe(FALSE, CASE op = "query" -> {} [] op # "query" /\ app = All -> Apps [] OTHER -> {app},
                  verdict)

At(r, pc) == permCall[r].at = pc
SetOf(r) == permCall[r].set
Moves(r, pc, set) == permCall' = [permCall EXCEPT ![r].at = pc, ![r].set = set]

(* The set comes from the cache, or from the table, which may fail: then   *)
(* the request goes on with the empty set, which is about all applications.*)
listApplicationsGroupMayUseOnCluster(r) ==
  /\ At(r, "list")
  /\ \/ permCache # NoItem /\ Moves(r, "change", permCache) /\ Observe(FALSE, {}, verdict)
     \/ permCache = NoItem /\ Moves(r, "fill", FromItem(permItem)) /\ Observe(FALSE, {}, verdict)
     \/ permCache = NoItem /\ Moves(r, "change", {}) /\ Observe(TRUE, Apps, verdict)
  /\ UNCHANGED <<permItem, permCache>>

fillCache(r) ==
  /\ At(r, "fill")
  /\ permCache' = SetOf(r)
  /\ Moves(r, "change", SetOf(r))
  /\ UNCHANGED permItem
  /\ Observe(FALSE, {}, verdict)

(* PutItem, which may fail, or store the set and not be answered: then the *)
(* cache keeps the set from before until its record expires.               *)
PutSet(r, set) ==
  /\ UNCHANGED permCache
  /\ \/ permItem' = ToItem(set) /\ Moves(r, "record", set) /\ Observe(FALSE, {}, verdict)
     \/ /\ permCall' = [permCall EXCEPT ![r] = Idle]
        /\ \/ UNCHANGED permItem /\ Observe(FALSE, {}, verdict)
           \/ permItem' = ToItem(set) /\ Observe(TRUE, {}, verdict)

allowKeepingWildcard(r) ==
  /\ At(r, "change") /\ permCall[r].op = "allow"
  /\ LET app == permCall[r].app IN
     PutSet(r, IF app = All THEN {All} ELSE SetOf(r) \cup {app})

allowVoToUseApplication(r) ==
  /\ At(r, "change") /\ permCall[r].op = "allow"
  /\ LET app == permCall[r].app IN
     PutSet(r, IF app = All THEN {All} ELSE (SetOf(r) \ {All}) \cup {app})

(* Neither one of all applications nor what is forbidden can be denied.    *)
withdrawApplication(r) ==
  /\ At(r, "change") /\ permCall[r].op = "deny"
  /\ LET app == permCall[r].app IN
     IF app = All \/ (All \notin SetOf(r) /\ app \in SetOf(r))
     THEN PutSet(r, IF app = All THEN {} ELSE SetOf(r) \ {app})
     ELSE /\ permCall' = [permCall EXCEPT ![r] = Idle]
          /\ UNCHANGED <<permItem, permCache>>
          /\ Observe(FALSE, {}, verdict)

recordChange(r) ==
  /\ At(r, "record")
  /\ permCache' = SetOf(r)
  /\ permCall' = [permCall EXCEPT ![r] = Idle]
  /\ UNCHANGED permItem
  /\ Observe(FALSE, {}, verdict)

groupMayUseApplication(r) ==
  /\ At(r, "change") /\ permCall[r].op = "query"
  /\ permCall' = [permCall EXCEPT ![r] = Idle]
  /\ UNCHANGED <<permItem, permCache>>
  /\ LET app == permCall[r].app IN
     Observe(FALSE, {}, [app |-> app, may |-> SetOf(r) \cap {app, All} # {}])

expirePermission ==
  /\ permCache # NoItem
  /\ permCache' = NoItem
  /\ UNCHANGED <<permItem, permCall>>
  /\ Observe(FALSE, {}, verdict)

PermissionInit ==
  /\ permItem = NoItem /\ permCache = NoItem
  /\ permCall = [r \in PermRequests |-> Idle]
  /\ verdict = Unspecified
  /\ disturbed = FALSE /\ atRest = {All} /\ named = {}

PermissionNext ==
  \/ expirePermission
  \/ \E r \in PermRequests :
       \/ requestPermission(r) \/ listApplicationsGroupMayUseOnCluster(r) \/ fillCache(r)
       \/ allowVoToUseApplication(r) \/ withdrawApplication(r) \/ recordChange(r)
       \/ groupMayUseApplication(r)

PermissionSpec == PermissionInit /\ [][PermissionNext]_permVars

-----------------------------------------------------------------------------
Register == INSTANCE PermissionRegister WITH
  allowed <- IF disturbed THEN Unspecified ELSE FromItem(permItem),
  verdict <- verdict

(* Requests that do not overlap see and leave a register, whatever the     *)
(* cache holds, whenever its record expires and whichever write is refused:*)
(* the specification of PermissionRegister.  A write that is made but not  *)
(* answered unsettles the register until the cached set is the table's     *)
(* again, by expiring or by being replaced.                                *)
ImplementsRegister == Register!RegisterSpec

(* Overlapping changes, and changes from a set that an unanswered write has*)
(* outdated, lose one another, but not what none of them names: an         *)
(* application that no request has named since the permissions were at     *)
(* rest is allowed by name if and only if it was allowed then.             *)
UntouchedKept ==
  \A a \in Apps \ named : a \in FromItem(permItem) <=> a \in atRest

(* Groups keep the applications they were allowed (allowVoToUseApplication,*)
(* denyGroupUseOfApplication, getGroupUseOfApplication): one after the     *)
(* other, as in a register; overlapping or unanswered, at least what       *)
(* nobody named.                                                           *)
PermissionsKept == ImplementsRegister /\ []UntouchedKept
=============================================================================

---------------------------- MODULE GroupRecords ----------------------------
(***************************************************************************)
(* The records of groups and their names (src/PersistentStore.cpp,         *)
(* src/GroupCommands.cpp): the group table, which the database lets hold   *)
(* one name twice, groupCache, groupByNameCache, and the time until which  *)
(* groupCache counts as the listing of all groups.  Each thread serves one *)
(* request, in steps that other requests interleave with.                  *)
(***************************************************************************)
EXTENDS Naturals

CONSTANTS
  GroupRequests,   \* the threads that serve requests
  GroupIDs,        \* the IDs of groups, never issued twice
  GroupNames,      \* the names clients choose
  Nameless,        \* no group, no name
  MaxRequests      \* bound: how many requests are served

ASSUME RecordsAssumption ==
  Nameless \notin GroupIDs \cup GroupNames /\ MaxRequests \in Nat

VARIABLES
  nameOf,       \* the group table: the name of each stored group
  cachedID,     \* groupCache: "none", "live" or "expired"
  cachedName,   \* groupByNameCache: the group, and whether its record is live
  listing,      \* whether groupCacheExpirationTime lies in the future
  issued,       \* the name each ID was issued for, which never changes
  serving,      \* what each thread is doing
  served,       \* how many requests have come
  concurrent,   \* whether two requests have been served at once
  faulted       \* whether a database call has failed

groupCaches == <<cachedID, cachedName, listing>>
groupHistory == <<issued, served, concurrent>>
groupVars == <<nameOf, groupCaches, groupHistory, serving, faulted>>

(* A request: its operation, where it is, the group and the name it is     *)
(* about, and the groups a listing has still to fetch.                     *)
NoRequest == [op |-> "none", at |-> "idle", g |-> Nameless, n |-> Nameless, todo |-> {}]
NoRecord == [g |-> Nameless, live |-> FALSE]

StoredGroups == {g \in GroupIDs : nameOf[g] # Nameless}
Named(n) == {g \in StoredGroups : nameOf[g] = n}

Serves(r, q) == serving' = [serving EXCEPT ![r] = q]
Turns(r, at) == Serves(r, [serving[r] EXCEPT !.at = at])
Fails == ~faulted /\ faulted' = TRUE

-----------------------------------------------------------------------------
(* Lookups.                                                                *)

(* Where a request goes on once it has its group, or none: createGroup     *)
(* refuses a name that is in use, the others a group that is not there.    *)
AfterLookup(q, found) ==
  CASE q.op = "create" /\ ~found -> [q EXCEPT !.at = "put"]
    [] q.op = "edit" /\ found    -> [q EXCEPT !.at = "put"]
    [] q.op = "delete" /\ found  -> [q EXCEPT !.at = "eraseName"]
    [] OTHER                     -> NoRequest

(* Where it goes on once its record is in both caches.                     *)
AfterCaching(q) ==
  CASE q.at = "foundName" -> AfterLookup(q, TRUE)
    [] q.op = "list"      -> [q EXCEPT !.at = "scan"]
    [] OTHER              -> NoRequest

(* A query that fails looks like a name nobody has; one that finds two     *)
(* groups ends the request with an exception.                              *)
findGroupByName(r) ==
  LET q == serving[r]
      c == cachedName[q.n]
  IN
  /\ q.at = "byName"
  /\ \/ c.live /\ Serves(r, AfterLookup([q EXCEPT !.g = c.g], TRUE)) /\ UNCHANGED faulted
     \/ /\ ~c.live /\ UNCHANGED faulted
        /\ \/ Named(q.n) = {} /\ Serves(r, AfterLookup(q, FALSE))
           \/ \E g \in Named(q.n) : /\ Named(q.n) = {g}
                                    /\ Serves(r, [q EXCEPT !.at = "foundID", !.g = g])
           \/ \E g, h \in Named(q.n) : g # h /\ Serves(r, NoRequest)
     \/ ~c.live /\ Fails /\ Serves(r, AfterLookup(q, FALSE))
  /\ UNCHANGED <<nameOf, groupCaches, groupHistory>>

findGroupByID(r) ==
  LET q == serving[r] IN
  /\ q.at = "byID"
  /\ \/ cachedID[q.g] = "live" /\ Serves(r, AfterLookup(q, TRUE)) /\ UNCHANGED faulted
     \/ /\ cachedID[q.g] # "live" /\ UNCHANGED faulted
        /\ Serves(r, IF q.g \in StoredGroups THEN [q EXCEPT !.at = "foundID"] ELSE AfterLookup(q, FALSE))
     \/ cachedID[q.g] # "live" /\ Fails /\ Serves(r, AfterLookup(q, FALSE))
  /\ UNCHANGED <<nameOf, groupCaches, groupHistory>>

(* By its ID when that is what the client gave, else by its name.          *)
getGroup(q) == [q EXCEPT !.at = IF q.g # Nameless THEN "byID" ELSE "byName"]

(* Whatever put or found a record puts it into both caches, in this order. *)
cacheByID(r) ==
  LET q == serving[r] IN
  /\ q.at \in {"foundID", "newID"}
  /\ cachedID' = [cachedID EXCEPT ![q.g] = "live"]
  /\ Turns(r, IF q.at = "foundID" THEN "foundName" ELSE "newName")
  /\ UNCHANGED <<nameOf, cachedName, listing, groupHistory, faulted>>

cacheByName(r) ==
  LET q == serving[r] IN
  /\ q.at \in {"foundName", "newName"}
  /\ cachedName' = [cachedName EXCEPT ![issued[q.g]] = [g |-> q.g, live |-> TRUE]]
  /\ Serves(r, AfterCaching(q))
  /\ UNCHANGED <<nameOf, cachedID, listing, groupHistory, faulted>>

-----------------------------------------------------------------------------
(* addGroup, and updateGroup, which has no condition either and stores the *)
(* whole record: a group deleted in the meantime exists again.             *)

(* A faulty variant: the caches are left to the next lookup.               *)
putUncached(r) ==
  LET q == serving[r] IN
  /\ q.at = "put"
  /\ nameOf' = [nameOf EXCEPT ![q.g] = issued[q.g]]
  /\ Serves(r, NoRequest)
  /\ UNCHANGED <<groupCaches, groupHistory, faulted>>

putGroup(r) ==
  LET q == serving[r] IN
  /\ q.at = "put"
  /\ \/ nameOf' = [nameOf EXCEPT ![q.g] = issued[q.g]] /\ Turns(r, "newID") /\ UNCHANGED faulted
     \/ /\ Fails /\ Serves(r, NoRequest)
        /\ nameOf' \in {nameOf, [nameOf EXCEPT ![q.g] = issued[q.g]]}
  /\ UNCHANGED <<groupCaches, groupHistory>>

(* removeGroup: the name is erased by way of the record in groupCache,     *)
(* expired or not.                                                         *)
eraseName(r) ==
  LET q == serving[r] IN
  /\ q.at = "eraseName"
  /\ cachedName' = IF cachedID[q.g] = "none" THEN cachedName
                   ELSE [cachedName EXCEPT ![issued[q.g]] = NoRecord]
  /\ Turns(r, "eraseID")
  /\ UNCHANGED <<nameOf, cachedID, listing, groupHistory, faulted>>

eraseID(r) ==
  /\ serving[r].at = "eraseID"
  /\ cachedID' = [cachedID EXCEPT ![serving[r].g] = "none"]
  /\ Turns(r, "deleteItem")
  /\ UNCHANGED <<nameOf, cachedName, listing, groupHistory, faulted>>

removeGroup(r) ==
  LET rest == [nameOf EXCEPT ![serving[r].g] = Nameless] IN
  /\ serving[r].at = "deleteItem"
  /\ \/ nameOf' = rest /\ UNCHANGED faulted
     \/ Fails /\ nameOf' \in {nameOf, rest}
  /\ Serves(r, NoRequest)
  /\ UNCHANGED <<groupCaches, groupHistory>>

-----------------------------------------------------------------------------
(* listGroups: the cache while it counts as complete, else a scan, one     *)
(* page after the other (here a group is a page), each record going into   *)
(* both caches.                                                            *)

listAllGroups(r) ==
  LET q == serving[r] IN
  /\ q.at = "list"
  /\ Serves(r, IF listing THEN NoRequest ELSE [q EXCEPT !.at = "scan", !.todo = GroupIDs])
  /\ UNCHANGED <<nameOf, groupCaches, groupHistory, faulted>>

scanPage(r) ==
  LET q == serving[r] IN
  /\ q.at = "scan" /\ q.todo # {}
  /\ \/ /\ \E g \in q.todo :
             Serves(r, [q EXCEPT !.todo = @ \ {g}, !.g = g,
                                  !.at = IF g \in StoredGroups THEN "newID" ELSE "scan"])
        /\ UNCHANGED faulted
     \/ Fails /\ Serves(r, NoRequest)
  /\ UNCHANGED <<nameOf, groupCaches, groupHistory>>

stampGroups(r) ==
  /\ serving[r].at = "scan" /\ serving[r].todo = {}
  /\ listing' = TRUE
  /\ Serves(r, NoRequest)
  /\ UNCHANGED <<nameOf, cachedID, cachedName, groupHistory, faulted>>

-----------------------------------------------------------------------------
(* A request arrives.  createGroup issues an ID and looks the name up.     *)

requestGroup(r) ==
  /\ serving[r].at = "idle" /\ served < MaxRequests
  /\ served' = served + 1
  /\ concurrent' = (concurrent \/ \E s \in GroupRequests : serving[s].at # "idle")
  /\ \/ \E g \in GroupIDs, n \in GroupNames :
          /\ issued[g] = Nameless
          /\ issued' = [issued EXCEPT ![g] = n]
          /\ Serves(r, [NoRequest EXCEPT !.op = "create", !.at = "byName", !.g = g, !.n = n])
     \/ /\ UNCHANGED issued
        /\ \/ \E op \in {"show", "edit", "delete"} :
                \/ \E g \in GroupIDs : /\ issued[g] # Nameless
                                       /\ Serves(r, getGroup([NoRequest EXCEPT !.op = op, !.g = g]))
                \/ \E n \in GroupNames : Serves(r, getGroup([NoRequest EXCEPT !.op = op, !.n = n]))
           \/ Serves(r, [NoRequest EXCEPT !.op = "list", !.at = "list"])
  /\ UNCHANGED <<nameOf, groupCaches, faulted>>

(* Records and the listing expire.                                         *)
expireGroup ==
  /\ \/ \E g \in GroupIDs : /\ cachedID[g] = "live"
                            /\ cachedID' = [cachedID EXCEPT ![g] = "expired"]
                            /\ UNCHANGED <<cachedName, listing>>
     \/ \E n \in GroupNames : /\ cachedName[n].live
                              /\ cachedName' = [cachedName EXCEPT ![n].live = FALSE]
                              /\ UNCHANGED <<cachedID, listing>>
     \/ listing /\ listing' = FALSE /\ UNCHANGED <<cachedID, cachedName>>
  /\ UNCHANGED <<nameOf, groupHistory, serving, faulted>>

(* The server starts with empty caches on a table whose names differ.      *)
GroupInit ==
  /\ nameOf \in [GroupIDs -> GroupNames \cup {Nameless}]
  /\ \A n \in GroupNames : \A g, h \in Named(n) : g = h
  /\ cachedID = [g \in GroupIDs |-> "none"]
  /\ cachedName = [n \in GroupNames |-> NoRecord]
  /\ listing = FALSE
  /\ issued = nameOf
  /\ serving = [r \in GroupRequests |-> NoRequest]
  /\ served = 0 /\ concurrent = FALSE /\ faulted = FALSE

serveGroup(r) ==
  \/ findGroupByName(r) \/ findGroupByID(r) \/ cacheByID(r) \/ cacheByName(r) \/ putGroup(r)
  \/ eraseName(r) \/ eraseID(r) \/ removeGroup(r)
  \/ listAllGroups(r) \/ scanPage(r) \/ stampGroups(r)

GroupNext == expireGroup \/ \E r \in GroupRequests : requestGroup(r) \/ serveGroup(r)

GroupRecordsSpec == GroupInit /\ [][GroupNext]_groupVars

-----------------------------------------------------------------------------
AtRest == ~faulted /\ \A r \in GroupRequests : serving[r].at = "idle"

(* Between requests, and unless a database call failed, a listing that     *)
(* groupCache answers names every group there is, whatever creations,      *)
(* changes, deletions and other listings overlapped the one that filled it *)
(* (listGroups, addGroup, updateGroup, removeGroup).                       *)
GroupsListed == AtRest /\ listing => \A g \in StoredGroups : cachedID[g] # "none"

(* As long as requests come one after the other and no database call       *)
(* fails, a name belongs to one group, whether found by ID or by name, a   *)
(* cached name is that of a group that still exists, and "we keep the      *)
(* caches synchronized": a cached name has its record in groupCache, by    *)
(* which removeGroup finds it.                                             *)
GroupNamesAgree ==
  AtRest /\ ~concurrent =>
    /\ \A n \in GroupNames : \A g, h \in Named(n) : g = h
    /\ \A g \in GroupIDs : cachedID[g] # "none" => g \in StoredGroups
    /\ \A n \in GroupNames : LET g == cachedName[n].g IN
         g # Nameless => nameOf[g] = n /\ cachedID[g] # "none"

(* The caches of groups agree with the table of groups (addGroup,          *)
(* findGroupByID, findGroupByName, listGroups, updateGroup, removeGroup):  *)
(* no group is missing from a listing, and names are found as stored.      *)
GroupRecordsAgree == GroupsListed /\ GroupNamesAgree
=============================================================================

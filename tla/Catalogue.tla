----------------------------- MODULE Catalogue -----------------------------
(***************************************************************************)
(* The catalogue of applications (applicationCache of                      *)
(* src/PersistentStore.cpp, updateCatalog of src/ApplicationCommands.cpp): *)
(* helm keeps a copy of the index of a chart repository and searches in    *)
(* it; the server remembers what helm found.  Records are equal when both  *)
(* name and chart version are, so that several versions of an application  *)
(* stand side by side.  A record that has expired is like none.            *)
(***************************************************************************)
EXTENDS Naturals

CONSTANTS
  CatalogueRequests,   \* the threads that serve requests
  MaxVersion,          \* bound: how many versions of a chart there are
  MaxLookups           \* bound: how many requests are made

ASSUME CatalogueAssumption == MaxVersion \in Nat \ {0} /\ MaxLookups \in Nat

VARIABLES
  indexed,       \* the newest version of each chart in helm's copy of the index
  catalogue,     \* the records of the repository's category that have not expired
  upToDate,      \* whether the time of the category lies in the future
  lookup,        \* what each thread is doing
  lookups,       \* how many requests were made
  announced,     \* the records a completed update of the catalogue left, until they expire
  lookedUp       \* the answer given in this step, with what was asked

catalogueVars == <<indexed, catalogue, upToDate, lookup, lookups, announced, lookedUp>>

(* One name is part of the other, so that helm finds both when asked for   *)
(* the shorter one.                                                        *)
Charts == {"app", "app-extra"}
FoundBy(chart, name) == chart = name \/ name = "app"

Chart(name, version) == [name |-> name, version |-> version]
NoChart == Chart("", 0)
Newest == 0     \* no version is asked for
NoLookup == [op |-> "none", at |-> "idle", name |-> "", version |-> Newest,
             todo |-> {}, found |-> {}, due |-> {}]

LookupAt(r, at) == lookup[r].at = at
ToLookup(r, q) == lookup' = [lookup EXCEPT ![r] = q]
LookupGoesOn(r, q) == ToLookup(r, q) /\ lookedUp' = NoLookup
LookupEnds(r, found) == ToLookup(r, NoLookup) /\ lookedUp' = [lookup[r] EXCEPT !.found = found]
LookupFails(r) == LookupGoesOn(r, NoLookup)

CatalogueInit ==
  /\ indexed = [c \in Charts |-> 1] /\ lookedUp = NoLookup
  /\ catalogue = {} /\ upToDate = FALSE /\ announced = {} /\ lookups = 0
  /\ lookup = [r \in CatalogueRequests |-> NoLookup]

askCatalogue(r) ==
  /\ LookupAt(r, "idle") /\ lookups < MaxLookups /\ lookups' = lookups + 1
  /\ \E op \in {"find", "list", "update"}, name \in Charts, version \in Newest..MaxVersion :
       /\ op # "find" => name = "app" /\ version = Newest
       /\ LookupGoesOn(r, [NoLookup EXCEPT !.op = op, !.at = op, !.name = name, !.version = version,
                                   !.due = IF op = "list" THEN announced ELSE {}])
  /\ UNCHANGED <<indexed, catalogue, upToDate, announced>>

(* The lines helm prints: each chart whose name has the one asked for in   *)
(* it, in its newest version or in the version asked for.                  *)
helmSearch(name, version) ==
  {Chart(c, IF version = Newest THEN indexed[c] ELSE version) :
     c \in {d \in Charts : FoundBy(d, name) /\ version <= indexed[d]}}

(* A faulty variant: records are equal when their names are.               *)
insertByName(x) == {y \in catalogue : y.name # x.name} \cup {x}

(* insert_or_assign *)
insertApplication(x) == catalogue \cup {x}

-----------------------------------------------------------------------------
(* findApplication.  A record of the name is taken in whatever version it  *)
(* is, if the category is up to date.                                      *)
findCached(r) ==
  LET q == lookup[r]
      cached == {x \in catalogue : upToDate /\ x.name = q.name} IN
  /\ LookupAt(r, "find")
  /\ \/ \E x \in cached : LookupEnds(r, {x})
     \/ cached = {} /\ LookupGoesOn(r, [q EXCEPT !.at = "search"])
  /\ UNCHANGED <<indexed, catalogue, upToDate, announced, lookups>>

(* The line with the very name; when there are only others, an application *)
(* without a name is answered and remembered.  Helm may fail.              *)
searchApplication(r) ==
  LET q == lookup[r]
      lines == helmSearch(q.name, q.version)
      matching == {x \in lines : x.name = q.name} IN
  /\ LookupAt(r, "search")
  /\ \/ LookupFails(r)
     \/ lines = {} /\ LookupEnds(r, {})
     \/ \E x \in IF matching = {} THEN {NoChart} ELSE matching :
          lines # {} /\ LookupGoesOn(r, [q EXCEPT !.at = "insert", !.todo = {x}])
  /\ UNCHANGED <<indexed, catalogue, upToDate, announced, lookups>>

rememberApplication(r) ==
  LET q == lookup[r] IN
  /\ LookupAt(r, "insert")
  /\ \E x \in q.todo : catalogue' = insertApplication(x) /\ LookupEnds(r, q.todo)
  /\ UNCHANGED <<indexed, upToDate, announced, lookups>>

-----------------------------------------------------------------------------
(* listApplications, updateCatalog, which brings in what was published     *)
(* meanwhile, and what both do: fetchApplications.                         *)
listCached(r) ==
  /\ LookupAt(r, "list")
  /\ IF upToDate THEN LookupEnds(r, catalogue)
     ELSE LookupGoesOn(r, [lookup[r] EXCEPT !.at = "fetch"])
  /\ UNCHANGED <<indexed, catalogue, upToDate, announced, lookups>>

updateCatalogue(r) ==
  /\ LookupAt(r, "update")
  /\ \/ LookupFails(r) /\ UNCHANGED indexed
     \/ /\ LookupGoesOn(r, [lookup[r] EXCEPT !.at = "fetch"])
        /\ \E c \in Charts, version \in 1..MaxVersion :
             version >= indexed[c] /\ indexed' = [indexed EXCEPT ![c] = version]
  /\ UNCHANGED <<catalogue, upToDate, announced, lookups>>

fetchApplications(r) ==
  /\ LookupAt(r, "fetch")
  /\ \/ LookupFails(r)
     \/ LET lines == helmSearch("app", Newest) IN
        LookupGoesOn(r, [lookup[r] EXCEPT !.at = "collect", !.todo = lines, !.found = lines])
  /\ UNCHANGED <<indexed, catalogue, upToDate, announced, lookups>>

collectApplication(r) ==
  LET q == lookup[r] IN
  /\ LookupAt(r, "collect")
  /\ \E x \in q.todo :
       /\ catalogue' = insertApplication(x)
       /\ LookupGoesOn(r, [q EXCEPT !.todo = @ \ {x}])
  /\ UNCHANGED <<indexed, upToDate, announced, lookups>>

markUpToDate(r) ==
  LET q == lookup[r] IN
  /\ LookupAt(r, "collect") /\ q.todo = {}
  /\ upToDate' = TRUE
  /\ announced' = IF q.op = "update" THEN announced \cup (q.found \cap catalogue) ELSE announced
  /\ LookupEnds(r, q.found)
  /\ UNCHANGED <<indexed, catalogue, lookups>>

-----------------------------------------------------------------------------
(* Time passes.                                                            *)
expireApplication ==
  /\ \E x \in catalogue :
       /\ catalogue' = catalogue \ {x} /\ announced' = announced \ {x}
       /\ lookup' = [r \in CatalogueRequests |-> [lookup[r] EXCEPT !.due = @ \ {x}]]
  /\ lookedUp' = NoLookup
  /\ UNCHANGED <<indexed, upToDate, lookups>>

expireCatalogue ==
  /\ upToDate /\ upToDate' = FALSE
  /\ lookedUp' = NoLookup
  /\ UNCHANGED <<indexed, catalogue, lookup, announced, lookups>>

CatalogueNext ==
  \/ expireApplication \/ expireCatalogue
  \/ \E r \in CatalogueRequests :
       \/ askCatalogue(r) \/ findCached(r) \/ searchApplication(r) \/ rememberApplication(r)
       \/ listCached(r) \/ updateCatalogue(r)
       \/ fetchApplications(r) \/ collectApplication(r) \/ markUpToDate(r)

CatalogueSpec == CatalogueInit /\ [][CatalogueNext]_catalogueVars

-----------------------------------------------------------------------------
(* A lookup finds the application asked for and no other, in a version the *)
(* repository has; a listing shows every application in no older version   *)
(* than an update of the catalogue completed before it, until that record  *)
(* expires, although lookups of other versions overlap (findApplication,   *)
(* listApplications, updateCatalog).                                       *)
CatalogueRight ==
  /\ lookedUp.op = "find" => \A x \in lookedUp.found \ {NoChart} :
                            x.name = lookedUp.name /\ x.version \in 1..indexed[x.name]
  /\ lookedUp.op = "list" => \A x \in lookedUp.due :
                            \E y \in lookedUp.found : y.name = x.name /\ y.version >= x.version
=============================================================================

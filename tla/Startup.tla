------------------------------ MODULE Startup ------------------------------
(***************************************************************************)
(* The start of the API server: the configuration (src/slate_service.cpp), *)
(* the chart repositories of helm, and the initialisation of the tables    *)
(* (src/PersistentStore.cpp), which runs against a database that works on   *)
(* its tables and indices in the background.                                *)
(*                                                                         *)
(* A start ends with the server answering requests or with an exception    *)
(* (log_fatal), after which the process is started again.  The tables are  *)
(* initialised one after the other and independently; the model follows    *)
(* one of them, which the initial state chooses.                           *)
(***************************************************************************)
EXTENDS Naturals, Sequences, FiniteSets

CONSTANTS
  Files,         \* configuration files
  MaxLines,      \* lines of a configuration file
  MaxTrouble     \* failed calls and crashes

ASSUME StartupAssumption == MaxLines \in Nat /\ MaxTrouble \in Nat

VARIABLES
  reading,       \* the files being read, innermost last, with the next line of each
  repos,         \* the chart repositories helm knows
  table,         \* which table the model follows
  exists,        \* "absent", "creating", "active" or "deleting"
  index,         \* the state of each index of the table
  portal,        \* whether the portal user is stored
  groupsExist,    \* whether the table of groups exists
  described,     \* the indices as last read by DescribeTable
  phase,         \* where the start is
  at,            \* the index it is working on
  trouble,       \* the failures so far
  leftovers      \* whether a start met the remains of an earlier one, see below

databaseVars == <<exists, index, portal, groupsExist>>
startupVars == <<reading, repos, table, databaseVars, described, phase, at, trouble,
                 leftovers>>

Repositories == {"slate", "slate-dev"}
(***************************************************************************)
(* The tables: their indices in the order the code looks after them; how   *)
(* many of these, from the first, are replaced when they lack an attribute *)
(* that the program came to need later; the table in which the start waits *)
(* for a replaced index to be gone; whether it waits for a new index       *)
(* itself, or only for its table.                                          *)
(***************************************************************************)
Table(indices, replaceable, waitsAt, awaitsIndex) ==
  [indices |-> indices, replaceable |-> replaceable, waitsAt |-> waitsAt,
   awaitsIndex |-> awaitsIndex]

InitializeUserTable == Table(<<"ByToken", "ByGlobusID", "ByGroup">>, 2, "groups", TRUE)
InitializeGroupTable == Table(<<"ByName">>, 1, "groups", TRUE)
InitializeClusterTable == Table(<<"ByGroup", "ByName", "GroupAccess">>, 2, "clusters", TRUE)
InitializeInstanceTable == Table(<<"ByGroup", "ByName", "ByCluster">>, 0, "instances", FALSE)
InitializeSecretTable == Table(<<"ByGroup", "ByCluster">>, 0, "secrets", FALSE)
InitializeMonCredTable == Table(<<>>, 0, "moncreds", FALSE)
InitializeVolumeTable == Table(<<"ByGroup", "ByCluster">>, 0, "volumes", FALSE)

InitializeTables ==
  [users |-> InitializeUserTable, groups |-> InitializeGroupTable,
   clusters |-> InitializeClusterTable, instances |-> InitializeInstanceTable,
   secrets |-> InitializeSecretTable, moncreds |-> InitializeMonCredTable,
   volumes |-> InitializeVolumeTable]

This == InitializeTables[table]
WaitsElsewhere == This.waitsAt # table
Count == Len(This.indices)
Positions == 1..Count
UnderChange == \E i \in Positions : index[i] \in {"creating", "deleting"}

-----------------------------------------------------------------------------
(* The database works on its own.                                          *)

tableReady ==
  /\ exists = "creating" /\ exists' = "active"
  /\ index' = [i \in Positions |-> "active"]
  /\ UNCHANGED <<portal, groupsExist>>

tableGone ==
  /\ exists = "deleting" /\ exists' = "absent"
  /\ index' = [i \in Positions |-> "none"]
  /\ portal' = FALSE /\ UNCHANGED groupsExist

indexReady(i) ==
  /\ exists = "active" /\ index[i] = "creating"
  /\ index' = [index EXCEPT ![i] = "active"]
  /\ UNCHANGED <<exists, portal, groupsExist>>

indexGone(i) ==
  /\ exists = "active" /\ index[i] = "deleting"
  /\ index' = [index EXCEPT ![i] = "none"]
  /\ UNCHANGED <<exists, portal, groupsExist>>

Database ==
  /\ tableReady \/ tableGone \/ \E i \in Positions : indexReady(i) \/ indexGone(i)
  /\ UNCHANGED <<reading, repos, table, described, phase, at, trouble, leftovers>>

-----------------------------------------------------------------------------
(* The configuration.                                                      *)

goto(p) == phase' = p
fatal == goto("stopped") /\ reading' = <<>>
Fault == trouble < MaxTrouble /\ trouble' = trouble + 1
FaultOr(reason) == (reason /\ UNCHANGED trouble) \/ Fault

Top == reading[Len(reading)]
Advanced == [reading EXCEPT ![Len(reading)].line = @ + 1]
Included(f) == Append(Advanced, [file |-> f, line |-> 1])
parsing == UNCHANGED <<repos, table, databaseVars, described, at, trouble, leftovers>>

(* parseFile: an option is taken over, an included file is read at once    *)
(* unless it is being read already; a file ends after at most MaxLines.    *)
parseFile ==
  /\ phase = "config" /\ reading # <<>> /\ parsing
  /\ \/ reading' = SubSeq(reading, 1, Len(reading) - 1) /\ goto("config")
     \/ Top.line <= MaxLines /\ reading' = Advanced /\ goto("config")
     \/ /\ Top.line <= MaxLines
        /\ \E f \in Files :
             IF \E i \in DOMAIN reading : reading[i].file = f
             THEN fatal
             ELSE reading' = Included(f) /\ goto("config")

(* The certificate and its key go together, ports must be numbers.         *)
checkOptions ==
  /\ phase = "config" /\ reading = <<>>
  /\ \/ goto("helm") /\ UNCHANGED trouble
     \/ Fault /\ goto("stopped")
  /\ UNCHANGED <<reading, repos, table, databaseVars, described, at, leftovers>>

(* helm must be there; the repositories it does not know are added.        *)
initializeHelm ==
  /\ phase = "helm"
  /\ \/ repos' = Repositories /\ goto("describe") /\ UNCHANGED trouble
     \/ Fault /\ goto("stopped") /\ \E added \in SUBSET Repositories : repos' = repos \cup added
  /\ UNCHANGED <<reading, table, databaseVars, described, at, leftovers>>

-----------------------------------------------------------------------------
(* One table.                                                              *)

Remains ==
  \/ exists = "deleting" \/ \E i \in Positions : index[i] = "deleting"
  \/ table = "users" /\ exists # "absent" /\ ~portal
rest == <<reading, repos, table>>

describeTable ==
  /\ phase = "describe"
  /\ \/ /\ described' = index /\ at' = 1
        /\ leftovers' = (leftovers \/ Remains)
        /\ goto(IF exists = "absent" THEN "create" ELSE "outdated")
        /\ UNCHANGED trouble
     \/ Fault /\ goto("stopped") /\ UNCHANGED <<described, at, leftovers>>
  /\ UNCHANGED <<rest, databaseVars>>

createTable ==
  /\ phase = "create"
  /\ \/ /\ exists' = "creating" /\ index' = [i \in Positions |-> "creating"]
        /\ goto("awaitTable") /\ UNCHANGED trouble
     \/ Fault /\ goto("stopped") /\ UNCHANGED <<exists, index>>
  /\ UNCHANGED <<rest, portal, groupsExist, described, at, leftovers>>

waitTableReadiness ==
  /\ phase = "awaitTable"
  /\ \/ /\ exists = "active" /\ UNCHANGED trouble
        /\ goto(IF table = "users" THEN "portal" ELSE "serving")
     \/ Fault /\ goto("stopped")
  /\ UNCHANGED <<rest, databaseVars, described, at, leftovers>>

(* The portal's account, which every other account depends on.  Without it *)
(* the table is deleted, so that the next start tries again; the deletion  *)
(* may fail, and takes time.                                               *)
injectPortalUser ==
  /\ phase = "portal"
  /\ \/ portal' = TRUE /\ goto("serving") /\ UNCHANGED <<exists, trouble>>
     \/ /\ Fault /\ goto("stopped") /\ UNCHANGED portal
        /\ exists' \in {"deleting", exists}
  /\ UNCHANGED <<rest, index, groupsExist, described, at, leftovers>>

(* An index that lacks an attribute is deleted first.                      *)
dropIndex ==
  /\ phase = "outdated" /\ at <= This.replaceable
  /\ IF described[at] # "stale"
     THEN at' = at + 1 /\ goto("outdated") /\ UNCHANGED <<index, trouble>>
     ELSE \/ ~UnderChange /\ index' = [index EXCEPT ![at] = "deleting"] /\ goto("awaitDeleted")
             /\ UNCHANGED <<at, trouble>>
          \/ FaultOr(UnderChange) /\ goto("stopped") /\ UNCHANGED <<index, at>>
  /\ UNCHANGED <<rest, exists, portal, groupsExist, described, leftovers>>

waitUntilIndexDeleted ==
  /\ phase = "awaitDeleted"
  /\ WaitsElsewhere \/ index[at] = "none"
  /\ \/ (WaitsElsewhere => groupsExist) /\ at' = at + 1 /\ goto("outdated")
        /\ UNCHANGED trouble
     \/ FaultOr(WaitsElsewhere /\ ~groupsExist)
        /\ goto("stopped") /\ UNCHANGED at
  /\ UNCHANGED <<rest, databaseVars, described, leftovers>>

(* What would miss the index just deleted: to go on with the old description. *)
staleDescription ==
  /\ phase = "outdated" /\ at > This.replaceable
  /\ at' = 1 /\ goto("missing")
  /\ UNCHANGED <<rest, databaseVars, described, trouble, leftovers>>

(* The description is read again if an index was deleted; a failure to do  *)
(* so is not noticed, and leaves a description without any index.          *)
refreshDescription ==
  /\ phase = "outdated" /\ at > This.replaceable
  /\ at' = 1 /\ goto("missing")
  /\ IF \A i \in Positions : described[i] # "stale"
     THEN UNCHANGED <<described, trouble, leftovers>>
     ELSE \/ described' = index /\ leftovers' = (leftovers \/ Remains) /\ UNCHANGED trouble
          \/ Fault /\ described' = [i \in Positions |-> "none"] /\ UNCHANGED leftovers
  /\ UNCHANGED <<rest, databaseVars>>

addIndex ==
  /\ phase = "missing" /\ at <= Count
  /\ IF described[at] # "none"
     THEN at' = at + 1 /\ goto("missing") /\ UNCHANGED <<index, trouble>>
     ELSE /\ UNCHANGED at
          /\ \/ /\ index[at] = "none" /\ ~UnderChange /\ exists = "active"
                /\ index' = [index EXCEPT ![at] = "creating"]
                /\ goto("awaitIndex") /\ UNCHANGED trouble
             \/ /\ FaultOr(index[at] # "none" \/ UnderChange \/ exists # "active")
                /\ goto("stopped") /\ UNCHANGED index
  /\ UNCHANGED <<rest, exists, portal, groupsExist, described, leftovers>>

waitIndexReadiness ==
  /\ phase = "awaitIndex"
  /\ \/ (This.awaitsIndex => index[at] = "active") /\ at' = at + 1 /\ goto("missing")
        /\ UNCHANGED trouble
     \/ Fault /\ goto("stopped") /\ UNCHANGED at
  /\ UNCHANGED <<rest, databaseVars, described, leftovers>>

startServing ==
  /\ phase = "missing" /\ at > Count
  /\ goto("serving")
  /\ UNCHANGED <<rest, databaseVars, described, at, trouble, leftovers>>

(* The process dies.                                                       *)
crash ==
  /\ phase # "stopped"
  /\ Fault /\ fatal
  /\ UNCHANGED <<repos, table, databaseVars, described, at, leftovers>>

startAnew ==
  /\ phase = "stopped"
  /\ \E f \in Files : reading' = <<[file |-> f, line |-> 1]>>
  /\ goto("config")
  /\ UNCHANGED <<repos, table, databaseVars, described, at, trouble, leftovers>>

(* The database as earlier versions of the program left it: the table may  *)
(* be missing, and of its indices some, or some attributes.                *)
StartupInit ==
  /\ reading = <<>> /\ phase = "stopped" /\ at = 1 /\ trouble = 0 /\ leftovers = FALSE
  /\ repos \in SUBSET Repositories
  /\ table \in DOMAIN InitializeTables
  /\ exists \in {"absent", "active"}
  /\ index \in {x \in [Positions -> {"none", "active", "stale"}] :
                  /\ exists = "absent" => \A i \in Positions : x[i] = "none"
                  /\ \A i \in Positions : x[i] = "stale" => i <= This.replaceable}
  /\ portal = (exists = "active" /\ table = "users")
  /\ groupsExist \in (IF exists = "absent" THEN {FALSE} ELSE BOOLEAN)
  /\ described = index

StartStep ==
  \/ parseFile \/ checkOptions \/ initializeHelm
  \/ describeTable \/ createTable \/ waitTableReadiness \/ injectPortalUser
  \/ dropIndex \/ waitUntilIndexDeleted \/ refreshDescription \/ addIndex \/ waitIndexReadiness
  \/ startServing

StartupNext == StartStep \/ crash \/ startAnew \/ Database

StartupSpec == StartupInit /\ [][StartupNext]_startupVars

-----------------------------------------------------------------------------
(* When the server answers requests it has what they rely on: both chart   *)
(* repositories, the table with every index that is queried, complete or   *)
(* being built, none of them without the newer attributes, and the portal's*)
(* account.  The exception are starts that met remains of an earlier one,  *)
(* an index or a table under deletion or users without the portal's        *)
(* account: the code takes what is being deleted for present.  The first   *)
(* start after an upgrade of the table of users is one, since it waits for *)
(* the deletion in the wrong table.                                        *)
ServingReady ==
  phase = "serving" /\ ~leftovers =>
    /\ repos = Repositories
    /\ exists \in {"active", "creating"}
    /\ \A i \in Positions : index[i] \in {"active", "creating"}
    /\ table = "users" => portal

StartOver == phase \in {"serving", "stopped"}
=============================================================================

# TLA+ models of the SLATE API server and client

SLATE federates edge Kubernetes clusters. Its API server (`src/src`, C++) keeps
users, groups, clusters, application instances, secrets, volume claims and
monitoring credentials in DynamoDB tables, caches what it reads in memory,
operates the clusters through `kubectl` and `helm`, and serves a REST API from a
pool of threads. A command line client (`src/src/client`) sends the requests and
prepares clusters for registration. This directory holds TLA+ modules of both, the
TLC configurations that check them, and TLAPS proofs of results that hold for any
number of threads, users, clusters, groups, objects and credentials.

Abbreviations: `PS` is `src/src/PersistentStore.cpp`, `PH`
`src/include/PersistentStore.h`; `AC`, `AI`, `CC`, `GC`, `UC`, `SC`, `VC`, `MC` are
`ApplicationCommands.cpp`, `ApplicationInstanceCommands.cpp`, `ClusterCommands.cpp`,
`GroupCommands.cpp`, `UserCommands.cpp`, `SecretCommands.cpp`, `VolumeClaimCommands.cpp`
and `MonitoringCredentialCommands.cpp` in `src/src`.

## The system

The REST layer (`slate_service.cpp`) binds a route to a handler function and runs
handlers on several threads (crow's `multithreaded()`). A handler in
`*Commands.cpp` authenticates the caller, looks up what the request is about,
checks permissions, changes state through `PersistentStore`, and runs `kubectl` and
`helm` in child processes. No handler holds a lock; there is no transaction across
database calls. What ties concurrent requests together is

* the tables: single-item reads and writes, a few of them conditional;
* the caches: libcuckoo hash maps, whose operations are atomic one by one, and
  `concurrent_multimap`, which groups records in categories with an expiry of
  their own. A record is a hit until its validity ends (`CacheRecord`, PH:48-98);
* the clusters, the DNS zone and the chart repositories, which others use as well;
* the table of child processes and the thread that reaps them.

| Component | State | Operations | What is hard | What makes it correct |
| --- | --- | --- | --- | --- |
| Monitoring credentials (PS:3378-3495, 4319-4593, CC, MC) | pool items `inUse`, `revoked`; the credential on each cluster item; `clusterCache`, `clusterByNameCache` | add, get (allocate on demand), remove, revoke, delete; cluster create, update, delete | two allocations race; an update whose answer is lost; whole-record writes from stale copies; two-step removal | a key belongs to one cluster at most, for ever; nothing leaks but what a failing setup drops; the pool's flags and the cluster items agree |
| Users and authentication (PS:1166-1466, UC) | user items; caches by ID, token, Globus ID | authenticate, get, find, create, update, replace token, delete | stale fills of a cache, lost updates, check-then-create | a token authenticates its user or nobody; admins are appointed by admins; withdrawn tokens stop working |
| Memberships (PS:1500-1930, GC, UC) | membership items; `userByGroupCache`, `groupByUserCache`, `groupCache` | check, add, remove, create, edit, delete user, delete group, two listings | listings filled record by record while memberships change; cascades with failing steps | only members or admins add members; removed members are refused; listings served from a cache are complete |
| Group records (PS:1800-2260, GC) | group items, `groupCache`, `groupByNameCache`, the listing's expiry | create, find by ID or name, list, edit, delete | a name is looked up before it is stored; a listing fills the cache while groups change | a listing misses no group; a name leads to the group that has it |
| Access of groups to clusters (PS:2515-2518, 2710-3030, CC:1550-1600) | access items, wildcard item; positive and negative records in `clusterGroupAccessCache` | check, check wildcard, list, grant, revoke, delete cluster | a positive and a negative record about the same fact written by racing requests | nobody is admitted without a grant; cache and table agree; a change takes effect |
| Application permissions (PS:3035-3260) | the set of applications a group may use on a cluster | ask, allow, deny | read-modify-write of the set; failed read taken for "none" | a register; overlapping changes lose nothing that nobody named |
| Cluster records, kubeconfig files, locations (PS:2262-2700, 3260-3380) | cluster items, caches, a file per cluster, location items | add, find, update, remove, list, locations | cache entry published before its file is written; two files written out of order | record, file, listing and locations are the stored ones; commands end up with the stored config |
| Instances, secrets, volume claims (PS:3542-5010, AC, AI, SC, VC) | items, three or four caches per kind, the object in Kubernetes | create, update, restart, scale, copy, delete, get, list | a record before or after its object; a name free when asked and taken when used; two writes without a transaction | names are unique; what runs is recorded and the reverse; listings are complete |
| Deletion cascades (GC:573-, CC:1037-) | all of the above | delete group, delete cluster | many steps, each may fail | nothing is left without an owner |
| Request handlers and routes (`*Commands.cpp`, `slate_service.cpp`) | none of their own | 65 handlers | the order of checks and changes, taking back after a failure | a change is made only by someone entitled to it; a refused request has changed nothing |
| Server start, tables, migration (`slate_service.cpp`, PS:370-1100) | configuration, chart repositories, tables and indices | read configuration files, add repositories, create, delete, recreate | a crash between two steps; a database that works in the background | the server answers only when it has what requests rely on; a start ends |
| Child processes (`Process.cpp`) | processTable, handles, pipes, the signal pipe | start, read, wait, reap | exit status before the handle; inherited pipes; full pipes | the status reaches the handle exactly once; a command ends |
| DNS names (`DNSManipulator.cpp`, CC) | address and text records of a name | look, set, remove | others change the zone between look and change | names of others are left alone |
| Catalogue of applications (PS:5013-5137, AC:978) | records of the charts helm found, a time for the category | look up, list, update | lookups of other versions and updates overlap; records and category expire apart | the application asked for is found; a listing is no older than the last update |
| Inspection (CC:2150-, AI) | none | verify, ping, pods and services of an instance | the cluster and the store change meanwhile | what is reported is there |
| Archives and upgrade (`Archive.cpp`, `Client.cpp`) | archive, temporary files, the installed program | pack, compress, decompress, unpack, replace the program | field lengths, block boundaries, interruption between two steps | what is packed is unpacked; the program is the old or the new one |
| Client commands (`Client.cpp`) | command, questions asked, requests | 52 commands | lost answers, declined confirmations, guessed IDs | success means done; giving up means nothing changed |
| Client's output and texts (`Client.cpp`, `Utilities.cpp`, `Entities.cpp`) | none | tables, versions, amounts, base64, identifiers | boundaries of widths, blocks and units | conversions keep their meaning |
| Progress display (`Client.h`, `Client.cpp`) | nesting, queue, second thread | open, close, hide, report, stop | a message already taken when the display stops | at most one late message; the thread ends |
| Cluster registration and components (`ClusterRegistration.cpp`, `cluster_components/`) | objects in the cluster | prepare, register, ingress controller, roles | any command fails and is run again | what is registered is prepared; waiting ends |
| Monitoring of a cluster (`PrometheusMonitoring.cpp`) | four objects in the cluster, the credential | install, remove, upgrade | failure between two steps | monitoring runs with the cluster's own credential |

`PROJECT.json` lists every component with its status, and the hazards of this code
line by line with the properties that cover them.

## Modules

| Module | Models |
| --- | --- |
| `MonitoringCredentials` (`...Proofs`) | the credential pool and the cluster records that hold credentials |
| `UserStore` (`...Proofs`) | accounts, tokens, the three user caches, authentication and the user endpoints |
| `GroupMembership` (`...Proofs`) | groups, memberships and their caches |
| `GroupRecords` (`RecordProofs`) | the records, names and listing of groups |
| `ClusterAccess` (`...Proofs`) | the groups admitted to one cluster, with positive and negative cache records |
| `PermissionRegister`, `AppPermissions` (`RecordProofs`) | what application permissions promise, and how the server keeps them |
| `ClusterRecords` (`RecordProofs`) | one cluster's item, cached record, kubeconfig file, listing and locations |
| `Workloads` (`WorkloadProofs`) | instances, secrets and volume claims with their records, caches and objects in Kubernetes, and the cascades |
| `Multimap` (`RecordProofs`) | `concurrent_multimap`, against the set of pairs it stands for |
| `Handlers`, `Server`, `Client` (`RequestProofs`) | every handler as a sequence of steps; a request; a command of the client |
| `Catalogue` (`RecordProofs`) | what helm found in a chart repository, as the server remembers it |
| `Inspection` (`RecordProofs`) | verifying a cluster, the pods and services of an instance |
| `Names` (`RecordProofs`) | the DNS name of a cluster |
| `Startup`, `Processes` (`PlatformProofs`) | the start of the server; its child processes |
| `Registration`, `Monitoring` (`PlatformProofs`) | preparing a cluster; its monitoring |
| `Archives`, `Texts`, `Output`, `Progress` (`PlatformProofs`) | archives and upgrade; conversions; output options; the progress display |
| `MC...` | instances for TLC: symmetry sets, named model values, and two unions of parts that share no state (below) |

Modules that model the store have the same shape. `Requests` is a set of server
threads; `req[r]` (or `serving[r]`, `clusterCall[r]`, `permCall[r]`) is the request
thread `r` executes: the endpoint, the place in the handler, its operands and the
copies of records it has read. One step is one database call, one cache operation or
one command together with the computation up to the next one, so that any other
thread may act between reading a record and caching it, between two writes, and
between a write and the cache update that follows it.

What the modules assume of their surroundings:

* A DynamoDB call is atomic and reads are consistent. A call can fail (at most
  `MaxFaults` times per behaviour, under whichever name the module has for it),
  without effect or, for writes, after having taken effect with the answer lost.
  The handler then takes the code's error path.
* A cache probe that misses and the database read that follows it are one step:
  nothing the handler does in between depends on other state. The fill of the
  cache is always a step of its own.
* A cache record may expire at any time after it was stored. Validity periods are
  not modelled, which admits more behaviours than real ones.
* Random IDs and tokens are never issued twice.
* Payloads (emails, descriptions, manifests) are left out when no branch depends on
  them. Wording, logging and tracing are left out.

### The store

`MonitoringCredentials`. `creds` is the pool table, `items` the cluster items with
their credential, `byID` and `byName` are `clusterCache` and `clusterByNameCache`.
History variables: `minted` (cluster IDs issued), `issued` (keys ever added), `served`
(which key was answered for which cluster), `reported` (keys in the log entry that
asks the operators for help). `allocateMonitoringCredential` is `scanAvailable` (the
Scan that collects candidates) and `acquireCandidate` (the conditional update, again
and again, back to the Scan when all candidates are lost). `updateCluster` writes back
the record read at the start of the request, the credential included (`putCluster`, or
`keepRecord` when it is refused or has nothing to write). A creation, and an update with a new
kubeconfig, end in `ensureClusterSetup`: `checkAccess`, `rewriteCluster` (the whole record once
more, its outcome ignored) and `checkHelm`; where a check fails the record may be removed, and
`abandoned` is the history of the keys that such records named. `FreshKeys` says
whether operators add only keys that are not stored yet; the code does not check it.

`UserStore`. `table` is the user table, `byID`, `byToken`, `byGlobus` are the caches. A
lookup that misses fills all three caches, each in its own step. `putUser` is `addUser`
or `updateUser` and writes the whole record from the handler's copy; `removeUser` looks
up the keys of the secondary caches in the main one, erases the three entries and then
deletes the item. `Portal` is the bootstrap user of the configuration, who is never
deleted.

`GroupMembership`. `member` is the set of membership items; `byGroup` and `byUser` are the
two category caches with the values `known`, those still `live`, and whether the category
is `valid`, that is, counts as complete. `userInGroup` (the authorization check of most
endpoints), both listings, adding and removing, creation with the founder, editing, and the
cascades `deleteUser` and `removeGroup` are sequences of actions.

`GroupRecords`. `nameOf` is the group table, in which two groups may have one name, as the
database allows; `listing` says whether `groupCache` counts as the listing of all groups.

`ClusterAccess`. One cluster, its access `items` (a group, or `All` for the wildcard), and
`allow`, `deny`: the positive and negative records of `clusterGroupAccessCache` under the
cluster's ID and name. Grant and revoke erase the contrary record, write, and add their own
record, each a step; a check asks for the wildcard and then for the group.

`AppPermissions` is one group's permissions on one cluster: the item, its cache entry, and
requests that read the set, change it and write it back whole. `PermissionRegister` is what
they promise: a register that one request at a time grants and withdraws from.
`Register == INSTANCE PermissionRegister WITH ...` maps the item to the register's contents,
and to `Unspecified` from the moment two changes overlap, a read fails, or a write is made
without an answer, until all requests are over and the cached set is gone or the table's: this is
how far the promise goes. A write that is refused disturbs nothing. `PermissionsKept` checks the refinement and, for
the unspecified stretches but those with a failed read, that an application nobody named keeps
its permission.

`ClusterRecords`. The kubeconfig of a cluster is a number (the `n`th config stored). The item,
the cached record, the file on disk and the listing's validity are separate variables, because
`addCluster`, `updateCluster` and `findClusterByID` write them one after another; locations
have an item and a cache of their own. A write may be refused, or made without an answer, which
leaves the cached record, the file and the listing behind the item; `overlapped` then stays set until
what is valid agrees again with no request in progress, as it does after overlaps and failed reads
and deletions.

`Workloads`. One module for the three kinds, which have tables and caches of their own and
the same structure: `kind` is chosen initially and decides what differs (two items and a
configuration for instances, the category caches each kind has, the order of record and
object, what is undone after a failure). `table` is the recorded objects, `main` and `cat`
the caches, `clusters` and `groups` those that exist. Kubernetes knows an object by its kind,
cluster, group and name (`Slot`), not by the ID of its record; `holder` is a history variable
that remembers for which record each object was deployed, `struck` one that says whether an
object was ever deleted on behalf of another record. `deleteGroup` and `deleteCluster` are loops over what the
listings return.

`Multimap`. Every operation of the template, beside `pairs`, the pairs put in and not taken
out.

### Requests and commands

`Handlers` writes each handler as a sequence of steps: `Need` (a question, with the answer
given when it goes against the request, and what is taken back first), `Do` (a change, with
the answer when it fails), `DoUnless`, `Try` (a change whose failure is ignored). A question
is about a *fact*; its answer is chosen when the step runs, since other requests change the
world meanwhile. `Server` runs one request: the route chooses the handler, the steps run
until one answers. `Client` runs one command: its own checks, the confirmation of the user,
requests to `Server`, and the guess of a better instance ID after a 404 (`MaxFixups` times).
The connection may fail while the client waits, with the server carrying on.

### The rest of the server and the client

`Startup` follows the reading of configuration files (a file may include another),
the chart repositories, and the creation or migration of one table with its indices, chosen
initially. The database works in the background; any call may fail and the process may crash
anywhere (`MaxTrouble`), after which it starts again over what is there.

`Processes`: callers of `runCommand`, their children, the pipes with their capacity, SIGCHLD
and the reaper. `Inherits` says whether children hold the pipes of other calls open, as they
do from the 16th descriptor on. A signal that comes just before the reaper resets its flag is
lost (`signalLost`).

`Catalogue`: requests that look up, list or update while records expire; helm's copy of the index
is a version for each of two charts, one of whose names is part of the other.

`Inspection`, `Names`: the steps of the inspection, or of setting and removing a name, beside a
bounded number of changes made by others.

`Registration`, `Monitoring`: the client's commands on a cluster, with the objects in the
cluster, the controllers that work there, and any command failing. A failed command is followed
by any other, the same one included.

`Archives` models a name by its length and a file by its size; field, block and buffer sizes are
constants, which TLC gets in miniature, so that every alignment happens. An upgrade may be
interrupted anywhere. A directory is archived and listed in one step, and each entry it lists is
archived or queued in a step of its own, in any order. `Texts` applies one conversion to one sample and compares the result with
a definition of what it should be. `Output` parses the columns of an option and orders a table.
`Progress` is the display with its second thread and a clock.

## Runs

`sequential` runs execute one request at a time with every endpoint and with failing
calls: they ask whether the endpoints, each correct by itself, fit together.
`concurrent` runs execute two threads at a time over the operations that compete: they
ask what survives every interleaving. `groups` does both. `services` and `platform` are unions: the parts they
name share no state, so a behaviour is one of one part, which the initial state chooses,
while the others stand still in an initial state. `services` holds parts of which only
safety is asked, `platform` those that wait for something, and access to a cluster.

| Run | Instance | Shows |
| --- | --- | --- |
| `cred_concurrent` | 2 threads, 2 clusters, 1 key, after a restart; both get, one updates one of the clusters, the other revokes | `NoSharedCredential`, `ServedToOneCluster`, `NeverBackInPool` under every interleaving; `AllocationEnds`: the retry loop terminates |
| `cred_sequential` | 1 thread, 2 clusters, 2 keys, all endpoints, up to 2 failed calls | the inductive invariant `IInv` also with failures; without failures `PoolAccounted`: flags, cluster records and both caches agree, but for keys whose records a failing setup removed |
| `cred_update_removes` | 1 thread, 1 cluster, 1 key; get, create, update | violation of `UpdateKeepsRecord` (a finding below) |
| `user_sequential` | 1 thread, 2 users, 3 tokens, 2 Globus IDs, all endpoints, up to 1 failed call | `AccountsAgree`: replaced tokens and deleted users are refused at once, the caches agree, Globus IDs are unique |
| `user_concurrent` | 2 threads, 2 users, 2 tokens, 2 Globus IDs; authenticate, create, replace token | `TokenIdentity`, `AdminsAppointed` under every interleaving; `WithdrawalTakesEffect` |
| `user_lost_update` | 2 threads, 1 user, 2 tokens; create, update, replace token | violation of `ReplacedTokenNotStored` (a finding below) |
| `groups` | 2 threads; either 1 user and an administrator, 2 groups, all endpoints, one request at a time, up to 1 failed call; or 2 users, 1 group, overlapping requests to add, remove and list members | `MembershipsAgreeAlone`: `MembershipsAgree` of requests one at a time, that is, a cache never vouches for a membership that is not stored, and without failures deletions leave no membership and cached listings are complete; `OnlyMembersAdmit`, `UserListingsComplete` under every interleaving |
| `access_concurrent` | 2 threads, 1 group and the wildcard; check, grant, revoke, delete the cluster | `OnlyGrantedAdmitted` under every interleaving; `AccessSettles`: a final change takes effect for good |
| `workload_sequential` | 1 thread, 2 objects, 2 names, 2 clusters, all kinds, all endpoints, cascades, up to 1 failed call | `RecordsKept`: caches and listings agree with the records; `ClustersAgree`: what runs is what is recorded, and a deleted group or cluster leaves no instance or secret |
| `workload_concurrent` | 2 threads, 2 secrets or volume claims of one name | `RecordsRun`: every record has the object deployed for it, so of two creations one survives; `RunningRecorded`: what exists in Kubernetes is recorded |
| `services` | see `MCServices.cfg` | one property per part: `NothingHalfway`, `EffectsAuthorized`, `SuccessMeansDone` (requests and commands), `PermissionsKept` (2 threads, the refinement), `GroupRecordsAgree` (2 threads), `ConversionsRight`, `InspectionRight`, `CatalogueRight` (2 threads and 3 requests), `NamesOfOthersKept` (3 tasks, 2 outside changes), `OutputRight`, `MapHoldsPairs` |
| `platform` | see `MCPlatform.cfg` | `ServingReady`, `StatusPassedOnce`, `RecordsAgree`, `RegisteredPrepared`, `MonitoringCredentialValid`, `TransfersWhole`, `AtMostOneLate`, one for each part, and `AccessAnswersAgree` (access one request at a time, 2 failed calls); `ServerSettles`, `ClientEnds`: what is waited for comes to an end |

Bounds. Two threads are the smallest number that races. A third thread would add a
second competitor of the same kind, and the invariants that matter most are proved for
any number of threads. One key and two clusters is the instance in which sharing can
happen; two keys and two clusters let a credential be replaced by another (`cred_sequential`).
`cred_concurrent` starts from what a restarted service finds (`Restarted`: two clusters and an
available key are stored, the caches are empty), so that creations need not overlap with the rest, and lets one
thread update one cluster while the other revokes (`Divided`): a second updater, or a second cluster
updated, writes a copy in the same way, and the two race as they would the other way round. That creations, removals and any number of keys change nothing about the safety
properties is proved. Three tokens
allow a replacement and a second account at once. A listing of a user's groups needs two
groups to be incomplete, one of a group's members two users; the run `groups` has an instance of
each (`MCGroupMembership`: the initial state chooses one). Two failed calls reach a failure in the error path of a failure. Two objects of one
name are a collision, two on different clusters a copy; `MCWorkloads` leaves out the
combination of two names on two clusters, where the objects do not meet (`MCInit`), and failing
calls while both clusters exist (the action constraint `FaultsTogether`). The constants of `Archives` (fields of 2 and 3 bytes,
blocks of 2, buffers of 4) keep the order of the real ones and put every boundary within
reach; names are at most one field long. The samples of `Texts` are the boundaries: empty, one
block and its neighbours, 9 and 10, 1023 and 1024, a cell as wide as its column. All bounds are
CONSTANTS. Deadlock is checked in every run but the two unions, whose parts end: a command
finishes, a start serves, a conversion is done.

Fairness. `FairSpec` assumes that a thread with a request goes on executing it (weak
fairness of `Proceed(r)`): handlers hold no locks and the operating system runs every
thread. `UserStore` and `ClusterAccess` also assume that cache records expire: every record
carries a finite validity and the clock advances. `PlatformFairness` says, each while its
part is the one that moves: the start and the database go on; the reaper, the callers and the
children run; requests on a cluster's record go on and the record expires; the client and the
cluster's controllers go on; unpacking goes on; the display's thread runs and scopes are left
(they are C++ objects). Nothing is assumed of clients and users: no request or command need
come. No fairness makes a call succeed; failures are bounded instead. `WithdrawalTakesEffect`,
`AccessSettles` and the last part of `ServerSettles` speak of changes that are for good, since a
client may go on changing its mind.

Several properties are stated "between requests", "unless a call failed" or with a named
exception (`leftovers`, `signalLost`, `OldControllerKept`, `Spinning`, `SplitLate`, `diskFull`, `abandoned`).
`NothingHalfway` speaks of refusals (4xx): a handler may answer 500 after a change, as `updateCluster`
does when the setup fails (CC:1435), which it does not exclude.
These conditions are part of what the code achieves: the next section says what happens
without them.

## Findings

`user_lost_update`. `updateUser` writes the whole record (PS:1371) from a copy read
earlier; a token replaced in between is stored again and accepted, though
`test/TestUserTokenReplacement.cpp:79` says "Requests with revoked tokens should be
rejected".

`cred_update_removes`. `updateCluster` asks `ensureClusterSetup` not to remove the record ("Don't
automatically delete cluster record if we get an error", CC:1435), but only the first check of the
setup heeds that (CC:206): wrong service accounts (CC:228, 250, 276) or a Helm 2 that does not work
(CC:308, 333) delete the record of a cluster that was only to be updated. `removeCluster` knows nothing of
credentials: the one the record named stays in use with no cluster.

## Limits of the code

Met while choosing the conditions of the properties, none of them with a run of its own.

Credentials, users, memberships:

* Adding a monitoring credential whose key is stored already resets `inUse` and `revoked`
  (PS:4352, an unconditional put), and the key is allocated a second time. An unused
  credential that was never revoked can be deleted (PS:4579; PH:557 speaks of revoked ones).
* `internal::removeClusterMonitoringCredential` tests `removed` where it means the result of
  the revocation (CC:1138): a failed revocation is answered with success.
* `setClusterMonitoringCredential` after a concurrent deletion of the cluster stores an item
  without a name (PS:3391). `revokeMonitoringCredential` misses an allocation that has
  acquired the key and not stored it yet (MC:206).
* The by-name entry of a cluster is refreshed only by the lookup forced after the ID entry
  was erased (PS:3406); if that fails, the entry stays stale until it expires.
* A user deleted during an `updateUser` is stored again (PS:1371), an admin flag withdrawn
  during one is restored (UC:475), and a lookup that read a user before the deletion caches it
  afterwards (PS:1210). Two overlapping registrations of a Globus ID both succeed (UC:202).
* When the answer to `replaceUserToken` is lost, the old token is gone and the client has no
  new one (UC:814, `Client.cpp:3103`); the client never checks that it wrote the new token
  (`Client.cpp:3774`).
* `userInGroup` that read a membership before its removal caches it afterwards (PS:1775).
  Memberships are orphaned when a removal fails during `deleteUser` (UC:529) or an addition
  overlaps `removeGroup` (PS:1848). A failed read of an account while listing members caches
  the empty ID and declares the listing complete (PS:1568).
* `createGroup` looks for the name and then stores (GC:296): two overlapping creations store a
  name twice, which `findGroupByName` treats as fatal. `updateGroup` revives a group deleted
  meanwhile (PS:1899).

Access, permissions, clusters:

* `removeCluster` removes the guests that `listGroupsAllowedOnCluster` returns (PS:2516), which
  is the wildcard alone once all groups have access; individual items stay. Asked with a
  cluster's name, the wildcard question is always answered no (CC:1571).
* A failed read of the permissions counts as none, and the next write loses them (PS:3127).
* A cluster is cached before its kubeconfig file is written (PS:2408); a lookup that overlaps a
  deletion puts the record back, and it is listed although it is gone (PS:2619); locations set after a
  deletion leave an item.
* A write of the permissions, of a cluster's record or of its locations that is made but not answered
  (PS:3152, 3230, 2309, 2590, 3361) leaves the cache as it was: until the cached value expires, requests
  answer from it, and a change of permissions writes it back, the unanswered change undone.
* A failed registration at CC:234 leaves the record.
* A failing setup may also remove a record that a request which overlaps it has just given a
  credential (CC:209, 228), and its second write of the record (CC:284) takes back what was changed
  since the handler read it.

Workloads and applications:

* `findApplication` answers with any cached record of the name, whatever version is asked for
  (PS:5026; PH:588 calls it the version to look up); when helm finds only other names it caches an
  application without a name, which listings show (PS:5058).
* `listPersistentVolumeClaimsByClusterOrGroup` marks a cluster's listing complete without having
  inserted the claims (PS:5006); a later deletion of the cluster leaves them. `deleteGroup` removes
  the group first and never deletes volume claims.
* A failed listing is an empty list: the cascades then skip every object.
* Of two overlapping installations of one name the loser's `helm` failure deletes the winner's
  release (AC:672). Deleting a duplicate record removes the other one's object.
* Objects in Kubernetes are deleted by name (SC:610, VC:826). Two deletions of one record that
  overlap with creations of its name take down the object of the newer record: the first frees the
  name, a creation deploys its object, and the second deletes that. Then the record of another
  creation, which Kubernetes would have refused, can also stay, and a name is recorded twice.
  `RecordsRun` excepts these behaviours (`struck`). With two objects there are none in
  which it matters; three objects and three threads show it.
* A restart whose configuration cannot be read deploys the default (AI:1166); an update removes and
  adds the record and ignores both results (AI:1076-1078); a failing namespace during update or
  restart removes the record of the running instance (AI:1022, 1282).
* `verifyCluster` with helm 3 reports every instance missing and takes failed listings for empty
  (CC:2224-2245); `repairCluster` does nothing; when ingresses cannot be read no service is shown
  (AI:292).
* A DNS tag does not tell the record type, and a text record of others is overwritten
  (`DNSManipulator.cpp:115`).

Server and client processes:

* `slate_service.cpp:389` tests `method` where it means the body. Requests the server sends have no
  timeout.
* The start waits for the deletion of an index of the users table in the group table (PS:406, 420).
  A crash after creating the users table leaves no portal account, and a failed refresh of a table's
  description ends the start.
* The reaper can lose a signal (`Process.cpp`, about line 369); a moved handle has an uninitialised
  `hasExitStatus`; from 16 descriptors on children inherit pipes; a child that fills its error pipe
  first is never read.
* Registration that keeps an old controller without resource definitions waits for ever
  (`ClusterRegistration.cpp:217`); removing the ingress controller leaves objects without its label.
* A path split at 156 bytes loses a byte of its prefix (`Archive.cpp:412`; the field has 155);
  decompression spins on truncated data, and on complete data whose trailer meets the end of a block of
  1024 bytes (`Archive.cpp:241-270`), and never verifies the checksum; the
  upgrade does not check that the program was written (`Client.cpp:1020`).
* An older release is offered as an upgrade when the installed one is newer; `compareVersions` is not
  antisymmetric; amounts from 1 TiB on are truncated; wrapping loops when the width equals the
  indentation; an address with a path before `@` is accepted (`Client.cpp:3837`).
* The output option `jsonpointer` cannot be reached (`Client.cpp:175`), although
  `docs/client_manual.md:188` describes it; columns of a file are read past the end when it is short.
* The progress queue delivers the latest message first.

## Proofs

`tlapm` checks the proof modules; nothing in them is assumed beyond the named ASSUMEs of
the component modules. These say that model values are distinct from the elements of the
sets (`All` is no group, `None` no user, `Missing` no config) and that bounds such as `MaxFaults`
are natural numbers; where a module counts requests in progress, that threads are finitely many
(`ClusterAssumption`, `PermissionAssumption`, `NamesAssumption`); of `Inspection` that no namespace is called
as the tag of releases (`InspectionAssumption`; the namespace of a group begins with `slate-group-`); of `Archives` that sizes are not 0
and the trailer of compressed data is shorter than a buffer (`ArchiveAssumption`); and of `Workloads` that objects are
finitely many, each with its group (`WorkloadAssumption`; IDs have a fixed length). The theorems about credentials
have the hypothesis `FreshKeys`, that administrators add only keys that were never added before;
without it a key can be added again and shared (first limit above). The sets of threads, clusters,
keys, users, tokens, groups, names, calls and so on are arbitrary, and `MaxFaults` is any number.

Every safety theorem follows from an inductive invariant of its module; each was checked by TLC on
a small instance before it was proved. There is one lemma per action or group of actions.

`MonitoringCredentialsProofs`

* `CredentialInvariant`: `Spec => []IInv`. `NoSharedCredential` is not inductive: a
  credential may be written to a cluster record from a request's copy, which was
  read from a cache, which was filled from another request's copy. `IInv`
  therefore says it of all places at once: a key is *bound* to a cluster when the
  record, a cache, the memory of a request or an answer already given links them
  (`Bound`); a key is bound to one cluster at most (`Exclusive`), and a bound key is not
  available (`BoundTaken`). New links arise only in `acquireCandidate`, from an
  available key, in the same atomic update that makes it unavailable. Every other
  step copies links that exist, which the lemmas state as `NoNewLink`.
  `TypeCorrect`, `NoSharing` and `ServedOnce` follow from `IInv`; `NeverBack` is the action
  property `NeverBackInPool`.
* `AccountingInvariant`: one request at a time (`OneThread`), and unless a database call failed. A key
  in use is held by a record or `InHand`, on the way from the pool to a record or from a record to its
  revocation, or it was `abandoned` with a record that a failing setup removed (`PoolKept`); the caches have what the table has but for the record the request has
  written and still refreshes (`CachesKept`); and at each place the request knows what the record,
  the cache entries and the key it works with are (`KnowsItem`, `KnowsCaches`, `KnowsKey`), which is why none of
  its conditional updates is refused. That a key detached from one cluster is held by no other comes
  from `IInv`. `PoolAccounting` is `PoolAccounted`.

`UserStoreProofs`

* `UserInvariant`: `Spec => []IInv`. Every copy of a user record, in the table, in a
  cache or in a request's memory, is *genuine*: its token was generated for its user
  and its admin flag is set only if the user was appointed. Writes derive a record from
  a genuine copy, and both histories only grow, so stale copies stay genuine. This
  is why `TokenIdentity` (theorem `TokensIdentify`) and `AdminsAppointed`
  (`OnlyAppointedAdmins`) survive the lost updates of the first finding. `UserTypes` is type
  correctness.
* `AgreementInvariant`: one request at a time (`OneThread`). Whatever calls fail, whoever a cache has is
  in the table under the same Globus ID, and in `userCache`, where `removeUser` looks for the record it
  uncaches (`Filed`), and a user being removed has left the caches first (`Knows`). Tokens can only be
  spoken of as long as no call failed (`TokensFiled`): a replacement that fails halfway leaves the old
  token cached. Then cached tokens are those of the table but for the one being replaced, which its request
  still drops (`KnowsTokens`). `AccountsAgreement` is `AccountsAgree`.

`ClusterAccessProofs`

* `AccessInvariant`: `Spec => []IInv`. What is stored, cached or about to be cached
  as access was granted at some time (`Vouched`). `OnlyGranted` is
  `OnlyGrantedAdmitted`.
* `AnswersInvariant`: one request at a time (`OneThread`). Whatever calls fail, a positive record is of a
  group that has access and a negative one of a group that has not (`AnswersRight`): a change erases the
  contrary record before it stores or removes the item and records the outcome after it, so that
  a failed call leaves at most nothing remembered. In between, the request knows what the table has
  (`Certain`). Unless a call failed or all groups had access, a deletion has in hand every item that
  remains (`Removes`). `AccessAnswers` is `AccessAnswersAgree`.

`GroupMembershipProofs`

* `MembershipInvariant`: `Spec => []IInv`. Nothing connects a cached membership with the table
  for longer than a moment, so the invariant argues from what was ever stored: a request is
  at a place its endpoint has (`Where`), and its memory is *warranted*: the memberships it is about to
  cache were granted, and if it is past its checks and adds a member, its caller is an administrator
  or was a member (`Warranted`). The caches list only whom it was granted to (`CachesGranted`).
  `AdmissionsWarranted` is the action property `OnlyMembersAdmit`, `TypeCorrect` the types.
* `ListingInvariant`: a list of members is filled by a request that reads them one after the other
  while others add and remove members, so what it misses is explained by who is at work: whom the table
  has and the list has not is in the hands of the request that adds or removes them (`Pends`); or the
  list does not count as complete and every listing in progress has the member still before it
  (`Awaited`); unless a database call failed. `CompleteUserListings` is `UserListingsComplete`.
* `AgreementInvariant`: one request at a time. Whatever calls fail, a cached member is one and a cached
  group is in the table (`Filed`), since a removal clears the caches before it touches the table (`Knows`).
  Unless a call failed, a complete list of a user's groups lacks only the membership under way, and every group in it
  is in `groupCache`, where `removeUserFromGroup` looks for the record to erase (`FullyFiled`). This needs
  what each request knows: what a deletion has still to remove is in its query's result or in its hands
  (`KnowsRemoving`), what a listing has still to cache likewise (`KnowsListing`), and an addition finds
  its user, its group, and the group cached (`KnowsAdding`). `MembershipsAgreement` is `MembershipsAgree`.

`RecordProofs`

* `ClusterInvariant`: for requests one at a time, of which no read, deletion or answer to a write is lost, each two places that hold the same datum (item and
  cached record, cached record and file, listing and item, locations and their cache) agree except
  at the named places of the one request that is between the two steps which change both
  (`OneAtATime`). `ClusterRecordsAgree` is `RecordsAgree`.
* `MultimapHolds`: keys, values and the times of a category against the set of pairs it stands for,
  for every operation of the template; a category is there exactly if it has a value (`MapInv`).
  `CategoriesHoldPairs` is `MapHoldsPairs`.
* `NamesInvariant`: what a task has seen of a name is so until the zone changes (`Seen`);
  `OthersNamesKept` is `NamesOfOthersKept`.
* `GroupRecordsInvariant`: a stored group that is not in `groupCache` is being created, edited or
  deleted by a request that has still to cache or delete it; or no listing counts as complete, and
  every scan in progress has the group still before it (`ListingKept`). For requests in turn it
  also says what each place knows of names (`InTurn`). `GroupsAgree` is `GroupRecordsAgree`.
* `CatalogueInvariant`: whatever is remembered, carried by a request or announced was published by helm
  under its name (`Published`, `Offered`), and what a listing collects has a version for everything that was
  announced before the listing began (`LookupKnows`). `CatalogueAnswers` is `CatalogueRight`.
* `InspectionInvariant`: at each stage of an inspection, what was seen of an object that nobody has touched
  is so (`SeenRight`), for secrets but those in namespaces still to be searched; no secret has been seen
  before its turn, and in the end every namespace has been searched (`InOrder`); there is no verdict
  before the end. `InspectionReports` is `InspectionRight`.
* `PermissionsAreRegister`: `AppPermissions` implements `PermissionRegister`. Requests that do
  not overlap map to the register's steps or to stutters, one lemma per step of a request; from the
  moment two changes overlap, a read fails or a write is made without an answer the register is
  unspecified, until the cached set has expired or is the table's.
* `PermissionInvariant` (`PermInv`) supplies what that mapping needs: undisturbed, there is one
  request at most, it knows what the table holds, and the cache holds the same or is about to be
  replaced (`Alone`); disturbed or not, table, cache and requests agree with what was last at rest
  on every application that nobody named since (`NamedKept`), which is `UnnamedKept`.
  `GroupsKeepPermissions` puts both together as `PermissionsKept`.

`PlatformProofs`

* `ProcessInvariant`: `processTable` and `hasExitStatus` of a call are functions of whether its
  caller has come to register the handle and the reaper to pass on the status (`HandleEntry`, `Met`).
  `StatusReachesHandle` is `StatusPassedOnce`.
* `RegistrationInvariant`: the places of the client's commands are ordered by what has been
  established before them (`HasDefinitions` to `HasAccount`), and nothing that was established is undone
  before the server is told. `OnlyPreparedRegistered` is `RegisteredPrepared`.
* `MonitoringInvariant`: the secret in the cluster is the credential the server has, and a removal has
  undone as much as its place says, so that the credential is given up when nothing is left. `MonitoredValidly` is
  `MonitoringCredentialValid`.
* `StartupInvariant`: each phase of a start has what the phases before it establish (`Established`),
  the description of the table that the process works with included, and the database's own
  work in the background does not undo it. `ReadyWhenServing` is `ServingReady`.
* `ProgressInvariant`: while anything is queued the display is on, and the count in `nesting_` is enough
  for the tokens that no inner scope hides (`Outer`, `Capacity`), so an inner token never turns
  the display off; turning it off empties the queue, which leaves the message the printer has in hand.
  `OneLateMessage` is `AtMostOneLate`.
* `TransfersArriveWhole` is `TransfersWhole`, for any widths of the fields of a header, sizes of blocks and
  buffers, lengths of names and sizes of files. What is written can be read again (`Framed`): behind a
  header stand as many blocks as its file fills, which is as many as the reader passes over
  (`BlocksSkipped`, about the two roundings of the code), and data nowhere else. A name comes back as it was
  unless it is split one byte late (`NamesSurvive`). While the chart is archived, each entry is written or
  still to come: a beginning of its path is queued or listed (`Pending`), and listing that directory moves
  this one level down (`OneLevelDown`). While it is unpacked, each entry is there or still in the archive
  (`ChartKept`), and only the chart's entries are made, so at the end nothing is missing and nothing
  else was made. That a path has a length, and the sum it is defined by a value, is shown from the least
  beginning that lacks one (`PathsHaveLength`). For the upgrade, `UpgradeInv` says what the temporary file is
  at each stage.

`WorkloadProofs`

* `WorkloadTypes`: types, the path that requests of each operation take (`Path`), and that only issued
  IDs are stored and cached, with all kinds, cascades and failed calls.
* `WorkloadInvariant`: `Spec => []WorkInv`. `RecordsRun` needs that records which lack an object are
  about to get it or about to go (`RecordsHeld`). `RunningRecorded` cannot be had by following
  one object: the record that vouches for it may be removed while another one of the same name,
  refused by Kubernetes, remains. It is a matter of counting (`Balanced`): at each place in Kubernetes
  the records that are not about to be removed are at least as many as the objects, those still
  to be deployed included. A step that takes away a record takes away an object or gives up a
  deployment. That the counts change by one at a time rests on `Orderly`: an object whose record is still
  to be stored is unknown to the caches and to every other request, so that it enters the table once.
  `RecordsHaveObjects` and `WhatRunsIsRecorded` are `RecordsRun` and `RunningRecorded`.
* `RecordsInvariant`: as long as no two requests were in progress at a time (`OneAtATime`). Whatever
  calls fail, what is cached is stored and listed where it belongs (`Filed`): a removal clears the caches
  before it touches the table, a record is cached after it was stored. What a request found or did still
  holds when it caches or marks it (`Knows`). Unless a call failed, a category that counts as up to date
  lacks at most the object whose record the request in progress has stored and not yet cached, or dropped
  from the caches and not yet deleted (`Complete`). `RecordsAndCaches` is `RecordsKept`.
* `ClustersInvariant`: unless a call failed, requests one at a time keep what runs on the clusters equal to
  what is recorded, at every step of every handler but for the object or the group that the
  handler is at (`SlotsAgree`): a creation has stored a record and not yet deployed it, an update has
  taken an instance down or runs a configuration that is still to be recorded, a deletion has taken an object down
  and its record remains, a cascade has deleted the group and its namespaces remain. Which of these is the case follows
  from the step the request is at, and `KnowsObject` and `KnowsCascade` say what it relies on there: a creation
  that its name is free, a cascade that it has the whole of what it must delete. Both come from a listing,
  and a listing from a cache leaves out expired records; so the invariant also says that a category does
  not outlive its values (`Tight`), except that of the volumes on a cluster, which is marked up to date
  without them. No creation asks that category; the cascade over a cluster's volumes does, and though it
  deletes the cluster's namespaces whatever the listing said, it may leave records of volumes
  behind, of which `ClustersAgree` therefore says nothing.
  `RecordsAndClusters` is `ClustersAgree`.

`RequestProofs`

* *Pieces.* A handler is its pieces one after the other: authentication, the look-up of the object, the
  checks, the work on the store and the cluster. `Asks`, `Acts`, `Guarded` and `Delivers` say what a piece
  asks, what it may change, that it asks before it changes, and what has been changed by whoever gets
  through it. They carry over to the concatenation of two pieces (`AskFirst`, `AskMore`, `ActMore`,
  `DeliverMore`), which is proved once, for pieces of any length; then each piece and each
  of the handlers is given what it asks and what it may change (`UserHandlers` to `OtherHandlers`).
* `RequestServed`: `RequestSpec => []ServerInv`. What is known is what the steps up to the present one have
  asked and found to hold, what is done is what they may change, and an answer is one that such a step
  can give (`HandledTo`). An effect in `done` is thus one that the handler may have, and whatever the
  handler asks before its first change was answered with yes (`OnlyIfGranted`). With that,
  `RequestAuthorized` is `EffectsAuthorized`, handler by handler (`Authorized`, `Allowed`), and
  `RequestRefused` is `RefusedUnchanged`: past the first change a handler answers 200 or 5xx.
* *Routes.* crow takes the first route that matches. For each list of routes and each method the handlers
  are listed that a path may lead to (`PostUserRoutes` to `GetOtherRoutes`), then for each method and length
  of a path (`PostsOf1` to `GetsOf3`), and so for each request of the client (`PostTargets` to `GetTargets`).
* `RequestNothingHalfway`: a script of the client is `Settled` at some step: up to it, it asks the user and
  sends only requests whose handlers change nothing (`Quiet`), and after it, it does not end
  without an error, except that the first request that changes something may be told that there is no such
  object (404), when nothing was changed. `Commands` proves it of the 52 scripts. `ClientInv` says that the
  answer that is waited for is one to the present step of the script (`Underway`), and `Unspoilt` that
  anything caused was caused beyond that step. A script that begins again, with an ID the client guessed,
  does so with nothing caused. This is `NothingHalfway`.
* `RequestSuccessMeansDone`: the last step of a script with a promise is a request, and the handlers that
  it may reach deliver the promise (`Fulfils`, proved of every such script by `Promises`). They end early
  with a 200 only when there is nothing to change, which the client has made sure of (`Keeps`). So the answer 200
  to the last step, and nothing else, brings a script to its end (`Honest`). This is `SuccessMeansDone`.

Only model-checked:

* the liveness properties, since the prover has no support for ENABLED and fairness;
* what `Texts` and `Output` compute, which is defined by recursion over data.

## Not modelled

* In modelled components: that `listUsers` fills the user caches from a Scan;
  `clusterConnectivityCache`, a cached flag; `runCommandWithInput`, which writes its input first
  and is otherwise `runCommand`; the mutexes inside `concurrent_multimap`, whose operations are
  taken to be atomic; the arguments of `kubectl` and `helm` commands and the manifests.
* Two kinds of object, or two clusters' DNS names, in one behaviour: they share no state.
* Reading secret files, shell completion, geocoding, email, telemetry and the stress test, which
  are single calls or text without state of their own.
* The declaration of options with CLI11 and the wording of messages: text.
* The vendored libraries (crow, rapidjson, libcuckoo, scrypt, CLI11), which are third-party code.

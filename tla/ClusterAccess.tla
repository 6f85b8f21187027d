---------------------------- MODULE ClusterAccess ----------------------------
(***************************************************************************)
(* Which groups may use a cluster: the access items of one cluster in the  *)
(* cluster table, the category of clusterGroupAccessCache that belongs to  *)
(* the cluster, and the endpoints that grant, revoke, check and list       *)
(* access and that delete the cluster.  Clusters share none of this state, *)
(* so one is enough.                                                       *)
(*                                                                         *)
(* The cache remembers both answers: a record "g" says that g has access,  *)
(* a record "g-" that it has not.  Each server thread runs one request at  *)
(* a time, as a sequence of atomic database calls and cache operations     *)
(* that other requests interleave with.  The caller of an endpoint that    *)
(* changes access is authorized: GroupMembership has the check.            *)
(***************************************************************************)
EXTENDS Naturals, FiniteSets

CONSTANTS
    Requests,   \* server threads
    Groups,     \* groups other than the owner, which needs no access item
    All,        \* the wildcard, which stands for every group
    Offered,    \* the endpoints clients call (all of Ops, or some in an instance)
    MaxFaults   \* bound: database calls that may report failure

ASSUME AccessAssumption == All \notin Groups /\ MaxFaults \in Nat

Guests == Groups \cup {All}

VARIABLES
    clusterStored, \* the cluster's main item is in the cluster table
    known,         \* clusterCache has a live record of the cluster
    items,         \* guests with an access item
    allow,         \* guests with a live positive record in the cache
    deny,          \* guests with a live negative record in the cache
    req,           \* the request each thread is executing
    ever,          \* guests to whom access was ever granted
    faults         \* database calls that have reported failure

vars == <<clusterStored, known, items, allow, deny, req, ever, faults>>

\* Records are filed under the cluster's ID.  The endpoint that checks for the
\* wildcard files them under what the client called the cluster.
Filed == {"id", "name"}

Ops == {"check", "checkAll", "checkAllByName", "list", "grant", "revoke", "delete"}

PCs == {"idle", "find", "found", "look", "note", "query", "dependents",
        "forget", "store", "record", "next", "uncache", "remove"}

\* op: the endpoint; g: the guest being looked up, granted or revoked; whose: the
\* guest the request is about; saw: what a lookup has read; todo: guests whose
\* access removeCluster still has to remove; last: removeCluster has begun
Request == [pc : PCs, op : Ops \cup {"none"}, g : Guests, whose : Guests,
            saw : BOOLEAN, todo : SUBSET Guests, last : BOOLEAN]

\* a thread without a request: the last one was answered, with success or not
Idle == [pc |-> "idle", op |-> "none", g |-> All, whose |-> All,
         saw |-> FALSE, todo |-> {}, last |-> FALSE]

Key(q) == IF q.op = "checkAllByName" THEN "name" ELSE "id"

CallFails == faults < MaxFaults /\ faults' = faults + 1

Step(r, q) == req' = [req EXCEPT ![r] = q]
Goto(r, pc) == Step(r, [req[r] EXCEPT !.pc = pc])
At(r, pc) == req[r].pc = pc

(***************************************************************************)
(* getCluster                                                              *)
(***************************************************************************)
\* what a handler does with the cluster it has found
Handle(q) ==
    CASE q.op \in {"grant", "revoke"} -> [q EXCEPT !.pc = "forget"]
      [] OTHER                        -> [q EXCEPT !.pc = "look"]

getCluster(r) ==
    /\ At(r, "find")
    /\ \/ known /\ Step(r, Handle(req[r])) /\ UNCHANGED faults
       \/ ~known /\ clusterStored /\ Goto(r, "found") /\ UNCHANGED faults
       \/ ~known /\ ~clusterStored /\ Step(r, Idle) /\ UNCHANGED faults
       \/ ~known /\ CallFails /\ Step(r, Idle)
    /\ UNCHANGED <<clusterStored, known, items, allow, deny, ever>>

rememberCluster(r) ==
    /\ At(r, "found")
    /\ known' = TRUE
    /\ Step(r, Handle(req[r]))
    /\ UNCHANGED <<clusterStored, items, allow, deny, ever, faults>>

(***************************************************************************)
(* clusterAllowsAllGroups, and the second half of groupAllowedOnCluster    *)
(***************************************************************************)
\* The request once listGroupsAllowedOnCluster has ended.  The result is only used
\* when removeCluster has called it; deleteCluster's first call is for a mail.
Listed(q, found) ==
    CASE q.op = "delete" /\ q.last  -> [q EXCEPT !.pc = "next", !.todo = found]
      [] q.op = "delete" /\ ~q.last -> [q EXCEPT !.pc = "dependents"]
      [] OTHER -> Idle

\* The request once a lookup has ended.  A check goes on from the wildcard to the
\* group; a listing is just the wildcard, or else the result of a query.
Concluded(q, yes) ==
    CASE q.op = "check" /\ ~yes /\ q.g # q.whose -> [q EXCEPT !.pc = "look", !.g = q.whose]
      [] q.op \in {"list", "delete"} /\ ~yes -> [q EXCEPT !.pc = "query"]
      [] q.op \in {"list", "delete"} /\ yes -> Listed(q, {All})
      [] OTHER -> Idle

\* the positive record counts first, then the negative one, then the item; a read
\* that fails is a "no" and is not remembered
lookUpAccess(r) ==
    LET q == req[r]
        k == Key(q)
        hit == q.g \in allow[k] \cup deny[k] IN
    /\ At(r, "look")
    /\ \/ hit /\ Step(r, Concluded(q, q.g \in allow[k])) /\ UNCHANGED faults
       \/ /\ ~hit
          /\ Step(r, [q EXCEPT !.pc = "note", !.saw = k = "id" /\ q.g \in items])
          /\ UNCHANGED faults
       \/ ~hit /\ CallFails /\ Step(r, Concluded(q, FALSE))
    /\ UNCHANGED <<clusterStored, known, items, allow, deny, ever>>

\* mutant of noteAccess: every answer is remembered as a "yes"
noteAccessYes(r) ==
    LET q == req[r] IN
    /\ At(r, "note")
    /\ allow' = [allow EXCEPT ![Key(q)] = @ \cup {q.g}]
    /\ Step(r, [Concluded(q, q.saw) EXCEPT !.saw = FALSE])
    /\ UNCHANGED <<clusterStored, known, items, deny, ever, faults>>
noteAccess(r) ==
    LET q == req[r] IN
    /\ At(r, "note")
    /\ IF q.saw
       THEN allow' = [allow EXCEPT ![Key(q)] = @ \cup {q.g}] /\ UNCHANGED deny
       ELSE deny' = [deny EXCEPT ![Key(q)] = @ \cup {q.g}] /\ UNCHANGED allow
    /\ Step(r, [Concluded(q, q.saw) EXCEPT !.saw = FALSE])
    /\ UNCHANGED <<clusterStored, known, items, ever, faults>>

\* "begins_with(#sortKey,:prefix)": the items of groups, not that of the wildcard
Queried == items \cap Groups

queryGuests(r) ==
    /\ At(r, "query")
    /\ \/ Step(r, Listed(req[r], Queried)) /\ UNCHANGED faults
       \/ CallFails /\ Step(r, Listed(req[r], {}))
    /\ UNCHANGED <<clusterStored, known, items, allow, deny, ever>>

(***************************************************************************)
(* addGroupToCluster, removeGroupFromCluster                               *)
(***************************************************************************)
Granting(q) == q.op = "grant"

\* mutant of forgetAccess: the contrary record stays in the cache
forgetAccessKept(r) ==
    /\ At(r, "forget")
    /\ Goto(r, "store")
    /\ UNCHANGED <<clusterStored, known, items, allow, deny, ever, faults>>
\* the record that the change will contradict is erased
forgetAccess(r) ==
    LET q == req[r] IN
    /\ At(r, "forget")
    /\ IF Granting(q)
       THEN deny' = [deny EXCEPT !["id"] = @ \ {q.g}] /\ UNCHANGED allow
       ELSE allow' = [allow EXCEPT !["id"] = @ \ {q.g}] /\ UNCHANGED deny
    /\ Goto(r, "store")
    /\ UNCHANGED <<clusterStored, known, items, ever, faults>>

\* PutItem or DeleteItem; when the call reports failure it may still have been
\* carried out.  removeCluster ignores the failure.
storeAccess(r) ==
    LET q == req[r]
        stored == IF Granting(q) THEN items \cup {q.g} ELSE items \ {q.g} IN
    /\ At(r, "store")
    /\ \/ items' = stored /\ Goto(r, "record") /\ UNCHANGED faults
       \/ /\ CallFails /\ items' \in {items, stored}
          /\ Step(r, IF q.op = "delete" THEN [q EXCEPT !.pc = "next"] ELSE Idle)
    /\ ever' = IF Granting(q) THEN ever \cup {q.g} ELSE ever
    /\ UNCHANGED <<clusterStored, known, allow, deny>>

recordAccess(r) ==
    LET q == req[r] IN
    /\ At(r, "record")
    /\ IF Granting(q)
       THEN allow' = [allow EXCEPT !["id"] = @ \cup {q.g}] /\ UNCHANGED deny
       ELSE deny' = [deny EXCEPT !["id"] = @ \cup {q.g}] /\ UNCHANGED allow
    /\ Step(r, IF q.op = "delete" THEN [q EXCEPT !.pc = "next"] ELSE Idle)
    /\ UNCHANGED <<clusterStored, known, items, ever, faults>>

\* mutant of Expired: records are kept for ever
ExpiredNever(S, x) == S
\* CacheRecord::expired: an expired record is as good as none
Expired(S, x) == S \ {x}

ExpireAllow(k, g) ==
    /\ g \in allow[k]
    /\ allow' = [allow EXCEPT ![k] = Expired(@, g)]
    /\ UNCHANGED <<clusterStored, known, items, deny, req, ever, faults>>
ExpireDeny(k, g) ==
    /\ g \in deny[k]
    /\ deny' = [deny EXCEPT ![k] = Expired(@, g)]
    /\ UNCHANGED <<clusterStored, known, items, allow, req, ever, faults>>
ExpireCluster ==
    /\ known
    /\ known' = FALSE
    /\ UNCHANGED <<clusterStored, items, allow, deny, req, ever, faults>>

(***************************************************************************)
(* deleteCluster and removeCluster                                         *)
(***************************************************************************)
\* the instances, secrets, volumes, namespaces and the credential go first; the
\* handler gives up if that fails or if the cluster does not answer
deleteDependents(r) ==
    /\ At(r, "dependents")
    /\ \/ Step(r, [req[r] EXCEPT !.pc = "look", !.last = TRUE])
       \/ Step(r, Idle)
    /\ UNCHANGED <<clusterStored, known, items, allow, deny, ever, faults>>

nextGuest(r) ==
    LET q == req[r] IN
    /\ At(r, "next")
    /\ \E g \in q.todo : Step(r, [q EXCEPT !.g = g, !.todo = @ \ {g}, !.pc = "forget"])
    /\ UNCHANGED <<clusterStored, known, items, allow, deny, ever, faults>>

endGuests(r) ==
    /\ At(r, "next")
    /\ req[r].todo = {}
    /\ Goto(r, "uncache")
    /\ UNCHANGED <<clusterStored, known, items, allow, deny, ever, faults>>

uncacheCluster(r) ==
    /\ At(r, "uncache")
    /\ known' = FALSE
    /\ Goto(r, "remove")
    /\ UNCHANGED <<clusterStored, items, allow, deny, ever, faults>>

removeCluster(r) ==
    /\ At(r, "remove")
    /\ \/ clusterStored' = FALSE /\ UNCHANGED faults
       \/ CallFails /\ clusterStored' \in {clusterStored, FALSE}
    /\ Step(r, Idle)
    /\ UNCHANGED <<known, items, allow, deny, ever>>

(***************************************************************************)
(* Requests                                                                *)
(***************************************************************************)
\* the guest that is looked up first, granted or revoked is g
Begin(r, op, g, whose) ==
    /\ op \in Offered
    /\ At(r, "idle")
    /\ Step(r, [Idle EXCEPT !.op = op, !.pc = "find", !.g = g, !.whose = whose])
    /\ UNCHANGED <<clusterStored, known, items, allow, deny, ever, faults>>

\* the endpoint of that name, and those that install an application, create a
\* secret or create a volume for a group
checkGroupClusterAccess(r, g) == Begin(r, "check", All, g)
checkUniversalAccess(r) == Begin(r, "checkAll", All, All)
checkUniversalAccessByName(r) == Begin(r, "checkAllByName", All, All)
listClusterAllowedgroups(r) == Begin(r, "list", All, All)
grantGroupClusterAccess(r, g) == Begin(r, "grant", g, g)
revokeGroupClusterAccess(r, g) == Begin(r, "revoke", g, g)
deleteCluster(r) == Begin(r, "delete", All, All)

(***************************************************************************)
(* The specification                                                       *)
(***************************************************************************)
\* The service starts with empty caches on whatever the table holds.
Init ==
    /\ clusterStored = TRUE
    /\ known = FALSE
    /\ items \in SUBSET Guests
    /\ allow = [k \in Filed |-> {}]
    /\ deny = [k \in Filed |-> {}]
    /\ req = [r \in Requests |-> Idle]
    /\ ever = items
    /\ faults = 0

Start(r) ==
    \/ \E g \in Groups : checkGroupClusterAccess(r, g)
    \/ checkUniversalAccess(r) \/ checkUniversalAccessByName(r)
    \/ listClusterAllowedgroups(r) \/ deleteCluster(r)
    \/ \E g \in Guests : grantGroupClusterAccess(r, g) \/ revokeGroupClusterAccess(r, g)

Proceed(r) ==
    \/ getCluster(r) \/ rememberCluster(r)
    \/ lookUpAccess(r) \/ noteAccess(r) \/ queryGuests(r)
    \/ forgetAccess(r) \/ storeAccess(r) \/ recordAccess(r)
    \/ deleteDependents(r) \/ nextGuest(r) \/ endGuests(r)
    \/ uncacheCluster(r) \/ removeCluster(r)

Expire ==
    \/ ExpireCluster
    \/ \E k \in Filed, g \in Guests : ExpireAllow(k, g) \/ ExpireDeny(k, g)

Next == Expire \/ \E r \in Requests : Start(r) \/ Proceed(r)

Spec == Init /\ [][Next]_vars

\* A thread keeps executing its request, and time passes.
FairSpec ==
    /\ Spec
    /\ \A r \in Requests : WF_vars(Proceed(r))
    /\ \A k \in Filed, g \in Guests : WF_vars(ExpireAllow(k, g)) /\ WF_vars(ExpireDeny(k, g))

(***************************************************************************)
(* Properties                                                              *)
(***************************************************************************)
\* Every variable has its type; the records filed under the cluster's name are
\* only ever negative ones about the wildcard.
TypeOK ==
    /\ clusterStored \in BOOLEAN /\ known \in BOOLEAN
    /\ items \subseteq Guests /\ ever \subseteq Guests
    /\ allow \in [Filed -> SUBSET Guests] /\ allow["name"] = {}
    /\ deny \in [Filed -> SUBSET Guests] /\ deny["name"] \subseteq {All}
    /\ req \in [Requests -> Request]
    /\ faults \in 0..MaxFaults

\* what a lookup of g concludes in the present state if its read succeeds
Finding(g) == g \in allow["id"] \/ (g \notin deny["id"] /\ g \in items)
\* what groupAllowedOnCluster answers in the present state
Admitted(g) == Finding(All) \/ Finding(g)

Quiescent == \A r \in Requests : req[r].pc = "idle"

\* Between requests, the answer that groupAllowedOnCluster gives from the
\* positive and negative records in the cache is the one the table gives, also
\* after changes whose database call failed or failed only apparently.
AnswersAgree ==
    Quiescent => \A g \in Groups : Admitted(g) <=> (g \in items \/ All \in items)

\* Under every interleaving, a group is admitted only if access was granted to it
\* or to all groups at some time: no order of lookups, grants, revocations and
\* deletions makes the cache vouch for a group that never had access.
OnlyGrantedAdmitted ==
    \A g \in Groups : Admitted(g) => g \in ever \/ All \in ever

\* A cluster that is deleted leaves no access item behind (removeCluster's first
\* loop), unless access was granted to all groups or a database call failed.
GuestsRemoved ==
    Quiescent /\ faults = 0 /\ ~clusterStored /\ All \notin ever => items = {}

\* The two of requests that come one after the other (groupAllowedOnCluster and
\* removeCluster).
AccessAnswersAgree == AnswersAgree /\ GuestsRemoved

\* Once access has been withdrawn for good, every check eventually refuses the
\* group for good, and once it has been granted for good every check eventually
\* admits it for good, although requests under way may have read the item before
\* the change and remember the outdated answer after it.
AccessSettles ==
    \A g \in Groups :
        /\ <>[](items \cap {g, All} = {}) => <>[]~Admitted(g)
        /\ <>[](g \in items) => <>[]Admitted(g)
        /\ <>[](All \in items) => <>[]Admitted(g)

(***************************************************************************)
(* The inductive invariant behind OnlyGrantedAdmitted                      *)
(***************************************************************************)
\* only deletions loop over guests, and only the wildcard is looked up by name
Control(q) ==
    /\ q.op = "checkAllByName" => q.g = All
    /\ q.last \/ q.pc \in {"dependents", "next"} => q.op = "delete"
    /\ q.pc = "query" => q.op \in {"list", "delete"}

ControlOK == \A r \in Requests : Control(req[r])

\* a request is about to remember access that was granted
Remembers(q) ==
    /\ q.pc = "note" /\ q.saw => Key(q) = "id" /\ q.g \in ever
    /\ q.pc = "record" /\ Granting(q) => q.g \in ever

\* what is stored, cached or about to be cached as access was granted
Vouched ==
    /\ items \subseteq ever
    /\ allow["id"] \subseteq ever
    /\ \A r \in Requests : Remembers(req[r])

IInv == TypeOK /\ ControlOK /\ Vouched
=============================================================================

------------------------- MODULE ClusterAccessProofs -------------------------
(***************************************************************************)
(* Proofs about ClusterAccess for any number of threads, groups and failed *)
(* database calls.  A request is followed through an action by what the    *)
(* action makes of its record; the invariant IInv adds to the types where  *)
(* a request can be (ControlOK) and that everything the tables, the cache  *)
(* and the requests hold as access goes back to a grant (Vouched).  A      *)
(* second one, AnswersInv, is about requests that come one after the other *)
(* and relates the cache to the table.                                     *)
(***************************************************************************)
EXTENDS ClusterAccess, TLAPS

\* A request that is replaced by a well-formed one leaves the others as they are:
\* the shape of every action's effect on req (Step, Goto).
LEMMA StepTyped ==
    ASSUME NEW r \in Requests, NEW q \in Request, req \in [Requests -> Request], Step(r, q)
    PROVE  /\ req' \in [Requests -> Request]
           /\ req'[r] = q
           /\ \A s \in Requests : s # r => req'[s] = req[s]
BY DEF Step

\* Idle is a well-formed request with nothing pending (a thread that has answered).
LEMMA IdleTyped == Idle \in Request /\ Control(Idle) /\ Remembers(Idle)
BY DEF Idle, Request, PCs, Ops, Guests, Control, Remembers, Granting

\* Where a listing leads is well-formed, and it remembers nothing yet
\* (listGroupsAllowedOnCluster).
LEMMA ListedTyped ==
    ASSUME NEW q \in Request, Control(q), NEW found \in SUBSET Guests
    PROVE  /\ Listed(q, found) \in Request /\ Control(Listed(q, found))
           /\ Listed(q, found).pc \notin {"note", "record"}
<1> USE DEF Request, PCs, Ops, Guests, Control
<1>1. CASE q.op = "delete" /\ q.last
  <2>1. Listed(q, found) = [q EXCEPT !.pc = "next", !.todo = found]
    BY <1>1 DEF Listed
  <2> QED BY <1>1, <2>1
<1>2. CASE q.op = "delete" /\ ~q.last
  <2>1. Listed(q, found) = [q EXCEPT !.pc = "dependents"]
    BY <1>2 DEF Listed
  <2> QED BY <1>2, <2>1
<1>3. CASE q.op # "delete"
  <2>1. Listed(q, found) = Idle
    BY <1>3 DEF Listed
  <2> QED BY <2>1, IdleTyped DEF Idle
<1> QED BY <1>1, <1>2, <1>3

\* The same of a lookup (clusterAllowsAllGroups and its callers).
LEMMA ConcludedTyped ==
    ASSUME NEW q \in Request, Control(q), NEW yes \in BOOLEAN
    PROVE  /\ Concluded(q, yes) \in Request /\ Control(Concluded(q, yes))
           /\ Concluded(q, yes).pc \notin {"note", "record"}
<1>1. CASE q.op = "check" /\ ~yes /\ q.g # q.whose
  <2>1. Concluded(q, yes) = [q EXCEPT !.pc = "look", !.g = q.whose]
    BY <1>1 DEF Concluded
  <2> QED BY <1>1, <2>1 DEF Request, PCs, Ops, Control
<1>2. CASE q.op \in {"list", "delete"} /\ ~yes
  <2>1. Concluded(q, yes) = [q EXCEPT !.pc = "query"]
    BY <1>2 DEF Concluded
  <2> QED BY <1>2, <2>1 DEF Request, PCs, Ops, Control
<1>3. CASE q.op \in {"list", "delete"} /\ yes
  <2>1. Concluded(q, yes) = Listed(q, {All})
    BY <1>3 DEF Concluded
  <2> QED BY <2>1, ListedTyped DEF Guests
<1>4. CASE /\ ~(q.op = "check" /\ ~yes /\ q.g # q.whose)
           /\ q.op \notin {"list", "delete"}
  <2>1. Concluded(q, yes) = Idle
    BY <1>4 DEF Concluded
  <2> QED BY <2>1, IdleTyped DEF Idle
<1> QED BY <1>1, <1>2, <1>3, <1>4

\* The handlers go on from getCluster with what they were called with.
LEMMA HandleTyped ==
    ASSUME NEW q \in Request, Control(q)
    PROVE  LET n == Handle(q) IN
           n \in Request /\ Control(n) /\ n.pc \notin {"note", "record"}
BY DEF Handle, Request, PCs, Ops, Guests, Control

\* What an action has to establish: the tables and the cache stay typed and vouched
\* for, and the request it advances is well-formed.
LEMMA Advance ==
    ASSUME IInv, NEW r \in Requests, NEW q \in Request, Control(q), Step(r, q),
           clusterStored' \in BOOLEAN, known' \in BOOLEAN,
           ever \subseteq ever', ever' \subseteq Guests, items' \subseteq ever',
           allow' \in [Filed -> SUBSET Guests], allow'["name"] = {},
           allow'["id"] \subseteq ever',
           deny' \in [Filed -> SUBSET Guests], deny'["name"] \subseteq {All},
           faults' \in 0..MaxFaults,
           q.pc = "note" /\ q.saw => Key(q) = "id" /\ q.g \in ever',
           q.pc = "record" /\ Granting(q) => q.g \in ever'
    PROVE  IInv'
<1>1. /\ req' \in [Requests -> Request]
      /\ req'[r] = q
      /\ \A s \in Requests : s # r => req'[s] = req[s]
  BY StepTyped DEF IInv, TypeOK
<1>2. TypeOK'
  BY <1>1 DEF TypeOK
<1>3. ControlOK'
  BY <1>1 DEF IInv, ControlOK, Control
<1>4. Vouched'
  <2>1. ASSUME NEW s \in Requests PROVE Remembers(req[s])'
    <3>1. CASE s = r
      BY <1>1, <3>1 DEF Remembers, Key, Granting
    <3>2. CASE s # r
      BY <1>1, <3>2 DEF IInv, Vouched, Remembers, Key, Granting
    <3> QED BY <3>1, <3>2
  <2> QED BY <2>1 DEF Vouched
<1> QED BY <1>2, <1>3, <1>4 DEF IInv

\* An action that leaves the tables and the cache of answers alone.
LEMMA AdvanceQuietly ==
    ASSUME IInv, NEW r \in Requests, NEW q \in Request, Control(q), Step(r, q),
           q.pc \notin {"note", "record"}, clusterStored' \in BOOLEAN, known' \in BOOLEAN,
           UNCHANGED <<items, allow, deny, ever>>, faults' \in 0..MaxFaults
    PROVE  IInv'
BY Advance DEF IInv, TypeOK, Vouched

\* A call that reports failure is counted within the bound.
LEMMA FaultTyped == ASSUME IInv, CallFails PROVE faults' \in 0..MaxFaults
BY AccessAssumption DEF IInv, TypeOK, CallFails

\* The lookups of a cluster and of its guests preserve the invariant (getCluster,
\* clusterAllowsAllGroups, groupAllowedOnCluster, listGroupsAllowedOnCluster).
LEMMA LookupsPreserve ==
    ASSUME IInv, NEW r \in Requests,
           getCluster(r) \/ rememberCluster(r) \/ lookUpAccess(r) \/ noteAccess(r) \/ queryGuests(r)
    PROVE  IInv'
<1> DEFINE q == req[r]
<1>0. q \in Request /\ Control(q) /\ Remembers(q) /\ faults \in 0..MaxFaults
  BY DEF IInv, TypeOK, ControlOK, Vouched
<1>1. CASE getCluster(r)
  <2>1. clusterStored' \in BOOLEAN /\ known' \in BOOLEAN /\ UNCHANGED <<items, allow, deny, ever>>
    BY <1>1 DEF getCluster, IInv, TypeOK
  <2>2. faults' \in 0..MaxFaults
    BY <1>1, <1>0, FaultTyped DEF getCluster
  <2>3. CASE Step(r, Handle(q))
    BY <1>0, <2>1, <2>2, <2>3, HandleTyped, AdvanceQuietly
  <2>4. CASE Step(r, Idle)
    BY <2>1, <2>2, <2>4, IdleTyped, AdvanceQuietly DEF Idle
  <2>5. CASE Goto(r, "found")
    <3>1. Step(r, [q EXCEPT !.pc = "found"])
      BY <2>5 DEF Goto
    <3>2. [q EXCEPT !.pc = "found"] \in Request /\ Control([q EXCEPT !.pc = "found"])
      BY <1>0 DEF Request, PCs, Control
    <3> QED BY <2>1, <2>2, <3>1, <3>2, AdvanceQuietly DEF Request
  <2> QED BY <1>1, <2>3, <2>4, <2>5 DEF getCluster
<1>2. CASE rememberCluster(r)
  <2>1. /\ clusterStored' \in BOOLEAN /\ known' \in BOOLEAN /\ UNCHANGED <<items, allow, deny, ever>>
        /\ faults' \in 0..MaxFaults /\ Step(r, Handle(q))
    BY <1>2 DEF rememberCluster, IInv, TypeOK
  <2> QED BY <1>0, <2>1, HandleTyped, AdvanceQuietly
<1>3. CASE lookUpAccess(r)
  <2> DEFINE seen == [q EXCEPT !.pc = "note", !.saw = Key(q) = "id" /\ q.g \in items]
  <2>1. /\ clusterStored' \in BOOLEAN /\ known' \in BOOLEAN /\ UNCHANGED <<items, allow, deny, ever>>
        /\ q.pc = "look"
    BY <1>3 DEF lookUpAccess, At, IInv, TypeOK
  <2>2. faults' \in 0..MaxFaults
    BY <1>3, <1>0, FaultTyped DEF lookUpAccess
  <2>3. ASSUME NEW yes \in BOOLEAN, Step(r, Concluded(q, yes)) PROVE IInv'
    BY <1>0, <2>1, <2>2, <2>3, ConcludedTyped, AdvanceQuietly
  <2>4. CASE Step(r, seen)
    <3>1. seen \in Request /\ Control(seen)
      BY <1>0 DEF Request, PCs, Control
    <3>2. /\ seen.saw => Key(q) = "id" /\ q.g \in items
          /\ seen.pc = "note" /\ seen.g = q.g /\ seen.op = q.op
      BY <1>0 DEF Request
    <3>3. seen.saw => Key(seen) = "id" /\ seen.g \in ever'
      BY <3>2, <2>1 DEF Key, IInv, Vouched
    <3> HIDE DEF seen
    <3> QED BY <2>1, <2>2, <2>4, <3>1, <3>2, <3>3, Advance DEF IInv, TypeOK, Vouched
  <2>5. CASE Step(r, Concluded(q, q.g \in allow[Key(q)]))
    <3>1. (q.g \in allow[Key(q)]) \in BOOLEAN
      OBVIOUS
    <3> QED BY <2>3, <2>5, <3>1
  <2>6. CASE Step(r, Concluded(q, FALSE))
    BY <2>3, <2>6
  <2> QED BY <1>3, <2>4, <2>5, <2>6 DEF lookUpAccess
<1>4. CASE noteAccess(r)
  <2> DEFINE n == [Concluded(q, q.saw) EXCEPT !.saw = FALSE]
  <2>1. /\ clusterStored' \in BOOLEAN /\ known' \in BOOLEAN /\ UNCHANGED <<items, ever, faults>>
        /\ q.pc = "note" /\ Step(r, n)
    BY <1>4 DEF noteAccess, At, IInv, TypeOK
  <2>2. n \in Request /\ Control(n) /\ n.pc \notin {"note", "record"}
    <3>1. q.saw \in BOOLEAN
      BY <1>0 DEF Request
    <3>2. ASSUME NEW c \in Request, Control(c), c.pc \notin {"note", "record"}
          PROVE  LET d == [c EXCEPT !.saw = FALSE] IN
                 d \in Request /\ Control(d) /\ d.pc \notin {"note", "record"}
      BY <3>2 DEF Request, Control
    <3> QED BY <1>0, <3>1, <3>2, ConcludedTyped
  <2>3. CASE q.saw
    <3>1. Key(q) = "id" /\ q.g \in ever
      BY <1>0, <2>1, <2>3 DEF Remembers
    <3>2. allow' = [allow EXCEPT !["id"] = @ \cup {q.g}] /\ UNCHANGED deny
      BY <1>4, <2>3, <3>1 DEF noteAccess
    <3> HIDE DEF n
    <3> QED BY <1>0, <2>1, <2>2, <3>1, <3>2, Advance DEF IInv, TypeOK, Vouched, Filed
  <2>4. CASE ~q.saw
    <3>1. deny' = [deny EXCEPT ![Key(q)] = @ \cup {q.g}] /\ UNCHANGED allow
      BY <1>4, <2>4 DEF noteAccess
    <3>2. Key(q) \in Filed /\ q.g \in Guests /\ (Key(q) = "name" => q.g = All)
      BY <1>0 DEF Key, Filed, Request, Control
    <3>3. deny' \in [Filed -> SUBSET Guests] /\ deny'["name"] \subseteq {All}
      BY <3>1, <3>2 DEF IInv, TypeOK, Filed
    <3> HIDE DEF n
    <3> QED BY <1>0, <2>1, <2>2, <3>1, <3>3, Advance DEF IInv, TypeOK, Vouched
  <2> QED BY <2>3, <2>4
<1>5. CASE queryGuests(r)
  <2>1. /\ clusterStored' \in BOOLEAN /\ known' \in BOOLEAN /\ UNCHANGED <<items, allow, deny, ever>>
        /\ q.pc = "query"
    BY <1>5 DEF queryGuests, At, IInv, TypeOK
  <2>2. faults' \in 0..MaxFaults
    BY <1>5, <1>0, FaultTyped DEF queryGuests
  <2>3. PICK found \in SUBSET Guests : Step(r, Listed(q, found))
    BY <1>5 DEF queryGuests, Queried, Guests
  <2> QED BY <1>0, <2>1, <2>2, <2>3, ListedTyped, AdvanceQuietly
<1> QED BY <1>1, <1>2, <1>3, <1>4, <1>5

\* The steps of granting and revoking access preserve the invariant
\* (addGroupToCluster, removeGroupFromCluster).
LEMMA ChangesPreserve ==
    ASSUME IInv, NEW r \in Requests, forgetAccess(r) \/ storeAccess(r) \/ recordAccess(r)
    PROVE  IInv'
<1> DEFINE q == req[r]
<1>0. /\ q \in Request /\ Control(q) /\ Remembers(q) /\ q.g \in Guests
      /\ faults \in 0..MaxFaults
  BY DEF IInv, TypeOK, ControlOK, Vouched, Request
<1>1. ASSUME NEW pc \in {"store", "record", "next"}, pc = "next" => q.op = "delete"
      PROVE  /\ [q EXCEPT !.pc = pc] \in Request /\ Control([q EXCEPT !.pc = pc])
             /\ [q EXCEPT !.pc = pc].pc = pc /\ [q EXCEPT !.pc = pc].g = q.g
             /\ Granting([q EXCEPT !.pc = pc]) = Granting(q)
  BY <1>0, <1>1 DEF Request, PCs, Control, Granting
<1>2. CASE forgetAccess(r)
  <2> DEFINE n == [q EXCEPT !.pc = "store"]
  <2>1. Step(r, n) /\ clusterStored' \in BOOLEAN /\ known' \in BOOLEAN /\ UNCHANGED <<items, ever, faults>>
    BY <1>2 DEF forgetAccess, Goto, IInv, TypeOK
  <2>2. n \in Request /\ Control(n) /\ n.pc = "store"
    BY <1>1
  <2>3. /\ allow' \in [Filed -> SUBSET Guests] /\ allow'["name"] = {}
        /\ allow'["id"] \subseteq ever
        /\ deny' \in [Filed -> SUBSET Guests] /\ deny'["name"] \subseteq {All}
    BY <1>2 DEF forgetAccess, IInv, TypeOK, Vouched, Filed
  <2> HIDE DEF n
  <2> QED BY <1>0, <2>1, <2>2, <2>3, Advance DEF IInv, TypeOK, Vouched
<1>3. CASE storeAccess(r)
  <2>1. /\ clusterStored' \in BOOLEAN /\ known' \in BOOLEAN /\ UNCHANGED <<allow, deny>>
        /\ ever \subseteq ever' /\ ever' \subseteq Guests /\ items' \subseteq ever'
        /\ Granting(q) => q.g \in ever'
    BY <1>0, <1>3 DEF storeAccess, IInv, TypeOK, Vouched
  <2>2. faults' \in 0..MaxFaults
    BY <1>0, <1>3, FaultTyped DEF storeAccess
  <2>3. CASE Goto(r, "record")
    <3> DEFINE n == [q EXCEPT !.pc = "record"]
    <3>1. Step(r, n)
      BY <2>3 DEF Goto
    <3>2. n \in Request /\ Control(n) /\ n.pc = "record" /\ (Granting(n) => n.g \in ever')
      BY <1>1, <2>1
    <3> HIDE DEF n
    <3> QED BY <2>1, <2>2, <3>1, <3>2, Advance DEF IInv, TypeOK, Vouched
  <2>4. CASE q.op = "delete" /\ Step(r, [q EXCEPT !.pc = "next"])
    <3> DEFINE n == [q EXCEPT !.pc = "next"]
    <3>1. n \in Request /\ Control(n) /\ n.pc = "next"
      BY <1>1, <2>4
    <3> HIDE DEF n
    <3> QED BY <2>1, <2>2, <2>4, <3>1, Advance DEF IInv, TypeOK, Vouched, n
  <2>5. CASE Step(r, Idle)
    BY <2>1, <2>2, <2>5, IdleTyped, Advance DEF IInv, TypeOK, Vouched, Idle
  <2> QED BY <1>3, <2>3, <2>4, <2>5 DEF storeAccess
<1>4. CASE recordAccess(r)
  <2>1. /\ clusterStored' \in BOOLEAN /\ known' \in BOOLEAN /\ UNCHANGED <<items, ever, faults>>
        /\ Granting(q) => q.g \in ever
    BY <1>0, <1>4 DEF recordAccess, At, Remembers, IInv, TypeOK
  <2>2. /\ allow' \in [Filed -> SUBSET Guests] /\ allow'["name"] = {}
        /\ allow'["id"] \subseteq ever
        /\ deny' \in [Filed -> SUBSET Guests] /\ deny'["name"] \subseteq {All}
    BY <1>0, <1>4, <2>1 DEF recordAccess, IInv, TypeOK, Vouched, Filed
  <2>3. CASE q.op = "delete" /\ Step(r, [q EXCEPT !.pc = "next"])
    <3> DEFINE n == [q EXCEPT !.pc = "next"]
    <3>1. n \in Request /\ Control(n) /\ n.pc = "next"
      BY <1>1, <2>3
    <3> HIDE DEF n
    <3> QED BY <1>0, <2>1, <2>2, <2>3, <3>1, Advance DEF IInv, TypeOK, Vouched, n
  <2>4. CASE Step(r, Idle)
    BY <1>0, <2>1, <2>2, <2>4, IdleTyped, Advance DEF IInv, TypeOK, Vouched, Idle
  <2> QED BY <1>4, <2>3, <2>4 DEF recordAccess
<1> QED BY <1>2, <1>3, <1>4

\* The steps of deleting the cluster preserve the invariant (deleteCluster,
\* removeCluster).
LEMMA DeletionPreserves ==
    ASSUME IInv, NEW r \in Requests,
           deleteDependents(r) \/ nextGuest(r) \/ endGuests(r) \/ uncacheCluster(r) \/ removeCluster(r)
    PROVE  IInv'
<1> DEFINE q == req[r]
<1>0. q \in Request /\ Control(q) /\ faults \in 0..MaxFaults
  BY DEF IInv, TypeOK, ControlOK
<1>1. /\ clusterStored' \in BOOLEAN /\ known' \in BOOLEAN /\ UNCHANGED <<items, allow, deny, ever>>
  BY DEF deleteDependents, nextGuest, endGuests, uncacheCluster, removeCluster, IInv, TypeOK
<1>2. faults' \in 0..MaxFaults
  BY <1>0, FaultTyped DEF deleteDependents, nextGuest, endGuests, uncacheCluster, removeCluster
<1>3. CASE Step(r, Idle)
  BY <1>1, <1>2, <1>3, IdleTyped, AdvanceQuietly DEF Idle
<1>4. CASE deleteDependents(r)
  <2> DEFINE n == [q EXCEPT !.pc = "look", !.last = TRUE]
  <2>1. n \in Request /\ Control(n) /\ n.pc = "look"
    BY <1>0, <1>4 DEF deleteDependents, At, Request, PCs, Control
  <2>2. Step(r, n) \/ Step(r, Idle)
    BY <1>4 DEF deleteDependents
  <2> HIDE DEF n
  <2> QED BY <1>1, <1>2, <1>3, <2>1, <2>2, AdvanceQuietly
<1>5. CASE nextGuest(r)
  <2>1. PICK g \in q.todo : Step(r, [q EXCEPT !.g = g, !.todo = @ \ {g}, !.pc = "forget"])
    BY <1>5 DEF nextGuest
  <2> DEFINE n == [q EXCEPT !.g = g, !.todo = @ \ {g}, !.pc = "forget"]
  <2>2. q.pc = "next" /\ q.op = "delete" /\ g \in Guests
    BY <1>0, <1>5, <2>1 DEF nextGuest, At, Control, Request
  <2>3. n \in Request /\ Control(n) /\ n.pc = "forget"
    BY <1>0, <2>2 DEF Request, PCs, Control
  <2>4. Step(r, n)
    BY <2>1
  <2> HIDE DEF n
  <2> QED BY <1>1, <1>2, <2>3, <2>4, AdvanceQuietly
<1>6. ASSUME NEW pc \in {"uncache", "remove"}, Goto(r, pc) PROVE IInv'
  <2> DEFINE n == [q EXCEPT !.pc = pc]
  <2>1. n \in Request /\ Control(n) /\ n.pc = pc
    BY <1>0 DEF Request, PCs, Control
  <2>2. Step(r, n)
    BY <1>6 DEF Goto
  <2> HIDE DEF n
  <2> QED BY <1>1, <1>2, <2>1, <2>2, AdvanceQuietly
<1> QED BY <1>3, <1>4, <1>5, <1>6 DEF endGuests, uncacheCluster, removeCluster

\* A client's request enters with operands of the right type (the endpoints).
LEMMA StartPreserves ==
    ASSUME IInv, NEW r \in Requests, Start(r)
    PROVE  IInv'
<1>1. PICK op \in Ops, g \in Guests, whose \in Guests :
          Begin(r, op, g, whose) /\ (op = "checkAllByName" => g = All)
  BY DEF Start, Guests, Ops, checkGroupClusterAccess, checkUniversalAccess,
         checkUniversalAccessByName, listClusterAllowedgroups, grantGroupClusterAccess,
         revokeGroupClusterAccess, deleteCluster
<1> DEFINE n == [Idle EXCEPT !.op = op, !.pc = "find", !.g = g, !.whose = whose]
<1>2. n \in Request /\ Control(n) /\ n.pc = "find"
  BY <1>1, IdleTyped DEF Request, PCs, Control, Idle
<1>3. Step(r, n) /\ UNCHANGED <<clusterStored, known, items, allow, deny, ever, faults>>
  BY <1>1 DEF Begin
<1> HIDE DEF n
<1> QED BY <1>2, <1>3, AdvanceQuietly DEF IInv, TypeOK

\* Time passing only takes records out of the cache (CacheRecord::expired).
LEMMA ExpirePreserves == ASSUME IInv, Expire PROVE IInv'
<1>1. /\ UNCHANGED <<clusterStored, items, req, ever, faults>> /\ known' \in BOOLEAN
      /\ allow' \in [Filed -> SUBSET Guests] /\ deny' \in [Filed -> SUBSET Guests]
      /\ \A k \in Filed : allow'[k] \subseteq allow[k] /\ deny'[k] \subseteq deny[k]
  BY DEF Expire, ExpireCluster, ExpireAllow, ExpireDeny, Expired, IInv, TypeOK
<1> QED BY <1>1 DEF IInv, TypeOK, ControlOK, Control, Vouched, Remembers, Key, Granting, Filed

\* Every step of the service preserves the invariant.
LEMMA NextPreserves == ASSUME IInv, [Next]_vars PROVE IInv'
<1>1. CASE UNCHANGED vars
  BY <1>1 DEF vars, IInv, TypeOK, ControlOK, Control, Vouched, Remembers, Key, Granting
<1>2. CASE Expire
  BY <1>2, ExpirePreserves
<1>3. ASSUME NEW r \in Requests, Start(r) \/ Proceed(r) PROVE IInv'
  BY <1>3, StartPreserves, LookupsPreserve, ChangesPreserve, DeletionPreserves DEF Proceed
<1> QED BY <1>1, <1>2, <1>3 DEF Next

\* For any number of threads and groups and any failed calls, everything that the
\* table, the cache and the requests under way hold as access goes back to a grant,
\* and requests are where their endpoint can take them.
THEOREM AccessInvariant == Spec => []IInv
<1>1. Init => IInv
  <2> SUFFICES ASSUME Init PROVE IInv
    OBVIOUS
  <2>1. \A r \in Requests : req[r] = Idle
    BY DEF Init
  <2>2. TypeOK
    <3>1. items \subseteq Guests /\ ever \subseteq Guests
      BY DEF Init
    <3>2. /\ allow \in [Filed -> SUBSET Guests] /\ allow["name"] = {}
          /\ deny \in [Filed -> SUBSET Guests] /\ deny["name"] \subseteq {All}
      BY DEF Init, Filed
    <3>3. req \in [Requests -> Request]
      BY IdleTyped DEF Init
    <3>4. faults \in 0..MaxFaults
      BY AccessAssumption DEF Init
    <3> QED BY <3>1, <3>2, <3>3, <3>4 DEF Init, TypeOK
  <2>3. ControlOK
    BY <2>1, IdleTyped DEF ControlOK
  <2>4. Vouched
    BY <2>1, IdleTyped DEF Init, Vouched, Filed
  <2> QED BY <2>2, <2>3, <2>4 DEF IInv
<1>2. IInv /\ [Next]_vars => IInv'
  BY NextPreserves
<1> QED BY <1>1, <1>2, PTL DEF Spec

\* Under every interleaving of lookups, grants, revocations and deletions, and
\* whatever calls fail, groupAllowedOnCluster admits a group only if access was
\* granted to it or to all groups at some time.
THEOREM OnlyGranted == Spec => []OnlyGrantedAdmitted
<1>1. IInv => OnlyGrantedAdmitted
  BY DEF IInv, Vouched, OnlyGrantedAdmitted, Admitted, Finding
<1> QED BY <1>1, AccessInvariant, PTL
(***************************************************************************)
(* Requests one at a time                                                  *)
(*                                                                         *)
(* What the cache remembers is what the table has (AnswersRight): a change *)
(* erases the contrary record before it stores, and records the new answer *)
(* only afterwards, so a call that fails leaves at most nothing to be      *)
(* remembered.  That rests on what the request in progress has read or     *)
(* done (Certain).  As long as no call has failed and all groups never had *)
(* access, a deletion has what is left of the items in hand (Removes).     *)
(***************************************************************************)
OneThread == \E r : Requests = {r}

\* What request q has read or done still holds; only the lookup of the wildcard
\* precedes a deletion's listing.
Certain(q) ==
    /\ q.pc = "note" /\ Key(q) = "id" => (q.saw <=> q.g \in items)
    /\ q.pc = "store" => q.g \notin IF Granting(q) THEN deny["id"] ELSE allow["id"]
    /\ q.pc = "record" => (Granting(q) <=> q.g \in items)
    /\ q.pc \notin {"idle", "find"} => clusterStored
    /\ q.pc = "remove" => ~known
    /\ q.op = "delete" /\ q.pc \in {"find", "found", "look", "note", "query", "dependents"} => q.g = All

\* The items that are left are those that request q has still to remove.
Removes(q) ==
    /\ q.op = "delete" /\ q.pc \in {"next", "record"} => items \subseteq q.todo
    /\ q.op = "delete" /\ q.pc \in {"forget", "store"} => items \subseteq q.todo \cup {q.g}
    /\ q.pc \in {"uncache", "remove"} => items = {}

AnswersRight ==
    /\ allow["id"] \subseteq items /\ deny["id"] \cap items = {}
    /\ known => clusterStored

Emptied ==
    faults = 0 /\ All \notin ever =>
        /\ ~clusterStored => items = {}
        /\ \A r \in Requests : Removes(req[r])

AnswersInv == IInv /\ AnswersRight /\ Emptied /\ \A r \in Requests : Certain(req[r])

\* A request that goes on to something else still knows what it relies on.
LEMMA StillCertain ==
    ASSUME NEW n, Certain(n), n.pc # "store", UNCHANGED <<clusterStored, items>>,
           known' => known \/ n.pc # "remove"
    PROVE  Certain(n)' /\ (Removes(n) => Removes(n)')
BY DEF Certain, Removes, Key, Granting

\* An answered request has nothing to know.
LEMMA IdleCertain == Certain(Idle) /\ Removes(Idle) /\ Certain(Idle)' /\ Removes(Idle)'
BY DEF Certain, Removes, Idle

\* What a step has to establish when there is one request.
LEMMA AdvanceAnswers ==
    ASSUME OneThread, AnswersInv, IInv', NEW r \in Requests, NEW n, Step(r, n),
           AnswersRight', Certain(n)',
           faults' = 0 /\ All \notin ever' => (~clusterStored' => items' = {}) /\ Removes(n)'
    PROVE  AnswersInv'
<1>1. req'[r] = n /\ \A s \in Requests : s = r
  BY DEF AnswersInv, IInv, TypeOK, Step, OneThread
<1> QED BY <1>1 DEF AnswersInv, Emptied

\* No call fails in a step after which none has.
LEMMA NoneFailed ==
    ASSUME IInv, faults' = faults \/ CallFails, faults' = 0 PROVE faults = 0 /\ ~CallFails
BY AccessAssumption DEF IInv, TypeOK, CallFails

\* A step that stores nothing and remembers no answer.
LEMMA QuietAnswers ==
    ASSUME OneThread, AnswersInv, IInv', NEW r \in Requests, NEW n, Step(r, n),
           UNCHANGED <<clusterStored, items, allow, deny, ever>>, Certain(n), n.pc # "store",
           known' => clusterStored /\ (known \/ n.pc # "remove"),
           faults' = faults \/ CallFails, faults' = 0 /\ All \notin ever => Removes(n)
    PROVE  AnswersInv'
<1>1. Certain(n)' /\ (Removes(n) => Removes(n)')
  BY StillCertain
<1>2. AnswersRight'
  BY DEF AnswersInv, AnswersRight
<1>3. ASSUME faults' = 0, All \notin ever' PROVE (~clusterStored' => items' = {}) /\ Removes(n)'
  <2>1. faults = 0
    BY <1>3, NoneFailed DEF AnswersInv
  <2> QED BY <1>1, <1>3, <2>1 DEF AnswersInv, Emptied
<1> QED BY <1>1, <1>2, <1>3, AdvanceAnswers

\* The listing that a deletion uses is the whole of what has to be removed.
LEMMA ListedAnswers ==
    ASSUME NEW q \in Request, clusterStored, Certain(q), q.pc \in {"look", "note", "query"}, NEW found
    PROVE  /\ Certain(Listed(q, found)) /\ Listed(q, found).pc # "store"
           /\ (q.op = "delete" => items \subseteq found) => Removes(Listed(q, found))
<1>1. CASE q.op = "delete" /\ q.last
  <2>1. PICK n : n = [q EXCEPT !.pc = "next", !.todo = found]
    OBVIOUS
  <2>2. n = Listed(q, found)
    BY <1>1, <2>1 DEF Listed
  <2>3. n.op = "delete" /\ n.pc = "next" /\ n.todo = found
    BY <1>1, <2>1 DEF Request
  <2> QED BY <1>1, <2>2, <2>3 DEF Certain, Removes
<1>2. CASE q.op = "delete" /\ ~q.last
  <2>1. PICK n : n = [q EXCEPT !.pc = "dependents"]
    OBVIOUS
  <2>2. n = Listed(q, found)
    BY <1>2, <2>1 DEF Listed
  <2>3. n.op = "delete" /\ n.pc = "dependents" /\ n.g = All
    BY <1>2, <2>1 DEF Request, Certain
  <2> QED BY <2>2, <2>3 DEF Certain, Removes
<1>3. CASE q.op # "delete"
  <2>1. Listed(q, found) = Idle
    BY <1>3 DEF Listed
  <2> QED BY <2>1, IdleCertain DEF Idle
<1> QED BY <1>1, <1>2, <1>3

\* So is it after a lookup, unless all groups had access.
LEMMA ConcludedAnswers ==
    ASSUME NEW q \in Request, Control(q), clusterStored, Certain(q), q.pc \in {"look", "note"}, NEW yes \in BOOLEAN
    PROVE  /\ Concluded(q, yes) \in Request
           /\ Certain(Concluded(q, yes)) /\ Concluded(q, yes).pc \notin {"store", "note"}
           /\ (q.op = "delete" => ~yes) => Removes(Concluded(q, yes))
<1>0. Concluded(q, yes) \in Request /\ Concluded(q, yes).pc # "note"
  BY ConcludedTyped
<1>1. CASE q.op = "check" /\ ~yes /\ q.g # q.whose
  <2>1. PICK n : n = [q EXCEPT !.pc = "look", !.g = q.whose]
    OBVIOUS
  <2>2. n = Concluded(q, yes) /\ n.op = "check" /\ n.pc = "look"
    BY <1>1, <2>1 DEF Concluded, Request
  <2> QED BY <1>0, <2>2 DEF Certain, Removes
<1>2. CASE q.op \in {"list", "delete"} /\ ~yes
  <2>1. PICK n : n = [q EXCEPT !.pc = "query"]
    OBVIOUS
  <2>2. n = Concluded(q, yes) /\ n.op = q.op /\ n.pc = "query" /\ n.g = q.g
    BY <1>2, <2>1 DEF Concluded, Request
  <2> QED BY <1>0, <2>2 DEF Certain, Removes
<1>3. CASE q.op \in {"list", "delete"} /\ yes
  <2>1. Concluded(q, yes) = Listed(q, {All})
    BY <1>3 DEF Concluded
  <2>2. q.op = "list" => Listed(q, {All}) = Idle
    BY DEF Listed
  <2> QED BY <1>0, <1>3, <2>1, <2>2, ListedAnswers, IdleCertain
<1>4. CASE ~(q.op = "check" /\ ~yes /\ q.g # q.whose) /\ q.op \notin {"list", "delete"}
  <2>1. Concluded(q, yes) = Idle
    BY <1>4 DEF Concluded
  <2> QED BY <1>0, <2>1, IdleCertain DEF Idle
<1> QED BY <1>1, <1>2, <1>3, <1>4

\* What getCluster's caller goes on to.
LEMMA HandleAnswers ==
    ASSUME NEW q \in Request, clusterStored, Certain(q), q.pc \in {"find", "found"}
    PROVE  Certain(Handle(q)) /\ Handle(q).pc \notin {"store", "remove"}
           /\ (q.op # "delete" \/ Handle(q).pc = "look" => Removes(Handle(q)))
<1>1. PICK n : n = Handle(q)
  OBVIOUS
<1>2. /\ n.op = q.op /\ n.g = q.g /\ n.pc \in {"forget", "look"}
      /\ n.pc = "forget" => q.op # "delete"
  BY <1>1 DEF Handle, Request
<1> QED BY <1>1, <1>2 DEF Certain, Removes

\* Looking up the cluster and its guests (getCluster, clusterAllowsAllGroups,
\* groupAllowedOnCluster, listGroupsAllowedOnCluster).
LEMMA LookupsAnswer ==
    ASSUME OneThread, AnswersInv, IInv', NEW r \in Requests,
           getCluster(r) \/ rememberCluster(r) \/ lookUpAccess(r) \/ noteAccess(r) \/ queryGuests(r)
    PROVE  AnswersInv'
<1> DEFINE q == req[r]
<1>0. /\ q \in Request /\ Control(q) /\ Certain(q) /\ IInv
      /\ items \subseteq ever /\ allow["id"] \subseteq items /\ deny["id"] \cap items = {}
      /\ allow["name"] = {} /\ (known => clusterStored)
  BY DEF AnswersInv, IInv, TypeOK, ControlOK, Vouched, AnswersRight
<1>1. CASE getCluster(r)
  <2>1. /\ q.pc = "find" /\ UNCHANGED <<clusterStored, known, items, allow, deny, ever>>
        /\ faults' = faults \/ CallFails
    BY <1>1 DEF getCluster, At
  <2>2. CASE Step(r, Idle)
    BY <1>0, <2>1, <2>2, IdleCertain, QuietAnswers DEF Idle
  <2>3. CASE clusterStored /\ Step(r, Handle(q))
    <3>1. Handle(q).pc = "look" \/ q.op # "delete"
      BY DEF Handle
    <3> QED BY <1>0, <2>1, <2>3, <3>1, HandleAnswers, QuietAnswers
  <2>4. CASE clusterStored /\ Goto(r, "found")
    <3>1. PICK n : n = [q EXCEPT !.pc = "found"]
      OBVIOUS
    <3>2. n.pc = "found" /\ n.op = q.op /\ n.g = q.g
      BY <1>0, <3>1 DEF Request
    <3>3. Certain(n) /\ Removes(n)
      BY <1>0, <2>1, <2>4, <3>2 DEF Certain, Removes
    <3> QED BY <1>0, <2>1, <2>4, <3>1, <3>2, <3>3, QuietAnswers DEF Goto
  <2> QED BY <1>0, <1>1, <2>2, <2>3, <2>4 DEF getCluster
<1>2. CASE rememberCluster(r)
  <2>1. /\ q.pc = "found" /\ clusterStored /\ UNCHANGED <<clusterStored, items, allow, deny, ever, faults>>
        /\ Step(r, Handle(q))
    BY <1>0, <1>2 DEF rememberCluster, At, Certain
  <2>2. Handle(q).pc = "look" \/ q.op # "delete"
    BY DEF Handle
  <2> QED BY <1>0, <2>1, <2>2, HandleAnswers, QuietAnswers
<1>3. CASE lookUpAccess(r)
  <2>1. /\ q.pc = "look" /\ clusterStored /\ UNCHANGED <<clusterStored, known, items, allow, deny, ever>>
        /\ faults' = faults \/ CallFails
    BY <1>0, <1>3 DEF lookUpAccess, At, Certain
  <2>2. CASE UNCHANGED faults /\ Step(r, Concluded(q, q.g \in allow[Key(q)]))
    <3>1. ASSUME NEW yes \in BOOLEAN, yes <=> q.g \in allow[Key(q)], Step(r, Concluded(q, yes))
          PROVE  AnswersInv'
      <4>1. All \notin ever => (q.op = "delete" => ~yes)
        BY <1>0, <2>1, <3>1 DEF Certain, Key
      <4> QED BY <1>0, <2>1, <2>2, <3>1, <4>1, ConcludedAnswers, QuietAnswers
    <3>2. (q.g \in allow[Key(q)]) \in BOOLEAN
      OBVIOUS
    <3> QED BY <2>2, <3>1, <3>2
  <2>3. CASE Step(r, [q EXCEPT !.pc = "note", !.saw = Key(q) = "id" /\ q.g \in items])
    <3>1. PICK b \in BOOLEAN : b = (Key(q) = "id" /\ q.g \in items)
      OBVIOUS
    <3>2. PICK n : n = [q EXCEPT !.pc = "note", !.saw = b]
      OBVIOUS
    <3>3. n.pc = "note" /\ n.saw = b /\ n.op = q.op /\ n.g = q.g /\ Step(r, n)
      BY <1>0, <2>3, <3>1, <3>2 DEF Request
    <3>4. Certain(n) /\ Removes(n)
      BY <1>0, <2>1, <3>1, <3>3 DEF Certain, Removes, Key
    <3> QED BY <1>0, <2>1, <3>3, <3>4, QuietAnswers
  <2>4. CASE CallFails /\ Step(r, Concluded(q, FALSE))
    BY <1>0, <2>1, <2>4, ConcludedAnswers, QuietAnswers
  <2> QED BY <1>3, <2>2, <2>3, <2>4 DEF lookUpAccess
<1>4. CASE noteAccess(r)
  <2>1. q.pc = "note" /\ clusterStored /\ UNCHANGED <<clusterStored, known, items, ever, faults>> /\ q.saw \in BOOLEAN
    BY <1>0, <1>4 DEF noteAccess, At, Certain, Request
  <2>2. PICK m : m = Concluded(q, q.saw)
    OBVIOUS
  <2>3. /\ m \in Request /\ Certain(m) /\ m.pc \notin {"note", "store"}
        /\ All \notin ever => Removes(m)
    <3>1. All \notin ever => (q.op = "delete" => ~q.saw)
      BY <1>0, <2>1 DEF Certain, Key
    <3> QED BY <1>0, <2>1, <2>2, <3>1, ConcludedAnswers
  <2>4. PICK n : n = [m EXCEPT !.saw = FALSE]
    OBVIOUS
  <2>5. n.pc = m.pc /\ n.op = m.op /\ n.g = m.g /\ n.todo = m.todo /\ Step(r, n)
    BY <1>4, <2>2, <2>3, <2>4 DEF noteAccess, Request
  <2>6. Certain(n)' /\ (All \notin ever => Removes(n)')
    BY <2>1, <2>3, <2>5 DEF Certain, Removes, Granting
  <2>7. AnswersRight'
    <3>1. q.saw => Key(q) = "id"
      BY <1>0, <2>1 DEF IInv, Vouched, Remembers
    <3>2. CASE q.saw
      <4>1. allow'["id"] = allow["id"] \cup {q.g} /\ deny' = deny /\ q.g \in items
        BY <1>0, <1>4, <2>1, <3>1, <3>2 DEF noteAccess, Certain, IInv, TypeOK, Filed
      <4> QED BY <1>0, <2>1, <4>1 DEF AnswersRight
    <3>3. CASE ~q.saw
      <4>1. /\ allow' = allow /\ deny' = [deny EXCEPT ![Key(q)] = @ \cup {q.g}]
            /\ Key(q) = "id" => q.g \notin items
        BY <1>0, <1>4, <2>1, <3>3 DEF noteAccess, Certain
      <4>2. deny'["id"] \subseteq deny["id"] \cup {q.g} /\ (Key(q) # "id" => deny'["id"] = deny["id"])
        BY <1>0, <4>1 DEF IInv, TypeOK, Filed, Key
      <4> QED BY <1>0, <2>1, <4>1, <4>2 DEF AnswersRight
    <3> QED BY <3>2, <3>3
  <2>8. ~clusterStored' => items' = {}
    BY <2>1
  <2> QED BY <2>1, <2>5, <2>6, <2>7, <2>8, AdvanceAnswers
<1>5. CASE queryGuests(r)
  <2>1. /\ q.pc = "query" /\ clusterStored /\ UNCHANGED <<clusterStored, known, items, allow, deny, ever>>
        /\ faults' = faults \/ CallFails
    BY <1>0, <1>5 DEF queryGuests, At, Certain
  <2>2. CASE UNCHANGED faults /\ Step(r, Listed(q, Queried))
    <3>1. All \notin ever => items \subseteq Queried
      BY <1>0 DEF IInv, TypeOK, Guests, Queried
    <3> QED BY <1>0, <2>1, <2>2, <3>1, ListedAnswers, QuietAnswers
  <2>3. CASE CallFails /\ Step(r, Listed(q, {}))
    <3>1. faults' # 0
      BY <1>0, <2>3, NoneFailed
    <3> QED BY <1>0, <2>1, <2>3, <3>1, ListedAnswers, QuietAnswers
  <2> QED BY <1>5, <2>2, <2>3 DEF queryGuests
<1> QED BY <1>1, <1>2, <1>3, <1>4, <1>5

\* Granting and revoking access (addGroupToCluster, removeGroupFromCluster): the
\* contrary record goes first and the new one comes last.
LEMMA ChangesAnswer ==
    ASSUME OneThread, AnswersInv, IInv', NEW r \in Requests,
           forgetAccess(r) \/ storeAccess(r) \/ recordAccess(r)
    PROVE  AnswersInv'
<1> DEFINE q == req[r]
<1>0. /\ q \in Request /\ Certain(q) /\ IInv
      /\ allow["id"] \subseteq items /\ deny["id"] \cap items = {} /\ (known => clusterStored)
      /\ allow \in [Filed -> SUBSET Guests] /\ deny \in [Filed -> SUBSET Guests]
      /\ faults = 0 /\ All \notin ever => Removes(q)
  BY DEF AnswersInv, IInv, TypeOK, AnswersRight, Emptied
<1>1. CASE forgetAccess(r)
  <2>1. q.pc = "forget" /\ clusterStored /\ UNCHANGED <<clusterStored, known, items, ever, faults>>
    BY <1>0, <1>1 DEF forgetAccess, At, Certain
  <2>2. PICK n : n = [q EXCEPT !.pc = "store"]
    OBVIOUS
  <2>3. n.pc = "store" /\ n.op = q.op /\ n.g = q.g /\ n.todo = q.todo /\ Step(r, n)
    BY <1>0, <1>1, <2>2 DEF forgetAccess, Goto, Request
  <2>4. /\ allow'["id"] \subseteq allow["id"] /\ deny'["id"] \subseteq deny["id"]
        /\ q.g \notin IF Granting(q) THEN deny'["id"] ELSE allow'["id"]
    BY <1>0, <1>1 DEF forgetAccess, Filed
  <2>5. AnswersRight'
    BY <1>0, <2>1, <2>4 DEF AnswersRight
  <2>6. Certain(n)'
    BY <2>1, <2>3, <2>4 DEF Certain, Granting
  <2>7. Removes(q) => Removes(n)'
    BY <2>1, <2>3 DEF Removes
  <2> QED BY <1>0, <2>1, <2>3, <2>5, <2>6, <2>7, AdvanceAnswers
<1>2. CASE storeAccess(r)
  <2>1. q.pc = "store" /\ clusterStored /\ UNCHANGED <<clusterStored, known, allow, deny>> /\ ever \subseteq ever'
    BY <1>0, <1>2 DEF storeAccess, At, Certain
  <2>2. AnswersRight'
    <3>1. /\ Granting(q) => items' \in {items, items \cup {q.g}} /\ q.g \notin deny["id"]
          /\ ~Granting(q) => items' \in {items, items \ {q.g}} /\ q.g \notin allow["id"]
      BY <1>0, <1>2, <2>1 DEF storeAccess, Certain
    <3> QED BY <1>0, <2>1, <3>1 DEF AnswersRight
  <2>3. CASE Goto(r, "record") /\ UNCHANGED faults
               /\ items' = IF Granting(q) THEN items \cup {q.g} ELSE items \ {q.g}
    <3>1. PICK n : n = [q EXCEPT !.pc = "record"]
      OBVIOUS
    <3>2. n.pc = "record" /\ n.op = q.op /\ n.g = q.g /\ n.todo = q.todo /\ Step(r, n)
      BY <1>0, <2>3, <3>1 DEF Goto, Request
    <3>3. Certain(n)'
      BY <2>1, <2>3, <3>2 DEF Certain, Granting
    <3>4. Removes(q) => Removes(n)'
      BY <2>1, <2>3, <3>2 DEF Removes, Granting
    <3> QED BY <1>0, <2>1, <2>2, <2>3, <3>2, <3>3, <3>4, AdvanceAnswers
  <2>4. CASE CallFails
    <3>1. faults' # 0
      BY <1>0, <2>4, NoneFailed
    <3>2. PICK n : Step(r, n) /\ (n = Idle \/ n = [q EXCEPT !.pc = "next"])
      <4>1. UNCHANGED faults => ~CallFails
        BY <1>0, AccessAssumption DEF CallFails, IInv, TypeOK
      <4>2. Step(r, Idle) \/ Step(r, [q EXCEPT !.pc = "next"])
        BY <1>2, <2>4, <4>1 DEF storeAccess
      <4> QED BY <4>2
    <3>3. n.pc = "idle" \/ n.pc = "next"
      BY <1>0, <3>2 DEF Request, Idle
    <3>4. Certain(n)'
      BY <2>1, <3>3, <3>2, IdleCertain DEF Certain
    <3> QED BY <2>2, <3>1, <3>2, <3>4, AdvanceAnswers
  <2> QED BY <1>2, <2>3, <2>4 DEF storeAccess
<1>3. CASE recordAccess(r)
  <2>1. q.pc = "record" /\ clusterStored /\ UNCHANGED <<clusterStored, known, items, ever, faults>>
    BY <1>0, <1>3 DEF recordAccess, At, Certain
  <2>2. AnswersRight'
    <3>1. CASE Granting(q)
      <4>1. allow'["id"] = allow["id"] \cup {q.g} /\ deny' = deny /\ q.g \in items
        BY <1>0, <1>3, <2>1, <3>1 DEF recordAccess, Certain, Filed
      <4> QED BY <1>0, <2>1, <4>1 DEF AnswersRight
    <3>2. CASE ~Granting(q)
      <4>1. deny'["id"] = deny["id"] \cup {q.g} /\ allow' = allow /\ q.g \notin items
        BY <1>0, <1>3, <2>1, <3>2 DEF recordAccess, Certain, Filed
      <4> QED BY <1>0, <2>1, <4>1 DEF AnswersRight
    <3> QED BY <3>1, <3>2
  <2>3. CASE q.op = "delete" /\ Step(r, [q EXCEPT !.pc = "next"])
    <3>1. PICK n : n = [q EXCEPT !.pc = "next"]
      OBVIOUS
    <3>2. n.pc = "next" /\ n.op = q.op /\ n.todo = q.todo /\ Step(r, n)
      BY <1>0, <2>3, <3>1 DEF Request
    <3>3. Certain(n)' /\ (Removes(q) => Removes(n)')
      BY <2>1, <3>2 DEF Certain, Removes
    <3> QED BY <1>0, <2>1, <2>2, <3>2, <3>3, AdvanceAnswers
  <2>4. CASE Step(r, Idle)
    BY <1>0, <2>1, <2>2, <2>4, IdleCertain, AdvanceAnswers
  <2> QED BY <1>3, <2>3, <2>4 DEF recordAccess
<1> QED BY <1>1, <1>2, <1>3

\* Deleting the cluster removes the items of its guests before it removes the
\* cluster (deleteCluster, removeCluster).
LEMMA DeletionAnswers ==
    ASSUME OneThread, AnswersInv, IInv', NEW r \in Requests,
           deleteDependents(r) \/ nextGuest(r) \/ endGuests(r) \/ uncacheCluster(r) \/ removeCluster(r)
    PROVE  AnswersInv'
<1> DEFINE q == req[r]
<1>0. /\ q \in Request /\ Control(q) /\ Certain(q) /\ IInv /\ (known => clusterStored)
      /\ faults = 0 /\ All \notin ever => Removes(q)
  BY DEF AnswersInv, IInv, TypeOK, ControlOK, AnswersRight, Emptied
<1>1. CASE deleteDependents(r)
  <2>1. q.pc = "dependents" /\ clusterStored /\ UNCHANGED <<clusterStored, known, items, allow, deny, ever, faults>>
    BY <1>0, <1>1 DEF deleteDependents, At, Certain
  <2>2. PICK n : n = [q EXCEPT !.pc = "look", !.last = TRUE]
    OBVIOUS
  <2>3. n.pc = "look" /\ n.op = q.op /\ n.g = q.g
    BY <1>0, <2>2 DEF Request
  <2>4. Certain(n) /\ Removes(n)
    BY <1>0, <2>1, <2>3 DEF Certain, Removes
  <2>5. Step(r, n) \/ Step(r, Idle)
    BY <1>1, <2>2 DEF deleteDependents
  <2> QED BY <1>0, <2>1, <2>3, <2>4, <2>5, IdleCertain, QuietAnswers DEF Idle
<1>2. CASE nextGuest(r)
  <2>1. PICK g \in q.todo : Step(r, [q EXCEPT !.g = g, !.todo = @ \ {g}, !.pc = "forget"])
    BY <1>2 DEF nextGuest
  <2>2. q.pc = "next" /\ clusterStored /\ UNCHANGED <<clusterStored, known, items, allow, deny, ever, faults>>
    BY <1>0, <1>2 DEF nextGuest, At, Certain
  <2>3. PICK n : n = [q EXCEPT !.g = g, !.todo = @ \ {g}, !.pc = "forget"]
    OBVIOUS
  <2>4. n.pc = "forget" /\ n.op = q.op /\ n.g = g /\ n.todo = q.todo \ {g} /\ Step(r, n)
    BY <1>0, <2>1, <2>3 DEF Request
  <2>5. Certain(n) /\ (Removes(q) => Removes(n))
    BY <1>0, <2>2, <2>4 DEF Certain, Removes
  <2> QED BY <1>0, <2>2, <2>4, <2>5, QuietAnswers
<1>3. CASE endGuests(r)
  <2>1. /\ q.pc = "next" /\ q.op = "delete" /\ q.todo = {} /\ clusterStored
        /\ UNCHANGED <<clusterStored, known, items, allow, deny, ever, faults>>
    BY <1>0, <1>3 DEF endGuests, At, Certain, Control
  <2>2. PICK n : n = [q EXCEPT !.pc = "uncache"]
    OBVIOUS
  <2>3. n.pc = "uncache" /\ Step(r, n)
    BY <1>0, <1>3, <2>2 DEF endGuests, Goto, Request
  <2>4. Certain(n) /\ (Removes(q) => Removes(n))
    BY <1>0, <2>1, <2>3 DEF Certain, Removes
  <2> QED BY <1>0, <2>1, <2>3, <2>4, QuietAnswers
<1>4. CASE uncacheCluster(r)
  <2>1. q.pc = "uncache" /\ clusterStored /\ UNCHANGED <<clusterStored, items, allow, deny, ever, faults>> /\ ~known'
    BY <1>0, <1>4 DEF uncacheCluster, At, Certain
  <2>2. PICK n : n = [q EXCEPT !.pc = "remove"]
    OBVIOUS
  <2>3. n.pc = "remove" /\ Step(r, n)
    BY <1>0, <1>4, <2>2 DEF uncacheCluster, Goto, Request
  <2>4. Certain(n)' /\ (Removes(q) => Removes(n)')
    BY <1>0, <2>1, <2>3 DEF Certain, Removes
  <2>5. AnswersRight'
    BY <2>1 DEF AnswersInv, AnswersRight
  <2> QED BY <1>0, <2>1, <2>3, <2>4, <2>5, AdvanceAnswers
<1>5. CASE removeCluster(r)
  <2>1. /\ q.pc = "remove" /\ UNCHANGED <<known, items, allow, deny, ever>> /\ Step(r, Idle)
        /\ faults' = faults \/ CallFails
    BY <1>5 DEF removeCluster, At
  <2>2. ~known'
    BY <1>0, <2>1 DEF Certain
  <2>3. AnswersRight'
    BY <2>1, <2>2 DEF AnswersInv, AnswersRight
  <2>4. faults' = 0 => faults = 0
    BY <1>0, <2>1, NoneFailed
  <2>5. Removes(q) => items' = {}
    BY <2>1 DEF Removes
  <2> QED BY <1>0, <2>1, <2>3, <2>4, <2>5, IdleCertain, AdvanceAnswers
<1> QED BY <1>1, <1>2, <1>3, <1>4, <1>5

\* A request that arrives has read and done nothing yet.
LEMMA StartAnswers ==
    ASSUME OneThread, AnswersInv, IInv', NEW r \in Requests, Start(r) PROVE AnswersInv'
<1>1. PICK op, g, whose : Begin(r, op, g, whose) /\ (op = "delete" => g = All)
  BY DEF Start, checkGroupClusterAccess, checkUniversalAccess, checkUniversalAccessByName,
         listClusterAllowedgroups, grantGroupClusterAccess, revokeGroupClusterAccess, deleteCluster
<1>2. PICK n : n = [Idle EXCEPT !.op = op, !.pc = "find", !.g = g, !.whose = whose]
  OBVIOUS
<1>3. n.op = op /\ n.pc = "find" /\ n.g = g
  BY <1>2 DEF Idle
<1>4. Step(r, n) /\ UNCHANGED <<clusterStored, known, items, allow, deny, ever, faults>>
  BY <1>1, <1>2 DEF Begin
<1>5. Certain(n) /\ Removes(n)
  BY <1>1, <1>3 DEF Certain, Removes
<1>6. known => clusterStored
  BY DEF AnswersInv, AnswersRight
<1> QED BY <1>3, <1>4, <1>5, <1>6, QuietAnswers

\* What the cache forgets by and by it no longer vouches for.
LEMMA ExpiryAnswers == ASSUME AnswersInv, IInv', Expire PROVE AnswersInv'
<1>1. /\ UNCHANGED <<clusterStored, items, req, ever, faults>> /\ (known' => known)
      /\ allow'["id"] \subseteq allow["id"] /\ deny'["id"] \subseteq deny["id"]
  BY DEF Expire, ExpireCluster, ExpireAllow, ExpireDeny, Expired, AnswersInv, IInv, TypeOK, Filed
<1>2. AnswersRight'
  BY <1>1 DEF AnswersInv, AnswersRight
<1>3. \A q : Certain(q) => Certain(q)'
  BY <1>1 DEF Certain, Key, Granting
<1>4. \A q : Removes(q) => Removes(q)'
  BY <1>1 DEF Removes
<1>5. Emptied'
  BY <1>1, <1>4 DEF AnswersInv, Emptied
<1> QED BY <1>1, <1>2, <1>3, <1>5 DEF AnswersInv

\* For requests that come one after the other, whatever calls fail: what the cache
\* remembers of a group is what the table has, at every step of granting, revoking,
\* checking and listing access; and unless a call failed or all groups had access,
\* a deletion has all items in hand that it has still to remove.
THEOREM AnswersInvariant == OneThread => (Spec => []AnswersInv)
<1> SUFFICES ASSUME OneThread PROVE Spec => []AnswersInv
  OBVIOUS
<1>1. ASSUME Init, IInv PROVE AnswersInv
  <2>1. AnswersRight
    BY <1>1 DEF Init, AnswersRight, Filed
  <2>2. \A r \in Requests : req[r] = Idle
    BY <1>1 DEF Init
  <2> QED BY <1>1, <2>1, <2>2, IdleCertain DEF Init, AnswersInv, Emptied
<1>2. ASSUME AnswersInv, IInv', [Next]_vars PROVE AnswersInv'
  <2>1. CASE UNCHANGED vars
    BY <1>2, <2>1 DEF vars, AnswersInv, AnswersRight, Emptied, Removes, Certain, Key, Granting
  <2>2. CASE Expire
    BY <1>2, <2>2, ExpiryAnswers
  <2>3. ASSUME NEW r \in Requests, Start(r) \/ Proceed(r) PROVE AnswersInv'
    BY <1>2, <2>3, StartAnswers, LookupsAnswer, ChangesAnswer, DeletionAnswers DEF Proceed
  <2> QED BY <1>2, <2>1, <2>2, <2>3 DEF Next
<1> QED BY <1>1, <1>2, AccessInvariant, PTL DEF Spec

\* Requests that come one after the other get the answers the table gives
\* (groupAllowedOnCluster), also after failed calls, and a deleted cluster leaves no
\* access item (removeCluster) unless a call failed or all groups had access.
THEOREM AccessAnswers == OneThread => (Spec => []AccessAnswersAgree)
<1>1. ASSUME AnswersInv PROVE AccessAnswersAgree
  <2>1. \A g : Finding(g) <=> g \in items
    BY <1>1 DEF AnswersInv, AnswersRight, Finding
  <2>2. AnswersAgree
    BY <2>1 DEF AnswersAgree, Admitted
  <2>3. GuestsRemoved
    BY <1>1 DEF AnswersInv, Emptied, GuestsRemoved
  <2> QED BY <2>2, <2>3 DEF AccessAnswersAgree
<1> QED BY <1>1, AnswersInvariant, PTL
=============================================================================

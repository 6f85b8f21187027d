-------------------- MODULE MonitoringCredentialsProofs --------------------
(***************************************************************************)
(* Proofs about MonitoringCredentials, for any number of threads, clusters *)
(* and keys, any set of endpoints offered and any number of failing        *)
(* database calls.                                                         *)
(*                                                                         *)
(* The argument: a key becomes linked to a cluster (in the table, a cache, *)
(* a request or an answer) only when a request acquires it, and then only  *)
(* to the cluster of that request.  Every other step copies links that     *)
(* exist already.  A linked key is never available again, so a second      *)
(* request cannot acquire it.                                              *)
(*                                                                         *)
(* The last part is about requests that come one after the other and calls *)
(* that do not fail: then the accounts of the pool balance.                *)
(***************************************************************************)
EXTENDS MonitoringCredentials, TLAPS

(***************************************************************************)
(* Requests                                                                *)
(***************************************************************************)

\* The record of an idle thread is well formed and links no key.
LEMMA IdleRequest ==
    ASSUME NEW s \in {"ok", "error"}
    PROVE  /\ Idle(s) \in Request
           /\ Control(Idle(s))
           /\ \A k \in Keys : \A c \in Clusters : ~Links(Idle(s), k, c)
BY CredAssumption DEF Idle, Request, Control, Links, PCs, Ops, MaybeKey, OnCluster, OnKey

\* After a lookup that returned key k, the request is well formed and links to
\* its cluster what it linked before, and k.
LEMMA ReturnedRequest ==
    ASSUME NEW q \in Request, Control(q), NEW v \in MaybeKey,
           q.pc \in {"find", "fillName"}, q.ret # "reply"
    PROVE  /\ Returned(q, v) \in Request
           /\ Control(Returned(q, v))
           /\ \A k \in Keys : \A c \in Clusters :
                Links(Returned(q, v), k, c) => Links(q, k, c) \/ (q.c = c /\ v = k)
<1>0. CASE q.ret = "setup"
    <2> DEFINE p == Returned(q, v)
    <2>1. p = [q EXCEPT !.pc = "find", !.ret = "access", !.load = NoKey]
        BY <1>0 DEF Returned
    <2>2. p \in Request
        BY <2>1 DEF Request, PCs, MaybeKey
    <2>3. /\ p.pc = "find" /\ p.ret = "access" /\ p.c = q.c /\ p.k = q.k
          /\ p.view = q.view /\ p.load = NoKey
        BY <2>1 DEF Request
    <2>4. q.c \in Clusters
        BY DEF Control, OnCluster
    <2> HIDE DEF p
    <2>5. Control(p)
        BY <2>3, <2>4 DEF Control, OnCluster, OnKey
    <2>6. ASSUME NEW k \in Keys, NEW c \in Clusters, Links(p, k, c)
          PROVE  Links(q, k, c)
        BY <2>3, <2>6, CredAssumption DEF Links
    <2> QED BY <2>2, <2>5, <2>6 DEF p
<1>1. CASE q.ret \notin {"entry", "setup"}
    <2> DEFINE p == Returned(q, v)
    <2>1. p = [q EXCEPT !.pc = q.ret, !.load = NoKey]
        BY <1>1 DEF Returned
    <2>2. q.ret \in {"serve", "revokeKey", "detach", "access", "ready"} /\ q.c \in Clusters
        BY <1>1 DEF Control, Request, OnCluster
    <2>3. p \in Request
        BY <2>1, <2>2 DEF Request, PCs, MaybeKey
    <2>4. /\ p.pc = q.ret /\ p.op = q.op /\ p.c = q.c /\ p.k = q.k
          /\ p.view = q.view /\ p.load = NoKey
        BY <2>1 DEF Request
    <2> HIDE DEF p
    <2>5. Control(p)
        BY <2>2, <2>4 DEF Control, OnCluster, OnKey
    <2>6. ASSUME NEW k \in Keys, NEW c \in Clusters, Links(p, k, c)
          PROVE  Links(q, k, c)
        BY <2>4, <2>6, CredAssumption DEF Links
    <2> QED BY <2>3, <2>5, <2>6 DEF p
<1>2. CASE q.ret = "entry" /\ Handler(q.op, v) = "idle"
    BY <1>2, IdleRequest DEF Returned
<1>3. CASE q.ret = "entry" /\ Handler(q.op, v) # "idle"
    <2>1. Handler(q.op, v) \in {"scan", "serve", "detach", "uncacheName", "put"}
        BY <1>3 DEF Handler
    <2>2. Handler(q.op, v) = "serve" => v \in Keys
        BY <1>3 DEF Handler, MaybeKey
    <2>3. Handler(q.op, v) = "detach" => v \in Keys /\ q.op \in {"remove", "delete"}
        BY <1>3 DEF Handler, MaybeKey
    <2> DEFINE h == Handler(q.op, v)
    <2>4. h \in {"scan", "serve", "detach", "uncacheName", "put"}
        BY <2>1
    <2>5. Returned(q, v) = [q EXCEPT !.pc = h, !.view = v, !.load = NoKey,
                 !.k = IF q.op \in {"remove", "delete"} THEN v ELSE q.k]
        BY <1>3 DEF Returned
    <2> HIDE DEF h
    <2>6. Returned(q, v) \in Request
        <3>1. (IF q.op \in {"remove", "delete"} THEN v ELSE q.k) \in MaybeKey
            BY DEF Request
        <3>2. NoKey \in MaybeKey /\ h \in PCs
            BY <2>4 DEF MaybeKey, PCs
        <3> QED BY <2>5, <3>1, <3>2 DEF Request
    <2> DEFINE p == Returned(q, v)
    <2>7. Control(Returned(q, v))
        <3>1. /\ p.pc = h /\ p.op = q.op /\ p.c = q.c /\ p.view = v
              /\ p.k = IF q.op \in {"remove", "delete"} THEN v ELSE q.k
            BY <2>5 DEF Request
        <3>2. q.c \in Clusters
            BY DEF Control, OnCluster
        <3>3. h = "serve" => v \in Keys
            BY <2>2 DEF h
        <3>4. h = "detach" => v \in Keys /\ q.op \in {"remove", "delete"}
            BY <2>3 DEF h
        <3> HIDE DEF p
        <3>5. Control(p)
            BY <2>4, <3>1, <3>2, <3>3, <3>4 DEF Control, OnCluster, OnKey
        <3> QED BY <3>5 DEF p
    <2>8. ASSUME NEW k \in Keys, NEW c \in Clusters, Links(Returned(q, v), k, c)
          PROVE  Links(q, k, c) \/ (q.c = c /\ v = k)
        BY <2>5, <2>8, CredAssumption DEF Links, Request
    <2> QED BY <2>6, <2>7, <2>8
<1> QED BY <1>0, <1>1, <1>2, <1>3

(***************************************************************************)
(* One step                                                                *)
(***************************************************************************)

\* the step creates no link between a key and a cluster
NoNewLink == \A k \in Keys : \A c \in Clusters : Bound(k, c)' => Bound(k, c)

\* the step leaves a key that cannot be allocated so
StaysTaken ==
    \A k \in Keys : k \in issued /\ ~Available(k) => k \in issued' /\ ~Available(k)'

\* what every step except a successful acquisition guarantees
Preserving == TypeOK' /\ ControlOK' /\ NoNewLink /\ StaysTaken /\ RecordsIssued'

\* Replacing the record of one thread by a well formed one keeps all of them
\* well formed, and any new link is one of the new record.
LEMMA OneRequest ==
    ASSUME TypeOK, ControlOK, NEW r \in Requests, NEW q \in Request, Control(q),
           req' = [req EXCEPT ![r] = q]
    PROVE  /\ req' \in [Requests -> Request]
           /\ ControlOK'
           /\ \A k \in Keys : \A c \in Clusters :
                (\E s \in Requests : Links(req'[s], k, c))
                    => Links(q, k, c) \/ \E s \in Requests : Links(req[s], k, c)
<1>1. req' \in [Requests -> Request]
    BY DEF TypeOK
<1>2. \A s \in Requests : req'[s] = IF s = r THEN q ELSE req[s]
    BY DEF TypeOK
<1>3. ControlOK'
    BY <1>2 DEF ControlOK
<1> QED BY <1>1, <1>2, <1>3

\* A step that changes only the record of one thread, and links nothing new in
\* it, is preserving.
LEMMA LocalStep ==
    ASSUME IInv, NEW r \in Requests, NEW q \in Request, Control(q), Step(r, q),
           faults' \in 0..MaxFaults,
           \A k \in Keys : \A c \in Clusters : Links(q, k, c) => Bound(k, c),
           UNCHANGED <<creds, items, byID, byName, minted, issued, served, reported, abandoned>>
    PROVE  Preserving
<1>1. /\ req' \in [Requests -> Request]
      /\ ControlOK'
      /\ \A k \in Keys : \A c \in Clusters :
            (\E s \in Requests : Links(req'[s], k, c))
                => Links(q, k, c) \/ \E s \in Requests : Links(req[s], k, c)
    BY OneRequest DEF IInv, Step
<1>2. TypeOK'
    BY <1>1 DEF IInv, TypeOK
<1>3. NoNewLink
    BY <1>1 DEF NoNewLink, Bound
<1>4. StaysTaken /\ RecordsIssued'
    BY DEF StaysTaken, Available, IInv, RecordsIssued
<1> QED BY <1>1, <1>2, <1>3, <1>4 DEF Preserving

\* The counter of failed calls stays within its bound.
LEMMA FaultBound ==
    ASSUME TypeOK, Fault \/ UNCHANGED faults
    PROVE  faults' \in 0..MaxFaults
BY CredAssumption DEF TypeOK, Fault

LEMMA FindCached ==
    ASSUME IInv, NEW r \in Requests, NEW cache,
           cache = byID \/ (cache = byName /\ req[r].ret = "entry"),
           findCached(r, cache)
    PROVE  Preserving
<1> DEFINE q == req[r]
<1> DEFINE v == cache[req[r].c].cred
<1>1. q \in Request /\ Control(q) /\ q.pc = "find"
    BY DEF IInv, TypeOK, ControlOK, findCached
<1>2. q.c \in Clusters /\ q.ret # "reply"
    BY <1>1 DEF Control, OnCluster
<1>3. v \in MaybeKey
    BY <1>2 DEF IInv, TypeOK, CacheEntry
<1>4. /\ Returned(q, v) \in Request
      /\ Control(Returned(q, v))
      /\ \A k \in Keys : \A c \in Clusters :
            Links(Returned(q, v), k, c) => Links(q, k, c) \/ (q.c = c /\ v = k)
    <2> HIDE DEF q, v
    <2> QED BY <1>1, <1>2, <1>3, ReturnedRequest
<1>5. \A k \in Keys : \A c \in Clusters : Links(Returned(q, v), k, c) => Bound(k, c)
    BY <1>4 DEF Bound
<1>6. /\ Step(r, Returned(q, v))
      /\ UNCHANGED <<creds, items, byID, byName, minted, issued, served, reported, abandoned, faults>>
    BY DEF findCached
<1>7. faults' \in 0..MaxFaults
    BY <1>6, FaultBound DEF IInv
<1> HIDE DEF q, v
<1> QED BY <1>4, <1>5, <1>6, <1>7, LocalStep

\* Starting a request: the new record links a key only to NoCluster.
LEMMA BeginStep ==
    ASSUME IInv, NEW r \in Requests, NEW op \in Ops, NEW c \in Clusters \cup {NoCluster},
           NEW k \in MaybeKey, NEW pc \in {"find", "putNew", "getCred"},
           pc \in {"find", "putNew"} => c \in Clusters /\ k = NoKey,
           pc = "getCred" => c = NoCluster /\ k \in Keys,
           Begin(r, op, c, k, pc)
    PROVE  /\ req' \in [Requests -> Request]
           /\ ControlOK'
           /\ \A kk \in Keys : \A cc \in Clusters :
                (\E s \in Requests : Links(req'[s], kk, cc))
                    => \E s \in Requests : Links(req[s], kk, cc)
<1> DEFINE q == [Idle("ok") EXCEPT !.op = op, !.c = c, !.k = k, !.pc = pc, !.ret = "entry"]
<1>1. /\ q.pc = pc /\ q.c = c /\ q.k = k /\ q.ret = "entry"
      /\ q.view = NoKey /\ q.load = NoKey
    BY DEF Idle
<1>2. q \in Request
    BY DEF Idle, Request, PCs, MaybeKey
<1>3. Control(q)
    BY <1>1 DEF Control, OnCluster, OnKey
<1>4. \A kk \in Keys : \A cc \in Clusters : ~Links(q, kk, cc)
    BY <1>1, CredAssumption DEF Links
<1>5. req' = [req EXCEPT ![r] = q]
    BY DEF Begin, Step
<1> HIDE DEF q
<1> QED BY <1>2, <1>3, <1>4, <1>5, OneRequest DEF IInv

LEMMA StartStep ==
    ASSUME IInv, NEW r \in Requests, Start(r)
    PROVE  Preserving
<1> DEFINE Req == /\ req' \in [Requests -> Request]
                  /\ ControlOK'
                  /\ \A k \in Keys : \A c \in Clusters :
                        (\E s \in Requests : Links(req'[s], k, c))
                            => \E s \in Requests : Links(req[s], k, c)
<1>1. ASSUME NEW c \in Clusters, NEW op \in Ops, BeginOnCluster(r, op, c)
      PROVE  Req /\ UnchangedExceptReq
    BY <1>1, BeginStep DEF BeginOnCluster, MaybeKey
<1>2. ASSUME NEW c \in Clusters, createCluster(r, c)
      PROVE  Req
    BY <1>2, BeginStep DEF createCluster, MaybeKey, Ops
<1>3. ASSUME NEW k \in Keys,
             revokeMonitoringCredential(r, k) \/ deleteMonitoringCredential(r, k)
      PROVE  Req /\ UnchangedExceptReq
    BY <1>3, BeginStep DEF revokeMonitoringCredential, deleteMonitoringCredential, MaybeKey, Ops
<1>4. /\ Req
      /\ minted' \subseteq Clusters
      /\ UNCHANGED <<creds, items, byID, byName, issued, served, reported, abandoned, faults>>
    <2>1. ASSUME NEW c \in Clusters, createCluster(r, c) PROVE <1>4!2 /\ <1>4!3
        BY <2>1 DEF createCluster, IInv, TypeOK
    <2>2. ASSUME UnchangedExceptReq PROVE <1>4!2 /\ <1>4!3
        BY <2>2 DEF UnchangedExceptReq, IInv, TypeOK
    <2> QED BY <1>1, <1>2, <1>3, <2>1, <2>2
        DEF Start, getClusterMonitoringCredential, removeClusterMonitoringCredential,
            deleteCluster, updateCluster, Ops
<1>5. TypeOK'
    BY <1>4 DEF IInv, TypeOK
<1>6. NoNewLink
    BY <1>4 DEF NoNewLink, Bound
<1>7. StaysTaken /\ RecordsIssued'
    BY <1>4 DEF StaysTaken, Available, IInv, RecordsIssued
<1> QED BY <1>4, <1>5, <1>6, <1>7 DEF Preserving

\* A cache miss.
LEMMA FetchCluster ==
    ASSUME IInv, NEW r \in Requests, NEW cache, NEW inc,
           inc = Idle("error") \/ inc = NotFound(req[r]),
           fetchCluster(r, cache, inc)
    PROVE  Preserving
<1> DEFINE q == req[r]
<1>1. q \in Request /\ Control(q) /\ q.pc = "find" /\ q.c \in Clusters
    BY DEF IInv, TypeOK, ControlOK, fetchCluster, Control, OnCluster
<1>2. faults' \in 0..MaxFaults
    BY FaultBound DEF fetchCluster, IInv
<1>3. /\ NotFound(q) \in Request /\ Control(NotFound(q))
      /\ \A k \in Keys : \A c \in Clusters : Links(NotFound(q), k, c) => Links(q, k, c)
    <2>1. CASE q.ret \in {"entry", "access"}
        BY <2>1, IdleRequest DEF NotFound
    <2>2. CASE q.ret \notin {"entry", "access"}
        BY <1>1, <2>2 DEF NotFound, Request, Control, Links, PCs, OnCluster, OnKey
    <2> QED BY <2>1, <2>2
<1>4. \A k \in Keys : \A c \in Clusters : Links(q, k, c) => Bound(k, c)
    BY DEF Bound
<1>5. CASE Step(r, NotFound(q))
    BY <1>2, <1>3, <1>4, <1>5, LocalStep DEF fetchCluster
<1>6. CASE Step(r, inc)
    BY <1>2, <1>3, <1>4, <1>6, LocalStep, IdleRequest DEF fetchCluster
<1>7. CASE Step(r, [q EXCEPT !.pc = "fillID", !.load = items[q.c].cred])
    <2> DEFINE n == [q EXCEPT !.pc = "fillID", !.load = items[q.c].cred]
    <2>1. items[q.c].cred \in MaybeKey
        BY <1>1 DEF IInv, TypeOK, ClusterItem
    <2>2. n \in Request /\ Control(n)
        BY <1>1, <2>1 DEF Request, Control, PCs, OnCluster, OnKey
    <2>3. \A k \in Keys : \A c \in Clusters : Links(n, k, c) => Bound(k, c)
        BY <1>1 DEF Links, Bound, Request
    <2> HIDE DEF n
    <2> QED BY <1>2, <1>7, <2>2, <2>3, LocalStep DEF fetchCluster, n
<1> QED BY <1>5, <1>6, <1>7 DEF fetchCluster

\* Filling the caches copies the record the request has read.
LEMMA CacheFill ==
    ASSUME IInv, NEW r \in Requests, cacheByID(r) \/ cacheByName(r)
    PROVE  Preserving
<1> DEFINE q == req[r]
<1>1. q \in Request /\ Control(q) /\ q.pc \in {"fillID", "fillName"} /\ q.c \in Clusters
    BY DEF IInv, TypeOK, ControlOK, cacheByID, cacheByName, Control, OnCluster
<1>2. q.load \in MaybeKey
    BY <1>1 DEF Request
<1>3. \A k \in Keys : \A c \in Clusters : Links(q, k, c) => Bound(k, c)
    BY DEF Bound
<1>4. PICK n \in Request :
        /\ Step(r, n) /\ Control(n)
        /\ \A k \in Keys : \A c \in Clusters : Links(n, k, c) => Links(q, k, c)
    <2>1. CASE cacheByID(r)
        <3> DEFINE n == [q EXCEPT !.pc = "fillName"]
        <3>1. n \in Request /\ Control(n) /\ Step(r, n)
            BY <1>1, <2>1 DEF cacheByID, Goto, Request, Control, PCs, OnCluster, OnKey
        <3>2. \A k \in Keys : \A c \in Clusters : Links(n, k, c) => Links(q, k, c)
            BY <1>1 DEF Links, Request
        <3> QED BY <3>1, <3>2
    <2>2. CASE cacheByName(r) /\ q.ret = "reply"
        BY <2>2, IdleRequest DEF cacheByName, Reply
    <2>3. CASE cacheByName(r) /\ q.ret # "reply"
        <3>1. q.pc = "fillName" /\ Step(r, Returned(q, q.load))
            BY <2>3 DEF cacheByName
        <3>2. /\ Returned(q, q.load) \in Request /\ Control(Returned(q, q.load))
              /\ \A k \in Keys : \A c \in Clusters : Links(Returned(q, q.load), k, c)
                    => Links(q, k, c) \/ (q.c = c /\ q.load = k)
            <4> HIDE DEF q
            <4> QED BY <1>1, <1>2, <2>3, <3>1, ReturnedRequest
        <3>3. \A k \in Keys : \A c \in Clusters :
                (q.c = c /\ q.load = k) => Links(q, k, c)
            BY DEF Links
        <3> QED BY <3>1, <3>2, <3>3
    <2> QED BY <2>1, <2>2, <2>3
<1>5. /\ req' \in [Requests -> Request]
      /\ ControlOK'
      /\ \A k \in Keys : \A c \in Clusters :
            (\E s \in Requests : Links(req'[s], k, c))
                => Links(n, k, c) \/ \E s \in Requests : Links(req[s], k, c)
    BY <1>4, OneRequest DEF IInv, Step
<1>6. /\ byID' \in [Clusters -> CacheEntry] /\ byName' \in [Clusters -> CacheEntry]
      /\ \A c \in Clusters : \A k \in Keys :
            byID'[c].cred = k \/ byName'[c].cred = k
                => byID[c].cred = k \/ byName[c].cred = k \/ Links(q, k, c)
    <2>1. Entry(q.load) \in CacheEntry /\ Entry(q.load).cred = q.load
        BY <1>2 DEF Entry, CacheEntry
    <2>2. byID \in [Clusters -> CacheEntry] /\ byName \in [Clusters -> CacheEntry]
        BY DEF IInv, TypeOK
    <2>3. \/ byID' = [byID EXCEPT ![q.c] = Entry(q.load)] /\ byName' = byName
          \/ byName' = [byName EXCEPT ![q.c] = Entry(q.load)] /\ byID' = byID
        BY DEF cacheByID, cacheByName
    <2>4. \A c \in Clusters, k \in Keys : q.c = c /\ q.load = k => Links(q, k, c)
        BY DEF Links
    <2> HIDE DEF q
    <2> QED BY <1>1, <2>1, <2>2, <2>3, <2>4
<1>7. UNCHANGED <<creds, items, minted, issued, served, reported, abandoned, faults>>
    BY DEF cacheByID, cacheByName
<1>8. TypeOK'
    BY <1>5, <1>6, <1>7 DEF IInv, TypeOK
<1>9. NoNewLink
    BY <1>3, <1>4, <1>5, <1>6, <1>7 DEF NoNewLink, Bound
<1>10. StaysTaken /\ RecordsIssued'
    BY <1>7 DEF StaysTaken, Available, IInv, RecordsIssued
<1> QED BY <1>5, <1>8, <1>9, <1>10 DEF Preserving

\* Expiry only forgets cache entries.
LEMMA Expiry ==
    ASSUME IInv, NEW c \in Clusters, ExpireByID(c) \/ ExpireByName(c)
    PROVE  Preserving
<1>1. UNCHANGED <<creds, items, req, minted, issued, served, reported, abandoned, faults>>
    BY DEF ExpireByID, ExpireByName
<1>2. /\ byID' \in [Clusters -> CacheEntry] /\ byName' \in [Clusters -> CacheEntry]
      /\ \A d \in Clusters : \A k \in Keys :
            byID'[d].cred = k \/ byName'[d].cred = k => byID[d].cred = k \/ byName[d].cred = k
    <2> DEFINE e == [st |-> "expired", cred |-> NoKey]
    <2>1. e \in CacheEntry /\ e.cred \notin Keys /\ NoEntry \in CacheEntry /\ NoEntry.cred \notin Keys
        BY CredAssumption DEF CacheEntry, NoEntry, MaybeKey
    <2>2. byID \in [Clusters -> CacheEntry] /\ byName \in [Clusters -> CacheEntry]
        BY DEF IInv, TypeOK
    <2>3. \/ byID' = [byID EXCEPT ![c] = e] /\ byName' = byName
          \/ byName' = [byName EXCEPT ![c] = NoEntry] /\ byID' = byID
        BY DEF ExpireByID, ExpireByName
    <2> HIDE DEF e
    <2> QED BY <2>1, <2>2, <2>3
<1>3. TypeOK' /\ ControlOK'
    BY <1>1, <1>2 DEF IInv, TypeOK, ControlOK
<1>4. NoNewLink
    BY <1>1, <1>2 DEF NoNewLink, Bound
<1>5. StaysTaken /\ RecordsIssued'
    BY <1>1 DEF StaysTaken, Available, IInv, RecordsIssued
<1> QED BY <1>3, <1>4, <1>5 DEF Preserving

\* A key that an administrator adds for the first time is linked to nothing.
LEMMA AddKey ==
    ASSUME IInv, FreshKeys, NEW k \in Keys, addMonitoringCredential(k)
    PROVE  Preserving
<1>1. /\ k \notin issued /\ issued' = issued \cup {k}
      /\ UNCHANGED <<items, byID, byName, req, minted, served, reported, abandoned, faults>>
    BY DEF addMonitoringCredential
<1>2. /\ creds' \in [Keys -> CredItem]
      /\ \A j \in Keys : j # k => creds'[j] = creds[j]
    BY DEF addMonitoringCredential, IInv, TypeOK, CredItem, NewCred
<1>3. TypeOK' /\ ControlOK'
    BY <1>1, <1>2 DEF IInv, TypeOK, ControlOK
<1>4. NoNewLink
    BY <1>1 DEF NoNewLink, Bound
<1>5. StaysTaken
    BY <1>1, <1>2 DEF StaysTaken, Available
<1>6. RecordsIssued'
    BY <1>1, <1>2 DEF RecordsIssued, IInv
<1> QED BY <1>3, <1>4, <1>5, <1>6 DEF Preserving

\* The Scan for candidates.
LEMMA ScanStep ==
    ASSUME IInv, NEW r \in Requests, scanAvailable(r)
    PROVE  Preserving
<1> DEFINE q == req[r]
<1> DEFINE found == {k \in Keys : Available(k)}
<1>1. q \in Request /\ Control(q) /\ q.pc = "scan" /\ q.c \in Clusters
    BY DEF IInv, TypeOK, ControlOK, scanAvailable, Control, OnCluster
<1>2. faults' \in 0..MaxFaults
    BY FaultBound DEF scanAvailable, IInv
<1>3. CASE Step(r, [q EXCEPT !.pc = "acquire", !.cand = found])
    <2> DEFINE n == [q EXCEPT !.pc = "acquire", !.cand = found]
    <2>1. found \in SUBSET Keys
        OBVIOUS
    <2> HIDE DEF found
    <2>2. n \in Request /\ Control(n)
        BY <1>1, <2>1 DEF Request, Control, PCs, OnCluster, OnKey
    <2>3. \A k \in Keys : \A c \in Clusters : Links(n, k, c) => Bound(k, c)
        BY <1>1 DEF Links, Bound, Request
    <2> HIDE DEF n
    <2> QED BY <1>2, <1>3, <2>2, <2>3, LocalStep DEF scanAvailable, n
<1>4. CASE Reply(r, "error")
    BY <1>2, <1>4, LocalStep, IdleRequest DEF scanAvailable, Reply
<1> QED BY <1>3, <1>4 DEF scanAvailable

(***************************************************************************)
(* Steps that write the cluster table                                      *)
(***************************************************************************)

\* A write to the cluster table is preserving when the keys it stores, and the
\* new record of the thread, were linked to the same cluster before.
LEMMA ItemStep ==
    ASSUME IInv, NEW r \in Requests, NEW q \in Request, Control(q), Step(r, q),
           faults' \in 0..MaxFaults, reported' \subseteq Keys, abandoned' \subseteq Keys,
           items' \in [Clusters -> ClusterItem],
           \A k \in Keys : \A c \in Clusters : Links(q, k, c) => Bound(k, c),
           \A k \in Keys : \A c \in Clusters : items'[c].cred = k => Bound(k, c),
           UNCHANGED <<creds, byID, byName, minted, issued, served>>
    PROVE  Preserving
<1>1. /\ req' \in [Requests -> Request]
      /\ ControlOK'
      /\ \A k \in Keys : \A c \in Clusters :
            (\E s \in Requests : Links(req'[s], k, c))
                => Links(q, k, c) \/ \E s \in Requests : Links(req[s], k, c)
    BY OneRequest DEF IInv, Step
<1>2. TypeOK'
    BY <1>1 DEF IInv, TypeOK
<1>3. NoNewLink
    BY <1>1 DEF NoNewLink, Bound
<1>4. StaysTaken /\ RecordsIssued'
    BY DEF StaysTaken, Available, IInv, RecordsIssued
<1> QED BY <1>1, <1>2, <1>3, <1>4 DEF Preserving

\* Storing in one item a key already linked to its cluster, or none, or nothing
\* at all.
LEMMA ItemWrite ==
    ASSUME IInv, NEW c \in Clusters, NEW x \in ClusterItem,
           x.cred # NoKey => Bound(x.cred, c),
           items' = [items EXCEPT ![c] = x] \/ items' = items
    PROVE  /\ items' \in [Clusters -> ClusterItem]
           /\ \A k \in Keys : \A d \in Clusters : items'[d].cred = k => Bound(k, d)
<1>1. items \in [Clusters -> ClusterItem]
    BY DEF IInv, TypeOK
<1>2. \A k \in Keys : \A d \in Clusters : items[d].cred = k => Bound(k, d)
    BY DEF Bound
<1> QED BY <1>1, <1>2, CredAssumption

LEMMA SetStep ==
    ASSUME IInv, NEW r \in Requests, setClusterCredential(r)
    PROVE  Preserving
<1> DEFINE q == req[r]
<1> DEFINE x == [items[q.c] EXCEPT !.present = TRUE, !.cred = q.k]
<1> DEFINE n == [q EXCEPT !.pc = "erase", !.view = q.k, !.ret = "serve"]
<1>1. q \in Request /\ Control(q) /\ q.pc = "set" /\ q.c \in Clusters /\ q.k \in Keys
    BY DEF IInv, TypeOK, ControlOK, setClusterCredential, Control, OnCluster, OnKey
<1>2. faults' \in 0..MaxFaults
    BY FaultBound DEF setClusterCredential, IInv
<1>3. reported' \subseteq Keys /\ abandoned' \subseteq Keys
    BY <1>1 DEF setClusterCredential, IInv, TypeOK
<1>4. x \in ClusterItem /\ x.cred = q.k /\ Bound(x.cred, q.c)
    <2>1. items[q.c] \in ClusterItem
        BY <1>1 DEF IInv, TypeOK
    <2>2. x \in ClusterItem /\ x.cred = q.k
        BY <1>1, <2>1 DEF ClusterItem, MaybeKey
    <2>3. Links(q, q.k, q.c)
        BY DEF Links
    <2> QED BY <2>2, <2>3 DEF Bound
<1>5. items' = [items EXCEPT ![q.c] = x] \/ items' = items
    BY <1>1 DEF setClusterCredential, WithCred, IInv, TypeOK, ClusterItem
<1>6. /\ items' \in [Clusters -> ClusterItem]
      /\ \A k \in Keys : \A d \in Clusters : items'[d].cred = k => Bound(k, d)
    <2> HIDE DEF x, q
    <2> QED BY <1>1, <1>4, <1>5, ItemWrite
<1>7. /\ n \in Request /\ Control(n)
      /\ \A k \in Keys : \A c \in Clusters : Links(n, k, c) => Bound(k, c)
    BY <1>1 DEF Request, Control, PCs, MaybeKey, OnCluster, OnKey, Links, Bound
<1>8. CASE Step(r, n)
    <2> HIDE DEF n
    <2> QED BY <1>2, <1>3, <1>6, <1>7, <1>8, ItemStep DEF setClusterCredential
<1>9. CASE Reply(r, "error")
    BY <1>2, <1>3, <1>6, <1>9, ItemStep, IdleRequest DEF setClusterCredential, Reply
<1> QED BY <1>8, <1>9 DEF setClusterCredential

LEMMA DetachStep ==
    ASSUME IInv, NEW r \in Requests, detachClusterCredential(r)
    PROVE  Preserving
<1> DEFINE q == req[r]
<1> DEFINE x == [items[q.c] EXCEPT !.cred = NoKey]
<1> DEFINE n == [q EXCEPT !.pc = "erase", !.ret = "revokeKey"]
<1>1. q \in Request /\ Control(q) /\ q.pc = "detach" /\ q.c \in Clusters /\ q.k \in Keys
    BY DEF IInv, TypeOK, ControlOK, detachClusterCredential, Control, OnCluster, OnKey
<1>2. faults' \in 0..MaxFaults
    BY FaultBound DEF detachClusterCredential, IInv
<1>3. reported' \subseteq Keys /\ abandoned' \subseteq Keys
    BY DEF detachClusterCredential, IInv, TypeOK
<1>4. x \in ClusterItem /\ x.cred = NoKey
    <2>1. items[q.c] \in ClusterItem
        BY <1>1 DEF IInv, TypeOK
    <2> QED BY <2>1 DEF ClusterItem, MaybeKey
<1>5. items' = [items EXCEPT ![q.c] = x] \/ items' = items
    BY <1>1 DEF detachClusterCredential, IInv, TypeOK, ClusterItem
<1>6. /\ items' \in [Clusters -> ClusterItem]
      /\ \A k \in Keys : \A d \in Clusters : items'[d].cred = k => Bound(k, d)
    <2> HIDE DEF x, q
    <2> QED BY <1>1, <1>4, <1>5, ItemWrite
<1>7. /\ n \in Request /\ Control(n)
      /\ \A k \in Keys : \A c \in Clusters : Links(n, k, c) => Bound(k, c)
    BY <1>1 DEF Request, Control, PCs, MaybeKey, OnCluster, OnKey, Links, Bound
<1>8. CASE Step(r, n)
    <2> HIDE DEF n
    <2> QED BY <1>2, <1>3, <1>6, <1>7, <1>8, ItemStep DEF detachClusterCredential
<1>9. CASE Reply(r, "error")
    BY <1>2, <1>3, <1>6, <1>9, ItemStep, IdleRequest DEF detachClusterCredential, Reply
<1> QED BY <1>8, <1>9 DEF detachClusterCredential

\* addCluster and updateCluster store the whole record.
LEMMA PutStep ==
    ASSUME IInv, NEW r \in Requests, addCluster(r) \/ putCluster(r) \/ rewriteCluster(r)
    PROVE  Preserving
<1> DEFINE q == req[r]
<1>1. q \in Request /\ Control(q) /\ q.pc \in {"putNew", "put", "rewrite"} /\ q.c \in Clusters
    BY DEF IInv, TypeOK, ControlOK, addCluster, putCluster, rewriteCluster, Control, OnCluster
<1>2. faults' \in 0..MaxFaults /\ reported' \subseteq Keys /\ abandoned' \subseteq Keys
    BY FaultBound DEF addCluster, putCluster, rewriteCluster, IInv, TypeOK
<1>3. PICK v \in MaybeKey, pc \in {"fillID", "ready"}, ret \in {"reply", "setup", "ready"} :
        /\ v # NoKey => Links(q, v, q.c)
        /\ items' = [items EXCEPT ![q.c] = Whole(v)] \/ items' = items
        /\ \/ Step(r, [q EXCEPT !.pc = pc, !.load = v, !.ret = ret])
           \/ Step(r, [q EXCEPT !.pc = pc, !.ret = ret])
           \/ Step(r, [q EXCEPT !.pc = "ready"])
           \/ Reply(r, "error")
    <2>1. CASE addCluster(r)
        BY <1>1, <2>1 DEF addCluster, MaybeKey
    <2>2. CASE putCluster(r) \/ rewriteCluster(r)
        <3>1. q.view \in MaybeKey /\ Links(q, q.view, q.c)
            BY <1>1 DEF Request, Links
        <3>2. items' = [items EXCEPT ![q.c] = Whole(q.view)] \/ items' = items
            BY <2>2 DEF putCluster, rewriteCluster
        <3>3. \/ \E ret \in {"reply", "setup", "ready"} :
                    Step(r, [q EXCEPT !.pc = "fillID", !.load = q.view, !.ret = ret])
              \/ Step(r, [q EXCEPT !.pc = "ready"])
              \/ Reply(r, "error")
            BY <2>2 DEF putCluster, rewriteCluster, Goto
        <3> QED BY <3>1, <3>2, <3>3
    <2> QED BY <2>1, <2>2
<1>4. Whole(v) \in ClusterItem /\ Whole(v).cred = v
    BY DEF Whole, ClusterItem
<1>5. v # NoKey => Bound(v, q.c)
    BY <1>3 DEF Bound
<1>6. /\ items' \in [Clusters -> ClusterItem]
      /\ \A k \in Keys : \A d \in Clusters : items'[d].cred = k => Bound(k, d)
    <2> HIDE DEF q
    <2> QED BY <1>1, <1>3, <1>4, <1>5, ItemWrite
<1>7. ASSUME NEW n, \/ n = [q EXCEPT !.pc = pc, !.load = v, !.ret = ret]
                   \/ n = [q EXCEPT !.pc = pc, !.ret = ret]
                   \/ n = [q EXCEPT !.pc = "ready"]
      PROVE  /\ n \in Request /\ Control(n)
             /\ \A k \in Keys : \A c \in Clusters : Links(n, k, c) => Bound(k, c)
    <2>1. /\ n \in Request /\ n.c = q.c /\ n.k = q.k /\ n.view = q.view /\ n.load \in {q.load, v}
          /\ n.pc = "ready" \/ (n.pc = "fillID" /\ n.ret \in {"reply", "setup", "ready"})
        BY <1>1, <1>7 DEF Request, PCs
    <2>2. Control(n)
        BY <1>1, <2>1 DEF Control, OnCluster, OnKey
    <2>3. ASSUME NEW k \in Keys, NEW c \in Clusters, Links(n, k, c)
          PROVE  Links(q, k, c) \/ (q.c = c /\ v = k)
        BY <2>1, <2>3 DEF Links
    <2>4. \A k \in Keys : k # NoKey
        BY CredAssumption
    <2> QED BY <1>5, <2>1, <2>2, <2>3, <2>4 DEF Bound
<1>8. UNCHANGED <<creds, byID, byName, minted, issued, served>>
    BY DEF addCluster, putCluster, rewriteCluster
<1>9. ASSUME NEW n \in Request, Step(r, n), Control(n),
             \A k \in Keys : \A c \in Clusters : Links(n, k, c) => Bound(k, c)
      PROVE  Preserving
    BY <1>2, <1>6, <1>8, <1>9, ItemStep
<1>10. CASE Reply(r, "error")
    BY <1>9, <1>10, IdleRequest DEF Reply
<1>11. CASE \E n : Step(r, n) /\ (\/ n = [q EXCEPT !.pc = pc, !.load = v, !.ret = ret]
                                 \/ n = [q EXCEPT !.pc = pc, !.ret = ret]
                                 \/ n = [q EXCEPT !.pc = "ready"])
    <2> HIDE DEF q
    <2> QED BY <1>7, <1>9, <1>11
<1> QED BY <1>3, <1>10, <1>11

\* Between its calls a handler only decides how to go on: whether to write the
\* record at all, and whether the cluster can be reached and used.
LEMMA DecideStep ==
    ASSUME IInv, NEW r \in Requests, keepRecord(r) \/ checkAccess(r) \/ checkHelm(r)
    PROVE  Preserving
<1> DEFINE q == req[r]
<1>1. q \in Request /\ Control(q) /\ q.pc \in {"put", "access", "ready"} /\ q.c \in Clusters
    BY DEF IInv, TypeOK, ControlOK, keepRecord, checkAccess, checkHelm, Control, OnCluster
<1>2. /\ UNCHANGED <<creds, items, byID, byName, minted, issued, served, reported, abandoned, faults>>
      /\ faults' \in 0..MaxFaults
    BY DEF keepRecord, checkAccess, checkHelm, UnchangedExceptReq, IInv, TypeOK
<1>3. CASE \E s \in {"ok", "error"} : Reply(r, s)
    BY <1>2, <1>3, LocalStep, IdleRequest DEF Reply
<1>4. ASSUME NEW pc \in {"rewrite", "uncacheName"}, Goto(r, pc) PROVE Preserving
    <2> DEFINE n == [q EXCEPT !.pc = pc]
    <2>1. n \in Request /\ n.pc = pc /\ n.c = q.c /\ n.k = q.k /\ n.view = q.view /\ n.load = q.load
        BY <1>1 DEF Request, PCs
    <2>2. Step(r, n)
        BY <1>4 DEF Goto
    <2> HIDE DEF n
    <2>3. Control(n)
        BY <1>1, <2>1 DEF Control, OnCluster, OnKey
    <2>4. \A k \in Keys : \A c \in Clusters : Links(n, k, c) => Bound(k, c)
        BY <2>1 DEF Links, Bound
    <2> QED BY <1>2, <2>1, <2>2, <2>3, <2>4, LocalStep
<1> QED BY <1>3, <1>4 DEF keepRecord, checkAccess, checkHelm

LEMMA RemoveClusterStep ==
    ASSUME IInv, NEW r \in Requests, removeCluster(r)
    PROVE  Preserving
<1>1. req[r].c \in Clusters
    BY DEF IInv, TypeOK, ControlOK, removeCluster, Control, OnCluster
<1>2. faults' \in 0..MaxFaults /\ reported' \subseteq Keys
    BY FaultBound DEF removeCluster, IInv, TypeOK
<1>3. abandoned' \subseteq Keys
    <2>1. items[req[r].c].cred \in Keys \cup {NoKey} /\ abandoned \subseteq Keys
        BY <1>1 DEF IInv, TypeOK, ClusterItem, MaybeKey
    <2> QED BY <2>1 DEF removeCluster
<1>4. NoItem \in ClusterItem /\ NoItem.cred = NoKey
    BY DEF NoItem, ClusterItem, MaybeKey
<1>5. items' = [items EXCEPT ![req[r].c] = NoItem] \/ items' = items
    BY DEF removeCluster
<1>6. /\ items' \in [Clusters -> ClusterItem]
      /\ \A k \in Keys : \A d \in Clusters : items'[d].cred = k => Bound(k, d)
    BY <1>1, <1>4, <1>5, ItemWrite
<1>7. PICK s \in {"ok", "error"} : Reply(r, s)
    BY DEF removeCluster
<1>8. UNCHANGED <<creds, byID, byName, minted, issued, served>>
    BY DEF removeCluster
<1> QED BY <1>2, <1>3, <1>6, <1>7, <1>8, ItemStep, IdleRequest DEF Reply

\* Erasing cache entries forgets links, and the thread goes on with the same
\* operands.
LEMMA EraseStep ==
    ASSUME IInv, NEW r \in Requests,
           eraseCacheEntry(r) \/ uncacheName(r) \/ uncacheID(r)
    PROVE  Preserving
<1> DEFINE q == req[r]
<1>1. q \in Request /\ Control(q) /\ q.c \in Clusters
    BY DEF IInv, TypeOK, ControlOK, eraseCacheEntry, uncacheName, uncacheID, Control, OnCluster
<1>2. PICK pc \in {"find", "uncacheID", "dbDelete"} :
        Goto(r, pc) /\ (pc = "find" => q.pc = "erase")
    BY DEF eraseCacheEntry, uncacheName, uncacheID
<1> DEFINE n == [q EXCEPT !.pc = pc]
<1>3. /\ n \in Request /\ Control(n)
      /\ \A k \in Keys : \A c \in Clusters : Links(n, k, c) => Links(q, k, c)
    BY <1>1, <1>2 DEF Request, Control, PCs, OnCluster, OnKey, Links
<1>4. /\ req' \in [Requests -> Request]
      /\ ControlOK'
      /\ \A k \in Keys : \A c \in Clusters :
            (\E s \in Requests : Links(req'[s], k, c))
                => Links(n, k, c) \/ \E s \in Requests : Links(req[s], k, c)
    <2>1. req' = [req EXCEPT ![r] = n]
        BY <1>2 DEF Goto, Step
    <2> HIDE DEF n
    <2> QED BY <1>3, <2>1, OneRequest DEF IInv
<1>5. /\ byID' \in [Clusters -> CacheEntry] /\ byName' \in [Clusters -> CacheEntry]
      /\ \A d \in Clusters : \A k \in Keys :
            byID'[d].cred = k \/ byName'[d].cred = k => byID[d].cred = k \/ byName[d].cred = k
    <2>1. NoEntry \in CacheEntry /\ NoEntry.cred \notin Keys
        BY CredAssumption DEF CacheEntry, NoEntry, MaybeKey
    <2>2. byID \in [Clusters -> CacheEntry] /\ byName \in [Clusters -> CacheEntry]
        BY DEF IInv, TypeOK
    <2>3. \/ byID' = [byID EXCEPT ![q.c] = NoEntry] /\ byName' = byName
          \/ byName' = [byName EXCEPT ![q.c] = NoEntry] /\ byID' = byID
          \/ byName' = byName /\ byID' = byID
        BY DEF eraseCacheEntry, uncacheName, uncacheID
    <2> HIDE DEF q
    <2> QED BY <1>1, <2>1, <2>2, <2>3
<1>6. UNCHANGED <<creds, items, minted, issued, served, reported, abandoned, faults>>
    BY DEF eraseCacheEntry, uncacheName, uncacheID
<1>7. TypeOK'
    BY <1>4, <1>5, <1>6 DEF IInv, TypeOK
<1>8. NoNewLink
    BY <1>3, <1>4, <1>5, <1>6 DEF NoNewLink, Bound
<1>9. StaysTaken /\ RecordsIssued'
    BY <1>6 DEF StaysTaken, Available, IInv, RecordsIssued
<1> QED BY <1>4, <1>7, <1>8, <1>9 DEF Preserving

\* The answer names the key of the handler's copy of the cluster.
LEMMA ServeStep ==
    ASSUME IInv, NEW r \in Requests, serveCredential(r)
    PROVE  Preserving
<1> DEFINE q == req[r]
<1>1. q.c \in Clusters /\ q.view \in Keys
    BY DEF IInv, TypeOK, ControlOK, serveCredential, Control, OnCluster
<1>2. /\ req' \in [Requests -> Request]
      /\ ControlOK'
      /\ \A k \in Keys : \A c \in Clusters :
            (\E s \in Requests : Links(req'[s], k, c))
                => Links(Idle("ok"), k, c) \/ \E s \in Requests : Links(req[s], k, c)
    BY IdleRequest, OneRequest DEF IInv, Step, serveCredential, Reply
<1>3. Links(q, q.view, q.c)
    BY DEF Links
<1>4. /\ served' = served \cup {<<q.c, q.view>>}
      /\ UNCHANGED <<creds, items, byID, byName, minted, issued, reported, abandoned, faults>>
    BY DEF serveCredential
<1>5. TypeOK'
    BY <1>1, <1>2, <1>4 DEF IInv, TypeOK
<1>6. NoNewLink
    BY <1>2, <1>3, <1>4, IdleRequest DEF NoNewLink, Bound
<1>7. StaysTaken /\ RecordsIssued'
    BY <1>4 DEF StaysTaken, Available, IInv, RecordsIssued
<1> QED BY <1>2, <1>5, <1>6, <1>7 DEF Preserving

LEMMA GetCredStep ==
    ASSUME IInv, NEW r \in Requests, getMonitoringCredential(r)
    PROVE  Preserving
<1> DEFINE q == req[r]
<1>1. q \in Request /\ Control(q) /\ q.k \in Keys /\ q.view = NoKey
    BY DEF IInv, TypeOK, ControlOK, getMonitoringCredential, Control, OnKey
<1>2. faults' \in 0..MaxFaults
    BY FaultBound DEF getMonitoringCredential, IInv
<1>3. ASSUME NEW pc \in {"findUsing", "dbDrop"}, Goto(r, pc),
             pc = "findUsing" => q.op = "revoke"
      PROVE  Preserving
    <2> DEFINE n == [q EXCEPT !.pc = pc]
    <2>1. n \in Request /\ Control(n)
        BY <1>1, <1>3 DEF Request, Control, PCs, OnCluster, OnKey
    <2>2. \A k \in Keys : \A c \in Clusters : Links(n, k, c) => Bound(k, c)
        BY <1>1 DEF Links, Bound, Request
    <2>3. Step(r, n)
        BY <1>3 DEF Goto
    <2> HIDE DEF n
    <2> QED BY <1>2, <2>1, <2>2, <2>3, LocalStep DEF getMonitoringCredential
<1>4. CASE Reply(r, "error")
    BY <1>2, <1>4, LocalStep, IdleRequest DEF getMonitoringCredential, Reply
<1> QED BY <1>3, <1>4 DEF getMonitoringCredential

\* The cluster found is the one whose record names the key.
LEMMA FindUsingStep ==
    ASSUME IInv, NEW r \in Requests, findClusterUsingCredential(r)
    PROVE  Preserving
<1> DEFINE q == req[r]
<1>1. q \in Request /\ Control(q) /\ q.k \in Keys
    BY DEF IInv, TypeOK, ControlOK, findClusterUsingCredential, Control, OnKey
<1>2. faults' \in 0..MaxFaults
    BY FaultBound DEF findClusterUsingCredential, IInv
<1>3. ASSUME NEW c \in Clusters, items[c].cred = q.k,
             Step(r, [q EXCEPT !.pc = "fillID", !.c = c, !.load = q.k, !.ret = "detach"])
      PROVE  Preserving
    <2> DEFINE n == [q EXCEPT !.pc = "fillID", !.c = c, !.load = q.k, !.ret = "detach"]
    <2>1. n \in Request /\ Control(n)
        BY <1>1 DEF Request, Control, PCs, OnCluster, OnKey
    <2>2. n.c = c /\ n.k = q.k /\ n.load = q.k /\ n.view = q.view
        BY <1>1 DEF Request
    <2>3. Bound(q.k, c)
        BY <1>3 DEF Bound
    <2>4. q.view = NoKey
        BY <1>1 DEF Control, findClusterUsingCredential
    <2>5. \A k \in Keys : \A d \in Clusters : Links(n, k, d) => Bound(k, d)
        <3> HIDE DEF n, q
        <3> QED BY <2>2, <2>3, <2>4, CredAssumption DEF Links
    <2> HIDE DEF n
    <2> QED BY <1>2, <1>3, <2>1, <2>5, LocalStep DEF findClusterUsingCredential, n
<1>4. CASE Reply(r, "error")
    BY <1>2, <1>4, LocalStep, IdleRequest DEF findClusterUsingCredential, Reply
<1>5. CASE Goto(r, "revokeKey")
    <2> DEFINE n == [q EXCEPT !.pc = "revokeKey"]
    <2>1. q.op = "revoke"
        BY <1>1 DEF Control, findClusterUsingCredential
    <2>2. n \in Request /\ Control(n)
        BY <1>1, <2>1 DEF Request, Control, PCs, OnCluster, OnKey
    <2>3. \A k \in Keys : \A c \in Clusters : Links(n, k, c) => Bound(k, c)
        BY <1>1 DEF Links, Bound, Request
    <2>4. Step(r, n)
        BY <1>5 DEF Goto
    <2> HIDE DEF n
    <2> QED BY <1>2, <2>2, <2>3, <2>4, LocalStep DEF findClusterUsingCredential
<1> QED BY <1>3, <1>4, <1>5 DEF findClusterUsingCredential

(***************************************************************************)
(* Steps that write the credential table                                   *)
(***************************************************************************)

\* A write to one credential record that leaves it in use, revoked or gone, and
\* that creates no record of a key never added.
LEMMA CredStep ==
    ASSUME IInv, NEW r \in Requests, NEW q \in Request, Control(q), Step(r, q),
           NEW k \in Keys, NEW x \in CredItem,
           x.present /\ ~x.inUse => x.revoked,
           x.present \/ x.inUse \/ x.revoked => k \in issued,
           creds' = [creds EXCEPT ![k] = x] \/ creds' = creds,
           faults' \in 0..MaxFaults,
           UNCHANGED <<items, byID, byName, minted, issued, served, reported, abandoned>>
    PROVE  /\ TypeOK' /\ ControlOK' /\ StaysTaken /\ RecordsIssued'
           /\ \A j \in Keys : \A c \in Clusters :
                Bound(j, c)' => Bound(j, c) \/ Links(q, j, c)
<1>1. /\ req' \in [Requests -> Request]
      /\ ControlOK'
      /\ \A j \in Keys : \A c \in Clusters :
            (\E s \in Requests : Links(req'[s], j, c))
                => Links(q, j, c) \/ \E s \in Requests : Links(req[s], j, c)
    BY OneRequest DEF IInv, Step
<1>2. creds \in [Keys -> CredItem]
    BY DEF IInv, TypeOK
<1>3. /\ creds' \in [Keys -> CredItem]
      /\ \A j \in Keys : creds'[j] = creds[j] \/ (j = k /\ creds'[j] = x)
    BY <1>2
<1>4. TypeOK'
    BY <1>1, <1>3 DEF IInv, TypeOK
<1>5. StaysTaken
    BY <1>3 DEF StaysTaken, Available
<1>6. RecordsIssued'
    BY <1>3 DEF RecordsIssued, IInv
<1>7. \A j \in Keys : \A c \in Clusters : Bound(j, c)' => Bound(j, c) \/ Links(q, j, c)
    BY <1>1 DEF Bound
<1> QED BY <1>1, <1>4, <1>5, <1>6, <1>7

LEMMA RevokeKeyStep ==
    ASSUME IInv, NEW r \in Requests, revokeKey(r)
    PROVE  Preserving
<1> DEFINE q == req[r]
<1> DEFINE x == Revoked(creds[q.k])
<1>1. q \in Request /\ Control(q) /\ q.pc = "revokeKey" /\ q.k \in Keys
    BY DEF IInv, TypeOK, ControlOK, revokeKey, Control, OnKey
<1>2. faults' \in 0..MaxFaults
    BY FaultBound DEF revokeKey, IInv
<1>3. PICK n \in Request :
        /\ Step(r, n) /\ Control(n)
        /\ \A j \in Keys : \A c \in Clusters : Links(n, j, c) => Links(q, j, c)
    <2>1. PICK done \in BOOLEAN : Step(r, AfterRevocation(q, done))
        BY DEF revokeKey
    <2>2. CASE q.op \in {"revoke", "remove"}
        <3>1. AfterRevocation(q, done) \in {Idle("ok"), Idle("error")}
            BY <2>2 DEF AfterRevocation
        <3> QED BY <2>1, <3>1, IdleRequest
    <2>3. CASE q.op \notin {"revoke", "remove"}
        <3> DEFINE m == [q EXCEPT !.pc = "uncacheName"]
        <3>1. AfterRevocation(q, done) = m
            BY <2>3 DEF AfterRevocation
        <3>2. m \in Request /\ Control(m)
            BY <1>1, <2>3 DEF Request, Control, PCs, OnCluster, OnKey
        <3>3. \A j \in Keys : \A c \in Clusters : Links(m, j, c) => Links(q, j, c)
            BY <1>1 DEF Links, Request
        <3> QED BY <2>1, <3>1, <3>2, <3>3
    <2> QED BY <2>2, <2>3
<1>4. creds[q.k] \in CredItem
    BY <1>1 DEF IInv, TypeOK
<1>5. x \in CredItem /\ x.revoked /\ x.present = creds[q.k].present
    BY <1>4 DEF Revoked, CredItem
<1>6. \/ creds' = [creds EXCEPT ![q.k] = x] /\ creds[q.k].present
      \/ creds' = creds
    BY DEF revokeKey, markRevoked
<1>7. UNCHANGED <<items, byID, byName, minted, issued, served, reported, abandoned>>
    BY DEF revokeKey
<1>8. CASE creds[q.k].present
    <2>1. q.k \in issued
        BY <1>1, <1>8 DEF IInv, RecordsIssued
    <2>2. /\ TypeOK' /\ ControlOK' /\ StaysTaken /\ RecordsIssued'
          /\ \A j \in Keys : \A c \in Clusters :
                Bound(j, c)' => Bound(j, c) \/ Links(n, j, c)
        <3> HIDE DEF q, x
        <3> QED BY <1>1, <1>2, <1>3, <1>5, <1>6, <1>7, <2>1, CredStep
    <2> QED BY <1>3, <2>2 DEF Preserving, NoNewLink, Bound
<1>9. CASE creds' = creds
    <2>1. \A j \in Keys : \A c \in Clusters : Links(n, j, c) => Bound(j, c)
        BY <1>3 DEF Bound
    <2> QED BY <1>2, <1>3, <1>7, <1>9, <2>1, LocalStep
<1> QED BY <1>6, <1>8, <1>9

LEMMA DropStep ==
    ASSUME IInv, NEW r \in Requests, dropCredential(r)
    PROVE  Preserving
<1> DEFINE k == req[r].k
<1>1. k \in Keys
    BY DEF IInv, TypeOK, ControlOK, dropCredential, Control, OnKey
<1>2. faults' \in 0..MaxFaults
    BY FaultBound DEF dropCredential, IInv
<1>3. NoCred \in CredItem /\ ~NoCred.present /\ ~NoCred.inUse /\ ~NoCred.revoked
    BY DEF NoCred, CredItem
<1>4. PICK s \in {"ok", "error"} : Step(r, Idle(s))
    BY DEF dropCredential, Reply
<1>5. creds' = [creds EXCEPT ![k] = NoCred] \/ creds' = creds
    BY DEF dropCredential
<1>6. UNCHANGED <<items, byID, byName, minted, issued, served, reported, abandoned>>
    BY DEF dropCredential
<1>7. /\ TypeOK' /\ ControlOK' /\ StaysTaken /\ RecordsIssued'
      /\ \A j \in Keys : \A c \in Clusters :
            Bound(j, c)' => Bound(j, c) \/ Links(Idle(s), j, c)
    <2> HIDE DEF k
    <2> QED BY <1>1, <1>2, <1>3, <1>4, <1>5, <1>6, IdleRequest, CredStep
<1> QED BY <1>7, IdleRequest DEF Preserving, NoNewLink

\* A step that links nothing new keeps the links exclusive.
LEMMA PreservingKeeps ==
    ASSUME IInv, Preserving
    PROVE  IInv' /\ StaysTaken
<1>1. Exclusive'
    BY DEF IInv, Exclusive, Preserving, NoNewLink
<1>2. BoundTaken'
    BY DEF IInv, BoundTaken, Preserving, NoNewLink, StaysTaken
<1> QED BY <1>1, <1>2 DEF IInv, Preserving

\* The acquisition of a key: the key was available, so it was linked to nothing,
\* and it becomes linked to the cluster of the request alone.
LEMMA AcquireStep ==
    ASSUME IInv, NEW r \in Requests, NEW k \in Keys, acquireCandidate(r, k)
    PROVE  IInv' /\ StaysTaken
<1> DEFINE q == req[r]
<1> DEFINE x == [creds[k] EXCEPT !.inUse = TRUE]
<1> DEFINE won == [q EXCEPT !.pc = "set", !.k = k, !.cand = {}]
<1> DEFINE lost == [q EXCEPT !.cand = @ \ {k},
                             !.pc = IF @ = "acquire" /\ q.cand = {k} THEN "scan" ELSE "acquire"]
<1>1. q \in Request /\ Control(q) /\ q.pc = "acquire" /\ q.c \in Clusters
    BY DEF IInv, TypeOK, ControlOK, acquireCandidate, Control, OnCluster
<1>2. faults' \in 0..MaxFaults
    BY FaultBound DEF acquireCandidate, IInv
<1>3. creds[k] \in CredItem
    BY DEF IInv, TypeOK
<1>4. x \in CredItem /\ x.inUse /\ x.present = creds[k].present /\ x.revoked = creds[k].revoked
    BY <1>3 DEF CredItem
<1>5. UNCHANGED <<items, byID, byName, minted, issued, served, reported, abandoned>>
    BY DEF acquireCandidate
<1>6. /\ won \in Request /\ Control(won)
      /\ \A j \in Keys : \A c \in Clusters :
            Links(won, j, c) => Links(q, j, c) \/ (j = k /\ c = q.c)
    BY <1>1 DEF Request, Control, PCs, MaybeKey, OnCluster, OnKey, Links
<1>7. /\ lost \in Request /\ Control(lost)
      /\ \A j \in Keys : \A c \in Clusters : Links(lost, j, c) => Links(q, j, c)
    <2> DEFINE pc == IF q.pc = "acquire" /\ q.cand = {k} THEN "scan" ELSE "acquire"
    <2>1. lost = [q EXCEPT !.cand = q.cand \ {k}, !.pc = pc] /\ pc \in {"scan", "acquire"}
        BY <1>1 DEF Request
    <2>2. lost \in Request
        BY <1>1, <2>1 DEF Request, PCs
    <2>3. lost.pc \in {"scan", "acquire"} /\ lost.c = q.c
        BY <1>1, <2>1 DEF Request
    <2>4. Control(lost)
        BY <1>1, <2>2, <2>3 DEF Control, OnCluster, OnKey
    <2>5. lost.k = q.k /\ lost.view = q.view /\ lost.load = q.load
        BY <1>1, <2>1 DEF Request
    <2> QED BY <2>2, <2>3, <2>4, <2>5 DEF Links
<1>8. CASE MayAcquire(k) /\ creds' = Acquired(k)
    <2>1. k \in issued /\ Available(k)
        BY <1>8 DEF MayAcquire, Available, IInv, RecordsIssued
    <2>2. \A c \in Clusters : ~Bound(k, c)
        BY <2>1 DEF IInv, BoundTaken
    <2>3. creds' = [creds EXCEPT ![k] = x]
        BY <1>3, <1>8 DEF Acquired, IInv, TypeOK
    <2>4. PICK n \in Request :
            /\ Step(r, n) /\ Control(n)
            /\ \A j \in Keys : \A c \in Clusters :
                 Links(n, j, c) => Links(q, j, c) \/ (j = k /\ c = q.c)
        <3>1. Step(r, won) \/ Step(r, lost)
            BY DEF acquireCandidate, NextCandidate
        <3> HIDE DEF won, lost
        <3> QED BY <1>6, <1>7, <3>1
    <2>5. /\ TypeOK' /\ ControlOK' /\ StaysTaken /\ RecordsIssued'
          /\ \A j \in Keys : \A c \in Clusters :
                Bound(j, c)' => Bound(j, c) \/ Links(n, j, c)
        <3> HIDE DEF x
        <3> QED BY <1>2, <1>4, <1>5, <2>1, <2>3, <2>4, CredStep
    <2>6. \A j \in Keys : \A c \in Clusters :
            Bound(j, c)' => Bound(j, c) \/ (j = k /\ c = q.c)
        BY <2>4, <2>5 DEF Bound
    <2>7. Exclusive'
        <3> HIDE DEF q
        <3> QED BY <2>2, <2>6 DEF IInv, Exclusive
    <2>8. k \in issued' /\ ~Available(k)'
        BY <1>3, <1>4, <1>5, <2>1, <2>3 DEF Available, IInv, TypeOK
    <2>9. BoundTaken'
        <3> HIDE DEF q
        <3> QED BY <2>5, <2>6, <2>8 DEF IInv, BoundTaken, StaysTaken
    <2> QED BY <2>5, <2>7, <2>9 DEF IInv
<1>9. CASE creds' = creds /\ NextCandidate(r, k)
    <2>1. Step(r, lost)
        BY <1>9 DEF NextCandidate
    <2>2. \A j \in Keys : \A c \in Clusters : Links(lost, j, c) => Bound(j, c)
        BY <1>7 DEF Bound
    <2> HIDE DEF lost
    <2>3. Preserving
        BY <1>2, <1>5, <1>7, <1>9, <2>1, <2>2, LocalStep
    <2> QED BY <2>3, PreservingKeeps
<1> QED BY <1>8, <1>9 DEF acquireCandidate

(***************************************************************************)
(* The theorems                                                            *)
(***************************************************************************)

LEMMA InitInvariant == Init => IInv
<1> SUFFICES ASSUME Init PROVE IInv
    OBVIOUS
<1>1. TypeOK
    BY IdleRequest, CredAssumption
    DEF Init, TypeOK, NoCred, CredItem, NoItem, ClusterItem, NoEntry, CacheEntry, MaybeKey
<1>2. ControlOK
    BY IdleRequest DEF Init, ControlOK
<1>3. \A k \in Keys : \A c \in Clusters : ~Bound(k, c)
    BY IdleRequest, CredAssumption DEF Init, Bound, NoItem, NoEntry
<1>4. RecordsIssued
    BY DEF Init, RecordsIssued, NoCred
<1> QED BY <1>1, <1>2, <1>3, <1>4 DEF IInv, Exclusive, BoundTaken

LEMMA NextInvariant ==
    ASSUME FreshKeys, IInv, [Next]_vars
    PROVE  IInv' /\ StaysTaken
<1>1. ASSUME NEW r \in Requests, Proceed(r) PROVE IInv' /\ StaysTaken
    <2>1. CASE \E k \in Keys : acquireCandidate(r, k)
        BY <2>1, AcquireStep
    <2>2. CASE findClusterByID(r) \/ findClusterByName(r)
        BY <2>2, FindCached, FetchCluster, PreservingKeeps
        DEF findClusterByID, findClusterByName
    <2>3. CASE cacheByID(r) \/ cacheByName(r)
        BY <2>3, CacheFill, PreservingKeeps
    <2>4. CASE scanAvailable(r)
        BY <2>4, ScanStep, PreservingKeeps
    <2>5. CASE setClusterCredential(r) \/ detachClusterCredential(r)
        BY <2>5, SetStep, DetachStep, PreservingKeeps
    <2>6. CASE eraseCacheEntry(r) \/ uncacheName(r) \/ uncacheID(r)
        BY <2>6, EraseStep, PreservingKeeps
    <2>7. CASE serveCredential(r)
        BY <2>7, ServeStep, PreservingKeeps
    <2>8. CASE getMonitoringCredential(r) \/ findClusterUsingCredential(r)
        BY <2>8, GetCredStep, FindUsingStep, PreservingKeeps
    <2>9. CASE revokeKey(r) \/ dropCredential(r)
        BY <2>9, RevokeKeyStep, DropStep, PreservingKeeps
    <2>10. CASE addCluster(r) \/ putCluster(r) \/ rewriteCluster(r) \/ removeCluster(r)
        BY <2>10, PutStep, RemoveClusterStep, PreservingKeeps
    <2>11. CASE keepRecord(r) \/ checkAccess(r) \/ checkHelm(r)
        BY <2>11, DecideStep, PreservingKeeps
    <2> QED BY <1>1, <2>1, <2>2, <2>3, <2>4, <2>5, <2>6, <2>7, <2>8, <2>9, <2>10, <2>11 DEF Proceed
<1>2. ASSUME NEW r \in Requests, Start(r) PROVE IInv' /\ StaysTaken
    BY <1>2, StartStep, PreservingKeeps
<1>3. ASSUME NEW k \in Keys, addMonitoringCredential(k) PROVE IInv' /\ StaysTaken
    BY <1>3, AddKey, PreservingKeeps
<1>4. ASSUME NEW c \in Clusters, ExpireByID(c) \/ ExpireByName(c) PROVE IInv' /\ StaysTaken
    BY <1>4, Expiry, PreservingKeeps
<1>5. CASE UNCHANGED vars
    BY <1>5 DEF vars, IInv, TypeOK, ControlOK, Exclusive, BoundTaken, RecordsIssued,
                Bound, Available, StaysTaken
<1> QED BY <1>1, <1>2, <1>3, <1>4, <1>5 DEF Next

\* As long as administrators add each access key once, the inductive invariant
\* holds: every key is linked to at most one cluster, wherever it is recorded.
THEOREM CredentialInvariant == FreshKeys => (Spec => []IInv)
<1> SUFFICES ASSUME FreshKeys PROVE Spec => []IInv
    OBVIOUS
<1>1. Init => IInv
    BY InitInvariant
<1>2. IInv /\ [Next]_vars => IInv'
    BY NextInvariant
<1> QED BY <1>1, <1>2, PTL DEF Spec

\* The tables, the caches and the requests keep their types: the handlers never
\* store a key or a cluster that does not exist, nor answer with an invalid one.
THEOREM TypeCorrect == FreshKeys => (Spec => []TypeOK)
<1> SUFFICES ASSUME FreshKeys PROVE Spec => []TypeOK
    OBVIOUS
<1>1. IInv => TypeOK
    BY DEF IInv
<1> QED BY <1>1, CredentialInvariant, PTL

\* No two cluster records ever name the same credential.
THEOREM NoSharing == FreshKeys => (Spec => []NoSharedCredential)
<1> SUFFICES ASSUME FreshKeys PROVE Spec => []NoSharedCredential
    OBVIOUS
<1>1. ASSUME IInv PROVE NoSharedCredential
    <2> SUFFICES ASSUME NEW c \in Clusters, NEW d \in Clusters,
                        items[c].cred = items[d].cred, items[c].cred # NoKey
                 PROVE  c = d
        BY DEF NoSharedCredential
    <2>1. items[c].cred \in Keys
        BY <1>1 DEF IInv, TypeOK, ClusterItem, MaybeKey
    <2> QED BY <1>1, <2>1 DEF IInv, Exclusive, Bound
<1> QED BY <1>1, CredentialInvariant, PTL

\* A credential that was returned for one cluster is never returned for another.
THEOREM ServedOnce == FreshKeys => (Spec => []ServedToOneCluster)
<1> SUFFICES ASSUME FreshKeys PROVE Spec => []ServedToOneCluster
    OBVIOUS
<1>1. ASSUME IInv PROVE ServedToOneCluster
    <2> SUFFICES ASSUME NEW x \in served, NEW y \in served, x[2] = y[2]
                 PROVE  x[1] = y[1]
        BY DEF ServedToOneCluster
    <2>1. /\ x[1] \in Clusters /\ x[2] \in Keys /\ x = <<x[1], x[2]>>
          /\ y[1] \in Clusters /\ y[2] \in Keys /\ y = <<y[1], y[2]>>
        BY <1>1 DEF IInv, TypeOK
    <2> QED BY <1>1, <2>1 DEF IInv, Exclusive, Bound
<1> QED BY <1>1, CredentialInvariant, PTL

\* A credential that is in use or revoked never becomes available again.
THEOREM NeverBack == FreshKeys => (Spec => NeverBackInPool)
<1> SUFFICES ASSUME FreshKeys PROVE Spec => NeverBackInPool
    OBVIOUS
<1> DEFINE P == \A k \in Keys : creds[k].inUse \/ creds[k].revoked => ~Available(k)'
<1>1. ASSUME IInv, [Next]_vars PROVE P
    <2>1. StaysTaken
        BY <1>1, NextInvariant
    <2> SUFFICES ASSUME NEW k \in Keys, creds[k].inUse \/ creds[k].revoked
                 PROVE  ~Available(k)'
        OBVIOUS
    <2>2. k \in issued /\ ~Available(k)
        BY <1>1 DEF IInv, RecordsIssued, Available
    <2> QED BY <2>1, <2>2 DEF StaysTaken
<1>2. Spec => [][P]_vars
    <2>1. IInv /\ [Next]_vars => [P]_vars
        BY <1>1
    <2> HIDE DEF P
    <2> QED BY <2>1, CredentialInvariant, PTL DEF Spec
<1> QED BY <1>2 DEF NeverBackInPool
(***************************************************************************)
(* The accounts of the pool, while requests come one after the other       *)
(***************************************************************************)
\* a cluster record names the key
Held(k) == \E c \in Clusters : items[c].cred = k

\* the lookup that refreshes the caches after a write to the cluster record
Refreshing(q) == q.pc \in {"find", "fillID", "fillName"} /\ q.ret \in {"serve", "revokeKey"}

\* the request has taken k from the pool, or from a cluster, and has still to
\* record it for a cluster, or as revoked
InHand(q, k) ==
    /\ q.k = k
    /\ \/ q.pc \in {"set", "revokeKey"}
       \/ q.pc \in {"erase", "find", "fillID", "fillName"} /\ q.ret = "revokeKey"

\* the request sets up the cluster whose record it has written
SettingUp(q) ==
    \/ q.pc \in {"access", "rewrite", "ready"}
    \/ q.pc \in {"find", "fillID", "fillName"} /\ q.ret \in {"setup", "access", "ready"}

\* Records, flags and keys in hand: what is in use is held or in hand, or was held by
\* a record that a failed setup removed, and what is held is in use.  Only clusters
\* that were created have records.
PoolKept(q) ==
    /\ reported = {}
    /\ \A c \in Clusters : items[c] = NoItem \/ items[c] = Whole(items[c].cred)
    /\ \A k \in Keys : creds[k].inUse =>
         creds[k].present /\ (Held(k) \/ InHand(q, k) \/ k \in abandoned)
    /\ \A k \in Keys : Held(k) => creds[k].inUse /\ ~creds[k].revoked /\ ~InHand(q, k)
    /\ \A c \in Clusters \ minted :
         items[c] = NoItem /\ byID[c].st = "none" /\ byName[c].st = "none"

\* The caches have what the table has, except for the cluster whose record the
\* request has written and whose cache entries it has still to replace.
CachesKept(q) ==
    /\ \A c \in Clusters : byID[c].st = "live" =>
         items[c] = Whole(byID[c].cred) \/ (q.c = c /\ q.pc = "erase")
    /\ \A c \in Clusters : byName[c].st = "live" =>
         items[c] = Whole(byName[c].cred) \/ (q.c = c /\ (q.pc = "erase" \/ Refreshing(q)))
    /\ \A c \in Clusters : byName[c].st # "none" =>
         byID[c].st # "none" \/ (q.c = c /\ Refreshing(q))

\* What a request knows at each place of its handler about its cluster, ...
KnowsItem(q) ==
    /\ q.pc \in {"fillID", "fillName"} => items[q.c] = Whole(q.load)
    /\ q.pc \in {"scan", "acquire", "set"} => items[q.c] = Whole(NoKey)
    /\ q.pc \in {"uncacheName", "uncacheID", "dbDelete"} =>
         items[q.c] = Whole(IF q.op = "delete" THEN NoKey ELSE q.view)
    /\ q.pc \in {"put", "serve", "access", "rewrite", "ready"} => items[q.c] = Whole(q.view)
    /\ q.pc = "detach" => items[q.c] = Whole(q.k)
    /\ q.pc \in {"erase", "find"} /\ q.ret \in {"serve", "access"} => items[q.c] = Whole(q.view)
    /\ q.pc \in {"erase", "find"} /\ q.ret = "revokeKey" => items[q.c] = Whole(NoKey)
    /\ q.pc = "revokeKey" /\ q.op = "delete" => items[q.c] = Whole(NoKey)
    /\ q.pc = "putNew" => items[q.c] = NoItem
    /\ q.c \in Clusters => q.c \in minted

\* ... its cache entries, ...
KnowsCaches(q) ==
    /\ q.pc = "find" /\ q.ret \notin {"entry", "access"} => byID[q.c].st = "none"
    /\ q.pc = "fillName" => byID[q.c].st # "none"
    /\ q.pc = "putNew" => byID[q.c].st = "none" /\ byName[q.c].st = "none"
    /\ q.pc \in {"uncacheID", "dbDelete"} => byName[q.c].st = "none"
    /\ q.pc = "dbDelete" => byID[q.c].st = "none"

\* ... its key and its own operation.
KnowsKey(q) ==
    /\ q.pc \in {"fillID", "fillName"} =>
         /\ q.ret \in {"serve", "setup", "access", "ready"} => q.load = q.view
         /\ q.ret = "revokeKey" => q.load = NoKey
         /\ q.ret = "detach" => q.load = q.k
    /\ q.pc = "putNew" => q.load = NoKey /\ q.view = NoKey
    /\ q.pc = "set" => creds[q.k].inUse /\ ~creds[q.k].revoked
    /\ \/ q.pc \in {"detach", "revokeKey"}
       \/ q.pc \in {"find", "erase", "fillID", "fillName"} /\ q.ret \in {"detach", "revokeKey"}
       => q.op \in {"revoke", "remove", "delete"}
    /\ q.pc \in {"put", "putNew"} \/ SettingUp(q) => q.op # "delete"

Accounted(q) == PoolKept(q) /\ CachesKept(q) /\ KnowsItem(q) /\ KnowsCaches(q) /\ KnowsKey(q)

AccountInv == faults = 0 => \A r \in Requests : Accounted(req[r])

\* The server executes one request at a time.
OneThread == \E r : Requests = {r}

\* A step of request q, which thread r executes, with no call that fails.
Turn(r, q) ==
    /\ r \in Requests /\ q \in Request /\ q = req[r]
    /\ IInv /\ Control(q) /\ Accounted(q)
    /\ faults = 0 /\ faults' = 0

\* What a written record says.
LEMMA WholeItem ==
    /\ \A k : Whole(k).cred = k /\ Whole(k).complete /\ Whole(k).present /\ Whole(k) # NoItem
    /\ \A k, j : [Whole(k) EXCEPT !.cred = j] = Whole(j)
    /\ \A k, j : [Whole(k) EXCEPT !.present = TRUE, !.cred = j] = Whole(j)
    /\ NoItem.cred = NoKey /\ ~NoItem.present /\ ~NoItem.complete
<1>1. NoItem.cred = NoKey /\ ~NoItem.present /\ ~NoItem.complete
    BY DEF NoItem
<1>2. ASSUME NEW k PROVE Whole(k).cred = k /\ Whole(k).complete /\ Whole(k).present
    BY DEF Whole
<1>3. ASSUME NEW k PROVE Whole(k) # NoItem
    BY <1>1, <1>2
<1>4. PICK t : t = TRUE
    OBVIOUS
<1>5. \A k : Whole(k) = [present |-> t, complete |-> t, cred |-> k]
    BY <1>4, Zenon DEF Whole
<1>6. \A k, j : [Whole(k) EXCEPT !.cred = j] = Whole(j)
    BY <1>5
<1>7. ASSUME NEW k, NEW j PROVE [Whole(k) EXCEPT !.present = t, !.cred = j] = Whole(j)
    <2>1. PICK x : x = [present |-> t, complete |-> t, cred |-> k]
        OBVIOUS
    <2>2. x \in [present : {t}, complete : {t}, cred : {k, j}]
        BY <2>1
    <2>3. PICK y : y = [x EXCEPT !.present = t, !.cred = j]
        OBVIOUS
    <2>4. /\ y \in [present : {t}, complete : {t}, cred : {k, j}]
          /\ y.present = t /\ y.complete = t /\ y.cred = j
        BY <2>2, <2>3
    <2>5. y = [present |-> t, complete |-> t, cred |-> j]
        BY <2>4
    <2> QED BY <1>5, <2>1, <2>3, <2>5, Zenon
<1>8. \A k, j : [Whole(k) EXCEPT !.present = TRUE, !.cred = j] = Whole(j)
    BY <1>4, <1>7, Zenon
<1> QED BY <1>1, <1>2, <1>3, <1>6, <1>8, Zenon

\* What the request becomes is all that matters of the threads.
LEMMA BecomesAccounted ==
    ASSUME NEW r, NEW n, req'[r] = n,
           PoolKept(n)', CachesKept(n)', KnowsItem(n)', KnowsCaches(n)', KnowsKey(n)'
    PROVE  Accounted(req[r])'
BY DEF Accounted, PoolKept, CachesKept, KnowsItem, KnowsCaches, KnowsKey, Held, Refreshing, InHand, SettingUp

\* An idle thread has nothing in hand and knows nothing.
LEMMA IdleKnows ==
    ASSUME NEW s, NEW n, n = Idle(s)
    PROVE  /\ n.pc = "idle" /\ n.c = NoCluster /\ n.k = NoKey
           /\ ~Refreshing(n) /\ \A k : ~InHand(n, k)
           /\ KnowsItem(n)' /\ KnowsCaches(n)' /\ KnowsKey(n)'
<1>1. n.pc = "idle" /\ n.c = NoCluster /\ n.k = NoKey
    BY DEF Idle
<1> QED BY <1>1, CredAssumption DEF Refreshing, SettingUp, InHand, KnowsItem, KnowsCaches, KnowsKey

\* A step that leaves tables and caches, of a request that has nothing in hand
\* and nothing to replace, before and after.
LEMMA QuietStep ==
    ASSUME NEW q, NEW n, PoolKept(q), CachesKept(q),
           UNCHANGED <<creds, items, byID, byName, minted, reported, abandoned>>,
           q.pc # "erase", ~Refreshing(q),
           \A k \in Keys : InHand(q, k) => ~creds[k].inUse \/ InHand(n, k),
           \A k \in Keys : InHand(n, k) => ~Held(k)
    PROVE  PoolKept(n)' /\ CachesKept(n)'
<1>1. PoolKept(n)'
    BY DEF PoolKept, Held
<1>2. CachesKept(n)'
    BY DEF CachesKept
<1> QED BY <1>1, <1>2

\* Where a handler goes on with the cluster it has looked up, whose credential is v.
LEMMA EntryReturned ==
    ASSUME NEW q \in Request, q.ret = "entry", NEW v, NEW n, n = Returned(q, v)
    PROVE  /\ n.pc \in {"idle", "scan", "serve", "detach", "uncacheName", "put"}
           /\ n.c \in {q.c, NoCluster} /\ (n.pc # "idle" => n.c = q.c)
           /\ n.pc \in {"scan", "uncacheName"} => v = NoKey
           /\ n.pc \in {"serve", "put"} => n.view = v
           /\ n.pc = "detach" => n.k = v /\ n.op \in {"remove", "delete"}
           /\ n.pc = "uncacheName" => n.op = "delete"
           /\ n.pc = "put" => n.op # "delete"
<1>1. PICK h : h = Handler(q.op, v)
    OBVIOUS
<1>2. /\ h \in {"idle", "scan", "serve", "detach", "uncacheName", "put"}
      /\ h \in {"scan", "uncacheName"} => v = NoKey
      /\ h = "detach" => q.op \in {"remove", "delete"}
      /\ h = "uncacheName" => q.op = "delete"
      /\ h = "put" => q.op # "delete"
    BY <1>1 DEF Handler
<1>3. CASE h = "idle"
    BY <1>1, <1>3 DEF Returned, Idle
<1>4. CASE h # "idle"
    <2>1. n = [q EXCEPT !.pc = h, !.view = v, !.load = NoKey,
                        !.k = IF q.op \in {"remove", "delete"} THEN v ELSE q.k]
        BY <1>1, <1>4 DEF Returned
    <2> QED BY <1>2, <2>1 DEF Request
<1> QED BY <1>3, <1>4

\* The request knows as much of the cluster as the handler needs then.
LEMMA EntryKnows ==
    ASSUME NEW q \in Request, q.ret = "entry", q.c \in minted', NEW v, NEW n, n = Returned(q, v),
           items'[q.c] = Whole(v)
    PROVE  /\ n.pc # "erase" /\ ~Refreshing(n) /\ \A k : ~InHand(n, k)
           /\ KnowsItem(n)' /\ KnowsCaches(n)' /\ KnowsKey(n)'
<1>1. /\ n.pc \in {"idle", "scan", "serve", "detach", "uncacheName", "put"}
      /\ n.c \in {q.c, NoCluster} /\ (n.pc # "idle" => n.c = q.c)
      /\ n.pc \in {"scan", "uncacheName"} => v = NoKey
      /\ n.pc \in {"serve", "put"} => n.view = v
      /\ n.pc = "detach" => n.k = v /\ n.op \in {"remove", "delete"}
      /\ n.pc = "uncacheName" => n.op = "delete"
      /\ n.pc = "put" => n.op # "delete"
    BY EntryReturned
<1> QED BY <1>1, CredAssumption DEF Refreshing, SettingUp, InHand, KnowsItem, KnowsCaches, KnowsKey

LEMMA FindCachedAccounted ==
    ASSUME NEW r, NEW q, Turn(r, q), NEW cache,
           cache = byID \/ (cache = byName /\ q.ret = "entry"), findCached(r, cache)
    PROVE  Accounted(req[r])'
<1>1. q.pc = "find" /\ q.c \in Clusters /\ cache[q.c].st = "live"
    BY DEF Turn, findCached, Control, OnCluster
<1>2. q.ret \in {"entry", "access"}
    BY <1>1 DEF Turn, Accounted, KnowsCaches
<1>3. q \in Request /\ q.c \in minted /\ items[q.c] = Whole(cache[q.c].cred)
    BY <1>1, <1>2 DEF Turn, Accounted, KnowsItem, CachesKept, Refreshing
<1>4. PICK v : v = cache[q.c].cred
    OBVIOUS
<1>5. PICK n : n = Returned(q, v)
    OBVIOUS
<1>6. /\ req'[r] = n
      /\ UNCHANGED <<creds, items, byID, byName, minted, reported, abandoned>>
    BY <1>4, <1>5 DEF Turn, findCached, Step, IInv, TypeOK
<1>7. /\ n.pc # "erase" /\ ~Refreshing(n) /\ \A k : ~InHand(n, k)
      /\ KnowsItem(n)' /\ KnowsCaches(n)' /\ KnowsKey(n)'
    <2>1. CASE q.ret = "entry"
        <3>1. q.c \in minted' /\ items'[q.c] = Whole(v)
            BY <1>3, <1>4, <1>6
        <3> QED BY <1>3, <1>5, <2>1, <3>1, EntryKnows
    <2>2. CASE q.ret = "access"
        <3>1. n = [q EXCEPT !.pc = "access", !.load = NoKey]
            BY <1>5, <2>2 DEF Returned
        <3>2. n.pc = "access" /\ n.c = q.c /\ n.view = q.view /\ n.op = q.op
            BY <1>3, <3>1 DEF Request
        <3>3. items[q.c] = Whole(q.view) /\ q.op # "delete"
            BY <1>1, <2>2 DEF Turn, Accounted, KnowsItem, KnowsKey, SettingUp
        <3> QED BY <1>3, <1>6, <3>2, <3>3
                DEF Refreshing, SettingUp, InHand, KnowsItem, KnowsCaches, KnowsKey
    <2> QED BY <1>2, <2>1, <2>2
<1>8. PoolKept(n)' /\ CachesKept(n)'
    BY <1>1, <1>2, <1>6, <1>7, QuietStep DEF Turn, Accounted, Refreshing, InHand
<1> QED BY <1>6, <1>7, <1>8, BecomesAccounted

LEMMA FetchAccounted ==
    ASSUME NEW r, NEW q, Turn(r, q), NEW cache, NEW inc, inc \in {Idle("error"), NotFound(q)},
           cache = byID \/ (cache = byName /\ q.ret = "entry"), fetchCluster(r, cache, inc)
    PROVE  Accounted(req[r])'
<1>1. /\ q \in Request /\ q.pc = "find" /\ q.c \in Clusters /\ q.c \in minted
      /\ q.ret \in {"entry", "serve", "revokeKey", "access"}
      /\ UNCHANGED <<creds, items, byID, byName, minted, reported, abandoned>>
    BY DEF Turn, fetchCluster, Control, OnCluster, Request, Accounted, KnowsItem
<1>2. ~Fault
    BY DEF Turn, Fault
<1>3. /\ ~items[q.c].present \/ ~items[q.c].complete => items[q.c] = NoItem
      /\ items[q.c].complete => items[q.c] # NoItem
    <2>1. items[q.c] = NoItem \/ items[q.c] = Whole(items[q.c].cred)
        BY <1>1 DEF Turn, Accounted, PoolKept
    <2>2. CASE items[q.c] = NoItem
        BY <2>2, WholeItem, Zenon
    <2>3. CASE items[q.c] = Whole(items[q.c].cred)
        <3>1. PICK x, k : x = items[q.c] /\ k = items[q.c].cred
            OBVIOUS
        <3>2. x = Whole(k)
            BY <2>3, <3>1, Zenon
        <3>3. x.complete /\ x.present /\ x # NoItem
            BY <3>2, WholeItem, Zenon
        <3> QED BY <3>1, <3>3, Zenon
    <2> QED BY <2>1, <2>2, <2>3, Zenon
<1>4. items[q.c] = NoItem => q.ret = "entry"
    <2>1. q.ret # "entry" => \E k : items[q.c] = Whole(k)
        BY <1>1 DEF Turn, Accounted, KnowsItem
    <2> QED BY <2>1, WholeItem, Zenon
<1>5. CASE req'[r] = Idle("error") /\ items[q.c] = NoItem
    <2>1. q.ret = "entry"
        BY <1>5, <1>4
    <2>2. PICK n : n = Idle("error")
        OBVIOUS
    <2>3. /\ n.pc = "idle" /\ n.c = NoCluster /\ n.k = NoKey /\ (\A k : ~InHand(n, k))
          /\ ~Refreshing(n) /\ KnowsItem(n)' /\ KnowsCaches(n)' /\ KnowsKey(n)'
        BY <2>2, IdleKnows
    <2>4. PoolKept(n)' /\ CachesKept(n)'
        BY <1>1, <2>1, <2>3, QuietStep DEF Turn, Accounted, Refreshing, InHand
    <2> QED BY <1>5, <2>2, <2>3, <2>4, BecomesAccounted
<1>6. CASE /\ items[q.c] # NoItem
           /\ req'[r] = [q EXCEPT !.pc = "fillID", !.load = items[q.c].cred]
    <2>1. PICK n : n = [q EXCEPT !.pc = "fillID", !.load = items[q.c].cred]
        OBVIOUS
    <2>2. /\ n.pc = "fillID" /\ n.load = items[q.c].cred /\ n.c = q.c /\ n.k = q.k
          /\ n.view = q.view /\ n.ret = q.ret /\ n.op = q.op
        BY <1>1, <2>1 DEF Request
    <2>3. items[q.c] = Whole(n.load)
        BY <1>1, <1>6, <2>2 DEF Turn, Accounted, PoolKept
    <2>4. KnowsItem(n)' /\ KnowsCaches(n)'
        BY <1>1, <2>2, <2>3 DEF KnowsItem, KnowsCaches
    <2>5. KnowsKey(n)'
        <3>1. \A k : Whole(k).cred = k
            BY WholeItem, Zenon
        <3>2. /\ q.ret \in {"serve", "access"} => items[q.c] = Whole(q.view)
              /\ q.ret = "access" => q.op # "delete"
              /\ q.ret = "revokeKey" => items[q.c] = Whole(NoKey) /\ q.op \in {"revoke", "remove", "delete"}
            BY <1>1 DEF KnowsItem, KnowsKey, SettingUp, Turn, Accounted
        <3> QED BY <1>1, <2>2, <2>3, <3>1, <3>2 DEF KnowsKey, SettingUp
    <2>6. PoolKept(n)'
        BY <1>1, <2>2 DEF PoolKept, Held, InHand, Turn, Accounted
    <2>7. CachesKept(n)'
        BY <1>1, <2>2 DEF CachesKept, Refreshing, Turn, Accounted
    <2> QED BY <1>6, <2>1, <2>4, <2>5, <2>6, <2>7, BecomesAccounted
<1>7. \/ req'[r] \in {Idle("error"), NotFound(q)} /\ (~items[q.c].present \/ ~items[q.c].complete)
      \/ items[q.c].complete /\ req'[r] = [q EXCEPT !.pc = "fillID", !.load = items[q.c].cred]
    <2>1. req \in [Requests -> Request] /\ q = req[r] /\ r \in Requests
        BY DEF Turn, IInv, TypeOK
    <2>2. \A x : Step(r, x) => req'[r] = x
        BY <2>1 DEF Step
    <2> QED BY <1>2, <2>1, <2>2, Zenon DEF fetchCluster
<1>8. items[q.c] = NoItem => NotFound(q) = Idle("error")
    BY <1>4 DEF NotFound
<1>9. \/ req'[r] = Idle("error") /\ items[q.c] = NoItem
      \/ items[q.c] # NoItem /\ req'[r] = [q EXCEPT !.pc = "fillID", !.load = items[q.c].cred]
    BY <1>7, <1>8, <1>3, Zenon
<1> QED BY <1>5, <1>6, <1>9

LEMMA CacheByIDAccounted ==
    ASSUME NEW r, NEW q, Turn(r, q), cacheByID(r)
    PROVE  Accounted(req[r])'
<1>1. /\ q \in Request /\ q.pc = "fillID" /\ q.c \in Clusters /\ q.c \in minted
      /\ items[q.c] = Whole(q.load)
      /\ UNCHANGED <<creds, items, byName, minted, reported, abandoned>>
    BY DEF Turn, cacheByID, Control, OnCluster, Accounted, KnowsItem
<1>2. PICK n : n = [q EXCEPT !.pc = "fillName"]
    OBVIOUS
<1>3. req'[r] = n
    BY <1>2 DEF Turn, cacheByID, Goto, Step, IInv, TypeOK
<1>4. /\ n.pc = "fillName" /\ n.load = q.load /\ n.c = q.c /\ n.k = q.k
      /\ n.view = q.view /\ n.ret = q.ret /\ n.op = q.op
    BY <1>1, <1>2 DEF Request
<1>5. /\ byID'[q.c].st = "live" /\ byID'[q.c].cred = q.load
      /\ \A d \in Clusters \ {q.c} : byID'[d] = byID[d]
    BY <1>1 DEF Turn, cacheByID, Entry, IInv, TypeOK
<1>6. PoolKept(n)'
    BY <1>1, <1>4, <1>5 DEF PoolKept, Held, InHand, Turn, Accounted
<1>7. CachesKept(n)'
    BY <1>1, <1>4, <1>5 DEF CachesKept, Refreshing, Turn, Accounted
<1>8. KnowsItem(n)' /\ KnowsCaches(n)'
    BY <1>1, <1>4, <1>5 DEF KnowsItem, KnowsCaches
<1>9. KnowsKey(n)'
    BY <1>1, <1>4 DEF KnowsKey, SettingUp, Turn, Accounted
<1> QED BY <1>3, <1>6, <1>7, <1>8, <1>9, BecomesAccounted

LEMMA CacheByNameAccounted ==
    ASSUME NEW r, NEW q, Turn(r, q), cacheByName(r)
    PROVE  Accounted(req[r])'
<1>1. /\ q \in Request /\ q.pc = "fillName" /\ q.c \in Clusters /\ q.c \in minted
      /\ items[q.c] = Whole(q.load) /\ byID[q.c].st # "none"
      /\ UNCHANGED <<creds, items, byID, minted, reported, abandoned>>
    BY DEF Turn, cacheByName, Control, OnCluster, Accounted, KnowsItem, KnowsCaches
<1>2. /\ byName'[q.c].st = "live" /\ byName'[q.c].cred = q.load
      /\ \A d \in Clusters \ {q.c} : byName'[d] = byName[d]
    BY <1>1 DEF Turn, cacheByName, Entry, IInv, TypeOK
<1>3. ASSUME NEW n, n.c \in {q.c, NoCluster}, n.pc # "erase", ~Refreshing(n),
             \A k \in Keys : InHand(n, k) <=> InHand(q, k)
      PROVE  PoolKept(n)' /\ CachesKept(n)'
    <2>1. PoolKept(n)'
        BY <1>1, <1>2, <1>3 DEF PoolKept, Held, Turn, Accounted
    <2>2. CachesKept(n)'
        BY <1>1, <1>2, <1>3 DEF CachesKept, Refreshing, Turn, Accounted
    <2> QED BY <2>1, <2>2
<1>4. CASE q.ret = "reply"
    <2>1. PICK s, n : n = Idle(s) /\ Step(r, n)
        BY <1>4 DEF Turn, cacheByName, Reply
    <2>2. req'[r] = n
        BY <2>1 DEF Turn, Step, IInv, TypeOK
    <2>3. /\ n.pc = "idle" /\ n.c = NoCluster /\ (\A k : ~InHand(n, k))
          /\ ~Refreshing(n) /\ KnowsItem(n)' /\ KnowsCaches(n)' /\ KnowsKey(n)'
        BY <2>1, IdleKnows
    <2>4. \A k \in Keys : InHand(n, k) <=> InHand(q, k)
        BY <1>1, <1>4, <2>3 DEF InHand
    <2> QED BY <1>3, <2>2, <2>3, <2>4, BecomesAccounted
<1>5. CASE q.ret = "entry"
    <2>1. PICK v : v = q.load
        OBVIOUS
    <2>2. PICK n : n = Returned(q, v)
        OBVIOUS
    <2>3. req'[r] = n
        BY <1>5, <2>1, <2>2 DEF Turn, cacheByName, Step, IInv, TypeOK
    <2>4. q.c \in minted' /\ items'[q.c] = Whole(v)
        BY <1>1, <2>1
    <2>5. /\ n.pc # "erase" /\ ~Refreshing(n) /\ (\A k : ~InHand(n, k))
          /\ KnowsItem(n)' /\ KnowsCaches(n)' /\ KnowsKey(n)'
        BY <1>1, <1>5, <2>2, <2>4, EntryKnows
    <2>6. n.c \in {q.c, NoCluster}
        BY <1>1, <1>5, <2>2, EntryReturned
    <2>7. \A k \in Keys : InHand(n, k) <=> InHand(q, k)
        BY <1>1, <1>5, <2>5 DEF InHand
    <2> QED BY <1>3, <2>3, <2>5, <2>6, <2>7, BecomesAccounted
<1>6. CASE q.ret \in {"serve", "revokeKey", "detach", "access", "ready"}
    <2>1. PICK n : n = [q EXCEPT !.pc = q.ret, !.load = NoKey]
        OBVIOUS
    <2>2. req'[r] = n
        BY <1>6, <2>1 DEF Turn, cacheByName, Step, Returned, IInv, TypeOK
    <2>3. /\ n.pc = q.ret /\ n.c = q.c /\ n.k = q.k
          /\ n.view = q.view /\ n.ret = q.ret /\ n.op = q.op
        BY <1>1, <2>1 DEF Request
    <2>4. n.pc # "erase" /\ ~Refreshing(n) /\ \A k \in Keys : InHand(n, k) <=> InHand(q, k)
        BY <1>1, <1>6, <2>3 DEF InHand, Refreshing
    <2>5. KnowsItem(n)' /\ KnowsCaches(n)' /\ KnowsKey(n)'
        BY <1>1, <1>6, <2>3 DEF KnowsItem, KnowsCaches, KnowsKey, SettingUp, Turn, Accounted
    <2>6. PoolKept(n)' /\ CachesKept(n)'
        BY <1>3, <2>3, <2>4
    <2> QED BY <2>2, <2>5, <2>6, BecomesAccounted
<1>7. CASE q.ret = "setup"
    <2>1. PICK n : n = [q EXCEPT !.pc = "find", !.ret = "access", !.load = NoKey]
        OBVIOUS
    <2>2. req'[r] = n
        BY <1>7, <2>1 DEF Turn, cacheByName, Step, Returned, IInv, TypeOK
    <2>3. n.pc = "find" /\ n.ret = "access" /\ n.c = q.c /\ n.view = q.view /\ n.op = q.op
        BY <1>1, <2>1 DEF Request
    <2>4. n.pc # "erase" /\ ~Refreshing(n) /\ \A k \in Keys : InHand(n, k) <=> InHand(q, k)
        BY <1>1, <1>7, <2>3 DEF InHand, Refreshing
    <2>5. q.load = q.view /\ q.op # "delete"
        BY <1>1, <1>7 DEF KnowsKey, SettingUp, Turn, Accounted
    <2>6. KnowsItem(n)' /\ KnowsCaches(n)' /\ KnowsKey(n)'
        BY <1>1, <2>3, <2>5 DEF KnowsItem, KnowsCaches, KnowsKey, SettingUp
    <2>7. PoolKept(n)' /\ CachesKept(n)'
        BY <1>3, <2>3, <2>4
    <2> QED BY <2>2, <2>6, <2>7, BecomesAccounted
<1> QED BY <1>1, <1>4, <1>5, <1>6, <1>7 DEF Control, Request, Turn

\* A step that ends with an answer, or goes on in the same way, and changes no
\* table and no cache.
LEMMA QuietAccounted ==
    ASSUME NEW r, NEW q, Turn(r, q), NEW n, req'[r] = n,
           UNCHANGED <<creds, items, byID, byName, minted, reported, abandoned>>,
           q.pc \notin {"erase", "find", "fillID", "fillName"},
           \A k \in Keys : InHand(q, k) => ~creds[k].inUse,
           \A k \in Keys : InHand(n, k) => ~Held(k),
           KnowsItem(n)', KnowsCaches(n)', KnowsKey(n)'
    PROVE  Accounted(req[r])'
<1>1. PoolKept(q) /\ CachesKept(q) /\ ~Refreshing(q)
    BY DEF Turn, Accounted, Refreshing
<1>2. PoolKept(n)' /\ CachesKept(n)'
    BY <1>1, QuietStep
<1> QED BY <1>2, BecomesAccounted

\* The answer of a handler, when nothing is in hand.
LEMMA ReplyAccounted ==
    ASSUME NEW r, NEW q, Turn(r, q), NEW s, Reply(r, s),
           UNCHANGED <<creds, items, byID, byName, minted, reported, abandoned>>,
           q.pc \notin {"erase", "find", "fillID", "fillName", "set", "revokeKey"}
    PROVE  Accounted(req[r])'
<1>1. PICK n : n = Idle(s)
    OBVIOUS
<1>2. req'[r] = n
    BY <1>1 DEF Turn, Reply, Step, IInv, TypeOK
<1>3. (\A k : ~InHand(n, k)) /\ KnowsItem(n)' /\ KnowsCaches(n)' /\ KnowsKey(n)'
    BY <1>1, IdleKnows
<1>4. \A k \in Keys : ~InHand(q, k)
    BY DEF InHand
<1> QED BY <1>2, <1>3, <1>4, QuietAccounted

LEMMA ScanAccounted ==
    ASSUME NEW r, NEW q, Turn(r, q), scanAvailable(r)
    PROVE  Accounted(req[r])'
<1>1. /\ q \in Request /\ q.pc = "scan"
      /\ UNCHANGED <<creds, items, byID, byName, minted, reported, abandoned>>
    BY DEF Turn, scanAvailable
<1>2. CASE Reply(r, "error")
    BY <1>1, <1>2, ReplyAccounted
<1>3. CASE \E f : Step(r, [q EXCEPT !.pc = "acquire", !.cand = f])
    <2>1. PICK f, n : n = [q EXCEPT !.pc = "acquire", !.cand = f] /\ Step(r, n)
        BY <1>3
    <2>2. req'[r] = n /\ n.pc = "acquire" /\ n.c = q.c
        BY <1>1, <2>1 DEF Turn, Step, IInv, TypeOK, Request
    <2>3. KnowsItem(n)' /\ KnowsCaches(n)' /\ KnowsKey(n)' /\ \A k \in Keys : ~InHand(n, k) /\ ~InHand(q, k)
        BY <1>1, <2>2 DEF KnowsItem, KnowsCaches, KnowsKey, SettingUp, InHand, Turn, Accounted
    <2> QED BY <1>1, <2>2, <2>3, QuietAccounted
<1> QED BY <1>2, <1>3 DEF scanAvailable, Turn

LEMMA AcquireAccounted ==
    ASSUME NEW r, NEW q, Turn(r, q), NEW k \in Keys, acquireCandidate(r, k)
    PROVE  Accounted(req[r])'
<1>1. /\ q \in Request /\ q.pc = "acquire" /\ q.c \in Clusters
      /\ UNCHANGED <<items, byID, byName, minted, reported, abandoned>>
      /\ PoolKept(q) /\ CachesKept(q) /\ KnowsItem(q)
    BY DEF Turn, acquireCandidate, Control, OnCluster, Accounted
<1>2. ~Fault
    BY DEF Turn, Fault
<1>3. CASE /\ MayAcquire(k) /\ creds' = Acquired(k)
           /\ Step(r, [q EXCEPT !.pc = "set", !.k = k, !.cand = {}])
    <2>1. PICK n : n = [q EXCEPT !.pc = "set", !.k = k, !.cand = {}]
        OBVIOUS
    <2>2. req'[r] = n /\ n.pc = "set" /\ n.c = q.c /\ n.k = k
        BY <1>1, <1>3, <2>1 DEF Turn, Step, IInv, TypeOK, Request
    <2>3. creds[k].present /\ ~creds[k].inUse /\ ~creds[k].revoked
        BY <1>3 DEF MayAcquire
    <2>4. /\ creds'[k].inUse /\ creds'[k].present /\ ~creds'[k].revoked
          /\ \A j \in Keys \ {k} : creds'[j] = creds[j]
        BY <1>3, <2>3 DEF Acquired, Turn, IInv, TypeOK, CredItem
    <2>5. PoolKept(n)'
        BY <1>1, <2>2, <2>3, <2>4 DEF PoolKept, Held, InHand
    <2>6. CachesKept(n)'
        BY <1>1, <2>2 DEF CachesKept, Refreshing
    <2>7. KnowsItem(n)' /\ KnowsCaches(n)' /\ KnowsKey(n)'
        BY <1>1, <2>2, <2>4 DEF KnowsItem, KnowsCaches, KnowsKey, SettingUp
    <2> QED BY <2>2, <2>5, <2>6, <2>7, BecomesAccounted
<1>4. CASE NextCandidate(r, k) /\ UNCHANGED creds
    <2>1. PICK pc : pc = IF q.cand = {k} THEN "scan" ELSE "acquire"
        OBVIOUS
    <2>2. PICK n : n = [q EXCEPT !.cand = q.cand \ {k}, !.pc = pc]
        OBVIOUS
    <2>3. req'[r] = n
        BY <1>1, <1>4, <2>1, <2>2 DEF Turn, NextCandidate, Step, IInv, TypeOK, Request
    <2>4. n.pc \in {"scan", "acquire"} /\ n.c = q.c
        BY <1>1, <2>1, <2>2 DEF Request
    <2>5. KnowsItem(n)' /\ KnowsCaches(n)' /\ KnowsKey(n)' /\ \A j \in Keys : ~InHand(n, j) /\ ~InHand(q, j)
        BY <1>1, <2>4 DEF KnowsItem, KnowsCaches, KnowsKey, SettingUp, InHand
    <2> QED BY <1>1, <1>4, <2>3, <2>5, QuietAccounted
<1> QED BY <1>2, <1>3, <1>4 DEF acquireCandidate, Turn

\* A step that writes the record of the request's cluster, which then names v.
LEMMA WrittenPool ==
    ASSUME NEW q, NEW n, NEW c \in Clusters, c \in minted, PoolKept(q),
           items' \in [Clusters -> ClusterItem],
           items'[c] = NoItem \/ \E v : items'[c] = Whole(v),
           \A d \in Clusters \ {c} : items'[d] = items[d] /\ byID'[d] = byID[d] /\ byName'[d] = byName[d],
           UNCHANGED <<creds, minted, reported>>, abandoned \subseteq abandoned',
           \A k \in Keys : items[c].cred = k =>
                items'[c].cred = k \/ InHand(n, k) \/ k \in abandoned',
           \A k \in Keys : items'[c].cred = k => creds[k].inUse /\ ~creds[k].revoked,
           \A k \in Keys : InHand(q, k) => items'[c].cred = k \/ InHand(n, k),
           \A k \in Keys : InHand(n, k) =>
                items'[c].cred # k /\ \A d \in Clusters \ {c} : items[d].cred # k
    PROVE  PoolKept(n)'
<1>1. items'[c] = NoItem \/ items'[c] = Whole(items'[c].cred)
    <2>1. ASSUME NEW v, items'[c] = Whole(v) PROVE items'[c].cred = v
        BY <2>1, WholeItem, Zenon
    <2> QED BY <2>1
<1>2. ASSUME NEW d \in Clusters PROVE items'[d] = NoItem \/ items'[d] = Whole(items'[d].cred)
    BY <1>1 DEF PoolKept
<1>3. ASSUME NEW k \in Keys, creds'[k].inUse
      PROVE  creds'[k].present /\ (Held(k)' \/ InHand(n, k)' \/ k \in abandoned')
    BY <1>3 DEF PoolKept, Held, InHand
<1>4. ASSUME NEW k \in Keys, Held(k)'
      PROVE  creds'[k].inUse /\ ~creds'[k].revoked /\ ~InHand(n, k)'
    BY <1>4 DEF PoolKept, Held, InHand
<1>5. ASSUME NEW d \in Clusters \ minted'
      PROVE  items'[d] = NoItem /\ byID'[d].st = "none" /\ byName'[d].st = "none"
    BY <1>5 DEF PoolKept
<1> QED BY <1>2, <1>3, <1>4, <1>5 DEF PoolKept

LEMMA SetAccounted ==
    ASSUME NEW r, NEW q, Turn(r, q), setClusterCredential(r)
    PROVE  Accounted(req[r])'
<1>1. /\ q \in Request /\ q.pc = "set" /\ q.c \in Clusters /\ q.c \in minted /\ q.k \in Keys
      /\ UNCHANGED <<creds, byID, byName, minted, abandoned>>
      /\ PoolKept(q) /\ CachesKept(q) /\ items[q.c] = Whole(NoKey)
      /\ creds[q.k].inUse /\ ~creds[q.k].revoked
    BY DEF Turn, setClusterCredential, Control, OnCluster, OnKey, Accounted, KnowsItem, KnowsKey
<1>2. ~Fault
    BY DEF Turn, Fault
<1>3. MaySet(q.c)
    BY <1>1, WholeItem, Zenon DEF MaySet
<1>4. /\ items' = WithCred(q.c, q.k) /\ reported' = reported
      /\ Step(r, [q EXCEPT !.pc = "erase", !.view = q.k, !.ret = "serve"])
    BY <1>2, <1>3 DEF setClusterCredential, Turn
<1>5. PICK n : n = [q EXCEPT !.pc = "erase", !.view = q.k, !.ret = "serve"]
    OBVIOUS
<1>6. /\ req'[r] = n /\ n.pc = "erase" /\ n.c = q.c /\ n.k = q.k /\ n.view = q.k /\ n.ret = "serve"
    BY <1>1, <1>4, <1>5 DEF Turn, Step, IInv, TypeOK, Request
<1>7. /\ items'[q.c] = Whole(q.k) /\ \A d \in Clusters \ {q.c} : items'[d] = items[d]
      /\ items' \in [Clusters -> ClusterItem]
    <2>1. items \in [Clusters -> ClusterItem]
        BY DEF Turn, IInv, TypeOK
    <2>2. PICK t : t = TRUE
        OBVIOUS
    <2>3. items' = [items EXCEPT ![q.c].present = t, ![q.c].cred = q.k]
        BY <1>4, <2>2, Zenon DEF WithCred
    <2>4. PICK x : x = [items[q.c] EXCEPT !.present = t, !.cred = q.k]
        OBVIOUS
    <2>5. x = Whole(q.k)
        <3>1. PICK w : w = items[q.c]
            OBVIOUS
        <3>2. w = Whole(NoKey)
            BY <1>1, <3>1
        <3>3. x = [w EXCEPT !.present = TRUE, !.cred = q.k]
            BY <2>2, <2>4, <3>1, Zenon
        <3> QED BY <3>2, <3>3, WholeItem, Zenon
    <2>6. items'[q.c] = x /\ \A d \in Clusters \ {q.c} : items'[d] = items[d]
        BY <1>1, <2>1, <2>3, <2>4
    <2>7. Whole(q.k) \in ClusterItem
        BY <1>1 DEF Whole, ClusterItem, MaybeKey
    <2>8. items' = [items EXCEPT ![q.c] = x]
        BY <1>1, <2>1, <2>3, <2>4
    <2>9. items' \in [Clusters -> ClusterItem]
        BY <1>1, <2>1, <2>5, <2>7, <2>8
    <2> QED BY <2>5, <2>6, <2>9
<1>8. items[q.c].cred = NoKey /\ items'[q.c].cred = q.k
    BY <1>1, <1>7, WholeItem, Zenon
<1>9. PoolKept(n)'
    <2>1. \A k \in Keys : ~InHand(n, k) /\ (InHand(q, k) => k = q.k)
        BY <1>6 DEF InHand
    <2> QED BY <1>1, <1>4, <1>7, <1>8, <2>1, CredAssumption, WrittenPool
<1>10. CachesKept(n)'
    BY <1>1, <1>6, <1>7 DEF CachesKept, Refreshing
<1>11. KnowsItem(n)' /\ KnowsCaches(n)' /\ KnowsKey(n)'
    BY <1>1, <1>6, <1>7 DEF KnowsItem, KnowsCaches, KnowsKey, SettingUp
<1> QED BY <1>6, <1>9, <1>10, <1>11, BecomesAccounted

LEMMA DetachAccounted ==
    ASSUME NEW r, NEW q, Turn(r, q), detachClusterCredential(r)
    PROVE  Accounted(req[r])'
<1>1. /\ q \in Request /\ q.pc = "detach" /\ q.c \in Clusters /\ q.c \in minted /\ q.k \in Keys
      /\ UNCHANGED <<creds, byID, byName, minted, reported, abandoned>>
      /\ PoolKept(q) /\ CachesKept(q) /\ items[q.c] = Whole(q.k)
      /\ q.op \in {"revoke", "remove", "delete"}
    BY DEF Turn, detachClusterCredential, Control, OnCluster, OnKey, Accounted, KnowsItem, KnowsKey
<1>2. ~Fault
    BY DEF Turn, Fault
<1>3. items[q.c].present
    BY <1>1, WholeItem, Zenon
<1>4. /\ items' = [items EXCEPT ![q.c].cred = NoKey]
      /\ Step(r, [q EXCEPT !.pc = "erase", !.ret = "revokeKey"])
    BY <1>2, <1>3 DEF detachClusterCredential, Turn
<1>5. PICK n : n = [q EXCEPT !.pc = "erase", !.ret = "revokeKey"]
    OBVIOUS
<1>6. /\ req'[r] = n /\ n.pc = "erase" /\ n.c = q.c /\ n.k = q.k /\ n.op = q.op /\ n.ret = "revokeKey"
    BY <1>1, <1>4, <1>5 DEF Turn, Step, IInv, TypeOK, Request
<1>7. /\ items'[q.c] = Whole(NoKey) /\ \A d \in Clusters \ {q.c} : items'[d] = items[d]
      /\ items' \in [Clusters -> ClusterItem]
    <2>1. items \in [Clusters -> ClusterItem]
        BY DEF Turn, IInv, TypeOK
    <2>2. PICK x : x = [items[q.c] EXCEPT !.cred = NoKey]
        OBVIOUS
    <2>3. x = Whole(NoKey)
        <3>1. PICK w : w = items[q.c]
            OBVIOUS
        <3>2. w = Whole(q.k)
            BY <1>1, <3>1
        <3>3. x = [w EXCEPT !.cred = NoKey]
            BY <2>2, <3>1, Zenon
        <3> QED BY <3>2, <3>3, WholeItem, Zenon
    <2>4. items'[q.c] = x /\ \A d \in Clusters \ {q.c} : items'[d] = items[d]
        BY <1>1, <1>4, <2>1, <2>2
    <2>5. Whole(NoKey) \in ClusterItem
        BY DEF Whole, ClusterItem, MaybeKey
    <2> QED BY <1>1, <1>4, <2>1, <2>3, <2>4, <2>5
<1>8. items[q.c].cred = q.k /\ items'[q.c].cred = NoKey
    BY <1>1, <1>7, WholeItem, Zenon
<1>9. PoolKept(n)'
    <2>1. \A k \in Keys : ~InHand(q, k) /\ (InHand(n, k) <=> k = q.k)
        BY <1>1, <1>6 DEF InHand
    <2>2. \A d \in Clusters \ {q.c} : items[d].cred # q.k
        <3> SUFFICES ASSUME NEW d \in Clusters \ {q.c}, items[d].cred = q.k PROVE FALSE
            OBVIOUS
        <3> QED BY <1>1, <1>8 DEF Turn, IInv, Exclusive, Bound
    <2> QED BY <1>1, <1>7, <1>8, <2>1, <2>2, CredAssumption, WrittenPool
<1>10. CachesKept(n)'
    BY <1>1, <1>6, <1>7 DEF CachesKept, Refreshing
<1>11. KnowsItem(n)' /\ KnowsCaches(n)' /\ KnowsKey(n)'
    BY <1>1, <1>6, <1>7 DEF KnowsItem, KnowsCaches, KnowsKey, SettingUp
<1> QED BY <1>6, <1>9, <1>10, <1>11, BecomesAccounted

LEMMA EraseAccounted ==
    ASSUME NEW r, NEW q, Turn(r, q), eraseCacheEntry(r)
    PROVE  Accounted(req[r])'
<1>1. /\ q \in Request /\ q.pc = "erase" /\ q.c \in Clusters /\ q.c \in minted
      /\ UNCHANGED <<creds, items, byName, minted, reported, abandoned>>
      /\ PoolKept(q) /\ CachesKept(q) /\ KnowsItem(q) /\ KnowsKey(q)
      /\ q.ret \in {"serve", "revokeKey"}
    BY DEF Turn, eraseCacheEntry, Control, OnCluster, Accounted, KnowsItem, Request
<1>2. PICK n : n = [q EXCEPT !.pc = "find"]
    OBVIOUS
<1>3. /\ req'[r] = n /\ n.pc = "find" /\ n.c = q.c /\ n.k = q.k /\ n.op = q.op /\ n.ret = q.ret
      /\ n.view = q.view
    BY <1>1, <1>2 DEF Turn, eraseCacheEntry, Goto, Step, IInv, TypeOK, Request
<1>4. byID'[q.c].st = "none" /\ \A d \in Clusters \ {q.c} : byID'[d] = byID[d]
    BY <1>1 DEF Turn, eraseCacheEntry, NoEntry, IInv, TypeOK
<1>5. PoolKept(n)'
    BY <1>1, <1>3, <1>4 DEF PoolKept, Held, InHand
<1>6. CachesKept(n)'
    BY <1>1, <1>3, <1>4 DEF CachesKept, Refreshing
<1>7. KnowsItem(n)' /\ KnowsCaches(n)' /\ KnowsKey(n)'
    BY <1>1, <1>3, <1>4 DEF KnowsItem, KnowsCaches, KnowsKey, SettingUp
<1> QED BY <1>3, <1>5, <1>6, <1>7, BecomesAccounted

LEMMA ServeAccounted ==
    ASSUME NEW r, NEW q, Turn(r, q), serveCredential(r)
    PROVE  Accounted(req[r])'
BY ReplyAccounted DEF serveCredential, Turn

LEMMA GetCredAccounted ==
    ASSUME NEW r, NEW q, Turn(r, q), getMonitoringCredential(r)
    PROVE  Accounted(req[r])'
<1>1. /\ q \in Request /\ q.pc = "getCred" /\ KnowsItem(q)
      /\ UNCHANGED <<creds, items, byID, byName, minted, reported, abandoned>>
    BY DEF Turn, getMonitoringCredential, Accounted
<1>2. CASE Reply(r, "error")
    BY <1>1, <1>2, ReplyAccounted
<1>3. CASE \E pc \in {"findUsing", "dbDrop"} : Goto(r, pc)
    <2>1. PICK pc \in {"findUsing", "dbDrop"} : Goto(r, pc)
        BY <1>3
    <2>2. PICK n : n = [q EXCEPT !.pc = pc]
        OBVIOUS
    <2>3. req'[r] = n /\ n.pc \in {"findUsing", "dbDrop"} /\ n.c = q.c
        BY <1>1, <2>1, <2>2 DEF Turn, Goto, Step, IInv, TypeOK, Request
    <2>4. KnowsItem(n)' /\ KnowsCaches(n)' /\ KnowsKey(n)' /\ \A k \in Keys : ~InHand(n, k) /\ ~InHand(q, k)
        BY <1>1, <2>3 DEF KnowsItem, KnowsCaches, KnowsKey, SettingUp, InHand
    <2> QED BY <1>1, <2>3, <2>4, QuietAccounted
<1> QED BY <1>2, <1>3 DEF getMonitoringCredential

LEMMA FindUsingAccounted ==
    ASSUME NEW r, NEW q, Turn(r, q), findClusterUsingCredential(r)
    PROVE  Accounted(req[r])'
<1>1. /\ q \in Request /\ q.pc = "findUsing" /\ q.op = "revoke" /\ q.k \in Keys
      /\ KnowsItem(q) /\ PoolKept(q) /\ CachesKept(q)
      /\ UNCHANGED <<creds, items, byID, byName, minted, reported, abandoned>>
    BY DEF Turn, findClusterUsingCredential, Accounted, Control, OnKey
<1>2. ~Fault
    BY DEF Turn, Fault
<1>3. CASE Reply(r, "error")
    BY <1>1, <1>3, ReplyAccounted
<1>4. CASE Goto(r, "revokeKey") /\ ~Held(q.k)
    <2>1. PICK n : n = [q EXCEPT !.pc = "revokeKey"]
        OBVIOUS
    <2>2. req'[r] = n /\ n.pc = "revokeKey" /\ n.c = q.c /\ n.k = q.k /\ n.op = "revoke"
        BY <1>1, <1>4, <2>1 DEF Turn, Goto, Step, IInv, TypeOK, Request
    <2>3. /\ KnowsItem(n)' /\ KnowsCaches(n)' /\ KnowsKey(n)'
          /\ \A k \in Keys : ~InHand(q, k) /\ (InHand(n, k) => k = q.k)
        BY <1>1, <2>2 DEF KnowsItem, KnowsCaches, KnowsKey, SettingUp, InHand
    <2> QED BY <1>1, <1>4, <2>2, <2>3, QuietAccounted
<1>5. ASSUME NEW c \in Clusters, items[c].cred = q.k,
             Step(r, [q EXCEPT !.pc = "fillID", !.c = c, !.load = q.k, !.ret = "detach"])
      PROVE  Accounted(req[r])'
    <2>1. PICK n : n = [q EXCEPT !.pc = "fillID", !.c = c, !.load = q.k, !.ret = "detach"]
        OBVIOUS
    <2>2. /\ req'[r] = n /\ n.pc = "fillID" /\ n.c = c /\ n.k = q.k /\ n.op = "revoke"
          /\ n.load = q.k /\ n.ret = "detach"
        BY <1>1, <1>5, <2>1 DEF Turn, Step, IInv, TypeOK, Request
    <2>3. items[c] # NoItem
        <3>1. q.k # NoKey
            BY <1>1, CredAssumption
        <3> QED BY <1>5, <3>1, WholeItem, Zenon
    <2>4. items[c] = Whole(q.k) /\ c \in minted
        BY <1>1, <1>5, <2>3 DEF PoolKept
    <2>5. /\ KnowsItem(n)' /\ KnowsCaches(n)' /\ KnowsKey(n)'
          /\ \A k \in Keys : ~InHand(q, k) /\ ~InHand(n, k)
        BY <1>1, <2>2, <2>4 DEF KnowsItem, KnowsCaches, KnowsKey, SettingUp, InHand
    <2> QED BY <1>1, <2>2, <2>5, QuietAccounted
<1> QED BY <1>2, <1>3, <1>4, <1>5 DEF findClusterUsingCredential, Turn, Held

\* A step that writes the flags of one key that no record names and nobody has in
\* hand afterwards.
LEMMA CredPool ==
    ASSUME NEW q, NEW n, NEW k \in Keys, PoolKept(q), ~Held(k), q.pc # "erase", ~Refreshing(q), CachesKept(q),
           \/ creds' = creds /\ ~creds[k].inUse
           \/ ~creds'[k].inUse /\ \A j \in Keys \ {k} : creds'[j] = creds[j],
           UNCHANGED <<items, byID, byName, minted, reported, abandoned>>,
           \A j \in Keys : InHand(q, j) => j = k,
           \A j \in Keys : ~InHand(n, j)
    PROVE  PoolKept(n)' /\ CachesKept(n)'
<1>1. PoolKept(n)'
    BY DEF PoolKept, Held
<1>2. CachesKept(n)'
    BY DEF CachesKept
<1> QED BY <1>1, <1>2

LEMMA RevokeAccounted ==
    ASSUME NEW r, NEW q, Turn(r, q), revokeKey(r)
    PROVE  Accounted(req[r])'
<1>1. /\ q \in Request /\ q.pc = "revokeKey" /\ q.op \in {"revoke", "remove", "delete"} /\ q.k \in Keys
      /\ KnowsItem(q) /\ PoolKept(q) /\ CachesKept(q) /\ ~Refreshing(q) /\ ~Held(q.k)
      /\ UNCHANGED <<items, byID, byName, minted, reported, abandoned>>
    BY DEF Turn, revokeKey, Accounted, Control, OnKey, KnowsKey, PoolKept, InHand, Refreshing
<1>2. ~Fault
    BY DEF Turn, Fault
<1>3. \/ creds' = creds /\ ~creds[q.k].inUse
      \/ ~creds'[q.k].inUse /\ \A j \in Keys \ {q.k} : creds'[j] = creds[j]
    <2>1. CASE ~creds[q.k].present /\ creds' = creds
        BY <1>1, <2>1 DEF PoolKept
    <2>2. CASE creds' = markRevoked(q.k)
        <3>1. /\ creds'[q.k] = Revoked(creds[q.k]) /\ creds[q.k] \in CredItem
              /\ \A j \in Keys \ {q.k} : creds'[j] = creds[j]
            BY <1>1, <2>2 DEF markRevoked, Turn, IInv, TypeOK
        <3> QED BY <3>1 DEF Revoked, CredItem
    <2> QED BY <1>2, <2>1, <2>2 DEF revokeKey, Turn
<1>4. PICK done \in BOOLEAN : Step(r, AfterRevocation(q, done))
    BY DEF revokeKey, Turn
<1>5. PICK n : n = AfterRevocation(q, done)
    OBVIOUS
<1>6. req'[r] = n
    BY <1>4, <1>5 DEF Turn, Step, IInv, TypeOK
<1>7. KnowsItem(n)' /\ KnowsCaches(n)' /\ KnowsKey(n)' /\ \A j : ~InHand(n, j)
    <2>1. CASE q.op \in {"revoke", "remove"}
        <3>1. \E s : n = Idle(s)
            BY <1>5, <2>1 DEF AfterRevocation
        <3> QED BY <3>1, IdleKnows
    <2>2. CASE q.op = "delete"
        <3>1. n = [q EXCEPT !.pc = "uncacheName"]
            BY <1>5, <2>2 DEF AfterRevocation
        <3>2. n.pc = "uncacheName" /\ n.c = q.c /\ n.op = "delete"
            BY <1>1, <2>2, <3>1 DEF Request
        <3> QED BY <1>1, <2>2, <3>2 DEF KnowsItem, KnowsCaches, KnowsKey, SettingUp, InHand
    <2> QED BY <1>1, <2>1, <2>2
<1>8. \A j \in Keys : InHand(q, j) => j = q.k
    BY DEF InHand
<1>9. PoolKept(n)' /\ CachesKept(n)'
    BY <1>1, <1>3, <1>7, <1>8, CredPool
<1> QED BY <1>6, <1>7, <1>9, BecomesAccounted

LEMMA DropAccounted ==
    ASSUME NEW r, NEW q, Turn(r, q), dropCredential(r)
    PROVE  Accounted(req[r])'
<1>1. /\ q \in Request /\ q.pc = "dbDrop" /\ q.k \in Keys
      /\ KnowsItem(q) /\ PoolKept(q) /\ CachesKept(q) /\ ~Refreshing(q)
      /\ UNCHANGED <<items, byID, byName, minted, reported, abandoned>>
    BY DEF Turn, dropCredential, Accounted, Control, OnKey, Refreshing
<1>2. ~Fault
    BY DEF Turn, Fault
<1>3. CASE creds' = creds
    BY <1>1, <1>3, ReplyAccounted DEF dropCredential
<1>4. CASE MayDelete(q.k) /\ creds' = [creds EXCEPT ![q.k] = NoCred]
    <2>1. ~Held(q.k)
        BY <1>1, <1>4 DEF MayDelete, PoolKept
    <2>2. ~creds'[q.k].inUse /\ \A j \in Keys \ {q.k} : creds'[j] = creds[j]
        BY <1>1, <1>4 DEF NoCred, Turn, IInv, TypeOK
    <2>3. PICK s, n : n = Idle(s) /\ Step(r, n)
        BY DEF dropCredential, Reply
    <2>4. req'[r] = n
        BY <2>3 DEF Turn, Step, IInv, TypeOK
    <2>5. KnowsItem(n)' /\ KnowsCaches(n)' /\ KnowsKey(n)' /\ \A j : ~InHand(n, j)
        BY <2>3, IdleKnows
    <2>6. \A j \in Keys : ~InHand(q, j)
        BY <1>1 DEF InHand
    <2>7. PoolKept(n)' /\ CachesKept(n)'
        BY <1>1, <2>1, <2>2, <2>5, <2>6, CredPool
    <2> QED BY <2>4, <2>5, <2>7, BecomesAccounted
<1> QED BY <1>2, <1>3, <1>4 DEF dropCredential, Turn

LEMMA AddClusterAccounted ==
    ASSUME NEW r, NEW q, Turn(r, q), addCluster(r)
    PROVE  Accounted(req[r])'
<1>1. /\ q \in Request /\ q.pc = "putNew" /\ q.c \in Clusters /\ q.c \in minted /\ q.load = NoKey
      /\ q.view = NoKey /\ q.op # "delete"
      /\ items[q.c] = NoItem /\ byID[q.c].st = "none" /\ byName[q.c].st = "none"
      /\ PoolKept(q) /\ CachesKept(q)
      /\ UNCHANGED <<creds, byID, byName, minted, reported, abandoned>>
    BY DEF Turn, addCluster, Control, OnCluster, Accounted, KnowsItem, KnowsCaches, KnowsKey, SettingUp
<1>2. ~Fault
    BY DEF Turn, Fault
<1>3. /\ items' = [items EXCEPT ![q.c] = Whole(NoKey)]
      /\ Step(r, [q EXCEPT !.pc = "fillID", !.ret = "setup"])
    BY <1>2 DEF addCluster, Turn
<1>4. PICK n : n = [q EXCEPT !.pc = "fillID", !.ret = "setup"]
    OBVIOUS
<1>5. req'[r] = n /\ n.pc = "fillID" /\ n.c = q.c /\ n.load = NoKey /\ n.ret = "setup"
      /\ n.view = NoKey /\ n.op = q.op
    BY <1>1, <1>3, <1>4 DEF Turn, Step, IInv, TypeOK, Request
<1>6. /\ items'[q.c] = Whole(NoKey) /\ \A d \in Clusters \ {q.c} : items'[d] = items[d]
      /\ items' \in [Clusters -> ClusterItem]
    <2>1. Whole(NoKey) \in ClusterItem /\ items \in [Clusters -> ClusterItem]
        BY DEF Whole, ClusterItem, MaybeKey, Turn, IInv, TypeOK
    <2> QED BY <1>1, <1>3, <2>1
<1>7. items[q.c].cred = NoKey /\ items'[q.c].cred = NoKey
    BY <1>1, <1>6, WholeItem, Zenon
<1>8. PoolKept(n)'
    <2>1. \A k \in Keys : ~InHand(q, k) /\ ~InHand(n, k)
        BY <1>1, <1>5 DEF InHand
    <2> QED BY <1>1, <1>6, <1>7, <2>1, CredAssumption, WrittenPool
<1>9. CachesKept(n)'
    BY <1>1, <1>5, <1>6 DEF CachesKept, Refreshing
<1>10. KnowsItem(n)' /\ KnowsCaches(n)' /\ KnowsKey(n)'
    BY <1>1, <1>5, <1>6 DEF KnowsItem, KnowsCaches, KnowsKey, SettingUp
<1> QED BY <1>5, <1>8, <1>9, <1>10, BecomesAccounted

\* An update writes the record as it is: one request at a time, and the copy is not stale.
LEMMA PutAccounted ==
    ASSUME NEW r, NEW q, Turn(r, q), putCluster(r) \/ rewriteCluster(r)
    PROVE  Accounted(req[r])'
<1>1. /\ q \in Request /\ q.pc \in {"put", "rewrite"} /\ q.c \in Clusters /\ q.c \in minted
      /\ items[q.c] = Whole(q.view) /\ q.op # "delete"
      /\ UNCHANGED <<creds, byID, byName, minted, reported, abandoned>>
    BY DEF Turn, putCluster, rewriteCluster, Control, OnCluster, Accounted, KnowsItem, KnowsKey, SettingUp
<1>2. ~Fault
    BY DEF Turn, Fault
<1>3. PICK ret \in {"setup", "reply", "ready"} :
        /\ items' = [items EXCEPT ![q.c] = Whole(q.view)]
        /\ Step(r, [q EXCEPT !.pc = "fillID", !.load = q.view, !.ret = ret])
    BY <1>2 DEF putCluster, rewriteCluster, Turn
<1>4. items' = items
    BY <1>1, <1>3 DEF Turn, IInv, TypeOK
<1>5. PICK n : n = [q EXCEPT !.pc = "fillID", !.load = q.view, !.ret = ret]
    OBVIOUS
<1>6. /\ req'[r] = n /\ n.pc = "fillID" /\ n.c = q.c /\ n.load = q.view /\ n.ret = ret
      /\ n.view = q.view /\ n.op = q.op
    BY <1>1, <1>3, <1>5 DEF Turn, Step, IInv, TypeOK, Request
<1>7. /\ KnowsItem(n)' /\ KnowsCaches(n)' /\ KnowsKey(n)'
      /\ \A k \in Keys : ~InHand(q, k) /\ ~InHand(n, k)
    BY <1>1, <1>4, <1>6 DEF KnowsItem, KnowsCaches, KnowsKey, SettingUp, InHand
<1> QED BY <1>1, <1>4, <1>6, <1>7, QuietAccounted

\* What kubectl and helm say decides only where the handler goes on.
LEMMA DecideAccounted ==
    ASSUME NEW r, NEW q, Turn(r, q), keepRecord(r) \/ checkAccess(r) \/ checkHelm(r)
    PROVE  Accounted(req[r])'
<1>1. /\ q \in Request /\ q.pc \in {"put", "access", "ready"} /\ q.c \in minted
      /\ items[q.c] = Whole(q.view) /\ q.op # "delete"
      /\ UNCHANGED <<creds, items, byID, byName, minted, reported, abandoned>>
    BY DEF Turn, keepRecord, checkAccess, checkHelm, UnchangedExceptReq, Control, OnCluster,
           Accounted, KnowsItem, KnowsKey, SettingUp
<1>2. CASE \E s : Reply(r, s)
    BY <1>1, <1>2, ReplyAccounted
<1>3. ASSUME NEW pc \in {"rewrite", "uncacheName"}, Goto(r, pc) PROVE Accounted(req[r])'
    <2>1. PICK n : n = [q EXCEPT !.pc = pc]
        OBVIOUS
    <2>2. req'[r] = n /\ n.pc = pc /\ n.c = q.c /\ n.view = q.view /\ n.op = q.op
        BY <1>1, <1>3, <2>1 DEF Turn, Goto, Step, IInv, TypeOK, Request
    <2>3. KnowsItem(n)' /\ KnowsCaches(n)' /\ KnowsKey(n)' /\ \A k \in Keys : ~InHand(n, k) /\ ~InHand(q, k)
        BY <1>1, <2>2 DEF KnowsItem, KnowsCaches, KnowsKey, SettingUp, InHand
    <2> QED BY <1>1, <2>2, <2>3, QuietAccounted
<1> QED BY <1>2, <1>3 DEF keepRecord, checkAccess, checkHelm

LEMMA UncacheAccounted ==
    ASSUME NEW r, NEW q, Turn(r, q), uncacheName(r) \/ uncacheID(r)
    PROVE  Accounted(req[r])'
<1>1. /\ q \in Request /\ q.pc \in {"uncacheName", "uncacheID"} /\ q.c \in Clusters /\ q.c \in minted
      /\ items[q.c] = Whole(IF q.op = "delete" THEN NoKey ELSE q.view) /\ PoolKept(q) /\ CachesKept(q) /\ KnowsCaches(q)
      /\ UNCHANGED <<creds, items, minted, reported, abandoned>>
    BY DEF Turn, uncacheName, uncacheID, Control, OnCluster, Accounted, KnowsItem
<1>2. PICK pc : /\ pc = IF q.pc = "uncacheName" THEN "uncacheID" ELSE "dbDelete"
                /\ req' = [req EXCEPT ![r] = [q EXCEPT !.pc = pc]]
    BY DEF uncacheName, uncacheID, Goto, Step, Turn
<1>3. PICK n : n = [q EXCEPT !.pc = pc]
    OBVIOUS
<1>4. req'[r] = n /\ n.pc = pc /\ n.c = q.c /\ n.op = q.op /\ n.view = q.view
    BY <1>1, <1>2, <1>3 DEF Turn, IInv, TypeOK, Request
<1>5. /\ \A d \in Clusters \ {q.c} : byID'[d] = byID[d] /\ byName'[d] = byName[d]
      /\ byName'[q.c].st = "none"
      /\ byID'[q.c].st = "none" \/ (byID'[q.c] = byID[q.c] /\ pc = "uncacheID")
    <2>1. byName[q.c].st # "none" => byID[q.c].st # "none"
        BY <1>1 DEF CachesKept, Refreshing
    <2>2. byID \in [Clusters -> CacheEntry] /\ byName \in [Clusters -> CacheEntry]
        BY DEF Turn, IInv, TypeOK
    <2>3. CASE uncacheName(r)
        BY <1>1, <1>2, <2>1, <2>2, <2>3 DEF uncacheName, NoEntry, Turn
    <2>4. CASE uncacheID(r)
        BY <1>1, <1>2, <2>2, <2>4 DEF uncacheID, NoEntry, Turn, KnowsCaches
    <2> QED BY <2>3, <2>4
<1>6. pc \in {"uncacheID", "dbDelete"}
    BY <1>2
<1>7. PoolKept(n)'
    BY <1>1, <1>4, <1>5, <1>6 DEF PoolKept, Held, InHand
<1>8. CachesKept(n)'
    BY <1>1, <1>4, <1>5, <1>6 DEF CachesKept, Refreshing
<1>9. KnowsItem(n)' /\ KnowsCaches(n)' /\ KnowsKey(n)'
    BY <1>1, <1>4, <1>5, <1>6 DEF KnowsItem, KnowsCaches, KnowsKey, SettingUp
<1> QED BY <1>4, <1>7, <1>8, <1>9, BecomesAccounted

LEMMA RemoveAccounted ==
    ASSUME NEW r, NEW q, Turn(r, q), removeCluster(r)
    PROVE  Accounted(req[r])'
<1>1. /\ q \in Request /\ q.pc = "dbDelete" /\ q.c \in Clusters /\ q.c \in minted
      /\ items[q.c] = Whole(IF q.op = "delete" THEN NoKey ELSE q.view) /\ byID[q.c].st = "none" /\ byName[q.c].st = "none"
      /\ PoolKept(q) /\ CachesKept(q)
      /\ UNCHANGED <<creds, byID, byName, minted, reported>>
    BY DEF Turn, removeCluster, Control, OnCluster, Accounted, KnowsItem, KnowsCaches
<1>2. ~Fault
    BY DEF Turn, Fault
<1>3. PICK s : /\ items' = [items EXCEPT ![q.c] = NoItem] /\ Reply(r, s)
              /\ abandoned' = IF q.op = "delete" THEN abandoned
                              ELSE abandoned \cup ({items[q.c].cred} \ {items'[q.c].cred, NoKey})
    BY <1>2 DEF removeCluster, Turn
<1>4. PICK n : n = Idle(s)
    OBVIOUS
<1>5. req'[r] = n
    BY <1>3, <1>4 DEF Turn, Reply, Step, IInv, TypeOK
<1>6. /\ n.pc = "idle" /\ n.c = NoCluster /\ (\A k : ~InHand(n, k)) /\ ~Refreshing(n)
      /\ KnowsItem(n)' /\ KnowsCaches(n)' /\ KnowsKey(n)'
    BY <1>4, IdleKnows
<1>7. /\ items'[q.c] = NoItem /\ \A d \in Clusters \ {q.c} : items'[d] = items[d]
      /\ items' \in [Clusters -> ClusterItem]
    <2>1. NoItem \in ClusterItem /\ items \in [Clusters -> ClusterItem]
        BY DEF NoItem, ClusterItem, MaybeKey, Turn, IInv, TypeOK
    <2> QED BY <1>1, <1>3, <2>1
<1>8. /\ items'[q.c].cred = NoKey
      /\ q.op = "delete" => items[q.c].cred = NoKey
    <2>1. items'[q.c].cred = NoKey
        BY <1>7, WholeItem, Zenon
    <2>2. ASSUME q.op = "delete" PROVE items[q.c] = Whole(NoKey)
        BY <1>1, <2>2
    <2> QED BY <2>1, <2>2, WholeItem, Zenon
<1>9. PoolKept(n)'
    <2>1. \A k \in Keys : ~InHand(q, k)
        BY <1>1 DEF InHand
    <2>2. abandoned \subseteq abandoned'
        BY <1>3
    <2>3. \A k \in Keys : items[q.c].cred = k => k \in abandoned'
        BY <1>3, <1>8, CredAssumption
    <2> QED BY <1>1, <1>6, <1>7, <1>8, <2>1, <2>2, <2>3, CredAssumption, WrittenPool
<1>10. CachesKept(n)'
    BY <1>1, <1>6, <1>7 DEF CachesKept, Refreshing
<1> QED BY <1>5, <1>6, <1>9, <1>10, BecomesAccounted

LEMMA StartAccounted ==
    ASSUME NEW r, NEW q, Turn(r, q), Start(r)
    PROVE  Accounted(req[r])'
<1>1. PoolKept(q) /\ CachesKept(q) /\ q \in Request
    BY DEF Turn, Accounted
<1>2. ASSUME NEW op, NEW c, NEW k, NEW pc \in {"find", "putNew", "getCred"}, Begin(r, op, c, k, pc),
             c \in Clusters => c \in minted',
             UNCHANGED <<creds, items, byID, byName, reported, abandoned>>,
             \/ UNCHANGED minted /\ pc # "putNew"
             \/ c \in Clusters \ minted /\ minted' = minted \cup {c} /\ op = "create"
      PROVE  Accounted(req[r])'
    <2>1. PICK n : n = [Idle("ok") EXCEPT !.op = op, !.c = c, !.k = k, !.pc = pc, !.ret = "entry"]
        OBVIOUS
    <2>2. req'[r] = n /\ q.pc = "idle"
        BY <1>2, <2>1 DEF Begin, Turn, Step, IInv, TypeOK
    <2>3. n.pc = pc /\ n.c = c /\ n.ret = "entry" /\ n.load = NoKey /\ n.view = NoKey /\ n.op = op
        BY <2>1 DEF Idle
    <2>4. PoolKept(n)'
        BY <1>1, <1>2, <2>2, <2>3 DEF PoolKept, Held, InHand
    <2>5. CachesKept(n)'
        BY <1>1, <1>2, <2>2, <2>3 DEF CachesKept, Refreshing
    <2>6. KnowsItem(n)' /\ KnowsCaches(n)' /\ KnowsKey(n)'
        BY <1>1, <1>2, <2>3 DEF KnowsItem, KnowsCaches, KnowsKey, SettingUp, PoolKept
    <2> QED BY <2>2, <2>4, <2>5, <2>6, BecomesAccounted
<1>3. ASSUME NEW op, NEW c \in Clusters, BeginOnCluster(r, op, c) PROVE Accounted(req[r])'
    BY <1>2, <1>3 DEF BeginOnCluster, UnchangedExceptReq
<1>4. ASSUME NEW c \in Clusters, createCluster(r, c) PROVE Accounted(req[r])'
    BY <1>2, <1>4 DEF createCluster
<1>5. ASSUME NEW k \in Keys, revokeMonitoringCredential(r, k) \/ deleteMonitoringCredential(r, k)
      PROVE  Accounted(req[r])'
    BY <1>2, <1>5, CredAssumption DEF revokeMonitoringCredential, deleteMonitoringCredential, UnchangedExceptReq
<1> QED BY <1>3, <1>4, <1>5 DEF Start, getClusterMonitoringCredential,
        removeClusterMonitoringCredential, deleteCluster, updateCluster

\* A new key has no flags and is named nowhere.
LEMMA AddAccounted ==
    ASSUME NEW r, NEW q, Turn(r, q), FreshKeys, NEW k \in Keys, addMonitoringCredential(k)
    PROVE  Accounted(req[r])'
<1>1. /\ req'[r] = q /\ UNCHANGED <<items, byID, byName, minted, reported, abandoned>>
      /\ Accounted(q) /\ q \in Request /\ Control(q)
    BY DEF Turn, addMonitoringCredential
<1>2. ~creds[k].inUse /\ ~Held(k)
    BY DEF addMonitoringCredential, Turn, IInv, RecordsIssued, BoundTaken, Bound, Held
<1>3. /\ ~creds'[k].inUse /\ ~creds'[k].revoked
      /\ \A j \in Keys \ {k} : creds'[j] = creds[j]
    BY DEF addMonitoringCredential, NewCred, Turn, IInv, TypeOK
<1>4. PoolKept(q)'
    BY <1>1, <1>2, <1>3 DEF Accounted, PoolKept, Held, InHand
<1>5. CachesKept(q)' /\ KnowsItem(q)' /\ KnowsCaches(q)'
    BY <1>1 DEF Accounted, CachesKept, KnowsItem, KnowsCaches
<1>6. KnowsKey(q)'
    BY <1>1, <1>2, <1>3 DEF Accounted, KnowsKey, SettingUp, Control, OnKey
<1> QED BY <1>1, <1>4, <1>5, <1>6, BecomesAccounted

LEMMA ExpiryAccounted ==
    ASSUME NEW r, NEW q, Turn(r, q), NEW c \in Clusters, ExpireByID(c) \/ ExpireByName(c)
    PROVE  Accounted(req[r])'
<1>1. /\ req'[r] = q /\ UNCHANGED <<creds, items, minted, reported, abandoned>>
      /\ Accounted(q) /\ q \in Request /\ Control(q)
    BY DEF Turn, ExpireByID, ExpireByName
<1>2. \A d \in Clusters :
        /\ byID'[d] = byID[d] \/ (byID[d].st = "live" /\ byID'[d].st = "expired")
        /\ byName'[d] = byName[d] \/ (byName[d].st = "live" /\ byName'[d].st = "none")
    BY DEF Turn, ExpireByID, ExpireByName, NoEntry, IInv, TypeOK
<1>3. PoolKept(q)'
    BY <1>1, <1>2 DEF Accounted, PoolKept, Held, InHand
<1>4. CachesKept(q)'
    BY <1>1, <1>2 DEF Accounted, CachesKept, Refreshing
<1>5. KnowsItem(q)' /\ KnowsCaches(q)' /\ KnowsKey(q)'
    BY <1>1, <1>2 DEF Accounted, KnowsItem, KnowsCaches, KnowsKey, SettingUp, Control, OnCluster
<1> QED BY <1>1, <1>3, <1>4, <1>5, BecomesAccounted

LEMMA ProceedAccounted ==
    ASSUME NEW r, NEW q, Turn(r, q), Proceed(r)
    PROVE  Accounted(req[r])'
<1>1. CASE findClusterByID(r) \/ findClusterByName(r)
    BY <1>1, FindCachedAccounted, FetchAccounted DEF findClusterByID, findClusterByName, Turn
<1>2. CASE cacheByID(r) \/ cacheByName(r) \/ scanAvailable(r) \/ \E k \in Keys : acquireCandidate(r, k)
    BY <1>2, CacheByIDAccounted, CacheByNameAccounted, ScanAccounted, AcquireAccounted
<1>3. CASE setClusterCredential(r) \/ detachClusterCredential(r) \/ eraseCacheEntry(r) \/ serveCredential(r)
    BY <1>3, SetAccounted, DetachAccounted, EraseAccounted, ServeAccounted
<1>4. CASE getMonitoringCredential(r) \/ findClusterUsingCredential(r) \/ revokeKey(r) \/ dropCredential(r)
    BY <1>4, GetCredAccounted, FindUsingAccounted, RevokeAccounted, DropAccounted
<1>5. CASE addCluster(r) \/ putCluster(r) \/ rewriteCluster(r) \/ uncacheName(r) \/ uncacheID(r) \/ removeCluster(r)
    BY <1>5, AddClusterAccounted, PutAccounted, UncacheAccounted, RemoveAccounted
<1>6. CASE keepRecord(r) \/ checkAccess(r) \/ checkHelm(r)
    BY <1>6, DecideAccounted
<1> QED BY <1>1, <1>2, <1>3, <1>4, <1>5, <1>6 DEF Proceed

\* The count of failed calls never goes back.
LEMMA CallsCounted ==
    ASSUME [Next]_vars PROVE faults' = faults \/ faults' = faults + 1
<1>1. ASSUME NEW r, NEW cache, NEW inc, findCached(r, cache) \/ fetchCluster(r, cache, inc)
      PROVE  UNCHANGED faults \/ Fault
    <2>1. findCached(r, cache) => UNCHANGED faults
        BY DEF findCached
    <2>2. fetchCluster(r, cache, inc) => UNCHANGED faults \/ Fault
        BY DEF fetchCluster
    <2> QED BY <1>1, <2>1, <2>2
<1>2. ASSUME NEW r, Start(r) PROVE UNCHANGED faults
    BY <1>2 DEF Start, getClusterMonitoringCredential, removeClusterMonitoringCredential, deleteCluster,
        updateCluster, createCluster, revokeMonitoringCredential, deleteMonitoringCredential,
        BeginOnCluster, UnchangedExceptReq
<1>3. ASSUME NEW r, Proceed(r) PROVE UNCHANGED faults \/ Fault
    <2>1. CASE findClusterByID(r) \/ findClusterByName(r)
        BY <1>1, <2>1 DEF findClusterByID, findClusterByName
    <2>2. CASE cacheByID(r) \/ cacheByName(r) \/ eraseCacheEntry(r) \/ serveCredential(r)
               \/ uncacheName(r) \/ uncacheID(r)
        BY <2>2 DEF cacheByID, cacheByName, eraseCacheEntry, serveCredential, uncacheName, uncacheID
    <2>3. CASE scanAvailable(r) \/ \E k \in Keys : acquireCandidate(r, k)
        BY <2>3 DEF scanAvailable, acquireCandidate
    <2>4. CASE setClusterCredential(r) \/ detachClusterCredential(r)
        BY <2>4 DEF setClusterCredential, detachClusterCredential
    <2>5. CASE getMonitoringCredential(r) \/ findClusterUsingCredential(r)
        BY <2>5 DEF getMonitoringCredential, findClusterUsingCredential
    <2>6. CASE revokeKey(r) \/ dropCredential(r)
        BY <2>6 DEF revokeKey, dropCredential
    <2>7. CASE addCluster(r) \/ putCluster(r) \/ rewriteCluster(r) \/ removeCluster(r)
        BY <2>7 DEF addCluster, putCluster, rewriteCluster, removeCluster
    <2>8. CASE keepRecord(r) \/ checkAccess(r) \/ checkHelm(r)
        BY <2>8 DEF keepRecord, checkAccess, checkHelm, UnchangedExceptReq
    <2> QED BY <1>3, <2>1, <2>2, <2>3, <2>4, <2>5, <2>6, <2>7, <2>8 DEF Proceed
<1>4. CASE UNCHANGED vars
    BY <1>4 DEF vars
<1>5. ASSUME NEW k \in Keys, addMonitoringCredential(k) PROVE UNCHANGED faults
    BY <1>5 DEF addMonitoringCredential
<1>6. ASSUME NEW c \in Clusters, ExpireByID(c) \/ ExpireByName(c) PROVE UNCHANGED faults
    BY <1>6 DEF ExpireByID, ExpireByName
<1>7. CASE Next
    BY <1>2, <1>3, <1>5, <1>6, <1>7 DEF Next, Fault
<1> QED BY <1>4, <1>7

\* One request at a time, and unless a call failed: what is in use is named by a
\* record, or was until a failing setup removed the record, or is in the hands of the
\* request, and the caches have what the table has but for the record the request has
\* just written (allocateMonitoringCredential, revokeMonitoringCredential, addCluster,
\* updateCluster, removeCluster, ensureClusterSetup).
THEOREM AccountingInvariant == FreshKeys /\ OneThread => (Spec => []AccountInv)
<1> SUFFICES ASSUME FreshKeys, OneThread PROVE Spec => []AccountInv
    OBVIOUS
<1>1. Init => AccountInv
    <2> SUFFICES ASSUME Init, NEW r \in Requests PROVE Accounted(req[r])
        BY DEF AccountInv
    <2>1. req[r].pc = "idle" /\ req[r].c = NoCluster
        BY DEF Init, Idle
    <2>2. \A k \in Keys : ~creds[k].inUse
        BY DEF Init, NoCred
    <2>3. \A c \in Clusters : items[c] = NoItem /\ byID[c].st = "none" /\ byName[c].st = "none"
        BY DEF Init, NoEntry
    <2>4. \A k \in Keys : ~Held(k)
        <3>1. \A c \in Clusters : items[c].cred = NoKey
            BY DEF Init, NoItem
        <3> QED BY <3>1, CredAssumption DEF Held
    <2>5. PoolKept(req[r])
        BY <2>2, <2>3, <2>4 DEF PoolKept, Init
    <2>6. CachesKept(req[r])
        BY <2>3 DEF CachesKept
    <2>7. KnowsItem(req[r]) /\ KnowsCaches(req[r]) /\ KnowsKey(req[r])
        BY <2>1, CredAssumption DEF KnowsItem, KnowsCaches, KnowsKey, SettingUp
    <2> QED BY <2>5, <2>6, <2>7 DEF Accounted
<1>2. IInv /\ AccountInv /\ [Next]_vars => AccountInv'
    <2> SUFFICES ASSUME IInv, AccountInv, [Next]_vars, faults' = 0, NEW r \in Requests
                 PROVE  Accounted(req[r])'
        BY DEF AccountInv
    <2>1. faults = 0
        BY CallsCounted DEF IInv, TypeOK
    <2>2. PICK q : q = req[r]
        OBVIOUS
    <2>3. Turn(r, q)
        BY <2>1, <2>2 DEF Turn, AccountInv, IInv, TypeOK, ControlOK
    <2>4. CASE UNCHANGED vars
        <3>1. req'[r] = q /\ Accounted(q)
            BY <2>2, <2>3, <2>4 DEF vars, Turn
        <3>2. PoolKept(q)' /\ CachesKept(q)' /\ KnowsItem(q)' /\ KnowsCaches(q)' /\ KnowsKey(q)'
            BY <2>4, <3>1 DEF vars, Accounted, PoolKept, CachesKept, KnowsItem, KnowsCaches,
                              KnowsKey, Held, InHand, Refreshing, SettingUp
        <3> QED BY <3>1, <3>2, BecomesAccounted
    <2>5. CASE \E s \in Requests : Start(s) \/ Proceed(s)
        <3>1. Start(r) \/ Proceed(r)
            BY <2>5 DEF OneThread
        <3> QED BY <2>3, <3>1, StartAccounted, ProceedAccounted
    <2>6. CASE \E k \in Keys : addMonitoringCredential(k)
        BY <2>3, <2>6, AddAccounted
    <2>7. CASE \E c \in Clusters : ExpireByID(c) \/ ExpireByName(c)
        BY <2>3, <2>7, ExpiryAccounted
    <2> QED BY <2>4, <2>5, <2>6, <2>7 DEF Next
<1> QED BY <1>1, <1>2, CredentialInvariant, PTL DEF Spec

\* Between requests the pool's flags, the cluster records and both caches tell the
\* same, for any number of clusters and keys, unless a call failed.
THEOREM PoolAccounting == FreshKeys /\ OneThread => (Spec => []PoolAccounted)
<1> SUFFICES ASSUME FreshKeys, OneThread PROVE Spec => []PoolAccounted
    OBVIOUS
<1>1. IInv /\ AccountInv => PoolAccounted
    <2> SUFFICES ASSUME IInv, AccountInv, faults = 0 PROVE PoolAccounted
        BY DEF PoolAccounted, Settled, InUseAccounted, RevokedNotHeld, NothingReported,
               CachesCoherent, CachesSynchronized
    <2>1. PICK r : Requests = {r}
        BY DEF OneThread
    <2>2. PICK q : q = req[r]
        OBVIOUS
    <2>3. PoolKept(q) /\ CachesKept(q)
        BY <2>1, <2>2 DEF AccountInv, Accounted
    <2>4. NothingReported
        BY <2>3 DEF PoolKept, NothingReported
    <2>5. ASSUME q.pc = "idle"
          PROVE  /\ InUseAccounted
                 /\ \A c \in Clusters : items[c].cred # NoKey => ~creds[items[c].cred].revoked
                 /\ \A c \in Clusters : \A e \in {byID[c], byName[c]} :
                      e.st = "live" => items[c] = Whole(e.cred)
                 /\ \A c \in Clusters : byName[c].st # "none" => byID[c].st # "none"
        <3>1. \A k \in Keys : ~InHand(q, k)
            BY <2>5 DEF InHand
        <3>2. InUseAccounted
            <4>1. ASSUME NEW c \in Clusters, items[c].cred # NoKey
                  PROVE  items[c].cred \in Keys /\ creds[items[c].cred].inUse
                BY <2>3, <4>1 DEF PoolKept, Held, IInv, TypeOK, ClusterItem, MaybeKey
            <4>2. ASSUME NEW k \in Keys, creds[k].inUse, k \notin abandoned
                  PROVE  \E c \in Clusters : items[c].cred = k
                BY <2>3, <3>1, <4>2 DEF PoolKept, Held
            <4> QED BY <4>1, <4>2 DEF InUseAccounted
        <3>3. \A c \in Clusters : items[c].cred # NoKey => ~creds[items[c].cred].revoked
            BY <2>3 DEF PoolKept, Held, IInv, TypeOK, ClusterItem, MaybeKey
        <3>4. ~Refreshing(q) /\ q.pc # "erase"
            BY <2>5 DEF Refreshing
        <3> QED BY <2>3, <3>2, <3>3, <3>4 DEF CachesKept
    <2>6. Settled => q.pc = "idle"
        BY <2>1, <2>2 DEF Settled, Quiescent
    <2> QED BY <2>4, <2>5, <2>6 DEF PoolAccounted, InUseAccounted, RevokedNotHeld,
                                    CachesCoherent, CachesSynchronized
<1> QED BY <1>1, CredentialInvariant, AccountingInvariant, PTL
=============================================================================

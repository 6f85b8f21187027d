------------------------------ MODULE Multimap ------------------------------
(***************************************************************************)
(* The multimap behind the caches of categories                            *)
(* (include/concurrent_multimap.h): for each key a set of values, which    *)
(* are equal when their IDs are, and a time until which the set counts as  *)
(* complete.  Every operation holds the lock of its key's bucket, so that  *)
(* it is one step; a caller acts on the answer in a later one.             *)
(***************************************************************************)
EXTENDS Naturals, FiniteSets

CONSTANTS
  MapKeys,       \* the keys: a group or a cluster, say
  MapIDs,        \* the IDs of values: of instances, say
  MapVersions    \* what a value holds besides its ID

VARIABLES
  data,      \* the categories: values and time, for the keys that have one
  pairs,     \* what was put in and not taken out: the version per key and ID
  reply      \* the last answer, and what the pairs say it should be

mapVars == <<data, pairs, reply>>

Later == 1     \* a time in the future
Past == 0      \* a time that is over, as that of a new category is at once

Values(S) == {v.id : v \in S}
Without(S, id) == {v \in S : v.id # id}
HasKey(k) == k \in DOMAIN data
Has(k, id) == <<k, id>> \in DOMAIN pairs
PairsOf(k) == {[id |-> p[2], version |-> pairs[p]] : p \in {q \in DOMAIN pairs : q[1] = k}}

PutCategory(k, values, time) ==
  data' = [x \in DOMAIN data \cup {k} |-> IF x = k THEN [values |-> values, time |-> time] ELSE data[x]]
DropCategory(k) == data' = [x \in DOMAIN data \ {k} |-> data[x]]
PutPair(k, v) ==
  pairs' = [p \in DOMAIN pairs \cup {<<k, v.id>>} |-> IF p = <<k, v.id>> THEN v.version ELSE pairs[p]]
DropPairs(P) == pairs' = [p \in DOMAIN pairs \ P |-> pairs[p]]
Replies(answer, right) == reply' = [answer |-> answer, right |-> right]

-----------------------------------------------------------------------------
(* A value that is present keeps its version with insert, and is replaced  *)
(* with insert_or_assign and update.  The time of a category is that of    *)
(* its making.                                                             *)

insert(k, v) ==
  /\ IF HasKey(k)
     THEN LET old == data[k].values IN
          PutCategory(k, IF v.id \in Values(old) THEN old ELSE old \cup {v}, data[k].time)
     ELSE PutCategory(k, {v}, Past)
  /\ IF Has(k, v.id) THEN UNCHANGED pairs ELSE PutPair(k, v)
  /\ Replies(~HasKey(k) \/ v.id \notin Values(data[k].values), ~Has(k, v.id))

insert_or_assign(k, v) ==
  /\ IF HasKey(k) THEN PutCategory(k, Without(data[k].values, v.id) \cup {v}, data[k].time)
     ELSE PutCategory(k, {v}, Past)
  /\ PutPair(k, v)
  /\ Replies(~HasKey(k) \/ v.id \notin Values(data[k].values), ~Has(k, v.id))

update(k, v) ==
  LET present == HasKey(k) /\ v.id \in Values(data[k].values) IN
  /\ IF present THEN PutCategory(k, Without(data[k].values, v.id) \cup {v}, data[k].time)
     ELSE UNCHANGED data
  /\ IF Has(k, v.id) THEN PutPair(k, v) ELSE UNCHANGED pairs
  /\ Replies(present, Has(k, v.id))

erase(k) ==
  /\ IF HasKey(k) THEN DropCategory(k) ELSE UNCHANGED data
  /\ DropPairs({k} \X MapIDs)
  /\ Replies(IF HasKey(k) THEN Cardinality(data[k].values) ELSE 0, Cardinality(PairsOf(k)))

(* A faulty variant: a category stays when its last value goes.            *)
eraseValueOnly(k, id) ==
  /\ IF HasKey(k) THEN PutCategory(k, Without(data[k].values, id), data[k].time) ELSE UNCHANGED data
  /\ DropPairs({<<k, id>>})
  /\ Replies(HasKey(k) /\ id \in Values(data[k].values), Has(k, id))

(* The category goes with its last value, and its time with it.            *)
eraseValue(k, id) ==
  /\ CASE HasKey(k) /\ Without(data[k].values, id) = {} -> DropCategory(k)
       [] HasKey(k) /\ Without(data[k].values, id) # {} ->
            PutCategory(k, Without(data[k].values, id), data[k].time)
       [] OTHER -> UNCHANGED data
  /\ DropPairs({<<k, id>>})
  /\ Replies(HasKey(k) /\ id \in Values(data[k].values), Has(k, id))

update_expiration(k) ==
  /\ IF HasKey(k) THEN data' = [data EXCEPT ![k].time = Later] ELSE UNCHANGED data
  /\ Replies(HasKey(k), PairsOf(k) # {})
  /\ UNCHANGED pairs

clear == data' = <<>> /\ pairs' = <<>> /\ Replies(TRUE, TRUE)

(* The time of a category comes.                                           *)
expireCategory(k) ==
  /\ HasKey(k) /\ data[k].time = Later
  /\ data' = [data EXCEPT ![k].time = Past]
  /\ UNCHANGED <<pairs, reply>>

-----------------------------------------------------------------------------
(* Reading.  A key that is not there has no values, and a time long past.  *)

find(k) ==
  /\ Replies(IF HasKey(k) THEN data[k].values ELSE {}, PairsOf(k))
  /\ UNCHANGED <<data, pairs>>

findValue(k, id) ==
  /\ Replies(IF HasKey(k) THEN {v \in data[k].values : v.id = id} ELSE {},
             {v \in PairsOf(k) : v.id = id})
  /\ UNCHANGED <<data, pairs>>

contains(k) == Replies(HasKey(k), PairsOf(k) # {}) /\ UNCHANGED <<data, pairs>>

count(k) ==
  /\ Replies(IF HasKey(k) THEN Cardinality(data[k].values) ELSE 0, Cardinality(PairsOf(k)))
  /\ UNCHANGED <<data, pairs>>

containsValue(k, id) ==
  /\ Replies(HasKey(k) /\ id \in Values(data[k].values), Has(k, id))
  /\ UNCHANGED <<data, pairs>>

-----------------------------------------------------------------------------
MapInit == data = <<>> /\ pairs = <<>> /\ reply = [answer |-> TRUE, right |-> TRUE]

MapNext ==
  \/ clear
  \/ \E k \in MapKeys :
       \/ erase(k) \/ update_expiration(k) \/ expireCategory(k) \/ find(k) \/ contains(k) \/ count(k)
       \/ \E id \in MapIDs :
            \/ eraseValue(k, id) \/ findValue(k, id) \/ containsValue(k, id)
            \/ \E n \in MapVersions : LET v == [id |-> id, version |-> n] IN
                 insert(k, v) \/ insert_or_assign(k, v) \/ update(k, v)

MapSpec == MapInit /\ [][MapNext]_mapVars

-----------------------------------------------------------------------------
(* Whatever operations came before, the map holds the pairs that were put  *)
(* in and not taken out, each in the version last assigned; it answers     *)
(* what these pairs say; and "true if the key maps to at least one value": *)
(* no category is left without values, which alone could count as complete *)
(* when it is not (concurrent_multimap).                                   *)
MapHoldsPairs ==
  /\ reply.answer = reply.right
  /\ \A k \in MapKeys : PairsOf(k) = IF HasKey(k) THEN data[k].values ELSE {}
  /\ \A k \in DOMAIN data : data[k].values # {}
=============================================================================

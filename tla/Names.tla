------------------------------- MODULE Names -------------------------------
(***************************************************************************)
(* The DNS name of a cluster (src/DNSManipulator.cpp, and its callers in   *)
(* src/ClusterCommands.cpp).  The name has an IPv4 and an IPv6 record and  *)
(* a text record, in which a tag says that SLATE made them.  The server    *)
(* looks first and changes afterwards; others use the same zone.           *)
(***************************************************************************)
EXTENDS Naturals, FiniteSets

CONSTANTS
  NameTasks,      \* the registrations, updates and removals of the cluster
  MaxOutside      \* bound on the changes others make in the zone

ASSUME NamesAssumption == IsFiniteSet(NameTasks) /\ MaxOutside \in Nat

VARIABLES
  zone,       \* the records of the name: "none", or whose they are
  text,       \* its text record: a set of tags, "slate" or "other"
  outside,    \* how many changes others have made
  task,       \* per task: where it is, and what it has seen
  overwritten \* the records of others that the server has replaced or removed

namesVars == <<zone, text, outside, task, overwritten>>

Types == {"A", "AAAA"}
NoTask == [at |-> "idle", action |-> "none", type |-> "A", base |-> FALSE, stale |-> FALSE]

NamesInit ==
  /\ zone = [t \in Types |-> "none"] /\ text = {}
  /\ outside = 0 /\ overwritten = {}
  /\ task = [k \in NameTasks |-> NoTask]

Go(k, at) == task' = [task EXCEPT ![k].at = at]
Keep == UNCHANGED <<zone, text, outside, overwritten>>

(* Whoever looked before a change and has not acted yet is out of date.    *)
Outdated(tk) == [k \in NameTasks |-> [tk[k] EXCEPT !.stale = @ \/ tk[k].at \in {"text", "change"}]]

-----------------------------------------------------------------------------
(* setClusterDNSRecord: the kind of the record follows from the address of *)
(* the ingress controller.                                                 *)
setClusterDNSRecord(k) ==
  /\ task[k].at = "idle"
  /\ \E t \in Types : task' = [task EXCEPT ![k] = [NoTask EXCEPT !.at = "base", !.action = "set", !.type = t]]
  /\ Keep

(* deleteCluster looks the record up, IPv4 first.  A failed look-up is     *)
(* taken for no record.                                                    *)
getDNSRecord(t) == zone[t] # "none"

removeClusterDNSRecord(k) ==
  /\ task[k].at = "idle"
  /\ \/ Go(k, "over")
     \/ \E t \in Types :
          /\ getDNSRecord(t)
          /\ task' = [task EXCEPT ![k] = [NoTask EXCEPT !.at = "base", !.action = "remove", !.type = t]]
  /\ Keep

(* safeToModifyDNS: is there such a record, and is the tag there?          *)
testBaseRecord(k) ==
  /\ task[k].at = "base"
  /\ task' = [task EXCEPT ![k].base = zone[task[k].type] # "none", ![k].at = "text"]
  /\ Keep

(* What would take the records of others: any text record will do.         *)
safeWithAnyText(k) == ~task[k].base \/ text # {}

safeToModifyDNS(k) == ~task[k].base \/ "slate" \in text

testTextRecord(k) ==
  /\ task[k].at = "text"
  /\ Go(k, IF safeToModifyDNS(k) THEN "change" ELSE "over")
  /\ Keep

Replaced(k) ==
  {[type |-> t, tagged |-> "slate" \in text, stale |-> task[k].stale] :
     t \in {u \in {task[k].type} : zone[u] = "other"}
           \cup {u \in {"TXT"} : "other" \in text}}

(* Both records are put in one batch, whatever the text record held.       *)
setDNSRecord(k) ==
  /\ task[k].at = "change" /\ task[k].action = "set"
  /\ zone' = [zone EXCEPT ![task[k].type] = "slate"] /\ text' = {"slate"}
  /\ overwritten' = overwritten \cup Replaced(k)
  /\ task' = [Outdated(task) EXCEPT ![k].at = "over"]
  /\ UNCHANGED outside

(* Both are deleted in one batch, which is refused unless both are exactly *)
(* as the server believes.                                                 *)
removeDNSRecord(k) ==
  /\ task[k].at = "change" /\ task[k].action = "remove"
  /\ IF zone[task[k].type] # "none" /\ text = {"slate"}
     THEN /\ zone' = [zone EXCEPT ![task[k].type] = "none"] /\ text' = {}
          /\ overwritten' = overwritten \cup Replaced(k)
          /\ task' = [Outdated(task) EXCEPT ![k].at = "over"]
     ELSE Go(k, "over") /\ UNCHANGED <<zone, text, overwritten>>
  /\ UNCHANGED outside

(* Any call may fail, which the callers log.                               *)
callFails(k) == task[k].at \notin {"idle", "over"} /\ Go(k, "over") /\ Keep

(* Others add, replace and remove records of their own.                    *)
changeOutside ==
  /\ outside < MaxOutside /\ outside' = outside + 1
  /\ \/ \E t \in Types : /\ zone[t] # "slate"
                         /\ zone' = [zone EXCEPT ![t] = IF @ = "none" THEN "other" ELSE "none"]
                         /\ UNCHANGED text
     \/ text' = (text \ {"other"}) \cup ({"other"} \ text) /\ UNCHANGED zone
  /\ task' = Outdated(task)
  /\ UNCHANGED overwritten

NamesNext ==
  \/ \E k \in NameTasks :
       \/ setClusterDNSRecord(k) \/ removeClusterDNSRecord(k) \/ testBaseRecord(k)
       \/ testTextRecord(k) \/ setDNSRecord(k) \/ removeDNSRecord(k) \/ callFails(k)
  \/ changeOutside

NamesSpec == NamesInit /\ [][NamesNext]_namesVars

-----------------------------------------------------------------------------
(* The server leaves the addresses of others alone: one is replaced or     *)
(* removed only if SLATE's tag stood beside it, or if the zone changed     *)
(* after the server had looked.  And as long as nobody else touches the    *)
(* zone, there is no tag without a record, so that a name that was given   *)
(* up is free again.                                                       *)
NamesOfOthersKept ==
  /\ \A o \in overwritten : o.type # "TXT" => o.tagged \/ o.stale
  /\ outside = 0 /\ "slate" \in text => \E t \in Types : zone[t] = "slate"
=============================================================================

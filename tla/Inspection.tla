---------------------------- MODULE Inspection -----------------------------
(***************************************************************************)
(* What the server finds out about a cluster: the comparison of what the   *)
(* store records with what helm and kubectl list (verifyCluster and        *)
(* repairCluster of src/ClusterCommands.cpp), and the pods and services of *)
(* an instance (src/ApplicationInstanceCommands.cpp).  Other requests      *)
(* change the store and the cluster while it looks.                        *)
(***************************************************************************)
EXTENDS Naturals, FiniteSets

CONSTANTS
  Instances,      \* the names of instances
  Spaces,         \* the namespaces of groups
  SecretNames,    \* the names of secrets, within the namespace of a group
  Pods,           \* the pods of an instance, 1..n
  MaxChanges      \* bound on the changes other requests make

ASSUME InspectionAssumption ==
  /\ IsFiniteSet(Instances) /\ IsFiniteSet(Spaces) /\ IsFiniteSet(SecretNames)
  /\ "release" \notin Spaces
  /\ Pods = 1..Cardinality(Pods) /\ MaxChanges \in Nat

VARIABLES
  helm,        \* the major version of helm
  recorded,    \* the instances and secrets the store has records of
  deployed,    \* those that are on the cluster
  touched,     \* those that changed since the inspection began
  changes,     \* how many changes there were
  looking,     \* the next thing to look at; "pods" for the pods of an instance
  seen,        \* what was there, and what was expected
  blind,       \* whether a listing failed and was taken for an empty one
  judged,      \* the verdict
  pending,     \* the pods whose events are being fetched
  fetched,     \* what the fetches brought, per pod
  details,     \* the events shown with each pod
  service,     \* a service of the instance, and an ingress rule for it
  shown        \* how it is shown: not at all, or with an address

worldVars == <<helm, recorded, deployed, touched, changes>>
inspectionVars == <<worldVars, looking, seen, blind, judged, pending, fetched, details, service, shown>>

Releases == {"release"} \X Instances
Secrets == Spaces \X SecretNames
SpaceOf(s) == s[1]
Objects == Releases \cup Secrets
NoEvents == 0

(* What kubectl knows of a service: its type, whether its balancer has an  *)
(* address, whether there is a pod behind it with the address and the name *)
(* of its node, whether the node has an external address, whether the      *)
(* service has a port of the node; and whether an ingress leads to it.     *)
Services ==
  [type : {"LoadBalancer", "NodePort", "ClusterIP"}, balanced : BOOLEAN, pod : BOOLEAN,
   hostIP : BOOLEAN, external : BOOLEAN, nodePort : BOOLEAN, ingress : BOOLEAN]
ClusterService ==
  [type |-> "ClusterIP", balanced |-> FALSE, pod |-> FALSE, hostIP |-> FALSE, external |-> FALSE,
   nodePort |-> FALSE, ingress |-> FALSE]

(* kubernetes::getHelmMajorVersion.                                        *)
HelmVersions == {2, 3}

InspectionInit ==
  /\ helm \in HelmVersions
  /\ recorded \in SUBSET Objects /\ deployed \in SUBSET Objects
  /\ touched = {} /\ changes = 0
  /\ looking \in {"ping", "pods"} /\ (looking = "pods" => recorded = {} /\ deployed = {})
  /\ blind = FALSE /\ judged = ""
  /\ seen = [existing |-> {}, expected |-> {}, spaces |-> {}]
  /\ pending = {} /\ fetched = [p \in Pods |-> NoEvents] /\ details = [p \in Pods |-> NoEvents]
  /\ service \in Services /\ (looking = "ping" => service = ClusterService) /\ shown = "not yet"

(* Another request records, forgets, installs or removes something.        *)
changeObject(o) ==
  /\ changes < MaxChanges /\ changes' = changes + 1
  /\ touched' = touched \cup {o}
  /\ \/ recorded' = (recorded \ {o}) \cup ({o} \ recorded) /\ UNCHANGED deployed
     \/ deployed' = (deployed \ {o}) \cup ({o} \ deployed) /\ UNCHANGED recorded
  /\ UNCHANGED <<helm, looking, seen, blind, judged, pending, fetched, details, service, shown>>

-----------------------------------------------------------------------------
(* ClusterConsistencyResult, one command or query after the other.         *)

Aside == <<pending, fetched, details, service, shown>>

endWith(verdict) == looking' = "over" /\ judged' = verdict

pingInspected ==
  /\ looking = "ping"
  /\ \/ endWith("Unreachable")
     \/ looking' = "helm" /\ UNCHANGED judged
  /\ UNCHANGED <<worldVars, seen, blind, Aside>>

(* helm list, as kubernetes::helm runs it: helm 2 asks the tiller for      *)
(* every release, helm 3 lists those of the namespace of the kubeconfig,   *)
(* where no instance is installed.                                         *)
helmList == IF helm = 2 THEN deployed \cap Releases ELSE {}

listReleases ==
  /\ looking = "helm"
  /\ \/ endWith("HelmFailure") /\ UNCHANGED seen
     \/ /\ looking' = "instances" /\ UNCHANGED judged
        /\ seen' = [seen EXCEPT !.existing = helmList]
  /\ UNCHANGED <<worldVars, blind, Aside>>

listExpectedInstances ==
  /\ looking = "instances" /\ looking' = "spaces"
  /\ seen' = [seen EXCEPT !.expected = recorded \cap Releases]
  /\ UNCHANGED <<worldVars, blind, judged, Aside>>

(* The answers for a cluster with the current controller: a query that     *)
(* fails counts as the previous one.                                       *)
getControllerVersion == {1, 2}

(* The namespaces of groups, by the kind of the controller; the status of  *)
(* kubectl is not looked at, so an unknown kind has no namespaces.         *)
listNamespaces ==
  /\ looking = "spaces" /\ looking' = "secrets"
  /\ \E version \in getControllerVersion, fails \in BOOLEAN :
       IF version = 2 /\ ~fails
       THEN seen' = [seen EXCEPT !.spaces = Spaces] /\ UNCHANGED blind
       ELSE blind' = TRUE /\ UNCHANGED seen
  /\ UNCHANGED <<worldVars, judged, Aside>>

(* The secrets of one namespace after the other, without Kubernetes' own.  *)
listSecretsOfNamespace ==
  /\ looking = "secrets"
  /\ IF seen.spaces = {} THEN looking' = "expected" /\ UNCHANGED <<seen, blind>>
     ELSE \E n \in seen.spaces :
            /\ UNCHANGED looking
            /\ \/ /\ seen' = [seen EXCEPT !.spaces = @ \ {n},
                                !.existing = @ \cup {s \in deployed \cap Secrets : SpaceOf(s) = n}]
                  /\ UNCHANGED blind
               \/ seen' = [seen EXCEPT !.spaces = @ \ {n}] /\ blind' = TRUE
  /\ UNCHANGED <<worldVars, judged, Aside>>

MissingIn(s) == s.expected \ s.existing
UnexpectedIn(s) == s.existing \ s.expected

compareRecords ==
  /\ looking = "expected"
  /\ seen' = [seen EXCEPT !.expected = @ \cup (recorded \cap Secrets)]
  /\ endWith(IF MissingIn(seen') = {} /\ UnexpectedIn(seen') = {} THEN "Consistent" ELSE "Inconsistent")
  /\ UNCHANGED <<worldVars, blind, Aside>>

(* repairCluster inspects in the same way, and then changes nothing.       *)
inspectCluster ==
  \/ pingInspected \/ listReleases \/ listExpectedInstances \/ listNamespaces
  \/ listSecretsOfNamespace \/ compareRecords

-----------------------------------------------------------------------------
(* fetchInstanceDetails: the events of every pod are fetched by a thread   *)
(* of its own, and added to the pods in the order of the pods.             *)

Others == <<worldVars, looking, seen, blind, judged, service, shown>>

fetchPods ==
  /\ shown # "not yet"
  /\ pending = {} /\ fetched = [p \in Pods |-> NoEvents] /\ details = [p \in Pods |-> NoEvents]
  /\ pending' = {<<p, "fetching">> : p \in Pods}
  /\ UNCHANGED <<Others, fetched, details>>

(* A fetch that fails brings nothing.                                      *)
getPodEvents(p) ==
  /\ <<p, "fetching">> \in pending
  /\ pending' = (pending \ {<<p, "fetching">>}) \cup {<<p, "fetched">>}
  /\ \E e \in {p, NoEvents} : fetched' = [fetched EXCEPT ![p] = e]
  /\ UNCHANGED <<Others, details>>

(* What would mix them up: to add the events in the order they arrive.     *)
addNextEvents(p) ==
  /\ <<p, "fetched">> \in pending
  /\ pending' = pending \ {<<p, "fetched">>}
  /\ details' = [details EXCEPT ![Cardinality(Pods) + 1 - Cardinality(pending)] = fetched[p]]
  /\ UNCHANGED <<Others, fetched>>

addPodEvents(p) ==
  /\ <<p, "fetched">> \in pending
  /\ \A q \in Pods : q < p => {<<q, "fetching">>, <<q, "fetched">>} \cap pending = {}
  /\ pending' = pending \ {<<p, "fetched">>}
  /\ details' = [details EXCEPT ![p] = fetched[p]]
  /\ UNCHANGED <<Others, fetched>>

fetchInstanceDetails == fetchPods \/ \E p \in Pods : getPodEvents(p) \/ addPodEvents(p)

-----------------------------------------------------------------------------
(* getServices: the address of a service outside the cluster, by its type. *)
(* For a port of a node that is the address of the node of its first pod,  *)
(* the external one if it has one; a query that fails leaves the service   *)
(* out.                                                                    *)
externalAddress(s, fails) ==
  CASE s.type = "LoadBalancer" -> IF s.balanced THEN "balancer" ELSE "<pending>"
    [] s.type = "NodePort" -> IF fails \/ ~s.pod THEN "left out"
                              ELSE IF ~s.hostIP THEN "<none>"
                              ELSE IF s.external THEN "node, external" ELSE "node"
    [] OTHER -> ""

(* Where it can be reached: at an ingress, or at its address and port.     *)
(* When the ingresses cannot be listed, no service is shown at all.        *)
getServices ==
  /\ shown = "not yet"
  /\ \E fails, noIngresses \in BOOLEAN :
       LET address == externalAddress(service, fails)
       IN shown' = IF noIngresses \/ address = "left out" THEN "left out"
                   ELSE IF service.ingress THEN "ingress"
                   ELSE IF service.type = "NodePort" /\ ~service.nodePort THEN "" ELSE address
  /\ UNCHANGED <<worldVars, looking, seen, blind, judged, pending, fetched, details, service>>

InspectionNext ==
  \/ \E o \in Objects : looking \notin {"over", "pods"} /\ changeObject(o)
  \/ inspectCluster
  \/ looking = "pods" /\ (fetchInstanceDetails \/ getServices)

InspectionSpec == InspectionInit /\ [][InspectionNext]_inspectionVars

-----------------------------------------------------------------------------
(* An inspection raises no false alarm and overlooks nothing, as far as    *)
(* the world held still: with helm 2 and no failed listing, whatever was   *)
(* not changed while it looked is reported as missing or unexpected        *)
(* exactly when it is, and only then is the verdict not Consistent.        *)
InspectionExact ==
  judged \in {"Consistent", "Inconsistent"} /\ helm = 2 /\ ~blind =>
    /\ \A o \in Objects \ touched :
         /\ o \in MissingIn(seen) <=> o \in recorded \ deployed
         /\ o \in UnexpectedIn(seen) <=> o \in deployed \ recorded
    /\ touched = {} => (judged = "Consistent" <=> recorded = deployed)

(* The events shown with a pod are its own, in whatever order the threads  *)
(* that fetch them come back; a service is shown where it can be reached   *)
(* from outside, if it can, and only then.                                 *)
DetailsMatch ==
  /\ \A p \in Pods : details[p] \in {p, NoEvents}
  /\ shown = "ingress" => service.ingress
  /\ shown = "balancer" => service.type = "LoadBalancer" /\ service.balanced
  /\ shown \in {"node", "node, external"} =>
       /\ service.type = "NodePort" /\ service.pod /\ service.nodePort
       /\ service.external => shown = "node, external"

(* What is reported of a cluster is what is there (verifyCluster,          *)
(* pingCluster, getInstanceInfo, internal_findServices).                   *)
InspectionRight == InspectionExact /\ DetailsMatch
=============================================================================

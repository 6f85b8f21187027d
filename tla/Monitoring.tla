----------------------------- MODULE Monitoring -----------------------------
(***************************************************************************)
(* The monitoring component of a cluster                                    *)
(* (src/client/cluster_components/PrometheusMonitoring.cpp): the client     *)
(* gets the cluster's credential from the server and installs, removes or   *)
(* replaces four things in the cluster, one kubectl or helm command after   *)
(* another.  Any of them may fail, which ends the command where it is; the  *)
(* user may then run the same or another one.                               *)
(***************************************************************************)
EXTENDS Naturals

CONSTANTS
  MaxMishaps,       \* how many commands fail (a bound)
  MaxAllocations    \* how many credentials the server allocates (a bound)

ASSUME MonitoringAssumption == MaxMishaps \in Nat /\ MaxAllocations \in Nat \ {0}

VARIABLES
  deployed,         \* the namespace, operator and thanos service in the cluster
  bucketSecret,     \* the credential in the cluster's secret, 0 without a secret
  assigned,         \* the credential that the server has for the cluster, 0 for none
  allocations,      \* how many it has allocated
  user,             \* the user's command, where it is, and the credential it got
  mishaps           \* how many commands have failed

monitoringVars == <<deployed, bucketSecret, assigned, allocations, user, mishaps>>

UserAt(at) == user.at = at
UserTo(at) == user' = [user EXCEPT !.at = at]
Deploys(at, then, things) ==
  /\ UserAt(at) /\ UserTo(then)
  /\ deployed' = things
  /\ UNCHANGED <<bucketSecret, assigned, allocations, mishaps>>
Secret(at, then, value) ==
  /\ UserAt(at) /\ UserTo(then)
  /\ bucketSecret' = value
  /\ UNCHANGED <<deployed, assigned, allocations, mishaps>>
Refuses(at) == Deploys(at, "over", deployed)

-----------------------------------------------------------------------------
(* The user names the cluster, which must exist and be the one that        *)
(* kubectl works on, and helm must be there.                               *)
getClusterName ==
  /\ UserAt("over")
  /\ \E command \in {"install", "remove", "upgrade"} :
       user' = [command |-> command, credential |-> 0,
                at |-> IF command = "remove" THEN "no thanos" ELSE "fetch"]
  /\ UNCHANGED <<deployed, bucketSecret, assigned, allocations, mishaps>>

(* kubectl, helm or the server fails.                                      *)
mishap ==
  /\ ~UserAt("over") /\ mishaps < MaxMishaps
  /\ UserTo("over") /\ mishaps' = mishaps + 1
  /\ UNCHANGED <<deployed, bucketSecret, assigned, allocations>>

(* The server answers with the cluster's credential, or allocates one.     *)
fetchMonitoringCredential ==
  /\ UserAt("fetch")
  /\ \/ assigned # 0 /\ UNCHANGED <<assigned, allocations>>
     \/ /\ assigned = 0 /\ allocations < MaxAllocations
        /\ allocations' = allocations + 1 /\ assigned' = allocations'
  /\ user' = [user EXCEPT !.credential = assigned',
                          !.at = IF user.command = "install" THEN "namespace" ELSE "no thanos"]
  /\ UNCHANGED <<deployed, bucketSecret, mishaps>>

(* Each step replaces what is there.  The address of the service may not   *)
(* have been assigned yet: then the command fails with everything done.    *)
installPrometheusImpl ==
  \/ Deploys("namespace", "old secret", deployed \cup {"namespace"})
  \/ Secret("old secret", "secret", 0)
  \/ Secret("secret", "old operator", user.credential)
  \/ Deploys("old operator", "operator", deployed \ {"operator"})
  \/ Deploys("operator", "thanos", deployed \cup {"operator"})
  \/ Deploys("thanos", "thanos address", deployed \cup {"thanos"})
  \/ Refuses("thanos address")

AfterRemoval == IF user.command = "upgrade" THEN "namespace" ELSE "destroy"

(* Each step fails without what it removes.                                *)
removePrometheusImpl ==
  \/ "thanos" \in deployed /\ Deploys("no thanos", "no operator", deployed \ {"thanos"})
  \/ "operator" \in deployed /\ Deploys("no operator", "no secret", deployed \ {"operator"})
  \/ bucketSecret # 0 /\ Secret("no secret", "no namespace", 0)
  \/ "namespace" \in deployed /\ Deploys("no namespace", AfterRemoval, deployed \ {"namespace"})
  \/ "thanos" \notin deployed /\ Refuses("no thanos")
  \/ "operator" \notin deployed /\ Refuses("no operator")
  \/ bucketSecret = 0 /\ Refuses("no secret")

(* What would leave monitoring running with a credential that is gone.     *)
destroyWithService ==
  /\ UserAt("no operator") /\ UserTo("no operator")
  /\ assigned # 0 /\ assigned' = 0
  /\ UNCHANGED <<deployed, bucketSecret, allocations, mishaps>>

(* Last of a removal, the credential is given up for good.                 *)
destroyMonitoringCredential ==
  /\ UserAt("destroy") /\ UserTo("over")
  /\ assigned' = 0
  /\ UNCHANGED <<deployed, bucketSecret, allocations, mishaps>>

MonitoringInit ==
  /\ deployed = {} /\ bucketSecret = 0
  /\ assigned = 0 /\ allocations = 0 /\ mishaps = 0
  /\ user = [command |-> "none", at |-> "over", credential |-> 0]

MonitoringNext ==
  \/ getClusterName \/ mishap \/ fetchMonitoringCredential
  \/ installPrometheusImpl \/ removePrometheusImpl \/ destroyMonitoringCredential

MonitoringSpec == MonitoringInit /\ [][MonitoringNext]_monitoringVars

-----------------------------------------------------------------------------
(* Where monitoring runs with a secret, it is the credential that the      *)
(* server has for the cluster, none that was given up, whichever step of   *)
(* an installation, removal or upgrade has failed before; and a credential *)
(* is given up only when nothing is left in the cluster.                   *)
MonitoringCredentialValid ==
  /\ "operator" \in deployed /\ bucketSecret # 0 => bucketSecret = assigned
  /\ UserAt("destroy") => deployed = {} /\ bucketSecret = 0
=============================================================================

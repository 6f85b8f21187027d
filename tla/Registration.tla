---------------------------- MODULE Registration ----------------------------
(***************************************************************************)
(* Preparing a Kubernetes cluster for SLATE (ClusterRegistration.cpp), and  *)
(* its ingress controller and roles (src/client/cluster_components/):       *)
(* the client runs kubectl and helm one command after another, asks the     *)
(* user where it must, and waits for what the controllers in the cluster    *)
(* do.  Any command may fail, which ends the client's command where it is;  *)
(* the user may then run the same or another one.                           *)
(***************************************************************************)
EXTENDS Naturals

CONSTANT MaxFailures   \* how many commands fail (a bound)

ASSUME RegistrationAssumption == MaxFailures \in Nat

VARIABLES
  kube,             \* what is in the cluster
  task,             \* the client's command and where it is
  failures          \* how many commands have failed

registrationVars == <<kube, task, failures>>

(***************************************************************************)
(* The cluster: the controller deployed, and the pods with the federation   *)
(* controller's label; the custom resource definitions, the ClusterRole,    *)
(* the Cluster object and the namespace the controller found for it, the    *)
(* namespace of that name, the secret of its service account; the load      *)
(* balancer, the ingress controller, its address, and the objects of it     *)
(* without the label by which it is removed.                                *)
(***************************************************************************)

RegisterCommands == {"create", "reconfigure"}
IngressCommands == {"install ingress", "remove ingress", "upgrade ingress"}
RoleCommands == {"install role", "remove role"}
Ended == {"ready", "done", "failed"}

To(at) == task' = [task EXCEPT !.at = at, !.command = IF at \in Ended THEN "none" ELSE @]
AtTask(at) == task.at = at
Kubectl(at, then, k) ==
  /\ AtTask(at) /\ To(then) /\ kube' = k
  /\ UNCHANGED failures
Look(at, then) == Kubectl(at, then, kube)

-----------------------------------------------------------------------------
(* The user runs a command; all but creating look for the Cluster object.  *)
runClientCommand ==
  /\ task.at \in Ended
  /\ \E command \in RegisterCommands :
       task' = [command |-> command, noIngress |-> task.noIngress,
                at |-> IF command = "create" THEN "controller" ELSE "account"]
  /\ UNCHANGED <<kube, failures>>

checkSystemNamespace ==
  /\ task.at \in Ended /\ kube.object
  /\ \E command \in IngressCommands \cup RoleCommands :
       task' = [task EXCEPT !.command = command, !.at = command]
  /\ UNCHANGED <<kube, failures>>

(* A kubectl or helm command fails, or an answer of the server.            *)
commandFails ==
  /\ task.at \notin Ended /\ failures < MaxFailures
  /\ To("failed") /\ failures' = failures + 1
  /\ UNCHANGED kube

-----------------------------------------------------------------------------
(* ensureFederationController *)

findController ==
  /\ AtTask("controller")
  /\ \/ kube.controller = "none" /\ \E next \in {"apply controller", "failed"} : Look("controller", next)
     \/ kube.controller = "current" /\ Look("controller", "crds")
     \/ /\ kube.controller \in {"nrp", "old"}
        /\ \E next \in {"delete controller", "crds"} : Look("controller", next)

(* The pods of a deleted deployment run on for a while.                    *)
deleteController ==
  Kubectl("delete controller", "apply controller",
          [kube EXCEPT !.controller = "none", !.newPod = "none", !.oldPod = (kube.controller = "old")])

applyController ==
  Kubectl("apply controller", "controller pods",
          [kube EXCEPT !.controller = "current", !.newPod = "none"])

(* Every pod found must be running, and one must be found.                 *)
awaitController ==
  /\ kube.newPod # "starting" /\ (kube.oldPod \/ kube.newPod = "running")
  /\ Look("controller pods", "crds")

ensureFederationController ==
  findController \/ deleteController \/ applyController \/ awaitController

awaitDefinitions == kube.crds /\ Look("crds", "role")

(* ensureRBAC; the user may decline.                                       *)
ensureRBAC ==
  \/ ~kube.role /\ Kubectl("role", "account", [kube EXCEPT !.role = TRUE])
  \/ ~kube.role /\ Look("role", "failed")
  \/ kube.role /\ Look("role", "account")

-----------------------------------------------------------------------------
(* extractClusterConfig *)

(* The user wants a service account, and to reuse an existing one.         *)
createClusterObject ==
  \/ Look("account", "failed")
  \/ kube.object /\ Look("account", "given")
  \/ ~kube.object /\ Kubectl("account", "given", [kube EXCEPT !.object = TRUE])

(* What would register a cluster with a namespace nobody asked for.        *)
acceptAnyNamespace ==
  \/ kube.given # "none" /\ Look("given", "namespace")
  \/ kube.given = "none" /\ Look("given", "failed")

(* The controller makes up another name when the namespace exists; then    *)
(* the object is deleted again, and the command fails.  So it does after   *)
(* eleven attempts without any.                                            *)
checkNamespaceName ==
  \/ kube.given = "same" /\ Look("given", "namespace")
  \/ kube.given = "none" /\ Look("given", "failed")
  \/ kube.given = "other" /\ Kubectl("given", "failed", [kube EXCEPT !.object = FALSE, !.given = "none"])

awaitNamespace == kube.namespace = "active" /\ Look("namespace", "credentials")

noAccountWait == Look("credentials", "ingress")

awaitServiceAccount == kube.account /\ Look("credentials", "ingress")

-----------------------------------------------------------------------------
(* checkLoadBalancer, which the user may contradict, ensureIngressController *)
(* and getIngressControllerAddress, which gives up after 25 attempts.        *)
checkLoadBalancer ==
  \/ (task.noIngress \/ task.command = "reconfigure") /\ Look("ingress", "post")
  \/ ~task.noIngress /\ task.command = "create" /\ Look("ingress", "ingress controller")
  \/ ~task.noIngress /\ task.command = "create" /\ ~kube.balancer /\ Look("ingress", "failed")

WithIngress == [kube EXCEPT !.ingress = "current", !.unlabelled = TRUE]

ensureIngressController ==
  \/ kube.ingress # "none" /\ Look("ingress controller", "address")
  \/ kube.ingress = "none" /\ Look("ingress controller", "failed")
  \/ kube.ingress = "none" /\ Kubectl("ingress controller", "address", WithIngress)

getIngressControllerAddress ==
  \/ kube.address /\ Look("address", "post")
  \/ ~kube.address /\ Look("address", "failed")

(* The request to the server, at last.                                     *)
postCluster == Look("post", "done")

-----------------------------------------------------------------------------
(* Components.  Only objects with the version label are found, of whatever *)
(* type, and removed; without any of these there is nothing to remove.     *)

installIngressController == Kubectl("install ingress", "done", WithIngress)

findAll == kube.ingress # "none"

removeIngressController ==
  \/ findAll /\ Kubectl("remove ingress", "done", [kube EXCEPT !.ingress = "none"])
  \/ ~findAll /\ Look("remove ingress", "failed")

(* The address family is taken from a service that is among the unlabelled. *)
upgradeIngressController ==
  \/ ~kube.unlabelled /\ Look("upgrade ingress", "failed")
  \/ kube.unlabelled /\ kube.ingress = "current" /\ Look("upgrade ingress", "done")
  \/ kube.unlabelled /\ kube.ingress = "none" /\ Look("upgrade ingress", "install ingress")
  \/ /\ kube.unlabelled /\ kube.ingress = "old"
     /\ Kubectl("upgrade ingress", "install ingress", [kube EXCEPT !.ingress = "none"])

installFederationRBAC == Kubectl("install role", "done", [kube EXCEPT !.role = TRUE])

removeFederationRBAC ==
  \/ kube.role /\ Kubectl("remove role", "done", [kube EXCEPT !.role = FALSE])
  \/ ~kube.role /\ Look("remove role", "failed")

-----------------------------------------------------------------------------
(* What happens in the cluster.                                            *)

Controls == kube.controller = "nrp" \/ kube.newPod = "running" \/ kube.controller = "old"

kubernetes ==
  \/ kube.controller = "current" /\ kube.newPod = "none" /\ kube' = [kube EXCEPT !.newPod = "starting"]
  \/ kube.newPod = "starting" /\ kube' = [kube EXCEPT !.newPod = "running"]
  \/ kube.oldPod /\ kube' = [kube EXCEPT !.oldPod = FALSE]
  \/ kube.newPod = "running" /\ ~kube.crds /\ kube' = [kube EXCEPT !.crds = TRUE]
  \/ /\ Controls /\ kube.object /\ kube.given = "none"
     /\ kube' = IF kube.namespace = "foreign"
                THEN [kube EXCEPT !.given = "other"]
                ELSE [kube EXCEPT !.given = "same", !.namespace = "pending", !.account = FALSE]
  \/ kube.namespace = "pending" /\ kube' = [kube EXCEPT !.namespace = "active"]
  \/ /\ kube.namespace = "active" /\ kube.given = "same" /\ ~kube.account
     /\ kube' = [kube EXCEPT !.account = TRUE]
  \/ /\ kube.balancer /\ (kube.ingress # "none" \/ kube.unlabelled) /\ ~kube.address
     /\ kube' = [kube EXCEPT !.address = TRUE]

clusterWorks ==
  kubernetes /\ UNCHANGED <<task, failures>>

RegistrationInit ==
  /\ kube \in [controller : {"none", "nrp", "old"}, oldPod : {FALSE}, newPod : {"none"},
               crds : BOOLEAN, role : {FALSE}, object : {FALSE}, given : {"none"},
               namespace : {"none", "foreign"}, account : {FALSE}, balancer : BOOLEAN,
               ingress : {"none", "old"}, address : {FALSE}, unlabelled : BOOLEAN]
  /\ kube.unlabelled <=> kube.ingress = "old"
  /\ kube.crds <=> kube.controller = "old"
  /\ task \in [command : {"none"}, noIngress : BOOLEAN, at : {"ready"}]
  /\ failures = 0

clientStep ==
  \/ ensureFederationController \/ awaitDefinitions \/ ensureRBAC
  \/ createClusterObject \/ checkNamespaceName \/ awaitNamespace \/ awaitServiceAccount
  \/ checkLoadBalancer \/ ensureIngressController \/ getIngressControllerAddress \/ postCluster
  \/ installIngressController \/ removeIngressController \/ upgradeIngressController
  \/ installFederationRBAC \/ removeFederationRBAC

RegistrationNext ==
  runClientCommand \/ checkSystemNamespace \/ commandFails \/ clientStep \/ clusterWorks

RegistrationSpec == RegistrationInit /\ [][RegistrationNext]_registrationVars

-----------------------------------------------------------------------------
(* However often the preparation fails half way and is begun again, with   *)
(* whatever is in the cluster by then: the server is only ever told of a   *)
(* cluster whose Cluster object has the namespace of its own name, active  *)
(* and with the account SLATE is to use, and whose ingress controller has  *)
(* an address unless none was wanted.                                      *)
RegisteredPrepared ==
  AtTask("post") =>
    /\ kube.object /\ kube.given = "same" /\ kube.namespace = "active" /\ kube.account
    /\ task.command = "create" => kube.crds /\ kube.role
    /\ (task.command = "create" /\ ~task.noIngress) => kube.ingress # "none" /\ kube.address

RegistrationOver == task.at \in Ended

(* The user has kept the old nrp-controller, which does not define the     *)
(* resources that are waited for.                                          *)
OldControllerKept == kube.controller = "nrp" /\ ~kube.crds
=============================================================================

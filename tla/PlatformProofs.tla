--------------------------- MODULE PlatformProofs ---------------------------
(***************************************************************************)
(* Proofs about the parts that run commands or wait for the database: the  *)
(* child processes of the server, for any number of calls and children;    *)
(* the registration of a cluster and its monitoring, for any number of     *)
(* failed commands; and the start of the server, for any number of failed  *)
(* calls and crashes.  Each has an invariant that says, for every place a  *)
(* process can be at, what the steps before have established.  The last    *)
(* parts are about the client: the two threads of its progress display,    *)
(* for any nesting of tokens and hidden stretches; and the archives it     *)
(* sends and the upgrade, for names and files of any length and any sizes  *)
(* of fields and blocks.                                                   *)
(***************************************************************************)
EXTENDS Processes, Registration, Monitoring, Startup, Progress, Archives,
        FiniteSetTheorems, SequenceTheorems, WellFoundedInduction, NaturalsInduction, TLAPS

-----------------------------------------------------------------------------
(* Child processes.                                                        *)

Registered == {"out", "err", "status", "over", "destroyed"}
CallStates == {"called", "ready", "pipes", "refused", "forked"} \cup Registered

(* The reaper has passed on the exit status of the child.                  *)
Passed(c) == child[c] = "reaped" /\ ~(reaper = "passing" /\ reaped = c)

(* The handle has met the exit status.                                     *)
Met(c) == Passed(c) /\ caller[c] \in Registered

(* What processTable must hold: whichever of the two came first.           *)
HandleEntry(c) ==
  IF Passed(c) /\ caller[c] = "forked" THEN "status"
  ELSE IF ~Passed(c) /\ caller[c] \in Registered THEN "handle" ELSE "none"

ProcessTypes ==
  /\ caller \in [Calls -> CallStates]
  /\ child \in [Calls -> {"none", "running", "exited", "reaped"}]
  /\ processTable \in [Calls -> {"none", "handle", "status"}]
  /\ hasExitStatus \in [Calls -> BOOLEAN]
  /\ reaper = "passing" => reaped \in Calls /\ child[reaped] = "reaped"

(* The table and the handles are determined by who has come to the meeting *)
(* of a call and its child.                                                *)
Rendezvous ==
  \A c \in Calls :
    /\ child[c] = "none" <=> caller[c] \in {"called", "ready", "pipes", "refused"}
    /\ processTable[c] = HandleEntry(c)
    /\ hasExitStatus[c] <=> Met(c)
    /\ caller[c] \in {"over", "destroyed"} => Met(c)

ProcessInv == ProcessTypes /\ Rendezvous

(* The steps of a call of runCommand preserve the invariant.               *)
LEMMA CallPreserves ==
  ASSUME ProcessInv, NEW c \in Calls, runCommand(c)
  PROVE  ProcessInv'
<1> USE DEF ProcessInv, ProcessTypes, Rendezvous, Passed, Met, HandleEntry, CallStates, Registered, reaperVars
<1>1. CASE locateProgram(c)
  BY <1>1 DEF locateProgram
<1>2. CASE createPipes(c)
  BY <1>2 DEF createPipes
<1>3. CASE forkChild(c)
  BY <1>3 DEF forkChild
<1>4. CASE registerHandle(c)
  <2>1. CASE processTable[c] = "status"
    <3>1. /\ hasExitStatus' = [hasExitStatus EXCEPT ![c] = TRUE]
          /\ processTable' = [processTable EXCEPT ![c] = "none"]
      BY <1>4, <2>1 DEF registerHandle
    <3>2. Passed(c)
      BY <2>1
    <3> QED BY <1>4, <3>1, <3>2 DEF registerHandle
  <2>2. CASE processTable[c] # "status"
    <3>1. processTable' = [processTable EXCEPT ![c] = "handle"] /\ UNCHANGED hasExitStatus
      BY <1>4, <2>2 DEF registerHandle
    <3>2. ~Passed(c)
      BY <1>4, <2>2 DEF registerHandle
    <3> QED BY <1>4, <3>1, <3>2 DEF registerHandle
  <2> QED BY <2>1, <2>2
<1>5. CASE readStream(c)
  BY <1>5 DEF readStream, Streams, AfterStream
<1>6. CASE awaitStatus(c)
  BY <1>6 DEF awaitStatus, done
<1>7. CASE destroyHandle(c)
  BY <1>7 DEF destroyHandle
<1> QED BY <1>1, <1>2, <1>3, <1>4, <1>5, <1>6, <1>7 DEF runCommand

(* So do a child's own steps.                                              *)
LEMMA ChildPreserves ==
  ASSUME ProcessInv, NEW c \in Calls, runChild(c)
  PROVE  ProcessInv'
<1> USE DEF ProcessInv, ProcessTypes, Rendezvous, Passed, Met, HandleEntry, CallStates, Registered, reaperVars, callVars
<1>1. CASE exitChild(c)
  BY <1>1 DEF exitChild
<1>2. CASE \E s \in Streams : writeStream(c, s)
  BY <1>2 DEF writeStream
<1> QED BY <1>1, <1>2 DEF runChild

(* And those of the reaper.                                                *)
LEMMA ReaperPreserves ==
  ASSUME ProcessInv, reapProcesses
  PROVE  ProcessInv'
<1> USE DEF ProcessInv, ProcessTypes, Rendezvous, Passed, Met, HandleEntry, CallStates, Registered, callVars
<1>1. CASE checkFlag
  BY <1>1 DEF checkFlag
<1>2. CASE collectChild
  BY <1>2 DEF collectChild, Exited
<1>3. CASE passStatus
  <2>1. reaped \in Calls /\ child[reaped] = "reaped" /\ ~Passed(reaped)
    BY <1>3 DEF passStatus
  <2>2. \A c \in Calls : Passed(c)' <=> Passed(c) \/ c = reaped
    BY <1>3, <2>1 DEF passStatus
  <2>3. CASE processTable[reaped] = "handle"
    <3>1. /\ hasExitStatus' = [hasExitStatus EXCEPT ![reaped] = TRUE]
          /\ processTable' = [processTable EXCEPT ![reaped] = "none"]
      BY <1>3, <2>3 DEF passStatus
    <3> QED BY <1>3, <2>1, <2>2, <2>3, <3>1 DEF passStatus
  <2>4. CASE processTable[reaped] # "handle"
    <3>1. /\ processTable' = [processTable EXCEPT ![reaped] = "status"]
          /\ UNCHANGED hasExitStatus
      BY <1>3, <2>1, <2>4 DEF passStatus
    <3>2. caller[reaped] = "forked"
      BY <2>1, <2>4
    <3> QED BY <1>3, <2>1, <2>2, <2>4, <3>1, <3>2 DEF passStatus
  <2> QED BY <2>3, <2>4
<1>4. CASE noneLeft
  BY <1>4 DEF noneLeft
<1>5. CASE resetFlag
  BY <1>5 DEF resetFlag
<1> QED BY <1>1, <1>2, <1>3, <1>4, <1>5 DEF reapProcesses

(* For any calls and children, processTable and the handles hold exactly   *)
(* what the order in which call and child have come to their meeting says. *)
THEOREM ProcessInvariant == ProcessSpec => []ProcessInv
<1>1. ProcessInit => ProcessInv
  BY DEF ProcessInit, ProcessInv, ProcessTypes, Rendezvous, Passed, Met, HandleEntry, CallStates, Registered
<1>2. ProcessInv /\ [ProcessNext]_processVars => ProcessInv'
  <2> SUFFICES ASSUME ProcessInv, [ProcessNext]_processVars PROVE ProcessInv'
    OBVIOUS
  <2>1. CASE UNCHANGED processVars
    BY <2>1 DEF processVars, callVars, reaperVars, ProcessInv, ProcessTypes, Rendezvous, Passed, Met, HandleEntry
  <2> QED BY <2>1, CallPreserves, ChildPreserves, ReaperPreserves DEF ProcessNext
<1> QED BY <1>1, <1>2, PTL DEF ProcessSpec

(* Whichever of the handle and the exit status comes first, the status     *)
(* reaches the handle exactly once and processTable keeps nothing          *)
(* (registerHandle, reapProcesses), for any number of calls.               *)
THEOREM StatusReachesHandle == ProcessSpec => []StatusPassedOnce
<1>1. ProcessInv => StatusPassedOnce
  BY DEF ProcessInv, ProcessTypes, Rendezvous, Passed, Met, HandleEntry, CallStates, Registered, StatusPassedOnce
<1> QED BY <1>1, ProcessInvariant, PTL

-----------------------------------------------------------------------------
(* The registration of a cluster.  What the steps of the client establish  *)
(* one after the other stays true until the server is told: each set has   *)
(* the places after such a step.                                           *)

HasAccount == {"ingress", "ingress controller", "address", "post"}
HasNamespace == {"credentials"} \cup HasAccount
HasName == {"namespace"} \cup HasNamespace
HasObject == {"given"} \cup HasName
HasRole == {"account"} \cup HasObject
HasDefinitions == {"role"} \cup HasRole

TaskPlaces ==
  Ended \cup HasDefinitions \cup IngressCommands \cup RoleCommands
  \cup {"controller", "delete controller", "apply controller", "controller pods", "crds"}

Kubes ==
  [controller : {"none", "nrp", "old", "current"}, oldPod : BOOLEAN,
   newPod : {"none", "starting", "running"}, crds : BOOLEAN, role : BOOLEAN,
   object : BOOLEAN, given : {"none", "same", "other"},
   namespace : {"none", "foreign", "pending", "active"}, account : BOOLEAN,
   balancer : BOOLEAN, ingress : {"none", "old", "current"}, address : BOOLEAN,
   unlabelled : BOOLEAN]
Tasks ==
  [command : {"none"} \cup RegisterCommands \cup IngressCommands \cup RoleCommands,
   noIngress : BOOLEAN, at : TaskPlaces]

RegistrationTypes == kube \in Kubes /\ task \in Tasks

(* What holds of the cluster when a command is at a place.                 *)
Prepares(place, command, noIngress, k) ==
  /\ place \in HasObject => k.object
  /\ place \in HasName => k.given = "same"
  /\ place \in HasNamespace => k.namespace = "active"
  /\ place \in HasAccount => k.account
  /\ place \in HasDefinitions /\ command = "create" => k.crds
  /\ place \in HasRole /\ command = "create" => k.role
  /\ place = "address" => k.ingress # "none"
  /\ place = "post" /\ command = "create" /\ ~noIngress => k.ingress # "none" /\ k.address
Prepared == Prepares(task.at, task.command, task.noIngress, kube)

RegistrationInv == RegistrationTypes /\ Prepared

(* A step of the client's command keeps the command until it ends.         *)
LEMMA ToTyped ==
  ASSUME task \in Tasks, NEW place \in TaskPlaces, To(place)
  PROVE  /\ task' \in Tasks /\ task'.at = place /\ task'.noIngress = task.noIngress
         /\ task'.command = IF place \in Ended THEN "none" ELSE task.command
BY DEF To, Tasks

(* A step that changes the cluster to k and goes on to a place where k fits. *)
LEMMA GoesOnPrepared ==
  ASSUME RegistrationInv, NEW place \in TaskPlaces, NEW then \in TaskPlaces,
         NEW k \in Kubes, Kubectl(place, then, k),
         then \in Ended \/ Prepares(then, task.command, task.noIngress, k)
  PROVE  RegistrationInv'
<1>1. /\ task' \in Tasks /\ task'.at = then /\ task'.noIngress = task.noIngress
      /\ task'.command = IF then \in Ended THEN "none" ELSE task.command
      /\ kube' = k
  BY ToTyped DEF Kubectl, RegistrationInv, RegistrationTypes
<1> QED BY <1>1 DEF RegistrationInv, RegistrationTypes, Prepared, Prepares, Ended, HasDefinitions,
               HasRole, HasObject, HasName, HasNamespace, HasAccount

(* The commands of the user, and one that fails.                           *)
LEMMA CommandsPreserve ==
  ASSUME RegistrationInv, runClientCommand \/ checkSystemNamespace \/ commandFails
  PROVE  RegistrationInv'
<1> USE DEF TaskPlaces, HasDefinitions, HasRole,
            HasObject, HasName, HasNamespace, HasAccount, Ended, RegisterCommands,
            IngressCommands, RoleCommands
<1>1. CASE runClientCommand
  <2>1. PICK command \in RegisterCommands :
       task' = [command |-> command, noIngress |-> task.noIngress,
                at |-> IF command = "create" THEN "controller" ELSE "account"]
    BY <1>1 DEF runClientCommand
  <2>2. task' \in Tasks
    BY <2>1 DEF Tasks, RegistrationInv, RegistrationTypes
  <2>3. kube' = kube /\ task'.at \in {"controller", "account"}  /\ (task'.at = "account" => task'.command # "create")
    BY <1>1, <2>1 DEF runClientCommand
  <2> QED BY <2>2, <2>3 DEF RegistrationInv, RegistrationTypes, Prepared, Prepares
<1>2. CASE checkSystemNamespace
  <2>1. PICK command \in IngressCommands \cup RoleCommands :
       task' = [task EXCEPT !.command = command, !.at = command]
    BY <1>2 DEF checkSystemNamespace
  <2>2. task' \in Tasks /\ task'.at = command
    BY <2>1 DEF Tasks, RegistrationInv, RegistrationTypes
  <2>3. kube' = kube
    BY <1>2 DEF checkSystemNamespace
  <2> QED BY <2>2, <2>3 DEF RegistrationInv, RegistrationTypes, Prepared, Prepares
<1>3. CASE commandFails
  <2>1. task' \in Tasks /\ task'.at = "failed" /\ kube' = kube
    BY <1>3, ToTyped DEF commandFails, RegistrationInv, RegistrationTypes
  <2> QED BY <2>1 DEF RegistrationInv, RegistrationTypes, Prepared, Prepares
<1> QED BY <1>1, <1>2, <1>3

(* Looking at the cluster and going on.                                    *)
LEMMA LookPrepared ==
  ASSUME RegistrationInv, NEW place \in TaskPlaces, NEW then \in TaskPlaces, Look(place, then),
         then \in Ended \/ Prepares(then, task.command, task.noIngress, kube)
  PROVE  RegistrationInv'
BY GoesOnPrepared DEF Look, RegistrationInv, RegistrationTypes

(* The steps of ensureFederationController and the wait for its            *)
(* definitions.                                                            *)
LEMMA ControllerPreserves ==
  ASSUME RegistrationInv, ensureFederationController \/ awaitDefinitions
  PROVE  RegistrationInv'
<1> USE DEF TaskPlaces, Ended, HasDefinitions, HasRole, HasObject, HasName, HasNamespace, HasAccount
<1>1. CASE findController
  BY <1>1, LookPrepared DEF findController, Prepares
<1>2. CASE deleteController
  <2> DEFINE k == [kube EXCEPT !.controller = "none", !.newPod = "none",
                               !.oldPod = (kube.controller = "old")]
  <2>1. k \in Kubes
    BY DEF Kubes, RegistrationInv, RegistrationTypes
  <2> QED BY <1>2, <2>1, GoesOnPrepared DEF deleteController, Prepares
<1>3. CASE applyController
  <2> DEFINE k == [kube EXCEPT !.controller = "current", !.newPod = "none"]
  <2>1. k \in Kubes
    BY DEF Kubes, RegistrationInv, RegistrationTypes
  <2> QED BY <1>3, <2>1, GoesOnPrepared DEF applyController, Prepares
<1>4. CASE awaitController
  BY <1>4, LookPrepared DEF awaitController, Prepares
<1>5. CASE awaitDefinitions
  BY <1>5, LookPrepared DEF awaitDefinitions, Prepares
<1> QED BY <1>1, <1>2, <1>3, <1>4, <1>5 DEF ensureFederationController

(* The steps of ensureRBAC and extractClusterConfig.                       *)
LEMMA AccountPreserves ==
  ASSUME RegistrationInv,
         \/ ensureRBAC \/ createClusterObject \/ checkNamespaceName
         \/ awaitNamespace \/ awaitServiceAccount
  PROVE  RegistrationInv'
<1> USE DEF TaskPlaces, Ended, HasDefinitions, HasRole, HasObject, HasName, HasNamespace, HasAccount
<1>0. kube \in Kubes /\ Prepared
  BY DEF RegistrationInv, RegistrationTypes
<1>1. CASE ensureRBAC
  <2> DEFINE k == [kube EXCEPT !.role = TRUE]
  <2>1. k \in Kubes /\ k.role /\ k.crds = kube.crds
    BY <1>0 DEF Kubes
  <2>2. CASE Kubectl("role", "account", k)
    BY <1>0, <2>1, <2>2, GoesOnPrepared DEF Kubectl, AtTask, Prepared, Prepares
  <2>3. CASE Look("role", "failed")
    BY <2>3, LookPrepared
  <2>4. CASE kube.role /\ Look("role", "account")
    BY <1>0, <2>4, LookPrepared DEF Look, Kubectl, AtTask, Prepared, Prepares
  <2> QED BY <1>1, <2>2, <2>3, <2>4 DEF ensureRBAC
<1>2. CASE createClusterObject
  <2> DEFINE k == [kube EXCEPT !.object = TRUE]
  <2>1. k \in Kubes /\ k.object /\ k.crds = kube.crds /\ k.role = kube.role
    BY <1>0 DEF Kubes
  <2>2. CASE Look("account", "failed")
    BY <2>2, LookPrepared
  <2>3. CASE kube.object /\ Look("account", "given")
    BY <1>0, <2>3, LookPrepared DEF Look, Kubectl, AtTask, Prepared, Prepares
  <2>4. CASE Kubectl("account", "given", k)
    BY <1>0, <2>1, <2>4, GoesOnPrepared DEF Kubectl, AtTask, Prepared, Prepares
  <2> QED BY <1>2, <2>2, <2>3, <2>4 DEF createClusterObject
<1>3. CASE checkNamespaceName
  <2> DEFINE k == [kube EXCEPT !.object = FALSE, !.given = "none"]
  <2>1. k \in Kubes
    BY <1>0 DEF Kubes
  <2>2. CASE kube.given = "same" /\ Look("given", "namespace")
    BY <1>0, <2>2, LookPrepared DEF Look, Kubectl, AtTask, Prepared, Prepares
  <2>3. CASE Look("given", "failed")
    BY <2>3, LookPrepared
  <2>4. CASE Kubectl("given", "failed", k)
    BY <2>1, <2>4, GoesOnPrepared
  <2> QED BY <1>3, <2>2, <2>3, <2>4 DEF checkNamespaceName
<1>4. CASE awaitNamespace
  BY <1>0, <1>4, LookPrepared DEF awaitNamespace, Look, Kubectl, AtTask, Prepared, Prepares
<1>5. CASE awaitServiceAccount
  BY <1>0, <1>5, LookPrepared DEF awaitServiceAccount, Look, Kubectl, AtTask, Prepared, Prepares
<1> QED BY <1>1, <1>2, <1>3, <1>4, <1>5

(* The steps from checkLoadBalancer to the request to the server.          *)
LEMMA IngressPreserves ==
  ASSUME RegistrationInv,
         \/ checkLoadBalancer \/ ensureIngressController
         \/ getIngressControllerAddress \/ postCluster
  PROVE  RegistrationInv'
<1> USE DEF TaskPlaces, Ended, HasDefinitions, HasRole, HasObject, HasName, HasNamespace, HasAccount
<1>0. kube \in Kubes /\ Prepared
  BY DEF RegistrationInv, RegistrationTypes
<1>1. CASE checkLoadBalancer
  BY <1>0, <1>1, LookPrepared DEF checkLoadBalancer, Look, Kubectl, AtTask, Prepared, Prepares
<1>2. CASE ensureIngressController
  <2>1. /\ WithIngress \in Kubes /\ WithIngress.ingress # "none"
        /\ WithIngress.crds = kube.crds /\ WithIngress.role = kube.role
        /\ WithIngress.object = kube.object /\ WithIngress.given = kube.given
        /\ WithIngress.namespace = kube.namespace /\ WithIngress.account = kube.account
    BY <1>0 DEF Kubes, WithIngress
  <2>2. CASE kube.ingress # "none" /\ Look("ingress controller", "address")
    BY <1>0, <2>2, LookPrepared DEF Look, Kubectl, AtTask, Prepared, Prepares
  <2>3. CASE Look("ingress controller", "failed")
    BY <2>3, LookPrepared
  <2>4. CASE Kubectl("ingress controller", "address", WithIngress)
    BY <1>0, <2>1, <2>4, GoesOnPrepared DEF Kubectl, AtTask, Prepared, Prepares
  <2> QED BY <1>2, <2>2, <2>3, <2>4 DEF ensureIngressController
<1>3. CASE getIngressControllerAddress
  BY <1>0, <1>3, LookPrepared DEF getIngressControllerAddress, Look, Kubectl, AtTask, Prepared, Prepares
<1>4. CASE postCluster
  BY <1>4, LookPrepared DEF postCluster
<1> QED BY <1>1, <1>2, <1>3, <1>4

(* The commands on the ingress controller and the roles.                   *)
LEMMA ComponentsPreserve ==
  ASSUME RegistrationInv,
         \/ installIngressController \/ removeIngressController \/ upgradeIngressController
         \/ installFederationRBAC \/ removeFederationRBAC
  PROVE  RegistrationInv'
<1> USE DEF TaskPlaces, Ended, HasDefinitions, HasRole, HasObject, HasName, HasNamespace,
            HasAccount, IngressCommands, RoleCommands
<1>1. /\ WithIngress \in Kubes
      /\ [kube EXCEPT !.ingress = "none"] \in Kubes
      /\ \A b \in BOOLEAN : [kube EXCEPT !.role = b] \in Kubes
  BY DEF WithIngress, Kubes, RegistrationInv, RegistrationTypes
<1>2. CASE installIngressController
  BY <1>1, <1>2, GoesOnPrepared DEF installIngressController
<1>3. CASE removeIngressController
  BY <1>1, <1>3, GoesOnPrepared, LookPrepared DEF removeIngressController
<1>4. CASE upgradeIngressController
  <2>1. CASE Look("upgrade ingress", "failed") \/ Look("upgrade ingress", "done")
    BY <2>1, LookPrepared
  <2>2. CASE Look("upgrade ingress", "install ingress")
    BY <2>2, LookPrepared DEF Prepares
  <2>3. CASE Kubectl("upgrade ingress", "install ingress", [kube EXCEPT !.ingress = "none"])
    BY <1>1, <2>3, GoesOnPrepared DEF Prepares
  <2> QED BY <1>4, <2>1, <2>2, <2>3 DEF upgradeIngressController
<1>5. CASE installFederationRBAC
  BY <1>1, <1>5, GoesOnPrepared DEF installFederationRBAC
<1>6. CASE removeFederationRBAC
  BY <1>1, <1>6, GoesOnPrepared, LookPrepared DEF removeFederationRBAC
<1> QED BY <1>2, <1>3, <1>4, <1>5, <1>6

(* What happens in the cluster takes nothing back of what a command found: *)
(* a controller gives a namespace only to an object that has none.         *)
LEMMA ClusterWorkPreserves ==
  ASSUME RegistrationInv, clusterWorks
  PROVE  RegistrationInv'
<1>0. kube \in Kubes /\ Prepared /\ task' = task
  BY DEF RegistrationInv, RegistrationTypes, clusterWorks
<1>1. /\ kube' \in Kubes
      /\ kube'.object = kube.object /\ kube'.role = kube.role /\ kube'.ingress = kube.ingress
      /\ kube.crds => kube'.crds
      /\ kube.address => kube'.address
      /\ kube.given = "same" =>
           /\ kube'.given = "same"
           /\ kube.namespace = "active" => kube'.namespace = "active"
           /\ kube.account => kube'.account
  <2>1. kubernetes
    BY DEF clusterWorks
  <2>2. CASE \E v \in {"starting", "running"} : kube' = [kube EXCEPT !.newPod = v]
    BY <1>0, <2>2 DEF Kubes
  <2>3. CASE kube' = [kube EXCEPT !.oldPod = FALSE]
    BY <1>0, <2>3 DEF Kubes
  <2>4. CASE kube' = [kube EXCEPT !.crds = TRUE]
    BY <1>0, <2>4 DEF Kubes
  <2>5. CASE kube.given = "none" /\ kube' = [kube EXCEPT !.given = "other"]
    BY <1>0, <2>5 DEF Kubes
  <2>6. CASE /\ kube.given = "none"
             /\ kube' = [kube EXCEPT !.given = "same", !.namespace = "pending", !.account = FALSE]
    BY <1>0, <2>6 DEF Kubes
  <2>7. CASE kube.namespace = "pending" /\ kube' = [kube EXCEPT !.namespace = "active"]
    BY <1>0, <2>7 DEF Kubes
  <2>8. CASE kube' = [kube EXCEPT !.account = TRUE]
    BY <1>0, <2>8 DEF Kubes
  <2>9. CASE kube' = [kube EXCEPT !.address = TRUE]
    BY <1>0, <2>9 DEF Kubes
  <2> QED BY <2>1, <2>2, <2>3, <2>4, <2>5, <2>6, <2>7, <2>8, <2>9 DEF kubernetes
<1> QED BY <1>0, <1>1 DEF RegistrationInv, RegistrationTypes, Prepared, Prepares, HasDefinitions,
                          HasRole, HasObject, HasName, HasNamespace, HasAccount

(* For any number of failed commands, and whatever commands came before,   *)
(* the cluster has at each place of a command what its steps up to there   *)
(* have established (ClusterRegistration.cpp).                             *)
THEOREM RegistrationInvariant == RegistrationSpec => []RegistrationInv
<1>1. RegistrationInit => RegistrationInv
  <2> SUFFICES ASSUME RegistrationInit PROVE RegistrationInv
    OBVIOUS
  <2>1. kube \in Kubes
    BY DEF RegistrationInit, Kubes
  <2>2. task \in Tasks /\ task.at = "ready"
    BY DEF RegistrationInit, Tasks, TaskPlaces, Ended
  <2> QED BY <2>1, <2>2 DEF RegistrationInv, RegistrationTypes, Prepared, Prepares, HasDefinitions,
                            HasRole, HasObject, HasName, HasNamespace, HasAccount
<1>2. RegistrationInv /\ [RegistrationNext]_registrationVars => RegistrationInv'
  <2> SUFFICES ASSUME RegistrationInv, [RegistrationNext]_registrationVars
               PROVE  RegistrationInv'
    OBVIOUS
  <2>1. CASE UNCHANGED registrationVars
    BY <2>1 DEF registrationVars, RegistrationInv, RegistrationTypes, Prepared
  <2>2. CASE clientStep
    BY <2>2, ControllerPreserves, AccountPreserves, IngressPreserves, ComponentsPreserve
       DEF clientStep
  <2> QED BY <2>1, <2>2, CommandsPreserve, ClusterWorkPreserves DEF RegistrationNext
<1> QED BY <1>1, <1>2, PTL DEF RegistrationSpec

(* The server is only ever told of a cluster that is prepared, however     *)
(* often the preparation failed and was begun again, for any number of     *)
(* failed commands.                                                        *)
THEOREM OnlyPreparedRegistered == RegistrationSpec => []RegisteredPrepared
<1>1. RegistrationInv => RegisteredPrepared
  BY DEF RegistrationInv, RegisteredPrepared, Prepared, Prepares, AtTask, HasDefinitions,
         HasRole, HasObject, HasName, HasNamespace, HasAccount
<1> QED BY <1>1, RegistrationInvariant, PTL

-----------------------------------------------------------------------------
(* Monitoring of a cluster.                                                *)

InstallPlaces == {"namespace", "old secret", "secret", "old operator", "operator", "thanos",
                  "thanos address"}
RemovePlaces == {"no thanos", "no operator", "no secret", "no namespace"}

MonitoringTypes ==
  /\ deployed \subseteq {"namespace", "operator", "thanos"}
  /\ allocations \in Nat /\ assigned \in Nat
  /\ user \in [command : {"none", "install", "remove", "upgrade"}, credential : Nat,
               at : {"over", "fetch", "destroy"} \cup InstallPlaces \cup RemovePlaces]

(* The secret is the server's credential, operator or not; a command that  *)
(* will write the secret has that credential; a removal has got so far as  *)
(* its place says.                                                         *)
CredentialKept ==
  /\ bucketSecret \in {0, assigned}
  /\ user.at \in InstallPlaces => user.credential = assigned
  /\ user.command = "upgrade" /\ user.at \in RemovePlaces => user.credential = assigned
  /\ user.at \in {"no operator", "no secret", "no namespace", "destroy"} => "thanos" \notin deployed
  /\ user.at \in {"no secret", "no namespace", "destroy"} => "operator" \notin deployed
  /\ user.at \in {"no namespace", "destroy"} => bucketSecret = 0
  /\ user.at = "destroy" => "namespace" \notin deployed

MonitoringInv == MonitoringTypes /\ CredentialKept

(* Whatever fails, the cluster's secret is the credential the server has,  *)
(* and a credential is given up by the last step of a removal only.        *)
THEOREM MonitoringInvariant == MonitoringSpec => []MonitoringInv
<1> USE DEF MonitoringInv, MonitoringTypes, CredentialKept, InstallPlaces, RemovePlaces
<1>1. MonitoringInit => MonitoringInv
  BY DEF MonitoringInit
<1>2. MonitoringInv /\ [MonitoringNext]_monitoringVars => MonitoringInv'
  <2> SUFFICES ASSUME MonitoringInv, [MonitoringNext]_monitoringVars PROVE MonitoringInv'
    OBVIOUS
  <2> USE DEF UserAt, UserTo, Deploys, Secret, Refuses
  <2>1. CASE UNCHANGED monitoringVars
    BY <2>1 DEF monitoringVars
  <2>2. CASE getClusterName
    <3>1. PICK command \in {"install", "remove", "upgrade"} :
            user' = [command |-> command, credential |-> 0,
                     at |-> IF command = "remove" THEN "no thanos" ELSE "fetch"]
      BY <2>2 DEF getClusterName
    <3>2. UNCHANGED <<deployed, bucketSecret, assigned, allocations>>
      BY <2>2 DEF getClusterName
    <3>3. /\ user'.command = command /\ user'.credential = 0
          /\ user'.at = IF command = "remove" THEN "no thanos" ELSE "fetch"
      BY <3>1
    <3>4. MonitoringTypes'
      BY <3>1, <3>2
    <3> QED BY <3>2, <3>3, <3>4
  <2>3. CASE mishap
    BY <2>3 DEF mishap
  <2>4. CASE fetchMonitoringCredential
    <3>1. assigned' \in Nat /\ allocations' \in Nat /\ bucketSecret \in {0, assigned'}
      <4>1. CASE UNCHANGED <<assigned, allocations>>
        BY <4>1
      <4>2. CASE assigned = 0 /\ allocations' = allocations + 1 /\ assigned' = allocations'
        <5>1. allocations \in Nat /\ bucketSecret = 0
          BY <4>2
        <5> HIDE DEF MonitoringInv
        <5> QED BY <4>2, <5>1
      <4> QED BY <2>4, <4>1, <4>2 DEF fetchMonitoringCredential
    <3>2. /\ user' = [user EXCEPT !.credential = assigned', !.at = user'.at]
          /\ user'.at \in {"namespace", "no thanos"}
      BY <2>4 DEF fetchMonitoringCredential
    <3>3. UNCHANGED <<deployed, bucketSecret>>
      BY <2>4 DEF fetchMonitoringCredential
    <3> QED BY <3>1, <3>2, <3>3
  <2>5. CASE installPrometheusImpl
    <3>1. CASE Deploys("namespace", "old secret", deployed \cup {"namespace"})
      BY <3>1
    <3>2. CASE Secret("old secret", "secret", 0)
      BY <3>2
    <3>3. CASE Secret("secret", "old operator", user.credential)
      BY <3>3
    <3>4. CASE Deploys("old operator", "operator", deployed \ {"operator"})
      BY <3>4
    <3>5. CASE Deploys("operator", "thanos", deployed \cup {"operator"})
      BY <3>5
    <3>6. CASE Deploys("thanos", "thanos address", deployed \cup {"thanos"})
      BY <3>6
    <3>7. CASE Refuses("thanos address")
      BY <3>7
    <3> QED BY <2>5, <3>1, <3>2, <3>3, <3>4, <3>5, <3>6, <3>7 DEF installPrometheusImpl
  <2>6. CASE removePrometheusImpl
    <3>1. CASE Deploys("no thanos", "no operator", deployed \ {"thanos"})
      BY <3>1
    <3>2. CASE Deploys("no operator", "no secret", deployed \ {"operator"})
      BY <3>2
    <3>3. CASE Secret("no secret", "no namespace", 0)
      BY <3>3
    <3>4. CASE Deploys("no namespace", AfterRemoval, deployed \ {"namespace"})
      BY <3>4 DEF AfterRemoval
    <3>5. CASE Refuses("no thanos") \/ Refuses("no operator") \/ Refuses("no secret")
      BY <3>5
    <3> QED BY <2>6, <3>1, <3>2, <3>3, <3>4, <3>5 DEF removePrometheusImpl
  <2>7. CASE destroyMonitoringCredential
    BY <2>7 DEF destroyMonitoringCredential
  <2> QED BY <2>1, <2>2, <2>3, <2>4, <2>5, <2>6, <2>7 DEF MonitoringNext
<1> QED BY <1>1, <1>2, PTL DEF MonitoringSpec

(* Monitoring never runs with a credential that was given up, for any      *)
(* number of failed commands and allocated credentials.                    *)
THEOREM MonitoredValidly == MonitoringSpec => []MonitoringCredentialValid
<1>1. MonitoringInv => MonitoringCredentialValid
  BY DEF MonitoringInv, MonitoringTypes, CredentialKept, MonitoringCredentialValid, UserAt
<1> QED BY <1>1, MonitoringInvariant, PTL
-----------------------------------------------------------------------------
(* The start of the server.                                                *)

Phases == {"stopped", "config", "helm", "describe", "create", "awaitTable", "portal",
           "outdated", "awaitDeleted", "missing", "awaitIndex", "serving"}
IndexStates == {"none", "creating", "active", "stale", "deleting"}

Up(i) == index[i] \in {"active", "creating"}
Standing == exists \in {"active", "creating"} /\ (table = "users" => portal)

(* What the last description says of an index, the start being at an       *)
(* index, is right but for what the start itself has deleted.              *)
AsDescribed(i) ==
  /\ described[i] # "deleting"
  /\ described[i] = "none" => index[i] = "none"
  /\ described[i] \in {"active", "creating"} => Up(i)
  /\ described[i] = "stale" =>
       /\ i <= This.replaceable
       /\ IF i < at \/ (i = at /\ phase = "awaitDeleted")
          THEN index[i] \in {"deleting", "none"} ELSE index[i] = "stale"

(* The indices up to the one the start is at are in place; of the others   *)
(* it knows which are missing.                                             *)
Completed ==
  \A i \in Positions :
    /\ i < at => Up(i)
    /\ i >= at => described[i] = "none" \/ Up(i)

StartupTypes ==
  /\ table \in DOMAIN InitializeTables
  /\ phase \in Phases
  /\ at \in Nat \ {0}
  /\ leftovers \in BOOLEAN
  /\ exists \in {"absent", "creating", "active", "deleting"}
  /\ index \in [Positions -> IndexStates]
  /\ described \in [Positions -> IndexStates]

(* What the start has established when it comes to a phase, unless it met  *)
(* the remains of an earlier one.                                          *)
Established ==
  /\ exists = "creating" => \A i \in Positions : index[i] = "creating"
  /\ \A i \in Positions : index[i] = "stale" => i <= This.replaceable
  /\ phase \notin {"stopped", "config", "helm"} => repos = Repositories
  /\ phase = "awaitTable" => exists \in {"active", "creating"} /\ \A i \in Positions : Up(i)
  /\ phase = "portal" => exists = "active" /\ \A i \in Positions : Up(i)
  /\ phase \in {"outdated", "awaitDeleted"} => Standing /\ \A i \in Positions : AsDescribed(i)
  /\ phase = "awaitDeleted" => at \in Positions /\ described[at] = "stale"
  /\ phase \in {"missing", "awaitIndex"} => Standing /\ Completed
  /\ phase = "awaitIndex" => at \in Positions /\ Up(at)
  /\ phase = "serving" => Standing /\ \A i \in Positions : Up(i)

StartupInv == StartupTypes /\ (~leftovers => Established)

(* No table has more indices to replace than it has indices.               *)
LEMMA TableFacts ==
  ASSUME table \in DOMAIN InitializeTables
  PROVE  Count \in Nat /\ This.replaceable \in Nat /\ This.replaceable <= Count
<1>1. CASE table = "users"
  <2>1. This = InitializeUserTable
    BY <1>1 DEF This, InitializeTables
  <2> QED BY <2>1 DEF Count, InitializeUserTable, Table
<1>2. CASE table = "groups"
  <2>1. This = InitializeGroupTable
    BY <1>2 DEF This, InitializeTables
  <2> QED BY <2>1 DEF Count, InitializeGroupTable, Table
<1>3. CASE table = "clusters"
  <2>1. This = InitializeClusterTable
    BY <1>3 DEF This, InitializeTables
  <2> QED BY <2>1 DEF Count, InitializeClusterTable, Table
<1>4. CASE table = "instances"
  <2>1. This = InitializeInstanceTable
    BY <1>4 DEF This, InitializeTables
  <2> QED BY <2>1 DEF Count, InitializeInstanceTable, Table
<1>5. CASE table = "secrets"
  <2>1. This = InitializeSecretTable
    BY <1>5 DEF This, InitializeTables
  <2> QED BY <2>1 DEF Count, InitializeSecretTable, Table
<1>6. CASE table = "moncreds"
  <2>1. This = InitializeMonCredTable
    BY <1>6 DEF This, InitializeTables
  <2> QED BY <2>1 DEF Count, InitializeMonCredTable, Table
<1>7. CASE table = "volumes"
  <2>1. This = InitializeVolumeTable
    BY <1>7 DEF This, InitializeTables
  <2> QED BY <2>1 DEF Count, InitializeVolumeTable, Table
<1> QED
  BY <1>1, <1>2, <1>3, <1>4, <1>5, <1>6, <1>7 DEF InitializeTables

(* The table stays the same while its start does.                          *)
LEMMA SameTable ==
  ASSUME table' = table
  PROVE  Count' = Count /\ This' = This /\ Positions' = Positions
BY DEF Positions, Count, This, InitializeTables, InitializeUserTable, InitializeGroupTable,
       InitializeClusterTable, InitializeInstanceTable, InitializeSecretTable,
       InitializeMonCredTable, InitializeVolumeTable, Table

(* What the configuration and helm do leaves the tables alone.             *)
LEMMA ConfigurationPreserves ==
  ASSUME StartupInv, parseFile \/ checkOptions \/ initializeHelm \/ crash \/ startAnew
  PROVE  StartupInv'
<1>0. UNCHANGED <<table, exists, index, portal, described, at, leftovers>>
  BY DEF parseFile, parsing, checkOptions, initializeHelm, crash, startAnew, databaseVars
<1>1. Count' = Count /\ This' = This /\ Positions' = Positions
  BY <1>0, SameTable
<1>2. \/ phase' \in {"stopped", "config", "helm"}
      \/ phase' = "describe" /\ repos' = Repositories
  BY DEF parseFile, parsing, checkOptions, initializeHelm, crash, startAnew, goto, fatal
<1>3. StartupTypes'
  BY <1>0, <1>1, <1>2 DEF StartupInv, StartupTypes, Phases
<1>4. ASSUME ~leftovers PROVE Established'
  BY <1>0, <1>1, <1>2, <1>4 DEF StartupInv, Established, Standing, Up
<1> QED BY <1>0, <1>3, <1>4 DEF StartupInv

(* The database completes what it was told to do, at any time.             *)
LEMMA DatabasePreserves ==
  ASSUME StartupInv, Database
  PROVE  StartupInv'
<1>0. UNCHANGED <<repos, table, described, phase, at, leftovers>>
  BY DEF Database
<1>1. Count' = Count /\ This' = This /\ Positions' = Positions
  BY <1>0, SameTable
<1>2. StartupTypes /\ (~leftovers => Established)
  BY DEF StartupInv
<1>3. CASE tableReady
  <2>1. StartupTypes'
    BY <1>0, <1>1, <1>2, <1>3 DEF StartupTypes, tableReady, IndexStates
  <2>2. ASSUME ~leftovers PROVE Established'
    <3>1. /\ exists' = "active" /\ portal' = portal
          /\ \A i \in Positions : index[i] = "creating" /\ index'[i] = "active"
      BY <1>2, <1>3, <2>2 DEF tableReady, Established
    <3> QED BY <1>0, <1>1, <1>2, <1>3, <2>2, <3>1
            DEF Established, Standing, Up, AsDescribed, Completed, tableReady, StartupTypes
  <2> QED BY <1>0, <2>1, <2>2 DEF StartupInv
<1>4. CASE tableGone
  <2>1. StartupTypes'
    BY <1>0, <1>1, <1>2, <1>4 DEF StartupTypes, tableGone, IndexStates
  <2>2. ASSUME ~leftovers PROVE Established'
    <3>1. /\ exists = "deleting" /\ exists' = "absent"
          /\ \A i \in Positions : index'[i] = "none"
      BY <1>4 DEF tableGone
    <3>2. phase \notin {"awaitTable", "portal", "outdated", "awaitDeleted", "missing", "awaitIndex",
                        "serving"}
      BY <1>2, <2>2, <3>1 DEF Established, Standing
    <3> QED BY <1>0, <1>1, <1>2, <2>2, <3>1, <3>2 DEF Established
  <2> QED BY <1>0, <2>1, <2>2 DEF StartupInv
<1>5. ASSUME NEW j \in Positions, indexReady(j) \/ indexGone(j)
      PROVE  StartupInv'
  <2>1. /\ exists = "active" /\ UNCHANGED <<exists, portal>>
        /\ \/ index[j] = "creating" /\ index' = [index EXCEPT ![j] = "active"]
           \/ index[j] = "deleting" /\ index' = [index EXCEPT ![j] = "none"]
    BY <1>5 DEF indexReady, indexGone
  <2>2. StartupTypes'
    BY <1>0, <1>1, <1>2, <2>1 DEF StartupTypes, IndexStates
  <2>3. \A i \in Positions : /\ Up(i) => Up(i)'
                             /\ index[i] \in {"none", "stale"} => index'[i] = index[i]
                             /\ index[i] \in {"none", "deleting"} => index'[i] \in {"none", "deleting"}
                             /\ index'[i] = "stale" => index[i] = "stale"
    BY <1>1, <1>2, <2>1 DEF StartupTypes, IndexStates, Up
  <2>4. ASSUME ~leftovers PROVE Established'
    <3>1. ASSUME NEW i \in Positions, AsDescribed(i) PROVE AsDescribed(i)'
      BY <1>0, <1>1, <2>3, <3>1 DEF AsDescribed
    <3>2. Completed => Completed'
      BY <1>0, <1>1, <2>3 DEF Completed
    <3> QED BY <1>0, <1>1, <1>2, <2>1, <2>3, <2>4, <3>1, <3>2 DEF Established, Standing
  <2> QED BY <1>0, <2>2, <2>4 DEF StartupInv
<1> QED BY <1>3, <1>4, <1>5 DEF Database
(* The table is described and, if it is not there, made.                   *)
LEMMA CreationPreserves ==
  ASSUME StartupInv, describeTable \/ createTable \/ waitTableReadiness \/ injectPortalUser
  PROVE  StartupInv'
<1>0. UNCHANGED <<repos, table>>
  BY DEF describeTable, createTable, waitTableReadiness, injectPortalUser, rest
<1>1. Count' = Count /\ This' = This /\ Positions' = Positions
  BY <1>0, SameTable
<1>2. StartupTypes /\ (~leftovers => Established)
  BY DEF StartupInv
<1>3. CASE describeTable
  <2>1. UNCHANGED <<exists, index, portal>>
    BY <1>3 DEF describeTable, databaseVars
  <2>2. CASE phase' = "stopped" /\ UNCHANGED <<described, at, leftovers>>
    BY <1>0, <1>1, <1>2, <2>1, <2>2
       DEF StartupInv, StartupTypes, Phases, Established
  <2>3. CASE /\ described' = index /\ at' = 1 /\ leftovers' = (leftovers \/ Remains)
             /\ phase' = IF exists = "absent" THEN "create" ELSE "outdated"
    <3>1. StartupTypes'
      BY <1>0, <1>1, <1>2, <2>1, <2>3 DEF StartupTypes, Phases, Remains
    <3>2. ASSUME ~leftovers' PROVE Established'
      <4>1. Established /\ ~Remains /\ phase = "describe"
        BY <1>2, <1>3, <2>3, <3>2 DEF StartupTypes, describeTable
      <4>2. ASSUME exists # "absent"
            PROVE  Standing' /\ \A i \in Positions : AsDescribed(i)'
        <5>1. exists \in {"active", "creating"} /\ (table = "users" => portal)
          BY <1>2, <4>1, <4>2 DEF Remains, StartupTypes
        <5>2. \A i \in Positions : AsDescribed(i)'
          <6> SUFFICES ASSUME NEW i \in Positions PROVE AsDescribed(i)'
            BY <1>1
          <6>1. index[i] \in IndexStates \ {"deleting"} /\ (index[i] = "stale" => i <= This.replaceable)
            BY <1>2, <4>1 DEF Remains, Established, StartupTypes
          <6>2. phase' = "outdated" /\ at' = 1 /\ described' = index /\ index' = index /\ i \in Nat /\ i >= 1
            BY <1>2, <2>1, <2>3, <4>2, TableFacts DEF StartupTypes, Positions
          <6> QED BY <1>1, <6>1, <6>2 DEF AsDescribed, Up, IndexStates
        <5> QED BY <1>0, <2>1, <5>1, <5>2 DEF Standing
      <4> QED BY <1>0, <1>1, <1>2, <2>1, <2>3, <4>1, <4>2 DEF Established
    <3> QED BY <3>1, <3>2 DEF StartupInv
  <2> QED BY <1>3, <2>2, <2>3 DEF describeTable, goto
<1>4. CASE createTable
  <2>1. UNCHANGED <<portal, described, at, leftovers>>
    BY <1>4 DEF createTable
  <2>2. CASE phase' = "stopped" /\ UNCHANGED <<exists, index>>
    BY <1>0, <1>1, <1>2, <2>1, <2>2
       DEF StartupInv, StartupTypes, Phases, Established
  <2>3. CASE /\ exists' = "creating" /\ index' = [i \in Positions |-> "creating"]
             /\ phase' = "awaitTable"
    <3>1. phase = "create"
      BY <1>4 DEF createTable
    <3> QED BY <1>0, <1>1, <1>2, <2>1, <2>3, <3>1
            DEF StartupInv, StartupTypes, Phases, IndexStates, Established, Up
  <2> QED BY <1>4, <2>2, <2>3 DEF createTable, goto
<1>5. CASE waitTableReadiness
  <2>1. UNCHANGED <<exists, index, portal, described, at, leftovers>>
    BY <1>5 DEF waitTableReadiness, databaseVars
  <2>2. phase = "awaitTable" /\ \/ phase' = "stopped"
                                \/ exists = "active" /\ table = "users" /\ phase' = "portal"
                                \/ table # "users" /\ phase' = "serving"
    BY <1>5 DEF waitTableReadiness, goto
  <2> QED BY <1>0, <1>1, <1>2, <2>1, <2>2
          DEF StartupInv, StartupTypes, Phases, Established, Standing, Up
<1>6. CASE injectPortalUser
  <2>1. UNCHANGED <<index, described, at, leftovers>>
    BY <1>6 DEF injectPortalUser
  <2>2. phase = "portal" /\ \/ phase' = "stopped" /\ exists' \in {"deleting", exists}
                            \/ phase' = "serving" /\ portal' = TRUE /\ exists' = exists
    BY <1>6 DEF injectPortalUser, goto
  <2> QED BY <1>0, <1>1, <1>2, <2>1, <2>2
          DEF StartupInv, StartupTypes, Phases, Established, Standing, Up
<1> QED BY <1>3, <1>4, <1>5, <1>6

(* Outdated indices are deleted, and the description is read again.        *)
LEMMA DeletionPreserves ==
  ASSUME StartupInv, dropIndex \/ waitUntilIndexDeleted \/ refreshDescription
  PROVE  StartupInv'
<1>0. UNCHANGED <<repos, table, exists, portal>>
  BY DEF dropIndex, waitUntilIndexDeleted, refreshDescription, rest, databaseVars
<1>1. Count' = Count /\ This' = This /\ Positions' = Positions
  BY <1>0, SameTable
<1>2. StartupTypes /\ (~leftovers => Established)
  BY DEF StartupInv
<1>3. Positions = 1..Count /\ Count \in Nat /\ This.replaceable \in Nat /\ This.replaceable <= Count
  BY <1>2, TableFacts DEF StartupTypes, Positions
<1>4. ASSUME phase' = "stopped", UNCHANGED <<index, at, leftovers>>, described' \in [Positions -> IndexStates]
      PROVE  StartupInv'
  BY <1>0, <1>1, <1>2, <1>4 DEF StartupInv, StartupTypes, Phases, Established
<1>5. CASE dropIndex
  <2>1. UNCHANGED <<described, leftovers>> /\ phase = "outdated" /\ at \in Positions
    BY <1>2, <1>3, <1>5 DEF dropIndex, StartupTypes
  <2>2. CASE phase' = "stopped" /\ UNCHANGED <<index, at>>
    BY <1>2, <1>4, <2>1, <2>2 DEF StartupTypes
  <2>3. CASE described[at] # "stale" /\ at' = at + 1 /\ phase' = "outdated" /\ index' = index
    <3>1. ASSUME NEW i \in Positions, AsDescribed(i) PROVE AsDescribed(i)'
      BY <1>1, <1>2, <1>3, <2>1, <2>3, <3>1 DEF AsDescribed, Up, StartupTypes
    <3> QED BY <1>0, <1>1, <1>2, <2>1, <2>3, <3>1
            DEF StartupInv, StartupTypes, Phases, Established, Standing
  <2>4. CASE /\ described[at] = "stale" /\ at' = at /\ phase' = "awaitDeleted"
             /\ index' = [index EXCEPT ![at] = "deleting"]
    <3>1. StartupTypes'
      BY <1>0, <1>1, <1>2, <2>1, <2>4 DEF StartupTypes, Phases, IndexStates
    <3>2. ASSUME ~leftovers PROVE Established'
      <4>1. Established /\ index[at] = "stale" /\ exists # "creating"
        BY <1>2, <2>1, <2>4, <3>2 DEF Established, AsDescribed, StartupTypes
      <4>2. ASSUME NEW i \in Positions, AsDescribed(i) PROVE AsDescribed(i)'
        <5>1. CASE i = at
          BY <1>1, <1>2, <1>3, <2>1, <2>4, <4>2, <5>1 DEF AsDescribed, StartupTypes
        <5>2. CASE i # at
          BY <1>1, <1>2, <1>3, <2>1, <2>4, <4>2, <5>2 DEF AsDescribed, Up, StartupTypes
        <5> QED BY <5>1, <5>2
      <4> QED BY <1>0, <1>1, <1>2, <2>1, <2>4, <4>1, <4>2 DEF Established, Standing, StartupTypes
    <3> QED BY <2>1, <3>1, <3>2 DEF StartupInv
  <2> QED BY <1>5, <2>2, <2>3, <2>4 DEF dropIndex, goto
<1>6. CASE waitUntilIndexDeleted
  <2>1. UNCHANGED <<index, described, leftovers>> /\ phase = "awaitDeleted"
    BY <1>6 DEF waitUntilIndexDeleted, databaseVars
  <2>2. CASE phase' = "stopped" /\ at' = at
    BY <1>2, <1>4, <2>1, <2>2 DEF StartupTypes
  <2>3. CASE phase' = "outdated" /\ at' = at + 1
    <3>1. ASSUME NEW i \in Positions, AsDescribed(i) PROVE AsDescribed(i)'
      BY <1>1, <1>2, <1>3, <2>1, <2>3, <3>1 DEF AsDescribed, Up, StartupTypes
    <3> QED BY <1>0, <1>1, <1>2, <2>1, <2>3, <3>1
            DEF StartupInv, StartupTypes, Phases, Established, Standing
  <2> QED BY <1>6, <2>2, <2>3 DEF waitUntilIndexDeleted, goto
<1>7. CASE refreshDescription
  <2>1. index' = index /\ phase = "outdated" /\ phase' = "missing" /\ at' = 1
        /\ at > This.replaceable
    BY <1>7 DEF refreshDescription, databaseVars, goto
  <2>2. CASE UNCHANGED <<described, leftovers>> /\ \A i \in Positions : described[i] # "stale"
    BY <1>0, <1>1, <1>2, <1>3, <2>1, <2>2
       DEF StartupInv, StartupTypes, Phases, IndexStates, Established, Standing, Completed, AsDescribed, Up
  <2>3. CASE described' = index /\ leftovers' = (leftovers \/ Remains)
    <3>1. StartupTypes'
      BY <1>0, <1>1, <1>2, <2>1, <2>3 DEF StartupTypes, Phases, Remains
    <3>2. ASSUME ~leftovers' PROVE Established'
      <4>1. Established /\ ~Remains
        BY <1>2, <2>3, <3>2 DEF StartupTypes
      <4>2. \A i \in Positions : index[i] \in {"none", "creating", "active"}
        <5> SUFFICES ASSUME NEW i \in Positions
                     PROVE  index[i] \in {"none", "creating", "active"}
          OBVIOUS
        <5>1. AsDescribed(i) /\ i \in Nat
          BY <1>3, <2>1, <4>1 DEF Established
        <5>2. index[i] # "deleting"
          BY <4>1 DEF Remains
        <5>3. index[i] # "stale"
          BY <1>2, <1>3, <2>1, <4>1, <5>1
             DEF AsDescribed, Up, StartupTypes, IndexStates, Established
        <5> QED BY <1>2, <5>2, <5>3 DEF StartupTypes, IndexStates
      <4> QED BY <1>0, <1>1, <1>2, <1>3, <2>1, <2>3, <4>1, <4>2
              DEF Established, Standing, Completed, Up
    <3> QED BY <3>1, <3>2 DEF StartupInv
  <2>4. CASE described' = [i \in Positions |-> "none"] /\ leftovers' = leftovers
    BY <1>0, <1>1, <1>2, <1>3, <2>1, <2>4
       DEF StartupInv, StartupTypes, Phases, IndexStates, Established, Standing, Completed, Up
  <2> QED BY <1>7, <2>2, <2>3, <2>4 DEF refreshDescription
<1> QED BY <1>5, <1>6, <1>7

(* Missing indices are added; after the last one the server is ready.      *)
LEMMA AdditionPreserves ==
  ASSUME StartupInv, addIndex \/ waitIndexReadiness \/ startServing
  PROVE  StartupInv'
<1>0. UNCHANGED <<repos, table, exists, portal, described, leftovers>>
  BY DEF addIndex, waitIndexReadiness, startServing, rest, databaseVars
<1>1. Count' = Count /\ This' = This /\ Positions' = Positions
  BY <1>0, SameTable
<1>2. StartupTypes /\ (~leftovers => Established)
  BY DEF StartupInv
<1>3. Positions = 1..Count /\ Count \in Nat
  BY <1>2, TableFacts DEF StartupTypes, Positions
<1>4. CASE addIndex
  <2>1. phase = "missing" /\ at \in Positions
    BY <1>2, <1>3, <1>4 DEF addIndex, StartupTypes
  <2>2. CASE phase' = "stopped" /\ UNCHANGED <<index, at>>
    BY <1>0, <1>1, <1>2, <2>2 DEF StartupInv, StartupTypes, Phases, Established
  <2>3. CASE described[at] # "none" /\ at' = at + 1 /\ phase' = "missing" /\ index' = index
    <3>1. Completed => Completed'
      BY <1>0, <1>1, <1>2, <1>3, <2>1, <2>3 DEF Completed, Up, StartupTypes
    <3> QED BY <1>0, <1>1, <1>2, <2>1, <2>3, <3>1
            DEF StartupInv, StartupTypes, Phases, Established, Standing
  <2>4. CASE /\ exists = "active" /\ at' = at /\ phase' = "awaitIndex"
             /\ index' = [index EXCEPT ![at] = "creating"]
    <3>1. StartupTypes'
      BY <1>0, <1>1, <1>2, <2>1, <2>4 DEF StartupTypes, Phases, IndexStates
    <3>2. ASSUME ~leftovers PROVE Established'
      <4>1. (Completed => Completed') /\ Up(at)'
        BY <1>0, <1>1, <1>2, <1>3, <2>1, <2>4 DEF Completed, Up, StartupTypes
      <4> QED BY <1>0, <1>1, <1>2, <2>1, <2>4, <3>2, <4>1 DEF Established, Standing, StartupTypes
    <3> QED BY <1>0, <3>1, <3>2 DEF StartupInv
  <2> QED BY <1>4, <2>2, <2>3, <2>4 DEF addIndex, goto
<1>5. CASE waitIndexReadiness
  <2>1. phase = "awaitIndex" /\ index' = index /\ \/ phase' = "stopped" /\ at' = at
                                                  \/ phase' = "missing" /\ at' = at + 1
    BY <1>5 DEF waitIndexReadiness, databaseVars, goto
  <2>2. CASE phase' = "stopped" /\ at' = at
    BY <1>0, <1>1, <1>2, <2>1, <2>2 DEF StartupInv, StartupTypes, Phases, Established
  <2>3. CASE phase' = "missing" /\ at' = at + 1
    <3>1. ASSUME Completed, Up(at), at \in Positions PROVE Completed'
      BY <1>0, <1>1, <1>2, <1>3, <2>1, <2>3, <3>1 DEF Completed, Up, StartupTypes
    <3> QED BY <1>0, <1>1, <1>2, <2>1, <2>3, <3>1
            DEF StartupInv, StartupTypes, Phases, Established, Standing
  <2> QED BY <2>1, <2>2, <2>3
<1>6. CASE startServing
  <2>1. phase = "missing" /\ at > Count /\ phase' = "serving" /\ UNCHANGED <<index, at>>
    BY <1>6 DEF startServing, databaseVars, goto
  <2>2. Completed => \A i \in Positions : Up(i)'
    BY <1>0, <1>1, <1>2, <1>3, <2>1 DEF Completed, Up, StartupTypes
  <2> QED BY <1>0, <1>1, <1>2, <2>1, <2>2
          DEF StartupInv, StartupTypes, Phases, Established, Standing
<1> QED BY <1>4, <1>5, <1>6

(* Every start establishes what its phase relies on, whatever the database *)
(* was left with, however many calls fail and whenever the process dies.   *)
THEOREM StartupInvariant == StartupSpec => []StartupInv
<1>1. StartupInit => StartupInv
  <2> SUFFICES ASSUME StartupInit PROVE StartupInv
    OBVIOUS
  <2>1. StartupTypes
    <3>1. index \in [Positions -> {"none", "active", "stale"}] /\ described = index
      BY DEF StartupInit
    <3>2. index \in [Positions -> IndexStates]
      BY <3>1 DEF IndexStates
    <3>3. /\ phase = "stopped" /\ at = 1 /\ leftovers = FALSE /\ exists \in {"absent", "active"}
          /\ table \in DOMAIN InitializeTables
      BY DEF StartupInit
    <3>4. phase \in Phases /\ at \in Nat \ {0} /\ exists \in {"absent", "creating", "active", "deleting"}
      BY <3>3 DEF Phases
    <3>5. leftovers \in BOOLEAN
      BY <3>3, Zenon
    <3>6. described \in [Positions -> IndexStates]
      BY <3>1, <3>2
    <3> QED BY <3>2, <3>3, <3>4, <3>5, <3>6, Zenon DEF StartupTypes
  <2>2. Established
    BY DEF StartupInit, Established
  <2> QED BY <2>1, <2>2 DEF StartupInv
<1>2. StartupInv /\ [StartupNext]_startupVars => StartupInv'
  <2> SUFFICES ASSUME StartupInv, [StartupNext]_startupVars PROVE StartupInv'
    OBVIOUS
  <2>1. CASE StartupNext
    BY <2>1, ConfigurationPreserves, DatabasePreserves, CreationPreserves, DeletionPreserves,
       AdditionPreserves DEF StartupNext, StartStep
  <2>2. CASE UNCHANGED startupVars
    <3>1. UNCHANGED <<repos, table, exists, index, portal, described, phase, at, leftovers>>
      BY <2>2 DEF startupVars, databaseVars
    <3>2. Count' = Count /\ This' = This /\ Positions' = Positions
      BY <3>1, SameTable
    <3>3. StartupTypes => StartupTypes'
      BY <3>1, <3>2 DEF StartupTypes
    <3>4. Established => Established'
      BY <3>1, <3>2 DEF Established, Standing, Completed, AsDescribed, Up
    <3> QED BY <3>1, <3>3, <3>4 DEF StartupInv
  <2> QED BY <2>1, <2>2
<1> QED BY <1>1, <1>2, PTL DEF StartupSpec

(* A server that answers requests has both chart repositories, its table   *)
(* with every index, and the portal's account.                             *)
THEOREM ReadyWhenServing == StartupSpec => []ServingReady
<1>1. StartupInv => ServingReady
  BY DEF StartupInv, Established, Standing, Up, ServingReady
<1> QED BY <1>1, StartupInvariant, PTL

-----------------------------------------------------------------------------
(* The progress display of the client.                                     *)

Hiding == {"verbose", "quiet"}
Hidden(s) == \E i \in DOMAIN s : s[i] \in Hiding
Resumes(s) == \E i \in DOMAIN s : s[i] = "verbose"
(* The tokens that were opened before the display was hidden.              *)
Outer(s) == {i \in DOMAIN s : s[i] = "token" /\ \A j \in 1..i : s[j] \notin Hiding}
Capacity(d) == IF d.showing THEN d.nesting + 1 ELSE 0

Displays == [stop : BOOLEAN, showing : BOOLEAN, actuallyShowing : BOOLEAN, nesting : Nat,
             repeat : BOOLEAN, verbose : BOOLEAN]
Scopes == Seq({"token", "ended"} \cup Hiding)

(* Scopes are closed innermost first; only the outermost token ends early; *)
(* what is hidden twice is shown again by the outer one, if at all.        *)
ScopesNested(s, d) ==
  /\ Hidden(s) => ~d.verbose
  /\ \A i, j \in DOMAIN s : i < j /\ s[i] \in Hiding => s[j] # "verbose"
  /\ \A i \in DOMAIN s : s[i] = "ended" => i = 1
  /\ d.verbose \/ Resumes(s) => Cardinality(Outer(s)) <= Capacity(d)

ProgressInv ==
  /\ display \in Displays /\ scopes \in Scopes /\ opening \in BOOLEAN
  /\ ScopesNested(scopes, display)
  /\ opening => scopes # <<>> /\ scopes[Len(scopes)] = "token"
  /\ ~display.showing => work = EmptyBag
  /\ printer = "locked" => display.showing
  /\ late \in 0..1
  /\ ~display.showing /\ printer \in {"printing", "showing"} => late = 0

(* What the changes of the display do.                                     *)
LEMMA NestingSet ==
  ASSUME NEW d \in Displays, NEW n \in Nat, NEW e, e = [d EXCEPT !.nesting = n]
  PROVE  e \in Displays /\ e.verbose = d.verbose /\ e.nesting = n /\ e.showing = d.showing
BY DEF Displays

LEMMA TurnedOn ==
  ASSUME NEW d \in Displays, NEW e, e = [d EXCEPT !.showing = TRUE, !.repeat = FALSE]
  PROVE  e \in Displays /\ e.verbose = d.verbose /\ e.nesting = d.nesting /\ e.showing = TRUE
BY DEF Displays

LEMMA TurnedOff ==
  ASSUME NEW d \in Displays, NEW e,
         e = [d EXCEPT !.showing = FALSE, !.actuallyShowing = FALSE, !.repeat = FALSE]
  PROVE  e \in Displays /\ e.verbose = d.verbose /\ e.nesting = d.nesting /\ e.showing = FALSE
BY DEF Displays

(* Only finitely many tokens are open.                                     *)
LEMMA OuterFinite ==
  ASSUME NEW s \in Scopes
  PROVE  IsFiniteSet(Outer(s)) /\ Cardinality(Outer(s)) \in Nat
<1>1. Outer(s) \subseteq 1..Len(s) /\ IsFiniteSet(1..Len(s))
  BY FS_Interval DEF Outer, Scopes
<1> QED BY <1>1, FS_Subset, FS_CardinalityType

(* A token opened while the display is not hidden is one more of those.    *)
LEMMA OuterGrows ==
  ASSUME NEW s \in Scopes, NEW x \in {"token"} \cup Hiding
  PROVE  /\ Append(s, x) \in Scopes
         /\ Hidden(s) \/ x # "token" => Outer(Append(s, x)) = Outer(s)
         /\ ~Hidden(s) /\ x = "token" =>
              Cardinality(Outer(Append(s, x))) = Cardinality(Outer(s)) + 1
<1> DEFINE t == Append(s, x)
<1>1. /\ t \in Scopes /\ Len(t) = Len(s) + 1 /\ t[Len(s) + 1] = x /\ Len(s) \in Nat
      /\ \A i \in 1..Len(s) : t[i] = s[i]
      /\ DOMAIN t = 1..(Len(s) + 1) /\ DOMAIN s = 1..Len(s)
  BY DEF Scopes, Hiding
<1>2. \A i \in 1..Len(s) : i \in Outer(t) <=> i \in Outer(s)
  BY <1>1 DEF Outer
<1>3. CASE Hidden(s) \/ x # "token"
  <2>1. Len(s) + 1 \notin Outer(t)
    BY <1>1, <1>3 DEF Outer, Hidden, Hiding
  <2>2. Outer(t) = Outer(s)
    BY <1>1, <1>2, <2>1 DEF Outer
  <2> QED BY <1>1, <1>3, <2>2
<1>4. CASE ~Hidden(s) /\ x = "token"
  <2>1. Len(s) + 1 \in Outer(t)
    BY <1>1, <1>4 DEF Outer, Hidden, Hiding
  <2>2. Outer(t) = Outer(s) \cup {Len(s) + 1} /\ Len(s) + 1 \notin Outer(s)
    BY <1>1, <1>2, <2>1 DEF Outer
  <2> QED BY <1>1, <1>4, <2>2, OuterFinite, FS_AddElement
<1> QED BY <1>3, <1>4

(* Such a token is also the one that is closed while nothing is hidden.    *)
LEMMA OuterShrinks ==
  ASSUME NEW s \in Scopes, s # <<>>, NEW t, t = SubSeq(s, 1, Len(s) - 1)
  PROVE  /\ t \in Scopes /\ DOMAIN s = 1..Len(s) /\ Len(s) \in DOMAIN s
         /\ DOMAIN t = 1..(Len(s) - 1) /\ \A i \in DOMAIN t : t[i] = s[i]
         /\ Hidden(s) \/ s[Len(s)] # "token" => Outer(t) = Outer(s)
         /\ ~Hidden(s) /\ s[Len(s)] = "token" =>
              Cardinality(Outer(t)) = Cardinality(Outer(s)) - 1
<1>1. /\ t \in Scopes /\ Len(s) \in Nat \ {0} /\ Len(t) = Len(s) - 1
      /\ \A i \in 1..(Len(s) - 1) : t[i] = s[i]
      /\ DOMAIN t = 1..(Len(s) - 1) /\ DOMAIN s = 1..Len(s)
  <2>1. Len(s) \in Nat \ {0} /\ DOMAIN s = 1..Len(s)
    BY DEF Scopes
  <2>2. \A i \in 1..(Len(s) - 1) : s[i] \in {"token", "ended"} \cup Hiding
    BY <2>1 DEF Scopes
  <2>3. t \in Scopes
    BY <2>1, <2>2 DEF Scopes
  <2>4. Len(t) = Len(s) - 1 /\ \A i \in 1..(Len(s) - 1) : t[i] = s[i]
    BY <2>1 DEF Scopes
  <2> QED BY <2>1, <2>3, <2>4 DEF Scopes
<1>2. \A i \in 1..(Len(s) - 1) : i \in Outer(t) <=> i \in Outer(s)
  BY <1>1 DEF Outer
<1>3. CASE Hidden(s) \/ s[Len(s)] # "token"
  <2>1. Len(s) \notin Outer(s)
    BY <1>1, <1>3 DEF Outer, Hidden, Hiding
  <2>2. Outer(t) = Outer(s)
    BY <1>1, <1>2, <2>1 DEF Outer
  <2> QED BY <1>1, <1>3, <2>2
<1>4. CASE ~Hidden(s) /\ s[Len(s)] = "token"
  <2>1. Len(s) \in Outer(s)
    BY <1>1, <1>4 DEF Outer, Hidden, Hiding
  <2>2. Outer(t) = Outer(s) \ {Len(s)}
    BY <1>1, <1>2, <2>1 DEF Outer
  <2> QED BY <1>1, <1>4, <2>1, <2>2, OuterFinite, FS_RemoveElement
<1> QED BY <1>1, <1>3, <1>4

(* A token that is open while the display is not hidden is shown.          *)
LEMMA TokenShown ==
  ASSUME ProgressInv, display.verbose, NEW i \in DOMAIN scopes, scopes[i] = "token"
  PROVE  display.showing
<1>1. i \in Outer(scopes) /\ Cardinality(Outer(scopes)) <= Capacity(display)
  BY DEF ProgressInv, ScopesNested, Hidden, Outer, Scopes
<1>2. Cardinality(Outer(scopes)) # 0
  BY <1>1, OuterFinite, FS_EmptySet DEF ProgressInv
<1> QED BY <1>1, <1>2, OuterFinite DEF ProgressInv, Capacity

(* ProgressToken::start counts the token in nesting_ or turns the          *)
(* display on.                                                             *)
LEMMA StartPreserves == ProgressInv /\ MaybeStartShowingProgress => ProgressInv'
<1> SUFFICES ASSUME ProgressInv, MaybeStartShowingProgress PROVE ProgressInv'
  OBVIOUS
<1>1. /\ display \in Displays /\ scopes \in Scopes /\ ScopesNested(scopes, display)
      /\ opening' = TRUE /\ late' = late /\ printer' = printer /\ printer # "locked"
      /\ late \in 0..1
  BY DEF ProgressInv, MaybeStartShowingProgress, threadVars
<1>2. /\ display' \in Displays
      /\ display'.verbose = display.verbose
      /\ ~display.verbose => display' = display /\ work' = work
      /\ display.verbose => display'.showing /\ Capacity(display') >= Capacity(display) + 1
      /\ display.showing => display'.showing
      /\ ~display'.showing => work' = work
  <2>1. CASE ~display.verbose
    BY <1>1, <2>1 DEF MaybeStartShowingProgress
  <2>2. CASE display.verbose /\ display.showing
    <3>1. display' = [display EXCEPT !.nesting = @ + 1]
      BY <2>2 DEF MaybeStartShowingProgress
    <3>2. display.nesting \in Nat
      BY <1>1 DEF Displays
    <3>3. /\ display' \in Displays /\ display'.verbose = display.verbose
          /\ display'.nesting = display.nesting + 1 /\ display'.showing = display.showing
      <4>1. PICK n \in Nat : n = display.nesting + 1
        BY <3>2
      <4>2. display' = [display EXCEPT !.nesting = n]
        BY <3>1, <4>1
      <4> QED BY <1>1, <4>1, <4>2, NestingSet
    <3>4. Capacity(display') >= Capacity(display) + 1
      BY <2>2, <3>2, <3>3 DEF Capacity
    <3> QED BY <2>2, <3>3, <3>4
  <2>3. CASE display.verbose /\ ~display.showing
    <3>1. display' = [display EXCEPT !.showing = TRUE, !.repeat = FALSE]
      BY <2>3 DEF MaybeStartShowingProgress
    <3>2. display.nesting \in Nat
      BY <1>1 DEF Displays
    <3>3. /\ display' \in Displays /\ display'.verbose = display.verbose
          /\ display'.nesting = display.nesting /\ display'.showing = TRUE
      BY <1>1, <3>1, TurnedOn
    <3>4. Capacity(display') >= Capacity(display) + 1
      BY <2>3, <3>2, <3>3 DEF Capacity
    <3> QED BY <2>3, <3>3, <3>4
  <2> QED BY <2>1, <2>2, <2>3
<1>3. /\ scopes' \in Scopes /\ scopes' # <<>> /\ scopes'[Len(scopes')] = "token"
      /\ ScopesNested(scopes', display')
  <2>1. CASE scopes' = Append(scopes, "token")
    <3>1. /\ scopes' \in Scopes /\ Len(scopes') = Len(scopes) + 1 /\ Len(scopes) \in Nat
          /\ scopes'[Len(scopes) + 1] = "token" /\ scopes' # <<>>
          /\ \A i \in 1..Len(scopes) : scopes'[i] = scopes[i]
          /\ DOMAIN scopes' = 1..(Len(scopes) + 1) /\ DOMAIN scopes = 1..Len(scopes)
      BY <1>1, <2>1 DEF Scopes, Hiding
    <3>2. /\ Hidden(scopes') <=> Hidden(scopes)
          /\ Resumes(scopes') <=> Resumes(scopes)
          /\ Resumes(scopes) => Hidden(scopes)
      BY <3>1 DEF Hidden, Resumes, Hiding
    <3>3. /\ Hidden(scopes) => Outer(scopes') = Outer(scopes)
          /\ ~Hidden(scopes) => Cardinality(Outer(scopes')) = Cardinality(Outer(scopes)) + 1
      BY <1>1, <2>1, OuterGrows
    <3>4. Cardinality(Outer(scopes)) \in Nat
      BY <1>1, OuterFinite
    <3>5. display'.verbose \/ Resumes(scopes') => Cardinality(Outer(scopes')) <= Capacity(display')
      <4>1. CASE display.verbose
        BY <1>1, <1>2, <3>2, <3>3, <3>4, <4>1 DEF ScopesNested, Capacity, Displays
      <4>2. CASE ~display.verbose
        BY <1>1, <1>2, <3>2, <3>3, <4>2 DEF ScopesNested
      <4> QED BY <4>1, <4>2
    <3>6. /\ \A i, j \in DOMAIN scopes' : i < j /\ scopes'[i] \in Hiding => scopes'[j] # "verbose"
          /\ \A i \in DOMAIN scopes' : scopes'[i] = "ended" => i = 1
      BY <1>1, <3>1 DEF ScopesNested
    <3> QED BY <1>1, <1>2, <3>1, <3>2, <3>5, <3>6 DEF ScopesNested
  <2>2. CASE scopes = <<"ended">> /\ scopes' = <<"token">>
    <3>1. /\ scopes' \in Scopes /\ Len(scopes') = 1 /\ scopes'[1] = "token" /\ DOMAIN scopes' = {1}
          /\ scopes' # <<>>
      BY <2>2 DEF Scopes
    <3>2. ~Hidden(scopes') /\ ~Resumes(scopes') /\ Outer(scopes') \subseteq {1}
      BY <3>1 DEF Hidden, Resumes, Hiding, Outer
    <3>3. Cardinality(Outer(scopes')) <= 1
      <4>1. IsFiniteSet({1}) /\ Cardinality({1}) = 1
        BY FS_Singleton
      <4> QED BY <3>2, <4>1, FS_Subset
    <3>4. display'.verbose => 1 <= Capacity(display')
      BY <1>1, <1>2 DEF Capacity, Displays
    <3>5. Cardinality(Outer(scopes')) \in Nat /\ Capacity(display') \in Nat
      BY <1>2, <3>1, OuterFinite DEF Capacity, Displays
    <3> QED BY <3>1, <3>2, <3>3, <3>4, <3>5 DEF ScopesNested
  <2> QED BY <2>1, <2>2 DEF MaybeStartShowingProgress
<1> QED BY <1>1, <1>2, <1>3 DEF ProgressInv

(* A token that ends takes its count back or turns the display off.        *)
LEMMA EndPreserves == ProgressInv /\ endToken => ProgressInv'
<1> SUFFICES ASSUME ProgressInv, endToken PROVE ProgressInv'
  OBVIOUS
<1>1. /\ display \in Displays /\ scopes \in Scopes /\ ScopesNested(scopes, display)
      /\ opening' = opening /\ opening = FALSE /\ printer' = printer /\ printer # "locked"
      /\ late \in 0..1 /\ scopes # <<>> /\ scopes[Len(scopes)] \in {"token", "ended"}
  BY DEF ProgressInv, endToken, Running
<1>2. /\ display' \in Displays /\ late' \in 0..1
      /\ display'.verbose = display.verbose
      /\ ~display.verbose => display' = display
      /\ ~display'.showing => work' = EmptyBag /\ (display.showing => late' = 0)
                                               /\ (~display.showing => late' = late)
      /\ display.verbose => Capacity(display') >= Capacity(display) - 1
      /\ Capacity(display) \in Nat /\ Capacity(display') \in Nat
  <2>1. ~display.showing => work = EmptyBag
    BY DEF ProgressInv
  <2>2. CASE display' = display /\ work' = work /\ late' = late /\ (~display.verbose \/ ~display.showing)
    BY <1>1, <2>1, <2>2 DEF Displays, Capacity
  <2>3. CASE /\ display.verbose /\ display.nesting > 0
             /\ display' = [display EXCEPT !.nesting = @ - 1] /\ work' = work /\ late' = late
    <3>1. PICK n \in Nat : n + 1 = display.nesting
      <4>1. display.nesting \in Nat \ {0}
        BY <1>1, <2>3 DEF Displays
      <4> QED BY <4>1
    <3>0. display' = [display EXCEPT !.nesting = n]
      BY <2>3, <3>1
    <3>2. /\ display' \in Displays /\ display'.verbose = display.verbose
          /\ display'.nesting = n /\ display'.showing = display.showing
      BY <1>1, <3>0, <3>1, NestingSet
    <3>3. /\ Capacity(display') >= Capacity(display) - 1
          /\ Capacity(display) \in Nat /\ Capacity(display') \in Nat
      BY <3>1, <3>2 DEF Capacity
    <3> QED BY <1>1, <2>1, <2>3, <3>2, <3>3
  <2>4. CASE /\ display.verbose /\ display.nesting <= 0 /\ display.showing
             /\ display' = [display EXCEPT !.showing = FALSE, !.actuallyShowing = FALSE, !.repeat = FALSE]
             /\ work' = EmptyBag /\ late' = 0
    <3>1. display.nesting = 0
      BY <1>1, <2>4 DEF Displays
    <3>2. /\ display' \in Displays /\ display'.verbose = display.verbose /\ display'.showing = FALSE
      BY <1>1, <2>4, TurnedOff
    <3>3. /\ Capacity(display') >= Capacity(display) - 1
          /\ Capacity(display) \in Nat /\ Capacity(display') \in Nat
      BY <3>1, <3>2 DEF Capacity
    <3>4. late' \in 0..1
      BY <2>4
    <3> QED BY <2>4, <3>2, <3>3, <3>4, Zenon
  <2>5. display.nesting \in Nat
    BY <1>1 DEF Displays
  <2> QED BY <2>2, <2>3, <2>4, <2>5 DEF endToken, StopShowingProgress
<1>3. scopes' \in Scopes /\ ScopesNested(scopes', display')
  <2>1. CASE scopes' = SubSeq(scopes, 1, Len(scopes) - 1)
    <3> DEFINE n == Len(scopes)
    <3>1. /\ scopes' \in Scopes /\ DOMAIN scopes = 1..n /\ n \in DOMAIN scopes
          /\ DOMAIN scopes' = 1..(n - 1) /\ \A i \in DOMAIN scopes' : scopes'[i] = scopes[i]
          /\ Hidden(scopes) \/ scopes[n] # "token" => Outer(scopes') = Outer(scopes)
          /\ ~Hidden(scopes) /\ scopes[n] = "token" =>
               Cardinality(Outer(scopes')) = Cardinality(Outer(scopes)) - 1
      BY <1>1, <2>1, OuterShrinks
    <3>2. /\ Hidden(scopes') <=> Hidden(scopes)
          /\ Resumes(scopes') <=> Resumes(scopes)
          /\ Resumes(scopes) => Hidden(scopes)
      <4>1. n \in Nat
        BY <1>1 DEF Scopes
      <4> QED BY <1>1, <3>1, <4>1 DEF Hidden, Resumes, Hiding
    <3>3. /\ \A i, j \in DOMAIN scopes' : i < j /\ scopes'[i] \in Hiding => scopes'[j] # "verbose"
          /\ \A i \in DOMAIN scopes' : scopes'[i] = "ended" => i = 1
      <4>1. n \in Nat
        BY <1>1 DEF Scopes
      <4>2. DOMAIN scopes' \subseteq DOMAIN scopes
        BY <3>1, <4>1
      <4> QED BY <1>1, <3>1, <4>2 DEF ScopesNested
    <3>4. Cardinality(Outer(scopes)) \in Nat
      BY <1>1, OuterFinite
    <3>5. display'.verbose \/ Resumes(scopes') => Cardinality(Outer(scopes')) <= Capacity(display')
      <4>1. CASE display.verbose /\ scopes[n] = "token"
        BY <1>1, <1>2, <3>1, <3>2, <3>4, <4>1 DEF ScopesNested
      <4>2. CASE display.verbose /\ scopes[n] = "ended"
        <5>1. DOMAIN scopes' = {}
          BY <1>1, <3>1, <4>2 DEF ScopesNested
        <5>2. Outer(scopes') = {}
          BY <5>1 DEF Outer
        <5> QED BY <1>2, <5>2, FS_EmptySet
      <4>3. CASE ~display.verbose
        BY <1>1, <1>2, <3>1, <3>2, <4>3 DEF ScopesNested
      <4> QED BY <1>1, <4>1, <4>2, <4>3
    <3> QED BY <1>1, <1>2, <3>1, <3>2, <3>3, <3>5 DEF ScopesNested
  <2>2. CASE scopes = <<"token">> /\ scopes' = <<"ended">>
    <3>1. scopes' \in Scopes /\ DOMAIN scopes' = {1} /\ scopes'[1] = "ended"
      BY <2>2 DEF Scopes
    <3>2. ~Hidden(scopes') /\ ~Resumes(scopes') /\ Outer(scopes') = {}
      BY <3>1 DEF Hidden, Resumes, Hiding, Outer
    <3> QED BY <1>2, <3>1, <3>2, FS_EmptySet DEF ScopesNested
  <2> QED BY <2>1, <2>2 DEF endToken
<1> QED BY <1>1, <1>2, <1>3 DEF ProgressInv

(* HideProgress puts verbose_ away, and puts back what it found.           *)
LEMMA HidingPreserves == ProgressInv /\ (hideProgress \/ unhideProgress) => ProgressInv'
<1> SUFFICES ASSUME ProgressInv, hideProgress \/ unhideProgress PROVE ProgressInv'
  OBVIOUS
<1>1. /\ display \in Displays /\ scopes \in Scopes /\ ScopesNested(scopes, display)
      /\ opening' = opening /\ opening = FALSE /\ printer' = printer /\ work' = work /\ late' = late
      /\ display' \in Displays /\ display'.showing = display.showing
      /\ Capacity(display') = Capacity(display)
  BY DEF ProgressInv, hideProgress, unhideProgress, Running, threadVars, Displays, Capacity
<1>2. scopes' \in Scopes /\ ScopesNested(scopes', display')
  <2>1. CASE hideProgress
    <3>1. PICK x \in Hiding : /\ x = (IF display.verbose THEN "verbose" ELSE "quiet")
                              /\ scopes' = Append(scopes, x)
      BY <2>1 DEF hideProgress, Hiding
    <3>2. ~display'.verbose
      BY <1>1, <2>1 DEF hideProgress, Displays
    <3>3. /\ scopes' \in Scopes /\ Len(scopes) \in Nat /\ scopes'[Len(scopes) + 1] = x
          /\ \A i \in 1..Len(scopes) : scopes'[i] = scopes[i]
          /\ DOMAIN scopes' = 1..(Len(scopes) + 1) /\ DOMAIN scopes = 1..Len(scopes)
      BY <1>1, <3>1 DEF Scopes, Hiding
    <3>4. Outer(scopes') = Outer(scopes)
      BY <1>1, <3>1, OuterGrows DEF Hiding
    <3>5. Resumes(scopes') => display.verbose \/ Resumes(scopes)
      BY <3>1, <3>3 DEF Resumes
    <3>6. \A i, j \in DOMAIN scopes' : i < j /\ scopes'[i] \in Hiding => scopes'[j] # "verbose"
      <4> SUFFICES ASSUME NEW i \in DOMAIN scopes', NEW j \in DOMAIN scopes',
                          i < j, scopes'[i] \in Hiding, scopes'[j] = "verbose"
                   PROVE  FALSE
        OBVIOUS
      <4>1. i \in DOMAIN scopes /\ scopes[i] \in Hiding
        BY <3>3
      <4>2. Hidden(scopes) /\ x = "quiet"
        BY <1>1, <3>1, <4>1 DEF Hidden, ScopesNested
      <4> QED BY <1>1, <3>3, <4>1, <4>2 DEF ScopesNested
    <3>7. \A i \in DOMAIN scopes' : scopes'[i] = "ended" => i = 1
      BY <1>1, <3>1, <3>3 DEF ScopesNested, Hiding
    <3> QED BY <1>1, <3>2, <3>3, <3>4, <3>5, <3>6, <3>7 DEF ScopesNested
  <2>2. CASE unhideProgress
    <3> DEFINE n == Len(scopes)
    <3>1. /\ scopes # <<>> /\ scopes[n] \in Hiding /\ scopes' = SubSeq(scopes, 1, n - 1)
          /\ display'.verbose = (scopes[n] = "verbose")
      BY <1>1, <2>2 DEF unhideProgress, Hiding, Displays
    <3>2. /\ scopes' \in Scopes /\ DOMAIN scopes = 1..n /\ n \in DOMAIN scopes
          /\ DOMAIN scopes' = 1..(n - 1) /\ \A i \in DOMAIN scopes' : scopes'[i] = scopes[i]
          /\ Outer(scopes') = Outer(scopes) /\ n \in Nat
      <4>1. scopes[n] # "token" /\ n \in Nat
        BY <1>1, <3>1 DEF Hiding, Scopes
      <4> QED BY <1>1, <3>1, <4>1, OuterShrinks
    <3>3. scopes[n] = "verbose" => ~Hidden(scopes')
      BY <1>1, <3>2 DEF Hidden, ScopesNested
    <3>4. display'.verbose \/ Resumes(scopes') => Resumes(scopes)
      <4>1. display'.verbose => Resumes(scopes)
        BY <3>1, <3>2 DEF Resumes
      <4>2. Resumes(scopes') => Resumes(scopes)
        BY <3>2 DEF Resumes
      <4> QED BY <4>1, <4>2
    <3>5. /\ \A i, j \in DOMAIN scopes' : i < j /\ scopes'[i] \in Hiding => scopes'[j] # "verbose"
          /\ \A i \in DOMAIN scopes' : scopes'[i] = "ended" => i = 1
      BY <1>1, <3>2 DEF ScopesNested
    <3> QED BY <1>1, <3>1, <3>2, <3>3, <3>4, <3>5 DEF ScopesNested
  <2> QED BY <2>1, <2>2
<1> QED BY <1>1, <1>2 DEF ProgressInv

(* Only the holder of a token queues messages, so the display is on.       *)
LEMMA MessagesPreserve == ProgressInv /\ (ShowSomeProgress \/ SetProgress) => ProgressInv'
<1> SUFFICES ASSUME ProgressInv, ShowSomeProgress \/ SetProgress PROVE ProgressInv'
  OBVIOUS
<1>1. /\ display' = display /\ scopes' = scopes /\ printer' = printer /\ late' = late
      /\ opening' \in BOOLEAN /\ (opening' => opening)
  <2>1. CASE ShowSomeProgress
    BY <2>1, Zenon DEF ShowSomeProgress, threadVars
  <2>2. CASE SetProgress
    BY <2>2, Zenon DEF ProgressInv, SetProgress, threadVars
  <2> QED BY <2>1, <2>2
<1>2. display.showing \/ work' = work
  <2>1. CASE ShowSomeProgress
    <3>1. Len(scopes) \in DOMAIN scopes /\ scopes[Len(scopes)] = "token"
      BY <2>1 DEF ShowSomeProgress, ProgressInv, Scopes
    <3> QED BY <2>1, <3>1, TokenShown DEF ShowSomeProgress
  <2>2. CASE SetProgress
    <3>1. PICK i \in DOMAIN scopes : scopes[i] = "token"
      BY <2>2 DEF SetProgress
    <3> QED BY <2>2, <3>1, TokenShown DEF SetProgress
  <2> QED BY <2>1, <2>2
<1> QED BY <1>1, <1>2 DEF ProgressInv

(* The second thread prints at most the item it has taken.                 *)
LEMMA PrinterPreserves == ProgressInv /\ printProgress => ProgressInv'
<1> SUFFICES ASSUME ProgressInv, printProgress PROVE ProgressInv'
  OBVIOUS
<1>1. UNCHANGED clientVars
  BY DEF printProgress, awaitTick, takeWork, doWork, showSign
<1>2. UNCHANGED <<scopes, opening>>
  BY <1>1 DEF clientVars
<1>3. /\ display' \in Displays /\ display'.showing = display.showing
      /\ ScopesNested(scopes, display')
  <2>1. /\ display' \in Displays /\ display'.showing = display.showing
        /\ display'.verbose = display.verbose /\ Capacity(display') = Capacity(display)
    BY DEF ProgressInv, printProgress, awaitTick, takeWork, doWork, showSign, Displays, Capacity
  <2> QED BY <2>1 DEF ProgressInv, ScopesNested
<1>4. CASE awaitTick
  BY <1>2, <1>3, <1>4 DEF awaitTick, ProgressInv
<1>5. CASE takeWork
  BY <1>2, <1>3, <1>5 DEF takeWork, ProgressInv
<1>6. CASE doWork
  BY <1>2, <1>3, <1>6 DEF doWork, Printed, ProgressInv
<1>7. CASE showSign
  BY <1>2, <1>3, <1>7 DEF showSign, Printed, ProgressInv
<1> QED BY <1>4, <1>5, <1>6, <1>7 DEF printProgress

(* While anything is queued the display is on; turning it off empties the  *)
(* queue and leaves at most the message the second thread has in hand.     *)
THEOREM ProgressInvariant == ProgressSpec => []ProgressInv
<1>1. ProgressInit => ProgressInv
  <2> SUFFICES ASSUME ProgressInit PROVE ProgressInv
    OBVIOUS
  <2>1. display \in Displays /\ ~display.showing /\ scopes = <<>> /\ scopes \in Scopes
    <3>1. scopes = <<>> /\ scopes \in Scopes
      BY DEF ProgressInit, Scopes
    <3>2. /\ display \in [stop : {FALSE}, showing : {FALSE}, actuallyShowing : BOOLEAN, nesting : 0..1,
                           repeat : BOOLEAN, verbose : BOOLEAN]
      BY Zenon DEF ProgressInit
    <3>3. 0..1 \subseteq Nat
      OBVIOUS
    <3>4. display \in Displays
      BY <3>2, <3>3 DEF Displays
    <3>5. display.showing = FALSE
      BY <3>2
    <3> QED BY <3>1, <3>4, <3>5
  <2>2. Outer(scopes) = {} /\ ~Hidden(scopes) /\ ~Resumes(scopes) /\ DOMAIN scopes = {}
    BY <2>1 DEF Outer, Hidden, Resumes
  <2>3. ScopesNested(scopes, display)
    BY <2>1, <2>2, FS_EmptySet DEF ScopesNested, Capacity
  <2>4. opening = FALSE /\ work = EmptyBag /\ printer = "waiting" /\ late = 0
    BY Zenon DEF ProgressInit
  <2>5. opening \in BOOLEAN
    BY <2>4, Zenon
  <2>6. late \in 0..1 /\ printer # "locked" /\ printer \notin {"printing", "showing"}
    BY <2>4
  <2> QED BY <2>1, <2>3, <2>4, <2>5, <2>6, Zenon DEF ProgressInv
<1>2. ProgressInv /\ [ProgressNext]_progressVars => ProgressInv'
  <2> SUFFICES ASSUME ProgressInv, [ProgressNext]_progressVars PROVE ProgressInv'
    OBVIOUS
  <2>1. CASE UNCHANGED progressVars
    BY <2>1 DEF progressVars, clientVars, threadVars, ProgressInv
  <2>2. CASE stopManager
    <3>1. /\ display' \in Displays /\ display'.showing = display.showing
          /\ display'.verbose = display.verbose /\ Capacity(display') = Capacity(display)
          /\ UNCHANGED <<scopes, opening, work, late, printer>>
      BY <2>2 DEF stopManager, ProgressInv, Displays, Capacity, clientVars, threadVars
    <3> QED BY <3>1 DEF ProgressInv, ScopesNested
  <2>3. CASE passTime
    BY <2>3 DEF passTime, ProgressInv, clientVars, threadVars
  <2> QED BY <2>1, <2>2, <2>3, StartPreserves, EndPreserves, HidingPreserves, MessagesPreserve,
             PrinterPreserves DEF ProgressNext, useProgress
<1> QED BY <1>1, <1>2, PTL DEF ProgressSpec

(* After the display was turned off at most one more message appears,      *)
(* however tokens are nested, hidden and ended.                            *)
THEOREM OneLateMessage == ProgressSpec => []AtMostOneLate
<1>1. ProgressInv => AtMostOneLate
  BY DEF ProgressInv, AtMostOneLate
<1> QED BY <1>1, ProgressInvariant, PTL

-----------------------------------------------------------------------------
(* Archives and the upgrade.                                               *)

LEMMA LeastNumber == ASSUME NEW S \in SUBSET Nat, S # {} PROVE \E m \in S : \A n \in S : m <= n
<1>1. PICK first \in S : \A n \in S : ~(<<n, first>> \in OpToRel(<, Nat))
  BY NatLessThanWellFounded, WFMin
<1>2. \A n \in S : ~(n < first)
  BY <1>1, Zenon DEF OpToRel
<1> QED BY <1>2

(* The length of a path is the sum of its names' and of the slashes        *)
(* between them; that the sum is defined and a number is shown for paths   *)
(* of any depth.                                                           *)
LEMMA PathsHaveLength == ASSUME NEW path \in Seq(Nat), path # <<>> PROVE Length(path) \in Nat
<1> DEFINE n == Len(path)
           Sums(m, f) == f = [i \in 0..m |-> IF i = 0 THEN Len(path) - 1 ELSE f[i - 1] + path[i]]
<1>1. n \in Nat \ {0} /\ \A i \in 1..n : path[i] \in Nat
  OBVIOUS
<1>2. \E f : Sums(n, f)
  <2> DEFINE Bad == {m \in 0..n : ~\E f : Sums(m, f)}
  <2> SUFFICES ASSUME Bad # {} PROVE FALSE
    BY <1>1
  <2>0. Bad \in SUBSET Nat
    BY <1>1
  <2>1. PICK m \in Bad : \A k \in Bad : m <= k
    <3> HIDE DEF Bad
    <3> QED BY <2>0, LeastNumber
  <2>2. CASE m = 0
    <3> DEFINE g == [i \in 0..0 |-> Len(path) - 1]
    <3>1. Sums(0, g)
      OBVIOUS
    <3> QED BY <2>1, <2>2, <3>1
  <2>3. CASE m # 0
    <3>0. m \in 1..n /\ m - 1 \in 0..n
      BY <1>1, <2>1, <2>3
    <3>1. m - 1 \notin Bad
      <4> HIDE DEF Bad
      <4> QED BY <2>1, <3>0
    <3>2. PICK f : Sums(m - 1, f)
      BY <3>0, <3>1
    <3> DEFINE g == [i \in 0..m |-> IF i = m THEN f[m - 1] + path[m] ELSE f[i]]
    <3>3. \A i \in 0..(m - 1) : f[i] = IF i = 0 THEN Len(path) - 1 ELSE f[i - 1] + path[i]
      BY <3>2
    <3>4. \A i \in 0..m : g[i] = IF i = 0 THEN Len(path) - 1 ELSE g[i - 1] + path[i]
      BY <2>3, <3>0, <3>3
    <3>5. Sums(m, g)
      BY <3>4
    <3> QED BY <2>1, <3>5
  <2> QED BY <2>2, <2>3
<1>3. ASSUME NEW f, Sums(n, f) PROVE f[n] \in Nat
  <2> DEFINE Bad == {m \in 0..n : f[m] \notin Nat}
  <2> SUFFICES ASSUME Bad # {} PROVE FALSE
    BY <1>1
  <2>0. Bad \in SUBSET Nat
    BY <1>1
  <2>1. PICK m \in Bad : \A k \in Bad : m <= k
    <3> HIDE DEF Bad
    <3> QED BY <2>0, LeastNumber
  <2>2. f[m] = IF m = 0 THEN Len(path) - 1 ELSE f[m - 1] + path[m]
    BY <1>3
  <2>3. m # 0 => m - 1 \in 0..n
    BY <1>1, <2>1
  <2>4. m # 0 => m - 1 \notin Bad
    <3> HIDE DEF Bad
    <3> QED BY <2>0, <2>1, <2>3
  <2> QED BY <1>1, <2>1, <2>2, <2>3, <2>4
<1>4. Length(path) = (CHOOSE f : Sums(n, f))[n]
  BY DEF Length
<1> HIDE DEF Sums
<1>5. Sums(n, CHOOSE f : Sums(n, f))
  BY <1>2
<1> QED BY <1>3, <1>4, <1>5

(* A name that is split before the end of the prefix field is read as it   *)
(* was written (header_posix_ustar, getName).                              *)
Paths == Seq(Nat) \ {<<>>}

LEMMA NamesSurvive ==
  ASSUME NEW path \in Paths, Fits(path), ~SplitLate(path)
  PROVE  NameStored(path) = path
<1>1. CASE Length(path) <= NameField
  BY <1>1 DEF NameStored
<1>2. CASE ~(Length(path) <= NameField)
  <2>1. Splits(path) # {} /\ Splits(path) \subseteq Nat
    BY <1>2 DEF Fits, Splits
  <2> DEFINE k == Min(Splits(path))
             prefix == SubSeq(path, 1, k)
  <2>2. k \in Splits(path)
    <3>1. \E m \in Splits(path) : \A n \in Splits(path) : m <= n
      BY <2>1, LeastNumber
    <3> QED BY <3>1 DEF Min
  <2>3. k \in 1..(Len(path) - 1) /\ Length(prefix) <= PrefixField + 1
    BY <2>2 DEF Splits
  <2>4. Length(path) \in Nat /\ Length(prefix) \in Nat
    <3>1. path \in Seq(Nat) /\ Len(path) \in Nat /\ k \in 1..Len(path)
      BY <2>3 DEF Paths
    <3>2. prefix \in Seq(Nat) /\ Len(prefix) = k
      <4> HIDE DEF k
      <4> QED BY <3>1
    <3>3. prefix # <<>>
      BY <3>1, <3>2
    <3> HIDE DEF prefix
    <3> QED BY <3>1, <3>2, <3>3, PathsHaveLength DEF Paths
  <2>5. Length(prefix) # PrefixField + 1
    BY <1>2, <2>4, ArchiveAssumption DEF SplitLate
  <2>6. Length(prefix) <= PrefixField
    BY <2>3, <2>4, <2>5, ArchiveAssumption
  <2>7. NameStored(path) = prefix \o SubSeq(path, k + 1, Len(path))
    BY <1>2, <2>6 DEF NameStored, PrefixStored
  <2>8. prefix \o SubSeq(path, k + 1, Len(path)) = path
    <3>1. path \in Seq(Nat) /\ Len(path) \in Nat /\ k \in 1..(Len(path) - 1)
      BY <2>3 DEF Paths
    <3> HIDE DEF k
    <3> QED BY <3>1
  <2> QED BY <2>7, <2>8
<1> QED BY <1>1, <1>2

(* The writer fills the last block of a file, and the reader skips as many *)
(* blocks as were written (appendFile, readFiles).                         *)
LEMMA Division ==
  ASSUME NEW b \in Nat \ {0}, NEW q \in Nat, NEW r \in 0..(b - 1)
  PROVE  (b * q + r) \div b = q
OBVIOUS

LEMMA BlocksSkipped ==
  ASSUME NEW size \in Nat PROVE BlocksOf(size) \in Nat /\ skipped(size) = BlocksOf(size)
<1> DEFINE b == BlockSize
           q == size \div b
           r == size % b
<1>1. b \in Nat \ {0} /\ q \in Nat /\ r \in 0..(b - 1) /\ size = b * q + r
  BY ArchiveAssumption
<1>2. CASE r = 0
  <2>1. size + b - 1 = b * q + (b - 1) /\ b - 1 \in 0..(b - 1)
    <3> HIDE DEF b, q, r
    <3> QED BY <1>1, <1>2
  <2>2. (b * q + (b - 1)) \div b = q
    BY <1>1, <2>1, Division
  <2> QED BY <1>1, <1>2, <2>1, <2>2 DEF BlocksOf, skipped
<1>3. CASE r # 0
  <2>1. size + b - 1 = b * (q + 1) + (r - 1) /\ r - 1 \in 0..(b - 1) /\ q + 1 \in Nat
    BY <1>1, <1>3
  <2>2. (b * (q + 1) + (r - 1)) \div b = q + 1
    BY <1>1, <2>1, Division
  <2> QED BY <1>1, <1>3, <2>1, <2>2 DEF BlocksOf, skipped
<1> QED BY <1>2, <1>3

(* A chart: below its directory there are directories, files and links,    *)
(* no two under one path, each in directories of the chart.                *)
Folder(path) == Entry(path, "directory", 0)
Entries == [path : Paths, kind : {"directory", "file", "link"}, size : Nat]
IsChart(t) ==
  /\ t \subseteq Entries
  /\ \A e \in t : e.kind # "file" => e.size = 0
  /\ \A e \in t : \A i \in 1..(Len(e.path) - 1) : Folder(SubSeq(e.path, 1, i)) \in t
  /\ \A e, f \in t : e.path = f.path => e = f

LEMMA FirstOf == ASSUME NEW i, NEW s \in Seq(Nat), Len(s) >= 1, s[1] = i PROVE SubSeq(s, 1, 1) = <<i>>
<1> DEFINE t == <<i>>
           u == SubSeq(s, 1, 1)
<1>1. Len(s) \in Nat /\ \A k \in 1..1 : s[k] \in Nat
  OBVIOUS
<1>2. u \in Seq(Nat) /\ Len(u) = 1 /\ u[1] = s[1]
  BY <1>1, SubSeqProperties
<1>3. t \in Seq(Nat)
  BY <1>1
<1>4. Len(t) = 1 /\ t[1] = i
  OBVIOUS
<1> HIDE DEF t, u
<1>5. \A k \in 1..Len(u) : u[k] = t[k]
  BY <1>2, <1>4
<1>6. u = t
  BY <1>2, <1>3, <1>4, <1>5, SeqEqual
<1> QED BY <1>6 DEF t, u

LEMMA FirstTwoOf ==
  ASSUME NEW i, NEW j, NEW s \in Seq(Nat), Len(s) >= 2, s[1] = i, s[2] = j PROVE SubSeq(s, 1, 2) = <<i, j>>
<1> DEFINE t == <<i, j>>
           u == SubSeq(s, 1, 2)
<1>1. Len(s) \in Nat /\ \A k \in 1..2 : s[k] \in Nat
  OBVIOUS
<1>2. u \in Seq(Nat) /\ Len(u) = 2 /\ \A k \in 1..2 : u[k] = s[k]
  BY <1>1, SubSeqProperties
<1>3. t \in Seq(Nat)
  BY <1>1
<1>4. Len(t) = 2
  OBVIOUS
<1>5. t[1] = i /\ t[2] = j
  OBVIOUS
<1> HIDE DEF t, u
<1>6. \A k \in 1..Len(u) : u[k] = t[k]
  BY <1>2, <1>5
<1>7. u = t
  BY <1>2, <1>3, <1>4, <1>6, SeqEqual
<1> QED BY <1>7 DEF t, u

LEMMA Beginnings ==
  ASSUME NEW i \in Nat, NEW j \in Nat, NEW k \in Nat
  PROVE  /\ SubSeq(<<i>>, 1, 1) = <<i>> /\ SubSeq(<<i, j>>, 1, 1) = <<i>>
         /\ SubSeq(<<i, j, k>>, 1, 1) = <<i>> /\ SubSeq(<<i, j, k>>, 1, 2) = <<i, j>>
<1> DEFINE one == <<i>>
           two == <<i, j>>
           three == <<i, j, k>>
<1>1. one \in Seq(Nat) /\ Len(one) = 1 /\ one[1] = i
  OBVIOUS
<1>2. two \in Seq(Nat) /\ Len(two) = 2 /\ two[1] = i
  OBVIOUS
<1>3. three \in Seq(Nat) /\ Len(three) = 3
  OBVIOUS
<1>4. three[1] = i /\ three[2] = j
  OBVIOUS
<1> HIDE DEF one, two, three
<1>5. SubSeq(one, 1, 1) = <<i>>
  BY <1>1, FirstOf
<1>6. SubSeq(two, 1, 1) = <<i>>
  BY <1>2, FirstOf
<1>7. SubSeq(three, 1, 1) = <<i>>
  BY <1>3, <1>4, FirstOf
<1>8. SubSeq(three, 1, 2) = <<i, j>>
  BY <1>3, <1>4, FirstTwoOf
<1> QED BY <1>5, <1>6, <1>7, <1>8 DEF one, two, three

LEMMA ChartsAreCharts ==
  ASSUME NEW root \in Nat, NEW dir \in Nat, NEW file \in Nat \X Nat, NEW inner \in Nat \X Nat,
         NEW kind \in {"file", "link"}, file[1] # dir
  PROVE  /\ IsChart(Chart(root, file, dir, inner, kind))
         /\ Folder(<<root>>) \in Chart(root, file, dir, inner, kind)
         /\ \A e \in Chart(root, file, dir, inner, kind) : SubSeq(e.path, 1, 1) = <<root>>
<1> DEFINE size == IF kind = "link" THEN 0 ELSE inner[2]
           t == {Entry(<<root>>, "directory", 0), Entry(<<root, file[1]>>, "file", file[2]),
                 Entry(<<root, dir>>, "directory", 0), Entry(<<root, dir, inner[1]>>, kind, size)}
<1>1. Chart(root, file, dir, inner, kind) = t
  BY DEF Chart
<1>2. file[1] \in Nat /\ file[2] \in Nat /\ inner[1] \in Nat /\ size \in Nat
  OBVIOUS
<1>3. /\ <<root>> \in Paths /\ <<root, file[1]>> \in Paths /\ <<root, dir>> \in Paths
      /\ <<root, dir, inner[1]>> \in Paths
  BY <1>2 DEF Paths
<1>4. t \subseteq Entries /\ \A e \in t : e.kind # "file" => e.size = 0
  BY <1>2, <1>3 DEF Entries, Entry
<1>5. ASSUME NEW e \in t, NEW i \in 1..(Len(e.path) - 1) PROVE Folder(SubSeq(e.path, 1, i)) \in t
  <2>1. e.path \in {<<root>>, <<root, file[1]>>, <<root, dir>>, <<root, dir, inner[1]>>}
    BY DEF Entry
  <2>2. SubSeq(e.path, 1, i) = <<root>> \/ SubSeq(e.path, 1, i) = <<root, dir>>
    <3>1. CASE e.path = <<root>>
      BY <1>5, <3>1
    <3>2. CASE e.path \in {<<root, file[1]>>, <<root, dir>>}
      <4>1. Len(e.path) = 2
        BY <3>2
      <4>2. i = 1
        BY <4>1
      <4> QED BY <1>2, <3>2, <4>2, Beginnings
    <3>3. CASE e.path = <<root, dir, inner[1]>>
      <4>1. i = 1 \/ i = 2
        BY <1>5, <3>3
      <4> QED BY <1>2, <3>3, <4>1, Beginnings
    <3> QED BY <2>1, <3>1, <3>2, <3>3
  <2> QED BY <2>2 DEF Folder
<1>6. \A e, f \in t : e.path = f.path => e = f
  BY <1>2 DEF Entry
<1>7. ASSUME NEW e \in t PROVE SubSeq(e.path, 1, 1) = <<root>>
  <2>1. e.path \in {<<root>>, <<root, file[1]>>, <<root, dir>>, <<root, dir, inner[1]>>}
    BY DEF Entry
  <2>2. CASE e.path = <<root>>
    BY <2>2, Beginnings
  <2>3. CASE e.path = <<root, file[1]>>
    BY <1>2, <2>3, Beginnings
  <2>4. CASE e.path = <<root, dir>>
    BY <2>4, Beginnings
  <2>5. CASE e.path = <<root, dir, inner[1]>>
    BY <1>2, <2>5, Beginnings
  <2> QED BY <2>1, <2>2, <2>3, <2>4, <2>5
<1> QED BY <1>1, <1>4, <1>5, <1>6, <1>7 DEF IsChart, Folder

(* An archive of a chart: each header is followed by as many blocks of     *)
(* data as its file needs, and data follows headers only.                  *)
Blocks == tree \cup {Data, Empty}
Framed(a) ==
  /\ a \in Seq(Blocks) /\ (Len(a) > 0 => a[1] # Data)
  /\ \A p \in 1..Len(a) : a[p] \in tree =>
       LET next == p + 1 + BlocksOf(a[p].size)
       IN  /\ next <= Len(a) + 1 /\ (next <= Len(a) => a[next] # Data)
           /\ \A j \in (p + 1)..(next - 1) : a[j] = Data
Holds(a, e) == \E p \in 1..Len(a) : a[p] = e

LEMMA BlocksDiffer == ASSUME IsChart(tree) PROVE Data \notin tree /\ Empty \notin tree /\ Data # Empty
BY DEF IsChart, Entries, Data, Empty, Entry

LEMMA SizesOf ==
  ASSUME IsChart(tree), NEW e \in tree
  PROVE  /\ e.size \in Nat /\ e.path \in Paths /\ BlocksOf(e.size) \in Nat
         /\ skipped(e.size) = BlocksOf(e.size)
<1>1. e \in Entries
  BY DEF IsChart
<1>2. e.size \in Nat /\ e.path \in Paths
  BY <1>1 DEF Entries
<1> QED BY <1>2, BlocksSkipped

LEMMA AppendedFramed ==
  ASSUME IsChart(tree), NEW a, Framed(a), NEW e \in tree, NameStored(e.path) = e.path
  PROVE  /\ Framed(a \o Appended(e)) /\ Holds(a \o Appended(e), e)
         /\ \A f : Holds(a, f) => Holds(a \o Appended(e), f)
         /\ Holds(a \o Appended(e), Empty) => Holds(a, Empty)
<1> DEFINE n == BlocksOf(e.size)
           b == a \o Appended(e)
<1>1. n \in Nat /\ Header(e) = e
  BY SizesOf DEF Header, IsChart, Entries
<1>2. /\ Appended(e) = <<e>> \o [i \in 1..n |-> Data] /\ Appended(e) \in Seq(Blocks)
      /\ Len(Appended(e)) = 1 + n /\ Appended(e)[1] = e
      /\ \A i \in 2..(1 + n) : Appended(e)[i] = Data
  <2>1. Appended(e) = <<e>> \o [i \in 1..n |-> Data]
    BY <1>1 DEF Appended
  <2>2. <<e>> \in Seq(Blocks) /\ [i \in 1..n |-> Data] \in Seq(Blocks) /\ Len([i \in 1..n |-> Data]) = n
    BY <1>1 DEF Blocks
  <2> HIDE DEF n
  <2> QED BY <1>1, <2>1, <2>2
<1>3. /\ a \in Seq(Blocks) /\ b \in Seq(Blocks) /\ Len(a) \in Nat /\ Len(b) = Len(a) + 1 + n
      /\ \A p \in 1..Len(a) : b[p] = a[p]
      /\ b[Len(a) + 1] = e
      /\ \A p \in (Len(a) + 2)..(Len(a) + 1 + n) : b[p] = Data
  <2>1. a \in Seq(Blocks)
    BY DEF Framed
  <2> HIDE DEF n
  <2>2. /\ b \in Seq(Blocks) /\ Len(b) = Len(a) + Len(Appended(e))
        /\ \A p \in 1..(Len(a) + Len(Appended(e))) : b[p] = IF p <= Len(a) THEN a[p] ELSE Appended(e)[p - Len(a)]
    BY <1>2, <2>1, ConcatProperties
  <2> HIDE DEF b
  <2>3. Len(a) \in Nat /\ n \in Nat /\ Len(b) = Len(a) + 1 + n
    <3>1. Len(a) \in Nat
      BY <2>1
    <3>2. Len(Appended(e)) = 1 + n
      BY <1>2
    <3>3. Len(b) = Len(a) + (1 + n)
      BY <2>2, <3>2
    <3> QED BY <1>1, <3>1, <3>3
  <2>4. \A p \in 1..Len(a) : b[p] = a[p]
    BY <2>2, <2>3
  <2>5. ASSUME NEW p \in (Len(a) + 1)..(Len(a) + 1 + n) PROVE b[p] = Appended(e)[p - Len(a)]
    <3>1. p \in 1..(Len(a) + Len(Appended(e))) /\ ~(p <= Len(a))
      BY <2>2, <2>3
    <3> QED BY <2>2, <3>1
  <2>6. b[Len(a) + 1] = e
    <3>1. Len(a) + 1 \in (Len(a) + 1)..(Len(a) + 1 + n) /\ (Len(a) + 1) - Len(a) = 1
      BY <2>3
    <3> QED BY <1>2, <2>5, <3>1
  <2>7. ASSUME NEW p \in (Len(a) + 2)..(Len(a) + 1 + n) PROVE b[p] = Data
    <3>1. p \in (Len(a) + 1)..(Len(a) + 1 + n) /\ p - Len(a) \in 2..(1 + n)
      BY <2>3
    <3> QED BY <1>2, <2>5, <3>1
  <2> QED BY <2>1, <2>2, <2>3, <2>4, <2>6, <2>7
<1> HIDE DEF b
<1>4. Data \notin tree /\ Empty \notin tree /\ Data # Empty
  BY BlocksDiffer
<1>5. ASSUME NEW p \in 1..Len(b), b[p] \in tree
      PROVE  LET next == p + 1 + BlocksOf(b[p].size)
             IN  /\ next <= Len(b) + 1 /\ (next <= Len(b) => b[next] # Data)
                 /\ \A j \in (p + 1)..(next - 1) : b[j] = Data
  <2>1. CASE p <= Len(a)
    <3> DEFINE next == p + 1 + BlocksOf(a[p].size)
    <3>1. p \in 1..Len(a) /\ b[p] = a[p] /\ BlocksOf(a[p].size) \in Nat
      BY <1>3, <1>5, <2>1, SizesOf
    <3>2. /\ next <= Len(a) + 1 /\ (next <= Len(a) => a[next] # Data)
          /\ \A j \in (p + 1)..(next - 1) : a[j] = Data
      BY <1>5, <3>1 DEF Framed
    <3>3. next \in Nat /\ next > p
      BY <3>1
    <3> HIDE DEF n, next
    <3>4. next <= Len(b) => b[next] # Data
      BY <1>1, <1>3, <1>4, <3>2, <3>3
    <3>5. ASSUME NEW j \in (p + 1)..(next - 1) PROVE b[j] = Data
      <4>1. j \in 1..Len(a)
        BY <1>3, <2>1, <3>1, <3>2, <3>3, <3>5
      <4> QED BY <1>3, <3>2, <3>5, <4>1
    <3> QED BY <1>1, <1>3, <3>1, <3>2, <3>3, <3>4, <3>5 DEF next
  <2>2. CASE p = Len(a) + 1
    <3> HIDE DEF n
    <3>1. p + 1 + BlocksOf(b[p].size) = Len(b) + 1
      BY <1>1, <1>3, <2>2 DEF n
    <3> QED BY <1>1, <1>3, <2>2, <3>1
  <2>3. CASE p > Len(a) + 1
    <3> HIDE DEF n
    <3> QED BY <1>1, <1>3, <1>4, <1>5, <2>3
  <2> QED BY <1>3, <2>1, <2>2, <2>3
<1>6. Len(b) > 0 => b[1] # Data
  <2> HIDE DEF n
  <2>1. CASE Len(a) = 0
    BY <1>3, <1>4, <2>1
  <2>2. CASE Len(a) > 0
    BY <1>3, <2>2 DEF Framed
  <2> QED BY <1>3, <2>1, <2>2
<1>7. Framed(b)
  BY <1>3, <1>5, <1>6 DEF Framed
<1>8. Holds(b, e) /\ \A f : Holds(a, f) => Holds(b, f)
  <2> HIDE DEF n
  <2> QED BY <1>1, <1>3 DEF Holds
<1>9. Holds(b, Empty) => Holds(a, Empty)
  <2> HIDE DEF n
  <2> QED BY <1>1, <1>3, <1>4 DEF Holds
<1> QED BY <1>7, <1>8, <1>9 DEF b

LEMMA RestFramed ==
  ASSUME IsChart(tree), NEW a, Framed(a), Len(a) > 0, a[1] \in tree
  PROVE  LET n == 1 + skipped(a[1].size)
             b == SubSeq(a, 2 + skipped(a[1].size), Len(a))
         IN  /\ Framed(b) /\ n \in Nat /\ n <= Len(a) /\ Len(b) = Len(a) - n
             /\ \A p \in 1..Len(b) : b[p] = a[p + n]
             /\ \A f \in tree : Holds(a, f) => f = a[1] \/ Holds(b, f)
<1> DEFINE n == 1 + skipped(a[1].size)
           b == SubSeq(a, 2 + skipped(a[1].size), Len(a))
<1>1. /\ skipped(a[1].size) = BlocksOf(a[1].size) /\ BlocksOf(a[1].size) \in Nat
      /\ a \in Seq(Blocks) /\ Len(a) \in Nat /\ 1 \in 1..Len(a)
  BY SizesOf DEF Framed
<1>2. n \in Nat \ {0} /\ n = 1 + BlocksOf(a[1].size)
  BY <1>1
<1>3. /\ n <= Len(a) /\ (n < Len(a) => a[n + 1] # Data)
      /\ \A j \in 2..n : a[j] = Data
  <2>1. LET next == 1 + 1 + BlocksOf(a[1].size)
        IN  /\ next <= Len(a) + 1 /\ (next <= Len(a) => a[next] # Data)
            /\ \A j \in (1 + 1)..(next - 1) : a[j] = Data
    BY <1>1 DEF Framed
  <2> QED BY <1>1, <1>2, <2>1
<1>4. b = SubSeq(a, n + 1, Len(a))
  <2>1. 2 + skipped(a[1].size) = n + 1
    BY <1>1
  <2> HIDE DEF n
  <2> QED BY <2>1
<1> HIDE DEF n, b
<1>5. b \in Seq(Blocks) /\ Len(b) = Len(a) - n /\ \A p \in 1..Len(b) : b[p] = a[p + n]
  <2>1. n + 1 \in Int /\ Len(a) \in Int /\ \A i \in (n + 1)..Len(a) : a[i] \in Blocks
    BY <1>1, <1>2
  <2>2. /\ b \in Seq(Blocks) /\ Len(b) = IF n + 1 <= Len(a) THEN Len(a) - (n + 1) + 1 ELSE 0
        /\ \A p \in 1..(Len(a) - (n + 1) + 1) : b[p] = a[n + 1 + p - 1]
    BY <1>4, <2>1, SubSeqProperties
  <2>3. n \in Nat /\ Len(a) \in Nat /\ n <= Len(a)
    BY <1>1, <1>2, <1>3
  <2>4. Len(b) = Len(a) - n
    BY <2>2, <2>3
  <2>5. ASSUME NEW p \in 1..Len(b) PROVE b[p] = a[p + n]
    <3>1. p \in 1..(Len(a) - (n + 1) + 1) /\ n + 1 + p - 1 = p + n
      BY <2>3, <2>4
    <3> QED BY <2>2, <3>1
  <2> QED BY <2>2, <2>4, <2>5
<1>6. Data \notin tree
  BY BlocksDiffer
<1>7. ASSUME NEW p \in 1..Len(b), b[p] \in tree
      PROVE  LET next == p + 1 + BlocksOf(b[p].size)
             IN  /\ next <= Len(b) + 1 /\ (next <= Len(b) => b[next] # Data)
                 /\ \A j \in (p + 1)..(next - 1) : b[j] = Data
  <2> DEFINE m == BlocksOf(b[p].size)
  <2>1. p + n \in 1..Len(a) /\ b[p] = a[p + n] /\ m \in Nat
    <3>1. m \in Nat
      BY <1>7, SizesOf
    <3> HIDE DEF m
    <3> QED BY <1>1, <1>2, <1>5, <1>7, <3>1
  <2>2. LET next == p + n + 1 + BlocksOf(a[p + n].size)
        IN  /\ next <= Len(a) + 1 /\ (next <= Len(a) => a[next] # Data)
            /\ \A j \in (p + n + 1)..(next - 1) : a[j] = Data
    BY <1>7, <2>1 DEF Framed
  <2>3. /\ p + n + 1 + m <= Len(a) + 1 /\ (p + n + 1 + m <= Len(a) => a[p + n + 1 + m] # Data)
        /\ \A j \in (p + n + 1)..(p + n + 1 + m - 1) : a[j] = Data
    BY <2>1, <2>2
  <2> HIDE DEF m
  <2>0. p \in Nat \ {0} /\ p <= Len(b) /\ Len(b) \in Nat /\ m \in Nat
    BY <1>5, <1>7, <2>1
  <2>8. n \in Nat /\ Len(a) \in Nat /\ Len(a) = Len(b) + n
    BY <1>1, <1>2, <1>5
  <2>9. p + n + 1 + m <= Len(a) + 1
    BY <2>3
  <2>4. p + 1 + m <= Len(b) + 1
    BY <2>0, <2>8, <2>9
  <2>5. p + 1 + m <= Len(b) => b[p + 1 + m] # Data
    <3> SUFFICES ASSUME p + 1 + m <= Len(b) PROVE b[p + 1 + m] # Data
      OBVIOUS
    <3>1. p + 1 + m \in 1..Len(b) /\ p + 1 + m + n = p + n + 1 + m
      BY <2>0, <2>8
    <3>3. p + n + 1 + m <= Len(a)
      BY <2>0, <2>8
    <3>4. b[p + 1 + m] = a[p + 1 + m + n]
      BY <1>5, <3>1
    <3>2. b[p + 1 + m] = a[p + n + 1 + m] /\ p + n + 1 + m <= Len(a)
      BY <3>1, <3>3, <3>4
    <3> QED BY <2>3, <3>2
  <2>6. ASSUME NEW j \in (p + 1)..(p + 1 + m - 1) PROVE b[j] = Data
    <3>1. j \in 1..Len(b) /\ j + n \in (p + n + 1)..(p + n + 1 + m - 1)
      BY <2>0, <2>4, <2>6, <2>8
    <3> QED BY <1>5, <2>3, <3>1
  <2>7. \A j \in (p + 1)..(p + 1 + m - 1) : b[j] = Data
    BY <2>6
  <2> DEFINE next == p + 1 + BlocksOf(b[p].size)
  <2>10. next = p + 1 + m
    BY DEF m
  <2> HIDE DEF next
  <2>11. next <= Len(b) + 1
    BY <2>4, <2>10
  <2>12. next <= Len(b) => b[next] # Data
    BY <2>5, <2>10
  <2>13. \A j \in (p + 1)..(next - 1) : b[j] = Data
    BY <2>0, <2>7, <2>10
  <2> QED BY <2>11, <2>12, <2>13 DEF next
<1>8. Len(b) > 0 => b[1] # Data
  BY <1>1, <1>2, <1>3, <1>5
<1>9. Framed(b)
  BY <1>5, <1>7, <1>8 DEF Framed
<1>10. ASSUME NEW f \in tree, Holds(a, f) PROVE f = a[1] \/ Holds(b, f)
  <2>1. PICK p \in 1..Len(a) : a[p] = f
    BY <1>10 DEF Holds
  <2>2. CASE p = 1
    BY <2>1, <2>2
  <2>3. CASE p \in 2..n
    BY <1>3, <1>6, <2>1, <2>3
  <2>4. CASE p > n
    <3>0. n \in Nat /\ Len(a) \in Nat /\ Len(b) = Len(a) - n
      BY <1>1, <1>2, <1>5
    <3>1. p - n \in 1..Len(b) /\ (p - n) + n = p
      BY <2>4, <3>0
    <3> QED BY <1>5, <2>1, <3>1 DEF Holds
  <2> QED BY <1>1, <1>2, <2>2, <2>3, <2>4
<1> QED BY <1>2, <1>3, <1>5, <1>9, <1>10 DEF n, b
(* What is still to come while a chart is archived: an entry is written,   *)
(* or it lies in, or is, a directory that is queued or an entry that is    *)
(* listed.                                                                 *)
Awaited(path) == (\E q \in 1..Len(todo) : todo[q] = path) \/ (\E f \in listed : f.path = path)
Pending(e) == \E i \in 1..Len(e.path) : Awaited(SubSeq(e.path, 1, i))
Exact == \A e \in tree : ~SplitLate(e.path)

ChartKept ==
  /\ Framed(archive) /\ unpacked \subseteq tree
  /\ \A e \in tree : e \in unpacked \/ Holds(archive, e) \/ (stage = "archiving" /\ Pending(e))
  /\ \A p \in 1..Len(archive) : archive[p] = Empty => stage # "archiving" /\ p >= Len(archive) - 1
  /\ stage = "archiving" =>
       listed \subseteq tree /\ todo \in Seq(Paths) /\ \A q \in 1..Len(todo) : Folder(todo[q]) \in tree

ChartInv ==
  /\ IsChart(tree)
  /\ cargo = "chart" =>
       /\ stage \in {"archiving", "archived", "inflating", "reading", "extracted", "refused", "done", "failed"}
       /\ Exact /\ stage \in {"archiving", "archived", "inflating", "reading"} => ChartKept
       /\ Exact /\ stage = "extracted" => unpacked = tree

LEMMA WholePath == ASSUME NEW path \in Paths PROVE SubSeq(path, 1, Len(path)) = path /\ Len(path) \in Nat \ {0}
BY DEF Paths

(* A beginning of the path of an entry is the path of a directory, or it   *)
(* is the path of the entry itself.                                        *)
LEMMA OnTheWay ==
  ASSUME IsChart(tree), NEW e \in tree, NEW i \in 1..Len(e.path)
  PROVE  IF i = Len(e.path) THEN SubSeq(e.path, 1, i) = e.path
         ELSE Folder(SubSeq(e.path, 1, i)) \in tree
<1>1. e.path \in Paths
  BY SizesOf
<1>2. i # Len(e.path) => i \in 1..(Len(e.path) - 1)
  BY <1>1, WholePath
<1> QED BY <1>1, <1>2, WholePath DEF IsChart

LEMMA FoldersHave ==
  ASSUME NEW path PROVE Folder(path).path = path /\ Folder(path).kind = "directory" /\ Folder(path).size = 0
BY DEF Folder, Entry

LEMMA DirectoriesAre ==
  ASSUME IsChart(tree), NEW e \in tree, e.kind = "directory" PROVE e = Folder(e.path)
<1>1. e \in Entries /\ e.size = 0
  BY DEF IsChart
<1> QED BY <1>1 DEF Entries, Folder, Entry

(* A directory is archived and listed: what was awaited within it is now   *)
(* awaited one level further down, or written.                             *)
LEMMA OneLevelDown ==
  ASSUME IsChart(tree), NEW e \in tree, NEW i \in 1..(Len(e.path) - 1)
  PROVE  \E g \in Children(SubSeq(e.path, 1, i)) : g.path = SubSeq(e.path, 1, i + 1)
<1> DEFINE dir == SubSeq(e.path, 1, i)
           next == SubSeq(e.path, 1, i + 1)
<1>1. e.path \in Seq(Nat) /\ Len(e.path) \in Nat /\ i \in Nat /\ i >= 1 /\ i + 1 <= Len(e.path)
  BY SizesOf DEF Paths
<1>2. dir \in Seq(Nat) /\ Len(dir) = i /\ \A k \in 1..i : dir[k] = e.path[k]
  <2>1. \A k \in 1..i : e.path[k] \in Nat
    BY <1>1
  <2>2. /\ dir \in Seq(Nat) /\ Len(dir) = IF 1 <= i THEN i - 1 + 1 ELSE 0
        /\ \A k \in 1..(i - 1 + 1) : dir[k] = e.path[1 + k - 1]
    BY <1>1, <2>1, SubSeqProperties
  <2> HIDE DEF dir
  <2> QED BY <1>1, <2>2
<1>3. next \in Seq(Nat) /\ Len(next) = i + 1 /\ \A k \in 1..(i + 1) : next[k] = e.path[k]
  <2>1. \A k \in 1..(i + 1) : e.path[k] \in Nat
    BY <1>1
  <2>2. i + 1 \in Int
    BY <1>1
  <2>3. /\ next \in Seq(Nat) /\ Len(next) = IF 1 <= i + 1 THEN (i + 1) - 1 + 1 ELSE 0
        /\ \A k \in 1..((i + 1) - 1 + 1) : next[k] = e.path[1 + k - 1]
    BY <2>1, <2>2, SubSeqProperties
  <2> HIDE DEF next
  <2> QED BY <1>1, <2>3
<1> HIDE DEF dir, next
<1>4. Parent(next) = dir
  <2> DEFINE up == SubSeq(next, 1, i)
  <2>1. \A k \in 1..i : next[k] \in Nat
    BY <1>1, <1>3
  <2>2. /\ up \in Seq(Nat) /\ Len(up) = IF 1 <= i THEN i - 1 + 1 ELSE 0
        /\ \A k \in 1..(i - 1 + 1) : up[k] = next[1 + k - 1]
    BY <1>1, <2>1, SubSeqProperties
  <2>3. Parent(next) = up
    BY <1>1, <1>3 DEF Parent
  <2> HIDE DEF up
  <2>4. Len(up) = i /\ \A k \in 1..i : up[k] = next[k]
    BY <1>1, <2>2
  <2>5. \A k \in 1..i : up[k] = dir[k]
    <3> SUFFICES ASSUME NEW k \in 1..i PROVE up[k] = dir[k]
      OBVIOUS
    <3>1. k \in 1..(i + 1)
      BY <1>1
    <3> QED BY <1>2, <1>3, <2>4, <3>1
  <2>6. up = dir
    BY <1>2, <2>2, <2>4, <2>5, SeqEqual
  <2> QED BY <2>3, <2>6
<1>5. next # dir
  BY <1>1, <1>2, <1>3
<1>6. \E g \in tree : g.path = next
  <2>1. i + 1 \in 1..Len(e.path)
    BY <1>1
  <2>2. CASE i + 1 = Len(e.path)
    BY <2>1, <2>2, OnTheWay DEF next
  <2>3. CASE i + 1 # Len(e.path)
    BY <2>1, <2>3, OnTheWay, FoldersHave DEF next
  <2> QED BY <2>2, <2>3
<1> QED BY <1>4, <1>5, <1>6 DEF Children, dir, next

(* A step of the archiving writes an entry, or gives up.                   *)
LEMMA Written ==
  ASSUME ChartInv, ChartKept, Exact, NEW e \in tree, Write(e), stage' # "failed"
  PROVE  /\ archive' = archive \o Appended(e) /\ stage' = stage
         /\ Framed(archive \o Appended(e)) /\ Holds(archive', e)
         /\ \A f : Holds(archive, f) => Holds(archive', f)
         /\ Holds(archive', Empty) => Holds(archive, Empty)
<1>1. Fits(e.path) /\ archive' = archive \o Appended(e) /\ stage' = stage
  BY DEF Write, ToStage
<1>2. IsChart(tree) /\ Framed(archive) /\ e.path \in Paths /\ ~SplitLate(e.path)
  BY SizesOf DEF ChartInv, ChartKept, Exact
<1>3. NameStored(e.path) = e.path
  BY <1>1, <1>2, NamesSurvive
<1> QED BY <1>1, <1>2, <1>3, AppendedFramed

(* Framed speaks of the tree, which stays.                                 *)
LEMMA FramedStays ==
  ASSUME tree' = tree, Framed(archive), archive' = archive PROVE Framed(archive)'
BY DEF Framed, Blocks

LEMMA FramedNext ==
  ASSUME tree' = tree, NEW a, Framed(a), archive' = a PROVE Framed(archive)'
BY DEF Framed, Blocks

LEMMA DirectoryArchived ==
  ASSUME ChartInv, ChartKept, Exact, archiveDirectory, stage' # "failed"
  PROVE  ChartKept'
<1> DEFINE dir == Head(todo)
           e0 == Folder(dir)
<1>1. /\ stage = "archiving" /\ listed = {} /\ todo # <<>> /\ tree' = tree /\ unpacked' = unpacked
      /\ Write(e0) /\ todo' = Tail(todo) /\ listed' = Children(dir)
  BY DEF archiveDirectory, packing, Folder
<1>2. /\ IsChart(tree) /\ Framed(archive) /\ unpacked \subseteq tree /\ todo \in Seq(Paths)
      /\ \A q \in 1..Len(todo) : Folder(todo[q]) \in tree
      /\ ~Holds(archive, Empty)
      /\ \A e \in tree : e \in unpacked \/ Holds(archive, e) \/ Pending(e)
  BY <1>1 DEF ChartInv, ChartKept, Holds
<1>3. /\ dir = todo[1] /\ Len(todo) \in Nat \ {0} /\ Tail(todo) \in Seq(Paths) /\ Len(Tail(todo)) = Len(todo) - 1
      /\ \A q \in 1..(Len(todo) - 1) : Tail(todo)[q] = todo[q + 1]
  BY <1>1, <1>2
<1>4. e0 \in tree /\ e0.path = dir /\ e0.kind = "directory"
  BY <1>2, <1>3, FoldersHave
<1>5. /\ archive' = archive \o Appended(e0) /\ stage' = stage /\ Framed(archive \o Appended(e0)) /\ Holds(archive', e0)
      /\ \A f : Holds(archive, f) => Holds(archive', f)
      /\ ~Holds(archive', Empty)
  BY <1>1, <1>2, <1>4, Written
<1> HIDE DEF dir, e0
<1>6. Framed(archive)'
  BY <1>1, <1>5, FramedNext
<1>7. ASSUME NEW e \in tree, Pending(e) PROVE Pending(e)' \/ Holds(archive', e)
  <2>0. e.path \in Paths /\ Len(e.path) \in Nat \ {0}
    BY <1>2, SizesOf, WholePath
  <2>1. PICK i \in 1..Len(e.path) : Awaited(SubSeq(e.path, 1, i))
    BY <1>7 DEF Pending
  <2> DEFINE here == SubSeq(e.path, 1, i)
  <2>2. PICK q \in 1..Len(todo) : todo[q] = here
    BY <1>1, <2>1 DEF Awaited
  <2>3. CASE q # 1
    <3>1. q - 1 \in 1..Len(todo') /\ todo'[q - 1] = here
      <4> HIDE DEF here
      <4> QED BY <1>1, <1>3, <2>2, <2>3
    <3> QED BY <2>1, <3>1 DEF Pending, Awaited
  <2>4. CASE q = 1 /\ i = Len(e.path)
    <3>1. here = e.path
      BY <1>2, <2>1, <2>4, OnTheWay
    <3>2. e.path = e0.path
      BY <1>3, <1>4, <2>2, <2>4, <3>1
    <3>3. e = e0
      BY <1>2, <1>4, <3>2 DEF IsChart
    <3> QED BY <1>5, <3>3
  <2>5. CASE q = 1 /\ i # Len(e.path)
    <3>1. i \in 1..(Len(e.path) - 1) /\ i + 1 \in 1..Len(e.path)
      BY <2>0, <2>1, <2>5
    <3>2. PICK g \in Children(here) : g.path = SubSeq(e.path, 1, i + 1)
      BY <1>2, <3>1, OneLevelDown
    <3>3. g \in listed'
      BY <1>1, <1>3, <2>2, <2>5, <3>2
    <3> QED BY <3>1, <3>2, <3>3 DEF Pending, Awaited
  <2> QED BY <2>3, <2>4, <2>5
<1>8. \A e \in tree' : e \in unpacked' \/ Holds(archive', e) \/ (stage' = "archiving" /\ Pending(e)')
  BY <1>1, <1>2, <1>5, <1>7
<1>9. listed' \subseteq tree' /\ todo' \in Seq(Paths) /\ \A q \in 1..Len(todo') : Folder(todo'[q]) \in tree'
  <2>1. \A q \in 1..Len(todo') : Folder(todo'[q]) \in tree'
    <3> SUFFICES ASSUME NEW q \in 1..Len(todo') PROVE Folder(todo'[q]) \in tree'
      OBVIOUS
    <3>1. q + 1 \in 1..Len(todo) /\ todo'[q] = todo[q + 1]
      BY <1>1, <1>3
    <3> QED BY <1>1, <1>2, <3>1
  <2> QED BY <1>1, <1>3, <2>1 DEF Children
<1>10. \A p \in 1..Len(archive') : archive'[p] # Empty
  BY <1>5 DEF Holds
<1> QED BY <1>1, <1>2, <1>6, <1>8, <1>9, <1>10 DEF ChartKept

LEMMA ListedArchived ==
  ASSUME ChartInv, ChartKept, Exact, archiveListed, stage' # "failed"
  PROVE  ChartKept'
<1>1. PICK e0 \in listed :
        /\ listed' = listed \ {e0}
        /\ \/ e0.kind = "directory" /\ todo' = Append(todo, e0.path) /\ UNCHANGED <<archive, stage>>
           \/ e0.kind # "directory" /\ Write(e0) /\ UNCHANGED todo
  BY DEF archiveListed
<1>2. stage = "archiving" /\ tree' = tree /\ unpacked' = unpacked
  BY DEF archiveListed, packing
<1>3. /\ IsChart(tree) /\ Framed(archive) /\ unpacked \subseteq tree /\ todo \in Seq(Paths) /\ listed \subseteq tree
      /\ \A q \in 1..Len(todo) : Folder(todo[q]) \in tree
      /\ ~Holds(archive, Empty)
      /\ \A e \in tree : e \in unpacked \/ Holds(archive, e) \/ Pending(e)
  BY <1>2 DEF ChartInv, ChartKept, Holds
<1>4. e0 \in tree /\ e0.path \in Paths /\ Len(todo) \in Nat
  BY <1>1, <1>3, SizesOf
<1>5. CASE e0.kind = "directory"
  <2>1. todo' = Append(todo, e0.path) /\ archive' = archive /\ stage' = stage
    BY <1>1, <1>5
  <2>2. /\ todo' \in Seq(Paths) /\ Len(todo') = Len(todo) + 1 /\ todo'[Len(todo) + 1] = e0.path
        /\ \A q \in 1..Len(todo) : todo'[q] = todo[q]
    BY <1>3, <1>4, <2>1, AppendProperties
  <2>3. ASSUME NEW path, Awaited(path) PROVE Awaited(path)'
    <3>1. CASE \E q \in 1..Len(todo) : todo[q] = path
      <4>1. PICK q \in 1..Len(todo) : todo[q] = path
        BY <3>1
      <4>2. q \in 1..Len(todo') /\ todo'[q] = path
        BY <1>4, <2>2, <4>1
      <4> QED BY <4>2 DEF Awaited
    <3>2. CASE \E f \in listed : f.path = path
      <4>1. PICK f \in listed : f.path = path
        BY <3>2
      <4>2. CASE f = e0
        <5>1. Len(todo) + 1 \in 1..Len(todo') /\ todo'[Len(todo) + 1] = path
          BY <1>4, <2>2, <4>1, <4>2
        <5> QED BY <5>1 DEF Awaited
      <4>3. CASE f # e0
        BY <1>1, <4>1, <4>3 DEF Awaited
      <4> QED BY <4>2, <4>3
    <3> QED BY <2>3, <3>1, <3>2 DEF Awaited
  <2>4. \A e \in tree : Pending(e) => Pending(e)'
    BY <2>3 DEF Pending
  <2>5. Framed(archive)'
    BY <1>2, <1>3, <2>1, FramedStays
  <2>6. \A q \in 1..Len(todo') : Folder(todo'[q]) \in tree'
    <3> SUFFICES ASSUME NEW q \in 1..Len(todo') PROVE Folder(todo'[q]) \in tree'
      OBVIOUS
    <3>1. CASE q \in 1..Len(todo)
      BY <1>2, <1>3, <2>2, <3>1
    <3>2. CASE q = Len(todo) + 1
      BY <1>2, <1>3, <1>4, <1>5, <2>2, <3>2, DirectoriesAre
    <3> QED BY <1>4, <2>2, <3>1, <3>2
  <2>7. listed' \subseteq tree'
    BY <1>1, <1>2, <1>3
  <2>8. \A e \in tree' : e \in unpacked' \/ Holds(archive', e) \/ (stage' = "archiving" /\ Pending(e)')
    BY <1>2, <1>3, <2>1, <2>4
  <2>9. \A p \in 1..Len(archive') : archive'[p] # Empty
    BY <1>3, <2>1 DEF Holds
  <2> QED BY <1>2, <1>3, <2>2, <2>5, <2>6, <2>7, <2>8, <2>9 DEF ChartKept
<1>6. CASE e0.kind # "directory"
  <2>1. Write(e0) /\ todo' = todo
    BY <1>1, <1>6
  <2>2. /\ archive' = archive \o Appended(e0) /\ stage' = stage /\ Framed(archive \o Appended(e0)) /\ Holds(archive', e0)
        /\ \A f : Holds(archive, f) => Holds(archive', f)
        /\ ~Holds(archive', Empty)
    BY <1>3, <1>4, <2>1, Written
  <2>3. Framed(archive)'
    BY <1>2, <2>2, FramedNext
  <2>4. ASSUME NEW e \in tree, Pending(e) PROVE Pending(e)' \/ Holds(archive', e)
    <3>1. PICK i \in 1..Len(e.path) : Awaited(SubSeq(e.path, 1, i))
      BY <2>4 DEF Pending
    <3> DEFINE here == SubSeq(e.path, 1, i)
    <3>2. CASE \E q \in 1..Len(todo) : todo[q] = here
      BY <2>1, <3>1, <3>2 DEF Pending, Awaited
    <3>3. CASE \E f \in listed : f # e0 /\ f.path = here
      BY <1>1, <3>1, <3>3 DEF Pending, Awaited
    <3>4. CASE e0.path = here
      <4>1. i = Len(e.path)
        <5> SUFFICES ASSUME i # Len(e.path) PROVE FALSE
          OBVIOUS
        <5>1. Folder(here) \in tree
          BY <1>3, <3>1, OnTheWay
        <5>2. Folder(here).path = e0.path /\ Folder(here).kind = "directory"
          BY <3>4, FoldersHave
        <5>3. Folder(here) = e0
          BY <1>3, <1>4, <5>1, <5>2 DEF IsChart
        <5> QED BY <1>6, <5>2, <5>3
      <4>2. here = e.path
        BY <1>3, <3>1, <4>1, OnTheWay
      <4>3. e = e0
        BY <1>3, <1>4, <3>4, <4>2 DEF IsChart
      <4> QED BY <2>2, <4>3
    <3> QED BY <3>1, <3>2, <3>3, <3>4 DEF Awaited
  <2>5. \A e \in tree' : e \in unpacked' \/ Holds(archive', e) \/ (stage' = "archiving" /\ Pending(e)')
    BY <1>2, <1>3, <2>2, <2>4
  <2>6. \A p \in 1..Len(archive') : archive'[p] # Empty
    BY <2>2 DEF Holds
  <2>7. listed' \subseteq tree' /\ todo' \in Seq(Paths) /\ \A q \in 1..Len(todo') : Folder(todo'[q]) \in tree'
    BY <1>1, <1>2, <1>3, <2>1
  <2> QED BY <1>2, <1>3, <2>3, <2>5, <2>6, <2>7 DEF ChartKept
<1> QED BY <1>5, <1>6

(* The archive ends with two empty blocks, and has none elsewhere.         *)
LEMMA ArchiveEnded ==
  ASSUME ChartInv, ChartKept, endStream PROVE ChartKept'
<1> DEFINE end == <<Empty, Empty>>
           a == archive \o end
<1>1. /\ stage = "archiving" /\ todo = <<>> /\ listed = {} /\ archive' = a /\ stage' = "archived"
      /\ tree' = tree /\ unpacked' = unpacked
  BY DEF endStream, ToStage, packing
<1>2. /\ IsChart(tree) /\ Framed(archive) /\ unpacked \subseteq tree
      /\ \A p \in 1..Len(archive) : archive[p] # Empty
      /\ \A e \in tree : e \in unpacked \/ Holds(archive, e)
  BY <1>1 DEF ChartInv, ChartKept, Pending, Awaited
<1>3. archive \in Seq(Blocks) /\ end \in Seq(Blocks) /\ Len(archive) \in Nat
  BY <1>2 DEF Framed, Blocks
<1>4. Len(end) = 2 /\ end[1] = Empty /\ end[2] = Empty
  OBVIOUS
<1> HIDE DEF end
<1>5. /\ a \in Seq(Blocks) /\ Len(a) = Len(archive) + 2
      /\ \A p \in 1..Len(archive) : a[p] = archive[p]
      /\ a[Len(archive) + 1] = Empty /\ a[Len(archive) + 2] = Empty
  <2>1. /\ a \in Seq(Blocks) /\ Len(a) = Len(archive) + Len(end)
        /\ \A p \in 1..(Len(archive) + Len(end)) :
             a[p] = IF p <= Len(archive) THEN archive[p] ELSE end[p - Len(archive)]
    BY <1>3, ConcatProperties
  <2> HIDE DEF a
  <2>2. Len(archive) + 1 - Len(archive) = 1 /\ Len(archive) + 2 - Len(archive) = 2
    BY <1>3
  <2>3. \A p \in 1..Len(archive) : a[p] = archive[p]
    BY <1>3, <1>4, <2>1
  <2>4. a[Len(archive) + 1] = end[1]
    BY <1>3, <1>4, <2>1, <2>2
  <2>5. a[Len(archive) + 2] = end[2]
    BY <1>3, <1>4, <2>1, <2>2
  <2> QED BY <1>4, <2>1, <2>3, <2>4, <2>5
<1> HIDE DEF a
<1>6. Data \notin tree /\ Empty \notin tree /\ Data # Empty
  BY <1>2, BlocksDiffer
<1>7. ASSUME NEW p \in 1..Len(a), a[p] \in tree
      PROVE  LET next == p + 1 + BlocksOf(a[p].size)
             IN  /\ next <= Len(a) + 1 /\ (next <= Len(a) => a[next] # Data)
                 /\ \A j \in (p + 1)..(next - 1) : a[j] = Data
  <2>1. p \in 1..Len(archive) /\ a[p] = archive[p]
    BY <1>3, <1>5, <1>6, <1>7
  <2> DEFINE next == p + 1 + BlocksOf(archive[p].size)
  <2>2. /\ next <= Len(archive) + 1 /\ (next <= Len(archive) => archive[next] # Data)
        /\ \A j \in (p + 1)..(next - 1) : archive[j] = Data
    BY <1>2, <1>7, <2>1 DEF Framed
  <2>3. next \in Nat /\ next > p
    BY <1>2, <1>7, <2>1, SizesOf
  <2> HIDE DEF next
  <2>4. next <= Len(a) => a[next] # Data
    <3>0. next \in 1..(Len(archive) + 1)
      BY <1>3, <2>1, <2>2, <2>3
    <3>1. CASE next \in 1..Len(archive)
      BY <1>5, <2>2, <3>1
    <3>2. CASE next = Len(archive) + 1
      BY <1>5, <1>6, <3>2
    <3> QED BY <1>3, <3>0, <3>1, <3>2
  <2>5. ASSUME NEW j \in (p + 1)..(next - 1) PROVE a[j] = Data
    <3>1. j \in 1..Len(archive)
      BY <1>3, <2>1, <2>2, <2>3, <2>5
    <3> QED BY <1>5, <2>2, <2>5, <3>1
  <2> QED BY <1>3, <1>5, <2>1, <2>2, <2>3, <2>4, <2>5 DEF next
<1>8. Len(a) > 0 => a[1] # Data
  <2>1. CASE Len(archive) = 0
    BY <1>5, <1>6, <2>1
  <2>2. CASE Len(archive) > 0
    BY <1>2, <1>3, <1>5, <2>2 DEF Framed
  <2> QED BY <1>3, <2>1, <2>2
<1>9. Framed(archive)'
  BY <1>1, <1>5, <1>7, <1>8, FramedNext DEF Framed
<1>10. \A e \in tree' : e \in unpacked' \/ Holds(archive', e)
  BY <1>1, <1>2, <1>3, <1>5 DEF Holds
<1>11. \A p \in 1..Len(archive') : archive'[p] = Empty => p >= Len(archive') - 1
  BY <1>1, <1>2, <1>3, <1>5
<1> QED BY <1>1, <1>2, <1>9, <1>10, <1>11 DEF ChartKept

(* An entry is unpacked: its header and its blocks are read, what is made  *)
(* belongs to the chart, and nothing else is passed over.                  *)
LEMMA EntryUnpacked ==
  ASSUME ChartInv, ChartKept, stage = "reading", archive # <<>>, tree' = tree,
         Head(archive).kind \in {"directory", "file"}, UNCHANGED stage,
         unpacked' = unpacked \cup MadeBy(Head(archive)), archive' = Rest(Head(archive).size)
  PROVE  ChartKept'
<1> DEFINE e == Head(archive)
           n == 1 + skipped(archive[1].size)
           b == SubSeq(archive, 2 + skipped(archive[1].size), Len(archive))
<1>1. /\ IsChart(tree) /\ Framed(archive) /\ unpacked \subseteq tree
      /\ \A p \in 1..Len(archive) : archive[p] = Empty => p >= Len(archive) - 1
      /\ \A f \in tree : f \in unpacked \/ Holds(archive, f)
  BY DEF ChartInv, ChartKept
<1>2. archive \in Seq(Blocks) /\ Len(archive) \in Nat \ {0} /\ e = archive[1] /\ e \in Blocks
  BY <1>1 DEF Framed
<1>3. e \in tree
  BY <1>2 DEF Blocks, Data, Empty, Entry
<1>4. /\ Framed(b) /\ n \in Nat /\ n <= Len(archive) /\ Len(b) = Len(archive) - n
      /\ \A p \in 1..Len(b) : b[p] = archive[p + n]
      /\ \A f \in tree : Holds(archive, f) => f = archive[1] \/ Holds(b, f)
  <2>1. archive[1] \in tree /\ Len(archive) > 0
    BY <1>2, <1>3
  <2> QED BY <1>1, <2>1, RestFramed
<1>5. archive' = b
  BY <1>2 DEF Rest
<1> HIDE DEF e, n, b
<1>6. Framed(archive)'
  BY <1>4, <1>5, FramedNext
<1>7. MadeBy(e) \subseteq tree /\ e \in MadeBy(e)
  <2>1. e.path \in Paths /\ e \in Entries
    BY <1>1, <1>3, SizesOf DEF IsChart
  <2>2. CASE e.kind = "file"
    BY <1>3, <2>2 DEF MadeBy
  <2>3. CASE e.kind = "directory"
    <3>1. MadeBy(e) = {Folder(SubSeq(e.path, 1, i)) : i \in 1..Len(e.path)}
      BY <2>3 DEF MadeBy, Folder
    <3>2. e = Folder(e.path)
      BY <1>1, <1>3, <2>3, DirectoriesAre
    <3>3. SubSeq(e.path, 1, Len(e.path)) = e.path /\ Len(e.path) \in 1..Len(e.path)
      BY <2>1, WholePath
    <3>4. \A i \in 1..Len(e.path) : Folder(SubSeq(e.path, 1, i)) \in tree
      BY <1>1, <1>3, <3>2, OnTheWay
    <3> QED BY <3>1, <3>2, <3>3, <3>4
  <2> QED BY <2>2, <2>3 DEF e
<1>8. unpacked' \subseteq tree' /\ \A f \in tree' : f \in unpacked' \/ Holds(archive', f)
  BY <1>1, <1>2, <1>4, <1>5, <1>7 DEF e
<1>9. \A p \in 1..Len(archive') : archive'[p] = Empty => p >= Len(archive') - 1
  <2> SUFFICES ASSUME NEW p \in 1..Len(b), b[p] = Empty PROVE p >= Len(b) - 1
    BY <1>5
  <2>1. p + n \in 1..Len(archive) /\ archive[p + n] = Empty
    BY <1>2, <1>4
  <2> QED BY <1>1, <1>2, <1>4, <2>1
<1> QED BY <1>6, <1>8, <1>9 DEF ChartKept

(* The end of the archive is reached when all has been unpacked.           *)
LEMMA AllUnpacked ==
  ASSUME ChartInv, ChartKept, stage = "reading", AtEnd PROVE unpacked = tree
<1>1. /\ IsChart(tree) /\ archive \in Seq(Blocks) /\ Len(archive) \in Nat /\ unpacked \subseteq tree
      /\ \A p \in 1..Len(archive) : archive[p] = Empty => p >= Len(archive) - 1
      /\ \A f \in tree : f \in unpacked \/ Holds(archive, f)
  BY DEF ChartInv, ChartKept, Framed
<1>2. \A f \in tree : ~Holds(archive, f)
  <2>1. CASE archive = <<>>
    BY <2>1 DEF Holds
  <2>2. CASE Len(archive) >= 2 /\ archive[1] = Empty /\ archive[2] = Empty
    <3>0. 1 \in 1..Len(archive)
      BY <1>1, <2>2
    <3>1. Len(archive) = 2
      <4>1. 1 >= Len(archive) - 1
        BY <1>1, <2>2, <3>0
      <4> QED BY <1>1, <2>2, <4>1
    <3> QED BY <1>1, <2>2, <3>1, BlocksDiffer DEF Holds
  <2> QED BY <2>1, <2>2 DEF AtEnd
<1> QED BY <1>1, <1>2

LEMMA ChartUnpacked ==
  ASSUME ChartInv, extractToFileSystem PROVE ChartInv'
<1>1. cargo = "chart" /\ stage = "reading" /\ tree' = tree /\ cargo' = cargo
  BY DEF extractToFileSystem
<1>2. IsChart(tree) /\ (Exact => ChartKept) /\ Exact' = Exact
  BY <1>1 DEF ChartInv, Exact, SplitLate, Fits, Splits
<1>3. CASE AtEnd
  <2>1. stage' = "extracted" /\ unpacked' = unpacked
    BY <1>3 DEF extractToFileSystem, ToStage
  <2>2. Exact => unpacked = tree
    BY <1>1, <1>2, <1>3, AllUnpacked
  <2> QED BY <1>1, <1>2, <2>1, <2>2 DEF ChartInv
<1>4. CASE ~AtEnd /\ Head(archive).kind \in {"directory", "file"} /\ Writable(Head(archive))
  <2>1. /\ unpacked' = unpacked \cup MadeBy(Head(archive)) /\ archive' = Rest(Head(archive).size)
        /\ UNCHANGED stage
    BY <1>4 DEF extractToFileSystem
  <2>2. archive # <<>>
    BY <1>4 DEF AtEnd
  <2>3. Exact => ChartKept'
    BY <1>1, <1>2, <1>4, <2>1, <2>2, EntryUnpacked
  <2> QED BY <1>1, <1>2, <2>1, <2>3 DEF ChartInv
<1>5. CASE ~AtEnd /\ ~(Head(archive).kind \in {"directory", "file"} /\ Writable(Head(archive)))
  <2>1. stage' = "refused"
    BY <1>5 DEF extractToFileSystem, ToStage
  <2> QED BY <1>1, <1>2, <2>1 DEF ChartInv
<1> QED BY <1>3, <1>4, <1>5

LEMMA ExactStays == ASSUME tree' = tree PROVE Exact' = Exact
BY DEF Exact, SplitLate, Fits, Splits

(* Nothing of the chart changes but the stage and the decompression.       *)
LEMMA ChartAsBefore ==
  ASSUME ChartInv, cargo' = cargo, tree' = tree, UNCHANGED <<archive, unpacked, todo, listed>>,
         stage \in {"archived", "inflating"}, stage' \in {"inflating", "reading", "failed"}
  PROVE  ChartInv'
<1>1. IsChart(tree)' /\ Exact' = Exact
  BY ExactStays DEF ChartInv
<1>2. ASSUME ChartKept PROVE ChartKept'
  <2>1. Framed(archive)' /\ unpacked' \subseteq tree'
    BY <1>2, FramedStays DEF ChartKept
  <2> QED BY <1>2, <2>1 DEF ChartKept
<1> QED BY <1>1, <1>2 DEF ChartInv

LEMMA ChartInvStep == ASSUME ChartInv, [ArchiveNext]_archiveVars PROVE ChartInv'
<1>1. CASE archiveDirectory \/ archiveListed
  <2>1. /\ stage = "archiving" /\ tree' = tree /\ cargo' = cargo /\ stage' \in {stage, "failed"}
    BY <1>1 DEF archiveDirectory, archiveListed, packing, Write, ToStage
  <2>2. IsChart(tree)' /\ Exact' = Exact
    BY <2>1, ExactStays DEF ChartInv
  <2>3. cargo = "chart" /\ Exact /\ stage' # "failed" => ChartKept'
    BY <1>1, <2>1, DirectoryArchived, ListedArchived DEF ChartInv
  <2> QED BY <2>1, <2>2, <2>3 DEF ChartInv
<1>2. CASE endStream
  <2>1. stage = "archiving" /\ stage' = "archived" /\ tree' = tree /\ cargo' = cargo
    BY <1>2 DEF endStream, packing, ToStage
  <2>2. IsChart(tree)' /\ Exact' = Exact
    BY <2>1, ExactStays DEF ChartInv
  <2>3. cargo = "chart" /\ Exact => ChartKept'
    BY <1>2, <2>1, ArchiveEnded DEF ChartInv
  <2> QED BY <2>1, <2>2, <2>3 DEF ChartInv
<1>3. CASE gzipCompress
  <2>1. stage = "archived" /\ stage' = "inflating"
    BY <1>3 DEF gzipCompress, ToStage
  <2>2. cargo' = cargo /\ tree' = tree /\ UNCHANGED <<archive, unpacked, todo, listed>>
    BY <1>3 DEF gzipCompress, packing
  <2> QED BY <2>1, <2>2, ChartAsBefore
<1>4. CASE gzipDecompress
  <2>1. stage = "inflating" /\ stage' \in {"reading", "failed", stage}
    BY <1>4 DEF gzipDecompress, ToStage
  <2>2. cargo' = cargo /\ tree' = tree /\ UNCHANGED <<archive, unpacked, todo, listed>>
    BY <1>4 DEF gzipDecompress, packing
  <2> QED BY <2>1, <2>2, ChartAsBefore
<1>5. CASE extractToFileSystem
  BY <1>5, ChartUnpacked
<1>6. CASE destroyDirectory
  <2>1. stage' \in {"done", "failed"} /\ tree' = tree /\ cargo' = cargo
    BY <1>6 DEF destroyDirectory, ToStage
  <2> QED BY <2>1 DEF ChartInv
<1>7. CASE streamForFile \/ writeProgram \/ modeForFile \/ renameProgram \/ removeTemporary \/ killed
  <2>1. cargo' = cargo /\ tree' = tree
    BY <1>7 DEF streamForFile, writeProgram, modeForFile, renameProgram, removeTemporary, killed, upgrading
  <2>2. cargo = "chart" => stage \in {"write", "chmod", "rename", "remove"}
    BY <1>7 DEF streamForFile, writeProgram, modeForFile, renameProgram, removeTemporary, killed
  <2> QED BY <2>1, <2>2 DEF ChartInv
<1>8. CASE UNCHANGED archiveVars
  <2>1. /\ cargo' = cargo /\ stage' = stage /\ tree' = tree /\ todo' = todo /\ listed' = listed
        /\ archive' = archive /\ unpacked' = unpacked
    BY <1>8 DEF archiveVars
  <2>2. ChartKept => ChartKept'
    BY <2>1 DEF ChartKept, Framed, Blocks, Holds, Pending, Awaited
  <2> QED BY <2>1, <2>2, ExactStays DEF ChartInv
<1> QED BY <1>1, <1>2, <1>3, <1>4, <1>5, <1>6, <1>7, <1>8 DEF ArchiveNext, archiveStep

LEMMA ChartInvInit == ASSUME ArchiveInit PROVE ChartInv
<1>1. CASE cargo = "chart" /\ stage = "archiving" /\ archive = <<>>
  <2>1. PICK root \in 1..MaxName, dir \in 1..MaxName, file \in (1..MaxName) \X (0..(BlockSize + 1)),
             inner \in (1..MaxName) \X (0..(BlockSize + 1)), kind \in {"file", "link"} :
          /\ file[1] # dir /\ tree = Chart(root, file, dir, inner, kind) /\ todo = <<<<root>>>>
    BY <1>1 DEF ArchiveInit
  <2>2. /\ root \in Nat /\ dir \in Nat /\ file \in Nat \X Nat /\ inner \in Nat \X Nat
    BY ArchiveAssumption
  <2>3. /\ IsChart(tree) /\ Folder(<<root>>) \in tree
        /\ \A e \in tree : SubSeq(e.path, 1, 1) = <<root>>
    BY <2>1, <2>2, ChartsAreCharts
  <2>4. todo \in Seq(Paths) /\ Len(todo) = 1 /\ todo[1] = <<root>>
    <3>1. <<root>> \in Paths
      BY <2>2 DEF Paths
    <3> DEFINE top == <<root>>
    <3> HIDE DEF top
    <3>2. top \in Paths
      BY <3>1 DEF top
    <3>3. <<top>> \in Seq(Paths) /\ Len(<<top>>) = 1 /\ <<top>>[1] = top
      BY <3>2
    <3> QED BY <2>1, <3>3 DEF top
  <2>5. ASSUME NEW e \in tree PROVE Pending(e)
    <3>1. 1 \in 1..Len(e.path)
      BY <2>3, <2>5, SizesOf, WholePath
    <3>2. Awaited(SubSeq(e.path, 1, 1))
      <4>1. SubSeq(e.path, 1, 1) = todo[1] /\ 1 \in 1..Len(todo)
        BY <2>3, <2>4
      <4> QED BY <4>1 DEF Awaited
    <3> QED BY <3>1, <3>2 DEF Pending
  <2>6. Framed(archive)
    BY <1>1 DEF Framed
  <2>7. unpacked = {} /\ listed = {}
    BY DEF ArchiveInit
  <2>8. ChartKept
    BY <1>1, <2>3, <2>4, <2>5, <2>6, <2>7 DEF ChartKept
  <2> QED BY <1>1, <2>3, <2>8 DEF ChartInv
<1>2. CASE cargo = "release" /\ tree = {}
  BY <1>2 DEF ChartInv, IsChart
<1> QED BY <1>1, <1>2 DEF ArchiveInit

(* The upgrade.  What is renamed was written before, and either completely *)
(* or on a full disk; it got its mode.                                     *)
Programs(contents) == [content : contents, runs : BOOLEAN]
UpgradeInv ==
  /\ cargo \in {"chart", "release"}
  /\ program \in Programs({"old", "part", "whole"}) /\ program.runs /\ (program.content = "part" => diskFull)
  /\ tempFile \in Programs({"none", "empty", "part", "whole"})
  /\ stage \in {"chmod", "rename"} =>
       tempFile.content \in {"part", "whole"} /\ (tempFile.content = "part" => diskFull)
  /\ stage = "rename" => tempFile.runs
  /\ stage = "done" => unpacked = {} /\ tempFile.content = "none"
  /\ cargo = "release" => unpacked = {}
  /\ cargo = "chart" => tempFile.content = "none" /\ stage \notin {"write", "chmod", "rename", "remove"}

LEMMA UpgradeInvInit == ASSUME ArchiveInit PROVE UpgradeInv
BY DEF ArchiveInit, UpgradeInv, Programs

LEMMA UpgradeInvStep == ASSUME UpgradeInv, [ArchiveNext]_archiveVars PROVE UpgradeInv'
<1>1. CASE archiveDirectory \/ archiveListed
  <2>1. stage = "archiving" /\ stage' \in {stage, "failed"}
    BY <1>1 DEF archiveDirectory, archiveListed, Write, ToStage
  <2>2. UNCHANGED <<cargo, unpacked, tempFile, program, diskFull>>
    BY <1>1 DEF archiveDirectory, archiveListed, packing
  <2> QED BY <2>1, <2>2 DEF UpgradeInv
<1>2. CASE endStream \/ gzipCompress \/ gzipDecompress
  <2>1. stage' \in {stage, "archived", "inflating", "reading", "failed"} /\ stage # "done"
    BY <1>2 DEF endStream, gzipCompress, gzipDecompress, ToStage
  <2>2. UNCHANGED <<cargo, unpacked, tempFile, program, diskFull>>
    BY <1>2 DEF endStream, gzipCompress, gzipDecompress, packing
  <2>3. stage \in {"archiving", "archived", "inflating"}
    BY <1>2 DEF endStream, gzipCompress, gzipDecompress
  <2> QED BY <2>1, <2>2, <2>3 DEF UpgradeInv
<1>3. CASE extractToFileSystem
  <2>1. /\ cargo = "chart" /\ stage = "reading" /\ stage' \in {stage, "extracted", "refused"}
        /\ UNCHANGED <<cargo, tempFile, program, diskFull>>
    BY <1>3 DEF extractToFileSystem, ToStage
  <2> QED BY <2>1 DEF UpgradeInv
<1>4. CASE destroyDirectory
  <2>1. /\ cargo = "chart" /\ stage' \in {"done", "failed"} /\ unpacked' = {}
        /\ UNCHANGED <<cargo, tempFile, program, diskFull>>
    BY <1>4 DEF destroyDirectory, ToStage
  <2> QED BY <2>1 DEF UpgradeInv
<1>5. CASE streamForFile
  <2>1. /\ cargo = "release" /\ stage = "reading" /\ stage' \in {stage, "write", "remove"}
        /\ tempFile' = [content |-> "empty", runs |-> FALSE]
        /\ UNCHANGED <<cargo, unpacked, program, diskFull>>
    BY <1>5 DEF streamForFile, ToStage, upgrading
  <2> QED BY <2>1 DEF UpgradeInv, Programs
<1>6. CASE writeProgram
  <2>1. /\ stage = "write" /\ stage' = "chmod" /\ UNCHANGED <<cargo, unpacked, program>>
        /\ \/ tempFile' = [tempFile EXCEPT !.content = "whole"] /\ diskFull' = diskFull
           \/ tempFile' = [tempFile EXCEPT !.content = "part"] /\ diskFull' = TRUE
    BY <1>6 DEF writeProgram, ToStage, upgrading
  <2> QED BY <2>1 DEF UpgradeInv, Programs
<1>7. CASE modeForFile
  <2>1. /\ stage = "chmod" /\ UNCHANGED <<cargo, unpacked, program, diskFull>>
        /\ \/ tempFile' = [tempFile EXCEPT !.runs = TRUE] /\ stage' = "rename"
           \/ tempFile' = tempFile /\ stage' = "remove"
    BY <1>7 DEF modeForFile, ToStage, upgrading
  <2> QED BY <2>1 DEF UpgradeInv, Programs
<1>8. CASE renameProgram
  <2>1. /\ stage = "rename" /\ stage' = "remove" /\ UNCHANGED <<cargo, unpacked, diskFull>>
        /\ \/ program' = tempFile /\ tempFile' = [content |-> "none", runs |-> FALSE]
           \/ program' = program /\ tempFile' = tempFile
    BY <1>8 DEF renameProgram, ToStage, upgrading
  <2>2. CASE program' = tempFile /\ tempFile' = [content |-> "none", runs |-> FALSE]
    <3>1. /\ tempFile \in Programs({"none", "empty", "part", "whole"}) /\ tempFile.runs
          /\ tempFile.content \in {"part", "whole"} /\ (tempFile.content = "part" => diskFull)
      BY <2>1 DEF UpgradeInv
    <3>2. program' \in Programs({"old", "part", "whole"}) /\ program'.runs
      BY <2>2, <3>1 DEF Programs
    <3>3. program'.content = "part" => diskFull'
      BY <2>1, <2>2, <3>1
    <3> QED BY <2>1, <2>2, <3>2, <3>3 DEF UpgradeInv, Programs
  <2>3. CASE program' = program /\ tempFile' = tempFile
    BY <2>1, <2>3 DEF UpgradeInv
  <2> QED BY <2>1, <2>2, <2>3
<1>9. CASE removeTemporary
  <2>1. /\ stage = "remove" /\ stage' = "done" /\ tempFile' = [content |-> "none", runs |-> FALSE]
        /\ UNCHANGED <<cargo, unpacked, program, diskFull>>
    BY <1>9 DEF removeTemporary, ToStage, upgrading
  <2> QED BY <2>1 DEF UpgradeInv, Programs
<1>10. CASE killed
  <2>1. cargo = "release" /\ stage' = "failed" /\ UNCHANGED <<cargo, unpacked, tempFile, program, diskFull>>
    BY <1>10 DEF killed, ToStage, upgrading
  <2> QED BY <2>1 DEF UpgradeInv
<1>11. CASE UNCHANGED archiveVars
  BY <1>11 DEF archiveVars, UpgradeInv
<1> QED BY <1>1, <1>2, <1>3, <1>4, <1>5, <1>6, <1>7, <1>8, <1>9, <1>10, <1>11 DEF ArchiveNext, archiveStep

(* Whatever is sent arrives whole, for charts with names of any length and *)
(* files of any size, whatever the block and field sizes: what is          *)
(* unpacked is the chart, unless a path of it is split one byte late; and  *)
(* however an upgrade ends, the program that is installed can be run, and  *)
(* is the old one or the complete new one unless the disk was full.        *)
THEOREM TransfersArriveWhole == ArchiveSpec => []TransfersWhole
<1>1. ArchiveInit => ChartInv /\ UpgradeInv
  BY ChartInvInit, UpgradeInvInit
<1>2. (ChartInv /\ UpgradeInv) /\ [ArchiveNext]_archiveVars => (ChartInv /\ UpgradeInv)'
  BY ChartInvStep, UpgradeInvStep
<1>3. ChartInv /\ UpgradeInv => TransfersWhole
  BY DEF ChartInv, UpgradeInv, Programs, TransfersWhole, Exact
<1> QED BY <1>1, <1>2, <1>3, PTL DEF ArchiveSpec
=============================================================================

------------------------------ MODULE Handlers ------------------------------
(***************************************************************************)
(* The request handlers of the SLATE API server (src/*Commands.cpp) and    *)
(* the routes that lead to them (src/slate_service.cpp).                   *)
(*                                                                         *)
(* A handler is a sequence of steps that a thread of the server runs for   *)
(* one request: it asks questions (of the token, the body, the store, the  *)
(* cluster), answers with an error at the first one that goes against it,  *)
(* and changes the store, a cluster or the outside world.  What a question *)
(* is about is a FACT; its answer is a free choice made when the step      *)
(* runs, since other requests may change the world between two steps.     *)
(* Sending an email counts as a change.  The caches, the order of the      *)
(* database calls inside one step and the cascades of a deletion are the   *)
(* subject of the other modules (UserStore, GroupMembership,               *)
(* ClusterAccess, MonitoringCredentials, Workloads).                       *)
(***************************************************************************)
EXTENDS Naturals, Sequences

(***************************************************************************)
(* The kinds of step.  Need answers code unless one of the facts holds     *)
(* (code 200 is an early return that is not an error), first taking back   *)
(* the changes in undo; the result of taking back is ignored everywhere,   *)
(* so it may fail.  Do makes a change and answers code if that fails; a    *)
(* DoUnless goes on after a failure when one of the facts holds.  Try      *)
(* makes a change whose failure is ignored.                                *)
(***************************************************************************)
Step(kind, facts, effect, code, undo) ==
  [kind |-> kind, facts |-> facts, effect |-> effect, code |-> code, undo |-> undo]
NeedElse(facts, code, undo) == Step("need", facts, "none", code, undo)
Need(facts, code)           == NeedElse(facts, code, {})
DoElse(effect, code, undo)  == Step("do", {}, effect, code, undo)
Do(effect, code)            == DoElse(effect, code, {})
DoUnless(facts, effect, code) == Step("do", facts, effect, code, {})
Try(effect)                 == Step("try", {}, effect, 0, {})

(***************************************************************************)
(* What the handlers have in common.  The body of a request that is not    *)
(* JSON, or null, is answered 400; one that is JSON but not an object      *)
(* makes the member look-ups throw, which the server answers 500.          *)
(***************************************************************************)
authenticateUser == <<Need({"user"}, 403)>>
onlyAdmins       == authenticateUser \o <<Need({"admin"}, 403)>>
parseBody        == <<Need({"json"}, 400), Need({"object"}, 500), Need({"fields"}, 400)>>

-----------------------------------------------------------------------------
(* src/UserCommands.cpp *)

listUsers == authenticateUser

createUser ==
  onlyAdmins \o parseBody \o <<Need({"free"}, 400), Do("users", 500)>>

selfOrAdmin == authenticateUser \o <<Need({"admin", "self"}, 403)>>

getUserInfo == selfOrAdmin \o <<Need({"target"}, 404)>>

whoAreThey == authenticateUser

updateUser ==
  selfOrAdmin \o <<Need({"target"}, 404)>> \o parseBody
    \o <<Need({"admin", "keepsRank"}, 403), Do("users", 500)>>

deleteUser ==
  selfOrAdmin \o <<Need({"self", "target"}, 404), Try("memberships"),
                   Do("users", 500), Try("email")>>

listUsergroups == authenticateUser \o <<Need({"self", "target"}, 404)>>

addUserToGroup ==
  authenticateUser \o <<Need({"target"}, 404), Need({"group"}, 404),
                        Need({"admin", "member"}, 403), Do("memberships", 500)>>

removeUserFromGroup ==
  authenticateUser \o <<Need({"target"}, 404), Need({"admin", "member"}, 403),
                        Do("memberships", 500)>>

findUser == onlyAdmins \o <<Need({"parameter"}, 400), Need({"target"}, 404)>>

replaceUserToken ==
  selfOrAdmin \o <<Need({"target"}, 404), Do("users", 500), Try("email")>>

-----------------------------------------------------------------------------
(* src/GroupCommands.cpp *)

listGroups == authenticateUser

checkGroupBody == parseBody \o <<Need({"name"}, 400), Need({"free"}, 400)>>

(* The field of science, if one is required or given, is one of the list.  *)
normalizeScienceField(unless) == <<Need(unless \cup {"scienceField"}, 400)>>

createGroup ==
  authenticateUser \o checkGroupBody \o normalizeScienceField({})
    \o <<Do("groups", 500), Do("memberships", 500)>>

getGroupInfo == authenticateUser \o <<Need({"group"}, 404)>>

updateGroup ==
  authenticateUser \o <<Need({"admin", "member"}, 403), Need({"group"}, 404)>>
    \o parseBody \o normalizeScienceField({"sameField"})
    \o <<Need({"changes"}, 200), Do("groups", 500)>>

deleteGroup ==
  authenticateUser \o <<Need({"group"}, 404), Need({"admin", "member"}, 403),
                        Do("groups", 500), Try("instances"), Try("secrets"),
                        Try("objects"), Try("clusters")>>

listGroupMembers ==
  authenticateUser \o <<Need({"group"}, 404), Need({"admin", "member"}, 403)>>

listGroupClusters == authenticateUser \o <<Need({"group"}, 404)>>

-----------------------------------------------------------------------------
(* src/MonitoringCredentialCommands.cpp *)

listMonitoringCredentials == onlyAdmins

addMonitoringCredential == onlyAdmins \o parseBody \o <<Do("credentials", 500)>>

revokeMonitoringCredential ==
  onlyAdmins \o <<Need({"credential"}, 404), DoUnless({"unmonitored"}, "clusters", 500),
                 Do("credentials", 500)>>

deleteMonitoringCredential ==
  onlyAdmins \o <<Need({"credential"}, 404), Do("credentials", 500)>>

-----------------------------------------------------------------------------
(* src/ClusterCommands.cpp.  hosts: the caller is a member of the group    *)
(* that owns the cluster.                                                  *)

listClusters == authenticateUser

checkClusterBody == parseBody \o <<Need({"kubeconfig"}, 400)>>

(* Every check of the cluster but one removes the cluster's record when it *)
(* fails; autodelete only governs the first of them.                       *)
contactCluster(autodelete) ==
  <<NeedElse({"reachable"}, 500, IF autodelete THEN {"clusters"} ELSE {}),
    NeedElse({"accounts"}, 500, {"clusters"}),
    Need({"systemAccount"}, 500),
    NeedElse({"systemNamespace"}, 500, {"clusters"}),
    Try("clusters")>>

installTiller == <<NeedElse({"helm3", "tiller"}, 500, {"clusters"})>>

setClusterDNSRecord == <<Try("dns")>>

ensureClusterSetup(autodelete) ==
  contactCluster(autodelete) \o installTiller \o setClusterDNSRecord

createCluster ==
  authenticateUser \o checkClusterBody
    \o <<Need({"group"}, 403), Need({"member"}, 403), Need({"name"}, 400),
         Need({"free"}, 400), Do("clusters", 500)>>
    \o ensureClusterSetup(TRUE)

atCluster == authenticateUser \o <<Need({"cluster"}, 404)>>

getClusterInfo == atCluster

(* A member of the owning group, or an administrator who forces it.        *)
mayDeleteCluster == atCluster \o <<Need({"hosts", "force"}, 403), Need({"hosts", "admin"}, 403)>>

(* What stood on the cluster goes first; without force, one failure among  *)
(* them stops the deletion.                                                *)
deleteDependents ==
  <<DoUnless({"force"}, "instances", 500), Try("reachability"),
    Need({"stillReachable", "force"}, 500), DoUnless({"force"}, "volumes", 500),
    DoUnless({"force"}, "secrets", 500), Try("objects"), Try("dns"),
    DoUnless({"unmonitored"}, "credentials", 500)>>

(* Faulty variant, to show that a property can fail: the cluster is        *)
(* contacted, and its reachability noted, before the caller is checked.    *)
deleteClusterPinging ==
  atCluster \o <<Try("reachability"), Need({"hosts", "force"}, 403), Need({"hosts", "admin"}, 403),
                 Need({"reachable", "force"}, 500)>>
    \o deleteDependents \o <<Do("clusters", 500), Try("email")>>

deleteCluster ==
  mayDeleteCluster \o <<Try("reachability"), Need({"reachable", "force"}, 500)>>
    \o deleteDependents \o <<Do("clusters", 500), Try("email")>>

byHost == atCluster \o <<Need({"admin", "hosts"}, 403)>>

updateCluster ==
  byHost \o parseBody \o setClusterDNSRecord
    \o <<Need({"changes"}, 200), Do("clusters", 500), Need({"kubeconfig"}, 200)>>
    \o ensureClusterSetup(FALSE)

listClusterAllowedgroups == atCluster

checkGroupClusterAccess == atCluster \o <<Need({"wildcard", "group"}, 404)>>

grantGroupClusterAccess ==
  byHost \o <<Need({"wildcard", "group"}, 404), Need({"wildcard", "guest"}, 200),
              Do("access", 500)>>

revokeGroupClusterAccess ==
  byHost \o <<Need({"wildcard", "group"}, 404), Need({"wildcard", "guest"}, 400),
              Do("access", 500)>>

listClusterGroupAllowedApplications ==
  atCluster \o <<Need({"group"}, 404), Need({"admin", "hosts", "member"}, 403)>>

setPermission ==
  atCluster \o <<Need({"group"}, 404), Need({"admin", "hosts"}, 403), Do("permissions", 500)>>

allowGroupUseOfApplication == setPermission

denyGroupUseOfApplication == setPermission

getClusterMonitoringCredential ==
  byHost \o <<Need({"unmonitored"}, 200), Do("credentials", 500), Do("clusters", 500),
              Try("email")>>

removeClusterMonitoringCredential ==
  byHost \o <<Need({"monitored"}, 200), Do("clusters", 500), Try("credentials")>>

pingCluster == atCluster \o <<Try("reachability")>>

verifyCluster == atCluster

-----------------------------------------------------------------------------
(* src/ApplicationCommands.cpp.  The catalogue is open to everyone.        *)

listApplications == <<Need({"helm"}, 500)>>

fetchFromCatalogue == <<Need({"catalogue"}, 500), Need({"target"}, 404), Need({"helm"}, 500)>>

fetchApplicationConfig == fetchFromCatalogue

fetchApplicationVersions == fetchFromCatalogue

fetchApplicationDocumentation == fetchFromCatalogue

checkInstallBody ==
  <<Need({"fields"}, 400), Need({"yaml"}, 400), Need({"tagged", "helm"}, 500),
    Need({"name"}, 400)>>

(* Only members of the group may install for it, on a cluster that it owns *)
(* or may use, an application that it may use there.                       *)
mayInstall ==
  <<Need({"group"}, 400), Need({"cluster"}, 400), Need({"member"}, 403),
    Need({"owns", "access"}, 403), Need({"owns", "mayUse"}, 403)>>

installApplicationImpl ==
  checkInstallBody \o mayInstall
    \o <<Need({"nameFits"}, 400), Need({"free"}, 400), Need({"file"}, 500),
         Do("instances", 500), DoElse("namespace", 500, {"instances"}),
         DoElse("objects", 500, {"instances"}), Need({"listed"}, 500)>>

installApplication ==
  authenticateUser \o <<Need({"unquoted"}, 400), Need({"json"}, 400), Need({"object"}, 500),
                        Need({"catalogue"}, 500), Need({"target"}, 404)>>
    \o installApplicationImpl

extractChartName == <<Need({"chart"}, 400)>>

installAdHocApplication ==
  <<Need({"adHocAllowed"}, 400)>> \o authenticateUser \o parseBody
    \o <<Need({"unpacked"}, 500)>> \o extractChartName \o installApplicationImpl

updateCatalog == authenticateUser \o <<Do("catalogue", 500)>>

-----------------------------------------------------------------------------
(* src/ApplicationInstanceCommands.cpp *)

listApplicationInstances == authenticateUser

atInstance ==
  authenticateUser \o <<Need({"target"}, 404), Need({"admin", "member"}, 403)>>

fetchApplicationInstanceInfo ==
  atInstance \o <<Need({"group"}, 500), Need({"cluster"}, 500)>>

deleteApplicationInstance ==
  atInstance \o <<DoUnless({"force"}, "objects", 500), Do("instances", 500)>>

(* Stopping and starting again.  The record goes when the namespace cannot *)
(* be created, although the instance existed before the request.           *)
stopInstance == <<Do("objects", 500)>>

startInstance ==
  <<Need({"file"}, 500), DoElse("namespace", 500, {"instances"}), Do("objects", 500)>>

updateApplicationInstance ==
  atInstance \o <<Need({"group"}, 500), Need({"cluster"}, 500)>> \o parseBody
    \o <<Need({"version"}, 500)>> \o stopInstance \o startInstance \o <<Try("instances")>>

restartApplicationInstance ==
  atInstance \o <<Need({"group"}, 500), Need({"cluster"}, 500)>>
    \o stopInstance \o startInstance

getApplicationInstanceScale ==
  authenticateUser \o <<Need({"target"}, 400), Need({"admin", "member"}, 403),
                        Need({"deployments"}, 400), Need({"deployment"}, 400)>>

scaleApplicationInstance ==
  atInstance \o <<Need({"parameter"}, 400), Need({"deployments"}, 400),
                  Need({"deployment"}, 404), Do("objects", 500)>>

getApplicationInstanceLogs ==
  atInstance \o <<Need({"pods"}, 500), Need({"container"}, 400)>>

-----------------------------------------------------------------------------
(* src/SecretCommands.cpp, src/VolumeClaimCommands.cpp *)

listSecrets ==
  authenticateUser \o <<Need({"parameter"}, 400), Need({"group"}, 404),
                        Need({"admin", "member"}, 403)>>

checkSecretBody == parseBody \o <<Need({"contents"}, 400)>>

(* Faulty variant: the group's access to the cluster is not checked. *)
mayDeployAnywhere ==
  <<Need({"name"}, 400), Need({"group"}, 404), Need({"member"}, 403), Need({"cluster"}, 404),
    Need({"free"}, 400)>>

mayDeploy ==
  <<Need({"name"}, 400), Need({"group"}, 404), Need({"member"}, 403), Need({"cluster"}, 404),
    Need({"owns", "access"}, 403), Need({"free"}, 400)>>

(* What is given is encrypted, what is copied is decrypted for Kubernetes. *)
encryptSecret == <<Need({"encrypted"}, 500)>>

createSecret ==
  authenticateUser \o checkSecretBody \o mayDeploy
    \o <<Need({"given", "source"}, 404), Need({"given", "sourceMember"}, 403)>>
    \o encryptSecret
    \o <<Do("secrets", 500), DoElse("namespace", 500, {"secrets"}),
         Need({"file"}, 500), DoElse("objects", 500, {"secrets"})>>

atSecret ==
  authenticateUser \o <<Need({"target"}, 404), Need({"member"}, 403)>>

(* Faulty variant: the result of the removal from the store is ignored. *)
deleteSecretIgnoring == atSecret \o <<DoUnless({"force"}, "objects", 500), Try("secrets")>>

deleteSecret == atSecret \o <<DoUnless({"force"}, "objects", 500), Do("secrets", 500)>>

getSecret == atSecret \o <<Need({"decrypted"}, 500)>>

listVolumeClaims == authenticateUser

atVolume ==
  authenticateUser \o <<Need({"target"}, 404), Need({"admin", "member"}, 403)>>

fetchVolumeClaimInfo == atVolume \o <<Need({"cluster"}, 500)>>

checkVolumeBody == parseBody

checkVolumeModes == <<Need({"modes"}, 400)>>

createVolumeClaim ==
  authenticateUser \o checkVolumeBody \o checkVolumeModes \o mayDeploy
    \o <<Do("volumes", 500), DoElse("namespace", 500, {"volumes"}),
         DoElse("objects", 500, {"volumes"})>>

deleteVolumeClaim ==
  atVolume \o <<Need({"unmounted"}, 500), DoUnless({"force"}, "objects", 500),
                Do("volumes", 500)>>

-----------------------------------------------------------------------------
(* src/slate_service.cpp *)

multiplex ==
  authenticateUser \o <<Need({"json"}, 400), Need({"object"}, 400), Need({"fields"}, 400),
                        Need({"stringBody"}, 500), Try("requests")>>

getStatistics == <<>>

serverVersionInfo == <<>>

unsupported == <<Need({}, 400)>>

=============================================================================

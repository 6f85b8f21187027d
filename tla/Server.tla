------------------------------- MODULE Server -------------------------------
(***************************************************************************)
(* The API server handling one request: the routes of src/slate_service.cpp *)
(* choose the handler, and the handler's steps (module Handlers) run until  *)
(* one of them answers.                                                     *)
(***************************************************************************)
EXTENDS Naturals, Sequences, FiniteSetsExt

Code == INSTANCE Handlers

VARIABLES
  endpoint,   \* the handler that runs, NoHandler when the server is idle
  step,       \* the number of its next step
  known,      \* the facts it asked for, with the answers it got
  done,       \* what it has changed so far
  status      \* the HTTP status of the answer, 0 while there is none

serverVars == <<endpoint, step, known, done, status>>

NoHandler == "none"

Handler ==
  [listUsers |-> Code!listUsers, createUser |-> Code!createUser, getUserInfo |-> Code!getUserInfo,
   updateUser |-> Code!updateUser, deleteUser |-> Code!deleteUser, listUsergroups |-> Code!listUsergroups,
   addUserToGroup |-> Code!addUserToGroup, removeUserFromGroup |-> Code!removeUserFromGroup,
   replaceUserToken |-> Code!replaceUserToken, findUser |-> Code!findUser, whoAreThey |-> Code!whoAreThey,
   listClusters |-> Code!listClusters, createCluster |-> Code!createCluster,
   getClusterInfo |-> Code!getClusterInfo, deleteCluster |-> Code!deleteCluster,
   updateCluster |-> Code!updateCluster, pingCluster |-> Code!pingCluster, verifyCluster |-> Code!verifyCluster,
   listClusterAllowedgroups |-> Code!listClusterAllowedgroups,
   checkGroupClusterAccess |-> Code!checkGroupClusterAccess,
   grantGroupClusterAccess |-> Code!grantGroupClusterAccess,
   revokeGroupClusterAccess |-> Code!revokeGroupClusterAccess,
   listClusterGroupAllowedApplications |-> Code!listClusterGroupAllowedApplications,
   allowGroupUseOfApplication |-> Code!allowGroupUseOfApplication,
   denyGroupUseOfApplication |-> Code!denyGroupUseOfApplication,
   getClusterMonitoringCredential |-> Code!getClusterMonitoringCredential,
   removeClusterMonitoringCredential |-> Code!removeClusterMonitoringCredential,
   listMonitoringCredentials |-> Code!listMonitoringCredentials,
   addMonitoringCredential |-> Code!addMonitoringCredential,
   revokeMonitoringCredential |-> Code!revokeMonitoringCredential,
   deleteMonitoringCredential |-> Code!deleteMonitoringCredential,
   listGroups |-> Code!listGroups, createGroup |-> Code!createGroup, getGroupInfo |-> Code!getGroupInfo,
   updateGroup |-> Code!updateGroup, deleteGroup |-> Code!deleteGroup,
   listGroupMembers |-> Code!listGroupMembers, listGroupClusters |-> Code!listGroupClusters,
   listApplications |-> Code!listApplications, fetchApplicationConfig |-> Code!fetchApplicationConfig,
   fetchApplicationDocumentation |-> Code!fetchApplicationDocumentation,
   fetchApplicationVersions |-> Code!fetchApplicationVersions,
   installAdHocApplication |-> Code!installAdHocApplication,
   installApplication |-> Code!installApplication, updateCatalog |-> Code!updateCatalog,
   listApplicationInstances |-> Code!listApplicationInstances,
   fetchApplicationInstanceInfo |-> Code!fetchApplicationInstanceInfo,
   deleteApplicationInstance |-> Code!deleteApplicationInstance,
   restartApplicationInstance |-> Code!restartApplicationInstance,
   getApplicationInstanceLogs |-> Code!getApplicationInstanceLogs,
   getApplicationInstanceScale |-> Code!getApplicationInstanceScale,
   scaleApplicationInstance |-> Code!scaleApplicationInstance,
   updateApplicationInstance |-> Code!updateApplicationInstance,
   listSecrets |-> Code!listSecrets, createSecret |-> Code!createSecret, getSecret |-> Code!getSecret,
   deleteSecret |-> Code!deleteSecret, getStatistics |-> Code!getStatistics,
   listVolumeClaims |-> Code!listVolumeClaims, createVolumeClaim |-> Code!createVolumeClaim,
   fetchVolumeClaimInfo |-> Code!fetchVolumeClaimInfo, deleteVolumeClaim |-> Code!deleteVolumeClaim,
   serverVersionInfo |-> Code!serverVersionInfo, multiplex |-> Code!multiplex,
   unsupported |-> Code!unsupported]

(***************************************************************************)
(* The routes.  A path is the sequence of its segments; "*" is a parameter  *)
(* of the route, "**" the rest of the path.                                 *)
(***************************************************************************)
Route(method, path, handler) == [method |-> method, path |-> path, handler |-> handler]
V(path) == <<"v1alpha3">> \o path

userRoutes ==
  <<Route("POST", V(<<"multiplex">>), "multiplex"),
    Route("GET", V(<<"users">>), "listUsers"),
    Route("POST", V(<<"users">>), "createUser"),
    Route("GET", V(<<"users", "*">>), "getUserInfo"),
    Route("PUT", V(<<"users", "*">>), "updateUser"),
    Route("DELETE", V(<<"users", "*">>), "deleteUser"),
    Route("GET", V(<<"users", "*", "groups">>), "listUsergroups"),
    Route("PUT", V(<<"users", "*", "groups", "*">>), "addUserToGroup"),
    Route("DELETE", V(<<"users", "*", "groups", "*">>), "removeUserFromGroup"),
    Route("GET", V(<<"users", "*", "replace_token">>), "replaceUserToken"),
    Route("GET", V(<<"find_user">>), "findUser"),
    Route("GET", V(<<"whoami">>), "whoAreThey")>>

clusterRoutes ==
  <<Route("GET", V(<<"clusters">>), "listClusters"),
    Route("POST", V(<<"clusters">>), "createCluster"),
    Route("GET", V(<<"clusters", "*">>), "getClusterInfo"),
    Route("DELETE", V(<<"clusters", "*">>), "deleteCluster"),
    Route("PUT", V(<<"clusters", "*">>), "updateCluster"),
    Route("GET", V(<<"clusters", "*", "ping">>), "pingCluster"),
    Route("GET", V(<<"clusters", "*", "verify">>), "verifyCluster"),
    Route("GET", V(<<"clusters", "*", "allowed_groups">>), "listClusterAllowedgroups"),
    Route("GET", V(<<"clusters", "*", "allowed_groups", "*">>), "checkGroupClusterAccess"),
    Route("PUT", V(<<"clusters", "*", "allowed_groups", "*">>), "grantGroupClusterAccess"),
    Route("DELETE", V(<<"clusters", "*", "allowed_groups", "*">>), "revokeGroupClusterAccess"),
    Route("GET", V(<<"clusters", "*", "allowed_groups", "*", "applications">>),
          "listClusterGroupAllowedApplications"),
    Route("PUT", V(<<"clusters", "*", "allowed_groups", "*", "applications", "*">>),
          "allowGroupUseOfApplication"),
    Route("DELETE", V(<<"clusters", "*", "allowed_groups", "*", "applications", "*">>),
          "denyGroupUseOfApplication"),
    Route("GET", V(<<"clusters", "*", "monitoring_credential">>), "getClusterMonitoringCredential"),
    Route("DELETE", V(<<"clusters", "*", "monitoring_credential">>),
          "removeClusterMonitoringCredential")>>

credentialRoutes ==
  <<Route("GET", V(<<"monitoring_credentials">>), "listMonitoringCredentials"),
    Route("POST", V(<<"monitoring_credentials">>), "addMonitoringCredential"),
    Route("PUT", V(<<"monitoring_credentials", "*", "revoke">>), "revokeMonitoringCredential"),
    Route("DELETE", V(<<"monitoring_credentials", "*">>), "deleteMonitoringCredential")>>

groupRoutes ==
  <<Route("GET", V(<<"groups">>), "listGroups"),
    Route("POST", V(<<"groups">>), "createGroup"),
    Route("GET", V(<<"groups", "*">>), "getGroupInfo"),
    Route("PUT", V(<<"groups", "*">>), "updateGroup"),
    Route("DELETE", V(<<"groups", "*">>), "deleteGroup"),
    Route("GET", V(<<"groups", "*", "members">>), "listGroupMembers"),
    Route("GET", V(<<"groups", "*", "clusters">>), "listGroupClusters")>>

applicationRoutes ==
  <<Route("GET", V(<<"apps">>), "listApplications"),
    Route("GET", V(<<"apps", "*">>), "fetchApplicationConfig"),
    Route("GET", V(<<"apps", "*", "info">>), "fetchApplicationDocumentation"),
    Route("GET", V(<<"apps", "*", "versions">>), "fetchApplicationVersions"),
    Route("POST", V(<<"apps", "ad-hoc">>), "installAdHocApplication"),
    Route("POST", V(<<"apps", "*">>), "installApplication"),
    Route("POST", V(<<"update_apps">>), "updateCatalog")>>

instanceRoutes ==
  <<Route("GET", V(<<"instances">>), "listApplicationInstances"),
    Route("GET", V(<<"instances", "*">>), "fetchApplicationInstanceInfo"),
    Route("DELETE", V(<<"instances", "*">>), "deleteApplicationInstance"),
    Route("PUT", V(<<"instances", "*", "restart">>), "restartApplicationInstance"),
    Route("GET", V(<<"instances", "*", "logs">>), "getApplicationInstanceLogs"),
    Route("GET", V(<<"instances", "*", "scale">>), "getApplicationInstanceScale"),
    Route("PUT", V(<<"instances", "*", "scale">>), "scaleApplicationInstance"),
    Route("PUT", V(<<"instances", "*", "update">>), "updateApplicationInstance")>>

otherRoutes ==
  <<Route("GET", V(<<"secrets">>), "listSecrets"),
    Route("POST", V(<<"secrets">>), "createSecret"),
    Route("GET", V(<<"secrets", "*">>), "getSecret"),
    Route("DELETE", V(<<"secrets", "*">>), "deleteSecret"),
    Route("GET", V(<<"stats">>), "getStatistics"),
    Route("GET", V(<<"volumes">>), "listVolumeClaims"),
    Route("POST", V(<<"volumes">>), "createVolumeClaim"),
    Route("GET", V(<<"volumes", "*">>), "fetchVolumeClaimInfo"),
    Route("DELETE", V(<<"volumes", "*">>), "deleteVolumeClaim"),
    Route("GET", <<"version">>, "serverVersionInfo"),
    Route("GET", <<"*", "**">>, "unsupported")>>

Routes == userRoutes \o clusterRoutes \o credentialRoutes \o groupRoutes
            \o applicationRoutes \o instanceRoutes \o otherRoutes

Matches(route, method, path) ==
  /\ route.method = method
  /\ LET n == Len(route.path) IN
     /\ IF route.path[n] = "**" THEN Len(path) >= n ELSE Len(path) = n
     /\ \A i \in 1..n : route.path[i] \in {path[i], "*", "**"}

(* Of the routes that match, the server takes the one registered first:   *)
(* the ad-hoc installation before that of an application of this name,     *)
(* the fallback last.                                                      *)
Found(method, path) == {r \in DOMAIN Routes : Matches(Routes[r], method, path)}
Dispatch(method, path) == Routes[Min(Found(method, path))].handler

-----------------------------------------------------------------------------
ServerInit ==
  /\ endpoint = NoHandler /\ step = 0 /\ status = 0
  /\ known = <<>> /\ done = {}

(* A request arrives; given are the facts its sender has taken care of.   *)
(* A path without a route is answered 404.                                 *)
accept(method, path, given) ==
  /\ IF Found(method, path) = {}
     THEN endpoint' = NoHandler /\ status' = 404
     ELSE endpoint' = Dispatch(method, path) /\ status' = 0
  /\ step' = 1 /\ known' = [f \in given |-> TRUE] /\ done' = {}

Running == endpoint # NoHandler /\ status = 0
Now == Handler[endpoint][step]
AtStep(kind) == Running /\ step <= Len(Handler[endpoint]) /\ Now.kind = kind

(* The answers to the questions of this step; a fact asked for before     *)
(* keeps the answer it got.                                               *)
Answers == {[f \in DOMAIN known \cup Now.facts |->
               IF f \in DOMAIN known THEN known[f] ELSE new[f]] :
              new \in [Now.facts \ DOMAIN known -> BOOLEAN]}
Holds(answers) == \E f \in Now.facts : answers[f]

proceed == step' = step + 1 /\ status' = 0
answer(code) == status' = code /\ step' = step

askQuestions ==
  /\ AtStep("need")
  /\ known' \in Answers
  /\ IF Holds(known')
     THEN proceed /\ UNCHANGED done
     ELSE answer(Now.code) /\ done' \in {done, done \ Now.undo}
  /\ UNCHANGED endpoint

makeChange ==
  /\ AtStep("do")
  /\ done' = done \cup {Now.effect}
  /\ proceed
  /\ UNCHANGED <<endpoint, known>>

(* A change that is reported as failed may have been made in part.        *)
failChange ==
  /\ AtStep("do")
  /\ known' \in Answers
  /\ \E part \in {{}, {Now.effect}} :
       IF Holds(known')
       THEN proceed /\ done' = done \cup part
       ELSE answer(Now.code) /\ done' \in {done \cup part, (done \cup part) \ Now.undo}
  /\ UNCHANGED endpoint

tryChange ==
  /\ AtStep("try")
  /\ done' \in {done, done \cup {Now.effect}}
  /\ proceed
  /\ UNCHANGED <<endpoint, known>>

succeed ==
  /\ Running /\ step > Len(Handler[endpoint])
  /\ answer(200)
  /\ UNCHANGED <<endpoint, known, done>>

ServerNext == askQuestions \/ makeChange \/ failChange \/ tryChange \/ succeed

-----------------------------------------------------------------------------
(* A request that is refused (any answer from 400 to 499) has changed      *)
(* nothing, in the store, on a cluster or outside: every handler makes its *)
(* checks before its first change.                                         *)
RefusedUnchanged == status \in 400..499 => done = {}

Admitted(fact) == fact \in DOMAIN known /\ known[fact]

(* Who may cause which change, stated once for all handlers.               *)
Entitled(effect) ==
  CASE effect = "users"       -> Admitted("admin") \/ Admitted("self")
    [] effect = "memberships" -> \/ Admitted("admin") \/ Admitted("member") \/ Admitted("self")
                                 \/ endpoint = "createGroup"
    [] effect = "groups"      -> \/ Admitted("admin") \/ Admitted("member")
                                 \/ endpoint = "createGroup"
    [] effect \in {"access", "permissions"}   -> Admitted("admin") \/ Admitted("hosts")
    [] effect \in {"clusters", "credentials"} ->
         Admitted("admin") \/ Admitted("hosts") \/ Admitted("member")
    [] effect \in {"instances", "secrets", "volumes", "objects", "namespace"} ->
         \/ Admitted("admin") \/ Admitted("hosts")
         \/ Admitted("member") /\ (endpoint \in {"createSecret", "createVolumeClaim",
                                                 "installApplication", "installAdHocApplication"}
                                     => Admitted("owns") \/ Admitted("access"))
    [] OTHER -> TRUE

(* Whatever a handler changes, it has first established that the token is  *)
(* a user's and that this user is entitled to the change: an administrator,*)
(* the user concerned, a member of the group that owns the object, or of   *)
(* the group that owns the cluster; and new objects are only put where the *)
(* group owns the cluster or has been granted access to it.                *)
EffectsAuthorized ==
  \A effect \in done : Admitted("user") /\ Entitled(effect)
=============================================================================

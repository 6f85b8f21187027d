------------------------------- MODULE Client -------------------------------
(***************************************************************************)
(* The command line client (src/client/Client.cpp) running one command     *)
(* against the API server (module Server).                                 *)
(*                                                                         *)
(* A command checks its input, asks the user to confirm what cannot be     *)
(* taken back, sends requests and judges the answers.  It ends as          *)
(*   "done"     it reported success and the process exits with status 0,   *)
(*   "stopped"  it gave up with a message but still exits with status 0,   *)
(*   "failed"   it threw, and the process exits with an error.             *)
(* The connection may fail while the client waits: the server goes on with *)
(* the request all the same.                                               *)
(***************************************************************************)
EXTENDS Server

CONSTANT MaxFixups   \* how often the user accepts a guessed instance ID

ASSUME MaxFixupsAssumption == MaxFixups \in Nat

VARIABLES
  command,    \* the command that runs
  script,     \* "command", or "fixup" while it looks for a better instance ID
  line,       \* the number of its next step
  asked,      \* what it found out about its input, and what the user said
  waiting,    \* TRUE while a request is under way
  lost,       \* TRUE if the connection failed while the client waited
  outcome,    \* how it ended, "running" until then
  caused,     \* what its finished requests changed
  fixups      \* how often the instance ID was replaced

clientVars == <<command, script, line, asked, waiting, lost, outcome, caused, fixups>>
requestVars == <<clientVars, serverVars>>

(***************************************************************************)
(* The kinds of step.  Check ends the command as otherwise unless one of   *)
(* the facts holds; Skip leaves out the next two steps if one does.  Send  *)
(* sends one of the requests; an answer other than 200 ends the command as *)
(* otherwise, and 404 as notFound.  Ending as "fixup" means to look for a  *)
(* better instance ID and to start again, as "ignored" to go on, and as    *)
(* "printed" to go on or to fail, depending on the output format.          *)
(***************************************************************************)
CStep(kind, facts, otherwise) ==
  [kind |-> kind, facts |-> facts, otherwise |-> otherwise, notFound |-> otherwise,
   requests |-> {}, given |-> {}]
Check(facts, otherwise) == CStep("check", facts, otherwise)
Skip(facts)             == CStep("skip", facts, "none")
Url(method, path)       == [method |-> method, path |-> V(path)]
SendOne(requests, given, otherwise, notFound) ==
  [CStep("send", {}, otherwise) EXCEPT !.requests = requests, !.given = given,
                                       !.notFound = notFound]
Send(method, path, given) == SendOne({Url(method, path)}, given, "failed", "failed")
Get(path) == Send("GET", path, {})

Body == {"json", "object", "fields"}

(***************************************************************************)
(* Groups and users.                                                       *)
(***************************************************************************)
(* What goes wrong here is reported and then passed over. *)
printVersion == <<SendOne({[method |-> "GET", path |-> <<"version">>]}, {}, "ignored", "ignored")>>

(* Whether to replace this program; module Archives has the rest.  One     *)
(* without a version number is always out of date.                         *)
upgrade ==
  <<Check({"released"}, "failed"), Check({"unversioned", "newer"}, "stopped"),
    Check({"build"}, "failed"), Check({"assumeYes", "yes"}, "failed"), Check({"download"}, "failed")>>

createGroup == <<Send("POST", <<"groups">>, Body)>>

updateGroup ==
  <<Check({"updates"}, "stopped"), Send("PUT", <<"groups", "x">>, Body \cup {"changes"})>>

(* A deletion first shows what is to be deleted and asks, unless told not  *)
(* to; declining is an error.                                              *)
confirmDeletion(path, skip) ==
  <<Skip(skip), Get(path), Check({"yes"}, "failed")>>

deleteGroup ==
  confirmDeletion(<<"groups", "x">>, {"assumeYes"}) \o <<Send("DELETE", <<"groups", "x">>, {})>>

getGroupInfo == <<Get(<<"groups", "x">>)>>

listGroups == <<Get(<<"groups">>)>>

fetchCurrentProfile == <<Get(<<"whoami">>)>>

getUserInfo == <<Check({"verifyUserID"}, "stopped"), Get(<<"users", "x">>)>>

listUsers == <<Check({"noGroup", "verifyGroupID"}, "stopped"), Get(<<"users">>)>>

(* The user concerned: the one of the given ID, or the caller. *)
fetchUser ==
  <<Check({"noID", "verifyUserID"}, "stopped"),
    SendOne({Url("GET", <<"whoami">>), Url("GET", <<"users", "x">>)}, {}, "failed", "failed")>>

listUserGroups == fetchUser \o <<Get(<<"users", "x", "groups">>)>>

createUser == <<Send("POST", <<"users">>, Body)>>

removeUser ==
  <<Check({"verifyUserID"}, "stopped"), Get(<<"users", "x">>), Check({"yes"}, "stopped"),
    Send("DELETE", <<"users", "x">>, {})>>

updateUser == fetchUser \o <<Send("PUT", <<"users", "x">>, Body)>>

addUserToGroup ==
  <<Check({"verifyUserID"}, "stopped"), Send("PUT", <<"users", "x", "groups", "x">>, {})>>

removeUserFromGroup ==
  <<Check({"verifyUserID"}, "stopped"), Send("DELETE", <<"users", "x", "groups", "x">>, {})>>

(* Replacing a token is a GET request that changes the store. *)
updateUserToken ==
  fetchUser \o <<Check({"yes"}, "stopped"),
                 SendOne({Url("GET", <<"whoami">>)}, {}, "ignored", "ignored"),
                 Get(<<"users", "x", "replace_token">>)>>

-----------------------------------------------------------------------------
(* Clusters. *)

getClusterList == <<Get(<<"clusters">>)>>

listClusters == getClusterList

listClustersAccessibleToGroup ==
  getClusterList \o <<Send("POST", <<"multiplex">>, Body \cup {"stringBody"}), Check({"items"}, "failed")>>

(* Of several files the first is taken, after a question.                  *)
getKubeconfigPath(unless) ==
  <<Check(unless \cup {"oneFile", "yes"}, "failed"), Check(unless \cup {"kubeconfig"}, "failed")>>

(* The cluster is prepared first (module Registration). *)
createCluster ==
  <<Check({"name"}, "failed")>> \o getKubeconfigPath({})
    \o <<Check({"token"}, "failed"), Check({"prepared"}, "failed"),
         Send("POST", <<"clusters">>, Body)>>

updateCluster ==
  <<Check({"token"}, "failed")>> \o getKubeconfigPath({"sameKubeconfig"})
    \o <<Check({"sameKubeconfig", "prepared"}, "failed"), Send("PUT", <<"clusters", "x">>, Body)>>

deleteCluster ==
  confirmDeletion(<<"clusters", "x">>, {"assumeYes", "force"})
    \o <<Send("DELETE", <<"clusters", "x">>, {})>>

getClusterInfo == <<Get(<<"clusters", "x">>)>>

grantGroupClusterAccess == <<Send("PUT", <<"clusters", "x", "allowed_groups", "x">>, {})>>

revokeGroupClusterAccess == <<Send("DELETE", <<"clusters", "x", "allowed_groups", "x">>, {})>>

listGroupWithAccessToCluster == <<Get(<<"clusters", "x", "allowed_groups">>)>>

listAllowedApplications == <<Get(<<"clusters", "x", "allowed_groups", "x", "applications">>)>>

allowGroupUseOfApplication ==
  <<Send("PUT", <<"clusters", "x", "allowed_groups", "x", "applications", "x">>, {})>>

denyGroupUseOfApplication ==
  <<Send("DELETE", <<"clusters", "x", "allowed_groups", "x", "applications", "x">>, {})>>

(* With JSON output the answer is printed whatever it is. *)
pingCluster ==
  <<SendOne({Url("GET", <<"clusters", "x", "ping">>)}, {}, "printed", "printed")>>

-----------------------------------------------------------------------------
(* Applications and their instances. *)

listApplications == <<Get(<<"apps">>)>>

getApplicationConf == <<Get(<<"apps", "x">>), Check({"toScreen", "writable"}, "failed")>>

getApplicationVersions == <<Get(<<"apps", "x", "versions">>), Check({"toScreen", "writable"}, "failed")>>

getApplicationDocs == <<Get(<<"apps", "x", "info">>), Check({"toScreen", "writable"}, "failed")>>

installApplication ==
  <<Check({"noConfig", "configRead"}, "failed"), Check({"remoteChart", "chartRead"}, "failed"),
    SendOne({Url("POST", <<"apps", "x">>), Url("POST", <<"apps", "ad-hoc">>)}, Body,
            "failed", "failed")>>

listInstances == <<Get(<<"instances">>)>>

byInstanceID == <<Check({"verifyInstanceID"}, "fixup")>>
SendInstance(method, path, given) == SendOne({Url(method, path)}, given, "failed", "fixup")

getInstanceInfo == byInstanceID \o <<SendInstance("GET", <<"instances", "x">>, {})>>

restartInstance == byInstanceID \o <<SendInstance("PUT", <<"instances", "x", "restart">>, {})>>

updateInstance ==
  byInstanceID \o <<Check({"noConfig", "configRead"}, "failed"),
                    SendInstance("PUT", <<"instances", "x", "update">>, Body)>>

deleteInstance ==
  byInstanceID \o <<Skip({"assumeYes", "force"}), SendInstance("GET", <<"instances", "x">>, {}),
                    Check({"yes"}, "failed"), SendInstance("DELETE", <<"instances", "x">>, {})>>

fetchInstanceLogs ==
  byInstanceID \o <<SendInstance("GET", <<"instances", "x", "logs">>, {}), Check({"logs"}, "failed")>>

scaleInstance ==
  byInstanceID \o <<SendOne({Url("GET", <<"instances", "x", "scale">>),
                             Url("PUT", <<"instances", "x", "scale">>)},
                            {"parameter"}, "failed", "fixup")>>

(* Looking for a better instance ID: none of its failures is an error. *)
retryInstanceCommandWithFixup ==
  <<Check({"enableFixup"}, "stopped"),
    SendOne({Url("GET", <<"instances">>)}, {}, "stopped", "stopped"),
    Check({"candidates"}, "stopped"), Check({"useGuess"}, "stopped")>>

-----------------------------------------------------------------------------
(* Secrets and volumes. *)

listSecrets == <<Send("GET", <<"secrets">>, {"parameter"})>>

getSecretInfo == <<Check({"verifySecretID"}, "failed"), Get(<<"secrets", "x">>)>>

createSecret == <<Check({"pairs"}, "stopped"), Send("POST", <<"secrets">>, Body)>>

copySecret == <<Check({"verifySecretID"}, "failed"), Send("POST", <<"secrets">>, Body)>>

deleteSecret ==
  <<Check({"verifySecretID"}, "failed")>>
    \o confirmDeletion(<<"secrets", "x">>, {"assumeYes", "force"})
    \o <<Send("DELETE", <<"secrets", "x">>, {})>>

listVolumes == <<Get(<<"volumes">>)>>

getVolumeInfo == <<Check({"verifyVolumeID"}, "failed"), Get(<<"volumes", "x">>)>>

createVolume == <<Send("POST", <<"volumes">>, Body)>>

deleteVolume ==
  <<Check({"verifyVolumeID"}, "failed")>>
    \o confirmDeletion(<<"volumes", "x">>, {"assumeYes", "force"})
    \o <<Send("DELETE", <<"volumes", "x">>, {})>>

(* Any other program that talks to the server, the web portal for one:     *)
(* it takes care of nothing, and may ask for what has no route.            *)
otherClient ==
  <<SendOne({[method |-> r.method, path |-> [i \in DOMAIN r.path |->
                IF r.path[i] \in {"*", "**"} THEN "x" ELSE r.path[i]]] :
               r \in {Routes[i] : i \in DOMAIN Routes}}
              \cup {[method |-> "PUT", path |-> <<"x">>]},
            {}, "failed", "failed")>>

-----------------------------------------------------------------------------
(* The commands of src/client/slate_client.cpp. *)

Command ==
  [printVersion |-> printVersion, upgrade |-> upgrade, createGroup |-> createGroup,
   updateGroup |-> updateGroup,
   deleteGroup |-> deleteGroup, getGroupInfo |-> getGroupInfo, listGroups |-> listGroups,
   fetchCurrentProfile |-> fetchCurrentProfile, getUserInfo |-> getUserInfo,
   listUsers |-> listUsers, listUserGroups |-> listUserGroups, createUser |-> createUser,
   removeUser |-> removeUser, updateUser |-> updateUser, addUserToGroup |-> addUserToGroup,
   removeUserFromGroup |-> removeUserFromGroup, updateUserToken |-> updateUserToken,
   listClusters |-> listClusters, createCluster |-> createCluster,
   listClustersAccessibleToGroup |-> listClustersAccessibleToGroup,
   updateCluster |-> updateCluster, deleteCluster |-> deleteCluster,
   getClusterInfo |-> getClusterInfo, grantGroupClusterAccess |-> grantGroupClusterAccess,
   revokeGroupClusterAccess |-> revokeGroupClusterAccess,
   listGroupWithAccessToCluster |-> listGroupWithAccessToCluster,
   listAllowedApplications |-> listAllowedApplications,
   allowGroupUseOfApplication |-> allowGroupUseOfApplication,
   denyGroupUseOfApplication |-> denyGroupUseOfApplication, pingCluster |-> pingCluster,
   listApplications |-> listApplications, getApplicationConf |-> getApplicationConf,
   getApplicationVersions |-> getApplicationVersions, getApplicationDocs |-> getApplicationDocs,
   installApplication |-> installApplication, listInstances |-> listInstances,
   getInstanceInfo |-> getInstanceInfo, restartInstance |-> restartInstance,
   updateInstance |-> updateInstance, deleteInstance |-> deleteInstance,
   fetchInstanceLogs |-> fetchInstanceLogs, scaleInstance |-> scaleInstance,
   listSecrets |-> listSecrets, getSecretInfo |-> getSecretInfo, createSecret |-> createSecret,
   copySecret |-> copySecret, deleteSecret |-> deleteSecret, listVolumes |-> listVolumes,
   getVolumeInfo |-> getVolumeInfo, createVolume |-> createVolume,
   deleteVolume |-> deleteVolume, otherClient |-> otherClient]

ClientInit ==
  /\ command \in DOMAIN Command
  /\ script = "command" /\ line = 1 /\ asked = <<>>
  /\ waiting = FALSE /\ lost = FALSE /\ outcome = "running" /\ caused = {} /\ fixups = 0

Script == IF script = "fixup" THEN retryInstanceCommandWithFixup ELSE Command[command]
Doing == Script[line]
Busy(kind) == /\ outcome = "running" /\ ~waiting
              /\ line <= Len(Script) /\ Doing.kind = kind

Findings == {[f \in DOMAIN asked \cup Doing.facts |->
                IF f \in DOMAIN asked THEN asked[f] ELSE new[f]] :
               new \in [Doing.facts \ DOMAIN asked -> BOOLEAN]}
Found1(findings) == \E f \in Doing.facts : findings[f]

goOn(n) == line' = line + n /\ UNCHANGED <<script, outcome>>
endAs(result) ==
  CASE result = "fixup"   -> script' = "fixup" /\ line' = 1 /\ UNCHANGED outcome
    [] result = "ignored" -> goOn(1)
    [] result = "printed" -> goOn(1) \/ (outcome' = "failed" /\ UNCHANGED <<script, line>>)
    [] OTHER -> outcome' = result /\ UNCHANGED <<script, line>>

checkInput ==
  /\ Busy("check")
  /\ asked' \in Findings
  /\ IF Found1(asked') THEN goOn(1) ELSE endAs(Doing.otherwise)
  /\ UNCHANGED <<command, waiting, lost, caused, fixups, serverVars>>

skipSteps ==
  /\ Busy("skip")
  /\ asked' \in Findings
  /\ IF Found1(asked') THEN goOn(3) ELSE goOn(1)
  /\ UNCHANGED <<command, waiting, lost, caused, fixups, serverVars>>

(* makeURL: the address of the server and the token of the user are given  *)
(* to the client or read from files when they are first needed.  Without   *)
(* an address the default is used; a file that cannot be read, a token     *)
(* that others can read or an address that is no URL (module Texts) ends   *)
(* the command.                                                            *)
Configuration == {"endpoint", "token"}

readOrThrow(setting) ==
  /\ Busy("send") /\ setting \notin DOMAIN asked
  /\ \/ /\ asked' = [f \in DOMAIN asked \cup {setting} |-> f = setting \/ asked[f]]
        /\ UNCHANGED outcome
     \/ outcome' = "failed" /\ UNCHANGED asked
  /\ UNCHANGED <<command, script, line, waiting, lost, caused, fixups, serverVars>>

getEndpoint == readOrThrow("endpoint")
getToken    == "endpoint" \in DOMAIN asked /\ command # "printVersion" /\ readOrThrow("token")

(* One request of the step under way.  The calls of HTTPRequests.cpp set   *)
(* no time limit: an answer, or the end of the connection, ends the wait.  *)
httpRequest(method, given) ==
  /\ Busy("send")
  /\ Configuration \ (IF command = "printVersion" THEN {"token"} ELSE {}) \subseteq DOMAIN asked
  /\ \E r \in Doing.requests : r.method = method /\ accept(method, r.path, given)
  /\ waiting' = TRUE
  /\ UNCHANGED <<command, script, line, asked, lost, outcome, caused, fixups>>

(* These two send no body. *)
httpGet    == httpRequest("GET", Doing.given \ Body)
httpDelete == httpRequest("DELETE", Doing.given \ Body)
httpPut    == httpRequest("PUT", Doing.given)
httpPost   == httpRequest("POST", Doing.given)

receiveAnswer ==
  /\ waiting /\ status # 0 /\ ~lost
  /\ waiting' = FALSE
  /\ caused' = caused \cup done
  /\ CASE status = 200 -> goOn(1)
       [] status = 404 -> endAs(Doing.notFound)
       [] OTHER        -> endAs(Doing.otherwise)
  /\ UNCHANGED <<command, asked, lost, fixups, serverVars>>

(* The connection fails; httpRequests throws. *)
loseConnection ==
  /\ waiting /\ ~lost
  /\ lost' = TRUE
  /\ outcome' = IF command = "printVersion" THEN "done" ELSE "failed"
  /\ UNCHANGED <<command, script, line, asked, waiting, caused, fixups, serverVars>>

(* With the ID that was accepted the command starts again. *)
startAgain ==
  /\ outcome = "running" /\ ~waiting /\ script = "fixup" /\ line > Len(Script)
  /\ fixups < MaxFixups
  /\ fixups' = fixups + 1
  /\ script' = "command" /\ line' = 1
  /\ asked' = [f \in Configuration |-> TRUE]
  /\ UNCHANGED <<command, waiting, lost, outcome, caused, serverVars>>

reportSuccess ==
  /\ outcome = "running" /\ ~waiting /\ script = "command" /\ line > Len(Script)
  /\ outcome' = "done"
  /\ UNCHANGED <<command, script, line, asked, waiting, lost, caused, fixups, serverVars>>

RequestInit == ClientInit /\ ServerInit
RequestNext ==
  \/ checkInput \/ skipSteps \/ getEndpoint \/ getToken
  \/ httpGet \/ httpDelete \/ httpPut \/ httpPost
  \/ receiveAnswer \/ loseConnection \/ startAgain \/ reportSuccess
  \/ ServerNext /\ UNCHANGED clientVars
RequestSpec == RequestInit /\ [][RequestNext]_requestVars

-----------------------------------------------------------------------------
(* What a command that reports success says has happened.  Access is not   *)
(* recorded for the owning group itself.                                   *)
Promise(c) ==
  CASE c = "createGroup" -> {"groups", "memberships"}
    [] c \in {"updateGroup", "deleteGroup"} -> {"groups"}
    [] c \in {"createUser", "removeUser", "updateUser", "updateUserToken"} -> {"users"}
    [] c \in {"addUserToGroup", "removeUserFromGroup"} -> {"memberships"}
    [] c \in {"createCluster", "deleteCluster"} -> {"clusters"}
    [] c = "revokeGroupClusterAccess" -> {"access"}
    [] c \in {"allowGroupUseOfApplication", "denyGroupUseOfApplication"} -> {"permissions"}
    [] c = "installApplication" -> {"instances", "namespace", "objects"}
    [] c \in {"restartInstance", "updateInstance"} -> {"namespace", "objects"}
    [] c = "deleteInstance" -> {"instances"}
    [] c \in {"createSecret", "copySecret"} -> {"secrets", "namespace", "objects"}
    [] c = "deleteSecret" -> {"secrets"}
    [] c = "createVolume" -> {"volumes", "namespace", "objects"}
    [] c = "deleteVolume" -> {"volumes"}
    [] OTHER -> {}

(* A command that reports success has had its effect: the store holds what *)
(* it says and, for workloads, the cluster was told, although the client   *)
(* only sees the status of the answer.                                     *)
SuccessMeansDone == outcome = "done" => Promise(command) \subseteq caused

(* Nothing is changed halfway by a check that comes too late: a refused    *)
(* request has changed nothing (Server!RefusedUnchanged), and a command    *)
(* that ends without an error and without success (an ID of the wrong      *)
(* form, a declined confirmation, no better guess) has changed nothing,    *)
(* however many requests it sent and started again.                        *)
NothingHalfway == RefusedUnchanged /\ (outcome = "stopped" => caused = {})
=============================================================================

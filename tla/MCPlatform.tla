----------------------------- MODULE MCPlatform -----------------------------
(***************************************************************************)
(* The parts of the platform - the start of the server, its child          *)
(* processes, the records and configs of clusters, access to a cluster one *)
(* request at a time, the registration of a cluster, monitoring of a       *)
(* cluster, archives and the client's progress display - share no state.   *)
(* They are checked together: a behaviour is one of one part, which the    *)
(* initial state chooses, while the others stand still in one of their     *)
(* initial states.                                                         *)
(***************************************************************************)
EXTENDS Startup, Processes, ClusterRecords, ClusterAccess, Registration, Monitoring, Archives, Progress

VARIABLE part

Parts == {"startup", "processes", "clusters", "access", "registration", "monitoring", "archives", "progress"}
Chosen(p) == part = p

PlatformInit ==
  /\ part \in Parts
  /\ ClusterInit /\ MonitoringInit
  /\ StartupInit /\ (~Chosen("startup") => table = "moncreds" /\ repos = {} /\ exists = "absent")
  /\ ProcessInit /\ (~Chosen("processes") => \A c \in Calls, s \in Streams : unwritten[c][s] = 0)
  /\ Init /\ (~Chosen("access") => items = {})
  /\ RegistrationInit
  /\ ~Chosen("registration") =>
       /\ kube.controller = "none" /\ kube.namespace = "none"
       /\ ~kube.balancer /\ kube.ingress = "none" /\ ~task.noIngress
  /\ ArchiveInit /\ (~Chosen("archives") => cargo = "release" /\ Len(archive) = 2)
  /\ ProgressInit
  /\ ~Chosen("progress") =>
       display.nesting = 0 /\ ~display.actuallyShowing /\ ~display.repeat /\ ~display.verbose

(* Only the chosen part moves.                                             *)
Only(p) ==
  /\ Chosen(p) /\ UNCHANGED part
  /\ p # "startup" => UNCHANGED startupVars
  /\ p # "processes" => UNCHANGED processVars
  /\ p # "clusters" => UNCHANGED clusterVars
  /\ p # "access" => UNCHANGED vars
  /\ p # "registration" => UNCHANGED registrationVars
  /\ p # "monitoring" => UNCHANGED monitoringVars
  /\ p # "archives" => UNCHANGED archiveVars
  /\ p # "progress" => UNCHANGED progressVars

PlatformNext ==
  \/ Only("startup") /\ StartupNext
  \/ Only("processes") /\ ProcessNext
  \/ Only("clusters") /\ ClusterNext
  \/ Only("access") /\ Next
  \/ Only("registration") /\ RegistrationNext
  \/ Only("monitoring") /\ MonitoringNext
  \/ Only("archives") /\ ArchiveNext
  \/ Only("progress") /\ ProgressNext

platformVars == <<part, startupVars, processVars, clusterVars, vars, registrationVars,
                  monitoringVars, archiveVars, progressVars>>

(* The fairness of each part, while it is the one that moves: the threads  *)
(* of the server and the client go on, and so do the database, the cluster *)
(* and time.  No request or command need ever come.                        *)
PlatformFairness ==
  /\ WF_startupVars(Chosen("startup") /\ StartStep) /\ WF_startupVars(Chosen("startup") /\ Database)
  /\ WF_processVars(Chosen("processes") /\ reapProcesses)
  /\ \A c \in Calls : /\ WF_processVars(Chosen("processes") /\ runCommand(c))
                      /\ WF_processVars(Chosen("processes") /\ runChild(c))
  /\ WF_clusterVars(Chosen("clusters") /\ expireRecord)
  /\ \A r \in ClusterRequests : WF_clusterVars(Chosen("clusters") /\ serveCluster(r))
  /\ WF_registrationVars(Chosen("registration") /\ clientStep)
  /\ WF_registrationVars(Chosen("registration") /\ clusterWorks)
  /\ WF_archiveVars(Chosen("archives") /\ archiveStep)
  /\ WF_progressVars(Chosen("progress") /\ printProgress)
  /\ WF_progressVars(Chosen("progress") /\ closeProgress)

PlatformSpec == PlatformInit /\ [][PlatformNext]_platformVars /\ PlatformFairness

-----------------------------------------------------------------------------
(* What the server waits for comes to an end: its start, whatever the      *)
(* configuration files include and however slow the database is            *)
(* (PersistentStore::InitializeTables), and each helm or kubectl command   *)
(* for which it has made pipes, although other children may hold them open *)
(* (startProcessAsync, runCommand); unless the reaper missed a signal.     *)
(* And once no more configs are stored, commands run in the end with the   *)
(* stored kubeconfig, although a record is seen before its file is written *)
(* and files may be written out of order (writeClusterConfigToDisk).       *)
ServerSettles ==
  /\ (\/ Chosen("startup") /\ phase = "config"
      \/ Chosen("processes") /\ \E c \in Calls : caller[c] = "pipes")
     ~> (\/ Chosen("startup") /\ StartOver
         \/ Chosen("processes") /\ (CommandsOver \/ signalLost))
  /\ ConfigSettles

(* What the client waits for comes to an end: a command on a cluster,      *)
(* although registering waits for four things without a limit, unless the  *)
(* old nrp-controller is kept (ClusterRegistration, Client::createCluster);*)
(* an archive is unpacked or refused, unless zlib leaves bytes over at the *)
(* end of a block that was not full (gzipDecompress); and once the         *)
(* ProgressManager is being destroyed its second thread ends, whatever is  *)
(* queued, hidden or nested.                                               *)
ClientEnds ==
  (\/ Chosen("registration") /\ ~RegistrationOver
   \/ Chosen("archives") /\ stage = "inflating"
   \/ Chosen("progress") /\ display.stop)
  ~> (\/ Chosen("registration") /\ (RegistrationOver \/ OldControllerKept)
      \/ Chosen("archives") /\ (TransferOver \/ Spinning)
      \/ Chosen("progress") /\ DisplayOver)
=============================================================================

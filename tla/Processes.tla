----------------------------- MODULE Processes -----------------------------
(***************************************************************************)
(* The child processes of the server (src/Process.cpp).  Every request that *)
(* touches a cluster runs kubectl or helm with runCommand, each in its own  *)
(* thread; one reaper thread collects the exit statuses and passes them on  *)
(* through processTable, which a child may reach before its handle does.    *)
(***************************************************************************)
EXTENDS Naturals, FiniteSets

CONSTANTS
  Calls,          \* the calls of runCommand, one child each
  PipeCapacity,   \* how much a pipe holds before its writer blocks
  OutputLength,   \* how much a child writes at most to its standard output
  ErrorLength,    \* how much it writes at most to its standard error
  Inherits        \* whether children inherit the pipes of other calls, which
                  \* they do from the 16th file descriptor (FOPEN_MAX) on

(* The output is read to its end before the errors, so that a child that   *)
(* fills the pipe of its errors first would never be read.                 *)
ASSUME ProcessAssumption ==
  /\ PipeCapacity \in Nat \ {0} /\ OutputLength \in Nat
  /\ ErrorLength \in 0..PipeCapacity /\ Inherits \in BOOLEAN

VARIABLES
  caller,         \* where each call is
  child,          \* "none", "running", "exited" (a zombie) or "reaped"
  unwritten,      \* what each child has still to write, per stream
  pipe,           \* what each pipe of a call holds, per stream
  writers,        \* the other children that hold the write ends of a call's pipes
  processTable,   \* "none", "handle" or "status", per child
  hasExitStatus,  \* whether a call's handle knows the exit status
  reapFlag,       \* set by the handler of SIGCHLD
  reaper,         \* where the reaper thread is
  reaped,         \* the child whose status it passes on
  signalLost      \* whether it reset the flag after a child had exited

callVars == <<caller, unwritten, pipe, writers>>
reaperVars == <<reaper, reaped, signalLost>>
processVars == <<callVars, child, processTable, hasExitStatus, reapFlag, reaperVars>>

Streams == {"out", "err"}
Nobody == "nobody"

-----------------------------------------------------------------------------
(* A call of runCommand.                                                   *)

(* Arguments and environment are copied, then the program is looked for,   *)
(* in PATH unless it is given with its directory; an exception ends the    *)
(* call when there is none.                                                *)
locateProgram(c) ==
  /\ caller[c] = "called"
  /\ \E found \in BOOLEAN : caller' = [caller EXCEPT ![c] = IF found THEN "ready" ELSE "refused"]
  /\ UNCHANGED <<unwritten, pipe, writers, child, processTable, hasExitStatus, reapFlag, reaperVars>>

(* Also when the descriptors do not suffice for three pipes.               *)
createPipes(c) ==
  /\ caller[c] = "ready"
  /\ \E enough \in BOOLEAN : caller' = [caller EXCEPT ![c] = IF enough THEN "pipes" ELSE "refused"]
  /\ UNCHANGED <<unwritten, pipe, writers, child, processTable, hasExitStatus, reapFlag, reaperVars>>

(* The new child closes what it does not need only up to FOPEN_MAX.        *)
forkChild(c) ==
  /\ caller[c] = "pipes"
  /\ caller' = [caller EXCEPT ![c] = "forked"]
  /\ child' = [child EXCEPT ![c] = "running"]
  /\ writers' = [d \in Calls |->
                   IF Inherits /\ d # c /\ caller[d] \in {"pipes", "forked"}
                   THEN writers[d] \cup {c} ELSE writers[d]]
  /\ UNCHANGED <<unwritten, pipe, processTable, hasExitStatus, reapFlag, reaperVars>>

(* What would lose a status: to register without looking for it.           *)
registerAnyway(c) ==
  /\ caller[c] = "forked"
  /\ caller' = [caller EXCEPT ![c] = "out"]
  /\ processTable' = [processTable EXCEPT ![c] = "handle"]
  /\ UNCHANGED <<unwritten, pipe, writers, child, hasExitStatus, reapFlag, reaperVars>>

(* The handle registers itself, or finds that its child has ended already; *)
(* then the parent's copies of the write ends are closed.                  *)
registerHandle(c) ==
  /\ caller[c] = "forked"
  /\ caller' = [caller EXCEPT ![c] = "out"]
  /\ IF processTable[c] = "status"
     THEN /\ hasExitStatus' = [hasExitStatus EXCEPT ![c] = TRUE]
          /\ processTable' = [processTable EXCEPT ![c] = "none"]
     ELSE /\ processTable' = [processTable EXCEPT ![c] = "handle"]
          /\ UNCHANGED hasExitStatus
  /\ UNCHANGED <<unwritten, pipe, writers, child, reapFlag, reaperVars>>

AfterStream == [out |-> "err", err |-> "status"]
EndOfFile(c) == child[c] # "running" /\ \A d \in writers[c] : child[d] # "running"

(* What would hang: to read only after the child has ended.                *)
readWhenOver(c) ==
  /\ caller[c] = "out" /\ hasExitStatus[c]
  /\ caller' = [caller EXCEPT ![c] = "status"]
  /\ pipe' = [pipe EXCEPT ![c] = [s \in Streams |-> 0]]
  /\ UNCHANGED <<unwritten, writers, child, processTable, hasExitStatus, reapFlag, reaperVars>>

(* collectChildOutput: first the output to its end, then the errors.       *)
readStream(c) ==
  /\ caller[c] \in Streams
  /\ LET s == caller[c] IN
     \/ /\ pipe[c][s] > 0
        /\ pipe' = [pipe EXCEPT ![c][s] = 0]
        /\ UNCHANGED caller
     \/ /\ pipe[c][s] = 0 /\ EndOfFile(c)
        /\ caller' = [caller EXCEPT ![c] = AfterStream[s]]
        /\ UNCHANGED pipe
  /\ UNCHANGED <<unwritten, writers, child, processTable, hasExitStatus, reapFlag, reaperVars>>

done(c) == hasExitStatus[c]

awaitStatus(c) ==
  /\ caller[c] = "status" /\ done(c)
  /\ caller' = [caller EXCEPT ![c] = "over"]
  /\ UNCHANGED <<unwritten, pipe, writers, child, processTable, hasExitStatus, reapFlag, reaperVars>>

(* The handle is destroyed.  It sends SIGTERM to a process that is gone    *)
(* (shutDown) and forgets itself in the table, should it be there.         *)
destroyHandle(c) ==
  /\ caller[c] = "over"
  /\ caller' = [caller EXCEPT ![c] = "destroyed"]
  /\ processTable' = [processTable EXCEPT ![c] = IF @ = "handle" THEN "none" ELSE @]
  /\ UNCHANGED <<unwritten, pipe, writers, child, hasExitStatus, reapFlag, reaperVars>>

-----------------------------------------------------------------------------
(* The children.                                                           *)

writeStream(c, s) ==
  /\ child[c] = "running" /\ unwritten[c][s] > 0 /\ pipe[c][s] < PipeCapacity
  /\ pipe' = [pipe EXCEPT ![c][s] = @ + 1]
  /\ unwritten' = [unwritten EXCEPT ![c][s] = @ - 1]
  /\ UNCHANGED <<caller, writers, child, processTable, hasExitStatus, reapFlag, reaperVars>>

(* A child ends, and the signal sets the flag.                             *)
exitChild(c) ==
  /\ child[c] = "running" /\ \A s \in Streams : unwritten[c][s] = 0
  /\ child' = [child EXCEPT ![c] = "exited"]
  /\ reapFlag' = TRUE
  /\ UNCHANGED <<callVars, processTable, hasExitStatus, reaperVars>>

-----------------------------------------------------------------------------
(* The reaper, every millisecond: reapProcesses.                           *)

Exited == {c \in Calls : child[c] = "exited"}

checkFlag ==
  /\ reaper = "sleeping" /\ reapFlag
  /\ reaper' = "polling"
  /\ UNCHANGED <<callVars, child, processTable, hasExitStatus, reapFlag, reaped, signalLost>>

collectChild ==
  /\ reaper = "polling"
  /\ \E c \in Exited : child' = [child EXCEPT ![c] = "reaped"] /\ reaped' = c
  /\ reaper' = "passing"
  /\ UNCHANGED <<callVars, processTable, hasExitStatus, reapFlag, signalLost>>

passStatus ==
  /\ reaper = "passing"
  /\ CASE processTable[reaped] = "handle" ->
            /\ hasExitStatus' = [hasExitStatus EXCEPT ![reaped] = TRUE]
            /\ processTable' = [processTable EXCEPT ![reaped] = "none"]
       [] processTable[reaped] = "none" ->
            /\ processTable' = [processTable EXCEPT ![reaped] = "status"]
            /\ UNCHANGED hasExitStatus
       [] OTHER -> FALSE
  /\ reaper' = "polling" /\ reaped' = Nobody
  /\ UNCHANGED <<callVars, child, reapFlag, signalLost>>

noneLeft ==
  /\ reaper = "polling" /\ Exited = {}
  /\ reaper' = "resetting"
  /\ UNCHANGED <<callVars, child, processTable, hasExitStatus, reapFlag, reaped, signalLost>>

(* A child that exits between the last waitpid and this assignment sets a  *)
(* flag that is reset at once.                                             *)
resetFlag ==
  /\ reaper = "resetting"
  /\ reapFlag' = FALSE /\ reaper' = "sleeping"
  /\ signalLost' = (signalLost \/ Exited # {})
  /\ UNCHANGED <<callVars, child, processTable, hasExitStatus, reaped>>

reapProcesses == checkFlag \/ collectChild \/ passStatus \/ noneLeft \/ resetFlag

-----------------------------------------------------------------------------
ProcessInit ==
  /\ caller = [c \in Calls |-> "called"]
  /\ child = [c \in Calls |-> "none"]
  /\ unwritten \in [Calls -> [out : 0..OutputLength, err : 0..ErrorLength]]
  /\ pipe = [c \in Calls |-> [s \in Streams |-> 0]]
  /\ writers = [c \in Calls |-> {}]
  /\ processTable = [c \in Calls |-> "none"]
  /\ hasExitStatus = [c \in Calls |-> FALSE]
  /\ reapFlag = FALSE
  /\ reaper = "sleeping" /\ reaped = Nobody /\ signalLost = FALSE

runCommand(c) ==
  \/ locateProgram(c) \/ createPipes(c) \/ forkChild(c) \/ registerHandle(c)
  \/ readStream(c) \/ awaitStatus(c) \/ destroyHandle(c)

runChild(c) == exitChild(c) \/ \E s \in Streams : writeStream(c, s)

ProcessNext == reapProcesses \/ \E c \in Calls : runCommand(c) \/ runChild(c)

ProcessSpec == ProcessInit /\ [][ProcessNext]_processVars

-----------------------------------------------------------------------------
(* Whichever of the handle and the exit status comes first, the status     *)
(* reaches the handle exactly once and nothing is left in processTable:    *)
(* a child has an entry from the first of the two to the second, and a     *)
(* handle only ever knows the status of a child that was reaped.           *)
StatusPassedOnce ==
  \A c \in Calls :
    /\ hasExitStatus[c] => child[c] = "reaped" /\ processTable[c] = "none"
    /\ (child[c] = "reaped" /\ reaped # c /\ caller[c] \notin {"called", "ready", "pipes", "forked"})
         => hasExitStatus[c]
    /\ caller[c] \in {"over", "destroyed"} => processTable[c] = "none"

CommandsOver == \A c \in Calls : caller[c] \in {"called", "refused", "destroyed"}
=============================================================================

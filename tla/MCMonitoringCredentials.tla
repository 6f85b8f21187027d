---------------------- MODULE MCMonitoringCredentials ----------------------
(***************************************************************************)
(* Instances of MonitoringCredentials for TLC: threads, clusters and keys  *)
(* are sets of model values.                                               *)
(***************************************************************************)
EXTENDS MonitoringCredentials, TLC

\* The three sets are interchangeable; used where only safety is checked.
Symmetry == Permutations(Requests) \cup Permutations(Clusters) \cup Permutations(Keys)

-----------------------------------------------------------------------------
(* Two threads that compete for the credentials of several clusters.       *)

\* The service starts again, with empty caches, on clusters and credentials that an
\* earlier one has stored.
Restarted ==
    /\ creds = [k \in Keys |-> NewCred] /\ issued = Keys
    /\ items = [c \in Clusters |-> Whole(NoKey)] /\ minted = Clusters
    /\ byID = [c \in Clusters |-> NoEntry]
    /\ byName = [c \in Clusters |-> NoEntry]
    /\ req = [r \in Requests |-> Idle("ok")]
    /\ served = {} /\ reported = {} /\ abandoned = {}
    /\ faults = 0

\* Bounds: one of the threads updates and the other revokes, and one of the clusters
\* is updated.
Updater == CHOOSE r \in Requests : TRUE
Updated == CHOOSE c \in Clusters : TRUE
Divided ==
    \A r \in Requests :
        /\ req'[r].op = "update" => r = Updater /\ req'[r].c = Updated
        /\ req'[r].op = "revoke" => r # Updater

CompetitionSpec ==
    Restarted /\ [][Next /\ Divided]_vars /\ \A r \in Requests : WF_vars(Proceed(r))
=============================================================================

----------------------------- MODULE MCWorkloads -----------------------------
(* Small instances of Workloads: one group owns all. *)
EXTENDS Workloads, TLC

MCGroupOf == [o \in Objects |-> CHOOSE g \in Groups : TRUE]
MCOwner == [c \in Clusters |-> CHOOSE g \in Groups : TRUE]
Symmetry == Permutations(Requests) \cup Permutations(Objects) \cup Permutations(Names)
            \cup Permutations(Clusters)

\* Bounds: objects on different clusters have the same name; where a call fails, they also
\* have the same name, on one cluster, and the other cluster has been deleted.
Apart == \E o, p \in Objects : clusterOf[o] # clusterOf[p]
Alike == \A o, p \in Objects : nameOf[o] = nameOf[p]
MCInit == Init /\ (Apart => Alike)
MCSpec == MCInit /\ [][Next]_vars
FaultsTogether == faults' > faults => ~Apart /\ Alike /\ Cardinality(clusters) < 2
=============================================================================

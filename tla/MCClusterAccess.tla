--------------------------- MODULE MCClusterAccess ---------------------------
(***************************************************************************)
(* The instance of ClusterAccess for TLC in which requests overlap: threads*)
(* and groups are sets of model values.  MCPlatform has the other one.     *)
(***************************************************************************)
EXTENDS ClusterAccess
==============================================================================

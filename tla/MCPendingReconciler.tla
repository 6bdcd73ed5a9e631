------------------------ MODULE MCPendingReconciler ------------------------
(***************************************************************************)
(* Instantiates PendingReconciler for TLC.  c1 is an AWS cluster with an   *)
(* empty master version (the default is substituted), c2 a non-AWS         *)
(* cluster whose master version is not in the registry.                    *)
(***************************************************************************)
EXTENDS PendingReconciler

CONSTANTS c1, c2

MCSpecVersion == [c \in Clusters |-> IF c = c1 THEN EmptyVersion ELSE "unknown"]
=============================================================================

--------------------------- MODULE MCClusterPages ---------------------------
(***************************************************************************)
(* A small instance of ClusterPages for TLC: one cluster, and one still to  *)
(* be added; an administrator.                                              *)
(***************************************************************************)
EXTENDS ClusterPages

MCMe == [id |-> None, role |-> "ADMIN", perms |-> permissionsForRole("ADMIN")]
=============================================================================

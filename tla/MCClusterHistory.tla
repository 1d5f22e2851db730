-------------------------- MODULE MCClusterHistory --------------------------
(***************************************************************************)
(* The instances of MCReleaseServer, with the history of the cluster.      *)
(***************************************************************************)
EXTENDS MCReleaseServer, ClusterHistory
=============================================================================

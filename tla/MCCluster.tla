----------------------------- MODULE MCCluster ------------------------------
(* Cluster on small instances.                                              *)
EXTENDS ClusterProofs, TLC

Symmetry == Permutations(Writes)

\* Past a promotion over an open peer, or a harmful return, nothing is left to
\* check but the types.
StillIntact == intact
=============================================================================

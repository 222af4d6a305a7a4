------------------------------ MODULE MCPools -------------------------------
(* Pools on a small instance.                                               *)
EXTENDS Pools, TLC
=============================================================================

------------------------------ MODULE MCPortal ------------------------------
(* Portal on a small instance.                                              *)
EXTENDS Portal, TLC

Symmetry ==
    Permutations(Workers) \cup Permutations(Accounts) \cup
    Permutations(SessionIds) \cup Permutations(Tokens)
=============================================================================

----------------------------- MODULE MCSessions -----------------------------
(* Sessions on a small instance.  Workers and SessionIds are               *)
(* interchangeable, and so are the tokens.                                  *)
EXTENDS SessionsProofs, TLC

Symmetry ==
    Permutations(Workers) \cup Permutations(Accounts) \cup
    Permutations(SessionIds) \cup Permutations(Tokens)
=============================================================================

----------------------------- MODULE MCInstall ------------------------------
(* Install on a small instance.                                             *)
EXTENDS Install, TLC

Symmetry == Permutations(Passwords)
=============================================================================

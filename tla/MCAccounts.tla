----------------------------- MODULE MCAccounts -----------------------------
(* Accounts on a small instance: two spellings of one name, and another.    *)
EXTENDS Accounts, TLC

MCNames == {"bob", "Bob", "eve"}
MCFold == [name \in MCNames |-> IF name = "Bob" THEN "bob" ELSE name]
=============================================================================

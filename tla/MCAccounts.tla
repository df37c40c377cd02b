----------------------------- MODULE MCAccounts -----------------------------
(* A small instance of Accounts.                                           *)
EXTENDS Accounts, TLC

Symmetry == Permutations(Users) \cup Permutations(Reqs)
=============================================================================

------------------------------ MODULE MCAccounts ------------------------------
(* Accounts with calls and numbers that TLC may permute. *)
EXTENDS Accounts, TLC

Symmetry == Permutations(Call) \cup Permutations(Phone)
=============================================================================

--------------------------- MODULE MCWalletLedger ---------------------------
(***************************************************************************)
(* WalletLedger with users and calls that are interchangeable.             *)
(***************************************************************************)
EXTENDS WalletLedger, TLC

UsersAndCalls == Permutations(User) \cup Permutations(Op)
=============================================================================

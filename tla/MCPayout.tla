------------------------------ MODULE MCPayout ------------------------------
(***************************************************************************)
(* Payout with retries and deliveries that are interchangeable, for the    *)
(* safety run; the liveness run uses no symmetry.                          *)
(***************************************************************************)
EXTENDS Payout, TLC

Calls == Permutations(Retry) \cup Permutations(Delivery)
=============================================================================

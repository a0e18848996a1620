-------------------------- MODULE MCInvoicePayment --------------------------
(***************************************************************************)
(* Instances of InvoicePayment for TLC.                                    *)
(***************************************************************************)
EXTENDS InvoicePayment, TLC

Ipns == Permutations(Ipn)
=============================================================================

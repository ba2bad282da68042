------------------------------- MODULE MCBilling ------------------------------
(* Small instances of Billing.                                              *)
EXTENDS Billing, TLC

Symmetry == Permutations(Requests)
===============================================================================

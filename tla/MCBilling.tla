----------------------------- MODULE MCBilling ------------------------------
(* Values for the constants of Billing. *)
EXTENDS Billing, TLC

CONSTANTS u1, u2, p1, p2

Flat2 == [d \in Day |-> 2]
Users2 == Permutations({u1, u2})
=============================================================================

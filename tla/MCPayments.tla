----------------------------- MODULE MCPayments -----------------------------
(* Values for the constants of Payments. *)
EXTENDS Payments, TLC

CONSTANTS u1, p1, p2, s1, s2, o1, o2

OneOwner == [p \in Payment |-> u1]
Of(o, p, a) == [op |-> o, label |-> p, amount |-> a]
\* Two operations for one payment, one operation reported for two payments.
Collisions == {Of(o1, p1, 3), Of(o2, p1, 2), Of(o1, p2, 3)}
Plain == {Of(o1, p1, 3), Of(o2, p2, 2)}
InDebt == {-2}
InDebtOrNot == {-2, 1}
Sessions2 == Permutations({s1, s2})
=============================================================================

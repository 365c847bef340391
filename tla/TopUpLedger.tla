---------------------------- MODULE TopUpLedger -----------------------------
(***************************************************************************)
(* What the payments promise, without requests, locks or retries: a        *)
(* payment is credited to its owner at most once, by one operation of the  *)
(* payment system, in one step with its mark; an operation is used for one *)
(* payment only; everything else leaves the payments alone.                *)
(***************************************************************************)
EXTENDS Integers

CONSTANTS User, Payment, Operation, NoOperation, Owner, Amounts

VARIABLES
  balance,   \* of every user
  paidBy     \* the operation that paid each payment

vars == <<balance, paidBy>>

Init == /\ balance \in [User -> Int]
        /\ paidBy = [p \in Payment |-> NoOperation]

Credit(p, operation, amount) ==
  /\ paidBy[p] = NoOperation
  /\ \A q \in Payment : paidBy[q] # operation
  /\ paidBy' = [paidBy EXCEPT ![p] = operation]
  /\ balance' = [balance EXCEPT ![Owner[p]] = @ + amount]

\* Billing and the administrators change balances too.
Adjust(u) ==
  /\ \A v \in User \ {u} : balance'[v] = balance[v]
  /\ UNCHANGED paidBy

Next == \/ \E p \in Payment, o \in Operation, a \in Amounts : Credit(p, o, a)
        \/ \E u \in User : Adjust(u)

Spec == Init /\ [][Next]_vars
=============================================================================

------------------------------ MODULE TopUpForm -----------------------------
(***************************************************************************)
(* The dialog that prepares a payment: the form, the request that creates  *)
(* the payment, its summary, and the way to the checkout.  The component   *)
(* stays mounted while the dialog is closed, and does not cancel requests. *)
(***************************************************************************)
EXTENDS Integers, Sequences, FiniteSets

CONSTANTS
  Sum,            \* the amounts that may be typed, in roubles
  MaxPayments     \* bound on the requests

VARIABLES
  topUp,        \* open, what is typed, the payment of the summary, isSubmitting
  requests,     \* the requests that create a payment, in their order; left: the dialog was
                \* closed while it was running
  checkout,     \* the amount the user was sent to pay
  lateAnswer    \* history: a request that was left so has been answered
topUpVars == <<topUp, requests, checkout, lateAnswer>>

Request(sum) == [sum |-> sum, running |-> TRUE, left |-> FALSE]

NoSum == 0
Allowed == {sum \in Sum : sum >= 10 /\ sum <= 5000}
FreshForm == [open |-> FALSE, typed |-> NoSum, payment |-> NoSum, busy |-> FALSE]
TopUpInit ==
  /\ topUp = FreshForm /\ checkout = NoSum /\ lateAnswer = FALSE
  /\ requests = <<>>

RunningRequests == {n \in DOMAIN requests : requests[n].running}
OnPage == checkout = NoSum

\* A payment that has arrived after the dialog was closed is what it opens with.
OpenTopUp ==
  /\ OnPage /\ ~topUp.open /\ topUp' = [topUp EXCEPT !.open = TRUE]
  /\ UNCHANGED <<requests, checkout, lateAnswer>>
TypeSum(sum) ==
  /\ OnPage /\ topUp.open /\ topUp.payment = NoSum
  /\ topUp' = [topUp EXCEPT !.typed = sum]
  /\ UNCHANGED <<requests, checkout, lateAnswer>>

\* A mistake in the place of the next: the button is not disabled while submitting.
SubmitAgain ==
  /\ OnPage /\ topUp.open /\ topUp.payment = NoSum
  /\ topUp.typed \in Allowed /\ Len(requests) < MaxPayments
  /\ requests' = Append(requests, Request(topUp.typed))
  /\ topUp' = [topUp EXCEPT !.busy = TRUE]
  /\ UNCHANGED <<checkout, lateAnswer>>

\* The button is disabled while the form is submitting.
SubmitTopUp ==
  /\ OnPage /\ topUp.open /\ topUp.payment = NoSum /\ ~topUp.busy
  /\ topUp.typed \in Allowed /\ Len(requests) < MaxPayments
  /\ requests' = Append(requests, Request(topUp.typed))
  /\ topUp' = [topUp EXCEPT !.busy = TRUE]
  /\ UNCHANGED <<checkout, lateAnswer>>

Ends(n) ==
  /\ requests' = [requests EXCEPT ![n].running = FALSE]
  /\ lateAnswer' = (lateAnswer \/ requests[n].left)
\* setPayment, whatever dialog is open by now; handleSubmit ends the submitting.
PaymentCreated(n) ==
  /\ n \in RunningRequests /\ Ends(n)
  /\ topUp' = [topUp EXCEPT !.payment = requests[n].sum, !.busy = FALSE]
  /\ UNCHANGED checkout
PaymentRefused(n) ==
  /\ n \in RunningRequests /\ Ends(n)
  /\ topUp' = [topUp EXCEPT !.busy = FALSE]
  /\ UNCHANGED checkout

\* resetAndClose: the form is reset, the submitting too; the request goes on.
CloseTopUp ==
  /\ OnPage /\ topUp.open
  /\ topUp' = FreshForm
  /\ requests' = [n \in DOMAIN requests |->
                    [requests[n] EXCEPT !.left = @ \/ requests[n].running]]
  /\ UNCHANGED <<checkout, lateAnswer>>

\* Back to the form, which still has the amount.
BackToForm ==
  /\ OnPage /\ topUp.open /\ topUp.payment # NoSum
  /\ topUp' = [topUp EXCEPT !.payment = NoSum]
  /\ UNCHANGED <<requests, checkout, lateAnswer>>
Pay ==
  /\ OnPage /\ topUp.open /\ topUp.payment # NoSum
  /\ checkout' = topUp.payment
  /\ UNCHANGED <<topUp, requests, lateAnswer>>

TopUpNext ==
  \/ OpenTopUp \/ SubmitTopUp \/ CloseTopUp \/ BackToForm \/ Pay
  \/ \E sum \in Sum : TypeSum(sum)
  \/ \E n \in DOMAIN requests : PaymentCreated(n) \/ PaymentRefused(n)

TopUpSpec == TopUpInit /\ [][TopUpNext]_topUpVars

-----------------------------------------------------------------------------
(* Properties. *)

TopUpTypeOK ==
  /\ topUp \in [open: BOOLEAN, typed: Sum \cup {NoSum}, payment: Allowed \cup {NoSum}, busy: BOOLEAN]
  /\ requests \in Seq([sum: Allowed, running: BOOLEAN, left: BOOLEAN])
  /\ checkout \in Allowed \cup {NoSum} /\ lateAnswer \in BOOLEAN

\* The user is sent to pay the amount of the last request, whatever was submitted, taken
\* back and submitted again, also after the dialog was closed with a request running and
\* opened anew - until the answer to such a request arrives: it replaces the summary of a
\* later one, or is what the dialog opens with.
PaysWhatWasSubmitted ==
  checkout # NoSum /\ ~lateAnswer => checkout = requests[Len(requests)].sum
=============================================================================

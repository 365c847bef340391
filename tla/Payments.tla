------------------------------ MODULE Payments ------------------------------
(***************************************************************************)
(* Top-ups through YooMoney (src/backend/app/payments): the webhook, the   *)
(* poll of the payment page and the reconciliation scheduler all learn of  *)
(* the same operations, again and again and in any order, and settle them  *)
(* in transactions that lock the payment, then its owner.                  *)
(*                                                                         *)
(* A transaction is one of a few sessions; every statement that may wait   *)
(* or see the commits of others is a step.  READ COMMITTED: a row read FOR *)
(* UPDATE is read when its lock is granted.                                *)
(***************************************************************************)
EXTENDS Accounts, FiniteSets

CONSTANTS
  User, Payment, Session,
  Operation, NoOperation,
  Owner,          \* the user each payment belongs to
  Transfers,      \* what YooMoney may report: [op, label, amount]
  StartBalances,  \* the balances the users start with
  MaxMoney,       \* service.MAX_MONEY
  Withdrawal,     \* what the other handlers take from a balance
  MaxChanges,     \* bound: changes of accounts by those handlers
  MaxCrashes      \* bound

Nobody == "nobody"

ASSUME PaymentsAssumption ==
  /\ NoOperation \notin Operation /\ Nobody \notin Session
  /\ Owner \in [Payment -> User]
  /\ Transfers \subseteq [op : Operation, label : Payment, amount : Nat \ {0}]
  /\ StartBalances \subseteq Int
  /\ MaxMoney \in Int /\ Withdrawal \in Nat /\ MaxChanges \in Nat /\ MaxCrashes \in Nat

VARIABLES
  acct,       \* users, with history and job
  payments,   \* yoomoney_payments
  cooling,    \* payments whose last_reconciliation_check_at is not 10 s old
  made,       \* the transfers that have happened
  session,    \* the transactions and calls in flight
  paymentLock, userLock,     \* who holds the row
  changes, crashes           \* what the bounds count

vars == <<acct, payments, cooling, made, session, paymentLock, userLock, changes, crashes>>

Now == During(1)

\* A payment that was not created yet has status "none".
PaymentRow == [status : {"none", "pending", "succeeded"}, operation : Operation \union {NoOperation},
               received : Nat, before : Int, after : Int]
Pending == [status |-> "pending", operation |-> NoOperation, received |-> 0,
            before |-> 0, after |-> 0]
NoPayment == [Pending EXCEPT !.status = "none"]

\* A session: what it settles, how it came to it, where it is, and the row of the
\* owner as the transaction has read it: the credit is computed from that row.
NoTransfer == [op |-> NoOperation, label |-> Nobody, amount |-> 0]
SessionState == [pc : {"idle", "asking", "payment", "operation", "user", "commit"},
                 kind : {"webhook", "poll", "scheduler"},
                 label : Payment \union {Nobody}, transfer : Transfers \union {NoTransfer},
                 read : Account]
Idle == [pc |-> "idle", kind |-> "webhook", label |-> Nobody, transfer |-> NoTransfer,
         read |-> NoAccount]

TypeOK ==
  /\ acct \in [User -> Account]
  /\ payments \in [Payment -> PaymentRow]
  /\ cooling \subseteq Payment /\ made \subseteq Transfers
  /\ session \in [Session -> SessionState]
  /\ \A s \in Session :
       session[s].pc \notin {"idle", "asking"} => session[s].transfer \in made
  /\ paymentLock \in [Payment -> Session \union {Nobody}]
  /\ userLock \in [User -> Session \union {Nobody}]
  /\ changes \in 0 .. MaxChanges /\ crashes \in 0 .. MaxCrashes

\* An account with a debt has been blocked by billing.
StartAccount(balance) ==
  BlockIfBalanceBelowLimit(NewAccount("active", balance, 0, During(0)), During(0))

Init ==
  /\ \E b \in [User -> StartBalances] : acct = [u \in User |-> StartAccount(b[u])]
  /\ payments = [p \in Payment |-> NoPayment]
  /\ cooling = {} /\ made = {}
  /\ session = [s \in Session |-> Idle]
  /\ paymentLock = [p \in Payment |-> Nobody]
  /\ userLock = [u \in User |-> Nobody]
  /\ changes = 0 /\ crashes = 0

-----------------------------------------------------------------------------
(* Payments are created and paid; the payment system may tell us or not. *)

\* create_payment
CreatePayment(p) ==
  /\ payments[p] = NoPayment /\ Live(acct[Owner[p]])
  /\ payments' = [payments EXCEPT ![p] = Pending]
  /\ UNCHANGED <<acct, cooling, made, session, paymentLock, userLock, changes, crashes>>

Transfer(t) ==
  /\ t \notin made /\ payments[t.label] # NoPayment
  /\ made' = made \union {t}
  /\ UNCHANGED <<acct, payments, cooling, session, paymentLock, userLock, changes, crashes>>

\* Ten seconds pass.
CoolDown(p) ==
  /\ p \in cooling
  /\ cooling' = cooling \ {p}
  /\ UNCHANGED <<acct, payments, made, session, paymentLock, userLock, changes, crashes>>

-----------------------------------------------------------------------------
(* How a session comes to settle a transfer *)

Settling(kind, t) ==
  [Idle EXCEPT !.pc = "payment", !.kind = kind, !.label = t.label, !.transfer = t]

\* A mistake in the place of the next: notifications are not verified.
UnverifiedWebhook(s, t) ==
  /\ session[s] = Idle
  /\ session' = [session EXCEPT ![s] = Settling("webhook", t)]
  /\ UNCHANGED <<acct, payments, cooling, made, paymentLock, userLock, changes, crashes>>

\* process_notification: delivered any number of times, at any time.
Webhook(s, t) ==
  /\ session[s] = Idle /\ t \in made
  /\ session' = [session EXCEPT ![s] = Settling("webhook", t)]
  /\ UNCHANGED <<acct, payments, cooling, made, paymentLock, userLock, changes, crashes>>

\* A mistake in the place of the next: the claims of the polls are honoured.
SchedulerFindsUnclaimed(s, t) ==
  /\ session[s] = Idle /\ t \in made /\ t.label \notin cooling
  /\ \A r \in Session : session[r] = Idle \/ session[r].kind # "scheduler"
  /\ \E p \in Payment : payments[p].status = "pending"
  /\ session' = [session EXCEPT ![s] = Settling("scheduler", t)]
  /\ UNCHANGED <<acct, payments, cooling, made, paymentLock, userLock, changes, crashes>>

\* YooMoneyReconciliationScheduler._reconcile, for one operation of the history:
\* one task, one operation at a time, while some payment is pending.
SchedulerFinds(s, t) ==
  /\ session[s] = Idle /\ t \in made
  /\ \A r \in Session : session[r] = Idle \/ session[r].kind # "scheduler"
  /\ \E p \in Payment : payments[p].status = "pending"
  /\ session' = [session EXCEPT ![s] = Settling("scheduler", t)]
  /\ UNCHANGED <<acct, payments, cooling, made, paymentLock, userLock, changes, crashes>>

\* reconcile_user_payment: the claim, one UPDATE whose condition is evaluated on
\* the unlocked row, then a commit and the question to YooMoney.
PollClaims(s, p) ==
  /\ session[s] = Idle
  /\ payments[p].status = "pending" /\ p \notin cooling
  /\ paymentLock[p] = Nobody
  /\ cooling' = cooling \union {p}
  /\ session' = [session EXCEPT ![s] = [Idle EXCEPT !.pc = "asking", !.kind = "poll",
                                                    !.label = p]]
  /\ UNCHANGED <<acct, payments, made, paymentLock, userLock, changes, crashes>>

\* The first operation of the answer; or none, or no answer.
PollAnswered(s) ==
  /\ session[s].pc = "asking"
  /\ \/ \E t \in made : /\ t.label = session[s].label
                        /\ session' = [session EXCEPT ![s] = Settling("poll", t)]
     \/ session' = [session EXCEPT ![s] = Idle]
  /\ UNCHANGED <<acct, payments, cooling, made, paymentLock, userLock, changes, crashes>>

-----------------------------------------------------------------------------
(* The transaction of a session *)

At(s, pc) == session[s].pc = pc
Goto(s, pc) == session' = [session EXCEPT ![s].pc = pc]
Label(s) == session[s].label
Payer(s) == Owner[Label(s)]

\* A mistake in the place of the next: the payment stays locked.
EndHoldingPayment(s) ==
  /\ session' = [session EXCEPT ![s] = Idle]
  /\ userLock' = [u \in User |-> IF userLock[u] = s THEN Nobody ELSE userLock[u]]
  /\ UNCHANGED paymentLock

\* The end of a transaction releases its locks.
End(s) ==
  /\ session' = [session EXCEPT ![s] = Idle]
  /\ paymentLock' = [p \in Payment |-> IF paymentLock[p] = s THEN Nobody ELSE paymentLock[p]]
  /\ userLock' = [u \in User |-> IF userLock[u] = s THEN Nobody ELSE userLock[u]]

\* A mistake in the place of the next: the status is not asked for.
LockAnyPayment(s) ==
  /\ At(s, "payment") /\ paymentLock[Label(s)] = Nobody
  /\ paymentLock' = [paymentLock EXCEPT ![Label(s)] = s]
  /\ Goto(s, "operation")
  /\ UNCHANGED <<acct, payments, cooling, made, userLock, changes, crashes>>

\* SELECT ... FOR UPDATE by label; the reconciliation asks for pending rows only,
\* apply_successful_payment returns for the others.
LockPayment(s) ==
  /\ At(s, "payment") /\ paymentLock[Label(s)] = Nobody
  /\ IF payments[Label(s)].status = "pending"
     THEN /\ paymentLock' = [paymentLock EXCEPT ![Label(s)] = s]
          /\ Goto(s, "operation")
          /\ UNCHANGED userLock
     ELSE End(s)
  /\ UNCHANGED <<acct, payments, cooling, made, changes, crashes>>

\* _operation_belongs_to_another_payment
UsedElsewhere(s) ==
  \E q \in Payment \ {Label(s)} : payments[q].operation = session[s].transfer.op

CheckOperation(s) ==
  /\ At(s, "operation")
  /\ IF UsedElsewhere(s) THEN End(s)
     ELSE Goto(s, "user") /\ UNCHANGED <<paymentLock, userLock>>
  /\ UNCHANGED <<acct, payments, cooling, made, changes, crashes>>

\* A balance out of range is refused.
Fits(s) == acct[Payer(s)].balance + session[s].transfer.amount <= MaxMoney
Reads(s) ==
  session' = [session EXCEPT ![s] = [@ EXCEPT !.pc = "commit", !.read = acct[Payer(s)]]]

\* A mistake in the place of the next: the owner is read without a lock.
ReadUser(s) ==
  /\ At(s, "user")
  /\ IF Live(acct[Payer(s)]) /\ Fits(s)
     THEN Reads(s) /\ UNCHANGED <<paymentLock, userLock>>
     ELSE End(s)
  /\ UNCHANGED <<acct, payments, cooling, made, changes, crashes>>

\* The owner FOR UPDATE, unless deleted: balance_before is read when the lock is
\* granted, balance_after computed from it.
LockUser(s) ==
  /\ At(s, "user") /\ userLock[Payer(s)] = Nobody
  /\ IF Live(acct[Payer(s)]) /\ Fits(s)
     THEN /\ userLock' = [userLock EXCEPT ![Payer(s)] = s]
          /\ Reads(s)
          /\ UNCHANGED paymentLock
     ELSE End(s)
  /\ UNCHANGED <<acct, payments, cooling, made, changes, crashes>>

\* What the transaction makes of the owner: the row it has read with the credit,
\* restored by the history as it is now (restore_if_billing_blocked asks for it).
\* History and job are rows of their own, deleted_at is not written.
Credited(s) ==
  LET row == acct[Payer(s)]
  IN  CreditAccount([session[s].read EXCEPT !.history = row.history, !.job = row.job,
                                            !.deleted = row.deleted],
                    session[s].transfer.amount, Now)
CreditedRow(s) ==
  LET t == session[s].transfer
  IN  [status |-> "succeeded", operation |-> t.op, received |-> t.amount,
       before |-> session[s].read.balance, after |-> session[s].read.balance + t.amount]
WriteCredit(s) == /\ acct' = [acct EXCEPT ![Payer(s)] = Credited(s)]
                  /\ payments' = [payments EXCEPT ![Label(s)] = CreditedRow(s)]

\* A mistake in the place of the next: operation_id is not unique.
CommitAnyOperation(s) ==
  /\ At(s, "commit")
  /\ WriteCredit(s)
  /\ End(s)
  /\ UNCHANGED <<cooling, made, changes, crashes>>

\* The flush and the commit: the unique operation_id may refuse them.
CommitCredit(s) ==
  /\ At(s, "commit")
  /\ IF UsedElsewhere(s) THEN UNCHANGED <<acct, payments>> ELSE WriteCredit(s)
  /\ End(s)
  /\ UNCHANGED <<cooling, made, changes, crashes>>

-----------------------------------------------------------------------------
(* The other handlers, and the process *)

\* Billing or an administrator: the row is locked for the time of the change.
ChangeAccount(u) ==
  /\ userLock[u] = Nobody /\ Live(acct[u])
  /\ changes < MaxChanges /\ changes' = changes + 1
  /\ \/ acct' = [acct EXCEPT ![u] = EditAccount(@, @.status, @.balance - Withdrawal, @.limit, Now)]
     \/ acct' = [acct EXCEPT ![u] = DeleteAccount(@, @.status, Now)]
  /\ UNCHANGED <<payments, cooling, made, session, paymentLock, userLock, crashes>>

\* The process stops: open transactions are rolled back, the cooldowns stay.
Crash ==
  /\ crashes < MaxCrashes /\ crashes' = crashes + 1
  /\ session' = [s \in Session |-> Idle]
  /\ paymentLock' = [p \in Payment |-> Nobody]
  /\ userLock' = [u \in User |-> Nobody]
  /\ UNCHANGED <<acct, payments, cooling, made, changes>>

-----------------------------------------------------------------------------

Begin(s) == \/ \E t \in Transfers : Webhook(s, t) \/ SchedulerFinds(s, t)
            \/ \E p \in Payment : PollClaims(s, p)

Proceed(s) == \/ PollAnswered(s) \/ LockPayment(s) \/ CheckOperation(s)
              \/ LockUser(s) \/ CommitCredit(s)

Next == \/ \E t \in Transfers : Transfer(t)
        \/ \E p \in Payment : CreatePayment(p) \/ CoolDown(p)
        \/ \E s \in Session : Begin(s) \/ Proceed(s)
        \/ \E u \in User : ChangeAccount(u)
        \/ Crash

Spec == Init /\ [][Next]_vars

\* Only the scheduler is sure to run: notifications may all be lost, and nobody
\* need look at the payment page.  Locks are granted in turn.
Fairness ==
  \A s \in Session :
    /\ \A t \in Transfers : SF_vars(SchedulerFinds(s, t))
    /\ WF_vars(PollAnswered(s)) /\ WF_vars(CheckOperation(s)) /\ WF_vars(CommitCredit(s))
    /\ SF_vars(LockPayment(s)) /\ SF_vars(LockUser(s))

FairSpec == Spec /\ Fairness

-----------------------------------------------------------------------------
(* Properties *)

\* An operation pays for one payment, and a succeeded payment has its operation:
\* also when two transactions bind the same operation at the same time.
OperationPaysOnce ==
  \A p, q \in Payment :
    payments[p].status = "succeeded" /\ payments[q].status = "succeeded" /\ p # q
      => payments[p].operation # payments[q].operation

\* No change of a balance gets lost between the read and the write of a credit:
\* when it is written, the balance is still the one it was computed from, grows by
\* what was received, and both are those printed on the payment.
CreditsAreRecorded ==
  [][\A p \in Payment : payments'[p] \notin {payments[p], Pending} =>
       LET before == acct[Owner[p]]
           after == acct'[Owner[p]]
       IN  /\ payments'[p].status = "succeeded" /\ payments[p].status = "pending"
           /\ payments'[p].before = before.balance
           /\ payments'[p].after = after.balance
           /\ after.balance = before.balance + payments'[p].received
           /\ Live(before)]_vars

\* The payments implement the ledger: every payment is credited at most once,
\* together with its mark, however often and by whomever it is settled.
Balances == [u \in User |-> acct[u].balance]
PaidBy == [p \in Payment |-> payments[p].operation]
Ledger == INSTANCE TopUpLedger WITH balance <- Balances, paidBy <- PaidBy,
                                    Amounts <- {t.amount : t \in Transfers}
ImplementsLedger == Ledger!Spec

\* A payment brings a debtor back: nobody stays blocked by billing with money
\* enough, whatever order payments and changes come in.
NoPaidUpBlock == \A u \in User : PaidUpNotBlocked(acct[u])

\* A transfer that happened is credited although every notification is lost and
\* the process restarts, unless its owner is deleted, the balance would leave
\* its range or the operation has paid for another payment.
PaidIsCredited ==
  \A t \in Transfers :
    t \in made ~> \/ payments[t.label].status = "succeeded"
                  \/ ~Live(acct[Owner[t.label]])
                  \/ acct[Owner[t.label]].balance + t.amount > MaxMoney
                  \/ \E p \in Payment \ {t.label} : payments[p].operation = t.op

\* No two transactions wait for each other: every one ends.
EveryTransactionEnds == \A s \in Session : session[s] # Idle ~> session[s] = Idle
=============================================================================

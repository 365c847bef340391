------------------------------ MODULE Accounts ------------------------------
(***************************************************************************)
(* The account row of a user, its status history and its VPN sync job, and *)
(* the operations every handler of the backend is built from:              *)
(* src/backend/app/billing/service.py (record_status_change,               *)
(* block_if_balance_below_limit, restore_if_billing_blocked, ...) and the  *)
(* bodies of the handlers that change one account (admin/router.py,        *)
(* users/router.py, payments/service.py).  An operation takes the row the  *)
(* handler loaded and returns the row it commits.                          *)
(*                                                                         *)
(* Time is counted in half days: Midnight(d) is the instant the Moscow day *)
(* d starts, the cutoff of its billing; During(d) is any later instant of  *)
(* the day, when requests are served.  Money is counted in kopecks.        *)
(***************************************************************************)
EXTENDS Integers, Sequences

Never == -1                     \* a NULL timestamp
Midnight(d) == 2 * d
During(d) == 2 * d + 1

AccountStatus == {"active", "paused", "blocked"}
StatusChangeSource == {"bootstrap", "admin", "billing", "top_up", "user"}
VpnSyncJob == {"none", "enable", "disable"}

\* A row of user_status_history.  created_at is the row's index.
StatusChange == [prev : AccountStatus \union {"null"}, new : AccountStatus,
                 source : StatusChangeSource, eff : Int]

\* A row of users with its history and its job.  A user that does not exist
\* yet has created = Never.
Account == [balance : Int, limit : Nat, status : AccountStatus,
            history : Seq(StatusChange), job : VpnSyncJob,
            created : Int, deleted : Int]

NoAccount == [balance |-> 0, limit |-> 0, status |-> "active",
              history |-> << >>, job |-> "none",
              created |-> Never, deleted |-> Never]

Exists(a) == a.created # Never
Live(a) == Exists(a) /\ a.deleted = Never
OutOfMoney(a) == a.balance < -a.limit

-----------------------------------------------------------------------------
(* The status history *)

\* ORDER BY effective_at, created_at
NotAfter(h, i, j) == \/ h[i].eff < h[j].eff
                     \/ h[i].eff = h[j].eff /\ i <= j

\* The rows effective by t, and the last of them: a set with at most one row.
UpTo(h, t) == {i \in DOMAIN h : h[i].eff <= t}
LatestUpTo(h, t) ==
  {h[i] : i \in {k \in UpTo(h, t) : \A j \in UpTo(h, t) : NotAfter(h, j, k)}}

\* ORDER BY effective_at DESC, created_at DESC LIMIT 1
Latest(h) == {h[i] : i \in {k \in DOMAIN h : \A j \in DOMAIN h : NotAfter(h, j, k)}}

HasLaterStatus(a, t) == \E i \in DOMAIN a.history : a.history[i].eff > t

\* Mistakes in its place: asking for the status of now, or for a creation before t.
ActiveToday(a, t) == a.status = "active" /\ Exists(a) /\ a.created <= t
ActiveAfterCreation(a, t) ==
  (\E c \in LatestUpTo(a.history, t) : c.new = "active") /\ Live(a) /\ a.created < t

ActiveAt(a, t) == /\ \E c \in LatestUpTo(a.history, t) : c.new = "active"
                  /\ Exists(a) /\ a.created <= t
                  /\ a.deleted = Never \/ a.deleted > t

AddHistory(a, prev, new, source, eff) ==
  [a EXCEPT !.history = Append(@, [prev |-> prev, new |-> new,
                                   source |-> source, eff |-> eff])]

\* The change of a status read earlier: a handler that holds no lock on the
\* row compares with, and records, the status it has seen.
RecordSeenStatusChange(a, seen, new, source, now) ==
  IF seen = new THEN a
  ELSE [AddHistory(a, seen, new, source, now) EXCEPT !.status = new]

RecordStatusChange(a, new, source, now) ==
  RecordSeenStatusChange(a, a.status, new, source, now)

\* add_initial_status_history
AddInitialHistory(a, source, eff) == AddHistory(a, "null", a.status, source, eff)

\* A user without any history gets a first row when billing meets it.
EnsureStatusBaseline(a, start) ==
  IF Exists(a) /\ a.history = << >>
  THEN AddInitialHistory(a, "bootstrap",
                         IF a.created > Midnight(start) THEN a.created ELSE Midnight(start))
  ELSE a

\* A mistake in its place: a job that is queued already stays as it is.
QueueVpnSyncOnce(a, enabled) ==
  IF a.job # "none" THEN a ELSE [a EXCEPT !.job = IF enabled THEN "enable" ELSE "disable"]

QueueVpnSync(a, enabled) == [a EXCEPT !.job = IF enabled THEN "enable" ELSE "disable"]

-----------------------------------------------------------------------------
(* Blocking and restoring by balance *)

BlockIfBalanceBelowLimit(a, now) ==
  IF a.status \in {"active", "paused"} /\ OutOfMoney(a)
  THEN QueueVpnSync(RecordStatusChange(a, "blocked", "billing", now), FALSE)
  ELSE a

\* A mistake in the place of the next: any block counts.
AnyBlocks(h) == {c \in Latest(h) : c.new = "blocked" /\ c.prev \in {"active", "paused"}}

\* The latest row, when it is a block made by billing.
BillingBlocks(h) == {c \in Latest(h) : /\ c.new = "blocked"
                                       /\ c.source = "billing"
                                       /\ c.prev \in {"active", "paused"}}

\* A mistake in the place of the next: the limit itself is not enough.
RestoreIfAboveLimit(a, source, now) ==
  IF a.status = "blocked" /\ a.balance > -a.limit /\ BillingBlocks(a.history) # {}
  THEN LET restored == (CHOOSE c \in BillingBlocks(a.history) : TRUE).prev
       IN  QueueVpnSync(RecordStatusChange(a, restored, source, now),
                        restored = "active")
  ELSE a

RestoreIfBillingBlocked(a, source, now) ==
  IF a.status = "blocked" /\ ~OutOfMoney(a) /\ BillingBlocks(a.history) # {}
  THEN LET restored == (CHOOSE c \in BillingBlocks(a.history) : TRUE).prev
       IN  QueueVpnSync(RecordStatusChange(a, restored, source, now),
                        restored = "active")
  ELSE a

-----------------------------------------------------------------------------
(* The bodies of the handlers *)

AccountRow(status, balance, limit, now) ==
  [NoAccount EXCEPT !.status = status, !.balance = balance,
                    !.limit = limit, !.created = now]

\* admin.router.create_user
NewAccount(status, balance, limit, now) ==
  AddInitialHistory(AccountRow(status, balance, limit, now), "admin", now)

\* admin.router.update_user: a field the request leaves out keeps its value.
EditAccount(a, status, balance, limit, now) ==
  LET manual  == status # a.status
      noted   == RecordStatusChange(a, status, "admin", now)
      edited  == [noted EXCEPT !.balance = balance, !.limit = limit]
      terms   == balance # a.balance \/ limit # a.limit
  IN  IF ~terms THEN edited
      ELSE IF a.status # "blocked" THEN BlockIfBalanceBelowLimit(edited, now)
      ELSE IF manual THEN edited
      ELSE RestoreIfBillingBlocked(edited, "admin", now)

\* admin.router.delete_user, after the provider call: `seen' is the status the
\* handler read, without a lock, before that call.
DeleteAccount(a, seen, now) ==
  [RecordSeenStatusChange(a, seen, "blocked", "admin", now) EXCEPT !.deleted = now]

\* A mistake in the place of the next: the restore sees the old balance.
RestoreThenCredit(a, amount, now) ==
  [RestoreIfBillingBlocked(a, "top_up", now) EXCEPT !.balance = @ + amount]

\* payments.service.apply_successful_payment, on the locked user row
CreditAccount(a, amount, now) ==
  RestoreIfBillingBlocked([a EXCEPT !.balance = @ + amount], "top_up", now)

\* users.router.activate_account
MayActivate(a) == Live(a) /\ a.status = "paused" /\ ~OutOfMoney(a)
ActivateAccount(a, now) ==
  QueueVpnSync(RecordStatusChange(a, "active", "user", now), TRUE)

\* Mistakes in the place of the next: the block overrules a later status, or is
\* not recorded when there is one.
ChargeAndBlock(a, total, cutoff) ==
  LET charged == [a EXCEPT !.balance = @ - total]
      noted   == AddHistory(charged, "active", "blocked", "billing", cutoff)
  IN  IF OutOfMoney(charged) THEN QueueVpnSync([noted EXCEPT !.status = "blocked"], FALSE)
      ELSE charged
ChargeAndBlockUnlessLater(a, total, cutoff) ==
  LET charged == [a EXCEPT !.balance = @ - total]
      noted   == AddHistory(charged, "active", "blocked", "billing", cutoff)
  IN  IF OutOfMoney(charged) /\ ~HasLaterStatus(a, cutoff)
      THEN QueueVpnSync([noted EXCEPT !.status = "blocked"], FALSE)
      ELSE charged

\* The body of the billing loop over the active users, for one user: the total
\* is subtracted; below the limit the block is recorded as of the cutoff.
ChargeAccount(a, total, cutoff) ==
  LET charged == [a EXCEPT !.balance = @ - total]
      noted   == AddHistory(charged, "active", "blocked", "billing", cutoff)
      settled == IF HasLaterStatus(a, cutoff) THEN noted
                 ELSE [noted EXCEPT !.status = "blocked"]
  IN  IF OutOfMoney(charged) THEN QueueVpnSync(settled, FALSE) ELSE charged
-----------------------------------------------------------------------------
(* What the operations preserve of an account, whenever they are applied    *)

\* The history ends with the status.
StatusIsLatest(a) == \A c \in Latest(a.history) : c.new = a.status

\* Nothing is recorded for later, and billing records blocks only.
SoundHistory(a, now) ==
  \A i \in DOMAIN a.history :
    /\ a.history[i].eff <= now
    /\ a.history[i].source = "billing" =>
         a.history[i].new = "blocked" /\ a.history[i].prev \in {"active", "paused"}

\* An account that billing has blocked last cannot pay.
BlockedByBilling(a) ==
  a.status = "blocked" /\ \E c \in Latest(a.history) : c.source = "billing"
PaidUpNotBlocked(a) == Live(a) /\ BlockedByBilling(a) => OutOfMoney(a)

HistoryOK(a, now) == a.created <= now /\ StatusIsLatest(a) /\ SoundHistory(a, now)
Consistent(a, now) == HistoryOK(a, now) /\ PaidUpNotBlocked(a)
=============================================================================

------------------------------ MODULE Billing -------------------------------
(***************************************************************************)
(* The daily billing loop (billing/scheduler.py, billing/service.py) over  *)
(* the database it shares with the request handlers of the administrators, *)
(* the users, the payments and the tariff plans.                           *)
(*                                                                         *)
(* A handler that keeps the user's row locked from its first read to its   *)
(* commit is one action.  catch_up_billing commits after every date, so it *)
(* is one action per date; delete_user reads without a lock and waits for  *)
(* the VPN panel, so it is two.                                            *)
(***************************************************************************)
EXTENDS Accounts, DailyCharge, Tariffs, FiniteSets

CONSTANTS
  User,           \* the users, existing or yet to be created
  Legacy,         \* those that are there before the model begins
  HasTelegram,    \* those with a Telegram id
  MaxDay,         \* the last Moscow day of the model
  DaysInMonth,    \* the days of the month each day belongs to
  Monthly,        \* the monthly amounts an administrator enters
  Balances,       \* the balances an administrator enters
  Limits,         \* the negative balance limits an administrator enters
  Credits,        \* the amounts of the successful payments
  MaxMoney,       \* payments.service.MAX_MONEY
  ProfileCounts,  \* the numbers of profiles the VPN panel may report
  MaxRequests,    \* bound: requests served in a behaviour
  MaxFaults,      \* bound: crashes and database errors in a behaviour
  FaultKinds      \* subset of {"crash", "db_error"}

Day == 0 .. MaxDay

ASSUME BillingAssumption ==
  /\ IsFiniteSet(User) /\ Legacy \subseteq User /\ HasTelegram \subseteq User
  /\ MaxDay \in Nat /\ MaxRequests \in Nat /\ MaxFaults \in Nat /\ MaxMoney \in Int
  /\ DaysInMonth \in [Day -> Nat \ {0}]
  /\ Monthly \subseteq Nat /\ Balances \subseteq Int /\ Limits \subseteq Nat
  /\ Credits \subseteq Nat /\ ProfileCounts \subseteq Nat
  /\ FaultKinds \subseteq {"crash", "db_error"}

VARIABLES
  today,      \* the Moscow date
  acct,       \* users, user_status_history, vpn_sync_jobs
  plans,      \* tariff_plans
  runs,       \* billing_runs
  charges,    \* user_daily_charges
  snapshots,  \* user_profile_counts
  loop,       \* the memory of BillingScheduler._billing_loop
  deletes,    \* delete_user requests in flight: the status they have read
  requests, faults,       \* what the bounds count
  credited, activeAt      \* history variables, see below

database == <<acct, plans, runs, charges, snapshots>>
ghosts == <<credited, activeAt>>
vars == <<today, acct, plans, runs, charges, snapshots, loop, deletes,
          requests, faults, credited, activeAt>>

-----------------------------------------------------------------------------
(* Rows *)

NoAmount == -1
NoCount == -1
NoCharge == [base |-> NoAmount, extra |-> NoAmount]
NoRun == [status |-> "none", plan |-> NoPlan, active |-> 0, charged |-> 0,
          blocked |-> 0, daily |-> NoAmount]

Run == [status : {"none", "completed", "failed"}, plan : PlanId \union {NoPlan},
        active : Nat, charged : Nat, blocked : Nat, daily : Int]
Charge == [base : Int, extra : Int]     \* by kind: tarification, additional_profiles

\* BalanceNotificationKind; 0 is no notification.
NegativeBalance == 1
LastDay == 2
Blocked == 3
Notices == [User -> 0 .. 3]
NoNotices == [u \in User |-> 0]

Loop == [pc : {"waiting", "billing", "notifying", "syncing"}, wake : Int,
         cursor : Int, target : Int, live : BOOLEAN, notices : Notices]

NotDeleting == "none"

-----------------------------------------------------------------------------
(* The state *)

TypeOK ==
  /\ today \in Day
  /\ acct \in [User -> Account]
  /\ IsPlanTable(plans)
  /\ runs \in [Day -> Run]
  /\ charges \in [User -> [Day -> Charge]]
  /\ snapshots \in [User -> [Day -> Int]]
  /\ loop \in Loop
  /\ loop.target \in Day /\ loop.cursor \in 0 .. loop.target + 1
  /\ loop.pc = "billing" => loop.cursor <= loop.target
  /\ deletes \in [User -> AccountStatus \union {NotDeleting}]
  /\ requests \in Nat /\ faults \in Nat
  /\ credited \in [User -> Int]
  /\ activeAt \in [Day -> SUBSET User]

ActiveNow(a) == Live(a) /\ a.status = "active"

\* A user there was before: migration 0004 and ensure_admin have noted its status;
\* billing provides for a user without any history, so it may have none.
LegacyAccount(status, balance, limit, noted) ==
  LET row == AccountRow(status, balance, limit, Midnight(0))
  IN  IF noted THEN AddInitialHistory(row, "bootstrap", Midnight(0)) ELSE row
LegacyAccounts == {LegacyAccount(row[1], row[2], row[3], row[4]) :
                     row \in AccountStatus \X Balances \X Limits \X BOOLEAN}

Init ==
  /\ today = 0
  /\ \E rows \in [Legacy -> LegacyAccounts] :
       acct = [u \in User |-> IF u \in Legacy THEN rows[u] ELSE NoAccount]
  /\ plans = NoPlans
  /\ runs = [d \in Day |-> NoRun]
  /\ charges = [u \in User |-> [d \in Day |-> NoCharge]]
  /\ snapshots = [u \in User |-> [d \in Day |-> NoCount]]
  /\ loop = [pc |-> "waiting", wake |-> 0, cursor |-> 0, target |-> 0,
             live |-> FALSE, notices |-> NoNotices]
  /\ deletes = [u \in User |-> NotDeleting]
  /\ requests = 0 /\ faults = 0
  /\ credited = [u \in User |-> acct[u].balance]
  /\ activeAt = [d \in Day |-> IF d = 0 THEN {u \in User : ActiveNow(acct[u])} ELSE {}]

\* Midnight in Moscow.  activeAt remembers who was active when it struck.  A
\* catch-up under way takes less than a day: it sees one midnight at most.
NextDay ==
  /\ today < MaxDay /\ (loop.pc = "waiting" \/ today = loop.target)
  /\ today' = today + 1
  /\ activeAt' = [activeAt EXCEPT ![today + 1] = {u \in User : ActiveNow(acct[u])}]
  /\ UNCHANGED <<database, loop, deletes, requests, faults, credited>>

-----------------------------------------------------------------------------
(* The billing loop *)

\* A mistake in the place of the next: no catch-up.
StartToday ==
  /\ loop.pc = "waiting" /\ today >= loop.wake
  /\ loop' = [loop EXCEPT !.pc = "billing", !.target = today, !.cursor = today,
                          !.live = PlanForDate(plans, today) # NoPlan, !.notices = NoNotices]
  /\ UNCHANGED <<today, database, deletes, requests, faults, ghosts>>

\* catch_up_billing: from the start of the plan in force today, or only today
\* when there is none; the panel is asked for the last date only.
StartCatchUp ==
  /\ loop.pc = "waiting" /\ today >= loop.wake
  /\ LET plan == PlanForDate(plans, today)
     IN  loop' = [loop EXCEPT !.pc = "billing", !.target = today,
                    !.cursor = IF plan = NoPlan THEN today ELSE plans[plan].start,
                    !.live = plan # NoPlan, !.notices = NoNotices]
  /\ UNCHANGED <<today, database, deletes, requests, faults, ghosts>>

PlanNow == PlanForDate(plans, loop.cursor)

\* A mistake in the place of the next: no early return.
NeverBilled == FALSE

\* The early return of _process_billing_date.
AlreadyBilled ==
  /\ runs[loop.cursor].status = "completed"
  /\ runs[loop.cursor].plan # NoPlan \/ PlanNow = NoPlan

\* A mistake in the place of the next: one date too many.
NextDateInclusive(notices) ==
  [loop EXCEPT !.cursor = @ + 1, !.notices = notices,
               !.pc = IF loop.cursor > loop.target THEN "notifying" ELSE "billing"]

NextDate(notices) ==
  [loop EXCEPT !.cursor = @ + 1, !.notices = notices,
               !.pc = IF loop.cursor = loop.target THEN "notifying" ELSE "billing"]

SkipBilledDate ==
  /\ loop.pc = "billing" /\ AlreadyBilled
  /\ loop' = NextDate(loop.notices)
  /\ UNCHANGED <<today, database, deletes, requests, faults, ghosts>>

CompleteWithoutPlan ==
  /\ loop.pc = "billing" /\ ~AlreadyBilled /\ PlanNow = NoPlan
  /\ runs' = [runs EXCEPT ![loop.cursor] = [NoRun EXCEPT !.status = "completed"]]
  /\ loop' = NextDate(loop.notices)
  /\ UNCHANGED <<today, acct, plans, charges, snapshots, deletes, requests, faults, ghosts>>

\* The users as billing reads them, after the missing baselines are written.
WithBaselines ==
  [u \in User |-> EnsureStatusBaseline(acct[u], plans[PlanNow].start)]

ActiveUsers == {u \in User : ActiveAt(WithBaselines[u], Midnight(loop.cursor))}

DailyAmount ==
  DailyShare(plans[PlanNow].monthly, DaysInMonth[loop.cursor], Cardinality(ActiveUsers))

AsksProvider == loop.live /\ loop.cursor = loop.target

\* _capture_profile_counts with the counts the panel reports.
Captured(counts) ==
  [u \in User |-> IF Live(acct[u])
                  THEN [snapshots[u] EXCEPT ![loop.cursor] = counts[u]]
                  ELSE snapshots[u]]
SnapshotsAfter ==
  IF AsksProvider THEN {Captured(counts) : counts \in [User -> ProfileCounts]}
  ELSE {snapshots}

\* profile_count_for_date: the last snapshot up to the day, 0 without one.
ProfileCountForDate(taken, day) ==
  LET known == {d \in Day : d <= day /\ taken[d] # NoCount}
      last  == {d \in known : \A e \in known : e <= d}
  IN  IF last = {} THEN 0 ELSE taken[CHOOSE d \in last : TRUE]

\* A mistake in the place of the next: the snapshot of the day before.
ExtraChargeOfYesterday(taken) ==
  AdditionalProfilesCharge(DailyAmount, ProfileCountForDate(taken, loop.cursor - 1))

ExtraCharge(taken) ==
  AdditionalProfilesCharge(DailyAmount, ProfileCountForDate(taken, loop.cursor))

\* daily_balance_notification
NoticeKind(u, before, after, total) ==
  IF u \notin HasTelegram THEN 0
  ELSE IF OutOfMoney(after) THEN Blocked
  ELSE IF OutOfMoney([after EXCEPT !.balance = @ - total]) THEN LastDay
  ELSE IF before.balance >= 0 /\ after.balance < 0 THEN NegativeBalance
  ELSE 0

\* merge_balance_notification: the more important of the two is kept.
Merge(old, new) == IF new >= old THEN new ELSE old

\* A mistake in the place of the next: no such constraint.
ChargesMayRepeat == FALSE

\* uq_user_daily_charges_user_created_kind
ChargeExists == \E u \in ActiveUsers : charges[u][loop.cursor] # NoCharge

MayCharge == loop.pc = "billing" /\ ~AlreadyBilled /\ PlanNow # NoPlan

\* The rest of _process_billing_date, committed as one transaction.
ChargeDate ==
  /\ MayCharge /\ ~ChargeExists
  /\ \E taken \in SnapshotsAfter :
       LET day      == loop.cursor
           extra    == [u \in User |-> ExtraCharge(taken[u])]
           profiles == [u \in User |-> AdditionalProfiles(ProfileCountForDate(taken[u], day))]
           after    == [u \in User |->
                          IF u \in ActiveUsers
                          THEN ChargeAccount(WithBaselines[u], DailyAmount + extra[u],
                                             Midnight(day))
                          ELSE WithBaselines[u]]
       IN /\ snapshots' = taken
          /\ acct' = after
          /\ charges' = [u \in User |->
               IF u \in ActiveUsers
               THEN [charges[u] EXCEPT ![day] =
                       [base |-> DailyAmount,
                        extra |-> IF profiles[u] > 0 THEN extra[u] ELSE NoAmount]]
               ELSE charges[u]]
          /\ runs' = [runs EXCEPT ![day] =
               [status |-> "completed", plan |-> PlanNow,
                active |-> Cardinality(ActiveUsers),
                charged |-> Cardinality(ActiveUsers),
                blocked |-> Cardinality({u \in ActiveUsers : OutOfMoney(after[u])}),
                daily |-> IF ActiveUsers = {} THEN NoAmount ELSE DailyAmount]]
          /\ loop' = NextDate([u \in User |->
               IF u \in ActiveUsers
               THEN Merge(loop.notices[u],
                          NoticeKind(u, acct[u], after[u], DailyAmount + extra[u]))
               ELSE loop.notices[u]])
  /\ UNCHANGED <<today, plans, deletes, requests, faults, ghosts>>

\* The rollback: the run is marked failed, whatever it was; the loop tries
\* again in a minute and forgets the notices of the dates before.
FailedDate ==
  /\ runs' = [runs EXCEPT ![loop.cursor].status = "failed"]
  /\ loop' = [loop EXCEPT !.pc = "waiting", !.notices = NoNotices]
  /\ UNCHANGED <<today, acct, plans, charges, snapshots, deletes, requests, ghosts>>

ProviderFails == MayCharge /\ AsksProvider /\ FailedDate /\ UNCHANGED faults

DuplicateCharge == MayCharge /\ ChargeExists /\ FailedDate /\ UNCHANGED faults

DatabaseError ==
  /\ loop.pc = "billing" /\ "db_error" \in FaultKinds /\ faults < MaxFaults
  /\ FailedDate
  /\ faults' = faults + 1

\* send_balance_notifications: delivery failures are logged and forgotten.
SendNotices ==
  /\ loop.pc = "notifying"
  /\ loop' = [loop EXCEPT !.pc = "syncing", !.notices = NoNotices]
  /\ UNCHANGED <<today, database, deletes, requests, faults, ghosts>>

\* sync_paused_profiles: those of the users paused before today whose profiles
\* the panel reports as enabled, or all of them when the panel fails; then the
\* loop waits for the next midnight.
PausedBeforeToday(a) ==
  /\ Live(a) /\ a.status = "paused"
  /\ \E c \in Latest(a.history) : c.new = "paused" /\ c.eff < Midnight(today)

SyncPausedProfiles ==
  /\ loop.pc = "syncing"
  /\ \E queued \in SUBSET {u \in User : PausedBeforeToday(acct[u])} :
       acct' = [u \in User |-> IF u \in queued THEN QueueVpnSync(acct[u], FALSE)
                               ELSE acct[u]]
  /\ loop' = [loop EXCEPT !.pc = "waiting", !.wake = today + 1]
  /\ UNCHANGED <<today, plans, runs, charges, snapshots, deletes, requests, faults, ghosts>>

\* The process stops (or a failure cannot even be recorded) and starts again.
Crash ==
  /\ "crash" \in FaultKinds /\ faults < MaxFaults
  /\ loop' = [loop EXCEPT !.pc = "waiting", !.wake = today, !.notices = NoNotices]
  /\ deletes' = [u \in User |-> NotDeleting]
  /\ faults' = faults + 1
  /\ UNCHANGED <<today, database, requests, ghosts>>

-----------------------------------------------------------------------------
(* The requests *)

Now == During(today)

Serve == requests < MaxRequests /\ requests' = requests + 1

\* A request that changes one account; the ledger follows what it adds.
Store(u, row) ==
  /\ acct' = [acct EXCEPT ![u] = row]
  /\ credited' = [credited EXCEPT ![u] = @ + row.balance - acct[u].balance]
  /\ UNCHANGED <<today, plans, runs, charges, snapshots, loop, faults, activeAt>>

CreateUser(u) ==
  /\ ~Exists(acct[u]) /\ Serve
  /\ \E s \in AccountStatus, b \in Balances, l \in Limits :
       Store(u, NewAccount(s, b, l, Now))
  /\ UNCHANGED deletes

UpdateUser(u) ==
  /\ Live(acct[u]) /\ Serve
  /\ \E s \in AccountStatus, b \in Balances \union {acct[u].balance},
        l \in Limits \union {acct[u].limit} :
       Store(u, EditAccount(acct[u], s, b, l, Now))
  /\ UNCHANGED deletes

StartDelete(u) ==
  /\ Live(acct[u]) /\ deletes[u] = NotDeleting /\ Serve
  /\ deletes' = [deletes EXCEPT ![u] = acct[u].status]
  /\ UNCHANGED <<today, database, loop, faults, ghosts>>

\* The panel answered, or it did not and the request fails.
FinishDelete(u) ==
  /\ deletes[u] # NotDeleting
  /\ \/ Store(u, DeleteAccount(acct[u], deletes[u], Now))
     \/ UNCHANGED <<today, database, loop, faults, ghosts>>
  /\ deletes' = [deletes EXCEPT ![u] = NotDeleting]
  /\ UNCHANGED requests

TopUp(u) ==
  /\ Live(acct[u]) /\ Serve
  /\ \E amount \in Credits :
       /\ acct[u].balance + amount <= MaxMoney
       /\ Store(u, CreditAccount(acct[u], amount, Now))
  /\ UNCHANGED deletes

Activate(u) ==
  /\ MayActivate(acct[u]) /\ Serve
  /\ Store(u, ActivateAccount(acct[u], Now))
  /\ UNCHANGED deletes

\* The VPN worker is done with the job of the user.
TakeVpnJob(u) ==
  /\ acct[u].job # "none"
  /\ acct' = [acct EXCEPT ![u].job = "none"]
  /\ UNCHANGED <<today, plans, runs, charges, snapshots, loop, deletes, requests,
                 faults, ghosts>>

StorePlans(table) ==
  /\ plans' = table
  /\ UNCHANGED <<today, acct, runs, charges, snapshots, loop, deletes, faults, ghosts>>

CreatePlan(id) ==
  /\ id \notin DOMAIN plans /\ Serve
  /\ \E start \in Day, monthly \in Monthly :
       /\ MayCreatePlan(plans, start, today)
       /\ StorePlans(CreatedPlan(plans, id, start, monthly))

UpdatePlan(id) ==
  /\ id \in DOMAIN plans /\ Serve
  /\ \E start \in Day, monthly \in Monthly :
       /\ MayUpdatePlan(plans, id, start, today)
       /\ StorePlans(UpdatedPlan(plans, id, start, monthly))

\* billing_runs refer to plans: ondelete="RESTRICT"
DeletePlan(id) ==
  /\ id \in DOMAIN plans /\ Serve
  /\ MayDeletePlan(plans, id, today)
  /\ \A d \in Day : runs[d].plan # id
  /\ StorePlans(DeletedPlan(plans, id))

-----------------------------------------------------------------------------

BillingLoop == \/ StartCatchUp \/ SkipBilledDate \/ CompleteWithoutPlan \/ ChargeDate
               \/ ProviderFails \/ DuplicateCharge \/ DatabaseError
               \/ SendNotices \/ SyncPausedProfiles \/ Crash

UserRequest(u) == \/ CreateUser(u) \/ UpdateUser(u) \/ StartDelete(u) \/ FinishDelete(u)
                  \/ TopUp(u) \/ Activate(u) \/ TakeVpnJob(u)

PlanRequest(id) == CreatePlan(id) \/ UpdatePlan(id) \/ DeletePlan(id)

Next == \/ NextDay
        \/ BillingLoop
        \/ \E u \in User : UserRequest(u)
        \/ \E id \in PlanId : PlanRequest(id)

Spec == Init /\ [][Next]_vars

\* Days pass, the loop runs, and the panel answers again and again.
Fairness == /\ WF_vars(NextDay) /\ WF_vars(StartCatchUp)
            /\ WF_vars(SkipBilledDate) /\ WF_vars(CompleteWithoutPlan)
            /\ SF_vars(ChargeDate) /\ WF_vars(DuplicateCharge)
            /\ WF_vars(SendNotices) /\ WF_vars(SyncPausedProfiles)

FairSpec == Spec /\ Fairness

-----------------------------------------------------------------------------
(* What the database must satisfy *)

\* The status of an account is the one its history ends with, although billing
\* may insert a block into the past, before changes that are already recorded.
\* (billing/service.py, the loop over active_users; restore_if_billing_blocked
\* trusts it.)
StatusMatchesHistory == \A u \in User : StatusIsLatest(acct[u])

\* Billing never charges for a day the user was not active at the midnight of,
\* however late it runs and whatever changed since.  (_active_users_at)
ChargedOnlyIfActive ==
  \A u \in User, d \in Day : charges[u][d] # NoCharge => u \in activeAt[d]

\* A completed run leaves nobody out: who was active at that midnight, and whose
\* history reaches back to it, is charged, unless billing has since recorded a
\* block as of that midnight or an earlier one.
BlockedByThen(a, t) == \E i \in UpTo(a.history, t) :
                         a.history[i].source = "billing" /\ a.history[i].new = "blocked"
NobodySkipped ==
  \A d \in Day : runs[d].status = "completed" /\ runs[d].plan # NoPlan =>
    \A u \in activeAt[d] : \/ charges[u][d] # NoCharge
                           \/ UpTo(acct[u].history, Midnight(d)) = {}
                           \/ BlockedByThen(acct[u], Midnight(d))

\* Money is conserved: a balance is what was credited (payments, corrections of
\* an administrator) less the recorded charges.  (user.balance and the rows of
\* user_daily_charges are written apart)
Charged(c) == (IF c.base = NoAmount THEN 0 ELSE c.base)
              + (IF c.extra = NoAmount THEN 0 ELSE c.extra)
ChargedBefore(rows) ==  \* the sum of the days before each
  LET total[d \in 0 .. MaxDay + 1] == IF d = 0 THEN 0 ELSE total[d - 1] + Charged(rows[d - 1])
  IN  total
TotalCharged(u) == ChargedBefore(charges[u])[MaxDay + 1]
LedgerBalanced == \A u \in User : acct[u].balance = credited[u] - TotalCharged(u)

\* The counters of a completed run describe the charges and the blocks recorded
\* for its day; a day without a completed run has none: a failed run leaves
\* nothing behind.  (_process_billing_date and its rollback)
BlockedAsOf(d) == {u \in User : \E i \in DOMAIN acct[u].history :
                     /\ acct[u].history[i].source = "billing"
                     /\ acct[u].history[i].eff = Midnight(d)}
ChargedOn(d) == {u \in User : charges[u][d] # NoCharge}
RunMatchesCharges ==
  \A d \in Day :
    IF runs[d].status = "completed"
    THEN /\ runs[d].charged = Cardinality(ChargedOn(d))
         /\ runs[d].blocked = Cardinality(BlockedAsOf(d))
         /\ \A u \in ChargedOn(d) : charges[u][d].base = runs[d].daily
    ELSE ChargedOn(d) = {} /\ BlockedAsOf(d) = {}

\* Whatever fails, and however often a date is tried again: a run claims no charge and no
\* block that is not recorded, nobody is blocked as of a midnight they were not charged for,
\* and nobody is charged for a day that has no run.  (_process_billing_date,
\* _fail_billing_run)
RunBounded(d) ==
  /\ runs[d].charged <= Cardinality(ChargedOn(d))
  /\ runs[d].blocked <= Cardinality(BlockedAsOf(d))
  /\ BlockedAsOf(d) \subseteq ChargedOn(d)
  /\ ChargedOn(d) # {} => runs[d].status # "none"
RunNeverOverstates == \A d \in Day : RunBounded(d)

\* An extra charge is explained by the snapshots on record: half a share for
\* each profile after the first of the last snapshot up to that day.
ExtraChargeExplained ==
  \A u \in User, d \in Day : charges[u][d] # NoCharge =>
    LET count == ProfileCountForDate(snapshots[u], d)
    IN  charges[u][d].extra =
          IF count > 1 THEN AdditionalProfilesCharge(charges[u][d].base, count)
          ELSE NoAmount

\* Nobody who can pay stays blocked by billing: every path that brings the
\* balance back over the limit also restores the account.  ("после зачисления
\* доступ восстановится автоматически", notifications/service.py)
NoPaidUpBlock == \A u \in User : PaidUpNotBlocked(acct[u])

\* Why the two hold, and what keeps them: nothing is recorded for a moment that
\* has not come, billing is never ahead of the date, and a billing row is a block
\* of an account that was active or paused.
AccountsConsistent ==
  loop.target <= today /\ \A u \in User : Consistent(acct[u], Now)

(* What a step may not do *)

\* An account an administrator has blocked is released by an administrator only:
\* neither a payment nor billing for an earlier day lifts the block.
BlockedByAdmin(a) ==
  a.status = "blocked" /\ \E c \in Latest(a.history) : c.source = "admin"
ManualBlockSticks ==
  [][\A u \in User : BlockedByAdmin(acct[u]) /\ acct'[u].status # "blocked" =>
       \E c \in Latest(acct'[u].history) : c.source = "admin"]_vars

\* What was charged for a day is never charged again, changed or taken back, although a
\* date that was billed is tried again after a database error has marked it as failed, by
\* then with other users and another plan.  (uq_user_daily_charges_user_created_kind)
ChargesFinal ==
  [][\A u \in User, d \in Day :
       charges[u][d] # NoCharge => charges'[u][d] = charges[u][d]]_vars

(* What must happen *)

\* A day a plan is in force is billed some day, although the panel fails now and
\* then and billing is late.  A catch-up that crosses midnight wakes up the day
\* after, so the two last days of the model do not count.
EveryDayBilled ==
  \A d \in 0 .. MaxDay - 2 :
    (today \in d .. MaxDay - 2 /\ PlanForDate(plans, d) # NoPlan)
      ~> (runs[d].status = "completed" /\ runs[d].plan # NoPlan)
=============================================================================

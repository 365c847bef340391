# VPNщики: a TLA+ verification of the backend and the frontend

The repository is a small closed service: members of a group share a VPN, each has an
account with a balance, a daily billing splits the monthly price among the active
members, YooMoney payments raise the balance, and the access on a 3X-UI panel follows
the status of the account. The Python backend (`backend/app`) keeps all that
consistent; the React frontend (`frontend/src`) shows it while it changes. These modules
model both, TLC checks them on small instances, and TLAPS proves the main invariants
for every instance.

Paths below are relative to `backend/app` or `frontend/src`.

## 1. Inventory

| Component | State | Operations | Model |
|---|---|---|---|
| Account and status history (`users/models.py`, `billing/models.py`, `billing/service.py`) | row of `users`: balance, limit, status, deleted_at; rows of `user_status_history`; one optional row of `vpn_sync_jobs` | `record_status_change`, `add_initial_status_history`, `queue_vpn_sync`, `block_if_balance_below_limit`, `restore_if_billing_blocked`, and the handlers `create_user`, `update_user`, `delete_user`, `activate_account`, `apply_successful_payment` | `Accounts` |
| Daily billing (`billing/scheduler.py`, `billing/service.py`, `billing/calculations.py`) | `billing_runs`, `user_daily_charges`, `user_profile_counts`; in memory: the cursor of the catch-up, the notices, the next wake-up | `catch_up_billing`, `_process_billing_date`, `sync_paused_profiles`, the loop and its retry | `Billing`, `DailyCharge` |
| Tariff plans (`tariff_plans/service.py`) | `tariff_plans` with periods that are rebuilt | create, update, delete | `Tariffs` |
| VPN synchronisation (`process_vpn_sync_jobs`, `vpn_access/service.py`) | jobs; the panel's profiles (external) | worker loop, `set_matching_enabled`, direct calls of `update_user` and `delete_user` | `VpnSync` |
| YooMoney payments (`payments/`) | `yoomoney_payments`, the operations of the wallet (external) | create, webhook, targeted poll, reconciliation scheduler | `Payments`, `TopUpLedger` |
| Balance notices (`notifications/`) | none | decide, merge, send | in `Billing` |
| Sessions (`auth/`) | `auth_sessions` | login, logout, check, replacement of all sessions by a new password | `Browser` (server side) |
| Administrators (`admin/router.py`, `bootstrap.py`) | roles | demote, delete, bootstrap at start | not modelled |
| User store, API client, routes (`entities/user`, `pages/index.tsx`, `shared/api`) | `useUserStore`, the session cookie, the route, the query cache | `initialize`, `login`, `logout`, `setUser`, activation, change of the password, fetches | `Browser` |
| Payment page (`pages/PaymentResultPage`) | the payment query, `refreshed` | poll, window of targeted reconciliation, reading the user again | `Browser` |
| Administration of users (`pages/UsersPage`) | list, dialog, mutations | create, edit, reset a password, delete, refetch | `UsersPage` |
| Tariff plans (`pages/TariffPlansPage`, `entities/tariffPlan`) | list, form with its preview, mutation | create, edit, delete, preview | `TariffPlansPage`, with `Tariffs` as the server |
| Journal of payments (`pages/TopUpsPage`) | list, filters, sorting, expanded row | filter, sort, expand, refetch | `TopUpsPage` |
| Overview (`pages/OverviewPage`) | VPN panel with tabs and QR code, top-up dialog, copy buttons | choose, show, copy, prepare and pay | `VpnPanel`, `TopUpForm`, `CopyFeedback` |
| Histories (`ChargeHistoryModal`, `TopUpHistoryModal`, billing runs) | the dialog and its fetch | open, group by month, expand | `Histories` |
| Dialog, select field (`shared/ui/Modal`, `shared/ui/FieldSelect`) | overflow and focus of the page; the list, its highlight and its place | effect and cleanup, focus trap, Escape; keys, letters, pointer, placement | `DialogStack`, `FieldSelect` |
| Reports, migrations, deployment, layout, theme | - | read only, or once before the start, or no state that outlives a click | not modelled, but migration 0004 gives the initial states of `Billing` |

How they interact. Everything meets in PostgreSQL. Request handlers run in one
transaction each; those that change an account take its row `FOR UPDATE`
(`delete_user` does not). Two background tasks (billing loop, VPN worker) and one more
(YooMoney reconciliation) run in the same process. Handlers leave wishes for the VPN
worker in `vpn_sync_jobs`, at most one per user, and wake it up with an event. Billing,
`update_user` and `delete_user` call the panel in the middle of their work; the first
two while they hold locks. A tab of the frontend has one user store; every page has queries and
mutations of its own, each answered at any time or never, and the session cookie is
that of the moment a request is sent.

What is hard here: billing runs late and writes status changes *into the past* of
histories that already go on; every operation that restores or blocks trusts the
last row of that history; the worker acts on a copy of a job; the panel applies changes
whose answer is lost; three sources settle the same payment; the loop repeats dates
after errors and crashes. In the browser answers overtake each other, dialogs are closed
with a request running, forms and previews are filled from lists that others change,
and the widgets of a page share its scrolling and its focus without knowing of each
other. `PROJECT.json` lists each of these hazards at its line with
the property that covers it, or the reason that none does yet.

What makes the components correct:

- *accounts*: the status is the one the history ends with; whoever can pay is not left
  blocked by billing; a block by hand is lifted by hand only;
- *billing*: who was active at midnight is charged exactly once, nobody else ever; a
  run describes its charges; balance = credits - charges; every day is billed in the end;
- *VPN*: when nothing is pending the panel agrees with the accounts; queued access is
  granted; users paused before today are cut off;
- *payments*: an operation pays once, a payment is credited once, with the right
  balances, and every transfer that happened is credited in the end;
- *tab*: who is shown as signed in is the owner of the cookie; a sign-out takes effect though
  its request fails; a credit that was paid for reaches the payment page and the store;
- *pages*: what was saved is shown in the end; dialogs come back from their requests and
  give the page back; what is previewed, listed, grouped and paid for is what the server has.

## 2. Modules

```
Accounts  <- Billing  (EXTENDS Accounts, DailyCharge, Tariffs)   <- MCBilling
          <- VpnSync                                             <- MCVpnSync
          <- Payments --- implements ---> TopUpLedger            <- MCPayments
          Browser                                            <- MCBrowser
UsersPage, DialogStack, FieldSelect, TariffPlansPage (EXTENDS Tariffs), Histories,
VpnPanel, CopyFeedback, TopUpForm, TopUpsPage    <- Pages        <- MCPages
AccountsProofs, TariffsProofs <- BillingProofs <- BillingDaysProofs
AccountsProofs <- PaymentsProofs;  AccountsProofs <- VpnSyncProofs
BrowserProofs;  TariffsProofs <- PagesProofs
```

**Accounts** has no variables. An account is one record: the `users` row with its
history (a sequence; the index is `created_at`) and its job. Each operation of the code is an
operator from the loaded row to the committed row, so that the three state machines
share one translation of `update_user`, `apply_successful_payment` and the rest. Time
is counted in half days: `Midnight(d)` is the cutoff of day d, `During(d)` is any later
moment of the day. Money is counted in kopecks. The predicates at its end
(`HistoryOK`, `Consistent`) are what the operations preserve.

**DailyCharge** and **Tariffs** hold the arithmetic (one rounding, `ROUND_HALF_UP`, of an
exact quotient) and the table of plans (`PlanForDate`, `RebuildPeriods`, the guards
and effects of the handlers on the locked table). Both are recursion-free.

**Billing** is the database, the billing loop and all requests. The loop is
`StartCatchUp`, then one action per date - `SkipBilledDate` (the early return),
`CompleteWithoutPlan`, `ChargeDate` (the whole rest of `_process_billing_date` including
baselines, snapshots, charges, blocks, jobs, notices: one commit), or one of the
failures `ProviderFails`, `DuplicateCharge`, `DatabaseError` - then `SendNotices` and
`SyncPausedProfiles`. `Crash` may strike between any two. A handler that keeps the
row locked from its first read to its commit is one action; `delete_user` reads without
a lock and waits for the panel, so it is `StartDelete` and `FinishDelete`. `NextDay` is
midnight; the worker is reduced to `TakeVpnJob`. Two history variables: `credited` (what
requests added to a balance) and `activeAt` (who was active when midnight struck).

**VpnSync** opens up what `Billing` reduces: the worker (`WorkerLoad` copies the jobs,
`WorkerCalls` re-reads the user, the panel answers profile by profile, `WorkerSucceeds`
and `WorkerFails` act on the copy), `update_user` and `delete_user` while they wait for
the panel, and the two halves of `sync_paused_profiles`. A profile's answer may be ok,
unavailable, not found, or lost after the change was applied. It covers one Moscow day
in which daily billing meets every user once, at any moment. Two history variables
excuse what the code does get wrong: `excused` (the worker deletes a job that was renewed
during its call, which `vpn_lost` shows) and `overruled` (a late block that a newer
status overrules still overwrites the job of that status; without the excuse
`AccessRestored` fails).

**Payments** is statement by statement: a session is a transaction of the webhook, the
poll or the scheduler; it locks the payment, checks the operation, locks the owner,
commits, and `End` releases its locks. The row of the owner is read when its lock is granted
and kept in the session (`read`); the commit writes the balance that was computed from it, so
that a change of the account between the two would be lost if the lock did not keep it out. `Ledger` maps it to **TopUpLedger**, three lines that
say what a payment system promises; `ImplementsLedger` is the refinement.

**Browser** is one tab against the server: the rows and sessions on one side; the cookie, the
store, the route, the cache and the payment page on the other; between them `net`, one
request of each kind. A request leaves with the cookie of the moment (`Sent`), is served
(`Serve...`, which may set a cookie), refused or lost, and is delivered (`Initialized`,
`LoggedIn`, `LoggedOut`, `Activated`, `PasswordChanged`, `Polled`, `Refreshed`, `Fetched`)
after whatever happened meanwhile. A row carries a version that counts its changes, which is
all the store needs to be compared with. A 401 clears the cookie; the API client turns it into
an `ApiError` like every other refusal, and only the check of the session and the sign-out
change the store for it. `crossed` remembers that a request of an older session outlived a sign-in or a
sign-out: the code then takes over the answer of the older one.

**UsersPage** is the list, the dialog and up to two mutations that run at once, against the
rows of the server. `Serve` is the handler, `Refreshes` is `onSuccess` with
`invalidateQueries` (a fetch that runs is cancelled and repeated), `Refreshed` its end.
Whoever resets the own password has no session from then on - every further request and fetch is
refused - and leaves the page when the logout has ended (`PasswordReset`, `SignedOut`).
`behind` remembers changes by others that no fetch has seen.

**TariffPlansPage** extends `Tariffs`: the server's table is the one of the backend model,
and the preview of the form (`getPreviewEndDate`) is compared with
what the handlers of that model do with the plan once it is saved.

**Histories**, **TopUpsPage**, **VpnPanel**, **CopyFeedback**, **TopUpForm**,
**DialogStack** and **FieldSelect** are one widget each, with the server or the
parent as the actions that change its data under it. `DialogStack` takes any number of
`Modal`s, each with the effect that saves and restores what it finds; `lost` remembers that the
focus was on nothing (a text was clicked, a focused button disabled), from where Tab
reaches the page behind and a second dialog can be opened; `orderly` that the dialog opened first
was never closed under another one. `FieldSelect` has the list in
a window, with its placement as arithmetic. In `CopyFeedback` every button has its own mark,
timers and writes of the clipboard; it may leave the screen while writes are under way, whose
timers then start after its clean-up, and one put on the screen again is another button.
`TopUpForm` marks the requests that were running when the dialog was closed (`left`), and remembers
when one of those has been answered (`lateAnswer`). The table of `TopUpsPage` is always a permutation of the
rows, as `Array.sort` makes one of any comparator: a row's place is the number of rows that
the comparator puts before it, or that are tied and come earlier.

**Pages** puts them side by side. They have no state in common - each lives while it is on
the screen - so one of them (`part`) moves in a behaviour and the others stay.

The operators introduced by "A mistake in (its|the) place of the next" are never used by
the models: each is a plausible bug, and putting it in the place of the definition that follows
must violate a property (the mutants of `PROJECT.json`).

## 3. Runs

Every configuration disables deadlock checking: the bounds on requests and days end the
behaviours, and a service without requests may rest.

| Run | Instance | Shows |
|---|---|---|
| `billing_core` | 1 user, 1 plan, days 0..2, 4 requests, balances {0, 4}, credit 4, daily share 4, no faults, 1 or 2 profiles | `TypeOK`, `StatusMatchesHistory`, `ExtraChargeExplained`, `NoPaidUpBlock`, `RunMatchesCharges`, `ManualBlockSticks` |
| `billing_pair` | 2 users who exist before, 1 plan, days 0..1, 3 requests, one database error, 3 profiles each, monthly price 10 (a share is not a whole number), symmetric | `ChargedOnlyIfActive`, `LedgerBalanced`, `NobodySkipped`, `RunNeverOverstates`, `ChargesFinal` |
| `billing_live` | 1 user, days 0..3, 1 request (a plan), one crash, the panel fails at will | `EveryDayBilled` |
| `vpn_one` | 1 user, 2 profiles, 2 requests, 1 profile removed by hand | `TypeOK`, `QuietAgrees` |
| `vpn_live` | 1 user, 1 profile, 3 requests | `AccessRestored`, `PausedCutOff` |
| `payments_safe` | 1 debtor, 2 payments, 2 sessions, two operations for one payment and one for two, 1 other change | `TypeOK`, `OperationPaysOnce`, `NoPaidUpBlock`, `CreditsAreRecorded`, `ImplementsLedger` |
| `payments_live` | 2 payments, 2 sessions, 1 crash | `PaidIsCredited`, `EveryTransactionEnds` |
| `browser` | 1 tab, 2 accounts, 2 sessions ever, 2 requests by clicks, 1 trouble (loss, change elsewhere, reload), 2 in flight, 1 poll in the window | `TypeOK`, `NoIdleSkeleton`, `SignedInAsShown`, `LogoutTakesEffect`, `PaymentSeen`, `SuccessReachesStore` |
| `pages` | users: 2 people, 2 requests, 1 change by others; dialogs: 3; select: two lists, 2 windows, 5 places; plans: 2, 4 days, 2 changes; histories: 3 days, months of 2, 3 entries; VPN: 2 profiles; copies: 3 buttons, 3 copies, marks of 3 ticks; top-up: 3 requests, amounts 5, 10, 5000; journal: 2 payments of 2 users | `TypeOK`, `ListShowsSaves`, `DialogsComeBack`, `PageScrollsAgain`, `HighlightUsable`, `PopupInView`, `PreviewKept`, `HistoryAddsUp`, `CopiedLasts`, `PaysWhatWasSubmitted`, `TableComplete` |

Runs that must fail, each a disagreement of the code with its own words (findings):

| Run | Refutes | What happens |
|---|---|---|
| `billing_boundary` | `EveryDayBilled` with two plans | the panel is down on the last day of a plan; the catch-up starts with the plan in force today, so that day is never repeated |
| `vpn_lost` | `AccessDespiteOverlap` | the worker deletes the row of a job that has been renewed during its call |
| `users_overwrite` | `UntouchedBalanceStays` | the form sends the balance of the row it was opened with: a payment credited meanwhile is undone by whoever changes the name |

Known behaviour that the passing runs leave out, by a bound or by an excuse:

- An error of the database while the loop passes a billed date marks the completed run failed; its
  charges make every retry fail on the unique constraint, and no later day is
  billed. With `MaxFaults` raised in `billing_live`, `EveryDayBilled` fails; `RunMatchesCharges`
  is checked without database errors for the same reason. What a database error leaves true is
  checked by `billing_pair`: no charge is lost or changed (`ChargesFinal`), and no completed run
  counts more than was charged (`RunNeverOverstates`).
- A late block is announced to the user (`blocked_balance_notification`) although a later
  status keeps the account active.
- Closing the dialog opened first before the one opened last leaves the page locked
  (`orderly` of `DialogStack`). Two can be open only after the focus was lost to nothing (`lost`):
  until then the Tab key never leaves a dialog, which `TrapKeepsOneDialog` of `PagesProofs` shows.
- Options that are replaced under an open list leave its highlight and its place as they
  were (`replaced` of `FieldSelect`).
- Closing the top-up dialog does not cancel its request: an answer that arrives late replaces the
  summary of a newer one, or is what the dialog opens with (`lateAnswer` of `TopUpForm`). Closing, opening and
  submitting again are covered until that happens.
- In a window with less than 80 pixels above and below the control (and less than the list
  needs) the list leaves the window or covers its control; `PopupInView` asks for that room on one side.
- A button that leaves the screen while a copy is under way starts a timer that nothing clears;
  it has no mark to take back (`CopiedLasts` says so of every copy that ends later).
- A save on the page of users that ends between the answer of the very first fetch and its
  arrival is not shown until the next fetch (`ListShowsSaves` names it).
- The QR code keeps showing its profile when a refetch takes the chosen tab away
  (`VpnAccessPanel.tsx`): modelled by `VpnPanel`, no property is about it.

Why the bounds are enough. Accounts do not interact, but for the number of active users
in the share of a day and for the worker's batch: one user explores the histories, two
the shares. `VpnSync` is written for any set of users but checked for one, with two
profiles: its copy of a job may go stale between the load and the call, and during the
call, as it would behind the jobs of others. Batches of two users are in the plan. Three days hold a postponed date, a date with later
changes, and the present. The four requests of `billing_core` are the shortest that let
a plan, a late block, a status by hand and a payment meet. Two operations and two
payments are what a collision takes; a third session only waits. The amounts are the
smallest at which the profiles of a user decide whether it is blocked. In `browser` two
requests at a time are what a crossing takes (an answer of the older, a sign-in by the
newer), two accounts what confusion takes; the check of the session and the queries of the
page come on top of the two clicks. In `pages` two mutations overlap with a fetch; two dialogs
make an order, the third one in the middle; the lists of the select field have a disabled option first, last, and six options,
more than fit; the windows are one in which the long list fits on no side and one in which it fits on one; 5,
10 and 5000 are below, at, and at the upper end of what may be paid.

Bounds on the state: `MaxDay`, `MaxRequests`, `MaxFaults`, `MaxChanges`, `MaxCrashes`,
`MaxRemoved`, `MaxTokens`, `MaxClicks`, `MaxTrouble`, `MaxInFlight`, `MaxSubmits`, `MaxSaves`,
`MaxEntries`, `MaxCopies`, `MaxPayments`, `MaxJournal`; each is a guard of the actions it bounds.

### Fairness

- `Billing`: `WF` on midnight and on the loop's own steps - an asyncio task that is restarted
  with the process; `SF` on `ChargeDate` - the loop comes back every minute, and the panel
  that fails now and then does not fail every time. `EveryDayBilled` leaves out the
  two last days of the model: a catch-up that crosses midnight sleeps until the midnight after.
- `VpnSync`: the worker polls every minute (`SF` on loading a job: it need not be due
  in every round), handlers get answers or time out (`WF`), and each profile's call
  succeeds again and again (`SF` on the answer "ok").
- `Payments`: only the scheduler is sure to run (`SF` per transfer: its task takes one
  operation at a time and comes back every five minutes); webhooks and polls have no
  fairness. Row locks are granted in turn (`SF`), the rest of a transaction goes on (`WF`).
- `Browser`: `WF` on serving each request - it is answered or ky times out -, on what the tab
  does with an answer, on the polling interval and on the backend that settles a
  transfer (`PaidIsCredited`). Nothing that the user does is fair, and no request is sure to succeed.
- `UsersPage`: `WF` on the same: the answer or its failure, and what follows from it; `SF` on a save that
  waits for the list (`Refreshed`), since its continuation runs when the fetch has ended, before a click can start
  another one. The other parts of `Pages` are checked for safety only.

## 4. What is proved

Every safety invariant and every action property of the passing runs is a theorem for any
values of the constants; so is the refinement of `TopUpLedger`. Some theorems state more than
the runs check (a dash in the table's third column): TLC has been used to look for
counterexamples to them, on the instances of the billing runs, before they were proved. The argument is the same throughout: the property is not inductive, so an
invariant is stated that is, with one lemma for each action, and the property follows.
What an operation does to one row is proved once, where the operation is defined, and
lifted action by action.

| Module | Theorem | Property | Inductive invariant |
|---|---|---|---|
| `BillingProofs` | `TypeCorrect`, `StatusFollowsHistory`, `PayersAreRestored` | `TypeOK`, `StatusMatchesHistory`, `NoPaidUpBlock` | `Inv` |
| `BillingDaysProofs` | `ChargedWereActiveThen`, `ActiveAreCharged` | `ChargedOnlyIfActive`, `NobodySkipped` | `DaysInv` |
| | `ManualBlocksStick` | `ManualBlockSticks` | `Inv` |
| | `RecordsConsistent` | - | `Inv` |
| | `MoneyIsConserved` | `LedgerBalanced` | `LedgerInv` |
| | `RunsCountCharges`, `ExtraChargesExplained` | `RunMatchesCharges`, `ExtraChargeExplained` | `RunsInv`, no database errors |
| | `RunsNeverOverstate`, `ChargesAreFinal` | `RunNeverOverstates`, `ChargesFinal` | `BoundedInv`, `DaysInv` |
| | `ChargesAreExplained` | - | `DaysInv` |
| | `RunsAtThePlan`, `PastPlansAreSettled` | - | `ScheduleInv` |
| | `EveryonePaysTheShare` | - | `RunsInv`, `ScheduleInv`, no database errors |
| `PaymentsProofs` | `TypeCorrect`, `PaidOnce`, `DebtorsComeBack`, `CreditsRecorded`, `LedgerImplemented` | `TypeOK`, `OperationPaysOnce`, `NoPaidUpBlock`, `CreditsAreRecorded`, `ImplementsLedger` | `Inv` |
| `VpnSyncProofs` | `TypeCorrect`, `PanelFollows` | `TypeOK`, `QuietAgrees` | `Inv` |
| `BrowserProofs` | `TypeCorrect`, `PanelIsFetched`, `StoreNamesOwner` | `TypeOK`, `NoIdleSkeleton`, `SignedInAsShown` | `Inv` |
| `PagesProofs` | `PageIsGivenBack` | `PageScrollsAgain` | `StackInv` |
| | `TrapKeepsOneDialog` | - (`FocusTrapped`) | `StackInv` |
| | `CheckoutIsLastRequest` | `PaysWhatWasSubmitted` | `TopUpInv` |
| | `EnterChooses`, `PopupStaysInView` | `HighlightUsable`, `PopupInView` | `SelectInv` |
| | `MarkLastsItsTime` | `CopiedLasts` | `CopyInv` |
| | `ListKeepsUp` | `ListShowsSaves` | `UsersInv` |
| | `PreviewIsKept`, `EveryDayHasItsPlan` | `PreviewKept`, `OnePlanPerDay` | `PlansInv` |
| | `TableIsComplete` | `TableComplete` | `TopUpsInv` |
| | `GroupsAddUp` | `HistoryAddsUp` | `HistoryInv` |
| | `PagesTypes`, `PagesAreSound`, `PagesKeepPreviews` | `TypeOK` and the above, under the specification of all pages | those of the parts |

### Billing

`BillingProofs`: `Inv == TypeOK /\ AccountsConsistent`. A block by
late billing is inserted with `effective_at` = midnight; that the status still is the last
row's needs that nothing is recorded for the future (`SoundHistory`: every row is at most
`Now`) and that billing is not ahead of the date (`loop.target <= today`): with them,
either a later row exists and remains last, or the block becomes last and the
status becomes blocked (`ChargeAccountConsistent`). That a payment restores whom it can needs,
besides, that every row by billing is a block of an active or paused account
(`SoundHistory` again): then `restore_if_billing_blocked` cannot fail on the previous
status. `AccountsProofs` shows once for each operation
of `Accounts` that it keeps the type and `Consistent`.

`BillingDaysProofs` adds what the days of the past need. `DaysInv` says for every user and day,
from what the history says of the midnight, whether the user was active at it (`DaySound`),
that a charge is for a day the user was active and not beyond the cursor, and that whoever was active on a billed day
is accounted for (`Accounted`). It holds because every request records at the
moment it is made, after all midnights that have struck, and a late block comes with the
charge of its own date (`ChargeDateDays`); histories are compared by what they grow by (`Grown`).
`RunsInv` adds that the counters of a run are the
charges and blocks of its day (`RunSound`) and that no later snapshot changes what an extra charge was
computed from (`ExtraSound`).

`RunMatchesCharges` and `ExtraChargeExplained` are proved under `"db_error" \notin FaultKinds`, like the
run that checks them: after a database error the code marks the run of the date as failed,
also when it was completed before (section 3), and the next attempt may overwrite it with the counts of
fewer users. Crashes, failures of the panel and duplicate charges are all allowed.
What is left when database errors occur is proved without that assumption (`BoundedInv`): a run never
counts more charges or blocks than there are, whoever is blocked as of a midnight was charged for it, and a
day with charges has a run (`RunsNeverOverstate`); and no charge is ever made twice, changed or taken back
(`ChargesAreFinal`, which is where the unique key of `user_daily_charges` is needed), and each, when it is made, is
what the run and the snapshots committed with it say (`ChargesAreExplained`).

`ScheduleInv` ties billing to the table of the plans: the table is a schedule, and a run that names a
plan names the one that has started last by its date (`InForce`), with the daily charge of its price. The handlers
keep it because the starts they set, move or remove are all of days to come (`HandlersKeepStarted`), the first plan
excepted, before which no run names one. So a date is billed at the plan the table has for it, now and for ever (`RunsAtThePlan`),
and a late catch-up charges what a punctual one would have (`PastPlansAreSettled`; the handlers are atomic here, see the
hazard about midnight between the check and the commit). With `RunsInv` this reaches from the table to
the single charge (`EveryonePaysTheShare`): for n people charged and m days in the month each pays the monthly amount
over n * m to the nearest kopeck (`RoundHalfUpIsNearest`), so the charges of a day miss the price of the day by
half a kopeck for each of them at most.

`LedgerBalanced` compares a balance with a sum over all days, a recursive function.
The library's induction theorems cannot be instantiated, but a least counterexample can be had from
the well-ordering of the naturals (`LeastExists` of `TariffsProofs`): `ChargedBeforeSums` and the lemmas around it show in
this way that the recursive function is what it says, is a natural number, and grows by exactly the charge that is added.

### Tariff plans

`TariffsProofs` shows that the handlers keep the table a table, and that it is a *schedule*
(`IsSchedule`: no two plans start on the same day, and each ends on the day before
the next one starts, the last one never): `RebuildPeriods` makes one of any table with distinct starts
(`RebuiltIsSchedule`), and the guards of the three handlers keep the starts distinct (`HandlersKeepSchedule`).
So at most one plan covers a day (`OnePlanCovers`; `PlanForDate` finds it, `PlanInForce`), and every day from the first start on has one
(`EveryDayCovered`). `PagesProofs` draws two conclusions for the page of tariff plans: `EveryDayHasItsPlan`, and
`PreviewIsKept`: what `getPreviewEndDate` computes in the browser is the end the server gives.

### Payments

`Inv == TypeOK /\ SessionsSound /\ RowsSound /\ AccountsSound`. `OperationPaysOnce` holds because
a row that is credited holds its operation and no two hold the same (`RowsSound`); that the commit
keeps it is the constraint on `operation_id`, which `CommitCredit` meets. `CreditsAreRecorded` and the
refinement need that a session that has read the payment holds its lock, that the payment has stayed pending since, and that
until the commit the owner is locked as well and the row the session has read of it is still that of the
account (`SessionsSound`): without the
locks two sessions would commit the same credit, or one would write a balance computed from a row that is no more. `LedgerImplemented` maps the commit of a credit to `Credit` of `TopUpLedger`,
a change of the account by others to `Adjust`, and every other statement to a stutter.

### VPN synchronisation

`QuietAgrees` speaks of moments at which nothing is pending. `UserSound` says what
holds in between, for a user without an excuse: one actor at a time is half way with the user (`Alone`); the
worker's copy of a job is still the job and its call is what the account asks for (`WorkerSound`); the
call of a handler is what the row it will commit asks for (`HandlersSound`); what a call has achieved
so far is what its answers say, with lost answers either way (`Carried`); and but for a handler under way
the panel agrees with the account or the job of the account will see to it (`Follows`).

### The tab

`SignedInAsShown` speaks of moments at which nothing is in flight. `Inv` says what holds of
every request in flight: whom an answer names, and that the token it sets is that person's (`NetSound`);
that while the session is checked the cookie is the one the check was sent with (`CheckSound`); that, unless
requests have crossed, whatever the signed-in user has sent is his (`SessionsFollow`). `ChangesCounted`
bounds the versions of the rows by the clicks they took, which the types need.
`NoIdleSkeleton` is inductive with these.

### Pages

- *Dialogs.* That the cleanup of a dialog restores the right value needs that each open dialog has
  saved what was there when the one below it was the last (`Layered`: the first saved the page's
  own, every other "hidden"), as long as the closing is `orderly`. That until the focus is lost there is one
  dialog at most needs where the focus may be (`FocusTrapped`).
- *Top-up.* Until a request that was left is answered, a request that runs and was not left is the last one, and the
  form waits for it (`OnlyLastRuns`); so a summary is the answer to the last, and none is awaited (`SummaryIsLast`).
  The button that waits while the form is busy is what both need.
- *Select field.* The highlight of an open list is on an option that can be chosen and its place
  is the one computed for the window as it is (`Followed`); the first, the last, the next and the found option
  can be chosen, and the arithmetic of the placement is right (`PlaceInView`).
- *Copies.* What `CopiedLasts` says of the mark, the timer and the time since the last copy is inductive
  as it stands; its clauses for buttons that have left are what makes it so.
- *Users.* What a fetch has read is what the server has, unless somebody else has changed it or a save
  is still to refresh the list (`ListCurrent`).
- *Journal.* Its invariant is one of types; the work is in the operators. What comes
  before each row is a strict order (`DirectedOrder`: the comparators compare keys, for every column and
  direction, also for payments without a credit), so the ranks are different, and as there are as many ranks as rows
  every place of the table is taken once (`RanksCover`, the pigeonhole principle for finite sets).

- *Histories.* A dialog shows entries there are, finitely many (`HistoryInv`). That its months contain them all
  and add up is a matter of the operators. A sum over a finite set is shown to exist and to be unique by
  induction over finite sets in the form of a least counterexample (`SumExists`, `SumIsUnique`, `SumOfUnion`), and the folds over the
  lists to be such sums (`AmountOfRowsIs`, `TotalOfGroupsIs`); the order of the entries is strict (`EntriesOrder`),
  so ranks list each once (`OrderedLists`); and the rows of the groups one after the other are the groups'
  sets, which partition the entries (`FlattenIs`, `GroupTotalsAddUp`).

`Pages` implements the specification of each part (`PagesKeepDialogs`, `PagesKeepTopUps`,
`PagesKeepSelects`, `PagesKeepCopies`, `PagesKeepUsers`, `PagesKeepPlans`, `PagesKeepJournal`, `PagesKeepHistories`: a step of another part is a
stutter), which carries all of this over to the specification the run checks.

### Assumptions

All are named, and TLC evaluates them in the runs:

- `BillingAssumption` (the set of users is finite, days of a month and amounts are natural numbers), `NoPlanAssumption`,
  `PlansAssumption` (shares and days are natural numbers, there are two days), `UsersPageAssumption`, `TopUpsAssumption` (finitely many owners),
  `HistoryAssumption` (days and days of a month are natural numbers, amounts are integers),
  `CopyAssumption` (the mark lasts at least a tick, the buttons that clear their timers are buttons), `SelectAssumption` (lists are sequences, sizes are natural numbers, the
  control fits into some window): what the types of the program say.
- `PaymentsAssumption`, `VpnAssumption`, `BrowserAssumption` also say that the values that
  stand for nothing (`Nobody`, `NoOperation`, "nobody", `NoUser`, `NoToken`) are none of the sets they are
  added to, as `None` and `null` are not.

### What only TLC checks

- Liveness (`EveryDayBilled`, `AccessRestored`, `PausedCutOff`, `PaidIsCredited`, `EveryTransactionEnds`,
  `LogoutTakesEffect`, `PaymentSeen`, `SuccessReachesStore`, `DialogsComeBack`): fairness and `ENABLED` are out of the prover's reach.
- The violation runs: what they show is a behaviour, not a theorem.

Neither proved nor checked: `RunMatchesCharges` and `ExtraChargeExplained` in the presence of
database errors, where they do not hold as they stand (above).

## 5. Abstractions, and what is left out

- A handler that holds the user's row is atomic. `_process_billing_date` locks users only
  after it has read their histories; a status change that is dated before midnight and
  committed after it falls between the two and is not modelled (a hazard).
- `NextDay` waits while a catch-up is under way that has seen a midnight already: a
  catch-up takes less than a day. It may cross one midnight.
- In `Billing` `sync_paused_profiles` is one step; in `VpnSync` it is two.
- Existing users start with the baseline row of migration 0004 or `ensure_admin`, or
  without any history, which `_ensure_status_baselines` provides for (rows entered by hand,
  as the tests do). No plan exists at the start: an existing plan is a request on day 0.
- Decimals: 28 digits, two divisions, one rounding; the models round the exact quotient,
  which agrees for amounts within `Numeric(14, 2)`.
- Names, roles, passwords, Telegram ids, formatting, HTTP encoding, signatures: left out.
  Deleting oneself and the last-administrator check belong to the administrators (below).
- Webhook, poll and scheduler parse an operation before they settle it; a malformed
  one is not a `Transfer`. The seven-day window of the scheduler is not modelled.

- `Browser`: one request of a kind is in flight; sessions do not expire by time; the limit on
  login attempts is left out. A row is its owner, its version and its status.
- `SignedInAsShown` excuses `crossed`: without it the answer to a request of an older session
  signs the tab in again as somebody else, which `setUser` does not prevent.
- `TariffPlansPage`: one mutation at a time (the dialog is busy with it).
- `TopUpForm`: the animation frame between closing and resetting is left out. `TopUpsPage`:
  searching is one text that fits some payments; the requested amount is a column like the time of creation.
- `FieldSelect`: the place is vertical; the horizontal one only aligns. `Pages`: time, where
  it matters (`CopyFeedback`), is ticks.

Not modelled, and why:

- *administrators and bootstrap*: roles decide only who may call; the check of the last
  administrator counts without a lock on the others, and `ensure_admin` fails on a name
  that a deleted user still holds - the first is a hazard of `PROJECT.json`, both are next in the plan;
- *reports and read models, status history dialog, recommended clients, present tariff card,
  theme, layout, the popup of the menu and its notice, the tooltip of the profiles, the
  password generator, the search of the page of users*: no state, or state that no other step reads;
- *configuration, containers, deployment*: no behaviour beyond starting one process.

## 6. Plan

1. Proofs: every safety and action property is proved; new ones are added with their theorems. The
   terms of a run after a second attempt (which of its users it no longer counts) are still to be stated.
2. *TariffSchedule*: the handlers of the plans in two steps (date read under the lock,
   commit later), billing reading the table in between; property: no billed day
   changes its plan.
3. *Admins*: roles, the last-administrator check (two transactions counting at the same
   time), `ensure_admin` at restart, unique names.
4. A run of `VpnSync` with two users in one batch. Composition of `Billing` and the two-step
   edit of `VpnSync`, with changes dated before midnight and committed after.

------------------------------ MODULE VpnSync -------------------------------
(***************************************************************************)
(* Access on the VPN panel follows the account status: the worker of       *)
(* billing/service.py (process_vpn_sync_jobs), the jobs the handlers leave *)
(* for it, and the handlers that call the panel themselves (update_user,   *)
(* delete_user of admin/router.py), over one Moscow day.                   *)
(*                                                                         *)
(* Between its read of a job and its deletion of the row the worker waits  *)
(* for the panel, holding no lock; update_user waits for the panel holding *)
(* the user's row, delete_user holding nothing; sync_paused_profiles waits *)
(* between its read of the users and its writes.                           *)
(***************************************************************************)
EXTENDS Accounts, FiniteSets

CONSTANTS
  User,
  Profiles,      \* the profiles of a user, numbered in the order of their emails
  Charge,        \* what the daily billing takes from an active user
  Credit,        \* the amount of a payment
  StartBalances, \* the balances the day starts with
  MaxRequests,   \* bound: requests served in a behaviour
  MaxRemoved     \* bound: profiles removed on the panel by hand

ASSUME VpnAssumption ==
  /\ "nobody" \notin User
  /\ Profiles \in Nat \ {0} /\ Charge \in Nat /\ Credit \in Nat
  /\ StartBalances \subseteq Int /\ MaxRequests \in Nat /\ MaxRemoved \in Nat

VARIABLES
  acct,      \* users, user_status_history, vpn_sync_jobs
  panel,     \* the state of every profile on the panel
  worker,    \* process_vpn_sync_jobs: the jobs it has loaded, the one it is at
  edits,     \* update_user waiting for the panel: the row it will commit
  deletes,   \* delete_user waiting for the panel: the status it has read
  sync,      \* sync_paused_profiles: where it is, the users it has read
  billed,    \* the users the daily billing has looked at
  requests,  \* what the bound counts
  excused,   \* history variable: users with an overlap or a failed request
  overruled  \* history variable: users whose late block a newer status overruled

vars == <<acct, panel, worker, edits, deletes, sync, billed, requests, excused, overruled>>

Yesterday == During(0)
Cutoff == Midnight(1)
Now == During(1)

Profile == 1 .. Profiles
ProfileState == {"on", "off", "gone"}

\* set_matching_enabled: the profiles still to answer, and the failed ones.
Failure == {"unavailable", "not_found"}
Call == [enable : BOOLEAN, left : SUBSET Profile, failed : [Profile -> Failure \union {"ok"}]]
NoCall == [enable |-> FALSE, left |-> {}, failed |-> [p \in Profile |-> "ok"]]

\* find_client_emails lists the profiles that exist when the call starts.
CallPanel(u, enable) ==
  [NoCall EXCEPT !.enable = enable, !.left = {p \in Profile : panel[u][p] # "gone"}]

Failed(call) == {p \in Profile : call.failed[p] # "ok"}
\* errors[0]: the error of the first profile that failed
FirstError(call) ==
  call.failed[CHOOSE p \in Failed(call) : \A q \in Failed(call) : p <= q]

NoEdit == [on |-> FALSE, row |-> NoAccount, call |-> NoCall]
NoDelete == [on |-> FALSE, seen |-> "active", call |-> NoCall]
NoJobs == [u \in User |-> "none"]

TypeOK ==
  /\ acct \in [User -> Account]
  /\ panel \in [User -> [Profile -> ProfileState]]
  /\ worker \in [batch : [User -> VpnSyncJob], at : User \union {"nobody"}, call : Call]
  /\ edits \in [User -> [on : BOOLEAN, row : Account, call : Call]]
  /\ deletes \in [User -> [on : BOOLEAN, seen : AccountStatus, call : Call]]
  /\ sync \in [pc : {"due", "read", "done"}, users : SUBSET User] /\ billed \in SUBSET User
  /\ requests \in 0 .. MaxRequests /\ excused \in SUBSET User
  /\ overruled \in SUBSET User

-----------------------------------------------------------------------------
(* The day starts with the panel in agreement with the accounts. *)

ShouldEnable(a) == Live(a) /\ a.status = "active"

Agrees(a, states) ==
  \/ Live(a) /\ a.status = "paused"     \* the day of the pause stays paid
  \/ \A p \in Profile : states[p] # IF ShouldEnable(a) THEN "off" ELSE "on"

\* An account whose only change so far was made yesterday by `source'.
AccountOf(status, source, balance) ==
  [AddHistory(NoAccount, "active", status, source, Yesterday)
     EXCEPT !.status = status, !.balance = balance, !.created = Midnight(0)]

Init ==
  /\ \E s \in [User -> AccountStatus], b \in [User -> StartBalances] :
       acct = [u \in User |-> AccountOf(s[u], IF s[u] = "blocked" THEN "billing" ELSE "admin",
                                        IF s[u] = "blocked" THEN -1 ELSE b[u])]
  /\ panel \in [User -> {[p \in Profile |-> s] : s \in {"on", "off"}}]
  /\ \A u \in User : Agrees(acct[u], panel[u])
  /\ worker = [batch |-> NoJobs, at |-> "nobody", call |-> NoCall]
  /\ edits = [u \in User |-> NoEdit]
  /\ deletes = [u \in User |-> NoDelete]
  /\ sync = [pc |-> "due", users |-> {}] /\ billed = {} /\ requests = 0
  /\ excused = {} /\ overruled = {}

-----------------------------------------------------------------------------
(* Who holds what *)

Locked(u) == edits[u].on                   \* SELECT ... FOR UPDATE on the user
Loaded(u) == worker.batch[u] # "none" \/ worker.at = u
Waiting(u) == edits[u].on \/ deletes[u].on \/ u \in sync.users
InFlight(u) == Loaded(u) \/ Waiting(u)

Serve == requests < MaxRequests /\ requests' = requests + 1

\* A request on u meets another one, or the worker, half way.
Overlap(u) == excused' = IF InFlight(u) THEN excused \union {u} ELSE excused
Excuse(u) == excused' = excused \union {u}

-----------------------------------------------------------------------------
(* The worker *)

\* SELECT ... WHERE next_attempt_at <= now: failed jobs may not be due yet.
WorkerLoad ==
  /\ worker.batch = NoJobs /\ worker.at = "nobody"
  /\ \E due \in SUBSET {u \in User : acct[u].job # "none"} :
       /\ due # {}
       /\ worker' = [worker EXCEPT !.batch =
                       [u \in User |-> IF u \in due THEN acct[u].job ELSE "none"]]
       /\ excused' = excused \union {u \in due : Waiting(u)}
  /\ UNCHANGED <<acct, panel, edits, deletes, sync, billed, requests, overruled>>

\* The user is read afresh, the job is the copy of the batch.
Desired(u) == worker.batch[u] = "enable"

\* await db.delete(job): by primary key, whatever the row has become.
DropJob(u) == acct' = [acct EXCEPT ![u].job = "none"]
Forget(u) == [worker EXCEPT !.batch[u] = "none", !.at = "nobody", !.call = NoCall]

WorkerDropsJob(u) ==
  /\ worker.at = "nobody" /\ worker.batch[u] # "none"
  /\ Desired(u) # ShouldEnable(acct[u])
  /\ DropJob(u) /\ worker' = Forget(u)
  /\ UNCHANGED <<panel, edits, deletes, sync, billed, requests, excused, overruled>>

WorkerCalls(u) ==
  /\ worker.at = "nobody" /\ worker.batch[u] # "none"
  /\ Desired(u) = ShouldEnable(acct[u])
  /\ worker' = [worker EXCEPT !.at = u, !.call = CallPanel(u, Desired(u))]
  /\ UNCHANGED <<acct, panel, edits, deletes, sync, billed, requests, excused, overruled>>

WorkerSucceeds(u) ==
  /\ worker.at = u /\ worker.call.left = {} /\ Failed(worker.call) = {}
  /\ DropJob(u) /\ worker' = Forget(u)
  /\ UNCHANGED <<panel, edits, deletes, sync, billed, requests, excused, overruled>>

\* A mistake in the place of the next: no retry.
WorkerGivesUp(u) ==
  /\ worker.at = u /\ worker.call.left = {} /\ Failed(worker.call) # {}
  /\ DropJob(u) /\ worker' = Forget(u)
  /\ UNCHANGED <<panel, edits, deletes, sync, billed, requests, excused, overruled>>

\* attempts and next_attempt_at change, desired_enabled does not; a profile
\* that is not found ends the job of disabling.
WorkerFails(u) ==
  /\ worker.at = u /\ worker.call.left = {} /\ Failed(worker.call) # {}
  /\ IF FirstError(worker.call) = "not_found" /\ ~worker.call.enable
     THEN /\ DropJob(u)
          /\ IF \E p \in Profile : worker.call.failed[p] = "unavailable"
             THEN Excuse(u) ELSE UNCHANGED excused
     ELSE UNCHANGED <<acct, excused>>
  /\ worker' = Forget(u)
  /\ UNCHANGED <<panel, edits, deletes, sync, billed, requests, overruled>>

-----------------------------------------------------------------------------
(* The panel answers a call profile by profile, in any order: set_enabled may *)
(* fail, and may fail although the panel has applied the change.             *)

Outcomes(u, p) == IF panel[u][p] = "gone" THEN {"not_found", "unavailable"}
                  ELSE {"ok", "unavailable", "lost_answer"}

\* A mistake in the place of the next: a lost answer is an error of its own.
AnsweredAs(call, p, outcome) == [call EXCEPT !.left = @ \ {p}, !.failed[p] = outcome]

Answered(call, p, outcome) ==
  [call EXCEPT !.left = @ \ {p},
               !.failed[p] = IF outcome = "lost_answer" THEN "unavailable" ELSE outcome]

Applied(u, p, enable, outcome) ==
  panel' = IF outcome \in {"ok", "lost_answer"}
           THEN [panel EXCEPT ![u][p] = IF enable THEN "on" ELSE "off"]
           ELSE panel

AnswerWorker(u, p, outcome) ==
  /\ worker.at = u /\ p \in worker.call.left /\ outcome \in Outcomes(u, p)
  /\ Applied(u, p, worker.call.enable, outcome)
  /\ worker' = [worker EXCEPT !.call = Answered(@, p, outcome)]
  /\ UNCHANGED <<acct, edits, deletes, sync, billed, requests, excused, overruled>>

AnswerEdit(u, p, outcome) ==
  /\ edits[u].on /\ p \in edits[u].call.left /\ outcome \in Outcomes(u, p)
  /\ Applied(u, p, edits[u].call.enable, outcome)
  /\ edits' = [edits EXCEPT ![u].call = Answered(@, p, outcome)]
  /\ UNCHANGED <<acct, worker, deletes, sync, billed, requests, excused, overruled>>

AnswerDelete(u, p, outcome) ==
  /\ deletes[u].on /\ p \in deletes[u].call.left /\ outcome \in Outcomes(u, p)
  /\ Applied(u, p, FALSE, outcome)
  /\ deletes' = [deletes EXCEPT ![u].call = Answered(@, p, outcome)]
  /\ UNCHANGED <<acct, worker, edits, sync, billed, requests, excused, overruled>>

\* An operator of the panel removes a profile.
RemoveProfile(u, p) ==
  /\ panel[u][p] # "gone"
  /\ Cardinality({q \in User \X Profile : panel[q[1]][q[2]] = "gone"}) < MaxRemoved
  /\ panel' = [panel EXCEPT ![u][p] = "gone"]
  /\ UNCHANGED <<acct, worker, edits, deletes, sync, billed, requests, excused, overruled>>

-----------------------------------------------------------------------------
(* The handlers *)

\* Handlers that commit at once; a locked row makes them wait.
Commit(u, row) ==
  /\ ~Locked(u)
  /\ acct' = [acct EXCEPT ![u] = row]
  /\ Overlap(u)
  /\ UNCHANGED <<panel, worker, edits, deletes, sync>>

TopUp(u) ==
  /\ Live(acct[u]) /\ Serve
  /\ Commit(u, CreditAccount(acct[u], Credit, Now))
  /\ UNCHANGED <<billed, overruled>>

Activate(u) ==
  /\ MayActivate(acct[u]) /\ Serve
  /\ Commit(u, ActivateAccount(acct[u], Now))
  /\ UNCHANGED <<billed, overruled>>

\* The daily billing meets every user once, some time in the day.
Bill(u) ==
  /\ u \notin billed /\ billed' = billed \union {u}
  /\ LET row == IF ActiveAt(acct[u], Cutoff) THEN ChargeAccount(acct[u], Charge, Cutoff)
                ELSE acct[u]
     IN  /\ Commit(u, row)
         /\ overruled' = IF row.history # acct[u].history /\ row.status # "blocked"
                         THEN overruled \union {u} ELSE overruled
  /\ UNCHANGED requests

\* A change of status by hand that no change of the terms overrides goes to the
\* panel before it is committed, except a pause.
NeedsPanel(a, s, row) == s # a.status /\ row.status = s /\ s # "paused"

StartEdit(u) ==
  /\ Live(acct[u]) /\ ~Locked(u) /\ Serve
  /\ \E s \in AccountStatus, b \in StartBalances \union {acct[u].balance} :
       LET row == EditAccount(acct[u], s, b, acct[u].limit, Now)
       IN  IF NeedsPanel(acct[u], s, row)
           THEN /\ edits' = [edits EXCEPT ![u] = [on |-> TRUE, row |-> row,
                                                 call |-> CallPanel(u, s = "active")]]
                /\ Overlap(u)
                /\ UNCHANGED <<acct, panel, worker, deletes, sync>>
           ELSE Commit(u, row)
  /\ UNCHANGED <<billed, overruled>>

\* Only the user and its history are written; the job is whatever it is now.
CommitEdit(u) ==
  /\ edits[u].on /\ edits[u].call.left = {} /\ Failed(edits[u].call) = {}
  /\ acct' = [acct EXCEPT ![u] = [edits[u].row EXCEPT !.job = acct[u].job]]
  /\ edits' = [edits EXCEPT ![u] = NoEdit]
  /\ UNCHANGED <<panel, worker, deletes, sync, billed, requests, excused, overruled>>

\* The panel failed, or the new name is taken and the commit fails.
AbandonEdit(u) ==
  /\ edits[u].on /\ edits[u].call.left = {}
  /\ edits' = [edits EXCEPT ![u] = NoEdit]
  /\ Excuse(u)
  /\ UNCHANGED <<acct, panel, worker, deletes, sync, billed, requests, overruled>>

StartDelete(u) ==
  /\ Live(acct[u]) /\ ~deletes[u].on /\ Serve
  /\ deletes' = [deletes EXCEPT ![u] = [on |-> TRUE, seen |-> acct[u].status,
                                       call |-> CallPanel(u, FALSE)]]
  /\ Overlap(u)
  /\ UNCHANGED <<acct, panel, worker, edits, sync, billed, overruled>>

\* The UPDATE waits for the row, without reading it again.
CommitDelete(u) ==
  /\ deletes[u].on /\ deletes[u].call.left = {} /\ Failed(deletes[u].call) = {}
  /\ ~Locked(u)
  /\ acct' = [acct EXCEPT ![u] = DeleteAccount(acct[u], deletes[u].seen, Now)]
  /\ deletes' = [deletes EXCEPT ![u] = NoDelete]
  /\ UNCHANGED <<panel, worker, edits, sync, billed, requests, excused, overruled>>

FailDelete(u) ==
  /\ deletes[u].on /\ deletes[u].call.left = {} /\ Failed(deletes[u].call) # {}
  /\ deletes' = [deletes EXCEPT ![u] = NoDelete]
  /\ Excuse(u)
  /\ UNCHANGED <<acct, panel, worker, edits, sync, billed, requests, overruled>>

\* sync_paused_profiles, after the daily billing: the users paused before today.
PausedBeforeToday(a) ==
  /\ Live(a) /\ a.status = "paused"
  /\ \E c \in Latest(a.history) : c.new = "paused" /\ c.eff < Cutoff

SyncReads ==
  /\ sync.pc = "due" /\ billed = User
  /\ LET paused == {u \in User : PausedBeforeToday(acct[u])}
     IN  /\ sync' = [pc |-> "read", users |-> paused]
         /\ excused' = excused \union {u \in paused : InFlight(u)}
  /\ UNCHANGED <<acct, panel, worker, edits, deletes, billed, requests, overruled>>

\* A mistake in the place of the next: nothing is queued when the panel fails.
SyncWritesIfKnown ==
  /\ sync.pc = "read"
  /\ \E panelFails \in BOOLEAN :
       acct' = [u \in User |->
         IF u \in sync.users /\ ~panelFails /\ \E p \in Profile : panel[u][p] = "on"
         THEN QueueVpnSync(acct[u], FALSE) ELSE acct[u]]
  /\ sync' = [pc |-> "done", users |-> {}]
  /\ UNCHANGED <<panel, worker, edits, deletes, billed, requests, excused, overruled>>

\* The panel tells which profiles are enabled; when it fails, all are queued.
SyncWrites ==
  /\ sync.pc = "read"
  /\ \E panelFails \in BOOLEAN :
       acct' = [u \in User |->
         IF u \in sync.users /\ (panelFails \/ \E p \in Profile : panel[u][p] = "on")
         THEN QueueVpnSync(acct[u], FALSE) ELSE acct[u]]
  /\ sync' = [pc |-> "done", users |-> {}]
  /\ UNCHANGED <<panel, worker, edits, deletes, billed, requests, excused, overruled>>

-----------------------------------------------------------------------------

Worker(u) == WorkerDropsJob(u) \/ WorkerCalls(u) \/ WorkerSucceeds(u) \/ WorkerFails(u)

Panel(u) == \E p \in Profile :
  \/ RemoveProfile(u, p)
  \/ \E outcome \in {"ok", "not_found", "unavailable", "lost_answer"} :
       AnswerWorker(u, p, outcome) \/ AnswerEdit(u, p, outcome) \/ AnswerDelete(u, p, outcome)

Request(u) == \/ TopUp(u) \/ Activate(u) \/ Bill(u)
              \/ StartEdit(u) \/ CommitEdit(u) \/ AbandonEdit(u)
              \/ StartDelete(u) \/ CommitDelete(u) \/ FailDelete(u)

Next == \/ WorkerLoad \/ SyncReads \/ SyncWrites
        \/ \E u \in User : Worker(u) \/ Panel(u) \/ Request(u)

Spec == Init /\ [][Next]_vars

WorkerLoads(u) == WorkerLoad /\ worker'.batch[u] # "none"

\* The worker polls every minute and every handler gets its answers; the panel
\* grants a call on each profile again and again.
Fairness ==
  /\ WF_vars(SyncReads) /\ WF_vars(SyncWrites)
  /\ \A u \in User :
       /\ WF_vars(Bill(u)) /\ SF_vars(WorkerLoads(u)) /\ WF_vars(Worker(u))
       /\ WF_vars(CommitEdit(u) \/ AbandonEdit(u)) /\ WF_vars(CommitDelete(u) \/ FailDelete(u))
       /\ \A p \in Profile :
            /\ SF_vars(AnswerWorker(u, p, "ok"))
            /\ WF_vars(\E o \in Outcomes(u, p) : AnswerWorker(u, p, o))
            /\ WF_vars(\E o \in Outcomes(u, p) : AnswerEdit(u, p, o))
            /\ WF_vars(\E o \in Outcomes(u, p) : AnswerDelete(u, p, o))

FairSpec == Spec /\ Fairness

-----------------------------------------------------------------------------
(* Properties *)

Quiet(u) == ~InFlight(u) /\ acct[u].job = "none"

\* When nothing is pending for a user the panel agrees with the account: stale
\* jobs, failures, retries and lost answers of the worker never leave the panel
\* wrong by themselves.  The three ways in which the code does are excused: two
\* of the actors above met half way on that user, a request failed after its
\* call, or a late billing queued a block that a newer status had overruled.
QuietAgrees ==
  \A u \in User : Quiet(u) /\ u \notin excused \union overruled => Agrees(acct[u], panel[u])

\* An account that became active and has its job queued gets its access back,
\* or stops being active, but for the same excuses.
Granted(u) == \A p \in Profile : panel[u][p] # "off"
Promised(u) == ShouldEnable(acct[u]) /\ acct[u].job = "enable"
AccessRestored ==
  \A u \in User :
    Promised(u) ~> (Granted(u) \/ ~ShouldEnable(acct[u]) \/ u \in excused \union overruled)

\* "после зачисления доступ восстановится автоматически" (notifications/service.py):
\* the promise made for a payment, although the worker may be busy with an older
\* job of the user.
PaidFor(u) == Promised(u) /\ \E c \in Latest(acct[u].history) : c.source = "top_up"
AccessDespiteOverlap ==
  \A u \in User : PaidFor(u) ~> (Granted(u) \/ ~ShouldEnable(acct[u]) \/ u \in overruled)

\* Users paused before today lose their access today.
Withdrawn(u) == \A p \in Profile : panel[u][p] # "on"
PausedCutOff ==
  \A u \in User : PausedBeforeToday(acct[u])
    ~> (Withdrawn(u) \/ ~PausedBeforeToday(acct[u]) \/ u \in excused)
=============================================================================

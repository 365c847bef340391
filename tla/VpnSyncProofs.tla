--------------------------- MODULE VpnSyncProofs ----------------------------
(***************************************************************************)
(* Theorems of VpnSync, for any users, profiles, charges and payments: the *)
(* states are well typed, the accounts stay consistent, and when nothing   *)
(* is pending for a user the panel agrees with the account.                *)
(***************************************************************************)
EXTENDS VpnSync, AccountsProofs, SequenceTheorems

-----------------------------------------------------------------------------
(* The inductive invariant *)

\* The panel agrees with the account, or the job of the account will see to it.
Follows(a, states) ==
  Agrees(a, states) \/ (a.job # "none" /\ (a.job = "enable") = ShouldEnable(a))

\* What a call has done so far: a profile that has answered is not against it,
\* one that was not found is gone.
Carried(call, states) ==
  \A p \in Profile :
    /\ p \notin call.left /\ call.failed[p] = "ok" =>
         states[p] # IF call.enable THEN "off" ELSE "on"
    /\ call.failed[p] = "not_found" => states[p] = "gone"

\* One actor at a time is half way with the user.
Alone(u) ==
  /\ Loaded(u) => ~Waiting(u)
  /\ edits[u].on => ~deletes[u].on /\ u \notin sync.users
  /\ deletes[u].on => u \notin sync.users

\* The worker's copy of the job is the job, and its call is what the account asks for.
WorkerSound(u) ==
  /\ worker.batch[u] # "none" => acct[u].job = worker.batch[u]
  /\ worker.at = u => /\ worker.batch[u] # "none" /\ worker.call.enable = Desired(u)
                      /\ Desired(u) = ShouldEnable(acct[u]) /\ Carried(worker.call, panel[u])

\* The call of a handler is what the row it will commit asks for.
HandlersSound(u) ==
  /\ edits[u].on => /\ Live(edits[u].row) /\ edits[u].row.status # "paused"
                    /\ edits[u].call.enable = (edits[u].row.status = "active")
                    /\ Carried(edits[u].call, panel[u])
  /\ deletes[u].on => ~deletes[u].call.enable /\ Carried(deletes[u].call, panel[u])
  /\ u \in sync.users => Live(acct[u]) /\ acct[u].status = "paused"

UserSound(u) ==
  u \notin excused \union overruled =>
    /\ Alone(u) /\ WorkerSound(u) /\ HandlersSound(u)
    /\ edits[u].on \/ deletes[u].on \/ Follows(acct[u], panel[u])
UsersSound == \A u \in User : UserSound(u)

AccountsSound ==
  \A u \in User : /\ Consistent(acct[u], Now)
                  /\ edits[u].on => Consistent(edits[u].row, Now)

Inv == TypeOK /\ AccountsSound /\ UsersSound

-----------------------------------------------------------------------------
(* Rows and the panel *)

LEMMA Instants == /\ Now = 3 /\ Cutoff = 2 /\ Yesterday = 1 /\ Midnight(0) = 0
                  /\ Now \in Nat /\ Now \in Int /\ Cutoff \in Int /\ Cutoff <= Now
  BY DEF Now, Cutoff, Yesterday, During, Midnight

\* Only these fields tell whether the panel agrees.
LEMMA FollowsSame ==
  ASSUME NEW a, NEW b, NEW states, Follows(a, states), b.status = a.status,
         b.created = a.created, b.deleted = a.deleted, b.job = a.job
  PROVE  Follows(b, states)
  BY DEF Follows, Agrees, ShouldEnable, Live, Exists

\* The day of the pause stays paid, whatever the panel says.
LEMMA FollowsPaused ==
  ASSUME NEW a, NEW states, Live(a), a.status = "paused"
  PROVE  Follows(a, states)
  BY DEF Follows, Agrees

LEMMA QueueKeeps ==
  ASSUME NEW a \in Account, NEW enabled \in BOOLEAN
  PROVE  LET b == QueueVpnSync(a, enabled)
         IN  /\ b.status = a.status /\ b.created = a.created /\ b.deleted = a.deleted
             /\ b.history = a.history /\ b.balance = a.balance /\ b.limit = a.limit
             /\ b.job = IF enabled THEN "enable" ELSE "disable"
  BY DEF QueueVpnSync, Account

\* A job for what the status asks for, or a pause.
LEMMA FollowsQueued ==
  ASSUME NEW a \in Account, NEW enabled \in BOOLEAN, NEW states,
         enabled = ShouldEnable(a) \/ (Live(a) /\ a.status = "paused")
  PROVE  Follows(QueueVpnSync(a, enabled), states)
<1> DEFINE b == QueueVpnSync(a, enabled)
<1>1. /\ b.status = a.status /\ b.created = a.created /\ b.deleted = a.deleted
      /\ b.job = IF enabled THEN "enable" ELSE "disable"
  BY QueueKeeps
<1> HIDE DEF b
<1>2. Follows(b, states)
  BY <1>1 DEF Follows, Agrees, ShouldEnable, Live, Exists
<1> QED
  BY <1>2 DEF b

\* A recorded change of status leaves everything else of the account.
LEMMA RecordKeeps ==
  ASSUME NEW a \in Account, NEW new \in AccountStatus, NEW source \in StatusChangeSource
  PROVE  LET b == RecordStatusChange(a, new, source, Now)
         IN  /\ b \in Account /\ b.status = new
             /\ b.created = a.created /\ b.deleted = a.deleted /\ b.job = a.job
<1> DEFINE r == AddHistory(a, a.status, new, source, Now)
<1>1. a.status \in AccountStatus
  BY DEF Account
<1>2. CASE a.status = new
  BY <1>2 DEF RecordStatusChange, RecordSeenStatusChange
<1>3. CASE a.status # new
  <2>1. /\ r \in Account /\ r.created = a.created /\ r.deleted = a.deleted /\ r.job = a.job
    <3>1. r \in Account
      BY <1>1, Instants, AddHistoryType
    <3> QED
      BY <3>1 DEF AddHistory, Account
  <2> HIDE DEF r
  <2>2. LET b == [r EXCEPT !.status = new]
        IN  /\ b \in Account /\ b.status = new
            /\ b.created = r.created /\ b.deleted = r.deleted /\ b.job = r.job
    BY <2>1 DEF Account
  <2> QED
    BY <1>3, <2>1, <2>2 DEF RecordStatusChange, RecordSeenStatusChange, r
<1> QED
  BY <1>2, <1>3

\* Blocking for lack of money queues the job that the block asks for.
LEMMA BlockIfFollows ==
  ASSUME NEW a \in Account, NEW states
  PROVE  LET b == BlockIfBalanceBelowLimit(a, Now)
         IN  /\ b.created = a.created /\ b.deleted = a.deleted
             /\ b # a => Follows(b, states)
<1> DEFINE r == RecordStatusChange(a, "blocked", "billing", Now)
<1>1. CASE a.status \in {"active", "paused"} /\ OutOfMoney(a)
  <2>1. "blocked" \in AccountStatus /\ "billing" \in StatusChangeSource /\ FALSE \in BOOLEAN
    BY DEF AccountStatus, StatusChangeSource
  <2>2. r \in Account /\ r.status = "blocked" /\ r.created = a.created /\ r.deleted = a.deleted
    BY <2>1, RecordKeeps
  <2> HIDE DEF r
  <2>3. FALSE = ShouldEnable(r)
    BY <2>2 DEF ShouldEnable
  <2>4. /\ Follows(QueueVpnSync(r, FALSE), states)
        /\ QueueVpnSync(r, FALSE).created = a.created
        /\ QueueVpnSync(r, FALSE).deleted = a.deleted
        /\ QueueVpnSync(r, FALSE).status = "blocked"
    BY <2>1, <2>2, <2>3, FollowsQueued, QueueKeeps
  <2> QED
    BY <1>1, <2>4 DEF BlockIfBalanceBelowLimit, r
<1>2. CASE ~(a.status \in {"active", "paused"} /\ OutOfMoney(a))
  BY <1>2 DEF BlockIfBalanceBelowLimit
<1> QED
  BY <1>1, <1>2

\* So does restoring; whoever was paused before the block stays paused.
LEMMA RestoreFollows ==
  ASSUME NEW a \in Account, NEW source \in StatusChangeSource, NEW states, Live(a)
  PROVE  LET b == RestoreIfBillingBlocked(a, source, Now)
         IN  /\ b.created = a.created /\ b.deleted = a.deleted
             /\ Follows(a, states) => Follows(b, states)
<1> DEFINE cond == /\ a.status = "blocked" /\ ~OutOfMoney(a)
                   /\ BillingBlocks(a.history) # {}
           row == CHOOSE c \in BillingBlocks(a.history) : TRUE
           r == RecordStatusChange(a, row.prev, source, Now)
           enabled == row.prev = "active"
<1>1. CASE cond
  <2>1. row \in BillingBlocks(a.history)
    BY <1>1
  <2>2. row.prev \in {"active", "paused"}
    BY <2>1 DEF BillingBlocks
  <2> HIDE DEF row
  <2>3. row.prev \in AccountStatus /\ row.prev # a.status
    BY <1>1, <2>2 DEF AccountStatus
  <2>4. r \in Account /\ r.status = row.prev /\ r.created = a.created /\ r.deleted = a.deleted
    BY <2>3, RecordKeeps
  <2> HIDE DEF r
  <2>5. Live(r) /\ enabled \in BOOLEAN
    BY <2>4 DEF Live, Exists
  <2>6. enabled = ShouldEnable(r) \/ (Live(r) /\ r.status = "paused")
    BY <2>2, <2>4, <2>5 DEF ShouldEnable
  <2>7. RestoreIfBillingBlocked(a, source, Now) = QueueVpnSync(r, enabled)
    BY <1>1 DEF RestoreIfBillingBlocked, r, row
  <2> HIDE DEF enabled
  <2>8. /\ Follows(QueueVpnSync(r, enabled), states)
        /\ QueueVpnSync(r, enabled).created = a.created
        /\ QueueVpnSync(r, enabled).deleted = a.deleted
        /\ QueueVpnSync(r, enabled).status = row.prev
    BY <2>4, <2>5, <2>6, FollowsQueued, QueueKeeps
  <2> QED
    BY <2>3, <2>7, <2>8
<1>2. CASE ~cond
  BY <1>2 DEF RestoreIfBillingBlocked
<1> QED
  BY <1>1, <1>2

-----------------------------------------------------------------------------
(* The handlers leave a job for every change the panel has not made *)

LEMMA CreditFollows ==
  ASSUME NEW a \in Account, Live(a), NEW states, Follows(a, states)
  PROVE  Follows(CreditAccount(a, Credit, Now), states)
<1> DEFINE b == [a EXCEPT !.balance = @ + Credit]
<1>1. /\ b \in Account /\ b.status = a.status /\ b.created = a.created
      /\ b.deleted = a.deleted /\ b.job = a.job
  BY VpnAssumption DEF Account
<1>2. "top_up" \in StatusChangeSource
  BY DEF StatusChangeSource
<1> HIDE DEF b
<1>3. Live(b) /\ Follows(b, states)
  BY <1>1, FollowsSame DEF Live, Exists
<1> QED
  BY <1>1, <1>2, <1>3, RestoreFollows DEF CreditAccount, b

LEMMA ActivateFollows ==
  ASSUME NEW a \in Account, MayActivate(a), NEW states
  PROVE  Follows(ActivateAccount(a, Now), states)
<1> DEFINE r == RecordStatusChange(a, "active", "user", Now)
<1>1. "active" \in AccountStatus /\ "user" \in StatusChangeSource /\ TRUE \in BOOLEAN
  BY DEF AccountStatus, StatusChangeSource
<1>2. r \in Account /\ r.status = "active" /\ r.created = a.created /\ r.deleted = a.deleted
  BY <1>1, RecordKeeps
<1> HIDE DEF r
<1>3. TRUE = ShouldEnable(r)
  BY <1>2 DEF ShouldEnable, MayActivate, Live, Exists
<1> QED
  BY <1>1, <1>2, <1>3, FollowsQueued DEF ActivateAccount, r

\* A block that a newer status overrules is the exception: the job disables an
\* account that is active.
LEMMA ChargeFollows ==
  ASSUME NEW a \in Account, NEW states, Follows(a, states)
  PROVE  LET b == ChargeAccount(a, Charge, Cutoff)
         IN  (b.history # a.history => b.status = "blocked") => Follows(b, states)
<1> DEFINE charged == [a EXCEPT !.balance = @ - Charge]
           noted == AddHistory(charged, "active", "blocked", "billing", Cutoff)
           settled == IF HasLaterStatus(a, Cutoff) THEN noted
                      ELSE [noted EXCEPT !.status = "blocked"]
<1>1. /\ charged \in Account /\ charged.status = a.status /\ charged.created = a.created
      /\ charged.deleted = a.deleted /\ charged.job = a.job /\ charged.history = a.history
  BY VpnAssumption DEF Account
<1> HIDE DEF charged
<1>2. CASE ~OutOfMoney(charged)
  BY <1>1, <1>2, FollowsSame DEF ChargeAccount, charged
<1>3. CASE OutOfMoney(charged)
  <2>1. /\ "active" \in AccountStatus \union {"null"} /\ "blocked" \in AccountStatus
        /\ "billing" \in StatusChangeSource /\ FALSE \in BOOLEAN
    BY DEF AccountStatus, StatusChangeSource
  <2>2. noted \in Account /\ noted.history # a.history
    <3> DEFINE c == [prev |-> "active", new |-> "blocked", source |-> "billing", eff |-> Cutoff]
    <3>1. noted \in Account
      BY <1>1, <2>1, Instants, AddHistoryType
    <3>2. noted.history = Append(a.history, c)
      BY <1>1 DEF AddHistory, Account
    <3>3. a.history \in Seq(StatusChange) /\ c \in StatusChange
      BY <2>1, Instants DEF Account, StatusChange
    <3>4. Len(Append(a.history, c)) = Len(a.history) + 1 /\ Len(a.history) \in Nat
      BY <3>3, AppendProperties, LenProperties
    <3> QED
      BY <3>1, <3>2, <3>4
  <2> HIDE DEF noted
  <2>3. settled \in Account /\ settled.history = noted.history
    BY <2>1, <2>2 DEF Account
  <2> HIDE DEF settled
  <2>4. ChargeAccount(a, Charge, Cutoff) = QueueVpnSync(settled, FALSE)
    BY <1>3 DEF ChargeAccount, charged, settled, noted
  <2>5. /\ QueueVpnSync(settled, FALSE).history = settled.history
        /\ QueueVpnSync(settled, FALSE).status = settled.status
    BY <2>1, <2>3, QueueKeeps
  <2>6. ASSUME settled.status = "blocked"
        PROVE  Follows(QueueVpnSync(settled, FALSE), states)
    <3>1. FALSE = ShouldEnable(settled)
      BY <2>6 DEF ShouldEnable
    <3> QED
      BY <2>1, <2>3, <3>1, FollowsQueued
  <2> QED
    BY <2>2, <2>3, <2>4, <2>5, <2>6
<1> QED
  BY <1>2, <1>3

\* What update_user commits without asking the panel, and what it asks it for.
LEMMA EditFollows ==
  ASSUME NEW a \in Account, Live(a), NEW states,
         NEW status \in AccountStatus, NEW balance \in Int
  PROVE  LET row == EditAccount(a, status, balance, a.limit, Now)
         IN  /\ Live(row)
             /\ Follows(a, states) => NeedsPanel(a, status, row) \/ Follows(row, states)
<1> DEFINE noted == RecordStatusChange(a, status, "admin", Now)
           edited == [noted EXCEPT !.balance = balance, !.limit = a.limit]
           terms == balance # a.balance \/ a.limit # a.limit
           row == EditAccount(a, status, balance, a.limit, Now)
<1>1. "admin" \in StatusChangeSource /\ a.limit \in Nat
  BY DEF StatusChangeSource, Account
<1>2. /\ noted \in Account /\ noted.status = status /\ noted.job = a.job
      /\ noted.created = a.created /\ noted.deleted = a.deleted
  BY <1>1, RecordKeeps
<1> HIDE DEF noted
<1>3. /\ edited \in Account /\ edited.status = status /\ edited.job = a.job
      /\ edited.created = a.created /\ edited.deleted = a.deleted
  BY <1>1, <1>2 DEF Account
<1> HIDE DEF edited
<1>4. row = IF ~terms THEN edited
            ELSE IF a.status # "blocked" THEN BlockIfBalanceBelowLimit(edited, Now)
            ELSE IF status # a.status THEN edited
            ELSE RestoreIfBillingBlocked(edited, "admin", Now)
  BY DEF EditAccount, edited, noted
<1>5. Live(edited)
  BY <1>3 DEF Live, Exists
<1>6. Follows(a, states) /\ (status = a.status \/ status = "paused") => Follows(edited, states)
  BY <1>3, <1>5, FollowsSame, FollowsPaused
<1>7. CASE row = edited
  <2>1. Follows(a, states) => NeedsPanel(a, status, edited) \/ Follows(edited, states)
    BY <1>3, <1>6 DEF NeedsPanel
  <2> QED
    BY <1>5, <1>7, <2>1
<1>8. CASE row = BlockIfBalanceBelowLimit(edited, Now) /\ row # edited
  BY <1>3, <1>5, <1>8, BlockIfFollows DEF Live, Exists
<1>9. CASE row = RestoreIfBillingBlocked(edited, "admin", Now) /\ status = a.status
  BY <1>1, <1>3, <1>5, <1>6, <1>9, RestoreFollows DEF Live, Exists
<1> HIDE DEF row, terms
<1> QED
  BY <1>4, <1>7, <1>8, <1>9 DEF row

-----------------------------------------------------------------------------
(* The calls to the panel *)

LEMMA NoCallType == NoCall \in Call /\ NoJobs \in [User -> VpnSyncJob]
  BY DEF NoCall, Call, NoJobs, VpnSyncJob

\* A call begins with nothing against it: what is gone needs no answer.
LEMMA CallPanelCarried ==
  ASSUME NEW u \in User, NEW enable \in BOOLEAN, TypeOK
  PROVE  /\ CallPanel(u, enable) \in Call /\ CallPanel(u, enable).enable = enable
         /\ Carried(CallPanel(u, enable), panel[u])
<1> DEFINE left == {p \in Profile : panel[u][p] # "gone"}
           c == [NoCall EXCEPT !.enable = enable, !.left = left]
<1>1. left \in SUBSET Profile
  OBVIOUS
<1> HIDE DEF left
<1>2. /\ c \in Call /\ c.enable = enable /\ c.left = left /\ c.failed = NoCall.failed
  BY <1>1, NoCallType DEF Call
<1>3. \A p \in Profile : c.failed[p] = "ok"
  BY <1>2 DEF NoCall
<1> HIDE DEF c
<1>4. \A p \in Profile : p \notin c.left => panel[u][p] = "gone"
  BY <1>2 DEF left
<1>5. Carried(c, panel[u])
  BY <1>3, <1>4 DEF Carried
<1> QED
  BY <1>2, <1>5 DEF CallPanel, c, left

LEMMA AnsweredCarried ==
  ASSUME TypeOK, NEW u \in User, NEW call \in Call, NEW p \in call.left,
         NEW outcome \in Outcomes(u, p),
         NEW enable \in BOOLEAN, Applied(u, p, enable, outcome)
  PROVE  /\ Answered(call, p, outcome) \in Call
         /\ Answered(call, p, outcome).enable = call.enable
         /\ panel' \in [User -> [Profile -> ProfileState]]
         /\ \A v \in User \ {u} : panel'[v] = panel[v]
         /\ Carried(call, panel[u]) /\ call.enable = enable =>
              Carried(Answered(call, p, outcome), panel'[u])
<1> DEFINE error == IF outcome = "lost_answer" THEN "unavailable" ELSE outcome
           c == [call EXCEPT !.left = @ \ {p}, !.failed[p] = error]
           new == IF enable THEN "on" ELSE "off"
<1>1. /\ call.enable \in BOOLEAN /\ call.left \in SUBSET Profile
      /\ call.failed \in [Profile -> Failure \union {"ok"}] /\ p \in Profile
  BY DEF Call
<1>2. /\ outcome \in {"ok", "not_found", "unavailable", "lost_answer"}
      /\ outcome \in {"ok", "lost_answer"} => panel[u][p] # "gone"
      /\ outcome = "not_found" => panel[u][p] = "gone"
  BY DEF Outcomes
<1>3. error \in Failure \union {"ok"} /\ (error = "ok" <=> outcome = "ok")
      /\ (error = "not_found" <=> outcome = "not_found")
  BY <1>2 DEF Failure
<1> HIDE DEF error
<1>4. /\ c \in Call /\ c.enable = call.enable /\ c.left = call.left \ {p}
      /\ c.failed = [call.failed EXCEPT ![p] = error]
  BY <1>1, <1>3 DEF Call
<1> HIDE DEF c
<1>5. panel' = IF outcome \in {"ok", "lost_answer"} THEN [panel EXCEPT ![u][p] = new] ELSE panel
  BY DEF Applied
<1>6. new \in ProfileState /\ panel \in [User -> [Profile -> ProfileState]]
  BY DEF ProfileState, TypeOK
<1>7. /\ panel' \in [User -> [Profile -> ProfileState]]
      /\ \A v \in User \ {u} : panel'[v] = panel[v]
      /\ \A q \in Profile \ {p} : panel'[u][q] = panel[u][q]
      /\ panel'[u][p] = IF outcome \in {"ok", "lost_answer"} THEN new ELSE panel[u][p]
  <2> HIDE DEF new
  <2> QED
    BY <1>1, <1>5, <1>6
<1>8. ASSUME Carried(call, panel[u]), call.enable = enable
      PROVE  Carried(c, panel'[u])
  <2>1. ASSUME NEW q \in Profile
        PROVE  /\ q \notin c.left /\ c.failed[q] = "ok" =>
                    panel'[u][q] # IF c.enable THEN "off" ELSE "on"
               /\ c.failed[q] = "not_found" => panel'[u][q] = "gone"
    <3>1. CASE q = p
      BY <1>1, <1>2, <1>3, <1>4, <1>7, <1>8, <3>1
    <3>2. CASE q # p
      BY <1>1, <1>4, <1>7, <1>8, <3>2 DEF Carried
    <3> QED
      BY <3>1, <3>2
  <2> QED
    BY <2>1 DEF Carried
<1>9. Answered(call, p, outcome) = c
  BY DEF Answered, c, error
<1> QED
  BY <1>4, <1>7, <1>8, <1>9

\* A call that succeeded, or found the rest gone, has made the panel agree.
LEMMA CarriedAgrees ==
  ASSUME NEW a, NEW call \in Call, NEW states \in [Profile -> ProfileState],
         Carried(call, states), call.left = {}, call.enable = ShouldEnable(a),
         \A p \in Profile : call.failed[p] \in {"ok", "not_found"}
  PROVE  Agrees(a, states)
<1>1. ASSUME NEW p \in Profile
      PROVE  states[p] # IF call.enable THEN "off" ELSE "on"
  BY <1>1 DEF Carried
<1> QED
  BY <1>1 DEF Agrees

-----------------------------------------------------------------------------
(* The parts of a step *)

\* The users a step is not about.
Undisturbed(v) ==
  /\ acct'[v] = acct[v] /\ panel'[v] = panel[v] /\ edits'[v] = edits[v]
  /\ deletes'[v] = deletes[v] /\ worker'.batch[v] = worker.batch[v]
  /\ (worker'.at = v) = (worker.at = v) /\ (worker.at = v => worker'.call = worker.call)
  /\ (v \in sync'.users) = (v \in sync.users)
  /\ excused \subseteq excused' /\ overruled \subseteq overruled'

LEMMA UndisturbedSound ==
  ASSUME NEW v \in User, UserSound(v), Undisturbed(v)
  PROVE  UserSound(v)'
  BY DEF Undisturbed, UserSound, Alone, WorkerSound, HandlersSound, Loaded, Waiting, Desired

\* A step about one user leaves the others sound.
LEMMA OneUser ==
  ASSUME NEW u \in User, UsersSound, UserSound(u)', \A v \in User \ {u} : Undisturbed(v)
  PROVE  UsersSound'
<1>1. ASSUME NEW v \in User
      PROVE  UserSound(v)'
  <2>1. CASE v = u
    BY <2>1
  <2>2. CASE v # u
    BY <2>2, UndisturbedSound DEF UsersSound
  <2> QED
    BY <2>1, <2>2
<1> QED
  BY <1>1 DEF UsersSound

\* Consistent rows are written, or none.
LEMMA RowsWritten ==
  ASSUME AccountsSound,
         \A v \in User : acct'[v] = acct[v] \/ Consistent(acct'[v], Now),
         \A v \in User : edits'[v].on => \/ edits[v].on /\ edits'[v].row = edits[v].row
                                         \/ Consistent(edits'[v].row, Now)
  PROVE  AccountsSound'
  BY DEF AccountsSound, Now, During

LEMMA JobKeeps ==
  ASSUME NEW a \in Account, Consistent(a, Now), NEW job \in VpnSyncJob
  PROVE  LET b == [a EXCEPT !.job = job]
         IN  /\ b \in Account /\ Consistent(b, Now) /\ b.job = job
             /\ b.status = a.status /\ b.created = a.created /\ b.deleted = a.deleted
<1> DEFINE b == [a EXCEPT !.job = job]
<1>1. /\ b \in Account /\ b.history = a.history /\ b.status = a.status
      /\ b.created = a.created /\ b.deleted = a.deleted /\ b.job = job
      /\ b.balance = a.balance /\ b.limit = a.limit
  BY DEF Account
<1> HIDE DEF b
<1>2. HistoryOK(b, Now)
  BY <1>1, SameHistory DEF Consistent
<1>3. PaidUpNotBlocked(b)
  BY <1>1 DEF Consistent, PaidUpNotBlocked, BlockedByBilling, Live, Exists, OutOfMoney
<1> QED
  BY <1>1, <1>2, <1>3 DEF Consistent, b

-----------------------------------------------------------------------------
(* The initial states *)

LEMMA AccountOfSound ==
  ASSUME NEW status \in AccountStatus, NEW balance \in Int
  PROVE  LET a == AccountOf(status, IF status = "blocked" THEN "billing" ELSE "admin",
                            IF status = "blocked" THEN -1 ELSE balance)
         IN  a \in Account /\ Consistent(a, Now) /\ a.job = "none"
<1> DEFINE source == IF status = "blocked" THEN "billing" ELSE "admin"
           money == IF status = "blocked" THEN -1 ELSE balance
           r == AddHistory(NoAccount, "active", status, source, Yesterday)
           a == [r EXCEPT !.status = status, !.balance = money, !.created = Midnight(0)]
<1>1. /\ NoAccount \in Account /\ HistoryOK(NoAccount, Now) /\ DOMAIN NoAccount.history = {}
      /\ NoAccount.limit = 0 /\ NoAccount.job = "none" /\ NoAccount.deleted = Never
  BY Instants, NoAccountConsistent DEF Consistent, NoAccount
<1>2. /\ source \in StatusChangeSource /\ "active" \in AccountStatus \union {"null"}
      /\ source = "billing" => status = "blocked" /\ money = -1
      /\ money \in Int
  BY DEF StatusChangeSource, AccountStatus
<1> HIDE DEF source, money
<1>3. /\ r \in Account /\ r.limit = 0 /\ r.job = "none"
  <2>1. r \in Account
    BY <1>1, <1>2, Instants, AddHistoryType
  <2> QED
    BY <1>1, <2>1 DEF AddHistory, Account
<1> HIDE DEF r
<1>4. /\ a \in Account /\ a.history = r.history /\ a.status = status /\ a.balance = money
      /\ a.created = 0 /\ a.limit = 0 /\ a.job = "none"
  <2>1. \A when \in Int :
          LET b == [r EXCEPT !.status = status, !.balance = money, !.created = when]
          IN  /\ b \in Account /\ b.history = r.history /\ b.status = status
              /\ b.balance = money /\ b.created = when /\ b.limit = 0 /\ b.job = "none"
    BY <1>2, <1>3 DEF Account
  <2>2. Midnight(0) \in Int /\ Midnight(0) = 0
    BY Instants
  <2> QED
    BY ONLY <2>1, <2>2 DEF a
<1>5. a.history = AddHistory(NoAccount, "active", status, source, Yesterday).history
  BY <1>4 DEF r
<1> HIDE DEF a
<1> DEFINE base == [NoAccount EXCEPT !.created = Midnight(0)]
<1>6. /\ base \in Account /\ base.created = 0 /\ base.history = NoAccount.history
      /\ base.status = NoAccount.status
      /\ AddHistory(base, "active", status, source, Yesterday).history = a.history
  BY <1>1, <1>5, Instants DEF Account, AddHistory
<1> HIDE DEF base
<1>7. HistoryOK(base, Now) /\ DOMAIN base.history = {}
  BY <1>1, <1>6, Instants DEF HistoryOK, StatusIsLatest, SoundHistory
<1>8. HistoryOK(a, Now) /\ \A c \in Latest(a.history) : c.source = source
  <2>1. source = "billing" => status = "blocked" /\ "active" \in {"active", "paused"}
    BY <1>2
  <2>2. a.created = base.created
    BY <1>4, <1>6
  <2>3. /\ Yesterday \in Int /\ Yesterday <= Now
        /\ \A i \in DOMAIN base.history : base.history[i].eff <= Yesterday
    BY <1>7, Instants
  <2> QED
    BY <1>2, <1>4, <1>6, <1>7, <2>1, <2>2, <2>3, Instants, AppendedHistory
<1>9. PaidUpNotBlocked(a)
  BY <1>2, <1>4, <1>8 DEF PaidUpNotBlocked, BlockedByBilling, OutOfMoney
<1> QED
  BY <1>4, <1>8, <1>9 DEF Consistent, AccountOf, a, r, source, money

LEMMA InitSound ==
  ASSUME Init
  PROVE  Inv
<1>1. PICK s \in [User -> AccountStatus], b \in [User -> StartBalances] :
        acct = [u \in User |-> AccountOf(s[u], IF s[u] = "blocked" THEN "billing" ELSE "admin",
                                         IF s[u] = "blocked" THEN -1 ELSE b[u])]
  BY DEF Init
<1>2. ASSUME NEW u \in User
      PROVE  acct[u] \in Account /\ Consistent(acct[u], Now) /\ acct[u].job = "none"
  <2>1. s[u] \in AccountStatus /\ b[u] \in Int
    BY VpnAssumption
  <2> QED
    BY <1>1, <2>1, AccountOfSound
<1>3. /\ NoAccount \in Account /\ NoCall \in Call /\ NoJobs \in [User -> VpnSyncJob]
      /\ "active" \in AccountStatus
  BY Instants, NoAccountConsistent, NoCallType DEF AccountStatus
<1>4. TypeOK
  <2>1. acct \in [User -> Account]
    BY <1>1, <1>2
  <2>2. panel \in [User -> [Profile -> ProfileState]]
    BY DEF Init, ProfileState
  <2>3. worker \in [batch : [User -> VpnSyncJob], at : User \union {"nobody"}, call : Call]
    BY <1>3 DEF Init
  <2>4. edits \in [User -> [on : BOOLEAN, row : Account, call : Call]]
    BY <1>3 DEF Init, NoEdit
  <2>5. deletes \in [User -> [on : BOOLEAN, seen : AccountStatus, call : Call]]
    BY <1>3 DEF Init, NoDelete
  <2> QED
    BY <2>1, <2>2, <2>3, <2>4, <2>5, VpnAssumption DEF TypeOK, Init
<1>5. AccountsSound
  BY <1>2 DEF AccountsSound, Init, NoEdit
<1>6. ASSUME NEW u \in User
      PROVE  UserSound(u)
  <2>1. /\ worker.batch[u] = "none" /\ worker.at # u /\ ~edits[u].on /\ ~deletes[u].on
        /\ u \notin sync.users
    BY VpnAssumption DEF Init, NoJobs, NoEdit, NoDelete
  <2>2. Follows(acct[u], panel[u])
    BY DEF Init, Follows
  <2> QED
    BY <2>1, <2>2 DEF UserSound, Alone, WorkerSound, HandlersSound, Loaded, Waiting
<1> QED
  BY <1>4, <1>5, <1>6 DEF Inv, UsersSound

-----------------------------------------------------------------------------
(* The steps of the worker *)

\* The jobs are loaded as they are; who is half way with such a user is excused.
LEMMA WorkerLoadSound ==
  ASSUME Inv, WorkerLoad
  PROVE  Inv'
<1>1. PICK due \in SUBSET {u \in User : acct[u].job # "none"} :
        /\ worker' = [worker EXCEPT !.batch =
                        [u \in User |-> IF u \in due THEN acct[u].job ELSE "none"]]
        /\ excused' = excused \union {u \in due : Waiting(u)}
  BY DEF WorkerLoad
<1>2. UNCHANGED <<acct, panel, edits, deletes, sync, billed, requests, overruled>>
  BY DEF WorkerLoad
<1> DEFINE batch == [u \in User |-> IF u \in due THEN acct[u].job ELSE "none"]
<1>3. /\ batch \in [User -> VpnSyncJob]
      /\ \A u \in User : batch[u] = IF u \in due THEN acct[u].job ELSE "none"
  BY DEF Inv, TypeOK, Account, VpnSyncJob
<1> HIDE DEF batch
<1>4. /\ worker'.batch = batch /\ worker'.at = "nobody" /\ worker'.call = worker.call
      /\ worker' \in [batch : [User -> VpnSyncJob], at : User \union {"nobody"}, call : Call]
  <2>1. worker.at = "nobody"
    BY DEF WorkerLoad
  <2>2. worker' = [worker EXCEPT !.batch = batch]
    BY <1>1 DEF batch
  <2> QED
    BY <1>3, <2>1, <2>2 DEF Inv, TypeOK
<1>5. TypeOK'
  BY <1>1, <1>2, <1>4 DEF Inv, TypeOK
<1>6. AccountsSound'
  BY <1>2, RowsWritten DEF Inv
<1>7. ASSUME NEW u \in User
      PROVE  UserSound(u)'
  <2>1. UserSound(u)
    BY DEF Inv, UsersSound
  <2>2. u # "nobody" /\ excused \subseteq excused' /\ overruled' = overruled
    BY <1>1, <1>2, VpnAssumption
  <2>3. Waiting(u)' = Waiting(u)
    BY <1>2 DEF Waiting
  <2>4. u \notin excused' /\ Waiting(u) => u \notin due
    BY <1>1
  <2> QED
    BY <1>2, <1>3, <1>4, <2>1, <2>2, <2>3, <2>4
       DEF UserSound, Alone, WorkerSound, HandlersSound, Loaded
<1> QED
  BY <1>5, <1>6, <1>7 DEF Inv, UsersSound

LEMMA ForgetType ==
  ASSUME NEW u \in User, TypeOK
  PROVE  /\ Forget(u) \in [batch : [User -> VpnSyncJob], at : User \union {"nobody"}, call : Call]
         /\ Forget(u).at = "nobody" /\ Forget(u).batch[u] = "none"
         /\ \A v \in User \ {u} : Forget(u).batch[v] = worker.batch[v]
<1> DEFINE batch == [worker.batch EXCEPT ![u] = "none"]
<1>1. /\ batch \in [User -> VpnSyncJob] /\ batch[u] = "none"
      /\ \A v \in User \ {u} : batch[v] = worker.batch[v]
  BY DEF TypeOK, VpnSyncJob
<1>2. Forget(u) = [worker EXCEPT !.batch = batch, !.at = "nobody", !.call = NoCall]
  BY DEF Forget
<1> HIDE DEF batch
<1> QED
  BY <1>1, <1>2, NoCallType DEF TypeOK

\* The worker deletes the job of a user whose panel agrees already.
LEMMA JobDropped ==
  ASSUME Inv, NEW u \in User, DropJob(u), worker' = Forget(u), worker.at \in {"nobody", u},
         UNCHANGED <<panel, edits, deletes, sync, billed, requests, overruled>>,
         excused \subseteq excused', excused' \in SUBSET User,
         u \notin excused' \union overruled => Loaded(u) /\ Agrees(acct[u], panel[u])
  PROVE  Inv'
<1> DEFINE row == [acct[u] EXCEPT !.job = "none"]
<1>1. acct[u] \in Account /\ Consistent(acct[u], Now) /\ "none" \in VpnSyncJob
  BY DEF Inv, TypeOK, AccountsSound, VpnSyncJob
<1>2. /\ row \in Account /\ Consistent(row, Now) /\ row.job = "none"
      /\ row.status = acct[u].status /\ row.created = acct[u].created
      /\ row.deleted = acct[u].deleted
  BY <1>1, JobKeeps
<1>3. acct' = [acct EXCEPT ![u] = row]
  BY DEF DropJob
<1> HIDE DEF row
<1>4. acct' \in [User -> Account] /\ acct'[u] = row /\ \A v \in User \ {u} : acct'[v] = acct[v]
  BY <1>2, <1>3 DEF Inv, TypeOK
<1>5. /\ worker' \in [batch : [User -> VpnSyncJob], at : User \union {"nobody"}, call : Call]
      /\ worker'.at = "nobody" /\ worker'.batch[u] = "none"
      /\ \A v \in User \ {u} : worker'.batch[v] = worker.batch[v]
  BY ForgetType DEF Inv
<1>6. TypeOK'
  BY <1>4, <1>5 DEF Inv, TypeOK
<1>7. AccountsSound'
  BY <1>2, <1>4, RowsWritten DEF Inv
<1>8. UserSound(u)'
  <2>1. ASSUME u \notin excused' \union overruled
        PROVE  UserSound(u)'
    <3>1. Loaded(u) /\ Agrees(acct[u], panel[u]) /\ u \notin excused \union overruled
      BY <2>1
    <3>2. Alone(u) /\ HandlersSound(u)
      BY <3>1 DEF Inv, UsersSound, UserSound
    <3>3. ~Waiting(u) /\ ~Waiting(u)' /\ ~Loaded(u)'
      BY <1>5, <3>1, <3>2, VpnAssumption DEF Alone, Loaded, Waiting
    <3>4. Agrees(row, panel[u])
      BY <1>2, <3>1 DEF Agrees, ShouldEnable, Live, Exists
    <3>5. Follows(acct'[u], panel'[u])
      BY <1>4, <3>4 DEF Follows
    <3> QED
      BY <1>5, <3>3, <3>5, VpnAssumption
         DEF UserSound, Alone, WorkerSound, HandlersSound, Waiting
  <2> QED
    BY <2>1 DEF UserSound
<1>9. \A v \in User \ {u} : Undisturbed(v)
  BY <1>4, <1>5, VpnAssumption DEF Undisturbed
<1> QED
  BY <1>6, <1>7, <1>8, <1>9, OneUser DEF Inv

\* A job that no longer says what the account asks for: the panel agrees.
LEMMA WorkerDropsJobSound ==
  ASSUME Inv, NEW u \in User, WorkerDropsJob(u)
  PROVE  Inv'
<1>1. ASSUME u \notin excused \union overruled
      PROVE  Loaded(u) /\ Agrees(acct[u], panel[u])
  <2>1. Loaded(u) /\ Desired(u) # ShouldEnable(acct[u]) /\ worker.batch[u] # "none"
    BY DEF WorkerDropsJob, Loaded
  <2>2. Alone(u) /\ WorkerSound(u)
        /\ (edits[u].on \/ deletes[u].on \/ Follows(acct[u], panel[u]))
    BY <1>1 DEF Inv, UsersSound, UserSound
  <2>3. ~edits[u].on /\ ~deletes[u].on /\ acct[u].job = worker.batch[u]
    BY <2>1, <2>2 DEF Alone, Waiting, WorkerSound
  <2> QED
    BY <2>1, <2>2, <2>3 DEF Follows, Desired
<1>2. /\ DropJob(u) /\ worker' = Forget(u) /\ worker.at = "nobody"
      /\ UNCHANGED <<panel, edits, deletes, sync, billed, requests, excused, overruled>>
  BY DEF WorkerDropsJob
<1>3. excused' \in SUBSET User /\ excused \subseteq excused'
  BY <1>2 DEF Inv, TypeOK
<1> QED
  BY <1>1, <1>2, <1>3, JobDropped

LEMMA WorkerCallsSound ==
  ASSUME Inv, NEW u \in User, WorkerCalls(u)
  PROVE  Inv'
<1> DEFINE call == CallPanel(u, Desired(u))
<1>1. /\ worker.at = "nobody" /\ worker.batch[u] # "none"
      /\ Desired(u) = ShouldEnable(acct[u])
      /\ worker' = [worker EXCEPT !.at = u, !.call = call]
      /\ UNCHANGED <<acct, panel, edits, deletes, sync, billed, requests, excused, overruled>>
  BY DEF WorkerCalls
<1>2. Desired(u) \in BOOLEAN
  BY DEF Desired
<1>3. call \in Call /\ call.enable = Desired(u) /\ Carried(call, panel[u])
  BY <1>2, CallPanelCarried DEF Inv
<1> HIDE DEF call
<1>4. /\ worker' \in [batch : [User -> VpnSyncJob], at : User \union {"nobody"}, call : Call]
      /\ worker'.at = u /\ worker'.call = call /\ worker'.batch = worker.batch
  BY <1>1, <1>3 DEF Inv, TypeOK
<1>5. TypeOK'
  BY <1>1, <1>4 DEF Inv, TypeOK
<1>6. AccountsSound'
  BY <1>1, RowsWritten DEF Inv
<1>7. UserSound(u)'
  <2>1. UserSound(u)
    BY DEF Inv, UsersSound
  <2> QED
    BY <1>1, <1>3, <1>4, <2>1
       DEF UserSound, Alone, WorkerSound, HandlersSound, Loaded, Waiting, Desired
<1>8. \A v \in User \ {u} : Undisturbed(v)
  BY <1>1, <1>4, VpnAssumption DEF Undisturbed
<1> QED
  BY <1>5, <1>6, <1>7, <1>8, OneUser DEF Inv

\* Every profile that exists has answered: the panel is what the account asks for.
LEMMA WorkerSucceedsSound ==
  ASSUME Inv, NEW u \in User, WorkerSucceeds(u)
  PROVE  Inv'
<1>1. /\ DropJob(u) /\ worker' = Forget(u) /\ worker.at = u
      /\ worker.call.left = {} /\ Failed(worker.call) = {}
      /\ UNCHANGED <<panel, edits, deletes, sync, billed, requests, excused, overruled>>
  BY DEF WorkerSucceeds
<1>2. ASSUME u \notin excused \union overruled
      PROVE  Loaded(u) /\ Agrees(acct[u], panel[u])
  <2>1. WorkerSound(u)
    BY <1>2 DEF Inv, UsersSound, UserSound
  <2>2. /\ Carried(worker.call, panel[u]) /\ worker.call.enable = ShouldEnable(acct[u])
        /\ worker.call \in Call /\ panel[u] \in [Profile -> ProfileState]
    BY <1>1, <2>1 DEF WorkerSound, Inv, TypeOK
  <2>3. \A p \in Profile : worker.call.failed[p] \in {"ok", "not_found"}
    BY <1>1 DEF Failed
  <2> QED
    BY <1>1, <2>2, <2>3, CarriedAgrees DEF Loaded
<1>3. excused' \in SUBSET User /\ excused \subseteq excused'
  BY <1>1 DEF Inv, TypeOK
<1> QED
  BY <1>1, <1>2, <1>3, JobDropped

\* A failed job stays, unless a profile to disable is not there; when another
\* profile of the user failed too, the drop is excused.
LEMMA WorkerFailsSound ==
  ASSUME Inv, NEW u \in User, WorkerFails(u)
  PROVE  Inv'
<1>1. /\ worker' = Forget(u) /\ worker.at = u /\ worker.call.left = {}
      /\ UNCHANGED <<panel, edits, deletes, sync, billed, requests, overruled>>
  BY DEF WorkerFails
<1>2. CASE FirstError(worker.call) = "not_found" /\ ~worker.call.enable
  <2>1. /\ DropJob(u)
        /\ IF \E p \in Profile : worker.call.failed[p] = "unavailable"
           THEN excused' = excused \union {u} ELSE excused' = excused
    BY <1>2 DEF WorkerFails, Excuse
  <2>2. ASSUME u \notin excused' \union overruled
        PROVE  Loaded(u) /\ Agrees(acct[u], panel[u])
    <3>1. u \notin excused \union overruled /\ ~\E p \in Profile : worker.call.failed[p] = "unavailable"
      BY <2>1, <2>2
    <3>2. WorkerSound(u)
      BY <3>1 DEF Inv, UsersSound, UserSound
    <3>3. /\ Carried(worker.call, panel[u]) /\ worker.call.enable = ShouldEnable(acct[u])
          /\ worker.call \in Call /\ panel[u] \in [Profile -> ProfileState]
      BY <1>1, <3>2 DEF WorkerSound, Inv, TypeOK
    <3>4. \A p \in Profile : worker.call.failed[p] \in {"ok", "not_found"}
      BY <3>1, <3>3 DEF Call, Failure
    <3> QED
      BY <1>1, <3>3, <3>4, CarriedAgrees DEF Loaded
  <2>3. excused' \in SUBSET User /\ excused \subseteq excused'
    BY <2>1 DEF Inv, TypeOK
  <2> QED
    BY <1>1, <2>1, <2>2, <2>3, JobDropped
<1>3. CASE ~(FirstError(worker.call) = "not_found" /\ ~worker.call.enable)
  <2>1. UNCHANGED <<acct, excused>>
    BY <1>3 DEF WorkerFails
  <2>2. /\ worker' \in [batch : [User -> VpnSyncJob], at : User \union {"nobody"}, call : Call]
        /\ worker'.at = "nobody" /\ worker'.batch[u] = "none"
        /\ \A v \in User \ {u} : worker'.batch[v] = worker.batch[v]
    BY <1>1, ForgetType DEF Inv
  <2>3. TypeOK'
    BY <1>1, <2>1, <2>2 DEF Inv, TypeOK
  <2>4. AccountsSound'
    BY <1>1, <2>1, RowsWritten DEF Inv
  <2>5. UserSound(u)'
    <3>1. UserSound(u) /\ u # "nobody"
      BY VpnAssumption DEF Inv, UsersSound
    <3> QED
      BY <1>1, <2>1, <2>2, <3>1
         DEF UserSound, Alone, WorkerSound, HandlersSound, Loaded, Waiting
  <2>6. \A v \in User \ {u} : Undisturbed(v)
    BY <1>1, <2>1, <2>2, VpnAssumption DEF Undisturbed
  <2> QED
    BY <2>3, <2>4, <2>5, <2>6, OneUser DEF Inv
<1> QED
  BY <1>2, <1>3

-----------------------------------------------------------------------------
(* The steps of the panel *)

LEMMA AnswerWorkerSound ==
  ASSUME Inv, NEW u \in User, NEW p \in Profile,
         NEW outcome \in {"ok", "not_found", "unavailable", "lost_answer"},
         AnswerWorker(u, p, outcome)
  PROVE  Inv'
<1> DEFINE call == Answered(worker.call, p, outcome)
<1>1. /\ worker.at = u /\ p \in worker.call.left /\ outcome \in Outcomes(u, p)
      /\ Applied(u, p, worker.call.enable, outcome) /\ worker.call \in Call
      /\ worker' = [worker EXCEPT !.call = call]
      /\ UNCHANGED <<acct, edits, deletes, sync, billed, requests, excused, overruled>>
  BY DEF AnswerWorker, Inv, TypeOK
<1>2. /\ call \in Call /\ call.enable = worker.call.enable
      /\ panel' \in [User -> [Profile -> ProfileState]]
      /\ \A v \in User \ {u} : panel'[v] = panel[v]
      /\ Carried(worker.call, panel[u]) => Carried(call, panel'[u])
  BY <1>1, AnsweredCarried DEF Inv, Call
<1> HIDE DEF call
<1>3. /\ worker' \in [batch : [User -> VpnSyncJob], at : User \union {"nobody"}, call : Call]
      /\ worker'.at = u /\ worker'.call = call /\ worker'.batch = worker.batch
  BY <1>1, <1>2 DEF Inv, TypeOK
<1>4. TypeOK'
  BY <1>1, <1>2, <1>3 DEF Inv, TypeOK
<1>5. AccountsSound'
  BY <1>1, RowsWritten DEF Inv
<1>6. UserSound(u)'
  <2>1. ASSUME u \notin excused \union overruled
        PROVE  UserSound(u)'
    <3>1. Alone(u) /\ WorkerSound(u) /\ HandlersSound(u)
      BY <2>1 DEF Inv, UsersSound, UserSound
    <3>2. ~Waiting(u)
      BY <1>1, <3>1 DEF Alone, Loaded
    <3>3. Follows(acct[u], panel'[u])
      BY <1>1, <3>1 DEF WorkerSound, Follows, Desired
    <3> QED
      BY <1>1, <1>2, <1>3, <3>1, <3>2, <3>3
         DEF UserSound, Alone, WorkerSound, HandlersSound, Loaded, Waiting, Desired
  <2> QED
    BY <1>1, <2>1 DEF UserSound
<1>7. \A v \in User \ {u} : Undisturbed(v)
  BY <1>1, <1>2, <1>3 DEF Undisturbed
<1> QED
  BY <1>4, <1>5, <1>6, <1>7, OneUser DEF Inv

LEMMA AnswerEditSound ==
  ASSUME Inv, NEW u \in User, NEW p \in Profile,
         NEW outcome \in {"ok", "not_found", "unavailable", "lost_answer"},
         AnswerEdit(u, p, outcome)
  PROVE  Inv'
<1> DEFINE call == Answered(edits[u].call, p, outcome)
           edit == [edits[u] EXCEPT !.call = call]
<1>1. /\ edits[u].on /\ p \in edits[u].call.left /\ outcome \in Outcomes(u, p)
      /\ Applied(u, p, edits[u].call.enable, outcome) /\ edits[u].call \in Call
      /\ edits' = [edits EXCEPT ![u] = edit]
      /\ UNCHANGED <<acct, worker, deletes, sync, billed, requests, excused, overruled>>
  BY DEF AnswerEdit, Inv, TypeOK
<1>2. /\ call \in Call /\ call.enable = edits[u].call.enable
      /\ panel' \in [User -> [Profile -> ProfileState]]
      /\ \A v \in User \ {u} : panel'[v] = panel[v]
      /\ Carried(edits[u].call, panel[u]) => Carried(call, panel'[u])
  BY <1>1, AnsweredCarried DEF Inv, Call
<1> HIDE DEF call
<1>3. /\ edit \in [on : BOOLEAN, row : Account, call : Call] /\ edit.on = edits[u].on
      /\ edit.row = edits[u].row /\ edit.call = call
  BY <1>2 DEF Inv, TypeOK
<1> HIDE DEF edit
<1>4. /\ edits' \in [User -> [on : BOOLEAN, row : Account, call : Call]]
      /\ edits'[u] = edit /\ \A v \in User \ {u} : edits'[v] = edits[v]
  BY <1>1, <1>3 DEF Inv, TypeOK
<1>5. TypeOK'
  BY <1>1, <1>2, <1>4 DEF Inv, TypeOK
<1>6. AccountsSound'
  BY <1>1, <1>3, <1>4, RowsWritten DEF Inv
<1>7. UserSound(u)'
  <2>1. UserSound(u)
    BY DEF Inv, UsersSound
  <2> QED
    BY <1>1, <1>2, <1>3, <1>4, <2>1
       DEF UserSound, Alone, WorkerSound, HandlersSound, Loaded, Waiting, Desired
<1>8. \A v \in User \ {u} : Undisturbed(v)
  BY <1>1, <1>2, <1>4 DEF Undisturbed
<1> QED
  BY <1>5, <1>6, <1>7, <1>8, OneUser DEF Inv

LEMMA AnswerDeleteSound ==
  ASSUME Inv, NEW u \in User, NEW p \in Profile,
         NEW outcome \in {"ok", "not_found", "unavailable", "lost_answer"},
         AnswerDelete(u, p, outcome)
  PROVE  Inv'
<1> DEFINE call == Answered(deletes[u].call, p, outcome)
           delete == [deletes[u] EXCEPT !.call = call]
<1>1. /\ deletes[u].on /\ p \in deletes[u].call.left /\ outcome \in Outcomes(u, p)
      /\ Applied(u, p, FALSE, outcome) /\ deletes[u].call \in Call
      /\ deletes' = [deletes EXCEPT ![u] = delete]
      /\ UNCHANGED <<acct, worker, edits, sync, billed, requests, excused, overruled>>
  BY DEF AnswerDelete, Inv, TypeOK
<1>2. /\ call \in Call /\ call.enable = deletes[u].call.enable
      /\ panel' \in [User -> [Profile -> ProfileState]]
      /\ \A v \in User \ {u} : panel'[v] = panel[v]
      /\ Carried(deletes[u].call, panel[u]) /\ ~deletes[u].call.enable => Carried(call, panel'[u])
  BY <1>1, AnsweredCarried DEF Inv, Call
<1> HIDE DEF call
<1>3. /\ delete \in [on : BOOLEAN, seen : AccountStatus, call : Call]
      /\ delete.on = deletes[u].on /\ delete.call = call
  BY <1>2 DEF Inv, TypeOK
<1> HIDE DEF delete
<1>4. /\ deletes' \in [User -> [on : BOOLEAN, seen : AccountStatus, call : Call]]
      /\ deletes'[u] = delete /\ \A v \in User \ {u} : deletes'[v] = deletes[v]
  BY <1>1, <1>3 DEF Inv, TypeOK
<1>5. TypeOK'
  BY <1>1, <1>2, <1>4 DEF Inv, TypeOK
<1>6. AccountsSound'
  BY <1>1, RowsWritten DEF Inv
<1>7. UserSound(u)'
  <2>1. UserSound(u)
    BY DEF Inv, UsersSound
  <2> QED
    BY <1>1, <1>2, <1>3, <1>4, <2>1
       DEF UserSound, Alone, WorkerSound, HandlersSound, Loaded, Waiting, Desired
<1>8. \A v \in User \ {u} : Undisturbed(v)
  BY <1>1, <1>2, <1>4 DEF Undisturbed
<1> QED
  BY <1>5, <1>6, <1>7, <1>8, OneUser DEF Inv

\* A profile that is gone is neither on nor off: nothing new is against anyone.
LEMMA RemoveProfileSound ==
  ASSUME Inv, NEW u \in User, NEW p \in Profile, RemoveProfile(u, p)
  PROVE  Inv'
<1>1. /\ panel' = [panel EXCEPT ![u][p] = "gone"]
      /\ UNCHANGED <<acct, worker, edits, deletes, sync, billed, requests, excused, overruled>>
  BY DEF RemoveProfile
<1>2. /\ panel' \in [User -> [Profile -> ProfileState]] /\ panel'[u][p] = "gone"
      /\ \A q \in Profile : panel'[u][q] = panel[u][q] \/ panel'[u][q] = "gone"
      /\ \A v \in User \ {u} : panel'[v] = panel[v]
  BY <1>1 DEF Inv, TypeOK, ProfileState
<1>3. \A call : Carried(call, panel[u]) => Carried(call, panel'[u])
  BY <1>2 DEF Carried
<1>4. \A a : Follows(a, panel[u]) => Follows(a, panel'[u])
  BY <1>2 DEF Follows, Agrees
<1>5. TypeOK'
  BY <1>1, <1>2 DEF Inv, TypeOK
<1>6. AccountsSound'
  BY <1>1, RowsWritten DEF Inv
<1>7. UserSound(u)'
  <2>1. UserSound(u)
    BY DEF Inv, UsersSound
  <2> QED
    BY <1>1, <1>3, <1>4, <2>1
       DEF UserSound, Alone, WorkerSound, HandlersSound, Loaded, Waiting, Desired
<1>8. \A v \in User \ {u} : Undisturbed(v)
  BY <1>1, <1>2 DEF Undisturbed
<1> QED
  BY <1>5, <1>6, <1>7, <1>8, OneUser DEF Inv

-----------------------------------------------------------------------------
(* The steps of the handlers *)

\* A handler that commits at once: nobody else is half way, or the user is excused.
LEMMA CommitSound ==
  ASSUME Inv, NEW u \in User, NEW row \in Account, Consistent(row, Now), Commit(u, row),
         requests' \in 0 .. MaxRequests, billed' \in SUBSET User,
         overruled' \in SUBSET User, overruled \subseteq overruled',
         u \notin overruled' /\ Follows(acct[u], panel[u]) => Follows(row, panel[u])
  PROVE  Inv'
<1>1. /\ acct' = [acct EXCEPT ![u] = row]
      /\ excused' = IF InFlight(u) THEN excused \union {u} ELSE excused
      /\ UNCHANGED <<panel, worker, edits, deletes, sync>>
  BY DEF Commit, Overlap
<1>2. acct' \in [User -> Account] /\ acct'[u] = row /\ \A v \in User \ {u} : acct'[v] = acct[v]
  BY <1>1 DEF Inv, TypeOK
<1>3. excused \subseteq excused' /\ excused' \in SUBSET User
  BY <1>1 DEF Inv, TypeOK
<1>4. TypeOK'
  BY <1>1, <1>2, <1>3 DEF Inv, TypeOK
<1>5. AccountsSound'
  BY <1>1, <1>2, RowsWritten DEF Inv
<1>6. UserSound(u)'
  <2>1. ASSUME u \notin excused' \union overruled'
        PROVE  UserSound(u)'
    <3>1. ~InFlight(u) /\ u \notin excused \union overruled
      BY <1>1, <1>3, <2>1
    <3>2. Follows(acct[u], panel[u])
      BY <3>1 DEF Inv, UsersSound, UserSound, InFlight, Waiting
    <3> QED
      BY <1>1, <1>2, <2>1, <3>1, <3>2
         DEF UserSound, Alone, WorkerSound, HandlersSound, InFlight, Loaded, Waiting
  <2> QED
    BY <2>1 DEF UserSound
<1>7. \A v \in User \ {u} : Undisturbed(v)
  BY <1>1, <1>2, <1>3 DEF Undisturbed
<1> QED
  BY <1>4, <1>5, <1>6, <1>7, OneUser DEF Inv

LEMMA Served ==
  ASSUME TypeOK, Serve
  PROVE  requests' \in 0 .. MaxRequests
  BY VpnAssumption DEF TypeOK, Serve

LEMMA TopUpSound ==
  ASSUME Inv, NEW u \in User, TopUp(u)
  PROVE  Inv'
<1> DEFINE row == CreditAccount(acct[u], Credit, Now)
<1>1. acct[u] \in Account /\ Consistent(acct[u], Now) /\ Credit \in Int
  BY VpnAssumption DEF Inv, TypeOK, AccountsSound
<1>2. /\ Live(acct[u]) /\ Serve /\ Commit(u, row)
      /\ UNCHANGED <<billed, overruled>>
  BY DEF TopUp
<1>3. row \in Account /\ Consistent(row, Now)
  BY <1>1, Instants, CreditAccountConsistent DEF Consistent
<1>4. Follows(acct[u], panel[u]) => Follows(row, panel[u])
  BY <1>1, <1>2, CreditFollows
<1>5. /\ requests' \in 0 .. MaxRequests /\ billed' \in SUBSET User
      /\ overruled' \in SUBSET User /\ overruled \subseteq overruled'
  BY <1>2, Served DEF Inv, TypeOK
<1> HIDE DEF row
<1> QED
  BY <1>2, <1>3, <1>4, <1>5, CommitSound

LEMMA ActivateSound ==
  ASSUME Inv, NEW u \in User, Activate(u)
  PROVE  Inv'
<1> DEFINE row == ActivateAccount(acct[u], Now)
<1>1. acct[u] \in Account /\ Consistent(acct[u], Now)
  BY DEF Inv, TypeOK, AccountsSound
<1>2. /\ MayActivate(acct[u]) /\ Serve /\ Commit(u, row)
      /\ UNCHANGED <<billed, overruled>>
  BY DEF Activate
<1>3. row \in Account /\ Consistent(row, Now)
  BY <1>1, <1>2, Instants, ActivateAccountConsistent
<1>4. Follows(row, panel[u])
  BY <1>1, <1>2, ActivateFollows
<1>5. /\ requests' \in 0 .. MaxRequests /\ billed' \in SUBSET User
      /\ overruled' \in SUBSET User /\ overruled \subseteq overruled'
  BY <1>2, Served DEF Inv, TypeOK
<1> HIDE DEF row
<1> QED
  BY <1>2, <1>3, <1>4, <1>5, CommitSound

LEMMA BillSound ==
  ASSUME Inv, NEW u \in User, Bill(u)
  PROVE  Inv'
<1> DEFINE row == IF ActiveAt(acct[u], Cutoff) THEN ChargeAccount(acct[u], Charge, Cutoff)
                  ELSE acct[u]
<1>1. acct[u] \in Account /\ Consistent(acct[u], Now)
  BY DEF Inv, TypeOK, AccountsSound
<1>2. /\ billed' = billed \union {u} /\ Commit(u, row) /\ requests' = requests
      /\ overruled' = IF row.history # acct[u].history /\ row.status # "blocked"
                      THEN overruled \union {u} ELSE overruled
  BY DEF Bill
<1>3. row \in Account /\ Consistent(row, Now)
  BY <1>1, Instants, VpnAssumption, ChargeAccountConsistent
<1>4. u \notin overruled' /\ Follows(acct[u], panel[u]) => Follows(row, panel[u])
  <2>1. CASE ActiveAt(acct[u], Cutoff)
    BY <1>1, <1>2, <2>1, ChargeFollows
  <2>2. CASE ~ActiveAt(acct[u], Cutoff)
    BY <2>2
  <2> QED
    BY <2>1, <2>2
<1>5. /\ requests' \in 0 .. MaxRequests /\ billed' \in SUBSET User
      /\ overruled' \in SUBSET User /\ overruled \subseteq overruled'
  BY <1>2 DEF Inv, TypeOK
<1> HIDE DEF row
<1> QED
  BY <1>2, <1>3, <1>4, <1>5, CommitSound

LEMMA StartEditSound ==
  ASSUME Inv, NEW u \in User, StartEdit(u)
  PROVE  Inv'
<1>1. PICK s \in AccountStatus, b \in StartBalances \union {acct[u].balance} :
        LET row == EditAccount(acct[u], s, b, acct[u].limit, Now)
        IN  IF NeedsPanel(acct[u], s, row)
            THEN /\ edits' = [edits EXCEPT ![u] = [on |-> TRUE, row |-> row,
                                                  call |-> CallPanel(u, s = "active")]]
                 /\ Overlap(u)
                 /\ UNCHANGED <<acct, panel, worker, deletes, sync>>
            ELSE Commit(u, row)
  BY DEF StartEdit
<1> DEFINE row == EditAccount(acct[u], s, b, acct[u].limit, Now)
<1>2. Live(acct[u]) /\ Serve /\ UNCHANGED <<billed, overruled>>
  BY DEF StartEdit
<1>3. /\ acct[u] \in Account /\ Consistent(acct[u], Now) /\ acct[u].limit \in Nat
      /\ acct[u].balance \in Int
  BY DEF Inv, TypeOK, AccountsSound, Account
<1>4. b \in Int
  BY <1>3, VpnAssumption
<1>5. row \in Account /\ Consistent(row, Now)
  BY <1>3, <1>4, Instants, EditAccountConsistent
<1>6. Follows(acct[u], panel[u]) => NeedsPanel(acct[u], s, row) \/ Follows(row, panel[u])
  BY <1>2, <1>3, <1>4, EditFollows
<1>7. Live(row)
  BY <1>2, <1>3, <1>4, EditFollows
<1>8. /\ requests' \in 0 .. MaxRequests /\ billed' \in SUBSET User
      /\ overruled' \in SUBSET User /\ overruled \subseteq overruled'
  BY <1>2, Served DEF Inv, TypeOK
<1>9. CASE ~NeedsPanel(acct[u], s, row)
  <2>1. Commit(u, row)
    BY <1>1, <1>9
  <2> HIDE DEF row
  <2> QED
    BY <1>5, <1>6, <1>8, <1>9, <2>1, CommitSound
<1>10. CASE NeedsPanel(acct[u], s, row)
  <2> DEFINE call == CallPanel(u, s = "active")
             edit == [on |-> TRUE, row |-> row, call |-> call]
  <2>1. /\ edits' = [edits EXCEPT ![u] = edit] /\ Overlap(u)
        /\ UNCHANGED <<acct, panel, worker, deletes, sync>>
    BY <1>1, <1>10
  <2>2. call \in Call /\ call.enable = (s = "active") /\ Carried(call, panel[u])
    BY CallPanelCarried DEF Inv
  <2>3. row.status = s /\ s # "paused"
    BY <1>10 DEF NeedsPanel
  <2> HIDE DEF row, call
  <2>4. /\ edit \in [on : BOOLEAN, row : Account, call : Call]
        /\ edit.on /\ edit.row = row /\ edit.call = call
    BY <1>5, <2>2
  <2> HIDE DEF edit
  <2>5. /\ edits' \in [User -> [on : BOOLEAN, row : Account, call : Call]]
        /\ edits'[u] = edit /\ \A v \in User \ {u} : edits'[v] = edits[v]
    BY <2>1, <2>4 DEF Inv, TypeOK
  <2>6. excused \subseteq excused' /\ excused' \in SUBSET User
    BY <2>1 DEF Overlap, Inv, TypeOK
  <2>7. TypeOK'
    BY <1>8, <2>1, <2>5, <2>6 DEF Inv, TypeOK
  <2>8. AccountsSound'
    BY <1>5, <2>1, <2>4, <2>5, RowsWritten DEF Inv
  <2>9. UserSound(u)'
    <3>1. ASSUME u \notin excused'
          PROVE  UserSound(u)'
      <4>1. ~InFlight(u)
        BY <2>1, <3>1 DEF Overlap
      <4> QED
        BY <1>7, <2>1, <2>2, <2>3, <2>4, <2>5, <4>1
           DEF UserSound, Alone, WorkerSound, HandlersSound, InFlight, Loaded, Waiting
    <3> QED
      BY <3>1 DEF UserSound
  <2>10. \A v \in User \ {u} : Undisturbed(v)
    BY <1>8, <2>1, <2>5, <2>6 DEF Undisturbed
  <2> QED
    BY <2>7, <2>8, <2>9, <2>10, OneUser DEF Inv
<1> QED
  BY <1>9, <1>10

LEMMA NoEditType ==
  ASSUME NEW u \in User, TypeOK, edits' = [edits EXCEPT ![u] = NoEdit]
  PROVE  /\ edits' \in [User -> [on : BOOLEAN, row : Account, call : Call]]
         /\ ~edits'[u].on /\ \A v \in User \ {u} : edits'[v] = edits[v]
<1>1. NoEdit \in [on : BOOLEAN, row : Account, call : Call] /\ ~NoEdit.on
  BY Instants, NoAccountConsistent, NoCallType DEF NoEdit
<1> QED
  BY <1>1 DEF TypeOK

LEMMA NoDeleteType ==
  ASSUME NEW u \in User, TypeOK, deletes' = [deletes EXCEPT ![u] = NoDelete]
  PROVE  /\ deletes' \in [User -> [on : BOOLEAN, seen : AccountStatus, call : Call]]
         /\ ~deletes'[u].on /\ \A v \in User \ {u} : deletes'[v] = deletes[v]
<1>1. NoDelete \in [on : BOOLEAN, seen : AccountStatus, call : Call] /\ ~NoDelete.on
  BY NoCallType DEF NoDelete, AccountStatus
<1> QED
  BY <1>1 DEF TypeOK

\* The panel has done what the row asks for, with nobody between.
LEMMA CommitEditSound ==
  ASSUME Inv, NEW u \in User, CommitEdit(u)
  PROVE  Inv'
<1> DEFINE row == [edits[u].row EXCEPT !.job = acct[u].job]
<1>1. /\ edits[u].on /\ edits[u].call.left = {} /\ Failed(edits[u].call) = {}
      /\ acct' = [acct EXCEPT ![u] = row] /\ edits' = [edits EXCEPT ![u] = NoEdit]
      /\ UNCHANGED <<panel, worker, deletes, sync, billed, requests, excused, overruled>>
  BY DEF CommitEdit
<1>2. /\ edits[u].row \in Account /\ Consistent(edits[u].row, Now)
      /\ acct[u].job \in VpnSyncJob /\ edits[u].call \in Call
      /\ panel[u] \in [Profile -> ProfileState]
  BY <1>1 DEF Inv, TypeOK, AccountsSound, Account
<1>3. /\ row \in Account /\ Consistent(row, Now) /\ row.status = edits[u].row.status
      /\ row.created = edits[u].row.created /\ row.deleted = edits[u].row.deleted
  BY <1>2, JobKeeps
<1> HIDE DEF row
<1>4. acct' \in [User -> Account] /\ acct'[u] = row /\ \A v \in User \ {u} : acct'[v] = acct[v]
  BY <1>1, <1>3 DEF Inv, TypeOK
<1>5. /\ edits' \in [User -> [on : BOOLEAN, row : Account, call : Call]]
      /\ ~edits'[u].on /\ \A v \in User \ {u} : edits'[v] = edits[v]
  BY <1>1, NoEditType DEF Inv
<1>6. TypeOK'
  BY <1>1, <1>4, <1>5 DEF Inv, TypeOK
<1>7. AccountsSound'
  BY <1>1, <1>3, <1>4, <1>5, RowsWritten DEF Inv
<1>8. UserSound(u)'
  <2>1. ASSUME u \notin excused \union overruled
        PROVE  UserSound(u)'
    <3>1. Alone(u) /\ HandlersSound(u)
      BY <2>1 DEF Inv, UsersSound, UserSound
    <3>2. ~Loaded(u) /\ ~deletes[u].on /\ u \notin sync.users
      BY <1>1, <3>1 DEF Alone, Waiting
    <3>3. Carried(edits[u].call, panel[u]) /\ edits[u].call.enable = ShouldEnable(row)
      BY <1>1, <1>3, <3>1 DEF HandlersSound, ShouldEnable, Live, Exists
    <3>4. \A p \in Profile : edits[u].call.failed[p] \in {"ok", "not_found"}
      BY <1>1 DEF Failed
    <3>5. Agrees(row, panel[u])
      BY <1>1, <1>2, <3>3, <3>4, CarriedAgrees
    <3> QED
      BY <1>1, <1>4, <1>5, <3>2, <3>5
         DEF UserSound, Alone, WorkerSound, HandlersSound, Loaded, Waiting, Follows
  <2> QED
    BY <1>1, <2>1 DEF UserSound
<1>9. \A v \in User \ {u} : Undisturbed(v)
  BY <1>1, <1>4, <1>5 DEF Undisturbed
<1> QED
  BY <1>6, <1>7, <1>8, <1>9, OneUser DEF Inv

LEMMA AbandonEditSound ==
  ASSUME Inv, NEW u \in User, AbandonEdit(u)
  PROVE  Inv'
<1>1. /\ edits' = [edits EXCEPT ![u] = NoEdit] /\ excused' = excused \union {u}
      /\ UNCHANGED <<acct, panel, worker, deletes, sync, billed, requests, overruled>>
  BY DEF AbandonEdit, Excuse
<1>2. /\ edits' \in [User -> [on : BOOLEAN, row : Account, call : Call]]
      /\ ~edits'[u].on /\ \A v \in User \ {u} : edits'[v] = edits[v]
  BY <1>1, NoEditType DEF Inv
<1>3. TypeOK'
  BY <1>1, <1>2 DEF Inv, TypeOK
<1>4. AccountsSound'
  BY <1>1, <1>2, RowsWritten DEF Inv
<1>5. UserSound(u)'
  BY <1>1 DEF UserSound
<1>6. \A v \in User \ {u} : Undisturbed(v)
  BY <1>1, <1>2 DEF Undisturbed
<1> QED
  BY <1>3, <1>4, <1>5, <1>6, OneUser DEF Inv

LEMMA StartDeleteSound ==
  ASSUME Inv, NEW u \in User, StartDelete(u)
  PROVE  Inv'
<1> DEFINE call == CallPanel(u, FALSE)
           delete == [on |-> TRUE, seen |-> acct[u].status, call |-> call]
<1>1. /\ Serve /\ deletes' = [deletes EXCEPT ![u] = delete] /\ Overlap(u)
      /\ UNCHANGED <<acct, panel, worker, edits, sync, billed, overruled>>
  BY DEF StartDelete
<1>2. call \in Call /\ ~call.enable /\ Carried(call, panel[u])
  BY CallPanelCarried DEF Inv
<1> HIDE DEF call
<1>3. /\ delete \in [on : BOOLEAN, seen : AccountStatus, call : Call]
      /\ delete.on /\ delete.call = call
  BY <1>2 DEF Inv, TypeOK, Account
<1> HIDE DEF delete
<1>4. /\ deletes' \in [User -> [on : BOOLEAN, seen : AccountStatus, call : Call]]
      /\ deletes'[u] = delete /\ \A v \in User \ {u} : deletes'[v] = deletes[v]
  BY <1>1, <1>3 DEF Inv, TypeOK
<1>5. excused \subseteq excused' /\ excused' \in SUBSET User /\ requests' \in 0 .. MaxRequests
  BY <1>1, Served DEF Overlap, Inv, TypeOK
<1>6. TypeOK'
  BY <1>1, <1>4, <1>5 DEF Inv, TypeOK
<1>7. AccountsSound'
  BY <1>1, RowsWritten DEF Inv
<1>8. UserSound(u)'
  <2>1. ASSUME u \notin excused'
        PROVE  UserSound(u)'
    <3>1. ~InFlight(u)
      BY <1>1, <2>1 DEF Overlap
    <3> QED
      BY <1>1, <1>2, <1>3, <1>4, <3>1
         DEF UserSound, Alone, WorkerSound, HandlersSound, InFlight, Loaded, Waiting
  <2> QED
    BY <2>1 DEF UserSound
<1>9. \A v \in User \ {u} : Undisturbed(v)
  BY <1>1, <1>4, <1>5 DEF Undisturbed
<1> QED
  BY <1>6, <1>7, <1>8, <1>9, OneUser DEF Inv

\* A deleted user has no access to lose.
LEMMA DeletedDead ==
  ASSUME NEW a \in Account, NEW seen \in AccountStatus
  PROVE  ShouldEnable(DeleteAccount(a, seen, Now)) = FALSE
<1> DEFINE noted == RecordSeenStatusChange(a, seen, "blocked", "admin", Now)
           b == [noted EXCEPT !.deleted = Now]
<1>1. noted \in Account
  BY Instants, RecordSeenType DEF AccountStatus, StatusChangeSource
<1> HIDE DEF noted
<1>2. b.deleted = Now
  BY <1>1 DEF Account
<1> QED
  BY <1>2, Instants DEF DeleteAccount, noted, ShouldEnable, Live, Never

LEMMA CommitDeleteSound ==
  ASSUME Inv, NEW u \in User, CommitDelete(u)
  PROVE  Inv'
<1> DEFINE row == DeleteAccount(acct[u], deletes[u].seen, Now)
<1>1. /\ deletes[u].on /\ deletes[u].call.left = {} /\ Failed(deletes[u].call) = {}
      /\ ~edits[u].on
      /\ acct' = [acct EXCEPT ![u] = row] /\ deletes' = [deletes EXCEPT ![u] = NoDelete]
      /\ UNCHANGED <<panel, worker, edits, sync, billed, requests, excused, overruled>>
  BY DEF CommitDelete, Locked
<1>2. /\ acct[u] \in Account /\ Consistent(acct[u], Now) /\ deletes[u].seen \in AccountStatus
      /\ deletes[u].call \in Call /\ panel[u] \in [Profile -> ProfileState]
  BY DEF Inv, TypeOK, AccountsSound
<1>3. row \in Account /\ Consistent(row, Now) /\ ShouldEnable(row) = FALSE
  BY <1>2, Instants, DeleteAccountConsistent, DeletedDead
<1> HIDE DEF row
<1>4. acct' \in [User -> Account] /\ acct'[u] = row /\ \A v \in User \ {u} : acct'[v] = acct[v]
  BY <1>1, <1>3 DEF Inv, TypeOK
<1>5. /\ deletes' \in [User -> [on : BOOLEAN, seen : AccountStatus, call : Call]]
      /\ ~deletes'[u].on /\ \A v \in User \ {u} : deletes'[v] = deletes[v]
  BY <1>1, NoDeleteType DEF Inv
<1>6. TypeOK'
  BY <1>1, <1>4, <1>5 DEF Inv, TypeOK
<1>7. AccountsSound'
  BY <1>1, <1>3, <1>4, RowsWritten DEF Inv
<1>8. UserSound(u)'
  <2>1. ASSUME u \notin excused \union overruled
        PROVE  UserSound(u)'
    <3>1. Alone(u) /\ HandlersSound(u)
      BY <2>1 DEF Inv, UsersSound, UserSound
    <3>2. ~Loaded(u) /\ u \notin sync.users
      BY <1>1, <3>1 DEF Alone, Waiting
    <3>3. Carried(deletes[u].call, panel[u]) /\ deletes[u].call.enable = ShouldEnable(row)
      BY <1>1, <1>2, <1>3, <3>1 DEF HandlersSound, Call
    <3>4. \A p \in Profile : deletes[u].call.failed[p] \in {"ok", "not_found"}
      BY <1>1 DEF Failed
    <3>5. Agrees(row, panel[u])
      BY <1>1, <1>2, <3>3, <3>4, CarriedAgrees
    <3> QED
      BY <1>1, <1>4, <1>5, <3>2, <3>5
         DEF UserSound, Alone, WorkerSound, HandlersSound, Loaded, Waiting, Follows
  <2> QED
    BY <1>1, <2>1 DEF UserSound
<1>9. \A v \in User \ {u} : Undisturbed(v)
  BY <1>1, <1>4, <1>5 DEF Undisturbed
<1> QED
  BY <1>6, <1>7, <1>8, <1>9, OneUser DEF Inv

LEMMA FailDeleteSound ==
  ASSUME Inv, NEW u \in User, FailDelete(u)
  PROVE  Inv'
<1>1. /\ deletes' = [deletes EXCEPT ![u] = NoDelete] /\ excused' = excused \union {u}
      /\ UNCHANGED <<acct, panel, worker, edits, sync, billed, requests, overruled>>
  BY DEF FailDelete, Excuse
<1>2. /\ deletes' \in [User -> [on : BOOLEAN, seen : AccountStatus, call : Call]]
      /\ ~deletes'[u].on /\ \A v \in User \ {u} : deletes'[v] = deletes[v]
  BY <1>1, NoDeleteType DEF Inv
<1>3. TypeOK'
  BY <1>1, <1>2 DEF Inv, TypeOK
<1>4. AccountsSound'
  BY <1>1, RowsWritten DEF Inv
<1>5. UserSound(u)'
  BY <1>1 DEF UserSound
<1>6. \A v \in User \ {u} : Undisturbed(v)
  BY <1>1, <1>2 DEF Undisturbed
<1> QED
  BY <1>3, <1>4, <1>5, <1>6, OneUser DEF Inv

-----------------------------------------------------------------------------
(* sync_paused_profiles *)

LEMMA SyncReadsSound ==
  ASSUME Inv, SyncReads
  PROVE  Inv'
<1> DEFINE paused == {u \in User : PausedBeforeToday(acct[u])}
<1>1. /\ sync' = [pc |-> "read", users |-> paused]
      /\ excused' = excused \union {u \in paused : InFlight(u)}
      /\ UNCHANGED <<acct, panel, worker, edits, deletes, billed, requests, overruled>>
  BY DEF SyncReads
<1>2. TypeOK'
  BY <1>1 DEF Inv, TypeOK
<1>3. AccountsSound'
  BY <1>1, RowsWritten DEF Inv
<1>4. ASSUME NEW u \in User
      PROVE  UserSound(u)'
  <2>1. ASSUME u \notin excused' \union overruled
        PROVE  UserSound(u)'
    <3>1. u \notin excused \union overruled /\ (u \in paused => ~InFlight(u))
      BY <1>1, <2>1
    <3>2. UserSound(u) /\ u # "nobody"
      BY VpnAssumption DEF Inv, UsersSound
    <3>3. u \in paused => Live(acct[u]) /\ acct[u].status = "paused"
      BY DEF PausedBeforeToday
    <3>4. sync'.users = paused
      BY <1>1
    <3> HIDE DEF paused
    <3> QED
      BY <1>1, <3>1, <3>2, <3>3, <3>4
         DEF UserSound, Alone, WorkerSound, HandlersSound, InFlight, Loaded, Waiting, Desired
  <2> QED
    BY <1>1, <2>1 DEF UserSound
<1> QED
  BY <1>2, <1>3, <1>4 DEF Inv, UsersSound

LEMMA SyncWritesSound ==
  ASSUME Inv, SyncWrites
  PROVE  Inv'
<1>1. PICK panelFails \in BOOLEAN :
        acct' = [u \in User |->
          IF u \in sync.users /\ (panelFails \/ \E p \in Profile : panel[u][p] = "on")
          THEN QueueVpnSync(acct[u], FALSE) ELSE acct[u]]
  BY DEF SyncWrites
<1>2. /\ sync' = [pc |-> "done", users |-> {}]
      /\ UNCHANGED <<panel, worker, edits, deletes, billed, requests, excused, overruled>>
  BY DEF SyncWrites
<1>3. ASSUME NEW u \in User
      PROVE  /\ acct'[u] \in Account /\ Consistent(acct'[u], Now)
             /\ acct'[u].status = acct[u].status /\ acct'[u].created = acct[u].created
             /\ acct'[u].deleted = acct[u].deleted
             /\ u \notin sync.users => acct'[u] = acct[u]
  <2>1. acct[u] \in Account /\ Consistent(acct[u], Now) /\ FALSE \in BOOLEAN
    BY DEF Inv, TypeOK, AccountsSound
  <2> DEFINE b == QueueVpnSync(acct[u], FALSE)
  <2>2. /\ b \in Account /\ Consistent(b, Now) /\ b.status = acct[u].status
        /\ b.created = acct[u].created /\ b.deleted = acct[u].deleted
    BY <2>1, Instants, QueueKeeps, QueueVpnSyncConsistent
  <2>3. acct'[u] = b \/ acct'[u] = acct[u]
    BY <1>1
  <2>4. u \notin sync.users => acct'[u] = acct[u]
    BY <1>1
  <2> HIDE DEF b
  <2> QED
    BY <2>1, <2>2, <2>3, <2>4
<1>4. acct' \in [User -> Account]
  <2>1. acct' = [u \in User |-> acct'[u]]
    BY <1>1
  <2> QED
    BY <1>3, <2>1
<1>5. TypeOK'
  BY <1>2, <1>4 DEF Inv, TypeOK
<1>6. AccountsSound'
  BY <1>2, <1>3, RowsWritten DEF Inv
<1>7. ASSUME NEW u \in User
      PROVE  UserSound(u)'
  <2>1. CASE u \notin sync.users
    <3>1. acct'[u] = acct[u] /\ UserSound(u)
      BY <1>3, <2>1 DEF Inv, UsersSound
    <3> QED
      BY <1>2, <2>1, <3>1
         DEF UserSound, Alone, WorkerSound, HandlersSound, Loaded, Waiting, Desired
  <2>2. CASE u \in sync.users /\ u \notin excused \union overruled
    <3>1. Alone(u) /\ HandlersSound(u)
      BY <2>2 DEF Inv, UsersSound, UserSound
    <3>2. ~Loaded(u) /\ ~edits[u].on /\ ~deletes[u].on
          /\ Live(acct[u]) /\ acct[u].status = "paused"
      BY <2>2, <3>1 DEF Alone, Waiting, HandlersSound
    <3>3. Live(acct'[u]) /\ acct'[u].status = "paused"
      BY <1>3, <3>2 DEF Live, Exists
    <3>4. Follows(acct'[u], panel'[u])
      BY <3>3, FollowsPaused
    <3> QED
      BY <1>2, <3>2, <3>4
         DEF UserSound, Alone, WorkerSound, HandlersSound, Loaded, Waiting
  <2>3. CASE u \in excused \union overruled
    BY <1>2, <2>3 DEF UserSound
  <2> QED
    BY <2>1, <2>2, <2>3
<1> QED
  BY <1>5, <1>6, <1>7 DEF Inv, UsersSound

-----------------------------------------------------------------------------
(* The invariant *)

LEMMA StepSound ==
  ASSUME Inv, [Next]_vars
  PROVE  Inv'
<1>1. CASE UNCHANGED vars
  <2>1. TypeOK'
    BY <1>1 DEF vars, Inv, TypeOK
  <2>2. AccountsSound'
    BY <1>1, RowsWritten DEF vars, Inv
  <2>3. \A u \in User : Undisturbed(u)
    BY <1>1 DEF vars, Undisturbed
  <2>4. UsersSound'
    BY <2>3, UndisturbedSound DEF Inv, UsersSound
  <2> QED
    BY <2>1, <2>2, <2>4 DEF Inv
<1>2. CASE WorkerLoad \/ SyncReads \/ SyncWrites
  BY <1>2, WorkerLoadSound, SyncReadsSound, SyncWritesSound
<1>3. ASSUME NEW u \in User, Worker(u)
      PROVE  Inv'
  BY <1>3, WorkerDropsJobSound, WorkerCallsSound, WorkerSucceedsSound, WorkerFailsSound DEF Worker
<1>4. ASSUME NEW u \in User, Panel(u)
      PROVE  Inv'
  <2>1. PICK p \in Profile :
          \/ RemoveProfile(u, p)
          \/ \E outcome \in {"ok", "not_found", "unavailable", "lost_answer"} :
               AnswerWorker(u, p, outcome) \/ AnswerEdit(u, p, outcome) \/ AnswerDelete(u, p, outcome)
    BY <1>4 DEF Panel
  <2> QED
    BY <2>1, RemoveProfileSound, AnswerWorkerSound, AnswerEditSound, AnswerDeleteSound
<1>5. ASSUME NEW u \in User, Request(u)
      PROVE  Inv'
  BY <1>5, TopUpSound, ActivateSound, BillSound, StartEditSound, CommitEditSound,
     AbandonEditSound, StartDeleteSound, CommitDeleteSound, FailDeleteSound DEF Request
<1> QED
  BY <1>1, <1>2, <1>3, <1>4, <1>5 DEF Next

\* The jobs, the calls under way and the panel together always know what each
\* user should get: the inductive invariant of the worker and the handlers.
THEOREM Invariance == Spec => []Inv
<1>1. Init => Inv
  BY InitSound
<1>2. Inv /\ [Next]_vars => Inv'
  BY StepSound
<1> QED
  BY <1>1, <1>2, PTL DEF Spec

\* Accounts, profiles, jobs and calls keep their types.
THEOREM TypeCorrect == Spec => []TypeOK
<1>1. Inv => TypeOK
  BY DEF Inv
<1> QED
  BY <1>1, Invariance, PTL

\* When nothing is pending for a user the panel agrees with the account
\* (process_vpn_sync_jobs, set_matching_enabled, update_user, delete_user), however
\* the worker's retries, lost answers and removed profiles went.
THEOREM PanelFollows == Spec => []QuietAgrees
<1>1. Inv => QuietAgrees
  <2>1. ASSUME Inv, NEW u \in User, Quiet(u), u \notin excused \union overruled
        PROVE  Agrees(acct[u], panel[u])
    <3>1. edits[u].on \/ deletes[u].on \/ Follows(acct[u], panel[u])
      BY <2>1 DEF Inv, UsersSound, UserSound
    <3> QED
      BY <2>1, <3>1 DEF Quiet, InFlight, Waiting, Follows
  <2> QED
    BY <2>1 DEF QuietAgrees
<1> QED
  BY <1>1, Invariance, PTL
=============================================================================

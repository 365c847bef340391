--------------------------- MODULE BillingProofs ----------------------------
(***************************************************************************)
(* Theorems of Billing, for any users, plans, days and amounts: its states *)
(* are well typed, the status of every account is the one its history ends *)
(* with, and nobody who can pay stays blocked by billing.                  *)
(***************************************************************************)
EXTENDS Billing, AccountsProofs, TariffsProofs, FiniteSetTheorems

-----------------------------------------------------------------------------
(* Amounts *)

LEMMA RoundHalfUpType ==
  ASSUME NEW n \in Nat, NEW m \in Nat \ {0}
  PROVE  RoundHalfUp(n, m) \in Nat
<1> DEFINE k == 2 * n + m
           l == 2 * m
<1>1. k \in Nat /\ l \in Nat /\ l > 0
  OBVIOUS
<1> HIDE DEF k, l
<1>2. k \div l \in Nat
  BY <1>1
<1> QED
  BY <1>2 DEF RoundHalfUp, k, l

\* The share of a day, when anybody is active, and the extra charge are amounts.
LEMMA AmountTypes ==
  ASSUME NEW monthly \in Nat, NEW days \in Nat \ {0}, NEW users \in Nat \ {0},
         NEW count \in Int
  PROVE  /\ DailyShare(monthly, days, users) \in Nat
         /\ AdditionalProfilesCharge(DailyShare(monthly, days, users), count) \in Nat
<1> DEFINE daily == DailyShare(monthly, days, users)
           half == RoundHalfUp(daily, 2)
           more == AdditionalProfiles(count)
<1>1. days * users \in Nat \ {0}
  OBVIOUS
<1>2. daily \in Nat
  BY <1>1, RoundHalfUpType DEF DailyShare
<1> HIDE DEF daily
<1>3. half \in Nat
  BY <1>2, RoundHalfUpType
<1>4. more \in Nat
  BY DEF AdditionalProfiles
<1> HIDE DEF half, more
<1>5. half * more \in Nat
  BY <1>3, <1>4
<1> QED
  BY <1>2, <1>5 DEF AdditionalProfilesCharge, daily, half, more

LEMMA ProfileCountType ==
  ASSUME NEW taken \in [Day -> Int], NEW day \in Day
  PROVE  ProfileCountForDate(taken, day) \in Int
<1> DEFINE known == {d \in Day : d <= day /\ taken[d] # NoCount}
           last == {d \in known : \A e \in known : e <= d}
           c == CHOOSE d \in last : TRUE
<1>1. ProfileCountForDate(taken, day) = IF last = {} THEN 0 ELSE taken[c]
  BY DEF ProfileCountForDate
<1>2. last # {} => c \in Day
  OBVIOUS
<1> HIDE DEF last, c
<1> QED
  BY <1>1, <1>2

LEMMA ActiveUsersCount ==
  Cardinality(ActiveUsers) \in Nat /\ (ActiveUsers # {} => Cardinality(ActiveUsers) # 0)
<1>1. ActiveUsers \in SUBSET User
  BY DEF ActiveUsers
<1>2. IsFiniteSet(ActiveUsers)
  BY <1>1, FS_Subset, BillingAssumption
<1> QED
  BY <1>2, FS_CardinalityType, FS_EmptySet

LEMMA SomeUsersCount ==
  ASSUME NEW S \in SUBSET User
  PROVE  Cardinality(S) \in Nat
  BY FS_Subset, FS_CardinalityType, BillingAssumption

-----------------------------------------------------------------------------
(* The inductive invariant, and the parts of a step *)

Inv == TypeOK /\ AccountsConsistent

LEMMA NowTypes ==
  ASSUME TypeOK
  PROVE  today \in Nat /\ Now \in Nat /\ Now \in Int /\ Now = 2 * today + 1 /\ Day \subseteq Nat
  BY BillingAssumption DEF TypeOK, Now, During, Day

LEMMA LoopTypes ==
  ASSUME TypeOK
  PROVE  /\ loop \in Loop /\ loop.target \in Nat /\ loop.cursor \in Nat
         /\ loop.wake \in Int /\ loop.notices \in Notices /\ loop.live \in BOOLEAN
         /\ loop.pc = "billing" => loop.cursor \in Day
<1>1. /\ loop \in Loop /\ loop.target \in Day /\ loop.cursor \in 0 .. loop.target + 1
      /\ loop.pc = "billing" => loop.cursor <= loop.target
  BY DEF TypeOK
<1> QED
  BY <1>1, BillingAssumption DEF Loop, Day

LEMMA NoNoticesType == NoNotices \in Notices
  BY DEF NoNotices, Notices

\* What a step that leaves the accounts alone has to show of the loop.
GoodLoop(l, day) ==
  /\ l \in Loop /\ l.target \in Day /\ l.cursor \in 0 .. l.target + 1
  /\ l.pc = "billing" => l.cursor <= l.target
  /\ l.target <= day

LEMMA GoodLoopNow == ASSUME Inv PROVE GoodLoop(loop, today)
  BY DEF Inv, TypeOK, AccountsConsistent, GoodLoop

\* The loop goes on to the next date.
LEMMA NextDateGood ==
  ASSUME Inv, loop.pc = "billing", NEW notices \in Notices
  PROVE  GoodLoop(NextDate(notices), today)
<1> DEFINE pc == IF loop.cursor = loop.target THEN "notifying" ELSE "billing"
           l == [loop EXCEPT !.cursor = @ + 1, !.notices = notices, !.pc = pc]
<1>1. /\ loop \in Loop /\ loop.target \in Day /\ loop.target \in Nat
      /\ loop.cursor \in Nat /\ loop.cursor <= loop.target /\ loop.target <= today
  BY LoopTypes DEF Inv, TypeOK, AccountsConsistent
<1>2. pc \in {"waiting", "billing", "notifying", "syncing"} /\ loop.cursor + 1 \in Int
  BY <1>1
<1>3. /\ l \in Loop /\ l.target = loop.target /\ l.cursor = loop.cursor + 1 /\ l.pc = pc
  <2> HIDE DEF pc
  <2> QED
    BY <1>1, <1>2 DEF Loop
<1>4. l.pc = "billing" => l.cursor <= l.target
  BY <1>1, <1>3
<1> HIDE DEF l
<1> QED
  BY <1>1, <1>3, <1>4 DEF GoodLoop, NextDate, l

\* The loop waits after a failure or a restart.
LEMMA WaitingGood ==
  ASSUME Inv
  PROVE  /\ GoodLoop([loop EXCEPT !.pc = "waiting", !.notices = NoNotices], today)
         /\ GoodLoop([loop EXCEPT !.pc = "syncing", !.notices = NoNotices], today)
         /\ \A wake \in Int :
              /\ GoodLoop([loop EXCEPT !.pc = "waiting", !.wake = wake, !.notices = NoNotices],
                          today)
              /\ GoodLoop([loop EXCEPT !.pc = "waiting", !.wake = wake], today)
<1>1. GoodLoop(loop, today)
  BY GoodLoopNow
<1>2. NoNotices \in Notices
  BY NoNoticesType
<1> QED
  BY <1>1, <1>2 DEF GoodLoop, Loop

\* A step of the loop that changes no account.
LEMMA LoopStep ==
  ASSUME Inv, GoodLoop(loop', today), runs' \in [Day -> Run],
         deletes' \in [User -> AccountStatus \union {NotDeleting}], faults' \in Nat,
         UNCHANGED <<today, acct, plans, charges, snapshots, requests, ghosts>>
  PROVE  Inv'
<1>1. TypeOK'
  BY DEF Inv, TypeOK, GoodLoop, ghosts
<1>2. AccountsConsistent'
  BY DEF Inv, AccountsConsistent, GoodLoop, Now
<1> QED
  BY <1>1, <1>2 DEF Inv

LEMMA RunTypes ==
  ASSUME TypeOK, loop.pc = "billing"
  PROVE  /\ [runs EXCEPT ![loop.cursor] = [NoRun EXCEPT !.status = "completed"]] \in [Day -> Run]
         /\ [runs EXCEPT ![loop.cursor].status = "failed"] \in [Day -> Run]
<1>1. runs \in [Day -> Run] /\ loop.cursor \in Day
  BY LoopTypes DEF TypeOK
<1>2. [NoRun EXCEPT !.status = "completed"] \in Run
  BY DEF NoRun, Run, NoAmount
<1>3. [runs[loop.cursor] EXCEPT !.status = "failed"] \in Run
  <2>1. runs[loop.cursor] \in Run
    BY <1>1
  <2> QED
    BY <2>1 DEF Run
<1> QED
  BY <1>1, <1>2, <1>3

\* A rollback loses the date's work and no account.
LEMMA FailedDateKeeps ==
  ASSUME Inv, loop.pc = "billing", FailedDate, faults' \in Nat
  PROVE  Inv'
<1>1. GoodLoop(loop', today) /\ runs' \in [Day -> Run]
  BY WaitingGood, RunTypes DEF FailedDate, Inv
<1>2. UNCHANGED <<today, acct, plans, charges, snapshots, requests, ghosts, deletes>>
  BY DEF FailedDate
<1>3. deletes' \in [User -> AccountStatus \union {NotDeleting}]
  BY <1>2 DEF Inv, TypeOK
<1> QED
  BY <1>1, <1>2, <1>3, LoopStep

\* The steps of the loop between the charges.
LEMMA OtherLoopStepsKeep ==
  ASSUME Inv, \/ StartCatchUp \/ SkipBilledDate \/ CompleteWithoutPlan \/ ProviderFails
              \/ DuplicateCharge \/ DatabaseError \/ SendNotices \/ Crash
  PROVE  Inv'
<1>1. /\ runs \in [Day -> Run] /\ faults \in Nat /\ today \in Int
      /\ deletes \in [User -> AccountStatus \union {NotDeleting}]
  BY NowTypes DEF Inv, TypeOK
<1>2. CASE StartCatchUp
  <2> DEFINE plan == PlanForDate(plans, today)
             cursor == IF plan = NoPlan THEN today ELSE plans[plan].start
             live == plan # NoPlan
             l == [loop EXCEPT !.pc = "billing", !.target = today, !.cursor = cursor,
                               !.live = live, !.notices = NoNotices]
  <2>1. cursor \in Nat /\ cursor \in Int /\ today \in Int /\ cursor <= today
    <3>1. IsPlanTable(plans) /\ today \in Int /\ today \in Nat
      BY NowTypes DEF Inv, TypeOK
    <3>2. plan # NoPlan => plans[plan].start \in Nat /\ plans[plan].start <= today
      BY <3>1, PlanForDateCovers
    <3> QED
      BY <3>1, <3>2
  <2>2. loop \in Loop /\ today \in Day /\ today \in Nat /\ NoNotices \in Notices
    BY NowTypes, NoNoticesType DEF Inv, TypeOK
  <2>3. live \in BOOLEAN
    OBVIOUS
  <2>5. loop' = l
    BY <1>2 DEF StartCatchUp
  <2> HIDE DEF plan, cursor, live
  <2>4. GoodLoop(l, today)
    <3>1. /\ l \in Loop /\ l.pc = "billing" /\ l.target = today /\ l.cursor = cursor
      BY <2>1, <2>2, <2>3 DEF Loop
    <3> HIDE DEF l
    <3> QED
      BY <2>1, <2>2, <3>1 DEF GoodLoop
  <2>6. UNCHANGED <<today, acct, plans, runs, charges, snapshots, deletes, requests, faults, ghosts>>
    BY <1>2 DEF StartCatchUp, database
  <2> QED
    BY <1>1, <2>4, <2>5, <2>6, LoopStep
<1>3. CASE SkipBilledDate
  <2>1. GoodLoop(loop', today)
    BY <1>3, NextDateGood, LoopTypes DEF SkipBilledDate, Inv
  <2>2. UNCHANGED <<today, acct, plans, runs, charges, snapshots, deletes, requests, faults, ghosts>>
    BY <1>3 DEF SkipBilledDate, database
  <2> QED
    BY <1>1, <2>1, <2>2, LoopStep
<1>4. CASE CompleteWithoutPlan
  <2>1. GoodLoop(loop', today) /\ runs' \in [Day -> Run]
    BY <1>4, NextDateGood, LoopTypes, RunTypes DEF CompleteWithoutPlan, Inv
  <2>2. UNCHANGED <<today, acct, plans, charges, snapshots, deletes, requests, faults, ghosts>>
    BY <1>4 DEF CompleteWithoutPlan
  <2> QED
    BY <1>1, <2>1, <2>2, LoopStep
<1>5. CASE ProviderFails
  BY <1>1, <1>5, FailedDateKeeps DEF ProviderFails, MayCharge
<1>6. CASE DuplicateCharge
  BY <1>1, <1>6, FailedDateKeeps DEF DuplicateCharge, MayCharge
<1>7. CASE DatabaseError
  <2>1. faults' \in Nat
    BY <1>1, <1>7 DEF DatabaseError
  <2> QED
    BY <1>7, <2>1, FailedDateKeeps DEF DatabaseError
<1>8. CASE SendNotices
  <2>1. GoodLoop(loop', today)
    BY <1>8, WaitingGood, <1>1 DEF SendNotices
  <2>2. UNCHANGED <<today, acct, plans, runs, charges, snapshots, deletes, requests, faults, ghosts>>
    BY <1>8 DEF SendNotices, database
  <2> QED
    BY <1>1, <2>1, <2>2, LoopStep
<1>9. CASE Crash
  <2>1. GoodLoop(loop', today)
    BY <1>1, <1>9, WaitingGood DEF Crash
  <2>2. UNCHANGED <<today, acct, plans, runs, charges, snapshots, requests, ghosts>>
    BY <1>9 DEF Crash, database
  <2>3. faults' \in Nat /\ deletes' \in [User -> AccountStatus \union {NotDeleting}]
    BY <1>1, <1>9 DEF Crash
  <2> QED
    BY <1>1, <2>1, <2>2, <2>3, LoopStep
<1> QED
  BY <1>2, <1>3, <1>4, <1>5, <1>6, <1>7, <1>8, <1>9

-----------------------------------------------------------------------------
(* The charges *)

\* The plan that is charged started before today; the baselines it brings keep
\* every account consistent.
LEMMA ChargedDate ==
  ASSUME Inv, MayCharge
  PROVE  /\ loop.cursor \in Day /\ Midnight(loop.cursor) \in Int
         /\ Midnight(loop.cursor) <= Now
         /\ PlanNow \in PlanId /\ plans[PlanNow].monthly \in Nat
         /\ \A u \in User : WithBaselines[u] \in Account /\ Consistent(WithBaselines[u], Now)
<1>1. /\ loop.cursor \in Day /\ loop.cursor \in Nat /\ loop.cursor \in Int
      /\ loop.cursor <= today /\ today \in Nat /\ Now = 2 * today + 1 /\ Now \in Int
  BY LoopTypes, NowTypes DEF Inv, TypeOK, AccountsConsistent, MayCharge
<1>2. IsPlanTable(plans) /\ PlanNow # NoPlan
  BY DEF Inv, TypeOK, MayCharge
<1>3. /\ PlanNow \in PlanId /\ plans[PlanNow] \in Plan
      /\ plans[PlanNow].start \in Nat /\ plans[PlanNow].start <= loop.cursor
  BY <1>1, <1>2, PlanForDateCovers DEF PlanNow
<1> DEFINE start == plans[PlanNow].start
<1>4. start \in Nat /\ Midnight(start) <= Now
  BY <1>1, <1>3 DEF Midnight
<1>5. plans[PlanNow].monthly \in Nat
  BY <1>3 DEF Plan
<1> HIDE DEF start
<1>6. ASSUME NEW u \in User
      PROVE  WithBaselines[u] \in Account /\ Consistent(WithBaselines[u], Now)
  <2>1. acct[u] \in Account /\ Consistent(acct[u], Now)
    BY DEF Inv, TypeOK, AccountsConsistent
  <2>2. /\ EnsureStatusBaseline(acct[u], start) \in Account
        /\ Consistent(EnsureStatusBaseline(acct[u], start), Now)
    BY <1>1, <1>4, <2>1, BaselineConsistent
  <2> QED
    BY <2>2 DEF WithBaselines, start
<1>7. Midnight(loop.cursor) \in Int /\ Midnight(loop.cursor) <= Now
  BY <1>1 DEF Midnight
<1> QED
  BY <1>1, <1>3, <1>5, <1>6, <1>7

LEMMA SnapshotsAfterType ==
  ASSUME Inv, loop.cursor \in Day, NEW taken \in SnapshotsAfter
  PROVE  taken \in [User -> [Day -> Int]]
<1>1. snapshots \in [User -> [Day -> Int]]
  BY DEF Inv, TypeOK
<1>2. CASE AsksProvider
  <2>1. PICK counts \in [User -> ProfileCounts] : taken = Captured(counts)
    BY <1>2 DEF SnapshotsAfter
  <2>2. \A u \in User : counts[u] \in Int /\ snapshots[u] \in [Day -> Int]
    <3>1. \A n \in ProfileCounts : n \in Int
      BY BillingAssumption
    <3> QED
      BY <1>1, <3>1
  <2>3. \A u \in User : [snapshots[u] EXCEPT ![loop.cursor] = counts[u]] \in [Day -> Int]
    BY <2>2
  <2>4. \A u \in User : (IF Live(acct[u]) THEN [snapshots[u] EXCEPT ![loop.cursor] = counts[u]]
                         ELSE snapshots[u]) \in [Day -> Int]
    BY <2>2, <2>3
  <2>5. Captured(counts) \in [User -> [Day -> Int]]
    BY <2>4 DEF Captured
  <2> QED
    BY <2>1, <2>5
<1>3. CASE ~AsksProvider
  BY <1>1, <1>3 DEF SnapshotsAfter
<1> QED
  BY <1>2, <1>3

\* What an active user is charged.
LEMMA ChargedAmounts ==
  ASSUME Inv, MayCharge, NEW taken \in SnapshotsAfter, NEW u \in ActiveUsers
  PROVE  /\ DailyAmount \in Nat /\ ExtraCharge(taken[u]) \in Nat
         /\ DailyAmount + ExtraCharge(taken[u]) \in Nat
<1> DEFINE users == Cardinality(ActiveUsers)
           monthly == plans[PlanNow].monthly
           days == DaysInMonth[loop.cursor]
           count == ProfileCountForDate(taken[u], loop.cursor)
<1>1. loop.cursor \in Day /\ monthly \in Nat
  BY ChargedDate
<1>2. days \in Nat \ {0}
  BY <1>1, BillingAssumption
<1>3. users \in Nat \ {0}
  BY ActiveUsersCount
<1>4. u \in User
  BY DEF ActiveUsers
<1>5. count \in Int
  BY <1>1, <1>4, SnapshotsAfterType, ProfileCountType
<1> HIDE DEF users, monthly, days, count
<1>6. /\ DailyShare(monthly, days, users) \in Nat
      /\ AdditionalProfilesCharge(DailyShare(monthly, days, users), count) \in Nat
  BY <1>1, <1>2, <1>3, <1>5, AmountTypes
<1>7. DailyAmount \in Nat /\ ExtraCharge(taken[u]) \in Nat
  BY <1>6 DEF DailyAmount, ExtraCharge, users, monthly, days, count
<1> QED
  BY <1>7

LEMMA ChargeDateKeeps ==
  ASSUME Inv, ChargeDate
  PROVE  Inv'
<1>1. MayCharge /\ loop.pc = "billing"
  BY DEF ChargeDate, MayCharge
<1> DEFINE day == loop.cursor
           cutoff == Midnight(day)
<1>2. /\ day \in Day /\ cutoff \in Int /\ cutoff <= Now /\ PlanNow \in PlanId
      /\ \A u \in User : WithBaselines[u] \in Account /\ Consistent(WithBaselines[u], Now)
  BY <1>1, ChargedDate
<1>3. PICK taken \in SnapshotsAfter :
        LET extra    == [u \in User |-> ExtraCharge(taken[u])]
            profiles == [u \in User |-> AdditionalProfiles(ProfileCountForDate(taken[u], day))]
            after    == [u \in User |->
                           IF u \in ActiveUsers
                           THEN ChargeAccount(WithBaselines[u], DailyAmount + extra[u],
                                              Midnight(day))
                           ELSE WithBaselines[u]]
        IN /\ snapshots' = taken
           /\ acct' = after
           /\ charges' = [u \in User |->
                IF u \in ActiveUsers
                THEN [charges[u] EXCEPT ![day] =
                        [base |-> DailyAmount,
                         extra |-> IF profiles[u] > 0 THEN extra[u] ELSE NoAmount]]
                ELSE charges[u]]
           /\ runs' = [runs EXCEPT ![day] =
                [status |-> "completed", plan |-> PlanNow,
                 active |-> Cardinality(ActiveUsers),
                 charged |-> Cardinality(ActiveUsers),
                 blocked |-> Cardinality({u \in ActiveUsers : OutOfMoney(after[u])}),
                 daily |-> IF ActiveUsers = {} THEN NoAmount ELSE DailyAmount]]
           /\ loop' = NextDate([u \in User |->
                IF u \in ActiveUsers
                THEN Merge(loop.notices[u],
                           NoticeKind(u, acct[u], after[u], DailyAmount + extra[u]))
                ELSE loop.notices[u]])
  BY DEF ChargeDate
<1>4. /\ taken \in [User -> [Day -> Int]]
      /\ \A u \in ActiveUsers : /\ DailyAmount \in Nat /\ ExtraCharge(taken[u]) \in Nat
                                /\ DailyAmount + ExtraCharge(taken[u]) \in Nat
  BY <1>1, <1>2, SnapshotsAfterType, ChargedAmounts
<1>5. UNCHANGED <<today, plans, deletes, requests, faults, ghosts>>
  BY DEF ChargeDate
<1>6. ActiveUsers \subseteq User /\ Now \in Int
  BY NowTypes DEF ActiveUsers, Inv
<1> HIDE DEF day, cutoff
<1>7. ASSUME NEW u \in User
      PROVE  acct'[u] \in Account /\ Consistent(acct'[u], Now)
  <2>1. CASE u \in ActiveUsers
    <3> DEFINE total == DailyAmount + ExtraCharge(taken[u])
    <3>1. acct'[u] = ChargeAccount(WithBaselines[u], total, cutoff)
      BY <1>3, <2>1 DEF cutoff
    <3>2. total \in Nat
      BY <1>4, <2>1
    <3> HIDE DEF total
    <3> QED
      BY <1>2, <1>6, <3>1, <3>2, ChargeAccountConsistent
  <2>2. CASE u \notin ActiveUsers
    BY <1>2, <1>3, <2>2
  <2> QED
    BY <2>1, <2>2
<1>8. acct' \in [User -> Account]
  <2>1. DOMAIN acct' = User /\ acct' = [u \in User |-> acct'[u]]
    BY <1>3
  <2> QED
    BY <1>7, <2>1
<1>9. charges' \in [User -> [Day -> Charge]]
  <2> DEFINE row(u) == [base |-> DailyAmount,
                        extra |-> IF AdditionalProfiles(ProfileCountForDate(taken[u], day)) > 0
                                  THEN ExtraCharge(taken[u]) ELSE NoAmount]
  <2>1. charges \in [User -> [Day -> Charge]]
    BY DEF Inv, TypeOK
  <2>2. \A u \in ActiveUsers : row(u) \in Charge
    BY <1>4 DEF Charge, NoAmount
  <2>3. charges' = [u \in User |-> IF u \in ActiveUsers
                                  THEN [charges[u] EXCEPT ![day] = row(u)] ELSE charges[u]]
    BY <1>3
  <2> HIDE DEF row
  <2>4. \A u \in ActiveUsers : [charges[u] EXCEPT ![day] = row(u)] \in [Day -> Charge]
    BY <1>2, <1>6, <2>1, <2>2
  <2> QED
    BY <2>1, <2>3, <2>4
<1>10. runs' \in [Day -> Run]
  <2>1. PICK row : /\ runs' = [runs EXCEPT ![day] = row] /\ row \in Run
    <3> DEFINE blocked == {u \in ActiveUsers : OutOfMoney(acct'[u])}
               daily == IF ActiveUsers = {} THEN NoAmount ELSE DailyAmount
               row == [status |-> "completed", plan |-> PlanNow,
                       active |-> Cardinality(ActiveUsers),
                       charged |-> Cardinality(ActiveUsers),
                       blocked |-> Cardinality(blocked), daily |-> daily]
    <3>1. runs' = [runs EXCEPT ![day] = row]
      BY <1>3
    <3>2. Cardinality(ActiveUsers) \in Nat /\ Cardinality(blocked) \in Nat
      <4>1. blocked \in SUBSET User
        BY <1>6
      <4> QED
        BY <4>1, ActiveUsersCount, SomeUsersCount
    <3>3. daily \in Int
      BY <1>4 DEF NoAmount
    <3> HIDE DEF blocked, daily
    <3>4. row \in Run
      BY <1>2, <3>2, <3>3 DEF Run
    <3> QED
      BY <3>1, <3>4
  <2> QED
    BY <1>2, <2>1 DEF Inv, TypeOK
<1>11. GoodLoop(loop', today)
  <2>1. loop.notices \in Notices
    BY LoopTypes DEF Inv
  <2>2. \A u \in User, n \in 0 .. 3 : \A b, c, t : Merge(n, NoticeKind(u, b, c, t)) \in 0 .. 3
    BY DEF Merge, NoticeKind, Blocked, LastDay, NegativeBalance
  <2>3. PICK notices \in Notices : loop' = NextDate(notices)
    <3> DEFINE total(u) == DailyAmount + ExtraCharge(taken[u])
               notices == [u \in User |->
                 IF u \in ActiveUsers
                 THEN Merge(loop.notices[u], NoticeKind(u, acct[u], acct'[u], total(u)))
                 ELSE loop.notices[u]]
    <3>1. loop' = NextDate(notices)
      BY <1>3, <1>6
    <3> HIDE DEF total
    <3>2. notices \in Notices
      BY <2>1, <2>2 DEF Notices
    <3> HIDE DEF notices
    <3> QED
      BY <3>1, <3>2
  <2> QED
    BY <1>1, <2>3, NextDateGood
<1>12. TypeOK'
  <2>1. snapshots' \in [User -> [Day -> Int]]
    BY <1>3, <1>4
  <2> QED
    BY <1>5, <1>8, <1>9, <1>10, <1>11, <2>1 DEF Inv, TypeOK, GoodLoop, ghosts
<1>13. AccountsConsistent'
  BY <1>5, <1>7, <1>11 DEF AccountsConsistent, GoodLoop, Now
<1> QED
  BY <1>12, <1>13 DEF Inv

LEMMA SyncPausedProfilesKeeps ==
  ASSUME Inv, SyncPausedProfiles
  PROVE  Inv'
<1>1. PICK queued \in SUBSET {u \in User : PausedBeforeToday(acct[u])} :
        acct' = [u \in User |-> IF u \in queued THEN QueueVpnSync(acct[u], FALSE) ELSE acct[u]]
  BY DEF SyncPausedProfiles
<1>2. /\ loop' = [loop EXCEPT !.pc = "waiting", !.wake = today + 1]
      /\ UNCHANGED <<today, plans, runs, charges, snapshots, deletes, requests, faults, ghosts>>
  BY DEF SyncPausedProfiles
<1>3. Now \in Int /\ today + 1 \in Int /\ FALSE \in BOOLEAN
  BY NowTypes DEF Inv
<1>4. \A u \in User : acct'[u] \in Account /\ Consistent(acct'[u], Now)
  <2>1. \A u \in User : acct[u] \in Account /\ Consistent(acct[u], Now)
    BY DEF Inv, TypeOK, AccountsConsistent
  <2> QED
    BY <1>1, <1>3, <2>1, QueueVpnSyncConsistent
<1>5. acct' \in [User -> Account]
  <2>1. acct' = [u \in User |-> acct'[u]]
    BY <1>1
  <2> QED
    BY <1>4, <2>1
<1>6. GoodLoop(loop', today)
  BY <1>2, <1>3, WaitingGood
<1>7. TypeOK'
  BY <1>2, <1>5, <1>6 DEF Inv, TypeOK, GoodLoop, ghosts
<1>8. AccountsConsistent'
  BY <1>2, <1>4, <1>6 DEF AccountsConsistent, GoodLoop, Now
<1> QED
  BY <1>7, <1>8 DEF Inv

-----------------------------------------------------------------------------
(* Midnight and the requests *)

LEMMA NextDayKeeps ==
  ASSUME Inv, NextDay
  PROVE  Inv'
<1>1. /\ today' = today + 1 /\ today < MaxDay /\ today \in Nat /\ today' \in Day /\ MaxDay \in Nat
      /\ Now \in Int /\ Now' \in Int /\ Now <= Now'
  BY NowTypes, BillingAssumption DEF NextDay, Inv, Now, During, Day
<1>2. UNCHANGED <<acct, plans, runs, charges, snapshots, loop, deletes, requests, faults, credited>>
  BY DEF NextDay, database
<1>3. activeAt' \in [Day -> SUBSET User]
  <2>1. activeAt \in [Day -> SUBSET User]
    BY DEF Inv, TypeOK
  <2> QED
    BY <1>1, <2>1 DEF NextDay
<1>4. TypeOK'
  BY <1>1, <1>2, <1>3 DEF Inv, TypeOK
<1>5. \A u \in User : Consistent(acct[u], Now')
  <2>1. \A u \in User : acct[u] \in Account /\ Consistent(acct[u], Now)
    BY DEF Inv, TypeOK, AccountsConsistent
  <2> QED
    BY <1>1, <2>1, ConsistentLater
<1>6. loop'.target <= today'
  BY <1>1, <1>2, LoopTypes DEF Inv, AccountsConsistent
<1>7. AccountsConsistent'
  BY <1>2, <1>5, <1>6 DEF AccountsConsistent
<1> QED
  BY <1>4, <1>7 DEF Inv

\* A request that stores a consistent row.
LEMMA StoreKeeps ==
  ASSUME Inv, NEW u \in User, NEW row \in Account, Consistent(row, Now), Store(u, row),
         requests' \in Nat, deletes' \in [User -> AccountStatus \union {NotDeleting}]
  PROVE  Inv'
<1>1. /\ acct' = [acct EXCEPT ![u] = row]
      /\ credited' = [credited EXCEPT ![u] = @ + row.balance - acct[u].balance]
      /\ UNCHANGED <<today, plans, runs, charges, snapshots, loop, faults, activeAt>>
  BY DEF Store
<1>2. acct \in [User -> Account] /\ credited \in [User -> Int]
  BY DEF Inv, TypeOK
<1>3. acct' \in [User -> Account]
  BY <1>1, <1>2
<1>4. credited' \in [User -> Int]
  <2>1. row.balance \in Int /\ acct[u].balance \in Int /\ credited[u] \in Int
    BY <1>2 DEF Account
  <2>2. credited[u] + row.balance - acct[u].balance \in Int
    BY <2>1
  <2> QED
    BY <1>1, <1>2, <2>2
<1>5. TypeOK'
  BY <1>1, <1>3, <1>4 DEF Inv, TypeOK
<1>6. AccountsConsistent'
  BY <1>1, <1>2 DEF Inv, AccountsConsistent, Now
<1> QED
  BY <1>5, <1>6 DEF Inv

\* A step that stores no account and moves no loop.
LEMMA QuietRequest ==
  ASSUME Inv, requests' \in Nat, deletes' \in [User -> AccountStatus \union {NotDeleting}],
         IsPlanTable(plans'),
         UNCHANGED <<today, acct, runs, charges, snapshots, loop, faults, ghosts>>
  PROVE  Inv'
<1>1. TypeOK'
  BY DEF Inv, TypeOK, ghosts
<1>2. AccountsConsistent'
  BY DEF Inv, AccountsConsistent, Now
<1> QED
  BY <1>1, <1>2 DEF Inv

LEMMA UserRequestKeeps ==
  ASSUME Inv, NEW u \in User, UserRequest(u)
  PROVE  Inv'
<1>1. /\ acct[u] \in Account /\ Consistent(acct[u], Now) /\ HistoryOK(acct[u], Now)
      /\ acct[u].balance \in Int /\ acct[u].limit \in Nat /\ acct[u].status \in AccountStatus
  BY DEF Inv, TypeOK, AccountsConsistent, Consistent, Account
<1>2. /\ Now \in Nat /\ Now \in Int /\ requests \in Nat
      /\ deletes \in [User -> AccountStatus \union {NotDeleting}]
      /\ \A b \in Balances : b \in Int
      /\ \A l \in Limits : l \in Nat
      /\ \A c \in Credits : c \in Int
  BY NowTypes, BillingAssumption DEF Inv, TypeOK
<1>3. Serve => requests' \in Nat
  BY <1>2 DEF Serve
<1>4. CASE CreateUser(u)
  <2>1. PICK s \in AccountStatus, b \in Balances, l \in Limits :
          Store(u, NewAccount(s, b, l, Now))
    BY <1>4 DEF CreateUser
  <2>2. /\ NewAccount(s, b, l, Now) \in Account
        /\ Consistent(NewAccount(s, b, l, Now), Now)
    BY <1>2, NewAccountConsistent
  <2>3. requests' \in Nat /\ deletes' = deletes
    BY <1>3, <1>4 DEF CreateUser
  <2> QED
    BY <1>2, <2>1, <2>2, <2>3, StoreKeeps
<1>5. CASE UpdateUser(u)
  <2>1. PICK s \in AccountStatus, b \in Balances \union {acct[u].balance},
             l \in Limits \union {acct[u].limit} :
          Store(u, EditAccount(acct[u], s, b, l, Now))
    BY <1>5 DEF UpdateUser
  <2>2. b \in Int /\ l \in Nat
    BY <1>1, <1>2
  <2>3. /\ EditAccount(acct[u], s, b, l, Now) \in Account
        /\ Consistent(EditAccount(acct[u], s, b, l, Now), Now)
    BY <1>1, <1>2, <2>2, EditAccountConsistent
  <2>4. requests' \in Nat /\ deletes' = deletes
    BY <1>3, <1>5 DEF UpdateUser
  <2> QED
    BY <1>2, <2>1, <2>3, <2>4, StoreKeeps
<1>6. CASE StartDelete(u)
  <2>1. requests' \in Nat /\ deletes' \in [User -> AccountStatus \union {NotDeleting}]
    BY <1>1, <1>2, <1>3, <1>6 DEF StartDelete
  <2>2. UNCHANGED <<today, acct, plans, runs, charges, snapshots, loop, faults, ghosts>>
    BY <1>6 DEF StartDelete, database
  <2>3. IsPlanTable(plans')
    BY <2>2 DEF Inv, TypeOK
  <2> QED
    BY <2>1, <2>2, <2>3, QuietRequest
<1>7. CASE FinishDelete(u)
  <2>1. /\ deletes[u] \in AccountStatus /\ requests' = requests
        /\ deletes' \in [User -> AccountStatus \union {NotDeleting}]
    BY <1>2, <1>7 DEF FinishDelete
  <2>2. CASE Store(u, DeleteAccount(acct[u], deletes[u], Now))
    <3>1. /\ DeleteAccount(acct[u], deletes[u], Now) \in Account
          /\ Consistent(DeleteAccount(acct[u], deletes[u], Now), Now)
      BY <1>1, <1>2, <2>1, DeleteAccountConsistent
    <3> QED
      BY <1>2, <2>1, <2>2, <3>1, StoreKeeps
  <2>3. CASE UNCHANGED <<today, database, loop, faults, ghosts>>
    <3>1. UNCHANGED <<today, acct, plans, runs, charges, snapshots, loop, faults, ghosts>>
      BY <2>3 DEF database
    <3>2. IsPlanTable(plans')
      BY <3>1 DEF Inv, TypeOK
    <3> QED
      BY <1>2, <2>1, <3>1, <3>2, QuietRequest
  <2> QED
    BY <1>7, <2>2, <2>3 DEF FinishDelete
<1>8. CASE TopUp(u)
  <2>1. PICK amount \in Credits : Store(u, CreditAccount(acct[u], amount, Now))
    BY <1>8 DEF TopUp
  <2>2. /\ CreditAccount(acct[u], amount, Now) \in Account
        /\ Consistent(CreditAccount(acct[u], amount, Now), Now)
    BY <1>1, <1>2, CreditAccountConsistent
  <2>3. requests' \in Nat /\ deletes' = deletes
    BY <1>3, <1>8 DEF TopUp
  <2> QED
    BY <1>2, <2>1, <2>2, <2>3, StoreKeeps
<1>9. CASE Activate(u)
  <2>1. /\ ActivateAccount(acct[u], Now) \in Account
        /\ Consistent(ActivateAccount(acct[u], Now), Now)
    BY <1>1, <1>2, <1>9, ActivateAccountConsistent DEF Activate
  <2>2. requests' \in Nat /\ deletes' = deletes /\ Store(u, ActivateAccount(acct[u], Now))
    BY <1>3, <1>9 DEF Activate
  <2> QED
    BY <1>2, <2>1, <2>2, StoreKeeps
<1>10. CASE TakeVpnJob(u)
  <2> DEFINE row == [acct[u] EXCEPT !.job = "none"]
  <2>1. /\ row \in Account /\ row.history = acct[u].history /\ row.status = acct[u].status
        /\ row.created = acct[u].created /\ row.deleted = acct[u].deleted
        /\ row.balance = acct[u].balance /\ row.limit = acct[u].limit
    BY <1>1 DEF Account, VpnSyncJob
  <2>2. /\ acct' = [acct EXCEPT ![u] = row]
        /\ UNCHANGED <<today, plans, runs, charges, snapshots, loop, deletes, requests,
                       faults, ghosts>>
    BY <1>10 DEF TakeVpnJob
  <2> HIDE DEF row
  <2>3. Consistent(row, Now)
    BY <1>1, <2>1, SameHistory
       DEF Consistent, PaidUpNotBlocked, BlockedByBilling, Live, Exists, OutOfMoney
  <2>4. credited[u] + row.balance - acct[u].balance = credited[u]
    BY <1>1, <2>1 DEF Inv, TypeOK
  <2>5. Store(u, row)
    BY <2>2, <2>4 DEF Store, ghosts, Inv, TypeOK
  <2> QED
    BY <1>2, <2>1, <2>2, <2>3, <2>5, StoreKeeps
<1> QED
  BY <1>4, <1>5, <1>6, <1>7, <1>8, <1>9, <1>10 DEF UserRequest

LEMMA PlanRequestKeeps ==
  ASSUME Inv, NEW id \in PlanId, PlanRequest(id)
  PROVE  Inv'
<1>1. /\ requests \in Nat /\ IsPlanTable(plans) /\ (\A start \in Day : start \in Nat)
      /\ (\A m \in Monthly : m \in Nat)
      /\ deletes \in [User -> AccountStatus \union {NotDeleting}]
  BY NowTypes, BillingAssumption DEF Inv, TypeOK
<1>2. ASSUME NEW table, IsPlanTable(table), StorePlans(table), Serve
      PROVE  Inv'
  <2>1. requests' \in Nat
    BY <1>1, <1>2 DEF Serve
  <2>2. /\ UNCHANGED <<today, acct, runs, charges, snapshots, loop, deletes, faults, ghosts>>
        /\ plans' = table
    BY <1>2 DEF StorePlans
  <2> QED
    BY <1>1, <1>2, <2>1, <2>2, QuietRequest
<1>3. CASE CreatePlan(id)
  <2>1. PICK start \in Day, monthly \in Monthly :
          StorePlans(CreatedPlan(plans, id, start, monthly))
    BY <1>3 DEF CreatePlan
  <2>2. IsPlanTable(CreatedPlan(plans, id, start, monthly))
    BY <1>1, HandlersKeepTable
  <2> QED
    BY <1>2, <1>3, <2>1, <2>2 DEF CreatePlan
<1>4. CASE UpdatePlan(id)
  <2>1. PICK start \in Day, monthly \in Monthly :
          StorePlans(UpdatedPlan(plans, id, start, monthly))
    BY <1>4 DEF UpdatePlan
  <2>2. IsPlanTable(UpdatedPlan(plans, id, start, monthly))
    BY <1>1, <1>4, HandlersKeepTable DEF UpdatePlan
  <2> QED
    BY <1>2, <1>4, <2>1, <2>2 DEF UpdatePlan
<1>5. CASE DeletePlan(id)
  <2>1. IsPlanTable(DeletedPlan(plans, id))
    BY <1>1, HandlersKeepTable
  <2> QED
    BY <1>2, <1>5, <2>1 DEF DeletePlan
<1> QED
  BY <1>3, <1>4, <1>5 DEF PlanRequest

-----------------------------------------------------------------------------
(* The theorems *)

LEMMA LegacyConsistent ==
  ASSUME NEW a \in LegacyAccounts
  PROVE  a \in Account /\ Consistent(a, During(0))
<1>1. /\ NoAccount \in Account /\ NoAccount.history = << >>
      /\ 0 \in Nat /\ Midnight(0) = 0 /\ During(0) = 1
  BY NoAccountConsistent DEF NoAccount, Midnight, During
<1>2. PICK row \in AccountStatus \X Balances \X Limits \X BOOLEAN :
        a = LegacyAccount(row[1], row[2], row[3], row[4])
  BY DEF LegacyAccounts
<1> DEFINE r == AccountRow(row[1], row[2], row[3], Midnight(0))
<1>3. row[1] \in AccountStatus /\ row[2] \in Int /\ row[3] \in Nat
  BY <1>2, BillingAssumption
<1>4. r \in Account /\ r.history = << >> /\ r.created = 0
  <2>1. r = [NoAccount EXCEPT !.status = row[1], !.balance = row[2], !.limit = row[3],
                              !.created = 0]
    BY <1>1 DEF AccountRow
  <2> HIDE DEF r
  <2>2. 0 \in Int
    OBVIOUS
  <2> QED
    BY <1>1, <1>3, <2>1, <2>2 DEF Account
<1>5. a = IF row[4] THEN AddHistory(r, "null", r.status, "bootstrap", 0) ELSE r
  BY <1>1, <1>2 DEF LegacyAccount, AddInitialHistory
<1> HIDE DEF r
<1>6. Latest(r.history) = {} /\ DOMAIN r.history = {}
  BY <1>4 DEF Latest
<1>7. Consistent(r, During(0))
  BY <1>1, <1>4, <1>6 DEF Consistent, HistoryOK, StatusIsLatest, SoundHistory,
                         PaidUpNotBlocked, BlockedByBilling
<1>8. "bootstrap" \in StatusChangeSource \ {"billing"}
  BY DEF StatusChangeSource
<1>9. LET b == AddHistory(r, "null", r.status, "bootstrap", 0)
      IN  b \in Account /\ Consistent(b, During(0))
  BY <1>1, <1>4, <1>7, <1>8, FirstRowConsistent
<1> QED
  BY <1>4, <1>5, <1>7, <1>9

LEMMA InitInv == Init => Inv
<1> SUFFICES ASSUME Init PROVE Inv
  OBVIOUS
<1>1. 0 \in Day /\ 0 \in Nat /\ Day \subseteq Nat
  BY BillingAssumption DEF Day
<1>2. /\ today = 0 /\ Now = During(0) /\ During(0) = 1
  BY DEF Init, Now, During
<1>3. PICK rows \in [Legacy -> LegacyAccounts] :
        acct = [u \in User |-> IF u \in Legacy THEN rows[u] ELSE NoAccount]
  BY DEF Init
<1>4. ASSUME NEW u \in User
      PROVE  acct[u] \in Account /\ Consistent(acct[u], Now)
  <2>1. CASE u \in Legacy
    BY <1>2, <1>3, <2>1, LegacyConsistent
  <2>2. CASE u \notin Legacy
    <3>1. NoAccount \in Account /\ Consistent(NoAccount, Now)
      BY <1>2, NoAccountConsistent
    <3> QED
      BY <1>3, <2>2, <3>1
  <2> QED
    BY <2>1, <2>2
<1>5. acct \in [User -> Account]
  BY <1>3, <1>4
<1>6. GoodLoop(loop, today)
  BY <1>1, <1>2, NoNoticesType DEF Init, GoodLoop, Loop
<1>7. /\ runs \in [Day -> Run] /\ charges \in [User -> [Day -> Charge]]
      /\ snapshots \in [User -> [Day -> Int]]
  BY DEF Init, NoRun, Run, NoCharge, Charge, NoAmount, NoCount
<1>8. IsPlanTable(plans)
  BY DEF Init, NoPlans, IsPlanTable
<1>9. /\ deletes \in [User -> AccountStatus \union {NotDeleting}]
      /\ requests \in Nat /\ faults \in Nat
      /\ activeAt \in [Day -> SUBSET User]
  BY DEF Init
<1>10. credited \in [User -> Int]
  BY <1>5 DEF Init, Account
<1>11. TypeOK
  BY <1>1, <1>2, <1>5, <1>6, <1>7, <1>8, <1>9, <1>10 DEF TypeOK, GoodLoop
<1>12. AccountsConsistent
  BY <1>4, <1>6 DEF AccountsConsistent, GoodLoop
<1> QED
  BY <1>11, <1>12 DEF Inv

LEMMA StepInv == Inv /\ [Next]_vars => Inv'
<1> SUFFICES ASSUME Inv, [Next]_vars PROVE Inv'
  OBVIOUS
<1>1. CASE NextDay
  BY <1>1, NextDayKeeps
<1>2. CASE BillingLoop
  BY <1>2, OtherLoopStepsKeep, ChargeDateKeeps, SyncPausedProfilesKeeps DEF BillingLoop
<1>3. CASE \E u \in User : UserRequest(u)
  BY <1>3, UserRequestKeeps
<1>4. CASE \E id \in PlanId : PlanRequest(id)
  BY <1>4, PlanRequestKeeps
<1>5. CASE UNCHANGED vars
  BY <1>5 DEF vars, Inv, TypeOK, AccountsConsistent, Now
<1> QED
  BY <1>1, <1>2, <1>3, <1>4, <1>5 DEF Next

\* Every reachable state satisfies the inductive invariant: the code's records
\* are well typed, and every account is consistent.
THEOREM Invariance == Spec => []Inv
  BY InitInv, StepInv, PTL DEF Spec

\* The rows of the database and the memory of the loop keep their types.
THEOREM TypeCorrect == Spec => []TypeOK
<1>1. Inv => TypeOK
  BY DEF Inv
<1> QED
  BY <1>1, Invariance, PTL

\* The status of every account is the one its history ends with, however late
\* billing inserts its blocks (billing/service.py, the loop over active_users).
THEOREM StatusFollowsHistory == Spec => []StatusMatchesHistory
<1>1. Inv => StatusMatchesHistory
  BY DEF Inv, AccountsConsistent, Consistent, HistoryOK, StatusMatchesHistory
<1> QED
  BY <1>1, Invariance, PTL

\* Nobody who can pay stays blocked by billing (restore_if_billing_blocked and
\* its callers).
THEOREM PayersAreRestored == Spec => []NoPaidUpBlock
<1>1. Inv => NoPaidUpBlock
  BY DEF Inv, AccountsConsistent, Consistent, NoPaidUpBlock
<1> QED
  BY <1>1, Invariance, PTL
=============================================================================

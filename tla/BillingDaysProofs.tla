------------------------- MODULE BillingDaysProofs --------------------------
(***************************************************************************)
(* Theorems of Billing about its days, its runs and its money: who is      *)
(* charged for a day was active when it began, who was active is not left  *)
(* out, a block by hand stays, a billed date is final, a run says what was *)
(* charged, an extra charge is explained by the snapshots, and a balance   *)
(* is what was credited less the recorded charges.                         *)
(***************************************************************************)
EXTENDS BillingProofs, SequenceTheorems

-----------------------------------------------------------------------------
(* What a request may do to the record of an account *)

\* Rows of now may follow; the status changes with a row only.
Longer(a, b, now) ==
  /\ b.created = a.created
  /\ Len(a.history) <= Len(b.history)
  /\ \A i \in DOMAIN b.history : IF i \in DOMAIN a.history THEN b.history[i] = a.history[i]
                                 ELSE b.history[i].eff = now
  /\ Len(b.history) = Len(a.history) => b.status = a.status

Grown(a, b, now) == Longer(a, b, now) /\ b.deleted = a.deleted
Ended(a, b, now) == Longer(a, b, now) /\ a.deleted = Never /\ b.deleted = now

LEMMA HistoryShape ==
  ASSUME NEW a \in Account
  PROVE  /\ a.history \in Seq(StatusChange) /\ Len(a.history) \in Nat
         /\ DOMAIN a.history = 1 .. Len(a.history)
         /\ \A i \in DOMAIN a.history : a.history[i] \in StatusChange /\ a.history[i].eff \in Int
         /\ a.history = << >> <=> Len(a.history) = 0
         /\ a.created \in Int /\ a.deleted \in Int /\ a.status \in AccountStatus
<1>1. a.history \in Seq(StatusChange)
  BY DEF Account
<1> QED
  BY <1>1, RowTypes, LenProperties, EmptySeq DEF Account

\* Nothing recorded.
LEMMA GrownSame ==
  ASSUME NEW a \in Account, NEW b, NEW now, b.created = a.created, b.deleted = a.deleted,
         b.history = a.history, b.status = a.status
  PROVE  Grown(a, b, now)
<1>1. Len(a.history) \in Nat
  BY HistoryShape
<1> QED
  BY <1>1 DEF Grown, Longer

LEMMA GrownTwice ==
  ASSUME NEW a \in Account, NEW b \in Account, NEW c \in Account, NEW now,
         Grown(a, b, now), Grown(b, c, now)
  PROVE  Grown(a, c, now)
<1> DEFINE l == Len(a.history)
           m == Len(b.history)
           n == Len(c.history)
<1>1. /\ l \in Nat /\ m \in Nat /\ n \in Nat /\ DOMAIN a.history = 1 .. l
      /\ DOMAIN b.history = 1 .. m /\ DOMAIN c.history = 1 .. n
  BY HistoryShape
<1>2. l <= m /\ m <= n
  BY DEF Grown, Longer
<1> HIDE DEF l, m, n
<1>3. l <= n /\ (n = l => m = l /\ n = m)
  BY <1>1, <1>2
<1>4. \A i \in DOMAIN c.history : IF i \in DOMAIN a.history THEN c.history[i] = a.history[i]
                                  ELSE c.history[i].eff = now
  <2>1. \A i \in 1 .. l : i \in 1 .. m
    BY <1>1, <1>2
  <2> QED
    BY <1>1, <2>1 DEF Grown, Longer
<1>5. n = l => c.status = a.status
  BY <1>3 DEF Grown, Longer, l, m, n
<1> QED
  BY <1>3, <1>4, <1>5 DEF Grown, Longer, l, n

LEMMA RecordGrown ==
  ASSUME NEW a \in Account, NEW seen \in AccountStatus, NEW new \in AccountStatus,
         NEW source \in StatusChangeSource, NEW now \in Int
  PROVE  LET b == RecordSeenStatusChange(a, seen, new, source, now)
         IN  b \in Account /\ Grown(a, b, now)
<1> DEFINE b == RecordSeenStatusChange(a, seen, new, source, now)
           r == AddHistory(a, seen, new, source, now)
           c == [prev |-> seen, new |-> new, source |-> source, eff |-> now]
<1>1. b \in Account
  BY RecordSeenType
<1>2. CASE seen = new
  <2>1. b = a
    BY <1>2 DEF RecordSeenStatusChange
  <2> QED
    BY <1>1, <2>1, GrownSame
<1>3. CASE seen # new
  <2>1. r \in Account
    BY AddHistoryType
  <2>2. r.history = Append(a.history, c) /\ r.created = a.created /\ r.deleted = a.deleted
    BY DEF AddHistory, Account
  <2>3. b = [r EXCEPT !.status = new]
    BY <1>3 DEF RecordSeenStatusChange
  <2> HIDE DEF b, r
  <2>4. b.history = Append(a.history, c) /\ b.created = a.created /\ b.deleted = a.deleted
    BY <2>1, <2>2, <2>3 DEF Account
  <2>5. c \in StatusChange /\ c.eff = now
    BY DEF StatusChange
  <2> HIDE DEF c
  <2>6. /\ a.history \in Seq(StatusChange) /\ Len(a.history) \in Nat
        /\ DOMAIN a.history = 1 .. Len(a.history)
    BY HistoryShape
  <2>7. /\ Len(b.history) = Len(a.history) + 1 /\ DOMAIN b.history = 1 .. Len(a.history) + 1
        /\ \A i \in DOMAIN a.history : b.history[i] = a.history[i]
        /\ b.history[Len(a.history) + 1] = c
    BY <2>4, <2>5, <2>6, AppendProperties
  <2>8. \A i \in DOMAIN b.history : i \in DOMAIN a.history \/ i = Len(a.history) + 1
    BY <2>6, <2>7
  <2>9. Grown(a, b, now)
    BY <2>4, <2>5, <2>6, <2>7, <2>8 DEF Grown, Longer
  <2> QED
    BY <1>1, <2>9 DEF b
<1> QED
  BY <1>2, <1>3

LEMMA QueueGrown ==
  ASSUME NEW a \in Account, NEW enabled \in BOOLEAN, NEW now
  PROVE  LET b == QueueVpnSync(a, enabled) IN b \in Account /\ Grown(a, b, now)
<1> DEFINE b == QueueVpnSync(a, enabled)
<1>1. /\ b \in Account /\ b.created = a.created /\ b.deleted = a.deleted
      /\ b.history = a.history /\ b.status = a.status
  BY QueueVpnSyncType DEF QueueVpnSync, Account
<1> HIDE DEF b
<1> QED
  BY <1>1, GrownSame DEF b

\* A recorded change and its job.
LEMMA RecordQueueGrown ==
  ASSUME NEW a \in Account, NEW new \in AccountStatus, NEW source \in StatusChangeSource,
         NEW enabled \in BOOLEAN, NEW now \in Int
  PROVE  LET b == QueueVpnSync(RecordStatusChange(a, new, source, now), enabled)
         IN  b \in Account /\ Grown(a, b, now)
<1> DEFINE r == RecordStatusChange(a, new, source, now)
<1>1. a.status \in AccountStatus
  BY DEF Account
<1>2. r \in Account /\ Grown(a, r, now)
  BY <1>1, RecordGrown DEF RecordStatusChange
<1> HIDE DEF r
<1>3. QueueVpnSync(r, enabled) \in Account /\ Grown(r, QueueVpnSync(r, enabled), now)
  BY <1>2, QueueGrown
<1> QED
  BY <1>2, <1>3, GrownTwice DEF r

LEMMA BlockIfGrown ==
  ASSUME NEW a \in Account, NEW now \in Int
  PROVE  LET b == BlockIfBalanceBelowLimit(a, now) IN b \in Account /\ Grown(a, b, now)
<1>1. "blocked" \in AccountStatus /\ "billing" \in StatusChangeSource /\ FALSE \in BOOLEAN
  BY DEF AccountStatus, StatusChangeSource
<1> QED
  BY <1>1, RecordQueueGrown, GrownSame DEF BlockIfBalanceBelowLimit

LEMMA RestoreGrown ==
  ASSUME NEW a \in Account, NEW source \in StatusChangeSource, NEW now \in Int
  PROVE  LET b == RestoreIfBillingBlocked(a, source, now) IN b \in Account /\ Grown(a, b, now)
<1> DEFINE cond == /\ a.status = "blocked" /\ ~OutOfMoney(a)
                   /\ BillingBlocks(a.history) # {}
           row == CHOOSE c \in BillingBlocks(a.history) : TRUE
           enabled == row.prev = "active"
<1>1. CASE cond
  <2>1. row \in BillingBlocks(a.history)
    BY <1>1
  <2>2. row.prev \in AccountStatus
    BY <2>1 DEF BillingBlocks, AccountStatus
  <2>3. RestoreIfBillingBlocked(a, source, now)
          = QueueVpnSync(RecordStatusChange(a, row.prev, source, now), enabled)
    BY <1>1 DEF RestoreIfBillingBlocked
  <2>4. enabled \in BOOLEAN
    OBVIOUS
  <2> HIDE DEF row, enabled
  <2> QED
    BY <2>2, <2>3, <2>4, RecordQueueGrown
<1>2. CASE ~cond
  BY <1>2, GrownSame DEF RestoreIfBillingBlocked
<1> QED
  BY <1>1, <1>2

\* update_user
LEMMA EditGrown ==
  ASSUME NEW a \in Account, NEW now \in Int,
         NEW status \in AccountStatus, NEW balance \in Int, NEW limit \in Nat
  PROVE  LET b == EditAccount(a, status, balance, limit, now)
         IN  b \in Account /\ Grown(a, b, now)
<1> DEFINE noted == RecordStatusChange(a, status, "admin", now)
           edited == [noted EXCEPT !.balance = balance, !.limit = limit]
<1>1. a.status \in AccountStatus /\ "admin" \in StatusChangeSource
  BY DEF Account, StatusChangeSource
<1>2. noted \in Account /\ Grown(a, noted, now)
  BY <1>1, RecordGrown DEF RecordStatusChange
<1> HIDE DEF noted
<1>3. /\ edited \in Account /\ edited.created = noted.created /\ edited.deleted = noted.deleted
      /\ edited.history = noted.history /\ edited.status = noted.status
  BY <1>2 DEF Account
<1> HIDE DEF edited
<1>4. Grown(a, edited, now)
  BY <1>2, <1>3, GrownSame, GrownTwice
<1>5. /\ BlockIfBalanceBelowLimit(edited, now) \in Account
      /\ Grown(edited, BlockIfBalanceBelowLimit(edited, now), now)
      /\ RestoreIfBillingBlocked(edited, "admin", now) \in Account
      /\ Grown(edited, RestoreIfBillingBlocked(edited, "admin", now), now)
  BY <1>1, <1>3, BlockIfGrown, RestoreGrown
<1>6. \/ EditAccount(a, status, balance, limit, now) = edited
      \/ EditAccount(a, status, balance, limit, now) = BlockIfBalanceBelowLimit(edited, now)
      \/ EditAccount(a, status, balance, limit, now)
           = RestoreIfBillingBlocked(edited, "admin", now)
  BY DEF EditAccount, edited, noted
<1> QED
  BY <1>3, <1>4, <1>5, <1>6, GrownTwice

LEMMA CreditGrown ==
  ASSUME NEW a \in Account, NEW now \in Int, NEW amount \in Int
  PROVE  LET b == CreditAccount(a, amount, now) IN b \in Account /\ Grown(a, b, now)
<1> DEFINE r == [a EXCEPT !.balance = @ + amount]
<1>1. /\ r \in Account /\ r.created = a.created /\ r.deleted = a.deleted
      /\ r.history = a.history /\ r.status = a.status
  BY DEF Account
<1>2. "top_up" \in StatusChangeSource
  BY DEF StatusChangeSource
<1> HIDE DEF r
<1>3. /\ RestoreIfBillingBlocked(r, "top_up", now) \in Account
      /\ Grown(r, RestoreIfBillingBlocked(r, "top_up", now), now)
  BY <1>1, <1>2, RestoreGrown
<1>4. Grown(a, r, now)
  BY <1>1, GrownSame
<1> QED
  BY <1>1, <1>3, <1>4, GrownTwice DEF CreditAccount, r

LEMMA ActivateGrown ==
  ASSUME NEW a \in Account, NEW now \in Int
  PROVE  LET b == ActivateAccount(a, now) IN b \in Account /\ Grown(a, b, now)
<1>1. "active" \in AccountStatus /\ "user" \in StatusChangeSource /\ TRUE \in BOOLEAN
  BY DEF AccountStatus, StatusChangeSource
<1> QED
  BY <1>1, RecordQueueGrown DEF ActivateAccount

\* delete_user, of a user that is not deleted yet
LEMMA DeleteEnded ==
  ASSUME NEW a \in Account, Live(a), NEW now \in Int, NEW seen \in AccountStatus
  PROVE  LET b == DeleteAccount(a, seen, now) IN b \in Account /\ Ended(a, b, now)
<1> DEFINE r == RecordSeenStatusChange(a, seen, "blocked", "admin", now)
           b == [r EXCEPT !.deleted = now]
<1>1. "blocked" \in AccountStatus /\ "admin" \in StatusChangeSource
  BY DEF AccountStatus, StatusChangeSource
<1>2. r \in Account /\ Grown(a, r, now)
  BY <1>1, RecordGrown
<1> HIDE DEF r
<1>3. /\ b \in Account /\ b.created = r.created /\ b.deleted = now
      /\ b.history = r.history /\ b.status = r.status
  BY <1>2 DEF Account
<1> HIDE DEF b
<1>4. Ended(a, b, now)
  BY <1>2, <1>3 DEF Grown, Ended, Longer, Live
<1> QED
  BY <1>3, <1>4 DEF DeleteAccount, b, r

-----------------------------------------------------------------------------
(* The status of a day *)

\* A row that follows the instant t does not change what was so at t.
LEMMA RowsAfter ==
  ASSUME NEW h \in Seq(StatusChange), NEW g \in Seq(StatusChange), NEW t \in Int,
         Len(h) <= Len(g),
         \A i \in DOMAIN g : IF i \in DOMAIN h THEN g[i] = h[i] ELSE g[i].eff > t
  PROVE  /\ UpTo(g, t) = UpTo(h, t) /\ LatestUpTo(g, t) = LatestUpTo(h, t)
         /\ \A i \in UpTo(h, t) : g[i] = h[i]
<1>1. /\ DOMAIN h = 1 .. Len(h) /\ DOMAIN g = 1 .. Len(g)
      /\ Len(h) \in Nat /\ Len(g) \in Nat
  OBVIOUS
<1>2. DOMAIN h \subseteq DOMAIN g
  BY <1>1
<1>3. \A i \in DOMAIN g : g[i].eff \in Int
  BY RowTypes
<1>4. UpTo(g, t) = UpTo(h, t)
  BY <1>2, <1>3 DEF UpTo
<1>5. \A i \in UpTo(h, t) : g[i] = h[i]
  BY <1>2 DEF UpTo
<1>6. \A i, j \in UpTo(h, t) : NotAfter(g, i, j) <=> NotAfter(h, i, j)
  BY <1>5 DEF NotAfter
<1> DEFINE U == UpTo(h, t)
<1>7. {k \in U : \A j \in U : NotAfter(g, j, k)} = {k \in U : \A j \in U : NotAfter(h, j, k)}
  BY <1>6
<1>8. LatestUpTo(g, t) = LatestUpTo(h, t)
  <2> DEFINE K == {k \in U : \A j \in U : NotAfter(h, j, k)}
  <2>1. LatestUpTo(h, t) = {h[i] : i \in K} /\ LatestUpTo(g, t) = {g[i] : i \in K}
    BY <1>4, <1>7 DEF LatestUpTo
  <2>2. \A i \in K : g[i] = h[i]
    BY <1>5
  <2> HIDE DEF K
  <2> QED
    BY <2>1, <2>2
<1> QED
  BY <1>4, <1>5, <1>8

\* The user is there at t, and nothing else is recorded of it.
Undeleted(a, t) == Exists(a) /\ a.created <= t /\ (a.deleted = Never \/ a.deleted > t)
ActiveUnrecorded(a, t) == a.history = << >> /\ a.status = "active" /\ Undeleted(a, t)

\* What is recorded of the instant t stays, unless billing inserts its block.
SameDay(a, b, t) ==
  /\ ActiveAt(b, t) <=> ActiveAt(a, t)
  /\ UpTo(b.history, t) = UpTo(a.history, t)
  /\ BlockedByThen(b, t) <=> BlockedByThen(a, t)
  /\ ActiveUnrecorded(b, t) => ActiveUnrecorded(a, t)
  /\ b.history = << >> => a.history = << >> /\ b.status = a.status
                          /\ (Undeleted(a, t) <=> Undeleted(b, t))

LEMMA GrownDay ==
  ASSUME NEW a \in Account, NEW b \in Account, NEW now \in Nat, NEW t \in Int, t < now,
         Grown(a, b, now) \/ Ended(a, b, now)
  PROVE  SameDay(a, b, t)
<1>1. /\ a.history \in Seq(StatusChange) /\ b.history \in Seq(StatusChange)
      /\ Len(a.history) \in Nat /\ Len(b.history) \in Nat
      /\ a.history = << >> <=> Len(a.history) = 0
      /\ b.history = << >> <=> Len(b.history) = 0
  BY HistoryShape
<1>2. /\ UpTo(b.history, t) = UpTo(a.history, t)
      /\ LatestUpTo(b.history, t) = LatestUpTo(a.history, t)
      /\ \A i \in UpTo(a.history, t) : b.history[i] = a.history[i]
  <2>1. /\ Len(a.history) <= Len(b.history)
        /\ \A i \in DOMAIN b.history :
             IF i \in DOMAIN a.history THEN b.history[i] = a.history[i]
             ELSE b.history[i].eff > t
    BY DEF Grown, Ended, Longer
  <2> QED
    BY <1>1, <2>1, RowsAfter
<1>3. /\ b.created = a.created
      /\ (b.deleted = Never \/ b.deleted > t) <=> (a.deleted = Never \/ a.deleted > t)
  BY DEF Grown, Ended, Longer, Never
<1>4. b.history = << >> => a.history = << >> /\ b.status = a.status
  BY <1>1 DEF Grown, Ended, Longer
<1>5. ActiveAt(b, t) <=> ActiveAt(a, t)
  BY <1>2, <1>3 DEF ActiveAt, Exists
<1>6. BlockedByThen(b, t) <=> BlockedByThen(a, t)
  BY <1>2 DEF BlockedByThen
<1>7. Undeleted(a, t) <=> Undeleted(b, t)
  BY <1>3 DEF Undeleted, Exists
<1> QED
  BY <1>2, <1>4, <1>5, <1>6, <1>7 DEF SameDay, ActiveUnrecorded

-----------------------------------------------------------------------------
(* What billing does to the record of an account *)

\* The row of a block, as of the cutoff.
BlockRow(cutoff) == [prev |-> "active", new |-> "blocked", source |-> "billing", eff |-> cutoff]

LEMMA BlockRowType ==
  ASSUME NEW cutoff \in Int
  PROVE  BlockRow(cutoff) \in StatusChange
  BY DEF BlockRow, StatusChange, AccountStatus, StatusChangeSource

LEMMA ChargeRecord ==
  ASSUME NEW a \in Account, NEW total \in Nat, NEW cutoff \in Int
  PROVE  LET b == ChargeAccount(a, total, cutoff)
         IN  /\ b \in Account /\ b.created = a.created /\ b.deleted = a.deleted
             /\ OutOfMoney(b) => b.history = Append(a.history, BlockRow(cutoff))
             /\ ~OutOfMoney(b) => b.history = a.history /\ b.status = a.status
             /\ b.status = a.status \/ b.status = "blocked"
<1> DEFINE b == ChargeAccount(a, total, cutoff)
           charged == [a EXCEPT !.balance = @ - total]
           noted == AddHistory(charged, "active", "blocked", "billing", cutoff)
           settled == IF HasLaterStatus(a, cutoff) THEN noted
                      ELSE [noted EXCEPT !.status = "blocked"]
<1>1. /\ charged \in Account /\ charged.status = a.status /\ charged.created = a.created
      /\ charged.deleted = a.deleted /\ charged.history = a.history
  BY DEF Account
<1> HIDE DEF charged
<1>2. CASE ~OutOfMoney(charged)
  <2>1. b = charged
    BY <1>2 DEF ChargeAccount, charged
  <2> HIDE DEF b
  <2> QED
    BY <1>1, <1>2, <2>1 DEF b
<1>3. CASE OutOfMoney(charged)
  <2>1. /\ "active" \in AccountStatus \union {"null"} /\ "blocked" \in AccountStatus
        /\ "billing" \in StatusChangeSource /\ FALSE \in BOOLEAN
    BY DEF AccountStatus, StatusChangeSource
  <2>2. /\ noted \in Account /\ noted.history = Append(a.history, BlockRow(cutoff))
        /\ noted.created = a.created /\ noted.deleted = a.deleted /\ noted.status = a.status
        /\ noted.balance = charged.balance /\ noted.limit = charged.limit
    <3>1. noted \in Account
      BY <1>1, <2>1, AddHistoryType
    <3> QED
      BY <1>1, <3>1 DEF AddHistory, Account, BlockRow
  <2> HIDE DEF noted
  <2>3. /\ settled \in Account /\ settled.history = noted.history
        /\ settled.created = a.created /\ settled.deleted = a.deleted
        /\ settled.status = a.status \/ settled.status = "blocked"
        /\ settled.balance = charged.balance /\ settled.limit = charged.limit
    BY <2>1, <2>2 DEF Account
  <2> HIDE DEF settled
  <2>4. b = QueueVpnSync(settled, FALSE)
    BY <1>3 DEF ChargeAccount, charged, settled, noted
  <2> HIDE DEF b
  <2>5. /\ b \in Account /\ b.history = settled.history /\ b.created = settled.created
        /\ b.deleted = settled.deleted /\ b.status = settled.status
        /\ b.balance = settled.balance /\ b.limit = settled.limit
    BY <2>3, <2>4 DEF QueueVpnSync, Account, VpnSyncJob
  <2>6. OutOfMoney(b)
    BY <1>3, <2>3, <2>5 DEF OutOfMoney
  <2> QED
    BY <2>2, <2>3, <2>5, <2>6 DEF b
<1> QED
  BY <1>2, <1>3

\* A charge for a day leaves nobody active that was not, and the instants before
\* it as they were; whoever was active on that day or later is still, or blocked.
ChargedDay(a, b, cutoff, t) ==
  /\ ActiveAt(b, t) => ActiveAt(a, t)
  /\ ActiveAt(a, t) => ActiveAt(b, t) \/ BlockedByThen(b, t)
  /\ BlockedByThen(a, t) => BlockedByThen(b, t)
  /\ UpTo(a.history, t) = {} => UpTo(b.history, t) = {} \/ BlockedByThen(b, t)
  /\ b.history = << >> => b.status = a.status /\ a.history = << >>
  /\ Undeleted(a, t) <=> Undeleted(b, t)

LEMMA ChargeDay ==
  ASSUME NEW a \in Account, NEW total \in Nat, NEW cutoff \in Int, NEW t \in Int
  PROVE  ChargedDay(a, ChargeAccount(a, total, cutoff), cutoff, t)
<1> DEFINE b == ChargeAccount(a, total, cutoff)
           c == BlockRow(cutoff)
           h == a.history
           g == b.history
<1>1. /\ b \in Account /\ b.created = a.created /\ b.deleted = a.deleted
      /\ OutOfMoney(b) => b.history = Append(a.history, BlockRow(cutoff))
      /\ ~OutOfMoney(b) => b.history = a.history /\ b.status = a.status
  BY ChargeRecord
<1> HIDE DEF b
<1>2. Undeleted(a, t) <=> Undeleted(b, t)
  BY <1>1 DEF Undeleted, Exists
<1>3. CASE ~OutOfMoney(b)
  BY <1>1, <1>2, <1>3 DEF ChargedDay, b, ActiveAt, BlockedByThen, Exists
<1>4. CASE OutOfMoney(b)
  <2>1. /\ c \in StatusChange /\ c.eff = cutoff /\ c.new = "blocked" /\ c.source = "billing"
    BY BlockRowType DEF BlockRow
  <2>2. /\ h \in Seq(StatusChange) /\ g = Append(h, c) /\ Len(h) \in Nat
        /\ DOMAIN h = 1 .. Len(h)
    BY <1>1, <1>4, HistoryShape
  <2>3. g \in Seq(StatusChange) /\ Len(g) \in Nat /\ (g = << >> <=> Len(g) = 0)
    BY <1>1, HistoryShape
  <2> HIDE DEF c, h, g
  <2> DEFINE n == Len(h) + 1
  <2>4. /\ Len(g) = n /\ DOMAIN g = 1 .. n /\ g[n] = c /\ n \notin DOMAIN h /\ n \in DOMAIN g
        /\ \A i \in DOMAIN h : g[i] = h[i] /\ i \in DOMAIN g
        /\ \A i \in DOMAIN g : i \in DOMAIN h \/ i = n
    BY <2>1, <2>2, AppendProperties
  <2>5. g # << >>
    BY <2>2, <2>3, <2>4
  <2>6. /\ \A i \in DOMAIN g : g[i].eff \in Int
    BY <2>3, RowTypes
  <2> HIDE DEF n
  <2>7. CASE cutoff > t
    <3>1. /\ UpTo(g, t) = UpTo(h, t) /\ LatestUpTo(g, t) = LatestUpTo(h, t)
          /\ \A i \in UpTo(h, t) : g[i] = h[i]
      <4>1. Len(h) <= Len(g)
        BY <2>2, <2>4 DEF n
      <4>2. \A i \in DOMAIN g : IF i \in DOMAIN h THEN g[i] = h[i] ELSE g[i].eff > t
        BY <2>1, <2>4, <2>7
      <4> QED
        BY <2>2, <2>3, <4>1, <4>2, RowsAfter
    <3> QED
      BY <1>1, <1>2, <2>5, <3>1 DEF ChargedDay, b, ActiveAt, BlockedByThen, Exists, h, g
  <2>8. CASE cutoff <= t
    <3>1. n \in UpTo(g, t)
      BY <2>1, <2>4, <2>8 DEF UpTo
    <3>2. BlockedByThen(b, t)
      BY <2>1, <2>4, <3>1 DEF BlockedByThen, g
    <3>3. ASSUME NEW x \in LatestUpTo(g, t), x.new = "active"
          PROVE  x \in LatestUpTo(h, t)
      <4>1. PICK k \in UpTo(g, t) : x = g[k] /\ \A j \in UpTo(g, t) : NotAfter(g, j, k)
        BY DEF LatestUpTo
      <4>2. k # n /\ k \in DOMAIN g
        BY <2>1, <2>4, <3>3, <4>1 DEF UpTo
      <4>3. k \in UpTo(h, t) /\ h[k] = x
        BY <2>4, <4>1, <4>2 DEF UpTo
      <4>4. UpTo(h, t) \subseteq UpTo(g, t)
        BY <2>4 DEF UpTo
      <4>5. \A j \in UpTo(h, t) : NotAfter(h, j, k)
        BY <2>4, <4>1, <4>3, <4>4 DEF NotAfter, UpTo
      <4> QED
        BY <4>3, <4>5 DEF LatestUpTo
    <3>4. ActiveAt(b, t) => ActiveAt(a, t)
      BY <1>1, <3>3 DEF ActiveAt, Exists, h, g
    <3> QED
      BY <1>2, <2>5, <3>2, <3>4 DEF ChargedDay, b, g
  <2> QED
    BY <2>7, <2>8
<1> QED
  BY <1>3, <1>4

\* The missing first row says that the user was what it is now, from the start
\* of the plan or its creation on.
BaselineDay(a, b, t) ==
  /\ b \in Account /\ b.created = a.created /\ b.deleted = a.deleted /\ b.status = a.status
  /\ a.history # << >> \/ ~Exists(a) => b = a
  /\ Exists(a) => b.history # << >>
  /\ ActiveAt(b, t) => ActiveAt(a, t) \/ ActiveUnrecorded(a, t)
  /\ ActiveUnrecorded(a, t) => ActiveAt(b, t) \/ UpTo(b.history, t) = {}
  /\ a.history = << >> => \A i \in DOMAIN b.history : b.history[i].source = "bootstrap"

LEMMA BaselineDays ==
  ASSUME NEW a \in Account, NEW start \in Nat, NEW t \in Int
  PROVE  BaselineDay(a, EnsureStatusBaseline(a, start), t)
<1> DEFINE b == EnsureStatusBaseline(a, start)
           eff == IF a.created > Midnight(start) THEN a.created ELSE Midnight(start)
           c == [prev |-> "null", new |-> a.status, source |-> "bootstrap", eff |-> eff]
<1>1. /\ a.created \in Int /\ a.deleted \in Int /\ a.status \in AccountStatus
      /\ Midnight(start) \in Int
  BY DEF Account, Midnight
<1>2. CASE a.history # << >> \/ ~Exists(a)
  <2>1. b = a
    BY <1>2 DEF EnsureStatusBaseline
  <2>2. a.history = << >> => DOMAIN a.history = {}
    OBVIOUS
  <2>3. ~Exists(a) => ~ActiveUnrecorded(a, t)
    BY DEF ActiveUnrecorded, Undeleted
  <2> HIDE DEF b
  <2> QED
    BY <1>2, <2>1, <2>2, <2>3 DEF BaselineDay, b, ActiveUnrecorded
<1>3. CASE a.history = << >> /\ Exists(a)
  <2>1. /\ eff \in Int /\ a.created <= eff
    BY <1>1
  <2>2. "bootstrap" \in StatusChangeSource /\ a.status \in AccountStatus
        /\ "null" \in AccountStatus \union {"null"}
    BY <1>1 DEF StatusChangeSource
  <2>3. b = AddHistory(a, "null", a.status, "bootstrap", eff)
    BY <1>3 DEF EnsureStatusBaseline, AddInitialHistory
  <2> HIDE DEF eff
  <2>4. c \in StatusChange /\ c.eff = eff /\ c.new = a.status /\ c.source = "bootstrap"
    BY <2>1, <2>2 DEF StatusChange
  <2>5. b \in Account
    BY <2>1, <2>2, <2>3, AddHistoryType
  <2>6. /\ b.history = Append(<< >>, c) /\ b.created = a.created
        /\ b.deleted = a.deleted /\ b.status = a.status
    BY <1>3, <2>3, <2>5 DEF AddHistory, Account
  <2> HIDE DEF b, c
  <2>7. DOMAIN b.history = {1} /\ b.history[1] = c /\ b.history # << >>
    BY <2>4, <2>6
  <2>8. UpTo(b.history, t) = IF eff <= t THEN {1} ELSE {}
    BY <2>4, <2>7 DEF UpTo
  <2>9. LatestUpTo(b.history, t) = IF eff <= t THEN {c} ELSE {}
    <3>1. NotAfter(b.history, 1, 1)
      BY DEF NotAfter
    <3> QED
      BY <2>7, <2>8, <3>1 DEF LatestUpTo
  <2>10. ActiveAt(b, t) <=> eff <= t /\ a.status = "active" /\ Undeleted(a, t)
    BY <2>4, <2>6, <2>9 DEF ActiveAt, Undeleted, Exists
  <2>11. ActiveAt(b, t) => ActiveUnrecorded(a, t)
    BY <1>3, <2>10 DEF ActiveUnrecorded
  <2>12. ActiveUnrecorded(a, t) => ActiveAt(b, t) \/ UpTo(b.history, t) = {}
    BY <2>8, <2>10 DEF ActiveUnrecorded
  <2> QED
    BY <1>3, <2>4, <2>5, <2>6, <2>7, <2>11, <2>12 DEF BaselineDay, b
<1> QED
  BY <1>2, <1>3

-----------------------------------------------------------------------------
(* What is known of the record of a user *)

\* A user has no record before its creation; a deletion under way is of a live user.
RecordSound(u) ==
  /\ acct[u].deleted <= Now
  /\ deletes[u] # NotDeleting => Live(acct[u])
  /\ ~Exists(acct[u]) => acct[u].history = << >>

\* Who was active at the midnight of day d, as the record has it.
DaySound(u, d) ==
  LET a == acct[u]
      t == Midnight(d)
  IN  /\ ActiveAt(a, t) \/ ActiveUnrecorded(a, t) => u \in activeAt[d]
      /\ u \in activeAt[d] => /\ Exists(a)
                              /\ \/ ActiveAt(a, t)
                                 \/ UpTo(a.history, t) = {}
                                 \/ BlockedByThen(a, t)
                              /\ a.history = << >> => ActiveUnrecorded(a, t)

\* A run under a plan charged the user, or cannot tell that it was active.
PlanRun(d) == runs[d].status = "completed" /\ runs[d].plan # NoPlan
Accounted(u, d) ==
  \/ charges[u][d] # NoCharge
  \/ UpTo(acct[u].history, Midnight(d)) = {} /\ acct[u].history # << >>
  \/ BlockedByThen(acct[u], Midnight(d))

UserDaysSound(u) ==
  /\ RecordSound(u)
  /\ \A d \in Day : /\ d <= today => DaySound(u, d)
                    /\ charges[u][d] # NoCharge => u \in activeAt[d] /\ d <= loop.target
                    /\ PlanRun(d) /\ u \in activeAt[d] => Accounted(u, d)

DaysInv == /\ Inv
           /\ \A u \in User : UserDaysSound(u)
           /\ \A d \in Day : PlanRun(d) => d <= today

-----------------------------------------------------------------------------
(* The requests *)

\* create_user
CreatedNow(a, b, now) ==
  /\ ~Exists(a) /\ b.created = now /\ b.deleted = Never
  /\ DOMAIN b.history = {1} /\ b.history[1].source = "admin" /\ b.history # << >>

Requested(a, b, now) == Grown(a, b, now) \/ Ended(a, b, now) \/ CreatedNow(a, b, now)

LEMMA NewAccountCreated ==
  ASSUME NEW a, ~Exists(a), NEW status \in AccountStatus, NEW balance \in Int,
         NEW limit \in Nat, NEW now \in Nat
  PROVE  CreatedNow(a, NewAccount(status, balance, limit, now), now)
<1> DEFINE r == [NoAccount EXCEPT !.status = status, !.balance = balance,
                                 !.limit = limit, !.created = now]
           c == [prev |-> "null", new |-> status, source |-> "admin", eff |-> now]
           b == [r EXCEPT !.history = Append(@, c)]
<1>1. NoAccount \in Account /\ NoAccount.history = << >> /\ NoAccount.deleted = Never /\ now \in Int
  BY NoAccountConsistent DEF NoAccount
<1>2. /\ r \in Account /\ r.history = << >> /\ r.created = now /\ r.status = status
      /\ r.deleted = Never
  BY <1>1 DEF Account
<1>3. c \in StatusChange /\ c.source = "admin"
  BY <1>1 DEF StatusChange, StatusChangeSource
<1>4. NewAccount(status, balance, limit, now) = b
  <2>1. NewAccount(status, balance, limit, now) = AddHistory(r, "null", r.status, "admin", now)
    BY DEF NewAccount, AddInitialHistory, AccountRow
  <2> HIDE DEF r
  <2> QED
    BY <1>2, <2>1 DEF AddHistory
<1> HIDE DEF r, c
<1>5. b.history = Append(<< >>, c) /\ b.created = now /\ b.deleted = Never
  BY <1>2 DEF Account
<1> HIDE DEF b
<1>6. DOMAIN b.history = {1} /\ b.history[1] = c /\ b.history # << >>
  BY <1>3, <1>5
<1> QED
  BY <1>3, <1>4, <1>5, <1>6 DEF CreatedNow

\* A request changes the record of its user only, with rows of now.
RequestStep(u) ==
  /\ UNCHANGED <<today, runs, charges, snapshots, loop, activeAt>>
  /\ \A v \in User \ {u} : acct'[v] = acct[v] /\ deletes'[v] = deletes[v]
  /\ Requested(acct[u], acct'[u], Now)
  /\ deletes'[u] # NotDeleting => Live(acct'[u])
  /\ ~Exists(acct'[u]) => acct'[u].history = acct[u].history /\ ~Exists(acct[u])

LEMMA StoreStep ==
  ASSUME Inv, NEW u \in User, NEW row \in Account, Store(u, row),
         \A v \in User \ {u} : deletes'[v] = deletes[v],
         \/ Grown(acct[u], row, Now) /\ Exists(acct[u]) /\ (deletes'[u] # NotDeleting => Live(acct[u]))
         \/ Ended(acct[u], row, Now) /\ Exists(acct[u]) /\ deletes'[u] = NotDeleting
         \/ CreatedNow(acct[u], row, Now)
  PROVE  RequestStep(u)
<1>1. /\ acct'[u] = row /\ \A v \in User \ {u} : acct'[v] = acct[v]
      /\ UNCHANGED <<today, runs, charges, snapshots, loop, activeAt>>
  BY DEF Store, Inv, TypeOK
<1>2. Now # Never
  BY NowTypes DEF Inv, Never
<1> QED
  BY <1>1, <1>2 DEF RequestStep, Requested, Grown, Ended, Longer, CreatedNow, Live, Exists

LEMMA UserRequestStep ==
  ASSUME Inv, NEW u \in User, RecordSound(u), UserRequest(u)
  PROVE  RequestStep(u)
<1>1. /\ acct[u] \in Account
      /\ acct[u].balance \in Int /\ acct[u].limit \in Nat /\ acct[u].status \in AccountStatus
  BY DEF Inv, TypeOK, Account
<1>2. /\ Now \in Nat /\ Now \in Int
      /\ \A b \in Balances : b \in Int
      /\ \A l \in Limits : l \in Nat
      /\ \A c \in Credits : c \in Int
  BY NowTypes, BillingAssumption DEF Inv, TypeOK
<1>3. deletes[u] # NotDeleting => Live(acct[u])
  BY DEF RecordSound
<1>4. CASE CreateUser(u)
  <2>1. PICK s \in AccountStatus, b \in Balances, l \in Limits :
          Store(u, NewAccount(s, b, l, Now))
    BY <1>4 DEF CreateUser
  <2>2. /\ NewAccount(s, b, l, Now) \in Account
        /\ CreatedNow(acct[u], NewAccount(s, b, l, Now), Now)
    BY <1>2, <1>4, NewAccountConsistent, NewAccountCreated DEF CreateUser
  <2>3. deletes' = deletes
    BY <1>4 DEF CreateUser
  <2> QED
    BY <1>3, <2>1, <2>2, <2>3, StoreStep
<1>5. CASE UpdateUser(u)
  <2>1. PICK s \in AccountStatus, b \in Balances \union {acct[u].balance},
             l \in Limits \union {acct[u].limit} :
          Store(u, EditAccount(acct[u], s, b, l, Now))
    BY <1>5 DEF UpdateUser
  <2>2. b \in Int /\ l \in Nat
    BY <1>1, <1>2
  <2>3. /\ EditAccount(acct[u], s, b, l, Now) \in Account
        /\ Grown(acct[u], EditAccount(acct[u], s, b, l, Now), Now)
    BY <1>1, <1>2, <2>2, EditGrown
  <2>4. deletes' = deletes /\ Live(acct[u])
    BY <1>5 DEF UpdateUser
  <2> QED
    BY <2>1, <2>3, <2>4, StoreStep DEF Live
<1>6. CASE StartDelete(u)
  <2>1. UNCHANGED <<today, acct, runs, charges, snapshots, loop, activeAt>>
    BY <1>6 DEF StartDelete, database, ghosts
  <2>2. Live(acct[u]) /\ \A v \in User \ {u} : deletes'[v] = deletes[v]
    BY <1>6 DEF StartDelete, Inv, TypeOK
  <2> QED
    BY <1>1, <2>1, <2>2, GrownSame DEF RequestStep, Requested, Live
<1>7. CASE FinishDelete(u)
  <2>1. /\ deletes[u] \in AccountStatus /\ deletes'[u] = NotDeleting /\ Live(acct[u])
        /\ \A v \in User \ {u} : deletes'[v] = deletes[v]
    BY <1>3, <1>7 DEF FinishDelete, Inv, TypeOK
  <2>2. CASE Store(u, DeleteAccount(acct[u], deletes[u], Now))
    <3>1. /\ DeleteAccount(acct[u], deletes[u], Now) \in Account
          /\ Ended(acct[u], DeleteAccount(acct[u], deletes[u], Now), Now)
      BY <1>1, <1>2, <2>1, DeleteEnded
    <3> QED
      BY <2>1, <2>2, <3>1, StoreStep DEF Live
  <2>3. CASE UNCHANGED <<today, database, loop, faults, ghosts>>
    <3>1. UNCHANGED <<today, acct, runs, charges, snapshots, loop, activeAt>>
      BY <2>3 DEF database, ghosts
    <3> QED
      BY <1>1, <2>1, <3>1, GrownSame DEF RequestStep, Requested
  <2> QED
    BY <1>7, <2>2, <2>3 DEF FinishDelete
<1>8. CASE TopUp(u)
  <2>1. PICK amount \in Credits : Store(u, CreditAccount(acct[u], amount, Now))
    BY <1>8 DEF TopUp
  <2>2. /\ CreditAccount(acct[u], amount, Now) \in Account
        /\ Grown(acct[u], CreditAccount(acct[u], amount, Now), Now)
    BY <1>1, <1>2, CreditGrown
  <2>3. deletes' = deletes /\ Live(acct[u])
    BY <1>8 DEF TopUp
  <2> QED
    BY <2>1, <2>2, <2>3, StoreStep DEF Live
<1>9. CASE Activate(u)
  <2>1. /\ ActivateAccount(acct[u], Now) \in Account
        /\ Grown(acct[u], ActivateAccount(acct[u], Now), Now)
    BY <1>1, <1>2, ActivateGrown
  <2>2. deletes' = deletes /\ Live(acct[u]) /\ Store(u, ActivateAccount(acct[u], Now))
    BY <1>9 DEF Activate, MayActivate
  <2> QED
    BY <2>1, <2>2, StoreStep DEF Live
<1>10. CASE TakeVpnJob(u)
  <2> DEFINE row == [acct[u] EXCEPT !.job = "none"]
  <2>1. /\ row \in Account /\ row.history = acct[u].history /\ row.status = acct[u].status
        /\ row.created = acct[u].created /\ row.deleted = acct[u].deleted
    BY <1>1 DEF Account, VpnSyncJob
  <2>2. /\ acct' = [acct EXCEPT ![u] = row]
        /\ UNCHANGED <<today, runs, charges, snapshots, loop, deletes, activeAt>>
    BY <1>10 DEF TakeVpnJob, ghosts
  <2> HIDE DEF row
  <2>3. acct'[u] = row /\ \A v \in User \ {u} : acct'[v] = acct[v]
    BY <2>2 DEF Inv, TypeOK
  <2> QED
    BY <1>1, <1>3, <2>1, <2>2, <2>3, GrownSame DEF RequestStep, Requested, Live, Exists
<1> QED
  BY <1>4, <1>5, <1>6, <1>7, <1>8, <1>9, <1>10 DEF UserRequest

\* What a request leaves of the days.
LEMMA RequestedDays ==
  ASSUME DaysInv, Inv', NEW u \in User,
         UNCHANGED <<today, charges, activeAt>>, loop.target <= loop'.target,
         \A d \in Day : PlanRun(d)' => PlanRun(d),
         Requested(acct[u], acct'[u], Now),
         deletes'[u] # NotDeleting => Live(acct'[u]),
         ~Exists(acct'[u]) => acct'[u].history = acct[u].history /\ ~Exists(acct[u])
  PROVE  UserDaysSound(u)'
<1> DEFINE a == acct[u]
           b == acct'[u]
<1>1. /\ a \in Account /\ b \in Account /\ Now' = Now /\ Now \in Nat /\ today \in Nat
      /\ Now = 2 * today + 1 /\ Day \subseteq Nat
  BY NowTypes DEF DaysInv, Inv, TypeOK, Now
<1>2. RecordSound(u) /\ UserDaysSound(u)
  BY DEF DaysInv, UserDaysSound
<1>3. RecordSound(u)'
  <2>1. b.deleted <= Now
    BY <1>1, <1>2 DEF RecordSound, Requested, Grown, Ended, CreatedNow, Never
  <2> QED
    BY <1>1, <1>2, <2>1 DEF RecordSound
<1>4. ASSUME NEW d \in Day, d <= today
      PROVE  DaySound(u, d)' /\ (Accounted(u, d) /\ u \in activeAt[d] => Accounted(u, d)')
  <2> DEFINE t == Midnight(d)
  <2>1. t \in Int /\ t < Now /\ DaySound(u, d)
    BY <1>1, <1>2, <1>4 DEF Midnight, UserDaysSound
  <2>2. CASE Grown(a, b, Now) \/ Ended(a, b, Now)
    <3>1. SameDay(a, b, t)
      BY <1>1, <2>1, <2>2, GrownDay
    <3>2. Exists(b) <=> Exists(a)
      BY <2>2 DEF Grown, Ended, Longer, Exists
    <3>3. a.history # << >> => b.history # << >>
      BY <3>1 DEF SameDay
    <3>4. DaySound(u, d)'
      BY <2>1, <3>1, <3>2 DEF DaySound, SameDay, ActiveUnrecorded
    <3> QED
      BY <3>1, <3>3, <3>4 DEF Accounted, SameDay
  <2>3. CASE CreatedNow(a, b, Now)
    <3>1. u \notin activeAt[d]
      BY <2>1, <2>3 DEF DaySound, CreatedNow
    <3>2. ~ActiveAt(b, t) /\ ~ActiveUnrecorded(b, t)
      BY <1>1, <2>1, <2>3 DEF CreatedNow, ActiveAt, ActiveUnrecorded
    <3> QED
      BY <3>1, <3>2 DEF DaySound
  <2> QED
    BY <2>2, <2>3 DEF Requested
<1>5. ASSUME NEW d \in Day
      PROVE  /\ d <= today' => DaySound(u, d)'
             /\ charges'[u][d] # NoCharge => u \in activeAt'[d] /\ d <= loop'.target
             /\ PlanRun(d)' /\ u \in activeAt'[d] => Accounted(u, d)'
  <2>1. PlanRun(d)' => PlanRun(d) /\ d <= today
    BY DEF DaysInv
  <2>2. d \in Int /\ loop.target \in Int /\ loop'.target \in Int
    <3>1. TypeOK /\ TypeOK'
      BY DEF DaysInv, Inv
    <3>2. loop'.target \in Day
      BY <3>1 DEF TypeOK
    <3>3. loop.target \in Nat
      BY <3>1, LoopTypes
    <3>4. d \in Nat /\ loop'.target \in Nat
      BY <1>1, <3>2
    <3> QED
      BY <3>3, <3>4
  <2> QED
    BY <1>2, <1>4, <2>1, <2>2 DEF UserDaysSound
<1> QED
  BY <1>3, <1>5 DEF UserDaysSound

\* A step that grows the records and bills no date.
LEMMA RequestedAll ==
  ASSUME DaysInv, Inv',
         UNCHANGED <<today, charges, activeAt>>, loop.target <= loop'.target,
         \A d \in Day : PlanRun(d)' => PlanRun(d),
         \A u \in User : /\ Requested(acct[u], acct'[u], Now)
                         /\ deletes'[u] # NotDeleting => Live(acct'[u])
                         /\ ~Exists(acct'[u]) => acct'[u].history = acct[u].history
                                                 /\ ~Exists(acct[u])
  PROVE  DaysInv'
<1>1. \A u \in User : UserDaysSound(u)'
  BY RequestedDays
<1>2. \A d \in Day : PlanRun(d)' => d <= today'
  BY DEF DaysInv
<1> QED
  BY <1>1, <1>2 DEF DaysInv

\* Every record grows by rows of now, or is a new one.
RecordsGrow ==
  \A u \in User : /\ Requested(acct[u], acct'[u], Now)
                  /\ deletes'[u] # NotDeleting => Live(acct'[u])
                  /\ ~Exists(acct'[u]) => acct'[u].history = acct[u].history
                                          /\ ~Exists(acct[u])

LEMMA UserRequestGrows ==
  ASSUME DaysInv, NEW u \in User, UserRequest(u)
  PROVE  RecordsGrow /\ UNCHANGED <<today, runs, charges, snapshots, loop, activeAt>>
<1>1. Inv /\ \A v \in User : RecordSound(v) /\ acct[v] \in Account
  BY DEF DaysInv, UserDaysSound, Inv, TypeOK
<1>2. RequestStep(u)
  BY <1>1, UserRequestStep
<1>3. ASSUME NEW v \in User
      PROVE  /\ Requested(acct[v], acct'[v], Now)
             /\ deletes'[v] # NotDeleting => Live(acct'[v])
             /\ ~Exists(acct'[v]) => acct'[v].history = acct[v].history /\ ~Exists(acct[v])
  <2>1. CASE v = u
    BY <1>2, <2>1 DEF RequestStep
  <2>2. CASE v # u
    <3>1. acct'[v] = acct[v] /\ deletes'[v] = deletes[v]
      BY <1>2, <2>2 DEF RequestStep
    <3> QED
      BY <1>1, <3>1, GrownSame DEF Requested, RecordSound
  <2> QED
    BY <2>1, <2>2
<1> QED
  BY <1>2, <1>3 DEF RequestStep, RecordsGrow

LEMMA UserRequestDays ==
  ASSUME DaysInv, NEW u \in User, UserRequest(u)
  PROVE  DaysInv'
<1>1. Inv /\ Inv'
  BY UserRequestKeeps DEF DaysInv
<1>2. RecordsGrow /\ UNCHANGED <<today, runs, charges, loop, activeAt>>
  BY UserRequestGrows
<1>3. loop.target <= loop'.target /\ \A d \in Day : PlanRun(d)' => PlanRun(d)
  BY <1>1, <1>2, LoopTypes DEF PlanRun, Inv
<1> QED
  BY <1>1, <1>2, <1>3, RequestedAll DEF RecordsGrow

LEMMA SameRecordsGrow ==
  ASSUME DaysInv, acct' = acct,
         \A u \in User : deletes'[u] # NotDeleting => deletes[u] # NotDeleting
  PROVE  RecordsGrow
<1>1. \A u \in User : acct[u] \in Account /\ RecordSound(u)
  BY DEF DaysInv, Inv, TypeOK, UserDaysSound
<1> QED
  BY <1>1, GrownSame DEF RecordsGrow, Requested, RecordSound

\* A step that leaves every record as it is.
LEMMA SameRecordsDays ==
  ASSUME DaysInv, Inv', UNCHANGED <<today, acct, charges, activeAt>>,
         loop.target <= loop'.target,
         \A d \in Day : PlanRun(d)' => PlanRun(d),
         \A u \in User : deletes'[u] # NotDeleting => deletes[u] # NotDeleting
  PROVE  DaysInv'
  BY SameRecordsGrow, RequestedAll DEF RecordsGrow

LEMMA PlanRequestDays ==
  ASSUME DaysInv, NEW id \in PlanId, PlanRequest(id)
  PROVE  DaysInv'
<1>1. Inv' /\ Inv
  BY PlanRequestKeeps DEF DaysInv
<1>2. UNCHANGED <<today, acct, runs, charges, loop, deletes, activeAt>>
  BY DEF PlanRequest, CreatePlan, UpdatePlan, DeletePlan, StorePlans, ghosts
<1>3. loop.target <= loop'.target /\ \A d \in Day : PlanRun(d)' => PlanRun(d)
  BY <1>1, <1>2, LoopTypes DEF PlanRun, Inv
<1> QED
  BY <1>1, <1>2, <1>3, SameRecordsDays

-----------------------------------------------------------------------------
(* The steps of the loop between the charges *)

\* What FailedDate leaves of the runs under a plan.
LEMMA FailedDateRuns ==
  ASSUME Inv, loop.pc = "billing", FailedDate
  PROVE  \A d \in Day : PlanRun(d)' => PlanRun(d)
<1>1. loop.cursor \in Day /\ runs \in [Day -> Run]
  BY LoopTypes DEF Inv, TypeOK
<1>2. runs' = [runs EXCEPT ![loop.cursor].status = "failed"]
  BY DEF FailedDate
<1>3. [runs[loop.cursor] EXCEPT !.status = "failed"].status = "failed"
  BY <1>1 DEF Run
<1> QED
  BY <1>1, <1>2, <1>3 DEF PlanRun

LEMMA FailedDateDays ==
  ASSUME DaysInv, Inv', loop.pc = "billing", FailedDate
  PROVE  DaysInv'
<1>1. \A d \in Day : PlanRun(d)' => PlanRun(d)
  BY FailedDateRuns DEF DaysInv
<1>2. loop \in Loop /\ loop.target \in Nat
  BY LoopTypes DEF DaysInv, Inv
<1>3. loop' = [loop EXCEPT !.pc = "waiting", !.notices = NoNotices]
      /\ UNCHANGED <<today, acct, charges, activeAt, deletes>>
  BY DEF FailedDate, ghosts
<1>4. loop.target <= loop'.target
  BY <1>2, <1>3 DEF Loop
<1> QED
  BY <1>1, <1>3, <1>4, SameRecordsDays

LEMMA OtherLoopStepsDays ==
  ASSUME DaysInv, \/ StartCatchUp \/ SkipBilledDate \/ CompleteWithoutPlan \/ ProviderFails
                  \/ DuplicateCharge \/ DatabaseError \/ SendNotices \/ Crash
  PROVE  DaysInv'
<1>1. Inv /\ Inv'
  BY OtherLoopStepsKeep DEF DaysInv
<1>2. loop \in Loop /\ loop.target \in Nat /\ loop.target <= today /\ today \in Nat
      /\ runs \in [Day -> Run]
  BY <1>1, LoopTypes, NowTypes DEF Inv, AccountsConsistent, TypeOK
<1>3. \A d \in Day : UNCHANGED runs => (PlanRun(d)' => PlanRun(d))
  BY DEF PlanRun
<1>4. \A notices : NextDate(notices).target = loop.target
  BY <1>2 DEF NextDate, Loop
<1>5. CASE StartCatchUp
  <2>1. loop'.target = today /\ UNCHANGED <<today, acct, runs, charges, activeAt, deletes>>
    BY <1>2, <1>5 DEF StartCatchUp, database, ghosts, Loop
  <2> QED
    BY <1>1, <1>2, <1>3, <2>1, SameRecordsDays
<1>6. CASE SkipBilledDate
  <2>1. loop'.target = loop.target /\ UNCHANGED <<today, acct, runs, charges, activeAt, deletes>>
    BY <1>4, <1>6 DEF SkipBilledDate, database, ghosts
  <2> QED
    BY <1>1, <1>2, <1>3, <2>1, SameRecordsDays
<1>7. CASE CompleteWithoutPlan
  <2>1. loop'.target = loop.target /\ UNCHANGED <<today, acct, charges, activeAt, deletes>>
    BY <1>4, <1>7 DEF CompleteWithoutPlan, ghosts
  <2>2. \A d \in Day : PlanRun(d)' => PlanRun(d)
    <3>1. runs' = [runs EXCEPT ![loop.cursor] = [NoRun EXCEPT !.status = "completed"]]
      BY <1>7 DEF CompleteWithoutPlan
    <3>2. [NoRun EXCEPT !.status = "completed"].plan = NoPlan
      BY DEF NoRun
    <3> QED
      BY <1>2, <3>1, <3>2 DEF PlanRun
  <2> QED
    BY <1>1, <1>2, <2>1, <2>2, SameRecordsDays
<1>8. CASE ProviderFails \/ DuplicateCharge \/ DatabaseError
  <2>1. loop.pc = "billing" /\ FailedDate
    BY <1>8 DEF ProviderFails, DuplicateCharge, DatabaseError, MayCharge
  <2> QED
    BY <1>1, <2>1, FailedDateDays
<1>9. CASE SendNotices
  <2>1. loop'.target = loop.target /\ UNCHANGED <<today, acct, runs, charges, activeAt, deletes>>
    BY <1>2, <1>9 DEF SendNotices, database, ghosts, Loop
  <2> QED
    BY <1>1, <1>2, <1>3, <2>1, SameRecordsDays
<1>10. CASE Crash
  <2>1. loop'.target = loop.target /\ UNCHANGED <<today, acct, runs, charges, activeAt>>
        /\ \A u \in User : deletes'[u] = NotDeleting
    BY <1>2, <1>10 DEF Crash, database, ghosts, Loop
  <2> QED
    BY <1>1, <1>2, <1>3, <2>1, SameRecordsDays
<1> QED
  BY <1>5, <1>6, <1>7, <1>8, <1>9, <1>10

LEMMA SyncPausedProfilesGrows ==
  ASSUME DaysInv, SyncPausedProfiles
  PROVE  RecordsGrow
<1>1. Inv
  BY DEF DaysInv
<1>2. PICK queued \in SUBSET {u \in User : PausedBeforeToday(acct[u])} :
        acct' = [u \in User |-> IF u \in queued THEN QueueVpnSync(acct[u], FALSE) ELSE acct[u]]
  BY DEF SyncPausedProfiles
<1>3. deletes' = deletes
  BY DEF SyncPausedProfiles
<1>4. ASSUME NEW u \in User
      PROVE  /\ Requested(acct[u], acct'[u], Now)
             /\ deletes'[u] # NotDeleting => Live(acct'[u])
             /\ ~Exists(acct'[u]) => acct'[u].history = acct[u].history /\ ~Exists(acct[u])
  <2>1. acct[u] \in Account /\ RecordSound(u) /\ FALSE \in BOOLEAN
    BY <1>1 DEF Inv, TypeOK, DaysInv, UserDaysSound
  <2>2. /\ QueueVpnSync(acct[u], FALSE).history = acct[u].history
        /\ QueueVpnSync(acct[u], FALSE).created = acct[u].created
        /\ QueueVpnSync(acct[u], FALSE).deleted = acct[u].deleted
    BY <2>1 DEF QueueVpnSync, Account
  <2>3. Grown(acct[u], acct'[u], Now)
    BY <1>2, <2>1, QueueGrown, GrownSame
  <2>4. /\ acct'[u].history = acct[u].history /\ acct'[u].created = acct[u].created
        /\ acct'[u].deleted = acct[u].deleted
    BY <1>2, <2>2
  <2> QED
    BY <1>3, <2>1, <2>3, <2>4 DEF Requested, RecordSound, Live, Exists
<1> QED
  BY <1>4 DEF RecordsGrow

LEMMA SyncPausedProfilesDays ==
  ASSUME DaysInv, SyncPausedProfiles
  PROVE  DaysInv'
<1>1. Inv /\ Inv'
  BY SyncPausedProfilesKeeps DEF DaysInv
<1>2. loop' = [loop EXCEPT !.pc = "waiting", !.wake = today + 1]
      /\ UNCHANGED <<today, runs, charges, activeAt>>
  BY DEF SyncPausedProfiles, ghosts
<1>3. loop.target <= loop'.target /\ \A d \in Day : PlanRun(d)' => PlanRun(d)
  BY <1>1, <1>2, LoopTypes DEF Inv, Loop, PlanRun
<1> QED
  BY <1>1, <1>2, <1>3, SyncPausedProfilesGrows, RequestedAll DEF RecordsGrow

-----------------------------------------------------------------------------
(* Midnight *)

\* A history that is not empty has a latest row: of the rows effective last, the
\* one recorded last.
LEMMA LatestExists ==
  ASSUME NEW h \in Seq(StatusChange), NEW now \in Int, h # << >>,
         \A i \in DOMAIN h : h[i].eff <= now
  PROVE  Latest(h) # {}
<1>1. /\ Len(h) \in Nat /\ DOMAIN h = 1 .. Len(h) /\ Len(h) # 0
      /\ \A i \in DOMAIN h : i \in Nat /\ h[i].eff \in Int
  BY RowTypes, LenProperties, EmptySeq
<1> DEFINE n == Len(h)
           age(i) == now - h[i].eff
           ages == {age(i) : i \in DOMAIN h}
<1>2. ages \in SUBSET Nat /\ ages # {}
  <2>1. \A i \in DOMAIN h : age(i) \in Nat
    BY <1>1
  <2>2. 1 \in DOMAIN h
    BY <1>1
  <2> HIDE DEF age
  <2> QED
    BY <2>1, <2>2
<1>3. PICK m \in ages : \A y \in ages : m <= y
  BY <1>2, LeastExists
<1> DEFINE back == {n - i : i \in {k \in DOMAIN h : age(k) = m}}
<1>4. back \in SUBSET Nat /\ back # {}
  <2>1. \A i \in DOMAIN h : n - i \in Nat
    BY <1>1
  <2>2. PICK k \in DOMAIN h : age(k) = m
    BY <1>3
  <2> HIDE DEF age, n
  <2> QED
    BY <2>1, <2>2
<1>5. PICK p \in back : \A y \in back : p <= y
  BY <1>4, LeastExists
<1>6. PICK k \in DOMAIN h : p = n - k /\ age(k) = m
  BY <1>5
<1>7. ASSUME NEW j \in DOMAIN h
      PROVE  NotAfter(h, j, k)
  <2>1. /\ h[j].eff \in Int /\ h[k].eff \in Int /\ j \in Nat /\ k \in Nat /\ n \in Nat
    BY <1>1
  <2>2. age(k) <= age(j)
    BY <1>3, <1>6
  <2>3. age(j) = m => n - k <= n - j
    BY <1>5, <1>6
  <2>4. CASE age(j) = age(k)
    BY <1>6, <2>1, <2>3, <2>4 DEF NotAfter
  <2>5. CASE age(j) # age(k)
    BY <2>1, <2>2, <2>5 DEF NotAfter
  <2> QED
    BY <2>4, <2>5
<1> QED
  BY <1>6, <1>7 DEF Latest

\* After all its rows the record of a user says what its status is.
LEMMA NowRecorded ==
  ASSUME NEW a \in Account, NEW now \in Nat, HistoryOK(a, now), a.deleted <= now,
         ~Exists(a) => a.history = << >>, NEW t \in Int, now < t
  PROVE  /\ ActiveAt(a, t) \/ ActiveUnrecorded(a, t) <=> ActiveNow(a)
         /\ ActiveNow(a) /\ a.history = << >> => UpTo(a.history, t) = {} /\ ActiveUnrecorded(a, t)
         /\ ActiveNow(a) /\ a.history # << >> => ActiveAt(a, t)
<1> DEFINE h == a.history
<1>1. /\ h \in Seq(StatusChange) /\ \A i \in DOMAIN h : h[i].eff \in Int
      /\ a.created \in Int /\ a.deleted \in Int
  BY HistoryShape
<1>2. /\ a.created <= t /\ (a.deleted = Never \/ a.deleted > t <=> a.deleted = Never)
  BY <1>1 DEF HistoryOK, Never
<1>3. Undeleted(a, t) <=> Live(a)
  BY <1>2 DEF Undeleted, Live
<1>4. UpTo(h, t) = DOMAIN h
  BY <1>1 DEF UpTo, HistoryOK, SoundHistory
<1>5. LatestUpTo(h, t) = Latest(h)
  BY <1>4 DEF LatestUpTo, Latest
<1>6. \A c \in Latest(h) : c.new = a.status
  BY DEF HistoryOK, StatusIsLatest
<1>7. h # << >> => Latest(h) # {}
  <2>1. now \in Int /\ \A i \in DOMAIN h : h[i].eff <= now
    BY DEF HistoryOK, SoundHistory
  <2> HIDE DEF h
  <2> QED
    BY <1>1, <2>1, LatestExists
<1>8. h = << >> => Latest(h) = {} /\ DOMAIN h = {}
  BY DEF Latest
<1>9. ActiveAt(a, t) <=> Live(a) /\ \E c \in Latest(h) : c.new = "active"
  BY <1>2, <1>5 DEF ActiveAt, Live
<1>10. ActiveUnrecorded(a, t) <=> h = << >> /\ a.status = "active" /\ Live(a)
  BY <1>3 DEF ActiveUnrecorded
<1> HIDE DEF h
<1> QED
  BY <1>4, <1>6, <1>7, <1>8, <1>9, <1>10 DEF ActiveNow, h

LEMMA NextDayDays ==
  ASSUME DaysInv, NextDay
  PROVE  DaysInv'
<1>1. Inv /\ Inv'
  BY NextDayKeeps DEF DaysInv
<1>2. /\ today' = today + 1 /\ today < MaxDay /\ MaxDay \in Nat /\ today \in Nat
      /\ Now = 2 * today + 1 /\ Now' = 2 * today + 3 /\ Now \in Nat
      /\ Day \subseteq Nat /\ today + 1 \in Day
      /\ loop.target \in Nat /\ loop.target <= today
  <2>1. /\ today \in Nat /\ MaxDay \in Nat /\ loop.target \in Nat
        /\ loop.target <= today /\ Day \subseteq Nat
    BY <1>1, NowTypes, LoopTypes, BillingAssumption DEF Inv, AccountsConsistent
  <2>2. today' = today + 1 /\ today < MaxDay
    BY DEF NextDay
  <2>3. today + 1 \in Day
    BY <2>1, <2>2 DEF Day
  <2>4. Now = 2 * today + 1 /\ Now' = 2 * today' + 1
    BY DEF Now, During
  <2> QED
    BY <2>1, <2>2, <2>3, <2>4
<1>3. UNCHANGED <<acct, runs, charges, loop, deletes>>
  BY DEF NextDay, database
<1>4. /\ activeAt'[today + 1] = {u \in User : ActiveNow(acct[u])}
      /\ \A d \in Day : d <= today => activeAt'[d] = activeAt[d]
  <2>1. activeAt \in [Day -> SUBSET User]
    BY <1>1 DEF Inv, TypeOK
  <2>2. \A d \in Day : d <= today => d # today + 1
    BY <1>2
  <2> QED
    BY <1>2, <2>1, <2>2 DEF NextDay
<1>5. ASSUME NEW u \in User
      PROVE  UserDaysSound(u)'
  <2>1. /\ UserDaysSound(u) /\ RecordSound(u) /\ acct[u] \in Account
        /\ HistoryOK(acct[u], Now)
    BY <1>1 DEF DaysInv, UserDaysSound, Inv, TypeOK, AccountsConsistent, Consistent
  <2>2. acct[u].deleted \in Int
    BY <2>1, HistoryShape
  <2>3. RecordSound(u)'
    BY <1>2, <1>3, <2>1, <2>2 DEF RecordSound
  <2>4. ASSUME NEW d \in Day, d <= today'
        PROVE  DaySound(u, d)'
    <3>1. CASE d <= today
      <4>1. DaySound(u, d)
        BY <2>1, <3>1 DEF UserDaysSound
      <4> QED
        BY <1>3, <1>4, <3>1, <4>1 DEF DaySound
    <3>2. CASE d = today + 1
      <4> DEFINE t == Midnight(d)
      <4>1. t \in Int /\ Now < t
        BY <1>2, <3>2 DEF Midnight
      <4>2. /\ ActiveAt(acct[u], t) \/ ActiveUnrecorded(acct[u], t) <=> ActiveNow(acct[u])
            /\ ActiveNow(acct[u]) /\ acct[u].history = << >>
                 => UpTo(acct[u].history, t) = {} /\ ActiveUnrecorded(acct[u], t)
            /\ ActiveNow(acct[u]) /\ acct[u].history # << >> => ActiveAt(acct[u], t)
        <5> HIDE DEF t
        <5> QED
          BY <1>2, <2>1, <4>1, NowRecorded DEF RecordSound
      <4>3. u \in activeAt'[d] <=> ActiveNow(acct[u])
        BY <1>4, <3>2
      <4> QED
        BY <1>3, <4>2, <4>3 DEF DaySound, ActiveNow, Live
    <3> QED
      BY <1>2, <2>4, <3>1, <3>2
  <2>5. ASSUME NEW d \in Day
        PROVE  /\ charges'[u][d] # NoCharge => u \in activeAt'[d] /\ d <= loop'.target
               /\ PlanRun(d)' /\ u \in activeAt'[d] => Accounted(u, d)'
    <3>1. d \in Nat /\ (charges[u][d] # NoCharge => u \in activeAt[d] /\ d <= loop.target)
          /\ (PlanRun(d) => d <= today)
          /\ (PlanRun(d) /\ u \in activeAt[d] => Accounted(u, d))
      BY <1>2, <2>1 DEF UserDaysSound, DaysInv
    <3>2. charges'[u][d] # NoCharge => d <= today /\ d <= loop'.target /\ u \in activeAt[d]
      BY <1>2, <1>3, <3>1
    <3>3. PlanRun(d)' => PlanRun(d)
      BY <1>3 DEF PlanRun
    <3>4. Accounted(u, d) => Accounted(u, d)'
      BY <1>3 DEF Accounted
    <3> QED
      BY <1>4, <3>1, <3>2, <3>3, <3>4
  <2> QED
    BY <2>3, <2>4, <2>5 DEF UserDaysSound
<1>6. \A d \in Day : PlanRun(d)' => d <= today'
  <2>1. \A d \in Day : PlanRun(d)' => PlanRun(d) /\ d <= today /\ d \in Nat
    BY <1>2, <1>3 DEF PlanRun, DaysInv
  <2> QED
    BY <1>2, <2>1
<1> QED
  BY <1>1, <1>5, <1>6 DEF DaysInv

-----------------------------------------------------------------------------
(* A date is billed *)

\* What ChargeDate does to the rows of one user, and to the run of the date.
RowCharged(u, taken) ==
  [base |-> DailyAmount,
   extra |-> IF AdditionalProfiles(ProfileCountForDate(taken[u], loop.cursor)) > 0
             THEN ExtraCharge(taken[u]) ELSE NoAmount]

ChargedRun ==
  [status |-> "completed", plan |-> PlanNow, active |-> Cardinality(ActiveUsers),
   charged |-> Cardinality(ActiveUsers),
   blocked |-> Cardinality({u \in ActiveUsers : OutOfMoney(acct'[u])}),
   daily |-> IF ActiveUsers = {} THEN NoAmount ELSE DailyAmount]

ChargeStep(taken) ==
  /\ taken \in SnapshotsAfter /\ snapshots' = taken
  /\ MayCharge /\ ~ChargeExists
  /\ \A u \in User :
       acct'[u] = IF u \in ActiveUsers
                  THEN ChargeAccount(WithBaselines[u], DailyAmount + ExtraCharge(taken[u]),
                                     Midnight(loop.cursor))
                  ELSE WithBaselines[u]
  /\ \A u \in User :
       charges'[u] = IF u \in ActiveUsers
                     THEN [charges[u] EXCEPT ![loop.cursor] = RowCharged(u, taken)]
                     ELSE charges[u]
  /\ runs' = [runs EXCEPT ![loop.cursor] = ChargedRun]
  /\ loop'.target = loop.target
  /\ UNCHANGED <<today, plans, deletes, activeAt>>

LEMMA ChargeDateStep ==
  ASSUME Inv, ChargeDate
  PROVE  \E taken : ChargeStep(taken)
<1>1. loop \in Loop /\ ActiveUsers \subseteq User
  BY LoopTypes DEF Inv, ActiveUsers
<1>2. PICK taken \in SnapshotsAfter :
        LET extra    == [u \in User |-> ExtraCharge(taken[u])]
            profiles == [u \in User |-> AdditionalProfiles(ProfileCountForDate(taken[u], loop.cursor))]
            after    == [u \in User |->
                           IF u \in ActiveUsers
                           THEN ChargeAccount(WithBaselines[u], DailyAmount + extra[u],
                                              Midnight(loop.cursor))
                           ELSE WithBaselines[u]]
        IN /\ snapshots' = taken
           /\ acct' = after
           /\ charges' = [u \in User |->
                IF u \in ActiveUsers
                THEN [charges[u] EXCEPT ![loop.cursor] =
                        [base |-> DailyAmount,
                         extra |-> IF profiles[u] > 0 THEN extra[u] ELSE NoAmount]]
                ELSE charges[u]]
           /\ runs' = [runs EXCEPT ![loop.cursor] =
                [status |-> "completed", plan |-> PlanNow,
                 active |-> Cardinality(ActiveUsers),
                 charged |-> Cardinality(ActiveUsers),
                 blocked |-> Cardinality({u \in ActiveUsers : OutOfMoney(after[u])}),
                 daily |-> IF ActiveUsers = {} THEN NoAmount ELSE DailyAmount]]
           /\ loop' = NextDate([u \in User |->
                IF u \in ActiveUsers
                THEN Merge(loop.notices[u],
                           NoticeKind(u, acct[u], after[u], DailyAmount + extra[u]))
                ELSE loop.notices[u]])
  BY DEF ChargeDate
<1>3. \A u \in User :
       acct'[u] = IF u \in ActiveUsers
                  THEN ChargeAccount(WithBaselines[u], DailyAmount + ExtraCharge(taken[u]),
                                     Midnight(loop.cursor))
                  ELSE WithBaselines[u]
  BY <1>2
<1>4. \A u \in User :
       charges'[u] = IF u \in ActiveUsers
                     THEN [charges[u] EXCEPT ![loop.cursor] = RowCharged(u, taken)]
                     ELSE charges[u]
  BY <1>2 DEF RowCharged
<1>5. runs' = [runs EXCEPT ![loop.cursor] = ChargedRun]
  BY <1>2 DEF ChargedRun
<1>6. loop'.target = loop.target
  <2>1. \A notices : NextDate(notices).target = loop.target
    BY <1>1 DEF NextDate, Loop
  <2> QED
    BY <1>2, <2>1
<1>7. MayCharge /\ ~ChargeExists /\ UNCHANGED <<today, plans, deletes, activeAt>>
  BY DEF ChargeDate, ghosts
<1> QED
  BY <1>2, <1>3, <1>4, <1>5, <1>6, <1>7 DEF ChargeStep

\* The types of a billed date.
LEMMA ChargeStepTypes ==
  ASSUME Inv, NEW taken, ChargeStep(taken)
  PROVE  /\ loop.cursor \in Day /\ loop.cursor \in Nat /\ loop.cursor <= loop.target
         /\ loop.target \in Nat /\ loop.target <= today /\ today \in Nat
         /\ Midnight(loop.cursor) \in Int /\ plans[PlanNow].start \in Nat
         /\ taken \in [User -> [Day -> Int]] /\ ActiveUsers \subseteq User
         /\ runs \in [Day -> Run] /\ charges \in [User -> [Day -> Charge]]
         /\ \A u \in User : acct[u] \in Account /\ WithBaselines[u] \in Account
         /\ \A u \in ActiveUsers : /\ DailyAmount \in Nat /\ ExtraCharge(taken[u]) \in Nat
                                   /\ DailyAmount + ExtraCharge(taken[u]) \in Nat
<1>1. MayCharge /\ taken \in SnapshotsAfter
  BY DEF ChargeStep
<1>2. TypeOK /\ AccountsConsistent
  BY DEF Inv
<1>3. /\ loop.cursor \in Day /\ loop.cursor \in Nat /\ loop.cursor <= loop.target
      /\ loop.target \in Nat /\ loop.target <= today /\ today \in Nat
  BY <1>1, <1>2, NowTypes, LoopTypes DEF TypeOK, AccountsConsistent, MayCharge
<1>4. plans[PlanNow].start \in Nat
  <2>1. IsPlanTable(plans) /\ PlanNow # NoPlan
    BY <1>1, <1>2 DEF TypeOK, MayCharge
  <2> QED
    BY <1>3, <2>1, PlanForDateCovers DEF PlanNow
<1>5. taken \in [User -> [Day -> Int]]
  BY <1>1, <1>3, SnapshotsAfterType
<1>6. /\ runs \in [Day -> Run] /\ charges \in [User -> [Day -> Charge]]
      /\ \A u \in User : acct[u] \in Account
  BY <1>2 DEF TypeOK
<1>7. Midnight(loop.cursor) \in Int /\ \A u \in User : WithBaselines[u] \in Account
  BY <1>1, ChargedDate
<1>8. \A u \in ActiveUsers : /\ DailyAmount \in Nat /\ ExtraCharge(taken[u]) \in Nat
                             /\ DailyAmount + ExtraCharge(taken[u]) \in Nat
  BY <1>1, ChargedAmounts
<1> QED
  BY <1>3, <1>4, <1>5, <1>6, <1>7, <1>8 DEF ActiveUsers

\* The record of a user after the date, against the one before it.
ChargedRecord(u, t) ==
  /\ BaselineDay(acct[u], WithBaselines[u], t)
  /\ IF u \in ActiveUsers
     THEN ChargedDay(WithBaselines[u], acct'[u], Midnight(loop.cursor), t)
     ELSE acct'[u] = WithBaselines[u]
  /\ acct'[u].created = acct[u].created /\ acct'[u].deleted = acct[u].deleted

LEMMA ChargeStepRecord ==
  ASSUME Inv, NEW taken, ChargeStep(taken), NEW u \in User, NEW t \in Int
  PROVE  ChargedRecord(u, t)
<1> DEFINE a == acct[u]
           w == WithBaselines[u]
           cutoff == Midnight(loop.cursor)
           total == DailyAmount + ExtraCharge(taken[u])
<1>1. /\ a \in Account /\ w \in Account /\ cutoff \in Int /\ plans[PlanNow].start \in Nat
      /\ u \in ActiveUsers => total \in Nat
  BY ChargeStepTypes
<1>2. BaselineDay(a, w, t)
  <2>1. w = EnsureStatusBaseline(a, plans[PlanNow].start)
    BY DEF WithBaselines
  <2> QED
    BY <1>1, <2>1, BaselineDays
<1>3. acct'[u] = IF u \in ActiveUsers THEN ChargeAccount(w, total, cutoff) ELSE w
  BY DEF ChargeStep
<1> HIDE DEF a, w, cutoff, total
<1>4. CASE u \in ActiveUsers
  <2>1. ChargedDay(w, acct'[u], cutoff, t)
    <3>1. total \in Nat /\ acct'[u] = ChargeAccount(w, total, cutoff)
      BY <1>1, <1>3, <1>4
    <3> QED
      BY <1>1, <3>1, ChargeDay
  <2>2. acct'[u].created = w.created /\ acct'[u].deleted = w.deleted
    <3>1. total \in Nat /\ acct'[u] = ChargeAccount(w, total, cutoff)
      BY <1>1, <1>3, <1>4
    <3> QED
      BY <1>1, <3>1, ChargeRecord
  <2> QED
    BY <1>2, <1>4, <2>1, <2>2 DEF ChargedRecord, BaselineDay, a, w, cutoff
<1>5. CASE u \notin ActiveUsers
  BY <1>2, <1>3, <1>5 DEF ChargedRecord, BaselineDay, a, w
<1> QED
  BY <1>4, <1>5

\* Whoever the date charges was active when it began.
LEMMA ChargedWereActive ==
  ASSUME DaysInv, NEW taken, ChargeStep(taken), NEW u \in ActiveUsers
  PROVE  u \in User /\ u \in activeAt[loop.cursor] /\ Exists(acct[u])
<1> DEFINE t == Midnight(loop.cursor)
<1>1. Inv /\ u \in User /\ ActiveAt(WithBaselines[u], t)
  BY DEF DaysInv, ActiveUsers
<1>2. t \in Int /\ loop.cursor \in Day /\ loop.cursor <= today
  BY <1>1, ChargeStepTypes
<1> HIDE DEF t
<1>3. BaselineDay(acct[u], WithBaselines[u], t)
  BY <1>1, <1>2, ChargeStepRecord DEF ChargedRecord
<1>4. ActiveAt(acct[u], t) \/ ActiveUnrecorded(acct[u], t)
  BY <1>1, <1>3 DEF BaselineDay
<1>5. DaySound(u, loop.cursor)
  BY <1>1, <1>2 DEF DaysInv, UserDaysSound
<1> QED
  BY <1>1, <1>4, <1>5 DEF DaySound, t, ActiveAt, ActiveUnrecorded, Undeleted

LEMMA ChargeStepDay ==
  ASSUME DaysInv, NEW taken, ChargeStep(taken), NEW u \in User, NEW d \in Day, d <= today
  PROVE  DaySound(u, d)'
<1> DEFINE a == acct[u]
           w == WithBaselines[u]
           b == acct'[u]
           t == Midnight(d)
<1>1. Inv /\ RecordSound(u) /\ DaySound(u, d)
  BY DEF DaysInv, UserDaysSound
<1>2. t \in Int
  BY <1>1, NowTypes DEF Inv, Midnight
<1>3. ChargedRecord(u, t)
  BY <1>1, <1>2, ChargeStepRecord
<1>4. BaselineDay(a, w, t) /\ b.created = a.created /\ b.deleted = a.deleted
  BY <1>3 DEF ChargedRecord
<1>5. \/ ChargedDay(w, b, Midnight(loop.cursor), t)
      \/ b = w
  BY <1>3 DEF ChargedRecord
<1>6. activeAt'[d] = activeAt[d]
  BY DEF ChargeStep
<1>7. /\ ActiveAt(a, t) \/ ActiveUnrecorded(a, t) => u \in activeAt[d]
      /\ u \in activeAt[d] => /\ Exists(a)
                              /\ \/ ActiveAt(a, t)
                                 \/ UpTo(a.history, t) = {}
                                 \/ BlockedByThen(a, t)
                              /\ a.history = << >> => ActiveUnrecorded(a, t)
  BY <1>1 DEF DaySound
<1> HIDE DEF a, w, b, t
<1>8. /\ ActiveAt(b, t) => ActiveAt(w, t)
      /\ ActiveAt(w, t) => ActiveAt(b, t) \/ BlockedByThen(b, t)
      /\ BlockedByThen(w, t) => BlockedByThen(b, t)
      /\ UpTo(w.history, t) = {} => UpTo(b.history, t) = {} \/ BlockedByThen(b, t)
      /\ b.history = << >> => w.history = << >>
  BY <1>5 DEF ChargedDay
<1>9. Exists(b) <=> Exists(a)
  BY <1>4 DEF Exists
<1>10. ActiveAt(b, t) => u \in activeAt[d]
  BY <1>4, <1>7, <1>8 DEF BaselineDay
<1>11. b.history = << >> => ~Exists(b)
  BY <1>4, <1>8, <1>9 DEF BaselineDay
<1>12. ~ActiveUnrecorded(b, t)
  BY <1>11 DEF ActiveUnrecorded, Undeleted
<1>13. ASSUME u \in activeAt[d]
       PROVE  Exists(b) /\ b.history # << >>
              /\ (ActiveAt(b, t) \/ UpTo(b.history, t) = {} \/ BlockedByThen(b, t))
  <2>1. ActiveAt(w, t) \/ UpTo(w.history, t) = {} \/ BlockedByThen(w, t)
    <3>1. CASE a.history = << >>
      BY <1>4, <1>7, <1>13, <3>1 DEF BaselineDay
    <3>2. CASE a.history # << >>
      BY <1>4, <1>7, <1>13, <3>2 DEF BaselineDay
    <3> QED
      BY <3>1, <3>2
  <2> QED
    BY <1>7, <1>8, <1>9, <1>11, <1>13, <2>1
<1> QED
  BY <1>6, <1>10, <1>12, <1>13 DEF DaySound, b, t

LEMMA ChargeStepAccounted ==
  ASSUME DaysInv, NEW taken, ChargeStep(taken), NEW u \in User, NEW d \in Day,
         u \in activeAt[d], PlanRun(d)'
  PROVE  Accounted(u, d)'
<1> DEFINE a == acct[u]
           w == WithBaselines[u]
           b == acct'[u]
           t == Midnight(d)
<1>1. /\ Inv /\ RecordSound(u) /\ UserDaysSound(u) /\ d \in Nat /\ t \in Int
      /\ loop.cursor \in Day /\ loop.cursor <= today /\ a \in Account /\ w \in Account
      /\ runs \in [Day -> Run] /\ charges \in [User -> [Day -> Charge]]
      /\ \A v \in ActiveUsers : DailyAmount \in Nat
  BY ChargeStepTypes, NowTypes DEF DaysInv, UserDaysSound, Inv, Midnight
<1>2. ChargedRecord(u, t)
  BY <1>1, ChargeStepRecord
<1>3. BaselineDay(a, w, t)
  BY <1>2 DEF ChargedRecord
<1>4. charges'[u] = IF u \in ActiveUsers
                    THEN [charges[u] EXCEPT ![loop.cursor] = RowCharged(u, taken)]
                    ELSE charges[u]
  BY DEF ChargeStep
<1>5. /\ \/ ChargedDay(w, b, Midnight(loop.cursor), t)
         \/ b = w
      /\ u \notin ActiveUsers => b = w
  BY <1>2 DEF ChargedRecord
<1>6. /\ BlockedByThen(w, t) => BlockedByThen(b, t)
      /\ UpTo(w.history, t) = {} => UpTo(b.history, t) = {} \/ BlockedByThen(b, t)
      /\ b.history = << >> => w.history = << >>
  BY <1>5 DEF ChargedDay
<1>7. d <= today
  <2>1. CASE d = loop.cursor
    BY <1>1, <2>1
  <2>2. CASE d # loop.cursor
    <3>1. PlanRun(d)
      BY <1>1, <2>2 DEF ChargeStep, PlanRun
    <3> QED
      BY <3>1 DEF DaysInv
  <2> QED
    BY <2>1, <2>2
<1>8. /\ Exists(a)
      /\ ActiveAt(a, t) \/ UpTo(a.history, t) = {} \/ BlockedByThen(a, t)
      /\ a.history = << >> => ActiveUnrecorded(a, t)
  BY <1>1, <1>7 DEF UserDaysSound, DaySound
<1> HIDE DEF a, w, b, t
<1>9. w.history # << >> /\ (a.history # << >> => w = a)
  BY <1>3, <1>8 DEF BaselineDay
<1>10. (UpTo(w.history, t) = {} \/ BlockedByThen(w, t)) => Accounted(u, d)'
  BY <1>6, <1>9 DEF Accounted, b, t
<1>11. CASE d = loop.cursor /\ u \in ActiveUsers
  <2>1. charges'[u][d] = RowCharged(u, taken)
    BY <1>1, <1>4, <1>11
  <2>2. DailyAmount # NoAmount
    BY <1>1, <1>11 DEF NoAmount
  <2>3. RowCharged(u, taken) # NoCharge
    BY <2>2 DEF RowCharged, NoCharge
  <2> QED
    BY <2>1, <2>3 DEF Accounted
<1>12. CASE d = loop.cursor /\ u \notin ActiveUsers
  <2>1. ~ActiveAt(w, t)
    BY <1>12 DEF ActiveUsers, w, t
  <2>2. UpTo(w.history, t) = {} \/ BlockedByThen(w, t)
    <3>1. CASE a.history = << >>
      BY <1>3, <1>8, <2>1, <3>1 DEF BaselineDay
    <3>2. CASE a.history # << >>
      BY <1>8, <1>9, <2>1, <3>2
    <3> QED
      BY <3>1, <3>2
  <2> QED
    BY <1>10, <2>2
<1>13. CASE d # loop.cursor
  <2>1. PlanRun(d)
    BY <1>1, <1>13 DEF ChargeStep, PlanRun
  <2>2. \/ charges[u][d] # NoCharge
        \/ UpTo(a.history, t) = {} /\ a.history # << >>
        \/ BlockedByThen(a, t)
    BY <1>1, <2>1 DEF UserDaysSound, Accounted, a, t
  <2>3. charges'[u][d] = charges[u][d]
    BY <1>1, <1>4, <1>13
  <2>4. BlockedByThen(a, t) => a.history # << >>
    BY DEF BlockedByThen, UpTo
  <2>5. CASE charges[u][d] # NoCharge
    BY <2>3, <2>5 DEF Accounted
  <2>6. CASE (UpTo(a.history, t) = {} /\ a.history # << >>) \/ BlockedByThen(a, t)
    BY <1>9, <1>10, <2>4, <2>6
  <2> QED
    BY <2>2, <2>5, <2>6
<1> QED
  BY <1>11, <1>12, <1>13

LEMMA ChargeDateDays ==
  ASSUME DaysInv, ChargeDate
  PROVE  DaysInv'
<1>1. Inv /\ Inv'
  BY ChargeDateKeeps DEF DaysInv
<1>2. PICK taken : ChargeStep(taken)
  BY <1>1, ChargeDateStep
<1>3. /\ loop.cursor \in Day /\ loop.cursor <= loop.target /\ loop.target <= today
      /\ loop.cursor <= today
      /\ charges \in [User -> [Day -> Charge]] /\ runs \in [Day -> Run]
  BY <1>1, <1>2, ChargeStepTypes
<1>4. loop'.target = loop.target /\ UNCHANGED <<today, deletes, activeAt>>
  BY <1>2 DEF ChargeStep
<1>5. ASSUME NEW u \in User
      PROVE  UserDaysSound(u)'
  <2>1. RecordSound(u) /\ UserDaysSound(u)
    BY DEF DaysInv, UserDaysSound
  <2>2. RecordSound(u)'
    <3>1. ChargedRecord(u, 0)
      BY <1>1, <1>2, ChargeStepRecord
    <3>2. /\ acct'[u].created = acct[u].created /\ acct'[u].deleted = acct[u].deleted
      BY <3>1 DEF ChargedRecord
    <3>3. (Live(acct'[u]) <=> Live(acct[u])) /\ (Exists(acct'[u]) <=> Exists(acct[u]))
      BY <3>2 DEF Live, Exists
    <3>4. ~Exists(acct[u]) => acct'[u] = acct[u]
      <4>1. u \in ActiveUsers => Exists(acct[u])
        BY <1>2, ChargedWereActive
      <4>2. ~Exists(acct[u]) => WithBaselines[u] = acct[u]
        BY <3>1 DEF ChargedRecord, BaselineDay
      <4> QED
        BY <3>1, <4>1, <4>2 DEF ChargedRecord
    <3> QED
      BY <1>4, <2>1, <3>2, <3>3, <3>4 DEF RecordSound, Now
  <2>3. ASSUME NEW d \in Day, charges'[u][d] # NoCharge
        PROVE  u \in activeAt[d] /\ d <= loop.target
    <3>1. charges'[u] = IF u \in ActiveUsers
                        THEN [charges[u] EXCEPT ![loop.cursor] = RowCharged(u, taken)]
                        ELSE charges[u]
      BY <1>2 DEF ChargeStep
    <3>2. CASE u \in ActiveUsers /\ d = loop.cursor
      BY <1>2, <1>3, <3>2, ChargedWereActive
    <3>3. CASE ~(u \in ActiveUsers /\ d = loop.cursor)
      <4>1. charges'[u][d] = charges[u][d]
        BY <1>3, <3>1, <3>3
      <4> QED
        BY <2>1, <2>3, <4>1 DEF UserDaysSound
    <3> QED
      BY <3>2, <3>3
  <2>4. ASSUME NEW d \in Day
        PROVE  /\ d <= today' => DaySound(u, d)'
               /\ charges'[u][d] # NoCharge => u \in activeAt'[d] /\ d <= loop'.target
               /\ PlanRun(d)' /\ u \in activeAt'[d] => Accounted(u, d)'
    BY <1>2, <1>4, <2>3, ChargeStepDay, ChargeStepAccounted
  <2> QED
    BY <2>2, <2>4 DEF UserDaysSound
<1>6. ASSUME NEW d \in Day, PlanRun(d)'
      PROVE  d <= today'
  <2>1. CASE d = loop.cursor
    BY <1>3, <1>4, <2>1
  <2>2. CASE d # loop.cursor
    <3>1. PlanRun(d)
      BY <1>2, <1>3, <1>6, <2>2 DEF ChargeStep, PlanRun
    <3> QED
      BY <1>4, <3>1 DEF DaysInv
  <2> QED
    BY <2>1, <2>2
<1> QED
  BY <1>1, <1>5, <1>6 DEF DaysInv

-----------------------------------------------------------------------------
(* Who is charged, and who is left out *)

\* A user there was before: nothing follows the midnight of the first day.
LEMMA LegacyRecord ==
  ASSUME NEW a \in LegacyAccounts
  PROVE  /\ Exists(a) /\ a.created = 0 /\ a.deleted = Never
         /\ ActiveAt(a, 0) \/ ActiveUnrecorded(a, 0) <=> ActiveNow(a)
         /\ a.history = << >> /\ ActiveNow(a) => ActiveUnrecorded(a, 0) /\ UpTo(a.history, 0) = {}
         /\ a.history # << >> /\ ActiveNow(a) => ActiveAt(a, 0)
<1>1. /\ NoAccount \in Account /\ NoAccount.history = << >> /\ NoAccount.deleted = Never
      /\ 0 \in Nat /\ Midnight(0) = 0
  BY NoAccountConsistent DEF NoAccount, Midnight
<1>2. PICK row \in AccountStatus \X Balances \X Limits \X BOOLEAN :
        a = LegacyAccount(row[1], row[2], row[3], row[4])
  BY DEF LegacyAccounts
<1> DEFINE r == AccountRow(row[1], row[2], row[3], Midnight(0))
           c == [prev |-> "null", new |-> r.status, source |-> "bootstrap", eff |-> 0]
           b == [r EXCEPT !.history = Append(@, c)]
<1>3. row[1] \in AccountStatus /\ row[2] \in Int /\ row[3] \in Nat
  BY <1>2, BillingAssumption
<1>4. r \in Account /\ r.history = << >> /\ r.created = 0 /\ r.deleted = Never
  <2>1. r = [NoAccount EXCEPT !.status = row[1], !.balance = row[2], !.limit = row[3],
                              !.created = 0]
    BY <1>1 DEF AccountRow
  <2> HIDE DEF r
  <2>2. 0 \in Int
    OBVIOUS
  <2> QED
    BY <1>1, <1>3, <2>1, <2>2 DEF Account
<1>5. a = IF row[4] THEN b ELSE r
  BY <1>1, <1>2 DEF LegacyAccount, AddInitialHistory, AddHistory
<1> HIDE DEF r
<1>6. r.status \in AccountStatus
  BY <1>4 DEF Account
<1>7. c \in StatusChange /\ c.eff = 0 /\ c.new = r.status
  BY <1>6 DEF StatusChange, StatusChangeSource
<1>8. /\ b.history = Append(<< >>, c) /\ b.created = 0 /\ b.deleted = Never
      /\ b.status = r.status
  BY <1>4 DEF Account
<1> HIDE DEF b, c
<1>9. CASE a = r
  <2>1. UpTo(a.history, 0) = {} /\ LatestUpTo(a.history, 0) = {}
    BY <1>4, <1>9 DEF UpTo, LatestUpTo
  <2> QED
    BY <1>4, <1>9, <2>1
       DEF ActiveAt, ActiveUnrecorded, Undeleted, ActiveNow, Live, Exists, Never
<1>10. CASE a = b
  <2>1. DOMAIN a.history = {1} /\ a.history[1] = c /\ a.history # << >>
    <3> DEFINE h == a.history
    <3>1. h = Append(<< >>, c)
      BY <1>8, <1>10
    <3> HIDE DEF h
    <3>2. DOMAIN h = {1} /\ h[1] = c /\ h # << >>
      BY <1>7, <3>1
    <3> QED
      BY <3>2 DEF h
  <2>2. UpTo(a.history, 0) = {1}
    BY <1>7, <2>1 DEF UpTo
  <2>3. LatestUpTo(a.history, 0) = {c}
    <3>1. NotAfter(a.history, 1, 1)
      BY DEF NotAfter
    <3> QED
      BY <2>1, <2>2, <3>1 DEF LatestUpTo
  <2> QED
    BY <1>7, <1>8, <1>10, <2>1, <2>3
       DEF ActiveAt, ActiveUnrecorded, Undeleted, ActiveNow, Live, Exists, Never
<1> QED
  BY <1>5, <1>9, <1>10

LEMMA InitDays == Init => DaysInv
<1> SUFFICES ASSUME Init PROVE DaysInv
  OBVIOUS
<1>1. Inv /\ today = 0 /\ Now = 1 /\ Day \subseteq Nat /\ 0 \in Day
  <2>1. today = 0 /\ Inv
    BY InitInv DEF Init
  <2>2. Day \subseteq Nat /\ 0 \in Day
    BY BillingAssumption DEF Day
  <2> QED
    BY <2>1, <2>2 DEF Now, During
<1>2. PICK rows \in [Legacy -> LegacyAccounts] :
        acct = [u \in User |-> IF u \in Legacy THEN rows[u] ELSE NoAccount]
  BY DEF Init
<1>3. /\ \A d \in Day : runs[d] = NoRun /\ activeAt[d] \subseteq User
      /\ activeAt[0] = {u \in User : ActiveNow(acct[u])}
      /\ \A u \in User : deletes[u] = NotDeleting /\ \A d \in Day : charges[u][d] = NoCharge
  BY <1>1 DEF Init
<1>4. \A d \in Day : ~PlanRun(d)
  BY <1>3 DEF PlanRun, NoRun
<1>5. ASSUME NEW u \in User
      PROVE  RecordSound(u) /\ DaySound(u, 0)
  <2>1. u \in activeAt[0] <=> ActiveNow(acct[u])
    BY <1>3
  <2>2. CASE u \in Legacy
    <3>1. acct[u] \in LegacyAccounts
      BY <1>2, <2>2
    <3>2. /\ Exists(acct[u]) /\ acct[u].deleted = Never
          /\ ActiveAt(acct[u], 0) \/ ActiveUnrecorded(acct[u], 0) <=> ActiveNow(acct[u])
          /\ acct[u].history = << >> /\ ActiveNow(acct[u])
               => ActiveUnrecorded(acct[u], 0) /\ UpTo(acct[u].history, 0) = {}
          /\ acct[u].history # << >> /\ ActiveNow(acct[u]) => ActiveAt(acct[u], 0)
      BY <3>1, LegacyRecord
    <3>3. Midnight(0) = 0
      BY DEF Midnight
    <3>4. RecordSound(u)
      BY <1>1, <1>3, <3>2 DEF RecordSound, Never
    <3>5. DaySound(u, 0)
      BY <2>1, <3>2, <3>3 DEF DaySound
    <3> QED
      BY <3>4, <3>5
  <2>3. CASE u \notin Legacy
    <3>1. acct[u] = NoAccount
      BY <1>2, <2>3
    <3>2. ~Exists(acct[u]) /\ acct[u].history = << >> /\ acct[u].deleted = Never
      BY <3>1 DEF Exists, NoAccount
    <3>3. RecordSound(u)
      BY <1>1, <1>3, <3>2 DEF RecordSound, Never
    <3> QED
      BY <2>1, <3>2, <3>3 DEF DaySound, ActiveNow, Live, ActiveAt, ActiveUnrecorded, Undeleted
  <2> QED
    BY <2>2, <2>3
<1>6. \A d \in Day : d <= today => d = 0
  BY <1>1
<1>7. \A u \in User : UserDaysSound(u)
  BY <1>3, <1>4, <1>5, <1>6 DEF UserDaysSound
<1> QED
  BY <1>1, <1>4, <1>7 DEF DaysInv

LEMMA StepDays == DaysInv /\ [Next]_vars => DaysInv'
<1> SUFFICES ASSUME DaysInv, [Next]_vars PROVE DaysInv'
  OBVIOUS
<1>1. CASE NextDay
  BY <1>1, NextDayDays
<1>2. CASE BillingLoop
  BY <1>2, OtherLoopStepsDays, ChargeDateDays, SyncPausedProfilesDays DEF BillingLoop
<1>3. CASE \E u \in User : UserRequest(u)
  BY <1>3, UserRequestDays
<1>4. CASE \E id \in PlanId : PlanRequest(id)
  BY <1>4, PlanRequestDays
<1>5. CASE UNCHANGED vars
  <2>1. Inv'
    BY StepInv, <1>5 DEF DaysInv
  <2>2. loop.target <= loop'.target /\ \A d \in Day : PlanRun(d)' => PlanRun(d)
    BY <1>5, LoopTypes DEF vars, DaysInv, Inv, PlanRun
  <2> QED
    BY <1>5, <2>1, <2>2, SameRecordsDays DEF vars
<1> QED
  BY <1>1, <1>2, <1>3, <1>4, <1>5 DEF Next

\* Every reachable state satisfies the inductive invariant of the days: the record of a user
\* still says who was active at every midnight so far, but for the blocks billing inserted, and
\* what no run has looked at yet is as it was.
THEOREM DaysInvariance == Spec => []DaysInv
  BY InitDays, StepDays, PTL DEF Spec

\* Billing never charges for a day the user was not active at the midnight of, however late it
\* runs, whatever fails and whatever changed since (billing/service.py, _active_users_at).
THEOREM ChargedWereActiveThen == Spec => []ChargedOnlyIfActive
<1>1. DaysInv => ChargedOnlyIfActive
  BY DEF DaysInv, UserDaysSound, ChargedOnlyIfActive
<1> QED
  BY <1>1, DaysInvariance, PTL

\* A completed run leaves nobody out who was active at that midnight and whose history reaches
\* back to it, unless billing has since recorded a block (_process_billing_date).
THEOREM ActiveAreCharged == Spec => []NobodySkipped
<1>1. ASSUME DaysInv PROVE NobodySkipped
  <2> SUFFICES ASSUME NEW d \in Day, PlanRun(d), NEW u \in activeAt[d]
               PROVE  \/ charges[u][d] # NoCharge
                      \/ UpTo(acct[u].history, Midnight(d)) = {}
                      \/ BlockedByThen(acct[u], Midnight(d))
    BY DEF NobodySkipped, PlanRun
  <2>1. u \in User
    BY <1>1 DEF DaysInv, Inv, TypeOK
  <2> QED
    BY <1>1, <2>1 DEF DaysInv, UserDaysSound, Accounted
<1> QED
  BY <1>1, DaysInvariance, PTL

\* Nothing is recorded for a moment that has not come, billing is never ahead of the date, and
\* every account is consistent with its history (billing/service.py).
THEOREM RecordsConsistent == Spec => []AccountsConsistent
<1>1. Inv => AccountsConsistent
  BY DEF Inv
<1> QED
  BY <1>1, Invariance, PTL

-----------------------------------------------------------------------------
(* A block by hand *)

\* What the row of an account may not become while an administrator's block is its last change.
Sticks(a, b) == BlockedByAdmin(a) /\ b.status # "blocked"
                  => \E c \in Latest(b.history) : c.source = "admin"

LEMMA StatusSticks ==
  ASSUME NEW a, NEW b, b.status = a.status \/ b.status = "blocked"
  PROVE  Sticks(a, b)
  BY DEF Sticks, BlockedByAdmin

\* The restore finds no block made by billing.
LEMMA RestoreSticks ==
  ASSUME NEW a \in Account, \E c \in Latest(a.history) : c.source = "admin", NEW source, NEW now
  PROVE  RestoreIfBillingBlocked(a, source, now) = a
<1>1. a.history \in Seq(StatusChange)
  BY HistoryShape
<1>2. PICK c \in Latest(a.history) : c.source = "admin"
  OBVIOUS
<1>3. BillingBlocks(a.history) = {}
  <2>1. ASSUME NEW e \in BillingBlocks(a.history) PROVE FALSE
    <3>1. e \in Latest(a.history) /\ e.source = "billing"
      BY DEF BillingBlocks
    <3>2. e = c
      BY <1>1, <1>2, <3>1, LatestUnique
    <3> QED
      BY <1>2, <3>1, <3>2
  <2> QED
    BY <2>1
<1> QED
  BY <1>3 DEF RestoreIfBillingBlocked

LEMMA EditSticks ==
  ASSUME NEW a \in Account, NEW now \in Int, HistoryOK(a, now),
         NEW status \in AccountStatus, NEW balance \in Int, NEW limit \in Nat
  PROVE  Sticks(a, EditAccount(a, status, balance, limit, now))
<1> DEFINE b == EditAccount(a, status, balance, limit, now)
           noted == RecordStatusChange(a, status, "admin", now)
           edited == [noted EXCEPT !.balance = balance, !.limit = limit]
<1> SUFFICES ASSUME BlockedByAdmin(a), b.status # "blocked"
             PROVE  \E c \in Latest(b.history) : c.source = "admin"
  BY DEF Sticks
<1>1. /\ a.status = "blocked" /\ a.status \in AccountStatus
      /\ "admin" \in StatusChangeSource /\ a.history \in Seq(StatusChange)
      /\ \E c \in Latest(a.history) : c.source = "admin"
  BY HistoryShape DEF BlockedByAdmin, StatusChangeSource
<1>2. noted \in Account
  BY <1>1, RecordGrown DEF RecordStatusChange
<1>3. edited \in Account /\ edited.history = noted.history /\ edited.status = noted.status
  <2> HIDE DEF noted
  <2> QED
    BY <1>2 DEF Account
<1>4. CASE status = a.status
  <2>1. noted = a
    BY <1>4 DEF RecordStatusChange, RecordSeenStatusChange
  <2>2. RestoreIfBillingBlocked(edited, "admin", now) = edited
    <3>1. \E c \in Latest(edited.history) : c.source = "admin"
      BY <1>1, <1>3, <2>1
    <3> HIDE DEF edited
    <3> QED
      BY <1>3, <3>1, RestoreSticks
  <2>3. b = edited
    BY <1>1, <2>2 DEF EditAccount
  <2> HIDE DEF b, edited, noted
  <2> QED
    BY <1>1, <1>3, <2>1, <2>3
<1>5. CASE status # a.status
  <2> DEFINE c == [prev |-> a.status, new |-> status, source |-> "admin", eff |-> now]
             r == AddHistory(a, a.status, status, "admin", now)
  <2>1. b = edited
    BY <1>1, <1>5 DEF EditAccount
  <2>2. r \in Account /\ r.history = Append(a.history, c)
    BY <1>1, AddHistoryType DEF AddHistory, Account
  <2>3. noted = [r EXCEPT !.status = status]
    BY <1>5 DEF RecordStatusChange, RecordSeenStatusChange
  <2> HIDE DEF b, edited, noted, r
  <2>4. noted.history = Append(a.history, c)
    BY <2>2, <2>3 DEF Account
  <2>5. c \in StatusChange /\ c.eff = now /\ c.source = "admin"
    BY <1>1 DEF StatusChange
  <2> HIDE DEF c
  <2>6. \A i \in DOMAIN a.history : a.history[i].eff <= c.eff
    BY <2>5 DEF HistoryOK, SoundHistory
  <2>7. Latest(Append(a.history, c)) = {c}
    BY <1>1, <2>5, <2>6, LatestAppended
  <2> QED
    BY <1>3, <2>1, <2>4, <2>5, <2>7
<1> QED
  BY <1>4, <1>5

LEMMA CreditSticks ==
  ASSUME NEW a \in Account, NEW now, NEW amount \in Int
  PROVE  Sticks(a, CreditAccount(a, amount, now))
<1> DEFINE r == [a EXCEPT !.balance = @ + amount]
<1> SUFFICES ASSUME BlockedByAdmin(a) PROVE CreditAccount(a, amount, now).status = "blocked"
  BY DEF Sticks
<1>1. /\ r \in Account /\ r.history = a.history /\ r.status = a.status
  BY DEF Account
<1> HIDE DEF r
<1>2. \E c \in Latest(r.history) : c.source = "admin"
  BY <1>1 DEF BlockedByAdmin
<1>3. RestoreIfBillingBlocked(r, "top_up", now) = r
  BY <1>1, <1>2, RestoreSticks
<1> QED
  BY <1>1, <1>3 DEF CreditAccount, r, BlockedByAdmin

LEMMA DeleteSticks ==
  ASSUME NEW a \in Account, NEW now \in Int, NEW seen \in AccountStatus
  PROVE  Sticks(a, DeleteAccount(a, seen, now))
<1> DEFINE r == RecordSeenStatusChange(a, seen, "blocked", "admin", now)
<1>1. "blocked" \in AccountStatus /\ "admin" \in StatusChangeSource
  BY DEF AccountStatus, StatusChangeSource
<1>2. r \in Account
  BY <1>1, RecordGrown
<1>3. r.status = a.status \/ r.status = "blocked"
  <2>1. CASE seen = "blocked"
    BY <2>1 DEF RecordSeenStatusChange
  <2>2. CASE seen # "blocked"
    <3> DEFINE h == AddHistory(a, seen, "blocked", "admin", now)
    <3>1. r = [h EXCEPT !.status = "blocked"]
      BY <2>2 DEF RecordSeenStatusChange
    <3>2. h \in Account
      BY <1>1, AddHistoryType
    <3> HIDE DEF h
    <3> QED
      BY <3>1, <3>2 DEF Account
  <2> QED
    BY <2>1, <2>2
<1>4. DeleteAccount(a, seen, now) = [r EXCEPT !.deleted = now]
  BY DEF DeleteAccount
<1> HIDE DEF r
<1>5. DeleteAccount(a, seen, now).status = r.status
  BY <1>2, <1>4 DEF Account
<1> QED
  BY <1>3, <1>5, StatusSticks

LEMMA NewAccountSticks ==
  ASSUME NEW a, NEW status \in AccountStatus, NEW balance \in Int, NEW limit \in Nat,
         NEW now \in Nat
  PROVE  Sticks(a, NewAccount(status, balance, limit, now))
<1> DEFINE b == NewAccount(status, balance, limit, now)
<1>1. CreatedNow(NoAccount, b, now)
  BY NewAccountCreated DEF Exists, NoAccount
<1> HIDE DEF b
<1>2. DOMAIN b.history = {1} /\ b.history[1].source = "admin"
  BY <1>1 DEF CreatedNow
<1>3. b.history[1] \in Latest(b.history)
  BY <1>2 DEF Latest, NotAfter
<1> QED
  BY <1>2, <1>3 DEF Sticks, b

LEMMA UserRequestSticks ==
  ASSUME Inv, NEW u \in User, UserRequest(u), NEW v \in User
  PROVE  Sticks(acct[v], acct'[v])
<1>1. /\ acct[u] \in Account /\ HistoryOK(acct[u], Now) /\ acct[v] \in Account
      /\ acct[u].balance \in Int /\ acct[u].limit \in Nat /\ acct[u].status \in AccountStatus
      /\ acct \in [User -> Account]
  BY DEF Inv, TypeOK, AccountsConsistent, Consistent, Account
<1>2. /\ Now \in Nat /\ Now \in Int
      /\ \A b \in Balances : b \in Int
      /\ \A l \in Limits : l \in Nat
      /\ \A c \in Credits : c \in Int
  BY NowTypes, BillingAssumption DEF Inv, TypeOK
<1>3. acct'[v] = acct[v] => Sticks(acct[v], acct'[v])
  BY StatusSticks
<1>4. ASSUME NEW row, Store(u, row), Sticks(acct[u], row)
      PROVE  Sticks(acct[v], acct'[v])
  <2>1. acct' = [acct EXCEPT ![u] = row]
    BY <1>4 DEF Store
  <2> QED
    BY <1>1, <1>3, <1>4, <2>1
<1>5. CASE CreateUser(u)
  <2>1. PICK s \in AccountStatus, b \in Balances, l \in Limits :
          Store(u, NewAccount(s, b, l, Now))
    BY <1>5 DEF CreateUser
  <2>2. Sticks(acct[u], NewAccount(s, b, l, Now))
    BY <1>2, NewAccountSticks
  <2> QED
    BY <1>4, <2>1, <2>2
<1>6. CASE UpdateUser(u)
  <2>1. PICK s \in AccountStatus, b \in Balances \union {acct[u].balance},
             l \in Limits \union {acct[u].limit} :
          Store(u, EditAccount(acct[u], s, b, l, Now))
    BY <1>6 DEF UpdateUser
  <2>2. b \in Int /\ l \in Nat
    BY <1>1, <1>2
  <2>3. Sticks(acct[u], EditAccount(acct[u], s, b, l, Now))
    BY <1>1, <1>2, <2>2, EditSticks
  <2> QED
    BY <1>4, <2>1, <2>3
<1>7. CASE StartDelete(u)
  BY <1>3, <1>7 DEF StartDelete, database
<1>8. CASE FinishDelete(u)
  <2>1. deletes[u] \in AccountStatus
    BY <1>8 DEF FinishDelete, Inv, TypeOK
  <2>2. Sticks(acct[u], DeleteAccount(acct[u], deletes[u], Now))
    BY <1>1, <1>2, <2>1, DeleteSticks
  <2> QED
    BY <1>3, <1>4, <1>8, <2>2 DEF FinishDelete, database
<1>9. CASE TopUp(u)
  <2>1. PICK amount \in Credits : Store(u, CreditAccount(acct[u], amount, Now))
    BY <1>9 DEF TopUp
  <2>2. Sticks(acct[u], CreditAccount(acct[u], amount, Now))
    BY <1>1, <1>2, CreditSticks
  <2> QED
    BY <1>4, <2>1, <2>2
<1>10. CASE Activate(u)
  <2>1. acct[u].status = "paused" /\ Store(u, ActivateAccount(acct[u], Now))
    BY <1>10 DEF Activate, MayActivate
  <2>2. Sticks(acct[u], ActivateAccount(acct[u], Now))
    BY <2>1 DEF Sticks, BlockedByAdmin
  <2> QED
    BY <1>4, <2>1, <2>2
<1>11. CASE TakeVpnJob(u)
  <2>1. acct' = [acct EXCEPT ![u] = [@ EXCEPT !.job = "none"]]
    BY <1>11 DEF TakeVpnJob
  <2>2. [acct[u] EXCEPT !.job = "none"].status = acct[u].status
    BY <1>1 DEF Account
  <2>3. acct'[v].status = acct[v].status
    BY <1>1, <2>1, <2>2
  <2> QED
    BY <2>3, StatusSticks
<1> QED
  BY <1>5, <1>6, <1>7, <1>8, <1>9, <1>10, <1>11 DEF UserRequest

LEMMA ChargeDateSticks ==
  ASSUME Inv, ChargeDate, NEW v \in User
  PROVE  Sticks(acct[v], acct'[v])
<1>1. PICK taken : ChargeStep(taken)
  BY ChargeDateStep
<1> DEFINE w == WithBaselines[v]
           cutoff == Midnight(loop.cursor)
           total == DailyAmount + ExtraCharge(taken[v])
<1>2. w \in Account /\ cutoff \in Int /\ (v \in ActiveUsers => total \in Nat)
  BY <1>1, ChargeStepTypes
<1>3. w.status = acct[v].status
  <2>1. ChargedRecord(v, 0)
    BY <1>1, ChargeStepRecord
  <2> QED
    BY <2>1 DEF ChargedRecord, BaselineDay
<1>4. acct'[v] = IF v \in ActiveUsers THEN ChargeAccount(w, total, cutoff) ELSE w
  BY <1>1 DEF ChargeStep
<1> HIDE DEF w, total, cutoff
<1>5. acct'[v].status = w.status \/ acct'[v].status = "blocked"
  <2>1. CASE v \in ActiveUsers
    <3>1. total \in Nat /\ acct'[v] = ChargeAccount(w, total, cutoff)
      BY <1>2, <1>4, <2>1
    <3>2. \/ ChargeAccount(w, total, cutoff).status = w.status
          \/ ChargeAccount(w, total, cutoff).status = "blocked"
      BY <1>2, <3>1, ChargeRecord
    <3> QED
      BY <3>1, <3>2
  <2>2. CASE v \notin ActiveUsers
    BY <1>4, <2>2
  <2> QED
    BY <2>1, <2>2
<1> QED
  BY <1>3, <1>5, StatusSticks

LEMMA SyncPausedProfilesSticks ==
  ASSUME Inv, SyncPausedProfiles, NEW v \in User
  PROVE  Sticks(acct[v], acct'[v])
<1>1. PICK queued \in SUBSET {u \in User : PausedBeforeToday(acct[u])} :
        acct' = [u \in User |-> IF u \in queued THEN QueueVpnSync(acct[u], FALSE) ELSE acct[u]]
  BY DEF SyncPausedProfiles
<1>2. acct[v] \in Account
  BY DEF Inv, TypeOK
<1>3. QueueVpnSync(acct[v], FALSE).status = acct[v].status
  BY <1>2 DEF QueueVpnSync, Account
<1>4. acct'[v].status = acct[v].status
  BY <1>1, <1>3
<1> QED
  BY <1>4, StatusSticks

\* An account an administrator has blocked is released by an administrator only: neither a
\* payment nor an activation nor billing for an earlier day lifts the block (billing/service.py,
\* restore_if_billing_blocked; users/router.py, activate_account).
THEOREM ManualBlocksStick == Spec => ManualBlockSticks
<1> DEFINE A == \A u \in User : BlockedByAdmin(acct[u]) /\ acct'[u].status # "blocked" =>
                  \E c \in Latest(acct'[u].history) : c.source = "admin"
<1>1. ASSUME Inv, [Next]_vars PROVE A
  <2> SUFFICES ASSUME NEW v \in User PROVE Sticks(acct[v], acct'[v])
    BY DEF Sticks
  <2>1. acct'[v] = acct[v] => Sticks(acct[v], acct'[v])
    BY StatusSticks
  <2>2. CASE NextDay
    BY <2>1, <2>2 DEF NextDay, database
  <2>3. CASE BillingLoop
    <3>1. CASE ChargeDate \/ SyncPausedProfiles
      BY <1>1, <3>1, ChargeDateSticks, SyncPausedProfilesSticks
    <3>2. CASE ~(ChargeDate \/ SyncPausedProfiles)
      <4>1. /\ StartCatchUp => acct' = acct
            /\ SkipBilledDate => acct' = acct
            /\ CompleteWithoutPlan => acct' = acct
            /\ FailedDate => acct' = acct
            /\ SendNotices => acct' = acct
            /\ Crash => acct' = acct
        BY DEF StartCatchUp, SkipBilledDate, CompleteWithoutPlan, FailedDate, SendNotices,
               Crash, database
      <4>2. ProviderFails \/ DuplicateCharge \/ DatabaseError => FailedDate
        BY DEF ProviderFails, DuplicateCharge, DatabaseError
      <4>3. acct' = acct
        BY <2>3, <3>2, <4>1, <4>2 DEF BillingLoop
      <4> QED
        BY <2>1, <4>3
    <3> QED
      BY <3>1, <3>2
  <2>4. CASE \E u \in User : UserRequest(u)
    BY <1>1, <2>4, UserRequestSticks
  <2>5. CASE \E id \in PlanId : PlanRequest(id)
    BY <2>1, <2>5 DEF PlanRequest, CreatePlan, UpdatePlan, DeletePlan, StorePlans
  <2>6. CASE UNCHANGED vars
    BY <2>1, <2>6 DEF vars
  <2> QED
    BY <1>1, <2>2, <2>3, <2>4, <2>5, <2>6 DEF Next
<1> QED
  BY <1>1, Invariance, PTL DEF Spec, ManualBlockSticks

-----------------------------------------------------------------------------
(* The runs *)

\* What a step that does not charge leaves of the run of a date.
RunLeft(d) ==
  \/ runs'[d] = runs[d]
  \/ ~PlanRun(d) /\ ~PlanRun(d)'
     /\ (runs'[d].status = "completed" => runs'[d].charged = 0 /\ runs'[d].blocked = 0)

\* A date that was billed under a plan is not billed again.
LEMMA NotBilledYet ==
  ASSUME ~AlreadyBilled, loop.cursor \in Day
  PROVE  ~PlanRun(loop.cursor)
  BY DEF AlreadyBilled, PlanRun

LEMMA FailedDateLeaves ==
  ASSUME Inv, MayCharge, FailedDate
  PROVE  \A d \in Day : RunLeft(d)
<1>1. loop.cursor \in Day /\ runs \in [Day -> Run] /\ loop.pc = "billing" /\ ~AlreadyBilled
  BY LoopTypes DEF Inv, TypeOK, MayCharge
<1>2. ~PlanRun(loop.cursor)
  BY <1>1, NotBilledYet
<1>3. runs' = [runs EXCEPT ![loop.cursor].status = "failed"]
  BY DEF FailedDate
<1>4. [runs[loop.cursor] EXCEPT !.status = "failed"].status = "failed"
  BY <1>1 DEF Run
<1> QED
  BY <1>1, <1>2, <1>3, <1>4 DEF RunLeft, PlanRun

\* A step that neither charges nor is a database error.
LEMMA OtherStepsLeave ==
  ASSUME DaysInv, [Next]_vars, ~ChargeDate, ~DatabaseError
  PROVE  RecordsGrow /\ UNCHANGED <<charges, snapshots>> /\ \A d \in Day : RunLeft(d)
<1>1. Inv
  BY DEF DaysInv
<1>2. /\ acct' = acct /\ deletes' = deletes => RecordsGrow
      /\ acct' = acct /\ (\A u \in User : deletes'[u] = NotDeleting) => RecordsGrow
      /\ runs' = runs => \A d \in Day : RunLeft(d)
  BY SameRecordsGrow DEF RunLeft
<1>3. CASE NextDay
  BY <1>2, <1>3 DEF NextDay, database
<1>4. CASE StartCatchUp
  BY <1>2, <1>4 DEF StartCatchUp, database
<1>5. CASE SkipBilledDate
  BY <1>2, <1>5 DEF SkipBilledDate, database
<1>6. CASE CompleteWithoutPlan
  <2>1. UNCHANGED <<acct, charges, snapshots, deletes>>
    BY <1>6 DEF CompleteWithoutPlan
  <2>2. loop.cursor \in Day /\ runs \in [Day -> Run] /\ ~PlanRun(loop.cursor)
    BY <1>1, <1>6, LoopTypes, NotBilledYet DEF CompleteWithoutPlan, Inv, TypeOK
  <2>3. runs' = [runs EXCEPT ![loop.cursor] = [NoRun EXCEPT !.status = "completed"]]
    BY <1>6 DEF CompleteWithoutPlan
  <2>4. LET r == [NoRun EXCEPT !.status = "completed"]
        IN  r.plan = NoPlan /\ r.charged = 0 /\ r.blocked = 0
    BY DEF NoRun
  <2>5. \A d \in Day : RunLeft(d)
    BY <2>2, <2>3, <2>4 DEF RunLeft, PlanRun
  <2> QED
    BY <1>2, <2>1, <2>5
<1>7. CASE ProviderFails \/ DuplicateCharge
  <2>1. MayCharge /\ FailedDate
    BY <1>7 DEF ProviderFails, DuplicateCharge
  <2>2. UNCHANGED <<acct, charges, snapshots, deletes>>
    BY <2>1 DEF FailedDate
  <2> QED
    BY <1>1, <1>2, <2>1, <2>2, FailedDateLeaves
<1>8. CASE SendNotices
  BY <1>2, <1>8 DEF SendNotices, database
<1>9. CASE SyncPausedProfiles
  <2>1. UNCHANGED <<runs, charges, snapshots>>
    BY <1>9 DEF SyncPausedProfiles
  <2> QED
    BY <1>2, <1>9, <2>1, SyncPausedProfilesGrows
<1>10. CASE Crash
  <2>1. acct' = acct /\ (\A u \in User : deletes'[u] = NotDeleting)
        /\ UNCHANGED <<runs, charges, snapshots>>
    BY <1>10 DEF Crash, database
  <2> QED
    BY <1>2, <2>1
<1>11. CASE \E u \in User : UserRequest(u)
  BY <1>2, <1>11, UserRequestGrows
<1>12. CASE \E id \in PlanId : PlanRequest(id)
  BY <1>2, <1>12 DEF PlanRequest, CreatePlan, UpdatePlan, DeletePlan, StorePlans
<1>13. CASE UNCHANGED vars
  BY <1>2, <1>13 DEF vars
<1> QED
  BY <1>3, <1>4, <1>5, <1>6, <1>7, <1>8, <1>9, <1>10, <1>11, <1>12, <1>13
     DEF Next, BillingLoop

-----------------------------------------------------------------------------
(* What a run says was charged *)

\* Billing recorded a block as of the instant t.
BilledAt(a, t) ==
  \E i \in DOMAIN a.history : a.history[i].source = "billing" /\ a.history[i].eff = t

\* A run under a plan counts what was charged and who was blocked; without one nothing was.
RunSound(d) ==
  IF PlanRun(d)
  THEN /\ runs[d].charged = Cardinality(ChargedOn(d))
       /\ runs[d].blocked = Cardinality(BlockedAsOf(d))
       /\ \A u \in ChargedOn(d) : charges[u][d].base = runs[d].daily
  ELSE /\ ChargedOn(d) = {} /\ BlockedAsOf(d) = {}
       /\ runs[d].status = "completed" => runs[d].charged = 0 /\ runs[d].blocked = 0

\* An extra charge is explained by the snapshots.
ExtraSound(u, d) ==
  charges[u][d] # NoCharge =>
    LET count == ProfileCountForDate(snapshots[u], d)
    IN  charges[u][d].extra =
          IF count > 1 THEN AdditionalProfilesCharge(charges[u][d].base, count)
          ELSE NoAmount

RunsInv == /\ DaysInv
           /\ \A d \in Day : RunSound(d) /\ \A u \in User : ExtraSound(u, d)

LEMMA BlockedAsOfIs ==
  ASSUME NEW d \in Day
  PROVE  BlockedAsOf(d) = {u \in User : BilledAt(acct[u], Midnight(d))}
  BY DEF BlockedAsOf, BilledAt

\* The rows of a request are not of midnight.
LEMMA RequestedBilled ==
  ASSUME NEW a \in Account, NEW b \in Account, NEW now, Requested(a, b, now),
         ~Exists(a) => a.history = << >>, NEW t, t # now
  PROVE  BilledAt(b, t) <=> BilledAt(a, t)
<1>1. /\ DOMAIN a.history = 1 .. Len(a.history) /\ Len(a.history) \in Nat
      /\ DOMAIN b.history = 1 .. Len(b.history) /\ Len(b.history) \in Nat
  BY HistoryShape
<1>2. CASE Grown(a, b, now) \/ Ended(a, b, now)
  <2>1. /\ Len(a.history) <= Len(b.history)
        /\ \A i \in DOMAIN b.history : IF i \in DOMAIN a.history THEN b.history[i] = a.history[i]
                                       ELSE b.history[i].eff = now
    BY <1>2 DEF Grown, Ended, Longer
  <2>2. DOMAIN a.history \subseteq DOMAIN b.history
    BY <1>1, <2>1
  <2> QED
    BY <2>1, <2>2 DEF BilledAt
<1>3. CASE CreatedNow(a, b, now)
  <2>1. a.history = << >> /\ DOMAIN b.history = {1} /\ b.history[1].source = "admin"
    BY <1>3 DEF CreatedNow
  <2>2. DOMAIN a.history = {}
    BY <2>1
  <2> QED
    BY <2>1, <2>2 DEF BilledAt
<1> QED
  BY <1>2, <1>3 DEF Requested

LEMMA GrowKeepsBlocks ==
  ASSUME DaysInv, Inv', RecordsGrow, NEW d \in Day
  PROVE  BlockedAsOf(d)' = BlockedAsOf(d)
<1>1. /\ Inv /\ today \in Nat /\ Now = 2 * today + 1 /\ d \in Nat
      /\ \A u \in User : acct[u] \in Account /\ acct'[u] \in Account /\ RecordSound(u)
  BY NowTypes DEF DaysInv, UserDaysSound, Inv, TypeOK
<1>2. Midnight(d) # Now
  BY <1>1 DEF Midnight
<1>3. \A u \in User : BilledAt(acct'[u], Midnight(d)) <=> BilledAt(acct[u], Midnight(d))
  BY <1>1, <1>2, RequestedBilled DEF RecordsGrow, RecordSound
<1>4. BlockedAsOf(d)' = {u \in User : BilledAt(acct'[u], Midnight(d))}
  BY DEF BlockedAsOf, BilledAt
<1> QED
  BY <1>3, <1>4, BlockedAsOfIs

LEMMA GrowRuns ==
  ASSUME RunsInv, DaysInv', RecordsGrow, UNCHANGED <<charges, snapshots>>,
         \A d \in Day : RunLeft(d)
  PROVE  RunsInv'
<1>1. ASSUME NEW d \in Day
      PROVE  RunSound(d)' /\ \A u \in User : ExtraSound(u, d)'
  <2>1. BlockedAsOf(d)' = BlockedAsOf(d) /\ ChargedOn(d)' = ChargedOn(d)
    BY GrowKeepsBlocks DEF RunsInv, DaysInv, ChargedOn
  <2>2. RunSound(d) /\ RunLeft(d)
    BY DEF RunsInv
  <2>3. RunSound(d)'
    <3>1. CASE runs'[d] = runs[d]
      BY <2>1, <2>2, <3>1 DEF RunSound, PlanRun
    <3>2. CASE runs'[d] # runs[d]
      BY <2>1, <2>2, <3>2 DEF RunSound, RunLeft
    <3> QED
      BY <3>1, <3>2
  <2>4. \A u \in User : ExtraSound(u, d)'
    BY DEF RunsInv, ExtraSound
  <2> QED
    BY <2>3, <2>4
<1> QED
  BY <1>1 DEF RunsInv

\* A charge inserts the row of its block and no other billing row.
LEMMA ChargedBilled ==
  ASSUME Inv, NEW taken, ChargeStep(taken), NEW u \in User, NEW t \in Int
  PROVE  BilledAt(acct'[u], t) <=>
           \/ BilledAt(acct[u], t)
           \/ u \in ActiveUsers /\ OutOfMoney(acct'[u]) /\ t = Midnight(loop.cursor)
<1> DEFINE a == acct[u]
           w == WithBaselines[u]
           b == acct'[u]
           cutoff == Midnight(loop.cursor)
           total == DailyAmount + ExtraCharge(taken[u])
<1>1. /\ a \in Account /\ w \in Account /\ cutoff \in Int
      /\ u \in ActiveUsers => total \in Nat
  BY ChargeStepTypes
<1>2. BaselineDay(a, w, t)
  BY ChargeStepRecord DEF ChargedRecord
<1>3. b = IF u \in ActiveUsers THEN ChargeAccount(w, total, cutoff) ELSE w
  BY DEF ChargeStep
<1> HIDE DEF a, w, b, cutoff, total
<1>4. BilledAt(w, t) <=> BilledAt(a, t)
  <2>1. CASE a.history # << >> \/ ~Exists(a)
    BY <1>2, <2>1 DEF BaselineDay
  <2>2. CASE a.history = << >>
    <3>1. DOMAIN a.history = {} /\ \A i \in DOMAIN w.history : w.history[i].source = "bootstrap"
      BY <1>2, <2>2 DEF BaselineDay
    <3> QED
      BY <3>1 DEF BilledAt
  <2> QED
    BY <2>1, <2>2
<1>5. CASE u \notin ActiveUsers
  BY <1>3, <1>4, <1>5 DEF a, b
<1>6. CASE u \in ActiveUsers
  <2>1. b = ChargeAccount(w, total, cutoff) /\ total \in Nat
    BY <1>1, <1>3, <1>6
  <2>2. /\ OutOfMoney(b) => b.history = Append(w.history, BlockRow(cutoff))
        /\ ~OutOfMoney(b) => b.history = w.history
    <3>1. LET e == ChargeAccount(w, total, cutoff)
          IN  /\ OutOfMoney(e) => e.history = Append(w.history, BlockRow(cutoff))
              /\ ~OutOfMoney(e) => e.history = w.history
      BY <1>1, <2>1, ChargeRecord
    <3> QED
      BY <2>1, <3>1
  <2>3. CASE ~OutOfMoney(b)
    <3>1. BilledAt(b, t) <=> BilledAt(w, t)
      BY <2>2, <2>3 DEF BilledAt
    <3> QED
      BY <1>4, <2>3, <3>1 DEF a, b
  <2>4. CASE OutOfMoney(b)
    <3> DEFINE c == BlockRow(cutoff)
               h == w.history
               g == b.history
               n == Len(h) + 1
    <3>1. c \in StatusChange /\ c.eff = cutoff /\ c.source = "billing"
      BY <1>1, BlockRowType DEF BlockRow
    <3>2. h \in Seq(StatusChange) /\ Len(h) \in Nat /\ DOMAIN h = 1 .. Len(h)
      BY <1>1, HistoryShape
    <3>3. g = Append(h, c)
      BY <2>2, <2>4
    <3> HIDE DEF c, h, g
    <3>4. /\ DOMAIN g = 1 .. n /\ g[n] = c /\ \A i \in DOMAIN h : g[i] = h[i]
      BY <3>1, <3>2, <3>3, AppendProperties
    <3>5. n \in DOMAIN g /\ DOMAIN h \subseteq DOMAIN g /\ \A i \in DOMAIN g : i \in DOMAIN h \/ i = n
      BY <3>2, <3>4
    <3> HIDE DEF n
    <3>6. BilledAt(b, t) <=> BilledAt(w, t) \/ t = cutoff
      BY <3>1, <3>4, <3>5 DEF BilledAt, g, h
    <3> QED
      BY <1>4, <1>6, <2>4, <3>6 DEF a, b, cutoff
  <2> QED
    BY <2>3, <2>4
<1> QED
  BY <1>5, <1>6

\* The run of the date counts what ChargeDate charges; the other dates are left alone.
LEMMA ChargeStepRun ==
  ASSUME RunsInv, NEW taken, ChargeStep(taken), NEW d \in Day
  PROVE  RunSound(d)'
<1> DEFINE day == loop.cursor
<1>1. /\ Inv /\ day \in Day /\ runs \in [Day -> Run] /\ charges \in [User -> [Day -> Charge]]
      /\ ActiveUsers \subseteq User /\ (\A v \in ActiveUsers : DailyAmount \in Nat)
      /\ d \in Nat /\ day \in Nat
  BY ChargeStepTypes, NowTypes DEF RunsInv, DaysInv, Inv
<1>2. /\ runs' = [runs EXCEPT ![day] = ChargedRun]
      /\ \A u \in User : charges'[u] = IF u \in ActiveUsers
                                       THEN [charges[u] EXCEPT ![day] = RowCharged(u, taken)]
                                       ELSE charges[u]
  BY DEF ChargeStep
<1>3. ~PlanRun(day)
  BY <1>1, NotBilledYet DEF ChargeStep, MayCharge
<1>4. RunSound(day) /\ RunSound(d)
  BY <1>1 DEF RunsInv
<1>5. ChargedOn(day) = {} /\ BlockedAsOf(day) = {}
  BY <1>3, <1>4 DEF RunSound
<1> DEFINE t == Midnight(d)
<1>6. t \in Int /\ (t = Midnight(day) <=> d = day)
  BY <1>1 DEF Midnight
<1>7. \A u \in User : BilledAt(acct'[u], t) <=>
                        \/ BilledAt(acct[u], t)
                        \/ u \in ActiveUsers /\ OutOfMoney(acct'[u]) /\ d = day
  BY <1>1, <1>6, ChargedBilled
<1>8. BlockedAsOf(d)' = {u \in User : BilledAt(acct'[u], t)}
      /\ BlockedAsOf(d) = {u \in User : BilledAt(acct[u], t)}
  BY DEF BlockedAsOf, BilledAt
<1>9. ChargedOn(d)' = {u \in User : charges'[u][d] # NoCharge}
  BY DEF ChargedOn
<1> HIDE DEF day, t
<1>10. CASE d # day
  <2>1. runs'[d] = runs[d] /\ \A u \in User : charges'[u][d] = charges[u][d]
    BY <1>1, <1>2, <1>10
  <2>2. BlockedAsOf(d)' = BlockedAsOf(d) /\ ChargedOn(d)' = ChargedOn(d)
    BY <1>7, <1>8, <1>9, <1>10, <2>1 DEF ChargedOn
  <2>3. PlanRun(d)' <=> PlanRun(d)
    BY <2>1 DEF PlanRun
  <2>4. \A u \in ChargedOn(d) : u \in User
    BY DEF ChargedOn
  <2> QED
    BY <1>4, <2>1, <2>2, <2>3, <2>4 DEF RunSound
<1>11. CASE d = day
  <2>1. runs'[d] = ChargedRun
    BY <1>1, <1>2, <1>11
  <2>2. \A u \in ActiveUsers : charges'[u][d] = RowCharged(u, taken)
    BY <1>1, <1>2, <1>11
  <2>3. \A u \in User : u \notin ActiveUsers => charges'[u][d] = charges[u][d]
    BY <1>2
  <2>4. \A u \in ActiveUsers : RowCharged(u, taken) # NoCharge
                               /\ RowCharged(u, taken).base = DailyAmount
    BY <1>1 DEF RowCharged, NoCharge, NoAmount
  <2>5. \A u \in User : charges[u][d] = NoCharge
    BY <1>5, <1>11 DEF ChargedOn
  <2>6. ChargedOn(d)' = ActiveUsers
    BY <1>1, <1>9, <2>2, <2>3, <2>4, <2>5
  <2>7. BlockedAsOf(d)' = {u \in ActiveUsers : OutOfMoney(acct'[u])}
    <3>1. \A u \in User : ~BilledAt(acct[u], t)
      BY <1>5, <1>8, <1>11
    <3> QED
      BY <1>1, <1>7, <1>8, <1>11, <3>1
  <2>8. /\ runs'[d].charged = Cardinality(ActiveUsers)
        /\ runs'[d].blocked = Cardinality({u \in ActiveUsers : OutOfMoney(acct'[u])})
        /\ runs'[d].daily = IF ActiveUsers = {} THEN NoAmount ELSE DailyAmount
        /\ runs'[d].status = "completed" /\ runs'[d].plan = PlanNow
    BY <2>1 DEF ChargedRun
  <2>9. PlanRun(d)'
    BY <2>8 DEF PlanRun, ChargeStep, MayCharge
  <2>10. \A u \in ActiveUsers : charges'[u][d].base = runs'[d].daily
    BY <2>2, <2>4, <2>8
  <2> QED
    BY <2>6, <2>7, <2>8, <2>9, <2>10 DEF RunSound
<1> QED
  BY <1>10, <1>11

\* A snapshot of a later day does not change a count.
LEMMA CountOfDay ==
  ASSUME NEW s, NEW r, NEW d \in Day, \A e \in Day : e <= d => s[e] = r[e]
  PROVE  ProfileCountForDate(s, d) = ProfileCountForDate(r, d)
<1>1. {e \in Day : e <= d /\ s[e] # NoCount} = {e \in Day : e <= d /\ r[e] # NoCount}
  OBVIOUS
<1> DEFINE K == {e \in Day : e <= d /\ s[e] # NoCount}
           last == {e \in K : \A f \in K : f <= e}
           c == CHOOSE e \in last : TRUE
<1>2. ProfileCountForDate(s, d) = (IF last = {} THEN 0 ELSE s[c])
      /\ ProfileCountForDate(r, d) = (IF last = {} THEN 0 ELSE r[c])
  BY <1>1 DEF ProfileCountForDate
<1>3. last # {} => c \in Day /\ c <= d
  OBVIOUS
<1> HIDE DEF last, c
<1> QED
  BY <1>2, <1>3

LEMMA ChargeStepExtra ==
  ASSUME RunsInv, NEW taken, ChargeStep(taken), NEW u \in User, NEW d \in Day
  PROVE  ExtraSound(u, d)'
<1> DEFINE day == loop.cursor
<1>1. /\ Inv /\ day \in Day /\ day \in Nat /\ charges \in [User -> [Day -> Charge]]
      /\ snapshots \in [User -> [Day -> Int]] /\ taken \in [User -> [Day -> Int]]
      /\ ActiveUsers \subseteq User /\ Day \subseteq Nat /\ loop.target \in Nat
      /\ snapshots' = taken
  BY ChargeStepTypes, NowTypes DEF RunsInv, DaysInv, Inv, TypeOK, ChargeStep
<1>2. charges'[u] = IF u \in ActiveUsers
                    THEN [charges[u] EXCEPT ![day] = RowCharged(u, taken)]
                    ELSE charges[u]
  BY DEF ChargeStep
<1>3. ~PlanRun(day)
  BY <1>1, NotBilledYet DEF ChargeStep, MayCharge
<1>4. charges[u][day] = NoCharge
  <2>1. ChargedOn(day) = {}
    BY <1>1, <1>3 DEF RunsInv, RunSound
  <2> QED
    BY <2>1 DEF ChargedOn
<1>5. /\ \A e \in Day : e # day => taken[u][e] = snapshots[u][e]
      /\ taken[u] # snapshots[u] => day = loop.target
  <2>1. CASE AsksProvider
    <3>1. PICK counts \in [User -> ProfileCounts] : taken = Captured(counts)
      BY <2>1 DEF ChargeStep, SnapshotsAfter
    <3>2. taken[u] = IF Live(acct[u]) THEN [snapshots[u] EXCEPT ![day] = counts[u]]
                     ELSE snapshots[u]
      BY <3>1 DEF Captured
    <3> QED
      BY <1>1, <2>1, <3>2 DEF AsksProvider
  <2>2. CASE ~AsksProvider
    BY <2>2 DEF ChargeStep, SnapshotsAfter
  <2> QED
    BY <2>1, <2>2
<1>6. CASE d = day /\ u \in ActiveUsers
  <2> DEFINE count == ProfileCountForDate(taken[u], d)
             r == charges'[u][d]
  <2>1. r = RowCharged(u, taken)
    BY <1>1, <1>2, <1>6
  <2>2. count \in Int
    BY <1>1, ProfileCountType
  <2>3. r.base = DailyAmount
        /\ r.extra = IF AdditionalProfiles(count) > 0
                     THEN AdditionalProfilesCharge(DailyAmount, count) ELSE NoAmount
    BY <1>6, <2>1 DEF RowCharged, ExtraCharge
  <2> HIDE DEF count, r
  <2>4. AdditionalProfiles(count) > 0 <=> count > 1
    BY <2>2 DEF AdditionalProfiles
  <2>5. r.extra = IF count > 1 THEN AdditionalProfilesCharge(r.base, count) ELSE NoAmount
    BY <2>3, <2>4
  <2> QED
    BY <1>1, <2>5 DEF ExtraSound, count, r
<1>7. CASE ~(d = day /\ u \in ActiveUsers)
  <2>1. charges'[u][d] = charges[u][d]
    BY <1>1, <1>2, <1>7
  <2> SUFFICES ASSUME charges[u][d] # NoCharge
               PROVE  ProfileCountForDate(taken[u], d) = ProfileCountForDate(snapshots[u], d)
    BY <1>1, <2>1 DEF RunsInv, ExtraSound
  <2>2. d # day /\ d <= loop.target /\ d \in Nat
    BY <1>1, <1>4 DEF RunsInv, DaysInv, UserDaysSound
  <2>3. ASSUME NEW e \in Day, e <= d PROVE taken[u][e] = snapshots[u][e]
    <3>1. e \in Nat
      BY <1>1
    <3>2. day = loop.target => e # day
      <4>1. day \in Nat /\ loop.target \in Nat
        BY <1>1
      <4> HIDE DEF day
      <4> QED
        BY <2>2, <2>3, <3>1, <4>1
    <3> QED
      BY <1>5, <3>2
  <2> QED
    BY <2>3, CountOfDay
<1> QED
  BY <1>6, <1>7

\* Billing has recorded nothing yet of a user there was before.
LEMMA LegacyUnbilled ==
  ASSUME NEW a \in LegacyAccounts, NEW t
  PROVE  ~BilledAt(a, t)
<1>1. NoAccount \in Account /\ NoAccount.history = << >> /\ 0 \in Nat
  BY NoAccountConsistent DEF NoAccount
<1>2. PICK row \in AccountStatus \X Balances \X Limits \X BOOLEAN :
        a = LegacyAccount(row[1], row[2], row[3], row[4])
  BY DEF LegacyAccounts
<1> DEFINE r == AccountRow(row[1], row[2], row[3], Midnight(0))
           c == [prev |-> "null", new |-> r.status, source |-> "bootstrap", eff |-> Midnight(0)]
           b == [r EXCEPT !.history = Append(@, c)]
<1>3. /\ row[1] \in AccountStatus /\ row[2] \in Int /\ row[3] \in Nat
      /\ Midnight(0) \in Int
  <2>1. row[1] \in AccountStatus /\ row[2] \in Int /\ row[3] \in Nat
    BY <1>2, BillingAssumption
  <2> QED
    BY <2>1 DEF Midnight
<1>4. r \in Account /\ r.history = << >>
  <2> HIDE DEF Midnight
  <2> QED
    BY <1>1, <1>3 DEF AccountRow, Account
<1>5. a = IF row[4] THEN b ELSE r
  BY <1>2 DEF LegacyAccount, AddInitialHistory, AddHistory
<1> HIDE DEF r
<1>6. c.source = "bootstrap"
  OBVIOUS
<1>7. b.history = Append(<< >>, c)
  BY <1>4 DEF Account
<1>8. c \in StatusChange
  BY <1>3, <1>4 DEF Account, StatusChange, StatusChangeSource
<1> HIDE DEF b, c
<1>9. CASE a = r
  <2>1. DOMAIN a.history = {}
    BY <1>4, <1>9
  <2> QED
    BY <2>1 DEF BilledAt
<1>10. CASE a = b
  <2> DEFINE h == a.history
  <2>1. h = Append(<< >>, c)
    BY <1>7, <1>10
  <2> HIDE DEF h
  <2>2. DOMAIN h = {1} /\ h[1] = c
    BY <1>8, <2>1
  <2> QED
    BY <1>6, <2>2 DEF BilledAt, h
<1> QED
  BY <1>5, <1>9, <1>10

LEMMA InitRuns == Init => RunsInv
<1> SUFFICES ASSUME Init PROVE RunsInv
  OBVIOUS
<1>1. DaysInv
  BY InitDays
<1>2. ASSUME NEW d \in Day
      PROVE  RunSound(d) /\ \A u \in User : ExtraSound(u, d)
  <2>1. runs[d] = NoRun /\ \A u \in User : charges[u][d] = NoCharge
    BY DEF Init
  <2>2. ChargedOn(d) = {}
    BY <2>1 DEF ChargedOn
  <2>3. \A u \in User : ~BilledAt(acct[u], Midnight(d))
    <3>1. PICK rows \in [Legacy -> LegacyAccounts] :
            acct = [u \in User |-> IF u \in Legacy THEN rows[u] ELSE NoAccount]
      BY DEF Init
    <3>2. DOMAIN NoAccount.history = {}
      BY DEF NoAccount
    <3>3. \A u \in User : u \notin Legacy => acct[u] = NoAccount
      BY <3>1
    <3>4. \A u \in User : u \in Legacy => acct[u] \in LegacyAccounts
      BY <3>1
    <3>5. \A a \in LegacyAccounts : ~BilledAt(a, Midnight(d))
      BY LegacyUnbilled
    <3> QED
      BY <3>2, <3>3, <3>4, <3>5 DEF BilledAt
  <2>4. BlockedAsOf(d) = {}
    BY <2>3, BlockedAsOfIs
  <2>5. ~PlanRun(d) /\ runs[d].status # "completed"
    BY <2>1 DEF PlanRun, NoRun
  <2> QED
    BY <2>1, <2>2, <2>4, <2>5 DEF RunSound, ExtraSound
<1> QED
  BY <1>1, <1>2 DEF RunsInv

LEMMA NoDatabaseError ==
  ASSUME "db_error" \notin FaultKinds
  PROVE  ~DatabaseError
  BY DEF DatabaseError

LEMMA StepRuns ==
  ASSUME "db_error" \notin FaultKinds
  PROVE  RunsInv /\ [Next]_vars => RunsInv'
<1> SUFFICES ASSUME RunsInv, [Next]_vars PROVE RunsInv'
  OBVIOUS
<1>1. DaysInv /\ DaysInv'
  BY StepDays DEF RunsInv
<1>2. CASE ChargeDate
  <2>1. PICK taken : ChargeStep(taken)
    BY <1>1, <1>2, ChargeDateStep DEF DaysInv
  <2>2. ASSUME NEW d \in Day PROVE RunSound(d)' /\ \A u \in User : ExtraSound(u, d)'
    BY <2>1, ChargeStepRun, ChargeStepExtra
  <2> QED
    BY <1>1, <2>2 DEF RunsInv
<1>3. CASE ~ChargeDate
  BY <1>1, <1>3, OtherStepsLeave, NoDatabaseError, GrowRuns
<1> QED
  BY <1>2, <1>3

\* As long as the database itself does not fail on a date, the runs, the charges and the snapshots
\* tell one story.
THEOREM RunsInvariance ==
  ASSUME "db_error" \notin FaultKinds
  PROVE  Spec => []RunsInv
  BY InitRuns, StepRuns, PTL DEF Spec

\* The counters of a completed run describe the charges and the blocks recorded for its day, and
\* a day without a completed run has none (_process_billing_date and its rollback).
THEOREM RunsCountCharges ==
  ASSUME "db_error" \notin FaultKinds
  PROVE  Spec => []RunMatchesCharges
<1>1. ASSUME RunsInv PROVE RunMatchesCharges
  <2> SUFFICES ASSUME NEW d \in Day
               PROVE  IF runs[d].status = "completed"
                      THEN /\ runs[d].charged = Cardinality(ChargedOn(d))
                           /\ runs[d].blocked = Cardinality(BlockedAsOf(d))
                           /\ \A u \in ChargedOn(d) : charges[u][d].base = runs[d].daily
                      ELSE ChargedOn(d) = {} /\ BlockedAsOf(d) = {}
    BY DEF RunMatchesCharges
  <2>1. RunSound(d)
    BY <1>1 DEF RunsInv
  <2>2. Cardinality({}) = 0
    BY FS_EmptySet
  <2>3. CASE PlanRun(d)
    BY <2>1, <2>3 DEF RunSound, PlanRun
  <2>4. CASE ~PlanRun(d)
    BY <2>1, <2>2, <2>4 DEF RunSound
  <2> QED
    BY <2>3, <2>4
<1> QED
  BY <1>1, RunsInvariance, PTL

\* An extra charge is explained by the snapshots on record: half a share for each profile after
\* the first of the last snapshot up to that day (profile_count_for_date).
THEOREM ExtraChargesExplained ==
  ASSUME "db_error" \notin FaultKinds
  PROVE  Spec => []ExtraChargeExplained
<1>1. RunsInv => ExtraChargeExplained
  BY DEF RunsInv, ExtraSound, ExtraChargeExplained
<1> QED
  BY <1>1, RunsInvariance, PTL

-----------------------------------------------------------------------------
(* When the database fails *)

\* What a step that does not charge makes of the run of a date: its counters stay, or are
\* dropped, and a run once recorded stays recorded.
RunKept(d) ==
  \/ runs'[d] = runs[d]
  \/ /\ runs'[d].status # "none"
     /\ runs'[d].charged \in {0, runs[d].charged} /\ runs'[d].blocked \in {0, runs[d].blocked}

LEMMA FailedDateKeptRuns ==
  ASSUME TypeOK, loop.cursor \in Day, FailedDate
  PROVE  \A d \in Day : RunKept(d)
<1>1. ASSUME NEW d \in Day PROVE RunKept(d)
  BY DEF RunKept, FailedDate, TypeOK, Run
<1> QED
  BY <1>1

LEMMA EmptyDateKeeps ==
  ASSUME Inv, CompleteWithoutPlan
  PROVE  \A d \in Day : RunKept(d)
<1> DEFINE r == [NoRun EXCEPT !.status = "completed"]
<1>1. loop.cursor \in Day /\ runs \in [Day -> Run]
  BY LoopTypes DEF Inv, TypeOK, CompleteWithoutPlan
<1>2. runs' = [runs EXCEPT ![loop.cursor] = r]
  BY DEF CompleteWithoutPlan
<1>3. r.status = "completed" /\ r.charged = 0 /\ r.blocked = 0
  BY DEF NoRun
<1> HIDE DEF r
<1> QED
  BY <1>1, <1>2, <1>3 DEF RunKept

LEMMA OtherStepsKeep ==
  ASSUME DaysInv, [Next]_vars, ~ChargeDate
  PROVE  RecordsGrow /\ UNCHANGED charges /\ \A d \in Day : RunKept(d)
<1>1. Inv
  BY DEF DaysInv
<1>2. RecordsGrow /\ UNCHANGED charges
  <2>1. CASE DatabaseError
    BY <1>1, <2>1, SameRecordsGrow DEF DatabaseError, FailedDate
  <2>2. CASE ~DatabaseError
    BY <2>2, OtherStepsLeave
  <2> QED
    BY <2>1, <2>2
<1>3. \A d \in Day : RunKept(d)
  <2>1. CASE ProviderFails \/ DuplicateCharge \/ DatabaseError
    <3>1. loop.pc = "billing" /\ FailedDate
      BY <2>1 DEF ProviderFails, DuplicateCharge, DatabaseError, MayCharge
    <3>2. TypeOK /\ loop.cursor \in Day
      BY <1>1, <3>1, LoopTypes DEF Inv
    <3> QED
      BY <3>1, <3>2, FailedDateKeptRuns
  <2>2. CASE CompleteWithoutPlan
    BY <1>1, <2>2, EmptyDateKeeps
  <2>3. CASE runs' = runs
    BY <2>3 DEF RunKept
  <2>4. StartCatchUp \/ SkipBilledDate \/ SendNotices \/ SyncPausedProfiles \/ Crash
          => runs' = runs
    BY DEF StartCatchUp, SkipBilledDate, SendNotices, SyncPausedProfiles, Crash, database
  <2>5. NextDay \/ (\E id \in PlanId : PlanRequest(id)) \/ UNCHANGED vars => runs' = runs
    BY DEF NextDay, PlanRequest, CreatePlan, UpdatePlan, DeletePlan, StorePlans, database, vars
  <2>6. (\E u \in User : UserRequest(u)) => runs' = runs
    BY DEF UserRequest, CreateUser, UpdateUser, StartDelete, FinishDelete, TopUp, Activate,
           TakeVpnJob, Store, database
  <2> QED
    BY <2>1, <2>2, <2>3, <2>4, <2>5, <2>6 DEF Next, BillingLoop
<1> QED
  BY <1>2, <1>3

\* The strengthening: a date whose run was marked as failed after it was charged may be
\* charged again, for the users that were not.
BoundedInv == DaysInv /\ \A d \in Day : RunBounded(d)

LEMMA SetsOfDate ==
  ASSUME NEW d \in Day
  PROVE  /\ IsFiniteSet(ChargedOn(d)) /\ Cardinality(ChargedOn(d)) \in Nat
         /\ IsFiniteSet(BlockedAsOf(d)) /\ Cardinality(BlockedAsOf(d)) \in Nat
<1>1. IsFiniteSet(User) /\ ChargedOn(d) \subseteq User /\ BlockedAsOf(d) \subseteq User
  BY BillingAssumption DEF ChargedOn, BlockedAsOf
<1>2. IsFiniteSet(ChargedOn(d)) /\ IsFiniteSet(BlockedAsOf(d))
  BY <1>1, FS_Subset
<1> QED
  BY <1>2, FS_CardinalityType

LEMMA KeptBounded ==
  ASSUME BoundedInv, DaysInv', RecordsGrow, UNCHANGED charges, \A d \in Day : RunKept(d)
  PROVE  BoundedInv'
<1>1. ASSUME NEW d \in Day
      PROVE  RunBounded(d)'
  <2>1. BlockedAsOf(d)' = BlockedAsOf(d) /\ ChargedOn(d)' = ChargedOn(d)
    BY GrowKeepsBlocks DEF BoundedInv, DaysInv, ChargedOn
  <2>2. RunBounded(d) /\ RunKept(d)
    BY DEF BoundedInv
  <2>3. Cardinality(ChargedOn(d)) \in Nat /\ Cardinality(BlockedAsOf(d)) \in Nat
    BY SetsOfDate
  <2>4. CASE runs'[d] = runs[d]
    BY <2>1, <2>2, <2>4 DEF RunBounded
  <2>5. CASE runs'[d] # runs[d]
    <3>1. /\ runs'[d].status # "none"
          /\ runs'[d].charged = 0 \/ runs'[d].charged = runs[d].charged
          /\ runs'[d].blocked = 0 \/ runs'[d].blocked = runs[d].blocked
      BY <2>2, <2>5 DEF RunKept
    <3>2. /\ runs'[d].charged <= Cardinality(ChargedOn(d))
          /\ runs'[d].blocked <= Cardinality(BlockedAsOf(d))
      BY <2>2, <2>3, <3>1 DEF RunBounded
    <3> QED
      BY <2>1, <2>2, <3>1, <3>2 DEF RunBounded
  <2> QED
    BY <2>4, <2>5
<1> QED
  BY <1>1 DEF BoundedInv

LEMMA ChargeStepBounded ==
  ASSUME BoundedInv, NEW taken, ChargeStep(taken), NEW d \in Day
  PROVE  RunBounded(d)'
<1> DEFINE day == loop.cursor
           out == {u \in ActiveUsers : OutOfMoney(acct'[u])}
           t == Midnight(d)
<1>1. /\ Inv /\ day \in Day /\ runs \in [Day -> Run] /\ charges \in [User -> [Day -> Charge]]
      /\ ActiveUsers \subseteq User /\ (\A v \in ActiveUsers : DailyAmount \in Nat)
      /\ d \in Nat /\ day \in Nat
  BY ChargeStepTypes, NowTypes DEF BoundedInv, DaysInv, Inv
<1>2. /\ runs' = [runs EXCEPT ![day] = ChargedRun]
      /\ \A u \in User : charges'[u] = IF u \in ActiveUsers
                                       THEN [charges[u] EXCEPT ![day] = RowCharged(u, taken)]
                                       ELSE charges[u]
  BY DEF ChargeStep
<1>3. RunBounded(d)
  BY DEF BoundedInv
<1>4. t \in Int /\ (t = Midnight(day) <=> d = day)
  BY <1>1 DEF Midnight
<1>5. \A u \in User : BilledAt(acct'[u], t) <=>
                        \/ BilledAt(acct[u], t)
                        \/ u \in ActiveUsers /\ OutOfMoney(acct'[u]) /\ d = day
  BY <1>1, <1>4, ChargedBilled
<1>6. BlockedAsOf(d)' = {u \in User : BilledAt(acct'[u], t)}
      /\ BlockedAsOf(d) = {u \in User : BilledAt(acct[u], t)}
  BY DEF BlockedAsOf, BilledAt
<1>7. ChargedOn(d)' = {u \in User : charges'[u][d] # NoCharge}
  BY DEF ChargedOn
<1> HIDE DEF day, t
<1>8. CASE d # day
  <2>1. runs'[d] = runs[d] /\ \A u \in User : charges'[u][d] = charges[u][d]
    BY <1>1, <1>2, <1>8
  <2>2. BlockedAsOf(d)' = BlockedAsOf(d) /\ ChargedOn(d)' = ChargedOn(d)
    BY <1>5, <1>6, <1>7, <1>8, <2>1 DEF ChargedOn
  <2> QED
    BY <1>3, <2>1, <2>2 DEF RunBounded
<1>9. CASE d = day
  <2>1. runs'[d] = ChargedRun
    BY <1>1, <1>2, <1>9
  <2>2. /\ runs'[d].charged = Cardinality(ActiveUsers)
        /\ runs'[d].blocked = Cardinality(out)
        /\ runs'[d].status = "completed"
    BY <2>1 DEF ChargedRun
  <2>3. /\ \A u \in ActiveUsers : charges'[u][d] = RowCharged(u, taken)
        /\ \A u \in User : u \notin ActiveUsers => charges'[u][d] = charges[u][d]
    BY <1>1, <1>2, <1>9
  <2>4. \A u \in ActiveUsers : RowCharged(u, taken) # NoCharge
    BY <1>1 DEF RowCharged, NoCharge, NoAmount
  <2>5. ActiveUsers \subseteq ChargedOn(d)' /\ ChargedOn(d) \subseteq ChargedOn(d)'
    BY <1>1, <1>7, <2>3, <2>4 DEF ChargedOn
  <2>6. BlockedAsOf(d)' = BlockedAsOf(d) \union out
    BY <1>1, <1>5, <1>6, <1>9
  <2>7. /\ out \subseteq BlockedAsOf(d)' /\ out \subseteq ActiveUsers
        /\ BlockedAsOf(d)' \subseteq ChargedOn(d)'
    BY <1>3, <2>5, <2>6 DEF RunBounded
  <2> HIDE DEF out
  <2>8. IsFiniteSet(ChargedOn(d)') /\ IsFiniteSet(BlockedAsOf(d)')
    <3>1. IsFiniteSet(User) /\ ChargedOn(d)' \subseteq User /\ BlockedAsOf(d)' \subseteq User
      BY <1>6, <1>7, BillingAssumption
    <3> QED
      BY <3>1, FS_Subset
  <2>9. /\ Cardinality(ActiveUsers) <= Cardinality(ChargedOn(d)')
        /\ Cardinality(out) <= Cardinality(BlockedAsOf(d)')
    BY <2>5, <2>7, <2>8, FS_Subset
  <2> QED
    BY <2>2, <2>7, <2>9 DEF RunBounded
<1> QED
  BY <1>8, <1>9

LEMMA InitBounded == Init => BoundedInv
<1> SUFFICES ASSUME Init PROVE BoundedInv
  OBVIOUS
<1>1. RunsInv
  BY InitRuns
<1>2. ASSUME NEW d \in Day
      PROVE  RunBounded(d)
  <2>1. runs[d] = NoRun
    BY DEF Init
  <2>2. ChargedOn(d) = {} /\ BlockedAsOf(d) = {}
    BY <1>1, <2>1 DEF RunsInv, RunSound, PlanRun, NoRun
  <2>3. Cardinality(ChargedOn(d)) = 0 /\ Cardinality(BlockedAsOf(d)) = 0
    BY <2>2, FS_EmptySet
  <2> QED
    BY <2>1, <2>2, <2>3 DEF RunBounded, NoRun
<1> QED
  BY <1>1, <1>2 DEF BoundedInv, RunsInv

LEMMA StepBounded == BoundedInv /\ [Next]_vars => BoundedInv'
<1> SUFFICES ASSUME BoundedInv, [Next]_vars PROVE BoundedInv'
  OBVIOUS
<1>1. DaysInv /\ DaysInv'
  BY StepDays DEF BoundedInv
<1>2. CASE ChargeDate
  <2>1. PICK taken : ChargeStep(taken)
    BY <1>1, <1>2, ChargeDateStep DEF DaysInv
  <2>2. ASSUME NEW d \in Day PROVE RunBounded(d)'
    BY <2>1, ChargeStepBounded
  <2> QED
    BY <1>1, <2>2 DEF BoundedInv
<1>3. CASE ~ChargeDate
  BY <1>1, <1>3, OtherStepsKeep, KeptBounded
<1> QED
  BY <1>2, <1>3

\* Whatever fails, and however often a date is tried, a run never claims a charge or a block that
\* was not recorded, nobody is blocked as of a midnight they were not charged for, and nobody is
\* charged on a day billing knows nothing of (_process_billing_date, _fail_billing_run).
THEOREM RunsNeverOverstate == Spec => []RunNeverOverstates
<1>1. BoundedInv => RunNeverOverstates
  BY DEF BoundedInv, RunNeverOverstates
<1> QED
  BY <1>1, InitBounded, StepBounded, PTL DEF Spec

\* A charge is made once and for all, although a date already charged may be tried again after a
\* database error, with other users and another plan (uq_user_daily_charges_user_created_kind).
THEOREM ChargesAreFinal == Spec => ChargesFinal
<1>1. ASSUME DaysInv, [Next]_vars
      PROVE  \A u \in User, d \in Day : charges[u][d] # NoCharge =>
               charges'[u][d] = charges[u][d]
  <2>1. CASE ChargeDate
    <3>1. PICK taken : ChargeStep(taken)
      BY <1>1, <2>1, ChargeDateStep DEF DaysInv
    <3>2. loop.cursor \in Day /\ charges \in [User -> [Day -> Charge]]
      BY <1>1, <3>1, ChargeStepTypes DEF DaysInv
    <3>3. \A u \in ActiveUsers : charges[u][loop.cursor] = NoCharge
      BY <3>1 DEF ChargeStep, ChargeExists
    <3>4. \A u \in User : charges'[u] = IF u \in ActiveUsers
            THEN [charges[u] EXCEPT ![loop.cursor] = RowCharged(u, taken)] ELSE charges[u]
      BY <3>1 DEF ChargeStep
    <3> QED
      BY <3>2, <3>3, <3>4
  <2>2. CASE ~ChargeDate
    BY <1>1, <2>2, OtherStepsKeep
  <2> QED
    BY <2>1, <2>2
<1> QED
  BY <1>1, DaysInvariance, PTL DEF Spec, ChargesFinal

\* A charge is what the rows committed with it say: the daily charge of its run, and half of it for
\* each profile after the first of the last snapshot.
ChargesExplainedWhenMade ==
  [][\A u \in User, d \in Day : charges'[u][d] # charges[u][d] =>
       LET count == ProfileCountForDate(snapshots'[u], d)
       IN  /\ runs'[d].status = "completed" /\ charges'[u][d].base = runs'[d].daily
           /\ charges'[u][d].extra =
                IF count > 1 THEN AdditionalProfilesCharge(runs'[d].daily, count) ELSE NoAmount]_vars

LEMMA ChargeStepExplains ==
  ASSUME Inv, NEW taken, ChargeStep(taken), NEW u \in User, NEW d \in Day,
         charges'[u][d] # charges[u][d]
  PROVE  LET count == ProfileCountForDate(snapshots'[u], d)
         IN  /\ runs'[d].status = "completed" /\ charges'[u][d].base = runs'[d].daily
             /\ charges'[u][d].extra =
                  IF count > 1 THEN AdditionalProfilesCharge(runs'[d].daily, count) ELSE NoAmount
<1> DEFINE day == loop.cursor
           count == ProfileCountForDate(taken[u], d)
           r == charges'[u][d]
<1>1. /\ day \in Day /\ runs \in [Day -> Run] /\ charges \in [User -> [Day -> Charge]]
      /\ taken \in [User -> [Day -> Int]] /\ snapshots' = taken
  BY ChargeStepTypes DEF ChargeStep
<1>2. /\ charges'[u] = IF u \in ActiveUsers
                       THEN [charges[u] EXCEPT ![day] = RowCharged(u, taken)]
                       ELSE charges[u]
      /\ runs' = [runs EXCEPT ![day] = ChargedRun]
  BY DEF ChargeStep
<1>3. d = day /\ u \in ActiveUsers
  BY <1>1, <1>2
<1>4. r = RowCharged(u, taken) /\ runs'[d] = ChargedRun
  BY <1>1, <1>2, <1>3
<1>5. count \in Int
  BY <1>1, ProfileCountType
<1>6. r.base = DailyAmount
      /\ r.extra = IF AdditionalProfiles(count) > 0
                   THEN AdditionalProfilesCharge(DailyAmount, count) ELSE NoAmount
  BY <1>3, <1>4 DEF RowCharged, ExtraCharge
<1>7. runs'[d].status = "completed" /\ runs'[d].daily = DailyAmount
  BY <1>3, <1>4 DEF ChargedRun
<1> HIDE DEF count, r
<1>8. AdditionalProfiles(count) > 0 <=> count > 1
  BY <1>5 DEF AdditionalProfiles
<1>9. r.extra = IF count > 1 THEN AdditionalProfilesCharge(runs'[d].daily, count) ELSE NoAmount
  BY <1>6, <1>7, <1>8
<1> QED
  BY <1>1, <1>6, <1>7, <1>9 DEF count, r

\* What is charged is explained by what is committed with it, also when a date is tried again after
\* a database error; that later attempts may replace the run and the snapshots is why
\* RunMatchesCharges and ExtraChargeExplained need that there is none.
THEOREM ChargesAreExplained == Spec => ChargesExplainedWhenMade
<1>1. ASSUME DaysInv, [Next]_vars, NEW u \in User, NEW d \in Day, charges'[u][d] # charges[u][d]
      PROVE  LET count == ProfileCountForDate(snapshots'[u], d)
             IN  /\ runs'[d].status = "completed" /\ charges'[u][d].base = runs'[d].daily
                 /\ charges'[u][d].extra =
                      IF count > 1 THEN AdditionalProfilesCharge(runs'[d].daily, count)
                      ELSE NoAmount
  <2>1. ChargeDate
    BY <1>1, OtherStepsKeep
  <2>2. PICK taken : ChargeStep(taken)
    BY <1>1, <2>1, ChargeDateStep DEF DaysInv
  <2> QED
    BY <1>1, <2>2, ChargeStepExplains DEF DaysInv
<1>2. ASSUME DaysInv, [Next]_vars
      PROVE  \A u \in User, d \in Day : charges'[u][d] # charges[u][d] =>
               LET count == ProfileCountForDate(snapshots'[u], d)
               IN  /\ runs'[d].status = "completed" /\ charges'[u][d].base = runs'[d].daily
                   /\ charges'[u][d].extra =
                        IF count > 1 THEN AdditionalProfilesCharge(runs'[d].daily, count)
                        ELSE NoAmount
  BY <1>1, <1>2
<1> QED
  BY <1>2, DaysInvariance, PTL DEF Spec, ChargesExplainedWhenMade

-----------------------------------------------------------------------------
(* The plans and the amounts *)

\* ROUND_HALF_UP gives the nearest kopeck, and the upper one of two.
LEMMA RoundHalfUpIsNearest ==
  ASSUME NEW n \in Nat, NEW m \in Nat \ {0}
  PROVE  /\ 2 * n - m < 2 * m * RoundHalfUp(n, m)
         /\ 2 * m * RoundHalfUp(n, m) <= 2 * n + m
<1> DEFINE k == 2 * n + m
           l == 2 * m
           q == k \div l
           r == k % l
<1>1. k \in Nat /\ l \in Nat \ {0}
  OBVIOUS
<1>2. q \in Nat /\ r \in 0 .. (l - 1) /\ k = l * q + r
  <2> HIDE DEF k, l
  <2> QED
    BY <1>1
<1>3. RoundHalfUp(n, m) = q
  BY DEF RoundHalfUp
<1> HIDE DEF q, r
<1> DEFINE x == l * q
<1>4. x \in Nat /\ 2 * m * q = x
  BY <1>1, <1>2
<1>5. k - l < x /\ x <= k
  <2> HIDE DEF k, l, x
  <2>1. k = x + r
    BY <1>2 DEF x
  <2> QED
    BY <1>1, <1>2, <1>4, <2>1
<1> HIDE DEF x
<1>6. 2 * n - m < x /\ x <= 2 * n + m
  BY <1>4, <1>5
<1> QED
  BY <1>3, <1>4, <1>6

\* What the run of a date says of its plan and of its amounts.
RunOnPlan(d) ==
  runs[d].plan # NoPlan =>
    /\ d <= today /\ InForce(plans, runs[d].plan, d)
    /\ runs[d].charged = runs[d].active
    /\ runs[d].daily = IF runs[d].active = 0 THEN NoAmount
                       ELSE DailyShare(plans[runs[d].plan].monthly, DaysInMonth[d],
                                       runs[d].active)

ScheduleInv == Inv /\ IsSchedule(plans) /\ \A d \in Day : RunOnPlan(d)

\* What a step that does not charge leaves of the terms of a run.
SameTerms(d) ==
  \/ runs'[d].plan = NoPlan
  \/ /\ runs'[d].plan = runs[d].plan /\ runs'[d].active = runs[d].active
     /\ runs'[d].charged = runs[d].charged /\ runs'[d].daily = runs[d].daily

LEMMA QuietTerms ==
  ASSUME Inv, [Next]_vars, ~ChargeDate, ~(\E id \in PlanId : PlanRequest(id))
  PROVE  plans' = plans /\ today' \in Nat /\ today <= today' /\ \A d \in Day : SameTerms(d)
<1>1. /\ loop.pc = "billing" => loop.cursor \in Day
      /\ runs \in [Day -> Run] /\ today \in Nat
  BY LoopTypes, NowTypes DEF Inv, TypeOK
<1>2. runs' = runs => \A d \in Day : SameTerms(d)
  BY DEF SameTerms
<1>3. today' = today => today' \in Nat /\ today <= today'
  BY <1>1
<1>4. CASE NextDay
  <2>1. today' = today + 1 /\ plans' = plans /\ runs' = runs
    BY <1>4 DEF NextDay, database
  <2> QED
    BY <1>1, <1>2, <2>1
<1>5. CASE ProviderFails \/ DuplicateCharge \/ DatabaseError
  <2>1. loop.pc = "billing" /\ FailedDate
    BY <1>5 DEF ProviderFails, DuplicateCharge, DatabaseError, MayCharge
  <2>2. plans' = plans /\ today' = today
    BY <2>1 DEF FailedDate
  <2>3. ASSUME NEW d \in Day PROVE SameTerms(d)
    BY <1>1, <2>1 DEF SameTerms, FailedDate, Run
  <2> QED
    BY <1>3, <2>2, <2>3
<1>6. CASE CompleteWithoutPlan
  <2>1. ASSUME NEW d \in Day PROVE SameTerms(d)
    BY <1>1, <1>6 DEF SameTerms, CompleteWithoutPlan, NoRun
  <2>2. plans' = plans /\ today' = today
    BY <1>6 DEF CompleteWithoutPlan
  <2> QED
    BY <1>3, <2>1, <2>2
<1>7. CASE StartCatchUp \/ SkipBilledDate \/ SendNotices \/ SyncPausedProfiles \/ Crash
  <2>1. UNCHANGED <<plans, today, runs>>
    BY <1>7 DEF StartCatchUp, SkipBilledDate, SendNotices, SyncPausedProfiles, Crash, database
  <2> QED
    BY <1>2, <1>3, <2>1
<1>8. CASE \E u \in User : UserRequest(u)
  <2>1. UNCHANGED <<plans, today, runs>>
    BY <1>8 DEF UserRequest, CreateUser, UpdateUser, StartDelete, FinishDelete, TopUp, Activate,
                TakeVpnJob, Store, database
  <2> QED
    BY <1>2, <1>3, <2>1
<1>9. CASE UNCHANGED vars
  BY <1>2, <1>3, <1>9 DEF vars
<1> QED
  BY <1>4, <1>5, <1>6, <1>7, <1>8, <1>9 DEF Next, BillingLoop

LEMMA QuietSchedule ==
  ASSUME ScheduleInv, Inv', plans' = plans, today' \in Nat, today <= today',
         \A d \in Day : SameTerms(d)
  PROVE  ScheduleInv'
<1>1. today \in Nat /\ \A d \in Day : d \in Nat
  BY NowTypes DEF ScheduleInv, Inv
<1>2. ASSUME NEW d \in Day, runs'[d].plan # NoPlan
      PROVE  RunOnPlan(d)'
  <2>1. /\ runs'[d].plan = runs[d].plan /\ runs'[d].active = runs[d].active
        /\ runs'[d].charged = runs[d].charged /\ runs'[d].daily = runs[d].daily
    BY <1>2 DEF SameTerms
  <2>2. RunOnPlan(d) /\ runs[d].plan # NoPlan
    BY <1>2, <2>1 DEF ScheduleInv
  <2>3. d <= today'
    BY <1>1, <2>2 DEF RunOnPlan
  <2> QED
    BY <2>1, <2>2, <2>3 DEF RunOnPlan, InForce
<1>3. IsSchedule(plans)'
  BY DEF ScheduleInv
<1> QED
  BY <1>2, <1>3 DEF ScheduleInv, RunOnPlan

\* The handlers of the plans: the first plan may start in the past, the others may not touch it.
LEMMA PlanRequestTables ==
  ASSUME Inv, IsSchedule(plans), NEW id \in PlanId, PlanRequest(id)
  PROVE  /\ IsSchedule(plans') /\ UNCHANGED <<today, runs>>
         /\ (DOMAIN plans # {} => KeepsStarted(plans', plans, today))
<1>1. /\ IsPlanTable(plans) /\ today \in Int /\ (\A start \in Day : start \in Nat)
      /\ \A m \in Monthly : m \in Nat
  BY NowTypes, BillingAssumption DEF Inv, TypeOK
<1>2. CASE CreatePlan(id)
  <2>1. PICK start \in Day, monthly \in Monthly :
          /\ MayCreatePlan(plans, start, today)
          /\ StorePlans(CreatedPlan(plans, id, start, monthly))
    BY <1>2 DEF CreatePlan
  <2>2. id \notin DOMAIN plans /\ plans' = CreatedPlan(plans, id, start, monthly)
        /\ UNCHANGED <<today, runs>>
    BY <1>2, <2>1 DEF CreatePlan, StorePlans
  <2>3. start \in Nat /\ monthly \in Nat
    BY <1>1
  <2>4. IsSchedule(CreatedPlan(plans, id, start, monthly))
    BY <1>1, <2>1, <2>2, <2>3, HandlersKeepSchedule
  <2>5. DOMAIN plans # {} => KeepsStarted(CreatedPlan(plans, id, start, monthly), plans, today)
    BY <1>1, <2>1, <2>2, <2>3, HandlersKeepStarted
  <2> QED
    BY <2>2, <2>4, <2>5
<1>3. CASE UpdatePlan(id)
  <2>1. PICK start \in Day, monthly \in Monthly :
          /\ MayUpdatePlan(plans, id, start, today)
          /\ StorePlans(UpdatedPlan(plans, id, start, monthly))
    BY <1>3 DEF UpdatePlan
  <2>2. id \in DOMAIN plans /\ plans' = UpdatedPlan(plans, id, start, monthly)
        /\ UNCHANGED <<today, runs>>
    BY <1>3, <2>1 DEF UpdatePlan, StorePlans
  <2>3. start \in Nat /\ monthly \in Nat
    BY <1>1
  <2>4. IsSchedule(UpdatedPlan(plans, id, start, monthly))
    BY <1>1, <2>1, <2>2, <2>3, HandlersKeepSchedule
  <2>5. KeepsStarted(UpdatedPlan(plans, id, start, monthly), plans, today)
    BY <1>1, <2>1, <2>2, <2>3, HandlersKeepStarted
  <2> QED
    BY <2>2, <2>4, <2>5
<1>4. CASE DeletePlan(id)
  <2>1. id \in DOMAIN plans /\ MayDeletePlan(plans, id, today)
        /\ plans' = DeletedPlan(plans, id) /\ UNCHANGED <<today, runs>>
    BY <1>4 DEF DeletePlan, StorePlans
  <2>2. 0 \in Nat
    OBVIOUS
  <2>3. IsSchedule(DeletedPlan(plans, id))
    BY <1>1, <2>2, HandlersKeepSchedule
  <2>4. KeepsStarted(DeletedPlan(plans, id), plans, today)
    BY <1>1, <2>1, <2>2, HandlersKeepStarted
  <2> QED
    BY <2>1, <2>3, <2>4
<1> QED
  BY <1>2, <1>3, <1>4 DEF PlanRequest

LEMMA PlanRequestSchedule ==
  ASSUME ScheduleInv, Inv', NEW id \in PlanId, PlanRequest(id)
  PROVE  ScheduleInv'
<1>1. /\ Inv /\ IsSchedule(plans) /\ IsPlanTable(plans) /\ today \in Nat
      /\ \A d \in Day : d \in Nat /\ RunOnPlan(d)
  BY NowTypes DEF ScheduleInv, Inv, TypeOK
<1>2. /\ IsSchedule(plans') /\ UNCHANGED <<today, runs>>
      /\ DOMAIN plans # {} => KeepsStarted(plans', plans, today)
  BY <1>1, PlanRequestTables
<1>3. IsPlanTable(plans')
  BY <1>2 DEF IsSchedule
<1>4. ASSUME NEW d \in Day, runs[d].plan # NoPlan
      PROVE  RunOnPlan(d)'
  <2> DEFINE p == runs[d].plan
  <2>1. RunOnPlan(d) /\ d \in Nat
    BY <1>1
  <2>2. d <= today /\ InForce(plans, p, d)
    BY <1>4, <2>1 DEF RunOnPlan
  <2>3. KeepsStarted(plans', plans, today)
    BY <1>2, <2>2 DEF InForce
  <2>4. InForce(plans', p, d) /\ plans'[p].monthly = plans[p].monthly
    <3> HIDE DEF p
    <3> QED
      BY <1>1, <1>3, <2>1, <2>2, <2>3, StartedStayInForce
  <2>5. InForce(plans, p, d)' <=> InForce(plans', p, d)
    BY <1>2 DEF InForce
  <2> QED
    BY <1>2, <1>4, <2>1, <2>2, <2>4, <2>5 DEF RunOnPlan
<1> QED
  BY <1>2, <1>4 DEF ScheduleInv, RunOnPlan

LEMMA ChargeStepSchedule ==
  ASSUME ScheduleInv, Inv', NEW taken, ChargeStep(taken)
  PROVE  ScheduleInv'
<1> DEFINE day == loop.cursor
<1>1. /\ Inv /\ IsSchedule(plans) /\ runs \in [Day -> Run] /\ \A d \in Day : RunOnPlan(d)
      /\ day \in Day /\ day \in Nat /\ loop.target \in Nat /\ today \in Nat
      /\ day <= loop.target /\ loop.target <= today
  BY ChargeStepTypes DEF ScheduleInv
<1>2. /\ UNCHANGED <<today, plans>> /\ runs' = [runs EXCEPT ![day] = ChargedRun]
      /\ PlanNow # NoPlan
  BY DEF ChargeStep, MayCharge
<1>3. InForce(plans, PlanNow, day)
  BY <1>1, <1>2, PlanInForce DEF PlanNow
<1>4. /\ ChargedRun.plan = PlanNow /\ ChargedRun.active = Cardinality(ActiveUsers)
      /\ ChargedRun.charged = Cardinality(ActiveUsers)
      /\ ChargedRun.daily = IF ActiveUsers = {} THEN NoAmount ELSE DailyAmount
  BY DEF ChargedRun
<1>5. Cardinality(ActiveUsers) = 0 <=> ActiveUsers = {}
  BY ActiveUsersCount, FS_EmptySet
<1>6. DailyAmount =
        DailyShare(plans[PlanNow].monthly, DaysInMonth[day], Cardinality(ActiveUsers))
  BY DEF DailyAmount
<1>7. day <= today
  <2> HIDE DEF day
  <2> QED
    BY <1>1
<1> HIDE DEF day
<1>8. ASSUME NEW d \in Day PROVE RunOnPlan(d)'
  <2>1. CASE d = day
    <3>1. runs'[d] = ChargedRun
      BY <1>1, <1>2, <2>1
    <3> QED
      BY <1>2, <1>3, <1>4, <1>5, <1>6, <1>7, <2>1, <3>1 DEF RunOnPlan, InForce
  <2>2. CASE d # day
    <3>1. runs'[d] = runs[d] /\ RunOnPlan(d)
      BY <1>1, <1>2, <2>2
    <3> QED
      BY <1>2, <3>1 DEF RunOnPlan, InForce
  <2> QED
    BY <2>1, <2>2
<1> QED
  BY <1>1, <1>2, <1>8 DEF ScheduleInv

LEMMA InitSchedule == Init => ScheduleInv
<1> SUFFICES ASSUME Init PROVE ScheduleInv
  OBVIOUS
<1>1. Inv
  BY InitInv
<1>2. plans = NoPlans /\ DOMAIN plans = {} /\ \A d \in Day : runs[d] = NoRun
  BY DEF Init, NoPlans
<1>3. IsSchedule(plans)
  BY <1>1, <1>2 DEF IsSchedule, Inv, TypeOK
<1> QED
  BY <1>1, <1>2, <1>3 DEF ScheduleInv, RunOnPlan, NoRun

LEMMA StepSchedule == (DaysInv /\ ScheduleInv) /\ [Next]_vars => (DaysInv /\ ScheduleInv)'
<1> SUFFICES ASSUME DaysInv, ScheduleInv, [Next]_vars PROVE DaysInv' /\ ScheduleInv'
  OBVIOUS
<1>1. DaysInv' /\ Inv /\ Inv'
  BY StepDays DEF DaysInv
<1>2. CASE ChargeDate
  <2>1. PICK taken : ChargeStep(taken)
    BY <1>1, <1>2, ChargeDateStep
  <2> QED
    BY <1>1, <2>1, ChargeStepSchedule
<1>3. CASE \E id \in PlanId : PlanRequest(id)
  BY <1>1, <1>3, PlanRequestSchedule
<1>4. CASE ~ChargeDate /\ ~(\E id \in PlanId : PlanRequest(id))
  BY <1>1, <1>4, QuietTerms, QuietSchedule
<1> QED
  BY <1>2, <1>3, <1>4

\* The table of the plans is a schedule in every state, and every run agrees with it.
THEOREM ScheduleInvariance == Spec => []ScheduleInv
<1>1. Init => DaysInv /\ ScheduleInv
  BY InitDays, InitSchedule
<1> QED
  BY <1>1, StepSchedule, PTL DEF Spec

\* A run that names a plan names the one the table has for its date now, and its daily charge is
\* the monthly amount of that plan, to the nearest kopeck, over the days of the month and the
\* users it counted.
NearestShare(amount, monthly, shares) ==
  2 * monthly - shares < 2 * shares * amount /\ 2 * shares * amount <= 2 * monthly + shares
RunsFollowPlans ==
  \A d \in Day : runs[d].plan # NoPlan =>
    /\ runs[d].plan = PlanForDate(plans, d)
    /\ runs[d].active # 0 =>
         NearestShare(runs[d].daily, plans[runs[d].plan].monthly, DaysInMonth[d] * runs[d].active)

LEMMA RunIsNearest ==
  ASSUME ScheduleInv, NEW d \in Day, runs[d].plan # NoPlan
  PROVE  /\ runs[d].plan = PlanForDate(plans, d)
         /\ runs[d].active # 0 =>
              NearestShare(runs[d].daily, plans[runs[d].plan].monthly,
                           DaysInMonth[d] * runs[d].active)
<1> DEFINE p == runs[d].plan
           n == runs[d].active
           m == DaysInMonth[d]
           shares == m * n
           monthly == plans[p].monthly
<1>1. /\ Inv /\ IsSchedule(plans) /\ IsPlanTable(plans) /\ d \in Nat /\ runs[d] \in Run
      /\ m \in Nat \ {0}
  BY NowTypes, BillingAssumption DEF ScheduleInv, Inv, TypeOK
<1>2. InForce(plans, p, d) /\ n \in Nat
      /\ (n # 0 => runs[d].daily = DailyShare(monthly, m, n))
  BY <1>1 DEF ScheduleInv, RunOnPlan, Run
<1>3. p \in DOMAIN plans
  BY <1>2 DEF InForce
<1>4. p = PlanForDate(plans, d)
  <2> HIDE DEF p
  <2> QED
    BY <1>1, <1>2, <1>3, PlanInForce
<1>5. plans[p] \in Plan
  BY <1>1, <1>3 DEF IsPlanTable
<1>6. monthly \in Nat
  BY <1>5 DEF Plan
<1> HIDE DEF p, n, m, monthly
<1>7. ASSUME n # 0
      PROVE  NearestShare(runs[d].daily, monthly, shares)
  <2>1. shares \in Nat \ {0}
    BY <1>1, <1>2, <1>7
  <2>2. runs[d].daily = RoundHalfUp(monthly, shares)
    BY <1>2, <1>7 DEF DailyShare
  <2> HIDE DEF shares
  <2>3. /\ 2 * monthly - shares < 2 * shares * RoundHalfUp(monthly, shares)
        /\ 2 * shares * RoundHalfUp(monthly, shares) <= 2 * monthly + shares
    BY <1>6, <2>1, RoundHalfUpIsNearest
  <2> QED
    BY <2>2, <2>3 DEF NearestShare
<1> QED
  BY <1>4, <1>7 DEF p, n, m, monthly

\* A day is billed at the plan that was in force on it, and stays so: no creation, change or
\* deletion of a plan, and no late or repeated billing, makes a run disagree with the table
\* (_process_billing_date, _rebuild_periods and the checks of tariff_plans/service.py).
THEOREM RunsAtThePlan == Spec => []RunsFollowPlans
<1>1. ScheduleInv => RunsFollowPlans
  BY RunIsNearest DEF RunsFollowPlans
<1> QED
  BY <1>1, ScheduleInvariance, PTL

\* The plan of a day that has come, once there is one, and its price, do not change.
PlansOfThePast ==
  [][\A d \in Day : d <= today /\ PlanForDate(plans, d) # NoPlan =>
       /\ PlanForDate(plans', d) = PlanForDate(plans, d)
       /\ plans'[PlanForDate(plans, d)].monthly = plans[PlanForDate(plans, d)].monthly]_vars

\* A catch-up may come to a date long after it: what it charges does not depend on when
\* (create_tariff_plan, update_tariff_plan, delete_tariff_plan).
THEOREM PastPlansAreSettled == Spec => PlansOfThePast
<1>1. ASSUME ScheduleInv, [Next]_vars, NEW d \in Day, d <= today, PlanForDate(plans, d) # NoPlan
      PROVE  /\ PlanForDate(plans', d) = PlanForDate(plans, d)
             /\ plans'[PlanForDate(plans, d)].monthly = plans[PlanForDate(plans, d)].monthly
  <2> DEFINE p == PlanForDate(plans, d)
  <2>1. Inv /\ IsSchedule(plans) /\ IsPlanTable(plans) /\ today \in Nat /\ d \in Nat
    BY <1>1, NowTypes DEF ScheduleInv, Inv, TypeOK
  <2>2. CASE plans' = plans
    BY <2>2
  <2>3. CASE \E id \in PlanId : PlanRequest(id)
    <3>1. InForce(plans, p, d)
      BY <1>1, <2>1, PlanInForce
    <3>2. IsSchedule(plans') /\ KeepsStarted(plans', plans, today)
      <4>1. DOMAIN plans # {}
        BY <3>1 DEF InForce
      <4> QED
        BY <2>1, <2>3, <4>1, PlanRequestTables
    <3>3. IsPlanTable(plans')
      BY <3>2 DEF IsSchedule
    <3> HIDE DEF p
    <3>4. InForce(plans', p, d) /\ plans'[p].monthly = plans[p].monthly
      BY <1>1, <2>1, <3>1, <3>2, <3>3, StartedStayInForce
    <3>5. p \in DOMAIN plans'
      BY <3>4 DEF InForce
    <3>6. PlanForDate(plans', d) = p
      BY <2>1, <3>2, <3>4, <3>5, PlanInForce
    <3> QED
      BY <3>4, <3>6 DEF p
  <2>4. plans' = plans \/ \E id \in PlanId : PlanRequest(id)
    <3>1. CASE ChargeDate
      BY <3>1 DEF ChargeDate
    <3>2. CASE ~ChargeDate
      BY <1>1, <2>1, <3>2, QuietTerms
    <3> QED
      BY <3>1, <3>2
  <2> QED
    BY <2>2, <2>3, <2>4
<1>2. ASSUME ScheduleInv, [Next]_vars
      PROVE  \A d \in Day : d <= today /\ PlanForDate(plans, d) # NoPlan =>
               /\ PlanForDate(plans', d) = PlanForDate(plans, d)
               /\ plans'[PlanForDate(plans, d)].monthly = plans[PlanForDate(plans, d)].monthly
  BY <1>1, <1>2
<1> QED
  BY <1>2, ScheduleInvariance, PTL DEF Spec, PlansOfThePast

\* Everyone charged for a day paid the share of the plan the table has for it, to the nearest
\* kopeck, for as many shares as there are charges of that day.
SharesAreEqual ==
  \A d \in Day : \A u \in ChargedOn(d) :
    /\ PlanForDate(plans, d) # NoPlan
    /\ NearestShare(charges[u][d].base, plans[PlanForDate(plans, d)].monthly,
                    DaysInMonth[d] * Cardinality(ChargedOn(d)))

\* From the table of the plans to the single charge: as long as the database does not fail on a
\* date, the charges of a day are the price of the day, divided among those who paid it.
THEOREM EveryonePaysTheShare ==
  ASSUME "db_error" \notin FaultKinds
  PROVE  Spec => []SharesAreEqual
<1>1. ASSUME RunsInv, ScheduleInv, NEW d \in Day, NEW u \in ChargedOn(d)
      PROVE  /\ PlanForDate(plans, d) # NoPlan
             /\ NearestShare(charges[u][d].base, plans[PlanForDate(plans, d)].monthly,
                             DaysInMonth[d] * Cardinality(ChargedOn(d)))
  <2>1. RunSound(d) /\ RunOnPlan(d)
    BY <1>1 DEF RunsInv, ScheduleInv
  <2>2. PlanRun(d)
    BY <1>1, <2>1 DEF RunSound
  <2>3. /\ runs[d].charged = Cardinality(ChargedOn(d))
        /\ charges[u][d].base = runs[d].daily
    BY <1>1, <2>1, <2>2 DEF RunSound
  <2>4. runs[d].plan # NoPlan /\ runs[d].charged = runs[d].active
    BY <2>1, <2>2 DEF RunOnPlan, PlanRun
  <2>5. Cardinality(ChargedOn(d)) # 0
    <3>1. IsFiniteSet(ChargedOn(d))
      BY SetsOfDate
    <3> QED
      BY <1>1, <3>1, FS_EmptySet
  <2> QED
    BY <1>1, <2>3, <2>4, <2>5, RunIsNearest
<1>2. RunsInv /\ ScheduleInv => SharesAreEqual
  BY <1>1 DEF SharesAreEqual
<1> QED
  BY <1>2, RunsInvariance, ScheduleInvariance, PTL

-----------------------------------------------------------------------------
(* The ledger *)

Index == 0 .. MaxDay + 1

\* Sums of the days before each one.
Sums(rows, f) == \A n \in Index : f[n] = IF n = 0 THEN 0 ELSE f[n - 1] + Charged(rows[n - 1])

LEMMA IndexTypes ==
  /\ MaxDay \in Nat /\ Index \subseteq Nat /\ 0 \in Index /\ MaxDay + 1 \in Index
  /\ \A n \in Index : n # 0 => n - 1 \in Index /\ n - 1 \in Day
  /\ \A n \in Nat : n \notin Index => n > MaxDay + 1
BY BillingAssumption DEF Index, Day

LEMMA ChargedType ==
  ASSUME NEW c \in Charge
  PROVE  Charged(c) \in Int
BY DEF Charge, Charged, NoAmount

\* The sums exist: were there a first day without its sum, the sum of the day before would give
\* one.
LEMMA SumsExist ==
  ASSUME NEW rows \in [Day -> Charge]
  PROVE  \E f \in [Index -> Int] : Sums(rows, f)
<1> DEFINE Upto(n, f) == \A k \in Index : k <= n =>
                           f[k] = IF k = 0 THEN 0 ELSE f[k - 1] + Charged(rows[k - 1])
           without == {n \in Index : ~\E f \in [Index -> Int] : Upto(n, f)}
<1>1. /\ MaxDay \in Nat /\ Index \subseteq Nat /\ 0 \in Index /\ MaxDay + 1 \in Index
      /\ \A n \in Index : n # 0 => n - 1 \in Index /\ n - 1 \in Day
  BY IndexTypes
<1>2. without = {}
  <2> SUFFICES ASSUME without # {} PROVE FALSE
    OBVIOUS
  <2>1. without \in SUBSET Nat
    BY <1>1
  <2>2. PICK n \in without : \A m \in without : n <= m
    <3> HIDE DEF without
    <3> QED
      BY <2>1, LeastExists
  <2>3. n \in Index /\ n \in Nat /\ ~\E f \in [Index -> Int] : Upto(n, f)
    BY <1>1, <2>2
  <2>4. CASE n = 0
    <3> DEFINE f == [k \in Index |-> 0]
    <3>1. f \in [Index -> Int] /\ Upto(n, f)
      BY <1>1, <2>4
    <3> QED
      BY <2>3, <3>1
  <2>5. CASE n # 0
    <3>1. n - 1 \in Index /\ n - 1 \in Day /\ n - 1 \in Nat
      BY <1>1, <2>3, <2>5
    <3>2. n - 1 \notin without
      <4>1. ~(n <= n - 1)
        BY <2>3
      <4> HIDE DEF without
      <4> QED
        BY <2>2, <4>1
    <3>3. PICK g \in [Index -> Int] : Upto(n - 1, g)
      BY <3>1, <3>2
    <3> DEFINE x == g[n - 1] + Charged(rows[n - 1])
               f == [g EXCEPT ![n] = x]
    <3>4. x \in Int
      <4>1. Charged(rows[n - 1]) \in Int
        BY <3>1, ChargedType
      <4> QED
        BY <3>1, <4>1
    <3> HIDE DEF x
    <3>5. f \in [Index -> Int] /\ f[n] = x /\ \A k \in Index : k # n => f[k] = g[k]
      BY <2>3, <3>4
    <3>6. f[n - 1] = g[n - 1]
      BY <2>3, <3>1, <3>5
    <3> HIDE DEF f
    <3>7. ASSUME NEW k \in Index, k <= n
          PROVE  f[k] = IF k = 0 THEN 0 ELSE f[k - 1] + Charged(rows[k - 1])
      <4>1. CASE k = n
        BY <2>5, <3>5, <3>6, <4>1 DEF x
      <4>2. CASE k # n
        <5>1. k \in Nat /\ k <= n - 1 /\ f[k] = g[k]
          BY <1>1, <2>3, <3>5, <3>7, <4>2
        <5>2. g[k] = IF k = 0 THEN 0 ELSE g[k - 1] + Charged(rows[k - 1])
          BY <3>3, <5>1
        <5>3. k # 0 => f[k - 1] = g[k - 1]
          <6>1. k # 0 => k - 1 \in Index /\ k - 1 # n
            BY <1>1, <2>3, <5>1
          <6> QED
            BY <3>5, <6>1
        <5> QED
          BY <5>1, <5>2, <5>3
      <4> QED
        BY <4>1, <4>2
    <3> QED
      BY <2>3, <3>5, <3>7
  <2> QED
    BY <2>4, <2>5
<1>3. PICK f \in [Index -> Int] : Upto(MaxDay + 1, f)
  BY <1>1, <1>2
<1>4. \A n \in Index : n <= MaxDay + 1
  BY <1>1 DEF Index
<1> QED
  BY <1>3, <1>4 DEF Sums

\* Adding x from some day on: what two sums of rows that differ in one day differ by.
LEMMA SumsShift ==
  ASSUME NEW rows \in [Day -> Charge], NEW F \in [Index -> Int], Sums(rows, F),
         NEW more \in [Day -> Charge], NEW g, Sums(more, g),
         NEW day \in Day, NEW x \in Int,
         \A d \in Day : Charged(more[d]) = Charged(rows[d]) + (IF d = day THEN x ELSE 0)
  PROVE  \A n \in Index : g[n] = F[n] + (IF n > day THEN x ELSE 0)
<1> DEFINE wrong == {n \in Index : g[n] # F[n] + (IF n > day THEN x ELSE 0)}
<1>1. /\ Index \subseteq Nat /\ Day \subseteq Nat
      /\ \A n \in Index : n # 0 => n - 1 \in Index /\ n - 1 \in Day
  BY IndexTypes, BillingAssumption DEF Day
<1>2. SUFFICES ASSUME wrong # {} PROVE FALSE
  OBVIOUS
<1>3. wrong \in SUBSET Nat
  BY <1>1
<1>4. PICK n \in wrong : \A m \in wrong : n <= m
  <2> HIDE DEF wrong
  <2> QED
    BY <1>2, <1>3, LeastExists
<1>5. n \in Index /\ n \in Nat /\ day \in Nat /\ g[n] # F[n] + (IF n > day THEN x ELSE 0)
  BY <1>1, <1>4
<1>6. n # 0
  BY <1>5 DEF Sums
<1>7. n - 1 \in Index /\ n - 1 \in Day /\ n - 1 \in Nat
  BY <1>1, <1>5, <1>6
<1>8. g[n - 1] = F[n - 1] + (IF n - 1 > day THEN x ELSE 0)
  <2>1. ~(n <= n - 1)
    BY <1>5
  <2>2. n - 1 \notin wrong
    <3> HIDE DEF wrong
    <3> QED
      BY <1>4, <2>1
  <2> QED
    BY <1>7, <2>2
<1>9. /\ g[n] = g[n - 1] + Charged(more[n - 1])
      /\ F[n] = F[n - 1] + Charged(rows[n - 1])
  BY <1>5, <1>6 DEF Sums
<1>10. Charged(more[n - 1]) = Charged(rows[n - 1]) + (IF n - 1 = day THEN x ELSE 0)
  BY <1>7
<1>11. F[n - 1] \in Int /\ F[n] \in Int /\ Charged(rows[n - 1]) \in Int
  BY <1>5, <1>7, ChargedType
<1> HIDE DEF wrong
<1> QED
  BY <1>5, <1>7, <1>8, <1>9, <1>10, <1>11

LEMMA ChargedBeforeSums ==
  ASSUME NEW rows \in [Day -> Charge]
  PROVE  ChargedBefore(rows) \in [Index -> Int] /\ Sums(rows, ChargedBefore(rows))
<1> DEFINE next(f) == [d \in Index |-> IF d = 0 THEN 0 ELSE f[d - 1] + Charged(rows[d - 1])]
           t == ChargedBefore(rows)
<1>1. PICK f \in [Index -> Int] : Sums(rows, f)
  BY SumsExist
<1>2. f = next(f)
  BY <1>1 DEF Sums
<1>3. t = CHOOSE g : g = next(g)
  BY DEF ChargedBefore, Index
<1>4. t = next(t)
  <2> HIDE DEF next, t
  <2> QED
    BY <1>2, <1>3
<1> HIDE DEF t
<1>5. DOMAIN t = Index /\ t = [n \in Index |-> t[n]] /\ Sums(rows, t)
  BY <1>4 DEF Sums
<1>6. \A n \in Index : t[n] = f[n]
  <2>1. 0 \in Int /\ MaxDay \in Day /\ Day \subseteq Nat /\ Index \subseteq Nat
    BY BillingAssumption, IndexTypes DEF Day
  <2>2. \A d \in Day : Charged(rows[d]) = Charged(rows[d]) + (IF d = MaxDay THEN 0 ELSE 0)
    BY ChargedType
  <2>3. \A n \in Index : t[n] = f[n] + (IF n > MaxDay THEN 0 ELSE 0)
    BY <1>1, <1>5, <2>1, <2>2, SumsShift
  <2> QED
    BY <2>3
<1> QED
  BY <1>5, <1>6 DEF t

LedgerInv == Inv /\ LedgerBalanced

LEMMA TotalChargedType ==
  ASSUME Inv, NEW u \in User
  PROVE  TotalCharged(u) \in Int
<1>1. charges[u] \in [Day -> Charge] /\ MaxDay + 1 \in Index
  BY IndexTypes DEF Inv, TypeOK
<1> QED
  BY <1>1, ChargedBeforeSums DEF TotalCharged

\* A charge takes from the balance what its row says.
LEMMA ChargeBalance ==
  ASSUME NEW a \in Account, NEW total \in Nat, NEW cutoff \in Int
  PROVE  ChargeAccount(a, total, cutoff).balance = a.balance - total
<1> DEFINE charged == [a EXCEPT !.balance = @ - total]
           noted == AddHistory(charged, "active", "blocked", "billing", cutoff)
           settled == IF HasLaterStatus(a, cutoff) THEN noted
                      ELSE [noted EXCEPT !.status = "blocked"]
           b == ChargeAccount(a, total, cutoff)
<1>1. charged \in Account /\ charged.balance = a.balance - total
  BY DEF Account
<1>2. b = IF OutOfMoney(charged) THEN QueueVpnSync(settled, FALSE) ELSE charged
  BY DEF ChargeAccount
<1> HIDE DEF charged, b
<1>3. /\ "active" \in AccountStatus \union {"null"} /\ "blocked" \in AccountStatus
      /\ "billing" \in StatusChangeSource /\ FALSE \in BOOLEAN
  BY DEF AccountStatus, StatusChangeSource
<1>4. noted \in Account /\ noted.balance = charged.balance
  <2>1. noted \in Account
    BY <1>1, <1>3, AddHistoryType
  <2> QED
    BY <1>1, <2>1 DEF AddHistory, Account
<1> HIDE DEF noted
<1>5. settled \in Account /\ settled.balance = charged.balance
  BY <1>3, <1>4 DEF Account
<1> HIDE DEF settled
<1>6. QueueVpnSync(settled, FALSE).balance = settled.balance
  BY <1>5 DEF QueueVpnSync, Account
<1>7. b.balance = charged.balance
  BY <1>2, <1>5, <1>6
<1> QED
  BY <1>1, <1>7 DEF b

LEMMA ChargeDateLedger ==
  ASSUME LedgerInv, ChargeDate, NEW u \in User
  PROVE  acct'[u].balance = credited'[u] - TotalCharged(u)'
<1>1. Inv /\ Inv' /\ acct[u].balance = credited[u] - TotalCharged(u)
  BY ChargeDateKeeps DEF LedgerInv, LedgerBalanced
<1>2. PICK taken : ChargeStep(taken)
  BY <1>1, ChargeDateStep
<1> DEFINE day == loop.cursor
           w == WithBaselines[u]
           daily == DailyAmount
           extra == ExtraCharge(taken[u])
           total == DailyAmount + ExtraCharge(taken[u])
           rows == charges[u]
           more == charges'[u]
<1>3. /\ day \in Day /\ taken \in [User -> [Day -> Int]] /\ acct[u] \in Account /\ w \in Account
      /\ u \in ActiveUsers => daily \in Nat /\ extra \in Nat /\ total \in Nat
      /\ Midnight(day) \in Int /\ plans[PlanNow].start \in Nat
  BY <1>1, <1>2, ChargeStepTypes
<1>4. /\ rows \in [Day -> Charge] /\ more \in [Day -> Charge] /\ credited'[u] = credited[u]
      /\ credited[u] \in Int /\ acct[u].balance \in Int
  <2>1. /\ rows \in [Day -> Charge] /\ credited[u] \in Int /\ acct[u] \in Account
    BY <1>1 DEF Inv, TypeOK
  <2>2. more \in [Day -> Charge]
    BY <1>1 DEF Inv, TypeOK
  <2>3. credited' = credited
    BY DEF ChargeDate, ghosts
  <2> QED
    BY <2>1, <2>2, <2>3 DEF Account
<1>5. w.balance = acct[u].balance
  BY DEF WithBaselines, EnsureStatusBaseline, AddInitialHistory, AddHistory
<1>6. /\ acct'[u] = IF u \in ActiveUsers THEN ChargeAccount(w, total, Midnight(day)) ELSE w
      /\ more = IF u \in ActiveUsers THEN [rows EXCEPT ![day] = RowCharged(u, taken)] ELSE rows
  BY <1>2 DEF ChargeStep
<1>7. TotalCharged(u) = ChargedBefore(rows)[MaxDay + 1]
      /\ TotalCharged(u)' = ChargedBefore(more)[MaxDay + 1]
  BY DEF TotalCharged
<1>8. CASE u \notin ActiveUsers
  BY <1>1, <1>4, <1>5, <1>6, <1>7, <1>8
<1>9. CASE u \in ActiveUsers
  <2>1. rows[day] = NoCharge
    BY <1>2, <1>9 DEF ChargeStep, ChargeExists
  <2>2. Charged(RowCharged(u, taken)) = total
    <3> DEFINE count == ProfileCountForDate(taken[u], day)
               c == RowCharged(u, taken)
    <3>1. count \in Int
      BY <1>3, ProfileCountType
    <3>2. c.base = daily /\ c.extra = IF AdditionalProfiles(count) > 0 THEN extra ELSE NoAmount
      BY DEF RowCharged
    <3>3. extra = RoundHalfUp(daily, 2) * AdditionalProfiles(count)
      BY DEF ExtraCharge, AdditionalProfilesCharge
    <3> HIDE DEF c, count, daily, extra
    <3>4. ~(AdditionalProfiles(count) > 0) => extra = 0
      <4>1. ~(AdditionalProfiles(count) > 0) => AdditionalProfiles(count) = 0
        BY <3>1 DEF AdditionalProfiles
      <4>2. RoundHalfUp(daily, 2) \in Nat
        BY <1>3, <1>9, RoundHalfUpType
      <4> QED
        BY <3>3, <4>1, <4>2
    <3>5. daily # NoAmount /\ extra # NoAmount /\ daily \in Nat /\ extra \in Nat
      BY <1>3, <1>9 DEF NoAmount
    <3>6. Charged(c) = daily + extra
      BY <3>2, <3>4, <3>5 DEF Charged
    <3> QED
      BY <3>6 DEF c, daily, extra
  <2>3. Charged(NoCharge) = 0
    BY DEF Charged, NoCharge
  <2>4. \A d \in Day : Charged(more[d]) = Charged(rows[d]) + (IF d = day THEN total ELSE 0)
    <3>1. \A d \in Day : Charged(rows[d]) \in Int
      BY <1>4, ChargedType
    <3>2. \A d \in Day : more[d] = IF d = day THEN RowCharged(u, taken) ELSE rows[d]
      BY <1>3, <1>4, <1>6, <1>9
    <3>3. total \in Int
      BY <1>3, <1>9
    <3> HIDE DEF day, total, rows, more
    <3> QED
      BY <2>1, <2>2, <2>3, <3>1, <3>2, <3>3
  <2>5. /\ ChargedBefore(rows) \in [Index -> Int] /\ Sums(rows, ChargedBefore(rows))
        /\ Sums(more, ChargedBefore(more))
    BY <1>4, ChargedBeforeSums
  <2>6. ChargedBefore(more)[MaxDay + 1] = ChargedBefore(rows)[MaxDay + 1] + total
    <3>1. total \in Int /\ MaxDay + 1 \in Index /\ MaxDay + 1 > day
      BY <1>3, <1>9, IndexTypes DEF Day
    <3>2. \A n \in Index : ChargedBefore(more)[n]
                             = ChargedBefore(rows)[n] + (IF n > day THEN total ELSE 0)
      <4> DEFINE F == ChargedBefore(rows)
                 G == ChargedBefore(more)
      <4>1. /\ rows \in [Day -> Charge] /\ more \in [Day -> Charge]
            /\ F \in [Index -> Int] /\ Sums(rows, F) /\ Sums(more, G)
            /\ day \in Day /\ total \in Int
        BY <1>3, <1>4, <2>5, <3>1
      <4> HIDE DEF day, total, rows, more, F, G
      <4>2. \A n \in Index : G[n] = F[n] + (IF n > day THEN total ELSE 0)
        BY <2>4, <4>1, SumsShift
      <4> QED
        BY <4>2 DEF F, G
    <3> QED
      BY <3>1, <3>2
  <2>7. acct'[u].balance = w.balance - total
    BY <1>3, <1>6, <1>9, ChargeBalance
  <2>8. ChargedBefore(rows)[MaxDay + 1] \in Int /\ total \in Int
    BY <1>3, <1>9, <2>5, IndexTypes
  <2> HIDE DEF total, rows, more, w, day
  <2> QED
    BY <1>1, <1>4, <1>5, <1>7, <2>6, <2>7, <2>8
<1> QED
  BY <1>8, <1>9

\* A request adds to the credited amounts what it adds to the balance.
LEMMA StoreLedger ==
  ASSUME LedgerInv, NEW u \in User, NEW row \in Account, Store(u, row), NEW v \in User
  PROVE  acct'[v].balance = credited'[v] - TotalCharged(v)'
<1>1. /\ acct' = [acct EXCEPT ![u] = row] /\ charges' = charges
      /\ credited' = [credited EXCEPT ![u] = @ + row.balance - acct[u].balance]
  BY DEF Store
<1>2. /\ acct \in [User -> Account] /\ credited \in [User -> Int] /\ TotalCharged(v) \in Int
      /\ acct[u].balance \in Int /\ row.balance \in Int
      /\ acct[v].balance = credited[v] - TotalCharged(v)
  BY TotalChargedType DEF LedgerInv, LedgerBalanced, Inv, TypeOK, Account
<1>3. TotalCharged(v)' = TotalCharged(v)
  BY <1>1 DEF TotalCharged
<1>4. CASE v = u
  <2>1. /\ acct'[v] = row /\ credited'[v] = credited[v] + row.balance - acct[v].balance
    BY <1>1, <1>2, <1>4
  <2>2. credited[v] \in Int
    BY <1>2
  <2> QED
    BY <1>2, <1>3, <1>4, <2>1, <2>2
<1>5. CASE v # u
  BY <1>1, <1>2, <1>3, <1>5
<1> QED
  BY <1>4, <1>5

LEMMA SameLedger ==
  ASSUME LedgerInv, NEW v \in User, acct'[v].balance = acct[v].balance,
         charges' = charges, credited' = credited
  PROVE  acct'[v].balance = credited'[v] - TotalCharged(v)'
<1>1. TotalCharged(v)' = TotalCharged(v)
  BY DEF TotalCharged
<1> QED
  BY <1>1 DEF LedgerInv, LedgerBalanced

LEMMA InitLedger == Init => LedgerInv
<1> SUFFICES ASSUME Init PROVE LedgerInv
  OBVIOUS
<1>1. Inv
  BY InitInv
<1>2. ASSUME NEW u \in User PROVE acct[u].balance = credited[u] - TotalCharged(u)
  <2> DEFINE rows == charges[u]
             zero == [n \in Index |-> 0]
  <2>1. rows = [d \in Day |-> NoCharge] /\ credited[u] = acct[u].balance
        /\ acct[u].balance \in Int /\ rows \in [Day -> Charge]
    BY <1>1 DEF Init, Inv, TypeOK, Account
  <2>2. Charged(NoCharge) = 0
    BY DEF Charged, NoCharge
  <2>3. \A d \in Day : Charged(rows[d]) = 0
    BY <2>1, <2>2
  <2> HIDE DEF rows
  <2>4. zero \in [Index -> Int] /\ Sums(rows, zero)
    <3>1. \A n \in Index : n # 0 => n - 1 \in Index /\ n - 1 \in Day
      BY IndexTypes
    <3> QED
      BY <2>3, <3>1 DEF Sums
  <2>5. Sums(rows, ChargedBefore(rows))
    BY <2>1, ChargedBeforeSums
  <2>6. 0 \in Day /\ 0 \in Int
    BY BillingAssumption DEF Day
  <2>7. \A d \in Day : Charged(rows[d]) = Charged(rows[d]) + (IF d = 0 THEN 0 ELSE 0)
    BY <2>3
  <2> HIDE DEF zero
  <2>8. \A n \in Index : ChargedBefore(rows)[n] = zero[n] + (IF n > 0 THEN 0 ELSE 0)
    BY <2>1, <2>4, <2>5, <2>6, <2>7, SumsShift
  <2>9. ChargedBefore(rows)[MaxDay + 1] = 0
    BY <2>8, IndexTypes DEF zero
  <2> QED
    BY <2>1, <2>9 DEF TotalCharged, rows
<1> QED
  BY <1>1, <1>2 DEF LedgerInv, LedgerBalanced

LEMMA StepLedger == LedgerInv /\ [Next]_vars => LedgerInv'
<1> SUFFICES ASSUME LedgerInv, [Next]_vars PROVE LedgerInv'
  OBVIOUS
<1>1. Inv /\ Inv'
  BY StepInv DEF LedgerInv
<1>2. SUFFICES ASSUME NEW v \in User
               PROVE  acct'[v].balance = credited'[v] - TotalCharged(v)'
  BY <1>1 DEF LedgerInv, LedgerBalanced
<1>3. UNCHANGED <<acct, charges, credited>>
        => acct'[v].balance = credited'[v] - TotalCharged(v)'
  BY SameLedger
<1>4. CASE NextDay
  BY <1>3, <1>4 DEF NextDay, database
<1>5. CASE StartCatchUp \/ SkipBilledDate \/ CompleteWithoutPlan \/ SendNotices \/ Crash
  BY <1>3, <1>5 DEF StartCatchUp, SkipBilledDate, CompleteWithoutPlan, SendNotices, Crash,
                    database, ghosts
<1>6. CASE ProviderFails \/ DuplicateCharge \/ DatabaseError
  <2>1. FailedDate
    BY <1>6 DEF ProviderFails, DuplicateCharge, DatabaseError
  <2> QED
    BY <1>3, <2>1 DEF FailedDate, ghosts
<1>7. CASE ChargeDate
  BY <1>7, ChargeDateLedger
<1>8. CASE SyncPausedProfiles
  <2>1. PICK queued \in SUBSET {u \in User : PausedBeforeToday(acct[u])} :
          acct' = [u \in User |-> IF u \in queued THEN QueueVpnSync(acct[u], FALSE) ELSE acct[u]]
    BY <1>8 DEF SyncPausedProfiles
  <2>2. acct[v] \in Account /\ charges' = charges /\ credited' = credited
    BY <1>1, <1>8 DEF Inv, TypeOK, SyncPausedProfiles, ghosts
  <2>3. QueueVpnSync(acct[v], FALSE).balance = acct[v].balance
    BY <2>2 DEF QueueVpnSync, Account
  <2>4. acct'[v].balance = acct[v].balance
    BY <2>1, <2>3
  <2> QED
    BY <2>2, <2>4, SameLedger
<1>9. CASE \E u \in User : UserRequest(u)
  <2>1. PICK u \in User : UserRequest(u)
    BY <1>9
  <2>2. ASSUME NEW row, Store(u, row)
        PROVE  acct'[v].balance = credited'[v] - TotalCharged(v)'
    <3>1. acct' = [acct EXCEPT ![u] = row] /\ acct \in [User -> Account]
          /\ acct' \in [User -> Account]
      BY <1>1, <2>2 DEF Store, Inv, TypeOK
    <3>2. row \in Account
      BY <3>1
    <3> QED
      BY <2>2, <3>2, StoreLedger
  <2>3. CASE StartDelete(u)
    BY <1>3, <2>3 DEF StartDelete, database, ghosts
  <2>4. CASE FinishDelete(u)
    BY <1>3, <2>2, <2>4 DEF FinishDelete, database, ghosts
  <2>5. CASE TakeVpnJob(u)
    <3>1. acct' = [acct EXCEPT ![u] = [@ EXCEPT !.job = "none"]]
          /\ charges' = charges /\ credited' = credited
      BY <2>5 DEF TakeVpnJob, ghosts
    <3>2. acct[u] \in Account /\ acct \in [User -> Account]
      BY <1>1 DEF Inv, TypeOK
    <3>3. [acct[u] EXCEPT !.job = "none"].balance = acct[u].balance
      BY <3>2 DEF Account
    <3>4. acct'[v].balance = acct[v].balance
      BY <3>1, <3>2, <3>3
    <3> QED
      BY <3>1, <3>4, SameLedger
  <2>6. CASE CreateUser(u) \/ UpdateUser(u) \/ TopUp(u) \/ Activate(u)
    BY <2>2, <2>6 DEF CreateUser, UpdateUser, TopUp, Activate
  <2> QED
    BY <2>1, <2>3, <2>4, <2>5, <2>6 DEF UserRequest
<1>10. CASE \E id \in PlanId : PlanRequest(id)
  BY <1>3, <1>10 DEF PlanRequest, CreatePlan, UpdatePlan, DeletePlan, StorePlans, ghosts
<1>11. CASE UNCHANGED vars
  BY <1>3, <1>11 DEF vars
<1> QED
  BY <1>4, <1>5, <1>6, <1>7, <1>8, <1>9, <1>10, <1>11 DEF Next, BillingLoop

\* Money is conserved, whatever fails: a balance is what payments and corrections have credited
\* less the recorded charges (user.balance and user_daily_charges are written apart).
THEOREM MoneyIsConserved == Spec => []LedgerBalanced
<1>1. LedgerInv => LedgerBalanced
  BY DEF LedgerInv
<1> QED
  BY <1>1, InitLedger, StepLedger, PTL DEF Spec
=============================================================================

--------------------------- MODULE AccountsProofs ---------------------------
(***************************************************************************)
(* Lemmas about the operations of Accounts: their types, what they do to   *)
(* the latest row of the history, and the invariant of one account that    *)
(* every one of them preserves.                                            *)
(***************************************************************************)
EXTENDS Accounts, TLAPS

-----------------------------------------------------------------------------
(* Types *)

\* A recorded change leaves an account.
LEMMA AddHistoryType ==
  ASSUME NEW a \in Account, NEW prev \in AccountStatus \union {"null"},
         NEW new \in AccountStatus, NEW source \in StatusChangeSource, NEW eff \in Int
  PROVE  AddHistory(a, prev, new, source, eff) \in Account
<1> DEFINE c == [prev |-> prev, new |-> new, source |-> source, eff |-> eff]
<1>1. c \in StatusChange
  BY DEF StatusChange
<1>2. Append(a.history, c) \in Seq(StatusChange)
  BY <1>1 DEF Account
<1> QED
  BY <1>2 DEF AddHistory, Account

\* The constructors of the record keep the other fields.
LEMMA FieldTypes ==
  ASSUME NEW a \in Account, NEW balance \in Int, NEW limit \in Nat,
         NEW status \in AccountStatus, NEW deleted \in Int
  PROVE  /\ [a EXCEPT !.balance = balance] \in Account
         /\ [a EXCEPT !.balance = balance, !.limit = limit] \in Account
         /\ [a EXCEPT !.status = status] \in Account
         /\ [a EXCEPT !.deleted = deleted] \in Account
  BY DEF Account

LEMMA QueueVpnSyncType ==
  ASSUME NEW a \in Account, NEW enabled \in BOOLEAN
  PROVE  QueueVpnSync(a, enabled) \in Account
  BY DEF QueueVpnSync, Account, VpnSyncJob

LEMMA RecordSeenType ==
  ASSUME NEW a \in Account, NEW seen \in AccountStatus, NEW new \in AccountStatus,
         NEW source \in StatusChangeSource, NEW now \in Int
  PROVE  RecordSeenStatusChange(a, seen, new, source, now) \in Account
  BY AddHistoryType, FieldTypes DEF RecordSeenStatusChange

LEMMA RecordType ==
  ASSUME NEW a \in Account, NEW new \in AccountStatus,
         NEW source \in StatusChangeSource, NEW now \in Int
  PROVE  RecordStatusChange(a, new, source, now) \in Account
<1>1. a.status \in AccountStatus
  BY DEF Account
<1> QED
  BY <1>1, RecordSeenType DEF RecordStatusChange

-----------------------------------------------------------------------------
(* The latest row *)

LEMMA RowTypes ==
  ASSUME NEW h \in Seq(StatusChange), NEW i \in DOMAIN h
  PROVE  i \in Nat /\ h[i] \in StatusChange /\ h[i].eff \in Int
<1>1. i \in Nat /\ h[i] \in StatusChange
  OBVIOUS
<1> QED
  BY <1>1 DEF StatusChange

\* There is one latest row at most.
LEMMA LatestUnique ==
  ASSUME NEW h \in Seq(StatusChange), NEW c \in Latest(h), NEW d \in Latest(h)
  PROVE  c = d
<1>1. PICK i \in DOMAIN h : c = h[i] /\ \A j \in DOMAIN h : NotAfter(h, j, i)
  BY DEF Latest
<1>2. PICK k \in DOMAIN h : d = h[k] /\ \A j \in DOMAIN h : NotAfter(h, j, k)
  BY DEF Latest
<1>3. NotAfter(h, i, k) /\ NotAfter(h, k, i)
  BY <1>1, <1>2
<1>4. h[i].eff \in Int /\ h[k].eff \in Int /\ i \in Nat /\ k \in Nat
  BY RowTypes
<1>5. i = k
  BY <1>3, <1>4 DEF NotAfter
<1> QED
  BY <1>1, <1>2, <1>5

\* A row that is not older than any other becomes the latest.
LEMMA LatestAppended ==
  ASSUME NEW h \in Seq(StatusChange), NEW c \in StatusChange,
         \A i \in DOMAIN h : h[i].eff <= c.eff
  PROVE  Latest(Append(h, c)) = {c}
<1> DEFINE g == Append(h, c)
           n == Len(h) + 1
<1>1. /\ g \in Seq(StatusChange) /\ DOMAIN g = 1 .. n /\ DOMAIN h = 1 .. Len(h)
      /\ n \in Nat /\ g[n] = c /\ \A i \in DOMAIN h : g[i] = h[i]
  OBVIOUS
<1>2. \A i \in DOMAIN g : i \in Nat /\ g[i].eff \in Int
  BY <1>1, RowTypes
<1>3. \A i \in DOMAIN g : NotAfter(g, i, n)
  BY <1>1, <1>2 DEF NotAfter
<1>4. ASSUME NEW k \in DOMAIN g, \A j \in DOMAIN g : NotAfter(g, j, k)
      PROVE  g[k] = c
  <2>1. NotAfter(g, n, k) /\ NotAfter(g, k, n)
    BY <1>1, <1>3, <1>4
  <2> QED
    BY <1>1, <1>2, <2>1 DEF NotAfter
<1> QED
  BY <1>1, <1>3, <1>4 DEF Latest

\* A row inserted before a later one changes nothing.
LEMMA LatestInserted ==
  ASSUME NEW h \in Seq(StatusChange), NEW c \in StatusChange,
         \E i \in DOMAIN h : h[i].eff > c.eff
  PROVE  Latest(Append(h, c)) \subseteq Latest(h)
<1> DEFINE g == Append(h, c)
           n == Len(h) + 1
<1>1. /\ g \in Seq(StatusChange) /\ DOMAIN g = 1 .. n /\ DOMAIN h = 1 .. Len(h)
      /\ n \in Nat /\ g[n] = c /\ \A i \in DOMAIN h : g[i] = h[i]
  OBVIOUS
<1>2. \A i \in DOMAIN g : g[i].eff \in Int
  BY <1>1, RowTypes
<1>3. ASSUME NEW k \in DOMAIN g, \A j \in DOMAIN g : NotAfter(g, j, k)
      PROVE  g[k] \in Latest(h)
  <2>1. PICK i \in DOMAIN h : h[i].eff > c.eff
    OBVIOUS
  <2>2. NotAfter(g, i, k)
    BY <1>1, <1>3
  <2>3. k # n
    BY <1>1, <1>2, <2>1, <2>2 DEF NotAfter
  <2>4. k \in DOMAIN h /\ g[k] = h[k]
    BY <1>1, <2>3
  <2>5. \A j \in DOMAIN h : NotAfter(h, j, k)
    BY <1>1, <1>3, <2>4 DEF NotAfter
  <2> QED
    BY <2>4, <2>5 DEF Latest
<1> QED
  BY <1>3 DEF Latest

-----------------------------------------------------------------------------
(* What stays of an account *)

\* A later instant changes nothing.
LEMMA ConsistentLater ==
  ASSUME NEW a \in Account, NEW now \in Int, NEW later \in Int, now <= later,
         Consistent(a, now)
  PROVE  Consistent(a, later)
<1>1. a.created \in Int /\ \A i \in DOMAIN a.history : a.history[i].eff \in Int
  BY RowTypes DEF Account
<1> QED
  BY <1>1 DEF Consistent, HistoryOK, SoundHistory

\* HistoryOK is about the status, the history and the creation only.
LEMMA SameHistory ==
  ASSUME NEW a, NEW b, NEW now, HistoryOK(a, now), b.status = a.status,
         b.history = a.history, b.created = a.created
  PROVE  HistoryOK(b, now)
  BY DEF HistoryOK, StatusIsLatest, SoundHistory

\* A new row of now, or of a moment that nothing recorded follows, becomes the
\* latest; the status must go with it.
LEMMA AppendedHistory ==
  ASSUME NEW a \in Account, NEW b \in Account, NEW now \in Int, HistoryOK(a, now),
         NEW prev \in AccountStatus \union {"null"}, NEW new \in AccountStatus,
         NEW source \in StatusChangeSource, NEW eff \in Int, eff <= now,
         \A i \in DOMAIN a.history : a.history[i].eff <= eff,
         source = "billing" => new = "blocked" /\ prev \in {"active", "paused"},
         b.history = AddHistory(a, prev, new, source, eff).history,
         b.status = new, b.created = a.created
  PROVE  HistoryOK(b, now) /\ \A c \in Latest(b.history) : c.source = source
<1> DEFINE c == [prev |-> prev, new |-> new, source |-> source, eff |-> eff]
<1>1. a.history \in Seq(StatusChange) /\ c \in StatusChange
  BY DEF Account, StatusChange
<1>2. b.history = Append(a.history, c)
  BY DEF AddHistory, Account
<1>3. Latest(b.history) = {c}
  BY <1>1, <1>2, LatestAppended
<1>4. SoundHistory(b, now)
  BY <1>1, <1>2 DEF HistoryOK, SoundHistory
<1> QED
  BY <1>3, <1>4 DEF HistoryOK, StatusIsLatest

LEMMA RecordedHistory ==
  ASSUME NEW a \in Account, NEW now \in Int, HistoryOK(a, now),
         NEW seen \in AccountStatus, NEW new \in AccountStatus,
         NEW source \in StatusChangeSource, seen # new,
         source = "billing" => new = "blocked"
  PROVE  LET b == RecordSeenStatusChange(a, seen, new, source, now)
         IN  /\ b \in Account /\ HistoryOK(b, now)
             /\ \A c \in Latest(b.history) : c.source = source
             /\ b.status = new /\ b.balance = a.balance /\ b.limit = a.limit
             /\ b.created = a.created /\ b.deleted = a.deleted
<1> DEFINE b == RecordSeenStatusChange(a, seen, new, source, now)
           r == AddHistory(a, seen, new, source, now)
<1>1. b \in Account
  BY RecordSeenType
<1>2. r \in Account
  BY AddHistoryType
<1>3. /\ r.balance = a.balance /\ r.limit = a.limit /\ r.created = a.created
      /\ r.deleted = a.deleted
  BY DEF AddHistory, Account
<1>4. b = [r EXCEPT !.status = new]
  BY DEF RecordSeenStatusChange
<1>5. /\ b.history = r.history /\ b.status = new /\ b.balance = a.balance
      /\ b.limit = a.limit /\ b.created = a.created /\ b.deleted = a.deleted
  <2> HIDE DEF r
  <2> QED
    BY <1>2, <1>3, <1>4 DEF Account
<1>6. \A i \in DOMAIN a.history : a.history[i].eff <= now
  BY DEF HistoryOK, SoundHistory
<1>7. source = "billing" => new = "blocked" /\ seen \in {"active", "paused"}
  BY DEF AccountStatus
<1>8. HistoryOK(b, now) /\ \A c \in Latest(b.history) : c.source = source
  <2> HIDE DEF b
  <2> QED
    BY <1>1, <1>5, <1>6, <1>7, AppendedHistory
<1> QED
  BY <1>1, <1>5, <1>8

-----------------------------------------------------------------------------
(* Every operation leaves a consistent account *)

\* The job is not part of the account's consistency.
LEMMA QueueVpnSyncConsistent ==
  ASSUME NEW a \in Account, NEW now \in Int, Consistent(a, now), NEW enabled \in BOOLEAN
  PROVE  QueueVpnSync(a, enabled) \in Account /\ Consistent(QueueVpnSync(a, enabled), now)
<1> DEFINE b == QueueVpnSync(a, enabled)
<1>1. b \in Account
  BY QueueVpnSyncType
<1>2. /\ b.history = a.history /\ b.status = a.status /\ b.created = a.created
      /\ b.deleted = a.deleted /\ b.balance = a.balance /\ b.limit = a.limit
  BY DEF QueueVpnSync, Account
<1> HIDE DEF b
<1>3. HistoryOK(b, now)
  BY <1>2, SameHistory DEF Consistent
<1>4. PaidUpNotBlocked(b)
  BY <1>2 DEF Consistent, PaidUpNotBlocked, BlockedByBilling, Live, Exists, OutOfMoney
<1> QED
  BY <1>1, <1>3, <1>4 DEF Consistent, b

\* Recording a change that is no block, or a block while the money is out, or a
\* block by hand.
LEMMA RecordedConsistent ==
  ASSUME NEW a \in Account, NEW now \in Int, HistoryOK(a, now),
         NEW new \in AccountStatus, NEW source \in StatusChangeSource,
         a.status # new,
         source = "billing" => new = "blocked" /\ OutOfMoney(a)
  PROVE  LET b == RecordStatusChange(a, new, source, now)
         IN  b \in Account /\ Consistent(b, now)
<1> DEFINE b == RecordStatusChange(a, new, source, now)
<1>1. a.status \in AccountStatus
  BY DEF Account
<1>2. /\ b \in Account /\ HistoryOK(b, now)
      /\ \A c \in Latest(b.history) : c.source = source
      /\ b.balance = a.balance /\ b.limit = a.limit
  BY <1>1, RecordedHistory DEF RecordStatusChange
<1> HIDE DEF b
<1>3. PaidUpNotBlocked(b)
  BY <1>2 DEF PaidUpNotBlocked, BlockedByBilling, OutOfMoney
<1> QED
  BY <1>2, <1>3 DEF Consistent, b

\* block_if_balance_below_limit, on an account that is not blocked already.
LEMMA BlockIfConsistent ==
  ASSUME NEW a \in Account, NEW now \in Int, HistoryOK(a, now), PaidUpNotBlocked(a)
  PROVE  /\ BlockIfBalanceBelowLimit(a, now) \in Account
         /\ Consistent(BlockIfBalanceBelowLimit(a, now), now)
<1> DEFINE b == RecordStatusChange(a, "blocked", "billing", now)
<1>1. CASE a.status \in {"active", "paused"} /\ OutOfMoney(a)
  <2>1. "blocked" \in AccountStatus /\ "billing" \in StatusChangeSource
    BY DEF AccountStatus, StatusChangeSource
  <2>2. b \in Account /\ Consistent(b, now)
    BY <1>1, <2>1, RecordedConsistent
  <2>3. QueueVpnSync(b, FALSE) \in Account /\ Consistent(QueueVpnSync(b, FALSE), now)
    BY <2>2, QueueVpnSyncConsistent
  <2> QED
    BY <1>1, <2>3 DEF BlockIfBalanceBelowLimit
<1>2. CASE ~(a.status \in {"active", "paused"} /\ OutOfMoney(a))
  BY <1>2 DEF BlockIfBalanceBelowLimit, Consistent
<1> QED
  BY <1>1, <1>2

\* restore_if_billing_blocked makes good for a credit: afterwards nobody who can
\* pay is blocked by billing.
LEMMA RestoreConsistent ==
  ASSUME NEW a \in Account, NEW source \in StatusChangeSource \ {"billing"},
         NEW now \in Int, HistoryOK(a, now)
  PROVE  /\ RestoreIfBillingBlocked(a, source, now) \in Account
         /\ Consistent(RestoreIfBillingBlocked(a, source, now), now)
<1> DEFINE cond == /\ a.status = "blocked" /\ ~OutOfMoney(a)
                   /\ BillingBlocks(a.history) # {}
           row == CHOOSE c \in BillingBlocks(a.history) : TRUE
           b == RecordStatusChange(a, row.prev, source, now)
<1>1. CASE cond
  <2>1. row \in BillingBlocks(a.history)
    BY <1>1
  <2>2. row.prev \in {"active", "paused"}
    BY <2>1 DEF BillingBlocks
  <2> HIDE DEF row
  <2>3. row.prev \in AccountStatus /\ row.prev # a.status
    BY <1>1, <2>2 DEF AccountStatus
  <2>4. b \in Account /\ Consistent(b, now)
    BY <2>3, RecordedConsistent
  <2> HIDE DEF b
  <2>5. \A e \in BOOLEAN : QueueVpnSync(b, e) \in Account /\ Consistent(QueueVpnSync(b, e), now)
    BY <2>4, QueueVpnSyncConsistent
  <2>6. RestoreIfBillingBlocked(a, source, now) = QueueVpnSync(b, row.prev = "active")
    BY <1>1 DEF RestoreIfBillingBlocked, b, row
  <2>7. (row.prev = "active") \in BOOLEAN
    OBVIOUS
  <2> QED
    BY <2>5, <2>6, <2>7
<1>2. CASE ~cond
  <2>1. \A c \in Latest(a.history) :
          c.source = "billing" => c.new = "blocked" /\ c.prev \in {"active", "paused"}
    BY DEF Latest, HistoryOK, SoundHistory
  <2>2. PaidUpNotBlocked(a)
    BY <1>2, <2>1 DEF PaidUpNotBlocked, BlockedByBilling, BillingBlocks
  <2> QED
    BY <1>2, <2>2 DEF RestoreIfBillingBlocked, Consistent
<1> QED
  BY <1>1, <1>2

LEMMA NoAccountConsistent ==
  ASSUME NEW now \in Nat
  PROVE  NoAccount \in Account /\ Consistent(NoAccount, now)
<1>1. NoAccount \in Account
  BY DEF NoAccount, Account, AccountStatus, VpnSyncJob, Never
<1>2. Latest(NoAccount.history) = {} /\ DOMAIN NoAccount.history = {}
  BY DEF NoAccount, Latest
<1>3. NoAccount.created = -1 /\ NoAccount.status = "active"
  BY DEF NoAccount, Never
<1> QED
  BY <1>1, <1>2, <1>3 DEF Consistent, HistoryOK, StatusIsLatest, SoundHistory,
                          PaidUpNotBlocked, BlockedByBilling

\* The first row of a history, by an administrator or by billing.
LEMMA FirstRowConsistent ==
  ASSUME NEW a \in Account, NEW now \in Int, NEW eff \in Int, eff <= now,
         NEW source \in StatusChangeSource \ {"billing"},
         a.history = << >>, a.created <= now
  PROVE  LET b == AddHistory(a, "null", a.status, source, eff)
         IN  b \in Account /\ Consistent(b, now)
<1> DEFINE b == AddHistory(a, "null", a.status, source, eff)
<1>1. a.status \in AccountStatus
  BY DEF Account
<1>2. b \in Account
  BY <1>1, AddHistoryType
<1>3. b.status = a.status /\ b.created = a.created
  BY DEF AddHistory, Account
<1>4. HistoryOK(a, now) /\ \A i \in DOMAIN a.history : a.history[i].eff <= eff
  BY DEF HistoryOK, StatusIsLatest, SoundHistory, Latest
<1>5. HistoryOK(b, now) /\ \A c \in Latest(b.history) : c.source = source
  BY <1>1, <1>2, <1>3, <1>4, AppendedHistory
<1> QED
  BY <1>2, <1>5 DEF Consistent, PaidUpNotBlocked, BlockedByBilling

\* create_user
LEMMA NewAccountConsistent ==
  ASSUME NEW status \in AccountStatus, NEW balance \in Int, NEW limit \in Nat,
         NEW now \in Nat
  PROVE  /\ NewAccount(status, balance, limit, now) \in Account
         /\ Consistent(NewAccount(status, balance, limit, now), now)
<1> DEFINE a == [NoAccount EXCEPT !.status = status, !.balance = balance,
                                 !.limit = limit, !.created = now]
<1>0. NoAccount \in Account /\ NoAccount.history = << >> /\ now \in Int
  BY NoAccountConsistent DEF NoAccount
<1>1. /\ a \in Account /\ a.history = << >> /\ a.created = now /\ a.status = status
  BY <1>0 DEF Account
<1>2. "admin" \in StatusChangeSource \ {"billing"}
  BY DEF StatusChangeSource
<1> HIDE DEF a
<1>3. LET b == AddHistory(a, "null", a.status, "admin", now)
      IN  b \in Account /\ Consistent(b, now)
  BY <1>1, <1>2, FirstRowConsistent
<1> QED
  BY <1>1, <1>3 DEF NewAccount, AddInitialHistory, AccountRow, a

\* update_user
LEMMA EditAccountConsistent ==
  ASSUME NEW a \in Account, NEW now \in Int, Consistent(a, now),
         NEW status \in AccountStatus, NEW balance \in Int, NEW limit \in Nat
  PROVE  /\ EditAccount(a, status, balance, limit, now) \in Account
         /\ Consistent(EditAccount(a, status, balance, limit, now), now)
<1> DEFINE noted == RecordStatusChange(a, status, "admin", now)
           edited == [noted EXCEPT !.balance = balance, !.limit = limit]
           terms == balance # a.balance \/ limit # a.limit
<1>1. a.status \in AccountStatus /\ "admin" \in StatusChangeSource \ {"billing"}
  BY DEF Account, StatusChangeSource
<1>2. /\ noted \in Account /\ HistoryOK(noted, now) /\ noted.status = status
      /\ noted.balance = a.balance /\ noted.limit = a.limit /\ noted.deleted = a.deleted
      /\ noted.created = a.created
      /\ status # a.status => \A c \in Latest(noted.history) : c.source = "admin"
  <2>1. CASE status = a.status
    <3>1. noted = a
      BY <2>1 DEF RecordStatusChange, RecordSeenStatusChange
    <3> QED
      BY <2>1, <3>1 DEF Consistent
  <2>2. CASE status # a.status
    BY <1>1, <2>2, RecordedHistory DEF RecordStatusChange, Consistent
  <2> QED
    BY <2>1, <2>2
<1>3. status = a.status => noted.history = a.history
  BY DEF RecordStatusChange, RecordSeenStatusChange
<1> HIDE DEF noted
<1>4. /\ edited \in Account /\ edited.status = status /\ edited.history = noted.history
      /\ edited.balance = balance /\ edited.limit = limit
      /\ edited.created = a.created /\ edited.deleted = a.deleted
  BY <1>2 DEF Account
<1> HIDE DEF edited
<1>5. HistoryOK(edited, now)
  BY <1>2, <1>4, SameHistory
<1>6. status # a.status => PaidUpNotBlocked(edited)
  BY <1>2, <1>4 DEF PaidUpNotBlocked, BlockedByBilling
<1>7. status # "blocked" => PaidUpNotBlocked(edited)
  BY <1>4 DEF PaidUpNotBlocked, BlockedByBilling
<1>8. EditAccount(a, status, balance, limit, now) =
        IF ~terms THEN edited
        ELSE IF a.status # "blocked" THEN BlockIfBalanceBelowLimit(edited, now)
        ELSE IF status # a.status THEN edited
        ELSE RestoreIfBillingBlocked(edited, "admin", now)
  BY DEF EditAccount, edited, noted
<1>9. CASE ~terms
  <2>1. PaidUpNotBlocked(edited)
    BY <1>3, <1>4, <1>6, <1>9
       DEF Consistent, PaidUpNotBlocked, BlockedByBilling, Live, Exists, OutOfMoney
  <2> QED
    BY <1>4, <1>5, <1>8, <1>9, <2>1 DEF Consistent
<1>10. CASE terms /\ a.status # "blocked"
  <2>1. PaidUpNotBlocked(edited)
    BY <1>6, <1>7, <1>10
  <2>2. /\ BlockIfBalanceBelowLimit(edited, now) \in Account
        /\ Consistent(BlockIfBalanceBelowLimit(edited, now), now)
    BY <1>4, <1>5, <2>1, BlockIfConsistent
  <2> QED
    BY <1>8, <1>10, <2>2
<1>11. CASE terms /\ a.status = "blocked" /\ status # a.status
  BY <1>4, <1>5, <1>6, <1>8, <1>11 DEF Consistent
<1>12. CASE terms /\ a.status = "blocked" /\ status = a.status
  <2>1. /\ RestoreIfBillingBlocked(edited, "admin", now) \in Account
        /\ Consistent(RestoreIfBillingBlocked(edited, "admin", now), now)
    BY <1>1, <1>4, <1>5, RestoreConsistent
  <2> QED
    BY <1>8, <1>12, <2>1
<1> HIDE DEF terms
<1> QED
  BY <1>9, <1>10, <1>11, <1>12

\* delete_user: the status the handler has read may be stale.
LEMMA DeleteAccountConsistent ==
  ASSUME NEW a \in Account, NEW now \in Nat, Consistent(a, now), NEW seen \in AccountStatus
  PROVE  /\ DeleteAccount(a, seen, now) \in Account
         /\ Consistent(DeleteAccount(a, seen, now), now)
<1> DEFINE noted == RecordSeenStatusChange(a, seen, "blocked", "admin", now)
           b == [noted EXCEPT !.deleted = now]
<1>1. noted \in Account /\ HistoryOK(noted, now)
  <2>1. CASE seen = "blocked"
    BY <2>1 DEF RecordSeenStatusChange, Consistent
  <2>2. CASE seen # "blocked"
    <3>1. "blocked" \in AccountStatus /\ "admin" \in StatusChangeSource
      BY DEF AccountStatus, StatusChangeSource
    <3> QED
      BY <2>2, <3>1, RecordedHistory DEF Consistent
  <2> QED
    BY <2>1, <2>2
<1> HIDE DEF noted
<1>2. /\ b \in Account /\ b.status = noted.status /\ b.history = noted.history
      /\ b.created = noted.created /\ b.deleted = now
  <2>1. now \in Int
    OBVIOUS
  <2> QED
    BY <1>1, <2>1 DEF Account
<1> HIDE DEF b
<1>3. HistoryOK(b, now)
  BY <1>1, <1>2, SameHistory
<1>4. PaidUpNotBlocked(b)
  BY <1>2 DEF PaidUpNotBlocked, Live, Never
<1> QED
  BY <1>2, <1>3, <1>4 DEF Consistent, DeleteAccount, b, noted

\* apply_successful_payment
LEMMA CreditAccountConsistent ==
  ASSUME NEW a \in Account, NEW now \in Int, HistoryOK(a, now), NEW amount \in Int
  PROVE  /\ CreditAccount(a, amount, now) \in Account
         /\ Consistent(CreditAccount(a, amount, now), now)
<1> DEFINE b == [a EXCEPT !.balance = @ + amount]
<1>1. /\ b \in Account /\ b.status = a.status /\ b.history = a.history
      /\ b.created = a.created
  BY DEF Account
<1>2. "top_up" \in StatusChangeSource \ {"billing"}
  BY DEF StatusChangeSource
<1> HIDE DEF b
<1>3. HistoryOK(b, now)
  BY <1>1, SameHistory
<1> QED
  BY <1>1, <1>2, <1>3, RestoreConsistent DEF CreditAccount, b

\* activate_account
LEMMA ActivateAccountConsistent ==
  ASSUME NEW a \in Account, NEW now \in Int, Consistent(a, now), MayActivate(a)
  PROVE  /\ ActivateAccount(a, now) \in Account
         /\ Consistent(ActivateAccount(a, now), now)
<1> DEFINE b == RecordStatusChange(a, "active", "user", now)
<1>1. /\ "active" \in AccountStatus /\ "user" \in StatusChangeSource
      /\ a.status # "active" /\ TRUE \in BOOLEAN
  BY DEF AccountStatus, StatusChangeSource, MayActivate
<1>2. b \in Account /\ Consistent(b, now)
  BY <1>1, RecordedConsistent DEF Consistent
<1> HIDE DEF b
<1> QED
  BY <1>1, <1>2, QueueVpnSyncConsistent DEF ActivateAccount, b

\* _ensure_status_baselines, for a plan that started in the past
LEMMA BaselineConsistent ==
  ASSUME NEW a \in Account, NEW now \in Int, Consistent(a, now),
         NEW start \in Nat, Midnight(start) <= now
  PROVE  LET b == EnsureStatusBaseline(a, start)
         IN  /\ b \in Account /\ Consistent(b, now)
             /\ b.balance = a.balance /\ b.limit = a.limit
             /\ b.created = a.created /\ b.deleted = a.deleted
<1> DEFINE eff == IF a.created > Midnight(start) THEN a.created ELSE Midnight(start)
           b == AddHistory(a, "null", a.status, "bootstrap", eff)
<1>1. a.created \in Int /\ a.created <= now /\ Midnight(start) \in Int
  BY DEF Account, Consistent, HistoryOK, Midnight
<1>2. eff \in Int /\ eff <= now
  BY <1>1
<1>3. "bootstrap" \in StatusChangeSource \ {"billing"}
  BY DEF StatusChangeSource
<1> HIDE DEF eff
<1>4. CASE a.history = << >>
  <2>1. b \in Account /\ Consistent(b, now)
    BY <1>1, <1>2, <1>3, <1>4, FirstRowConsistent
  <2>2. /\ b.balance = a.balance /\ b.limit = a.limit
        /\ b.created = a.created /\ b.deleted = a.deleted
    BY DEF AddHistory, Account
  <2> QED
    BY <2>1, <2>2 DEF EnsureStatusBaseline, AddInitialHistory, eff
<1>5. CASE a.history # << >>
  BY <1>5 DEF EnsureStatusBaseline, AddInitialHistory
<1> QED
  BY <1>4, <1>5

\* The charge of a day, and the block as of its cutoff: a status recorded since
\* then stays, and no block is left on an account that can pay.
LEMMA ChargeAccountConsistent ==
  ASSUME NEW a \in Account, NEW now \in Int, Consistent(a, now),
         NEW total \in Nat, NEW cutoff \in Int, cutoff <= now
  PROVE  /\ ChargeAccount(a, total, cutoff) \in Account
         /\ Consistent(ChargeAccount(a, total, cutoff), now)
<1> DEFINE charged == [a EXCEPT !.balance = @ - total]
           noted == AddHistory(charged, "active", "blocked", "billing", cutoff)
           settled == IF HasLaterStatus(a, cutoff) THEN noted
                      ELSE [noted EXCEPT !.status = "blocked"]
<1>1. /\ charged \in Account /\ charged.status = a.status /\ charged.limit = a.limit
      /\ charged.history = a.history /\ charged.created = a.created
      /\ charged.deleted = a.deleted /\ charged.balance = a.balance - total
  BY DEF Account
<1>2. HistoryOK(charged, now)
  BY <1>1, SameHistory DEF Consistent
<1>3. OutOfMoney(a) => OutOfMoney(charged)
  BY <1>1 DEF OutOfMoney, Account
<1> HIDE DEF charged
<1>4. CASE ~OutOfMoney(charged)
  <2>1. PaidUpNotBlocked(charged)
    BY <1>1, <1>3 DEF Consistent, PaidUpNotBlocked, BlockedByBilling, Live, Exists
  <2> QED
    BY <1>1, <1>2, <1>4, <2>1 DEF ChargeAccount, Consistent, charged
<1>5. CASE OutOfMoney(charged)
  <2>1. /\ "active" \in AccountStatus \union {"null"} /\ "blocked" \in AccountStatus
        /\ "billing" \in StatusChangeSource /\ FALSE \in BOOLEAN
    BY DEF AccountStatus, StatusChangeSource
  <2>2. /\ noted \in Account
        /\ noted.status = a.status /\ noted.created = a.created
        /\ noted.balance = charged.balance /\ noted.limit = charged.limit
    <3>1. noted \in Account
      BY <1>1, <2>1, AddHistoryType
    <3> QED
      BY <1>1, <3>1 DEF AddHistory, Account
  <2>3. settled \in Account /\ HistoryOK(settled, now)
    <3>1. CASE HasLaterStatus(a, cutoff)
      <4>1. Latest(noted.history) \subseteq Latest(a.history)
        <5> DEFINE c == [prev |-> "active", new |-> "blocked", source |-> "billing",
                         eff |-> cutoff]
        <5>1. c \in StatusChange /\ c.eff = cutoff
          BY <2>1 DEF StatusChange
        <5>2. a.history \in Seq(StatusChange) /\ noted.history = Append(a.history, c)
          BY <1>1 DEF AddHistory, Account
        <5>3. \E i \in DOMAIN a.history : a.history[i].eff > c.eff
          BY <3>1, <5>1 DEF HasLaterStatus
        <5> HIDE DEF c, noted
        <5> QED
          BY <5>1, <5>2, <5>3, LatestInserted
      <4>2. SoundHistory(noted, now)
        <5>1. a.history \in Seq(StatusChange)
          BY DEF Account
        <5> QED
          BY <1>1, <5>1 DEF AddHistory, SoundHistory, Consistent, HistoryOK, Account
      <4> HIDE DEF noted
      <4> QED
        BY <2>2, <3>1, <4>1, <4>2 DEF Consistent, HistoryOK, StatusIsLatest
    <3>2. CASE ~HasLaterStatus(a, cutoff)
      <4> DEFINE b == [noted EXCEPT !.status = "blocked"]
      <4>1. /\ b \in Account /\ b.history = noted.history /\ b.status = "blocked"
            /\ b.created = charged.created
        <5> HIDE DEF noted
        <5> QED
          BY <1>1, <2>1, <2>2 DEF Account
      <4>2. \A i \in DOMAIN charged.history : charged.history[i].eff <= cutoff
        <5>1. \A i \in DOMAIN a.history : a.history[i].eff \in Int
          BY RowTypes DEF Account
        <5> QED
          BY <1>1, <3>2, <5>1 DEF HasLaterStatus
      <4> HIDE DEF b
      <4>3. HistoryOK(b, now)
        BY <1>1, <1>2, <2>1, <4>1, <4>2, AppendedHistory
      <4> QED
        BY <3>2, <4>1, <4>3 DEF b
    <3> QED
      BY <3>1, <3>2
  <2>4. OutOfMoney(settled)
    <3> HIDE DEF noted
    <3>1. settled.balance = charged.balance /\ settled.limit = charged.limit
      BY <2>2 DEF Account
    <3> QED
      BY <1>5, <3>1 DEF OutOfMoney
  <2>5. ChargeAccount(a, total, cutoff) = QueueVpnSync(settled, FALSE)
    BY <1>5 DEF ChargeAccount, charged
  <2> HIDE DEF settled
  <2>6. Consistent(settled, now)
    BY <2>3, <2>4 DEF Consistent, PaidUpNotBlocked
  <2> QED
    BY <2>1, <2>3, <2>5, <2>6, QueueVpnSyncConsistent
<1> QED
  BY <1>4, <1>5
=============================================================================

--------------------------- MODULE PaymentsProofs ---------------------------
(***************************************************************************)
(* Theorems of Payments, for any users, payments, sessions and transfers:  *)
(* its states are well typed, an operation pays for one payment, every     *)
(* credit is recorded with the balances it saw, nobody who can pay stays   *)
(* blocked by billing, and the payments implement TopUpLedger.             *)
(***************************************************************************)
EXTENDS Payments, AccountsProofs

-----------------------------------------------------------------------------
(* The inductive invariant *)

Settles(s) == session[s].pc \in {"payment", "operation", "user", "commit"}
Holds(s) == session[s].pc \in {"operation", "user", "commit"}

\* A session settles the payment its transfer names; from LockPayment on it
\* holds the payment, which stays pending, and at the commit also the owner,
\* whose row is still as the session has read it.
SessionSound(s) ==
  /\ At(s, "asking") => Label(s) \in Payment
  /\ Settles(s) => session[s].transfer.label = Label(s)
  /\ Holds(s) => paymentLock[Label(s)] = s /\ payments[Label(s)] = Pending
  /\ At(s, "commit") => /\ userLock[Payer(s)] = s /\ Live(acct[Payer(s)])
                        /\ session[s].read = acct[Payer(s)]
SessionsSound == \A s \in Session : SessionSound(s)

\* A row without a credit holds nothing, one with a credit its operation, and
\* no two rows hold the same.
RowSound(row) == /\ row.status = "none" => row = NoPayment
                 /\ row.status = "pending" => row = Pending
                 /\ row.status = "succeeded" => row.operation \in Operation
RowsSound ==
  /\ \A p \in Payment : RowSound(payments[p])
  /\ \A p, q \in Payment : p # q /\ payments[p].operation = payments[q].operation
                             => payments[p].operation = NoOperation

AccountsSound == \A u \in User : Consistent(acct[u], Now)

Inv == TypeOK /\ SessionsSound /\ RowsSound /\ AccountsSound

-----------------------------------------------------------------------------
(* Values *)

LEMMA NowType == Now = 3 /\ Now \in Nat /\ During(0) = 1
  BY DEF Now, During

LEMMA RowValues == NoPayment \in PaymentRow /\ Pending \in PaymentRow /\ Pending.status = "pending"
                   /\ Pending.operation = NoOperation /\ NoPayment.operation = NoOperation
                   /\ NoPayment.status = "none"
  BY DEF NoPayment, Pending, PaymentRow

LEMMA IdleType == Idle \in SessionState /\ Idle.pc = "idle" /\ NoAccount \in Account
  BY DEF Idle, SessionState, NoTransfer, NoAccount, Account, AccountStatus, VpnSyncJob, Never

\* What a transaction settles.
LEMMA SettledTransfer ==
  ASSUME TypeOK, SessionsSound, NEW s \in Session, Settles(s)
  PROVE  LET t == session[s].transfer
         IN  /\ t \in Transfers /\ t.op \in Operation /\ t.amount \in Nat \ {0}
             /\ Label(s) \in Payment /\ t.label = Label(s)
             /\ Payer(s) \in User
<1>1. session[s].transfer \in Transfers
  BY DEF TypeOK, Settles
<1>2. session[s].transfer \in [op : Operation, label : Payment, amount : Nat \ {0}]
  BY <1>1, PaymentsAssumption
<1>3. session[s].transfer.label = Label(s)
  BY DEF SessionsSound, SessionSound
<1> QED
  BY <1>1, <1>2, <1>3, PaymentsAssumption DEF Payer

LEMMA StartAccountSound ==
  ASSUME NEW balance \in Int
  PROVE  /\ StartAccount(balance) \in Account /\ Consistent(StartAccount(balance), Now)
<1> DEFINE a == NewAccount("active", balance, 0, During(0))
<1>1. "active" \in AccountStatus /\ During(0) \in Nat /\ During(0) <= Now /\ Now \in Int
  BY NowType DEF AccountStatus
<1>2. a \in Account /\ Consistent(a, During(0))
  BY <1>1, NewAccountConsistent
<1> HIDE DEF a
<1>3. /\ BlockIfBalanceBelowLimit(a, During(0)) \in Account
      /\ Consistent(BlockIfBalanceBelowLimit(a, During(0)), During(0))
  BY <1>1, <1>2, BlockIfConsistent DEF Consistent
<1> QED
  BY <1>1, <1>3, ConsistentLater DEF StartAccount, a

\* A credit adds its amount; a restore changes no balance.
LEMMA CreditAccountBalance ==
  ASSUME NEW a \in Account, NEW now \in Int, HistoryOK(a, now), NEW amount \in Int
  PROVE  CreditAccount(a, amount, now).balance = a.balance + amount
<1> DEFINE b == [a EXCEPT !.balance = @ + amount]
           row == CHOOSE c \in BillingBlocks(b.history) : TRUE
           r == RecordStatusChange(b, row.prev, "top_up", now)
<1>1. /\ b \in Account /\ b.status = a.status /\ b.history = a.history
      /\ b.created = a.created /\ b.balance = a.balance + amount
  BY DEF Account
<1> HIDE DEF b
<1>2. HistoryOK(b, now)
  BY <1>1, SameHistory
<1>3. CASE b.status = "blocked" /\ ~OutOfMoney(b) /\ BillingBlocks(b.history) # {}
  <2>1. row \in BillingBlocks(b.history)
    BY <1>3
  <2>2. row.prev \in {"active", "paused"}
    BY <2>1 DEF BillingBlocks
  <2> HIDE DEF row
  <2>3. /\ row.prev \in AccountStatus /\ row.prev # b.status /\ b.status \in AccountStatus
        /\ "top_up" \in StatusChangeSource
    BY <1>3, <2>2 DEF AccountStatus, StatusChangeSource
  <2>4. r \in Account /\ r.balance = b.balance
    BY <1>1, <1>2, <2>3, RecordedHistory DEF RecordStatusChange
  <2> HIDE DEF r
  <2>5. \A e \in BOOLEAN : QueueVpnSync(r, e).balance = r.balance
    BY <2>4 DEF QueueVpnSync, Account
  <2>6. CreditAccount(a, amount, now) = QueueVpnSync(r, row.prev = "active")
    BY <1>3 DEF CreditAccount, RestoreIfBillingBlocked, b, row, r
  <2> QED
    BY <1>1, <2>4, <2>5, <2>6
<1>4. CASE ~(b.status = "blocked" /\ ~OutOfMoney(b) /\ BillingBlocks(b.history) # {})
  BY <1>1, <1>4 DEF CreditAccount, RestoreIfBillingBlocked, b
<1> QED
  BY <1>3, <1>4
-----------------------------------------------------------------------------
(* The parts of a step *)

\* The sessions that do not move keep what they hold.
Undisturbed(r) ==
  /\ session'[r] = session[r]
  /\ Holds(r) /\ paymentLock[Label(r)] = r =>
       paymentLock'[Label(r)] = r /\ payments'[Label(r)] = payments[Label(r)]
  /\ At(r, "commit") /\ userLock[Payer(r)] = r =>
       userLock'[Payer(r)] = r /\ acct'[Payer(r)] = acct[Payer(r)]

LEMMA UndisturbedSound ==
  ASSUME NEW r \in Session, SessionSound(r), Undisturbed(r)
  PROVE  SessionSound(r)'
<1>1. Label(r)' = Label(r) /\ Payer(r)' = Payer(r)
  BY DEF Undisturbed, Label, Payer
<1>2. At(r, "commit") => Holds(r)
  BY DEF At, Holds
<1> QED
  BY <1>1, <1>2 DEF Undisturbed, SessionSound, At, Settles, Holds

LEMMA EndKeeps ==
  ASSUME Inv, NEW s \in Session, End(s), UNCHANGED made,
         \A r \in Session \ {s} : Holds(r) /\ paymentLock[Label(r)] = r
                                    => payments'[Label(r)] = payments[Label(r)],
         \A r \in Session \ {s} : At(r, "commit") /\ userLock[Payer(r)] = r
                                    => acct'[Payer(r)] = acct[Payer(r)]
  PROVE  /\ session' \in [Session -> SessionState]
         /\ \A r \in Session : session'[r].pc \notin {"idle", "asking"}
                                 => session'[r].transfer \in made'
         /\ paymentLock' \in [Payment -> Session \union {Nobody}]
         /\ userLock' \in [User -> Session \union {Nobody}]
         /\ SessionsSound'
<1>1. /\ session \in [Session -> SessionState] /\ session' = [session EXCEPT ![s] = Idle]
      /\ paymentLock \in [Payment -> Session \union {Nobody}]
      /\ userLock \in [User -> Session \union {Nobody}]
      /\ \A r \in Session : session[r].pc \notin {"idle", "asking"}
                              => session[r].transfer \in made
  BY DEF Inv, TypeOK, End
<1>2. /\ session' \in [Session -> SessionState] /\ session'[s] = Idle
      /\ \A r \in Session \ {s} : session'[r] = session[r]
  BY <1>1, IdleType
<1>3. /\ paymentLock' \in [Payment -> Session \union {Nobody}]
      /\ \A p \in Payment, r \in Session \ {s} : paymentLock[p] = r => paymentLock'[p] = r
  BY <1>1 DEF End
<1>4. /\ userLock' \in [User -> Session \union {Nobody}]
      /\ \A u \in User, r \in Session \ {s} : userLock[u] = r => userLock'[u] = r
  BY <1>1 DEF End
<1>5. SessionSound(s)'
  BY <1>2, IdleType DEF SessionSound, At, Settles, Holds
<1>6. ASSUME NEW r \in Session \ {s}
      PROVE  SessionSound(r)'
  <2>1. Holds(r) => Label(r) \in Payment /\ Payer(r) \in User
    BY SettledTransfer DEF Inv, Holds, Settles
  <2>2. At(r, "commit") => Holds(r)
    BY DEF At, Holds
  <2>3. Undisturbed(r)
    BY <1>2, <1>3, <1>4, <2>1, <2>2 DEF Undisturbed
  <2> QED
    BY <2>3, UndisturbedSound DEF Inv, SessionsSound
<1>7. \A r \in Session : session'[r].pc \notin {"idle", "asking"} => session'[r].transfer \in made'
  BY <1>1, <1>2, IdleType
<1> QED
  BY <1>2, <1>3, <1>4, <1>5, <1>6, <1>7 DEF SessionsSound

\* A session moves on and may take locks that nobody holds.
LEMMA MoveKeeps ==
  ASSUME Inv, NEW s \in Session, NEW state \in SessionState,
         session' = [session EXCEPT ![s] = state],
         state.pc \notin {"idle", "asking"} => state.transfer \in made,
         \/ UNCHANGED paymentLock
         \/ \E p \in Payment : paymentLock[p] = Nobody /\ paymentLock' = [paymentLock EXCEPT ![p] = s],
         \/ UNCHANGED userLock
         \/ \E u \in User : userLock[u] = Nobody /\ userLock' = [userLock EXCEPT ![u] = s],
         UNCHANGED <<acct, payments, made, changes, crashes>>, cooling' \in SUBSET Payment,
         SessionSound(s)'
  PROVE  Inv'
<1>1. /\ session' \in [Session -> SessionState]
      /\ session'[s] = state /\ \A r \in Session \ {s} : session'[r] = session[r]
  BY DEF Inv, TypeOK
<1>2. /\ paymentLock' \in [Payment -> Session \union {Nobody}]
      /\ \A p \in Payment, r \in Session : paymentLock[p] = r => paymentLock'[p] = r
  BY PaymentsAssumption DEF Inv, TypeOK
<1>3. /\ userLock' \in [User -> Session \union {Nobody}]
      /\ \A u \in User, r \in Session : userLock[u] = r => userLock'[u] = r
  BY PaymentsAssumption DEF Inv, TypeOK
<1>4. ASSUME NEW r \in Session \ {s}
      PROVE  SessionSound(r)'
  <2>1. Holds(r) => Label(r) \in Payment /\ Payer(r) \in User
    BY SettledTransfer DEF Inv, Holds, Settles
  <2>2. At(r, "commit") => Holds(r)
    BY DEF At, Holds
  <2>3. Undisturbed(r)
    BY <1>1, <1>2, <1>3, <2>1, <2>2 DEF Undisturbed
  <2> QED
    BY <2>3, UndisturbedSound DEF Inv, SessionsSound
<1>5. \A r \in Session : session'[r].pc \notin {"idle", "asking"} => session'[r].transfer \in made'
  BY <1>1 DEF Inv, TypeOK
<1>6. TypeOK'
  BY <1>1, <1>2, <1>3, <1>5 DEF Inv, TypeOK
<1>7. SessionsSound'
  BY <1>4 DEF SessionsSound
<1>8. RowsSound' /\ AccountsSound'
  BY DEF Inv, RowsSound, AccountsSound, Now
<1> QED
  BY <1>6, <1>7, <1>8 DEF Inv

\* A transaction that gives up changes neither accounts nor payments.
LEMMA GiveUpKeeps ==
  ASSUME Inv, NEW s \in Session, End(s),
         UNCHANGED <<acct, payments, cooling, made, changes, crashes>>
  PROVE  Inv'
<1>1. /\ session' \in [Session -> SessionState]
      /\ \A r \in Session : session'[r].pc \notin {"idle", "asking"}
                              => session'[r].transfer \in made'
      /\ paymentLock' \in [Payment -> Session \union {Nobody}]
      /\ userLock' \in [User -> Session \union {Nobody}]
      /\ SessionsSound'
  BY EndKeeps
<1>2. TypeOK'
  BY <1>1 DEF Inv, TypeOK
<1>3. RowsSound' /\ AccountsSound'
  BY DEF Inv, RowsSound, AccountsSound, Now
<1> QED
  BY <1>1, <1>2, <1>3 DEF Inv

-----------------------------------------------------------------------------
(* The steps *)

LEMMA InitSound == Init => Inv
<1> SUFFICES ASSUME Init PROVE Inv
  OBVIOUS
<1>1. PICK b \in [User -> StartBalances] : acct = [u \in User |-> StartAccount(b[u])]
  BY DEF Init
<1>2. \A u \in User : acct[u] \in Account /\ Consistent(acct[u], Now)
  <2>1. \A u \in User : b[u] \in Int
    BY PaymentsAssumption
  <2> QED
    BY <1>1, <2>1, StartAccountSound
<1>3. TypeOK
  BY <1>1, <1>2, RowValues, IdleType, PaymentsAssumption DEF Init, TypeOK
<1>4. SessionsSound
  BY IdleType DEF Init, SessionsSound, SessionSound, At, Settles, Holds
<1>5. RowsSound
  BY RowValues DEF Init, RowsSound, RowSound
<1> QED
  BY <1>2, <1>3, <1>4, <1>5 DEF Inv, AccountsSound

\* The world outside the transactions.
LEMMA OutsideKeeps ==
  ASSUME Inv, \/ \E p \in Payment : CreatePayment(p) \/ CoolDown(p)
              \/ \E t \in Transfers : Transfer(t)
  PROVE  Inv'
<1>1. CASE \E p \in Payment : CreatePayment(p)
  <2>1. PICK p \in Payment : CreatePayment(p)
    BY <1>1
  <2>2. /\ payments[p] = NoPayment /\ payments' = [payments EXCEPT ![p] = Pending]
        /\ UNCHANGED <<acct, cooling, made, session, paymentLock, userLock, changes, crashes>>
    BY <2>1 DEF CreatePayment
  <2>3. TypeOK'
    BY <2>2, RowValues DEF Inv, TypeOK
  <2>4. /\ payments' \in [Payment -> PaymentRow] /\ payments'[p] = Pending
        /\ \A q \in Payment \ {p} : payments'[q] = payments[q]
    BY <2>2, RowValues DEF Inv, TypeOK
  <2>5. RowsSound'
    BY <2>2, <2>4, RowValues DEF Inv, RowsSound, RowSound
  <2>6. ASSUME NEW r \in Session
        PROVE  SessionSound(r)'
    <3>1. Holds(r) => Label(r) \in Payment
      BY SettledTransfer DEF Inv, Holds, Settles
    <3>2. Holds(r) => payments[Label(r)] # NoPayment
      BY RowValues DEF Inv, SessionsSound, SessionSound
    <3>3. Undisturbed(r)
      BY <2>2, <2>4, <3>1, <3>2 DEF Undisturbed
    <3> QED
      BY <3>3, UndisturbedSound DEF Inv, SessionsSound
  <2>7. AccountsSound'
    BY <2>2 DEF Inv, AccountsSound, Now
  <2> QED
    BY <2>3, <2>5, <2>6, <2>7 DEF Inv, SessionsSound
<1>2. CASE \E p \in Payment : CoolDown(p)
  <2>1. PICK p \in Payment : CoolDown(p)
    BY <1>2
  <2>2. /\ cooling' \subseteq Payment
        /\ UNCHANGED <<acct, payments, made, session, paymentLock, userLock, changes, crashes>>
    BY <2>1 DEF CoolDown, Inv, TypeOK
  <2> QED
    BY <2>2 DEF Inv, TypeOK, SessionsSound, SessionSound, At, Settles, Holds, Label, Payer,
                RowsSound, AccountsSound, Now
<1>3. CASE \E t \in Transfers : Transfer(t)
  <2>1. PICK t \in Transfers : Transfer(t)
    BY <1>3
  <2>2. /\ made' \subseteq Transfers /\ made \subseteq made'
        /\ UNCHANGED <<acct, payments, cooling, session, paymentLock, userLock, changes, crashes>>
    BY <2>1 DEF Transfer, Inv, TypeOK
  <2> QED
    BY <2>2 DEF Inv, TypeOK, SessionsSound, SessionSound, At, Settles, Holds, Label, Payer,
                RowsSound, AccountsSound, Now
<1> QED
  BY <1>1, <1>2, <1>3

\* A session begins to settle a transfer that was made.
LEMMA SettlingSound ==
  ASSUME Inv, NEW s \in Session, NEW t \in made, NEW kind \in {"webhook", "poll", "scheduler"},
         session' = [session EXCEPT ![s] = Settling(kind, t)],
         UNCHANGED <<acct, payments, cooling, made, paymentLock, userLock, changes, crashes>>
  PROVE  Inv'
<1> DEFINE state == Settling(kind, t)
<1>1. t \in Transfers /\ t.label \in Payment /\ cooling' \in SUBSET Payment
  BY PaymentsAssumption DEF Inv, TypeOK
<1>2. /\ state \in SessionState /\ state.pc = "payment" /\ state.transfer = t
      /\ state.label = t.label
  BY <1>1, IdleType DEF Settling, SessionState, Idle
<1> HIDE DEF state
<1>3. session'[s] = state
  BY DEF Inv, TypeOK, state
<1>4. SessionSound(s)'
  BY <1>2, <1>3 DEF SessionSound, At, Settles, Holds, Label
<1>5. session' = [session EXCEPT ![s] = state]
  BY DEF state
<1> QED
  BY <1>1, <1>2, <1>4, <1>5, MoveKeeps

LEMMA BeginKeeps ==
  ASSUME Inv, NEW s \in Session, Begin(s)
  PROVE  Inv'
<1>1. CASE \E t \in Transfers : Webhook(s, t) \/ SchedulerFinds(s, t)
  BY <1>1, SettlingSound DEF Webhook, SchedulerFinds
<1>2. CASE \E p \in Payment : PollClaims(s, p)
  <2>1. PICK p \in Payment : PollClaims(s, p)
    BY <1>2
  <2> DEFINE state == [Idle EXCEPT !.pc = "asking", !.kind = "poll", !.label = p]
  <2>2. /\ state \in SessionState /\ state.pc = "asking" /\ state.label = p
    BY IdleType DEF Idle, SessionState, NoTransfer
  <2>3. /\ cooling' \in SUBSET Payment /\ session' = [session EXCEPT ![s] = state]
        /\ UNCHANGED <<acct, payments, made, paymentLock, userLock, changes, crashes>>
    BY <2>1 DEF PollClaims, Inv, TypeOK
  <2> HIDE DEF state
  <2>4. session'[s] = state
    BY <2>3 DEF Inv, TypeOK
  <2>5. SessionSound(s)'
    BY <2>2, <2>4 DEF SessionSound, At, Settles, Holds, Label
  <2> QED
    BY <2>2, <2>3, <2>5, MoveKeeps
<1> QED
  BY <1>1, <1>2 DEF Begin

LEMMA PollAnsweredKeeps ==
  ASSUME Inv, NEW s \in Session, PollAnswered(s)
  PROVE  Inv'
<1>1. CASE \E t \in made : session' = [session EXCEPT ![s] = Settling("poll", t)]
  BY <1>1, SettlingSound DEF PollAnswered
<1>2. CASE session' = [session EXCEPT ![s] = Idle]
  <2>1. session'[s] = Idle
    BY <1>2 DEF Inv, TypeOK
  <2>2. SessionSound(s)'
    BY <2>1, IdleType DEF SessionSound, At, Settles, Holds
  <2>3. /\ cooling' \in SUBSET Payment
        /\ UNCHANGED <<acct, payments, made, paymentLock, userLock, changes, crashes>>
    BY DEF PollAnswered, Inv, TypeOK
  <2> QED
    BY <1>2, <2>2, <2>3, IdleType, MoveKeeps
<1> QED
  BY <1>1, <1>2 DEF PollAnswered

\* The next statement of a transaction: only where it is changes.
LEMMA GotoState ==
  ASSUME Inv, NEW s \in Session, Settles(s),
         NEW pc \in {"operation", "user"}, Goto(s, pc)
  PROVE  /\ [session[s] EXCEPT !.pc = pc] \in SessionState
         /\ session' = [session EXCEPT ![s] = [session[s] EXCEPT !.pc = pc]]
         /\ session'[s].pc = pc /\ session'[s].label = session[s].label
         /\ session'[s].transfer = session[s].transfer
         /\ [session[s] EXCEPT !.pc = pc].transfer \in made
  BY DEF Inv, TypeOK, Goto, Settles, SessionState

LEMMA LockPaymentKeeps ==
  ASSUME Inv, NEW s \in Session, LockPayment(s)
  PROVE  Inv'
<1>1. /\ Settles(s) /\ paymentLock[Label(s)] = Nobody
      /\ UNCHANGED <<acct, payments, cooling, made, changes, crashes>>
  BY DEF LockPayment, At, Settles
<1>2. Label(s) \in Payment /\ session[s].transfer.label = Label(s)
  BY <1>1, SettledTransfer DEF Inv
<1>3. CASE payments[Label(s)].status = "pending"
  <2>1. /\ paymentLock' = [paymentLock EXCEPT ![Label(s)] = s] /\ Goto(s, "operation")
        /\ UNCHANGED userLock
    BY <1>3 DEF LockPayment
  <2> DEFINE state == [session[s] EXCEPT !.pc = "operation"]
  <2>2. /\ state \in SessionState /\ session' = [session EXCEPT ![s] = state]
        /\ session'[s].pc = "operation" /\ session'[s].label = session[s].label
        /\ session'[s].transfer = session[s].transfer /\ state.transfer \in made
    BY <1>1, <2>1, GotoState
  <2>3. payments[Label(s)] = Pending
    BY <1>2, <1>3 DEF Inv, RowsSound, RowSound
  <2>4. paymentLock'[Label(s)] = s
    BY <1>2, <2>1 DEF Inv, TypeOK
  <2>5. SessionSound(s)'
    BY <1>1, <1>2, <2>2, <2>3, <2>4 DEF SessionSound, At, Settles, Holds, Label
  <2>6. cooling' \in SUBSET Payment
    BY <1>1 DEF Inv, TypeOK
  <2> HIDE DEF state
  <2> QED
    BY <1>1, <1>2, <2>1, <2>2, <2>5, <2>6, MoveKeeps
<1>4. CASE payments[Label(s)].status # "pending"
  BY <1>1, <1>4, GiveUpKeeps DEF LockPayment
<1> QED
  BY <1>3, <1>4

LEMMA CheckOperationKeeps ==
  ASSUME Inv, NEW s \in Session, CheckOperation(s)
  PROVE  Inv'
<1>1. /\ Settles(s) /\ Holds(s) /\ UNCHANGED <<acct, payments, cooling, made, changes, crashes>>
  BY DEF CheckOperation, At, Settles, Holds
<1>2. CASE ~UsedElsewhere(s)
  <2>1. Goto(s, "user") /\ UNCHANGED <<paymentLock, userLock>>
    BY <1>2 DEF CheckOperation
  <2> DEFINE state == [session[s] EXCEPT !.pc = "user"]
  <2>2. /\ state \in SessionState /\ session' = [session EXCEPT ![s] = state]
        /\ session'[s].pc = "user" /\ session'[s].label = session[s].label
        /\ session'[s].transfer = session[s].transfer /\ state.transfer \in made
    BY <1>1, <2>1, GotoState
  <2>3. SessionSound(s)
    BY DEF Inv, SessionsSound
  <2>4. SessionSound(s)'
    BY <1>1, <2>1, <2>2, <2>3 DEF SessionSound, At, Settles, Holds, Label
  <2>5. cooling' \in SUBSET Payment
    BY <1>1 DEF Inv, TypeOK
  <2> HIDE DEF state
  <2> QED
    BY <1>1, <2>1, <2>2, <2>4, <2>5, MoveKeeps
<1>3. CASE UsedElsewhere(s)
  BY <1>1, <1>3, GiveUpKeeps DEF CheckOperation
<1> QED
  BY <1>2, <1>3

LEMMA LockUserKeeps ==
  ASSUME Inv, NEW s \in Session, LockUser(s)
  PROVE  Inv'
<1>1. /\ Settles(s) /\ Holds(s) /\ userLock[Payer(s)] = Nobody
      /\ UNCHANGED <<acct, payments, cooling, made, changes, crashes>>
  BY DEF LockUser, At, Settles, Holds
<1>2. Payer(s) \in User
  BY <1>1, SettledTransfer DEF Inv
<1>3. CASE Live(acct[Payer(s)]) /\ Fits(s)
  <2>1. /\ userLock' = [userLock EXCEPT ![Payer(s)] = s] /\ Reads(s)
        /\ UNCHANGED paymentLock
    BY <1>3 DEF LockUser
  <2> DEFINE state == [session[s] EXCEPT !.pc = "commit", !.read = acct[Payer(s)]]
  <2>2. /\ state \in SessionState /\ session' = [session EXCEPT ![s] = state]
        /\ session'[s].pc = "commit" /\ session'[s].label = session[s].label
        /\ session'[s].transfer = session[s].transfer /\ state.transfer \in made
        /\ session'[s].read = acct[Payer(s)]
    <3>1. session[s] \in SessionState /\ acct[Payer(s)] \in Account /\ session[s].transfer \in made
      BY <1>1, <1>2 DEF Inv, TypeOK, Settles
    <3>2. /\ state \in SessionState /\ state.pc = "commit" /\ state.label = session[s].label
          /\ state.transfer = session[s].transfer /\ state.read = acct[Payer(s)]
      BY <3>1 DEF SessionState
    <3>3. session' = [session EXCEPT ![s] = state]
      BY <2>1 DEF Reads
    <3> HIDE DEF state
    <3> QED
      BY <3>1, <3>2, <3>3 DEF Inv, TypeOK
  <2>3. SessionSound(s)
    BY DEF Inv, SessionsSound
  <2>4. userLock'[Payer(s)] = s
    BY <1>2, <2>1 DEF Inv, TypeOK
  <2>5. SessionSound(s)'
    BY <1>1, <1>3, <2>1, <2>2, <2>3, <2>4 DEF SessionSound, At, Settles, Holds, Label, Payer
  <2>6. cooling' \in SUBSET Payment
    BY <1>1 DEF Inv, TypeOK
  <2> HIDE DEF state
  <2> QED
    BY <1>1, <1>2, <2>1, <2>2, <2>5, <2>6, MoveKeeps
<1>4. CASE ~(Live(acct[Payer(s)]) /\ Fits(s))
  BY <1>1, <1>4, GiveUpKeeps DEF LockUser
<1> QED
  BY <1>3, <1>4

\* What a commit writes, when the operation is not used elsewhere: the credit of the
\* row as it is, since it is as it was read.
LEMMA CommittedCredit ==
  ASSUME Inv, NEW s \in Session, At(s, "commit")
  PROVE  LET amount == session[s].transfer.amount
             credited == Credited(s)
         IN  /\ Holds(s) /\ Settles(s) /\ Label(s) \in Payment /\ Payer(s) \in User
             /\ session[s].transfer.op \in Operation /\ amount \in Nat \ {0}
             /\ paymentLock[Label(s)] = s /\ userLock[Payer(s)] = s
             /\ payments[Label(s)] = Pending /\ Live(acct[Payer(s)])
             /\ credited \in Account /\ Consistent(credited, Now)
             /\ acct[Payer(s)] \in Account /\ acct[Payer(s)].balance \in Int
             /\ credited.balance = acct[Payer(s)].balance + amount
             /\ CreditedRow(s).received = amount
             /\ CreditedRow(s).before = acct[Payer(s)].balance
             /\ CreditedRow(s).after = credited.balance
             /\ CreditedRow(s) \in PaymentRow
<1> DEFINE amount == session[s].transfer.amount
           credited == Credited(s)
<1>1. Holds(s) /\ Settles(s)
  BY DEF At, Holds, Settles
<1>2. /\ Label(s) \in Payment /\ Payer(s) \in User
      /\ session[s].transfer.op \in Operation /\ amount \in Nat \ {0}
  BY <1>1, SettledTransfer DEF Inv
<1>3. /\ paymentLock[Label(s)] = s /\ userLock[Payer(s)] = s
      /\ payments[Label(s)] = Pending /\ Live(acct[Payer(s)])
      /\ session[s].read = acct[Payer(s)]
  BY <1>1 DEF Inv, SessionsSound, SessionSound
<1>4. acct[Payer(s)] \in Account /\ HistoryOK(acct[Payer(s)], Now) /\ Now \in Int
  BY <1>2, NowType DEF Inv, TypeOK, AccountsSound, Consistent
<1>5. acct[Payer(s)].balance \in Int
  BY <1>4 DEF Account
<1>6. credited = CreditAccount(acct[Payer(s)], amount, Now)
  <2>1. [acct[Payer(s)] EXCEPT !.history = acct[Payer(s)].history, !.job = acct[Payer(s)].job,
                               !.deleted = acct[Payer(s)].deleted] = acct[Payer(s)]
    BY <1>4 DEF Account
  <2> QED
    BY <1>3, <2>1 DEF Credited
<1> HIDE DEF credited
<1>7. /\ credited \in Account /\ Consistent(credited, Now)
      /\ credited.balance = acct[Payer(s)].balance + amount
  BY <1>2, <1>4, <1>6, CreditAccountConsistent, CreditAccountBalance
<1>8. /\ CreditedRow(s).before = acct[Payer(s)].balance /\ CreditedRow(s).after = credited.balance
      /\ CreditedRow(s).received = amount /\ CreditedRow(s) \in PaymentRow
  BY <1>2, <1>3, <1>5, <1>7 DEF CreditedRow, PaymentRow
<1> QED
  BY <1>1, <1>2, <1>3, <1>4, <1>5, <1>7, <1>8 DEF credited

LEMMA CommitCreditKeeps ==
  ASSUME Inv, NEW s \in Session, CommitCredit(s)
  PROVE  Inv'
<1>1. At(s, "commit") /\ End(s) /\ UNCHANGED <<cooling, made, changes, crashes>>
  BY DEF CommitCredit
<1>2. CASE UsedElsewhere(s)
  BY <1>1, <1>2, GiveUpKeeps DEF CommitCredit
<1>3. CASE ~UsedElsewhere(s)
  <2> DEFINE credited == Credited(s)
             row == CreditedRow(s)
  <2>1. /\ acct' = [acct EXCEPT ![Payer(s)] = credited]
        /\ payments' = [payments EXCEPT ![Label(s)] = row]
    BY <1>3 DEF CommitCredit, WriteCredit
  <2>2. /\ Label(s) \in Payment /\ Payer(s) \in User /\ session[s].transfer.op \in Operation
        /\ paymentLock[Label(s)] = s /\ userLock[Payer(s)] = s
        /\ credited \in Account /\ Consistent(credited, Now) /\ row \in PaymentRow
    BY <1>1, CommittedCredit
  <2>3. row.status = "succeeded" /\ row.operation = session[s].transfer.op
    BY DEF CreditedRow
  <2> HIDE DEF credited, row
  <2>4. /\ acct' \in [User -> Account] /\ acct'[Payer(s)] = credited
        /\ \A u \in User \ {Payer(s)} : acct'[u] = acct[u]
    BY <2>1, <2>2 DEF Inv, TypeOK
  <2>5. /\ payments' \in [Payment -> PaymentRow] /\ payments'[Label(s)] = row
        /\ \A p \in Payment \ {Label(s)} : payments'[p] = payments[p]
    BY <2>1, <2>2 DEF Inv, TypeOK
  <2>6. \A r \in Session \ {s} : Holds(r) /\ paymentLock[Label(r)] = r
                                   => payments'[Label(r)] = payments[Label(r)]
    <3>1. ASSUME NEW r \in Session \ {s}, Holds(r), paymentLock[Label(r)] = r
          PROVE  payments'[Label(r)] = payments[Label(r)]
      <4>1. Label(r) \in Payment /\ Label(r) # Label(s)
        BY <2>2, <3>1, SettledTransfer DEF Inv, Holds, Settles
      <4> QED
        BY <2>5, <4>1
    <3> QED
      BY <3>1
  <2>7. \A r \in Session \ {s} : At(r, "commit") /\ userLock[Payer(r)] = r
                                   => acct'[Payer(r)] = acct[Payer(r)]
    <3>1. ASSUME NEW r \in Session \ {s}, At(r, "commit"), userLock[Payer(r)] = r
          PROVE  acct'[Payer(r)] = acct[Payer(r)]
      <4>1. Payer(r) \in User /\ Payer(r) # Payer(s)
        BY <2>2, <3>1, SettledTransfer DEF Inv, At, Settles
      <4> QED
        BY <2>4, <4>1
    <3> QED
      BY <3>1
  <2>8. /\ session' \in [Session -> SessionState]
        /\ \A r \in Session : session'[r].pc \notin {"idle", "asking"}
                                => session'[r].transfer \in made'
        /\ paymentLock' \in [Payment -> Session \union {Nobody}]
        /\ userLock' \in [User -> Session \union {Nobody}]
        /\ SessionsSound'
    BY <1>1, <2>6, <2>7, EndKeeps
  <2>9. TypeOK'
    BY <1>1, <2>4, <2>5, <2>8 DEF Inv, TypeOK
  <2>10. RowsSound'
    <3>1. \A q \in Payment \ {Label(s)} : payments[q].operation # row.operation
      BY <1>3, <2>3 DEF UsedElsewhere
    <3>2. \A p \in Payment : RowSound(payments'[p])
      BY <2>2, <2>3, <2>5 DEF Inv, RowsSound, RowSound
    <3>3. \A p, q \in Payment : p # q /\ payments'[p].operation = payments'[q].operation
                                  => payments'[p].operation = NoOperation
      BY <2>5, <3>1 DEF Inv, RowsSound
    <3> QED
      BY <3>2, <3>3 DEF RowsSound, RowSound, NoPayment, Pending
  <2>11. AccountsSound'
    BY <2>2, <2>4 DEF Inv, AccountsSound, Now
  <2> QED
    BY <2>8, <2>9, <2>10, <2>11 DEF Inv
<1> QED
  BY <1>2, <1>3

\* A handler that holds the row for the time of the change: no credit is between
\* its read and its write.
LEMMA ChangedAccount ==
  ASSUME Inv, NEW u \in User, ChangeAccount(u)
  PROVE  /\ acct' \in [User -> Account] /\ Consistent(acct'[u], Now)
         /\ \A v \in User \ {u} : acct'[v] = acct[v]
<1> DEFINE edited == EditAccount(acct[u], acct[u].status, acct[u].balance - Withdrawal,
                                 acct[u].limit, Now)
           deleted == DeleteAccount(acct[u], acct[u].status, Now)
<1>1. acct[u] \in Account /\ Consistent(acct[u], Now) /\ Now \in Nat /\ Now \in Int
  BY NowType DEF Inv, TypeOK, AccountsSound
<1>2. /\ acct[u].status \in AccountStatus /\ acct[u].balance - Withdrawal \in Int
      /\ acct[u].limit \in Nat
  BY <1>1, PaymentsAssumption DEF Account
<1>3. edited \in Account /\ Consistent(edited, Now)
  BY <1>1, <1>2, EditAccountConsistent
<1>4. deleted \in Account /\ Consistent(deleted, Now)
  BY <1>1, <1>2, DeleteAccountConsistent
<1>5. acct' = [acct EXCEPT ![u] = edited] \/ acct' = [acct EXCEPT ![u] = deleted]
  BY DEF ChangeAccount
<1> HIDE DEF edited, deleted
<1>6. acct \in [User -> Account]
  BY DEF Inv, TypeOK
<1> QED
  BY <1>3, <1>4, <1>5, <1>6

LEMMA ChangeAccountKeeps ==
  ASSUME Inv, NEW u \in User, ChangeAccount(u)
  PROVE  Inv'
<1>1. /\ userLock[u] = Nobody /\ changes' \in 0 .. MaxChanges
      /\ UNCHANGED <<payments, cooling, made, session, paymentLock, userLock, crashes>>
  BY PaymentsAssumption DEF ChangeAccount, Inv, TypeOK
<1>2. /\ acct' \in [User -> Account] /\ Consistent(acct'[u], Now)
      /\ \A v \in User \ {u} : acct'[v] = acct[v]
  BY ChangedAccount
<1>3. TypeOK'
  BY <1>1, <1>2 DEF Inv, TypeOK
<1>4. ASSUME NEW r \in Session
      PROVE  SessionSound(r)'
  <2>1. At(r, "commit") => Payer(r) \in User
    BY SettledTransfer DEF Inv, At, Settles
  <2>2. Undisturbed(r)
    BY <1>1, <1>2, <2>1, PaymentsAssumption DEF Undisturbed
  <2> QED
    BY <2>2, UndisturbedSound DEF Inv, SessionsSound
<1>5. RowsSound'
  BY <1>1 DEF Inv, RowsSound
<1>6. AccountsSound'
  BY <1>2 DEF Inv, AccountsSound, Now
<1> QED
  BY <1>3, <1>4, <1>5, <1>6 DEF Inv, SessionsSound

LEMMA CrashKeeps ==
  ASSUME Inv, Crash
  PROVE  Inv'
<1>1. /\ session' = [s \in Session |-> Idle]
      /\ paymentLock' = [p \in Payment |-> Nobody] /\ userLock' = [u \in User |-> Nobody]
      /\ crashes' \in 0 .. MaxCrashes /\ UNCHANGED <<acct, payments, cooling, made, changes>>
  BY PaymentsAssumption DEF Crash, Inv, TypeOK
<1>2. TypeOK'
  BY <1>1, IdleType DEF Inv, TypeOK
<1>3. SessionsSound'
  BY <1>1, IdleType DEF SessionsSound, SessionSound, At, Settles, Holds
<1> QED
  BY <1>1, <1>2, <1>3 DEF Inv, RowsSound, AccountsSound, Now

LEMMA NextKeeps == Inv /\ [Next]_vars => Inv'
<1> SUFFICES ASSUME Inv, [Next]_vars PROVE Inv'
  OBVIOUS
<1>1. CASE \/ \E p \in Payment : CreatePayment(p) \/ CoolDown(p)
           \/ \E t \in Transfers : Transfer(t)
  BY <1>1, OutsideKeeps
<1>2. ASSUME NEW s \in Session, Begin(s) \/ Proceed(s)
      PROVE  Inv'
  BY <1>2, BeginKeeps, PollAnsweredKeeps, LockPaymentKeeps, CheckOperationKeeps, LockUserKeeps,
     CommitCreditKeeps DEF Proceed
<1>3. ASSUME NEW u \in User, ChangeAccount(u)
      PROVE  Inv'
  BY <1>3, ChangeAccountKeeps
<1>4. CASE Crash
  BY <1>4, CrashKeeps
<1>5. CASE UNCHANGED vars
  BY <1>5 DEF vars, Inv, TypeOK, SessionsSound, SessionSound, At, Settles, Holds, Label, Payer,
              RowsSound, AccountsSound, Now
<1> QED
  BY <1>1, <1>2, <1>3, <1>4, <1>5 DEF Next

-----------------------------------------------------------------------------
(* The theorems *)

\* The locks are worth what LockPayment and LockUser take them for: between them
\* and the commit neither the payment nor its owner changes, whoever else settles
\* the same operation, bills the owner or deletes it.
THEOREM Invariance == Spec => []Inv
<1>1. Init => Inv
  BY InitSound
<1>2. Inv /\ [Next]_vars => Inv'
  BY NextKeeps
<1> QED
  BY <1>1, <1>2, PTL DEF Spec

\* Every reachable state is of its types; what a session settles has happened.
THEOREM TypeCorrect == Spec => []TypeOK
<1>1. Inv => TypeOK
  BY DEF Inv
<1> QED
  BY <1>1, Invariance, PTL

\* An operation pays for one payment: _operation_belongs_to_another_payment
\* before, and the unique operation_id at the commit.
THEOREM PaidOnce == Spec => []OperationPaysOnce
<1>1. Inv => OperationPaysOnce
  BY PaymentsAssumption DEF Inv, RowsSound, RowSound, OperationPaysOnce
<1> QED
  BY <1>1, Invariance, PTL

\* Nobody stays blocked by billing with money enough: apply_successful_payment
\* restores on the balance it has just credited.
THEOREM DebtorsComeBack == Spec => []NoPaidUpBlock
<1>1. Inv => NoPaidUpBlock
  BY DEF Inv, AccountsSound, Consistent, NoPaidUpBlock
<1> QED
  BY <1>1, Invariance, PTL

\* What a step does to the rows: only a commit marks a payment as paid.
LEMMA RowsChange ==
  ASSUME Inv, Next, NEW p \in Payment, payments'[p] \notin {payments[p], Pending}
  PROVE  \E s \in Session : CommitCredit(s) /\ ~UsedElsewhere(s) /\ Label(s) = p
<1>1. payments' # payments
  OBVIOUS
<1>2. ASSUME NEW q \in Payment, CreatePayment(q)
      PROVE  FALSE
  BY <1>2 DEF CreatePayment, Inv, TypeOK
<1>3. PICK s \in Session : CommitCredit(s)
  BY <1>1, <1>2 DEF Next, Transfer, CoolDown, Begin, Proceed, Webhook, SchedulerFinds, PollClaims,
                    PollAnswered, LockPayment, CheckOperation, LockUser, ChangeAccount, Crash
<1>4. ~UsedElsewhere(s)
  BY <1>1, <1>3 DEF CommitCredit
<1>5. payments' = [payments EXCEPT ![Label(s)] = CreditedRow(s)]
  BY <1>3, <1>4 DEF CommitCredit, WriteCredit
<1>6. Label(s) = p
  BY <1>5 DEF Inv, TypeOK
<1> QED
  BY <1>3, <1>4, <1>6

\* No change of a balance is lost between LockUser and CommitCredit: a credit is
\* written on the balance it was computed from, and tells the truth about it.
THEOREM CreditsRecorded == Spec => CreditsAreRecorded
<1> DEFINE Recorded(p) == payments'[p] \notin {payments[p], Pending} =>
             /\ payments'[p].status = "succeeded" /\ payments[p].status = "pending"
             /\ payments'[p].before = acct[Owner[p]].balance
             /\ payments'[p].after = acct'[Owner[p]].balance
             /\ acct'[Owner[p]].balance = acct[Owner[p]].balance + payments'[p].received
             /\ Live(acct[Owner[p]])
<1>1. ASSUME Inv, Next, NEW p \in Payment, payments'[p] \notin {payments[p], Pending}
      PROVE  Recorded(p)
  <2>1. PICK s \in Session : CommitCredit(s) /\ ~UsedElsewhere(s) /\ Label(s) = p
    BY <1>1, RowsChange
  <2> DEFINE credited == Credited(s)
             row == CreditedRow(s)
  <2>2. /\ acct' = [acct EXCEPT ![Payer(s)] = credited]
        /\ payments' = [payments EXCEPT ![p] = row]
    BY <2>1 DEF CommitCredit, WriteCredit
  <2>3. /\ Payer(s) \in User /\ Payer(s) = Owner[p] /\ payments[p] = Pending
        /\ Live(acct[Payer(s)])
        /\ credited.balance = acct[Payer(s)].balance + session[s].transfer.amount
        /\ row.received = session[s].transfer.amount
        /\ row.before = acct[Payer(s)].balance /\ row.after = credited.balance
    BY <1>1, <2>1, CommittedCredit DEF CommitCredit, Payer
  <2>4. row.status = "succeeded"
    BY DEF CreditedRow
  <2> HIDE DEF credited, row
  <2>5. acct'[Owner[p]] = credited /\ payments'[p] = row
    BY <1>1, <2>2, <2>3 DEF Inv, TypeOK
  <2> QED
    BY <2>3, <2>4, <2>5, RowValues
<1>2. Inv /\ [Next]_vars => [\A p \in Payment : Recorded(p)]_vars
  BY <1>1
<1>3. Spec => [][\A p \in Payment : Recorded(p)]_vars
  BY <1>2, Invariance, PTL DEF Spec
<1> QED
  BY <1>3 DEF CreditsAreRecorded

-----------------------------------------------------------------------------
(* The payments implement the ledger *)

LEMMA MappedValues ==
  ASSUME Inv
  PROVE  /\ Balances \in [User -> Int]
         /\ PaidBy \in [Payment -> Operation \union {NoOperation}]
         /\ \A u \in User : Balances[u] = acct[u].balance
         /\ \A p \in Payment : PaidBy[p] = payments[p].operation
  BY DEF Inv, TypeOK, Account, PaymentRow, Balances, PaidBy

LEMMA InitMaps == Init => Ledger!Init
<1> SUFFICES ASSUME Init PROVE Ledger!Init
  OBVIOUS
<1>1. Balances \in [User -> Int]
  BY InitSound, MappedValues
<1>2. PaidBy = [p \in Payment |-> NoOperation]
  BY RowValues DEF Init, PaidBy
<1> QED
  BY <1>1, <1>2 DEF Ledger!Init

\* The commit is the credit of the ledger.
LEMMA CommitMaps ==
  ASSUME Inv, Inv', NEW s \in Session, CommitCredit(s), ~UsedElsewhere(s)
  PROVE  Ledger!Credit(Label(s), session[s].transfer.op, session[s].transfer.amount)
<1> DEFINE p == Label(s)
           u == Payer(s)
           t == session[s].transfer
           credited == Credited(s)
<1>1. /\ acct' = [acct EXCEPT ![u] = credited]
      /\ payments' = [payments EXCEPT ![p] = CreditedRow(s)]
  BY DEF CommitCredit, WriteCredit
<1>2. /\ p \in Payment /\ u \in User /\ payments[p] = Pending /\ t.op \in Operation
      /\ credited.balance = acct[u].balance + t.amount
  BY CommittedCredit DEF CommitCredit
<1>3. /\ acct'[u] = credited /\ \A v \in User \ {u} : acct'[v] = acct[v]
      /\ payments'[p] = CreditedRow(s) /\ \A q \in Payment \ {p} : payments'[q] = payments[q]
  BY <1>1, <1>2 DEF Inv, TypeOK
<1> HIDE DEF credited
<1>4. PaidBy[p] = NoOperation
  BY <1>2, MappedValues, RowValues
<1>5. \A q \in Payment : PaidBy[q] # t.op
  BY <1>2, <1>4, MappedValues, PaymentsAssumption DEF UsedElsewhere
<1>6. PaidBy' = [PaidBy EXCEPT ![p] = t.op]
  <2>1. payments'[p].operation = t.op
    BY <1>3 DEF CreditedRow
  <2>2. \A q \in Payment \ {p} : payments'[q].operation = payments[q].operation
    BY <1>3
  <2> HIDE DEF p, t
  <2> QED
    BY <1>2, <2>1, <2>2 DEF PaidBy
<1>7. Balances' = [Balances EXCEPT ![u] = @ + t.amount]
  BY <1>2, <1>3 DEF Balances
<1> QED
  BY <1>4, <1>5, <1>6, <1>7 DEF Ledger!Credit, Payer

LEMMA NextMaps ==
  ASSUME Inv, Inv', [Next]_vars
  PROVE  [Ledger!Next]_Ledger!vars
<1>1. CASE UNCHANGED <<acct, payments>>
  BY <1>1 DEF Ledger!vars, Balances, PaidBy
<1>2. ASSUME NEW p \in Payment, CreatePayment(p)
      PROVE  UNCHANGED <<Balances, PaidBy>>
  <2>1. payments[p] = NoPayment /\ payments' = [payments EXCEPT ![p] = Pending] /\ UNCHANGED acct
    BY <1>2 DEF CreatePayment
  <2>2. \A q \in Payment : payments'[q].operation = payments[q].operation
    BY <2>1, RowValues DEF Inv, TypeOK
  <2> QED
    BY <2>1, <2>2 DEF Balances, PaidBy
<1>3. ASSUME NEW s \in Session, CommitCredit(s), ~UsedElsewhere(s)
      PROVE  Ledger!Next
  <2>1. Settles(s)
    BY <1>3 DEF CommitCredit, At, Settles
  <2>2. /\ Label(s) \in Payment /\ session[s].transfer.op \in Operation
        /\ session[s].transfer.amount \in {t.amount : t \in Transfers}
    BY <2>1, SettledTransfer DEF Inv
  <2> QED
    BY <1>3, <2>2, CommitMaps DEF Ledger!Next
<1>4. ASSUME NEW u \in User, ChangeAccount(u)
      PROVE  Ledger!Next
  <2>1. \A v \in User \ {u} : acct'[v] = acct[v]
    BY <1>4, ChangedAccount
  <2>2. \A v \in User \ {u} : Balances'[v] = Balances[v]
    BY <2>1 DEF Balances
  <2>3. PaidBy' = PaidBy
    BY <1>4 DEF ChangeAccount, PaidBy
  <2> QED
    BY <2>2, <2>3 DEF Ledger!Next, Ledger!Adjust
<1>5. \/ UNCHANGED <<acct, payments>>
      \/ \E p \in Payment : CreatePayment(p)
      \/ \E s \in Session : CommitCredit(s) /\ ~UsedElsewhere(s)
      \/ \E u \in User : ChangeAccount(u)
  BY DEF Next, vars, Transfer, CoolDown, Begin, Proceed, Webhook, SchedulerFinds, PollClaims,
         PollAnswered, LockPayment, CheckOperation, LockUser, CommitCredit, Crash
<1> QED
  BY <1>1, <1>2, <1>3, <1>4, <1>5 DEF Ledger!vars

\* Webhook, poll and scheduler together do what the ledger promises: a payment
\* is credited at most once, in one step with its mark.
THEOREM LedgerImplemented == Spec => ImplementsLedger
<1>1. Init => Ledger!Init
  BY InitMaps
<1>2. Inv /\ Inv' /\ [Next]_vars => [Ledger!Next]_Ledger!vars
  BY NextMaps
<1> QED
  BY <1>1, <1>2, Invariance, PTL DEF Spec, ImplementsLedger, Ledger!Spec
=============================================================================

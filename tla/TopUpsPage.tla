----------------------------- MODULE TopUpsPage -----------------------------
(***************************************************************************)
(* The administrators' journal of payments: filters, a table that sorts by *)
(* one column (DataTable), one row that is expanded, and the list of       *)
(* payments, which is fetched anew while all of these are in use.          *)
(***************************************************************************)
EXTENDS Integers, Sequences, FiniteSets, SequencesExt, FiniteSetsExt

CONSTANTS
  Owner,         \* the users who pay
  MaxJournal     \* bound on the payments

ASSUME TopUpsAssumption == IsFiniteSet(Owner) /\ MaxJournal \in Nat

VARIABLES
  payments,    \* server: the payments, the latest first
  journal,     \* browser: paymentsQuery
  view         \* browser: OperationsView with its filters, its table and the expanded row
topUpsVars == <<payments, journal, view>>

\* received: what was credited, NoAmount until then (null).  The requested amount is left out: it is
\* compared like the time of creation.
NoAmount == -1
Payment == [id: 1..MaxJournal, owner: Owner, status: {"pending", "succeeded"},
            received: {NoAmount} \cup 1..2]
All == "all"
Column == {"created_at", "user_name", "status", "received_amount"}
Unsorted == [column |-> "none", down |-> FALSE]
NewView == [user |-> All, status |-> All, search |-> FALSE, expanded |-> 0,
            sort |-> [column |-> "created_at", down |-> TRUE]]

TopUpsInit ==
  /\ payments = <<>>
  /\ journal = [loaded |-> FALSE, failed |-> FALSE, fetching |-> TRUE, data |-> <<>>]
  /\ view = NewView

-----------------------------------------------------------------------------
(* The server, and the query. *)

CreatePayment(owner) ==
  /\ Len(payments) < MaxJournal
  /\ payments' = <<[id |-> Len(payments) + 1, owner |-> owner, status |-> "pending",
                    received |-> NoAmount]>> \o payments
  /\ UNCHANGED <<journal, view>>
SettlePayment(i, amount) ==
  /\ payments[i].status = "pending"
  /\ payments' = [payments EXCEPT ![i].status = "succeeded", ![i].received = amount]
  /\ UNCHANGED <<journal, view>>

\* The search is abstracted to one text, which the payments of one owner contain.
SearchedOwner == CHOOSE owner \in Owner : TRUE
MatchesPayment(v, p) ==
  /\ v.search => p.owner = SearchedOwner
  /\ v.user \in {All, p.owner} /\ v.status \in {All, p.status}
\* The rows at some indexes, each of them once, and each after those that come before it if
\* that is an order at all.
Ahead(before, i) ==
  {j \in DOMAIN before :
     LET rank(k) == Cardinality(before[k]) IN
     rank(j) < rank(i) \/ (rank(j) = rank(i) /\ j < i)}
Arranged(list, before) ==
  [n \in 1..Cardinality(DOMAIN before) |->
     list[CHOOSE i \in DOMAIN before : Cardinality(Ahead(before, i)) = n - 1]]
FilteredBy(v, list) ==
  LET kept == {i \in DOMAIN list : MatchesPayment(v, list[i])} IN
  Arranged(list, [i \in kept |-> {j \in kept : j < i}])

\* The view is rendered only with payments and without an error, its table only when a
\* payment matches; what is taken off the screen begins anew.
ViewShown(j) == j.loaded /\ ~j.failed /\ j.data # <<>>
Rendered(v, j) ==
  IF ~ViewShown(j) THEN NewView
  ELSE IF FilteredBy(v, j.data) = <<>> THEN [v EXCEPT !.sort = NewView.sort] ELSE v
JournalArrives(ok) ==
  /\ journal.fetching
  /\ journal' = IF ok THEN [loaded |-> TRUE, failed |-> FALSE, fetching |-> FALSE, data |-> payments]
                ELSE [journal EXCEPT !.failed = TRUE, !.fetching = FALSE]
  /\ view' = Rendered(view, journal')
  /\ UNCHANGED payments
FetchJournal ==
  /\ ~journal.fetching /\ journal' = [journal EXCEPT !.fetching = TRUE]
  /\ UNCHANGED <<payments, view>>

-----------------------------------------------------------------------------
(* Filters and sorting. *)

Filtered == FilteredBy(view, journal.data)

\* The options name whoever has payments; the choice is kept when they change.
UserOptions == {All} \cup {journal.data[i].owner : i \in DOMAIN journal.data}
HasActiveFilters == view.search \/ view.user # All \/ view.status # All

OwnerRank == CHOOSE rank \in [Owner -> 1..Cardinality(Owner)] : Range(rank) = 1..Cardinality(Owner)
\* The comparators of the columns.  What is not credited counts as -Infinity; the
\* difference of two of them is NaN, which sort takes for 0.
CompareNumbers(a, b) == IF a < b THEN -1 ELSE IF a > b THEN 1 ELSE 0

\* A mistake in the place of the next: what is not credited comes before everything, also
\* before itself.
CompareMissing(a, b) == IF a = NoAmount THEN -1 ELSE CompareNumbers(a, b)

CompareReceived(a, b) == IF a = NoAmount /\ b = NoAmount THEN 0 ELSE CompareNumbers(a, b)
Compare(column, p, q) ==
  CASE column = "created_at" -> CompareNumbers(p.id, q.id)
    [] column = "user_name" -> CompareNumbers(OwnerRank[p.owner], OwnerRank[q.owner])
    [] column = "status" -> CompareNumbers(IF p.status = "pending" THEN 1 ELSE 0,
                                           IF q.status = "pending" THEN 1 ELSE 0)
    [] column = "received_amount" -> CompareReceived(p.received, q.received)

\* Array.sort is stable: a row comes after those that are less, and equal ones before it.
RowsBefore(rows, i) ==
  {j \in DOMAIN rows :
     LET c == Compare(view.sort.column, rows[j], rows[i]) * (IF view.sort.down THEN -1 ELSE 1) IN
     c < 0 \/ (c = 0 /\ j < i)}
SortedRows(rows) ==
  IF view.sort = Unsorted THEN rows
  ELSE Arranged(rows, [i \in DOMAIN rows |-> RowsBefore(rows, i)])
TableRows == SortedRows(Filtered)

ViewBecomes(v) == ViewShown(journal) /\ view' = Rendered(v, journal) /\ UNCHANGED <<payments, journal>>
\* First descending, then ascending, then the order of the server.
ToggleSort(column) ==
  /\ Filtered # <<>>
  /\ ViewBecomes([view EXCEPT !.sort =
       IF @.column # column THEN [column |-> column, down |-> TRUE]
       ELSE IF @.down THEN [@ EXCEPT !.down = FALSE] ELSE Unsorted])
ChooseUser(user) == user \in UserOptions /\ ViewBecomes([view EXCEPT !.user = user])
ChooseStatus(status) == ViewBecomes([view EXCEPT !.status = status])
Search(on) == ViewBecomes([view EXCEPT !.search = on])
ResetFilters ==
  HasActiveFilters /\ ViewBecomes([view EXCEPT !.user = All, !.status = All, !.search = FALSE])
\* The button of a row.
ExpandRow(i) ==
  /\ i \in DOMAIN Filtered
  /\ ViewBecomes([view EXCEPT !.expanded = IF @ = Filtered[i].id THEN 0 ELSE Filtered[i].id])

TopUpsNext ==
  \/ FetchJournal \/ ResetFilters
  \/ \E ok \in BOOLEAN : JournalArrives(ok)
  \/ \E owner \in Owner : CreatePayment(owner)
  \/ \E i \in DOMAIN payments, amount \in 1..2 : SettlePayment(i, amount)
  \/ \E column \in Column : ToggleSort(column)
  \/ \E user \in UserOptions : ChooseUser(user)
  \/ \E status \in {All, "pending", "succeeded"} : ChooseStatus(status)
  \/ \E on \in BOOLEAN : Search(on)
  \/ \E i \in 1..MaxJournal : ExpandRow(i)

TopUpsSpec == TopUpsInit /\ [][TopUpsNext]_topUpsVars

-----------------------------------------------------------------------------
(* Properties. *)

TopUpsTypeOK ==
  /\ payments \in Seq(Payment) /\ journal.data \in Seq(Payment)
  /\ view.user \in Owner \cup {All} /\ view.status \in {All, "pending", "succeeded"}
  /\ view.expanded \in 0..MaxJournal /\ view.sort.column \in Column \cup {"none"}

\* Whatever column is sorted by, and however often: the table has every payment that
\* matches exactly once, and no later row belongs before an earlier one; an empty table
\* can always be got rid of by resetting the filters.
TableComplete ==
  LET table == TableRows
      filtered == Filtered IN
  ViewShown(journal) =>
    /\ Len(table) = Len(filtered) /\ ToSet(table) = ToSet(filtered)
    /\ view.sort # Unsorted => \A i, j \in DOMAIN table : i < j =>
         Compare(view.sort.column, table[j], table[i]) * (IF view.sort.down THEN -1 ELSE 1) >= 0
    /\ filtered = <<>> => HasActiveFilters
=============================================================================

------------------------------ MODULE Histories -----------------------------
(***************************************************************************)
(* The dialogs that show what was charged and paid, month by month: of a   *)
(* user (charges, top-ups; opened by the user or from the table of the     *)
(* administrator) and of a tariff plan (billing runs).  Meanwhile billing  *)
(* writes, also late and into days that have passed.                       *)
(***************************************************************************)
EXTENDS Integers, Sequences, FiniteSets, FiniteSetsExt, SequencesExt

CONSTANTS
  HistoryDays,     \* the days are 1..HistoryDays
  DaysPerMonth,
  Amount,          \* kopecks
  MaxEntries       \* bound on the entries

ASSUME HistoryAssumption ==
  HistoryDays \in Nat /\ DaysPerMonth \in Nat \ {0} /\ Amount \subseteq Int

VARIABLES
  entries,    \* server: what was charged, paid, billed
  history     \* browser: the dialog
historyVars == <<entries, history>>

HistoryKind == {"charges", "top-ups", "runs"}
ChargeKind == {"tarification", "additional_profiles"}
\* A charge is stamped with the midnight of its day in Moscow, in UTC; other entries with
\* any time of their day.
Stamp(day, hour) == 24 * day + hour - 3
EntryOf(kind) == [at: {Stamp(d, IF kind = "top-ups" THEN 12 ELSE 0) : d \in 1..HistoryDays},
                  kind: IF kind = "charges" THEN ChargeKind ELSE {kind},
                  amount: Amount]

NotOpen == [kind |-> "closed", mode |-> "self", total |-> 0, loaded |-> FALSE, failed |-> FALSE,
            fetching |-> FALSE, data |-> {}, group |-> "default"]
HistoryInit == entries = {} /\ history = NotOpen

SumOf(set) == MapThenSumSet(LAMBDA e : e.amount, set)

\* One charge of a kind and day (uq_user_daily_charges_user_created_kind), one run of a day.
Write(kind) ==
  /\ history.kind \in {kind, "closed"}
  /\ entries \subseteq EntryOf(kind) /\ Cardinality(entries) < MaxEntries
  /\ \E e \in EntryOf(kind) :
       /\ \A f \in entries : f.at # e.at \/ f.kind # e.kind
       /\ entries' = entries \cup {e}
  /\ UNCHANGED history

\* The administrator's dialog is given the total of the table of users, which was fetched
\* earlier, with fewer entries; the others count.
OpenHistory(kind, mode) ==
  /\ history = NotOpen /\ entries \subseteq EntryOf(kind)
  /\ \E earlier \in SUBSET entries :
       history' = [NotOpen EXCEPT !.kind = kind, !.mode = mode, !.fetching = TRUE,
                     !.total = IF mode = "admin" THEN SumOf(earlier) ELSE 0]
  /\ UNCHANGED entries
CloseHistory ==
  /\ history # NotOpen /\ history' = NotOpen /\ UNCHANGED entries
\* An error takes the groups off the screen, and what was expanded is forgotten.
HistoryArrives(ok) ==
  /\ history.fetching
  /\ history' = IF ok THEN [history EXCEPT !.fetching = FALSE, !.loaded = TRUE, !.failed = FALSE,
                                           !.data = entries]
                ELSE [history EXCEPT !.fetching = FALSE, !.failed = TRUE, !.group = "default"]
  /\ UNCHANGED entries
FetchHistory ==
  /\ history # NotOpen /\ ~history.fetching
  /\ history' = [history EXCEPT !.fetching = TRUE]
  /\ UNCHANGED entries

-----------------------------------------------------------------------------
(* What is shown. *)

\* getDayKey, getMonthKey: by the calendar of Moscow.
DayKey(e) == (e.at + 3) \div 24

\* A mistake in the place of the next: the month of the time stamp, which is in UTC.
MonthKeyUtc(e) == (e.at \div 24 - 1) \div DaysPerMonth

MonthKey(e) == (DayKey(e) - 1) \div DaysPerMonth

\* Charges: the latest day first, the additional profiles before the share of that day;
\* the others in the order of the server, the latest first.
Before(e, f) ==
  \/ DayKey(e) > DayKey(f)
  \/ DayKey(e) = DayKey(f) /\ e.kind # f.kind /\ e.kind = "additional_profiles"
  \/ DayKey(e) = DayKey(f) /\ e.kind = f.kind /\ e.at > f.at
Ordered(data) ==
  [n \in 1..Cardinality(data) |->
     CHOOSE e \in data : Cardinality({f \in data : Before(f, e)}) = n - 1]

\* A group for each month, in the order in which the months appear, and its rows in the
\* order of the whole.
Months(list) == [i \in DOMAIN list |-> MonthKey(list[i])]
GroupKeys(list) ==
  LET keys == Months(list)
      first == {i \in DOMAIN keys : \A j \in 1..(i - 1) : keys[j] # keys[i]} IN
  [n \in 1..Cardinality(first) |->
     keys[CHOOSE i \in first : Cardinality({j \in first : j <= i}) = n]]
Groups(data) ==
  LET list == Ordered(data)
      keys == GroupKeys(list) IN
  [n \in DOMAIN keys |->
     LET rows == Ordered({e \in data : MonthKey(e) = keys[n]}) IN
     [key |-> keys[n], rows |-> rows,
      total |-> FoldLeft(LAMBDA sum, e : sum + e.amount, 0, rows)]]

\* The total of the heading: the one handed over, or the sum of what was fetched.
HistoryTotal == IF history.mode = "admin" THEN history.total ELSE SumOf(history.data)

\* The first group is expanded until the user says otherwise; a month that was chosen stays
\* chosen when the data is fetched anew.
Expanded ==
  IF history.group = "default"
    THEN IF history.data = {} THEN "none" ELSE ToString(Groups(history.data)[1].key)
    ELSE history.group
Toggle(key) ==
  /\ history.loaded /\ ~history.failed
  /\ \E n \in DOMAIN Groups(history.data) : Groups(history.data)[n].key = key
  /\ history' = [history EXCEPT !.group = IF Expanded = ToString(key) THEN "none" ELSE ToString(key)]
  /\ UNCHANGED entries

HistoryNext ==
  \/ CloseHistory \/ FetchHistory
  \/ \E kind \in HistoryKind : Write(kind) \/ \E mode \in {"self", "admin"} : OpenHistory(kind, mode)
  \/ \E ok \in BOOLEAN : HistoryArrives(ok)
  \/ \E key \in 0..HistoryDays : Toggle(key)

\* The histories on their own.
HistorySpec == HistoryInit /\ [][HistoryNext]_historyVars

-----------------------------------------------------------------------------
(* Properties. *)

HistoryTypeOK ==
  /\ history.kind \in HistoryKind \cup {"closed"} /\ history.mode \in {"self", "admin"}
  /\ history.data \subseteq UNION {EntryOf(kind) : kind \in HistoryKind}
  /\ history.group \in {"default", "none"} \cup {ToString(m) : m \in 0..HistoryDays}

\* Every entry is in exactly one group, that of the month of its day in Moscow, latest
\* first; and the groups add up to the total in the heading - which the administrator's
\* dialog takes from the table, so that it must have been fetched at the same time.
HistoryAddsUp ==
  LET groups == Groups(history.data)
      rows == FlattenSeq([n \in DOMAIN groups |-> groups[n].rows]) IN
  history.loaded =>
    /\ Len(rows) = Cardinality(history.data) /\ ToSet(rows) = history.data
    /\ \A n \in DOMAIN groups, d \in 1..HistoryDays : \A i \in DOMAIN groups[n].rows :
         groups[n].rows[i].at \in {Stamp(d, 0), Stamp(d, 12)} => groups[n].key = (d - 1) \div DaysPerMonth
    /\ \A m, n \in DOMAIN groups : m < n => groups[m].key > groups[n].key
    /\ (history.mode = "admin" => history.total = SumOf(history.data)) =>
         FoldLeft(LAMBDA sum, g : sum + g.total, 0, groups) = HistoryTotal
=============================================================================

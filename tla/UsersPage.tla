------------------------------ MODULE UsersPage ------------------------------
(***************************************************************************)
(* The administrators' page of users: the list, the dialogs that create,   *)
(* edit and delete a user or reset a password, and their requests.         *)
(* A dialog may be closed while its request runs, and another one opened.  *)
(***************************************************************************)
EXTENDS Integers, FiniteSets

CONSTANTS
  Person,         \* the users there may be
  Admin,          \* the administrator at this page
  MaxBalance,     \* bound on the balances
  MaxSubmits,     \* bound on the requests the administrator sends
  MaxChanges      \* bound on payments, lost requests and refetches by focus

ASSUME UsersPageAssumption ==
  Admin \in Person /\ MaxBalance \in Nat /\ MaxSubmits \in Nat /\ MaxChanges \in Nat

VARIABLES
  rows,       \* server: the users
  visit,      \* browser: the page is on the screen; server: the session of its administrator
              \* is valid
  list,       \* browser: usersQuery
  dialog,     \* browser: the dialog that is open
  calls,      \* the mutations that are running
  spent       \* what the bounds count
usersVars == <<rows, visit, list, dialog, calls, spent>>

NoRow == [balance |-> 0, status |-> "gone"]
\* The status is any the administrator chooses ("active"), or the block the financial rules add.
Row == [balance: 0..MaxBalance, status: {"active", "blocked"}]
NewRow == [balance |-> 0, status |-> "active"]
NoList == <<>>

Kind == {"create", "edit", "reset", "delete"}
Closed == [kind |-> "closed", user |-> Admin, row |-> NoRow, busy |-> 0]
Slot == 1..2
Free == [phase |-> "free"]
\* row: what the form sends; typed: whether its balance was changed in the form.
Running(k, p, r, t) == [phase |-> "sent", kind |-> k, user |-> p, row |-> r, typed |-> t]

UsersInit ==
  /\ \E there \in SUBSET Person : /\ Admin \in there
                                  /\ rows = [p \in Person |-> IF p \in there THEN NewRow ELSE NoRow]
  /\ visit \in [shown: BOOLEAN, session: {TRUE}]
  /\ list = [data |-> NoList, failed |-> FALSE, fetch |-> "sent", snapshot |-> NoList, behind |-> FALSE]
  /\ dialog = Closed
  /\ calls = [i \in Slot |-> Free]
  /\ spent = [submits |-> 0, changes |-> 0]

Spends == spent.changes < MaxChanges /\ spent' = [spent EXCEPT !.changes = @ + 1]

-----------------------------------------------------------------------------
(* The list. *)

ListFails == list' = [list EXCEPT !.fetch = "idle", !.failed = TRUE, !.snapshot = NoList]

\* get_users answers with the rows of that moment, or refuses the session.
ServeList ==
  /\ list.fetch = "sent"
  /\ \/ visit.session
        /\ list' = [list EXCEPT !.fetch = "answered", !.snapshot = rows, !.behind = FALSE]
     \/ ~visit.session /\ ListFails
  /\ UNCHANGED <<rows, visit, dialog, calls, spent>>
ListArrives ==
  /\ list.fetch = "answered"
  /\ list' = [list EXCEPT !.fetch = "idle", !.data = list.snapshot, !.failed = FALSE,
                          !.snapshot = NoList]
  /\ UNCHANGED <<rows, visit, dialog, calls, spent>>
ListLost ==
  /\ list.fetch # "idle" /\ Spends /\ ListFails
  /\ UNCHANGED <<rows, visit, dialog, calls>>
\* The button after a failure, and the focus of the window when the list is stale.
RetryList ==
  /\ visit.shown /\ list.fetch = "idle"
  /\ \/ list.failed /\ UNCHANGED spent
     \/ ~list.failed /\ Spends
  /\ list' = [list EXCEPT !.fetch = "sent"]
  /\ UNCHANGED <<rows, visit, dialog, calls>>

\* invalidateQueries: a fetch that runs is cancelled in favour of a new one, but the
\* very first one is left to finish, whatever it has read.
Invalidated ==
  IF list.data # NoList \/ list.fetch = "idle"
    THEN [list EXCEPT !.fetch = "sent", !.snapshot = NoList]
    ELSE [list EXCEPT !.behind = (list.fetch = "answered")]

-----------------------------------------------------------------------------
(* The dialogs. *)

\* The table is shown only without an error; its buttons hand over the row of the list.
Shown(p) == list.data # NoList /\ ~list.failed /\ list.data[p] # NoRow
Opens(k, p, r) ==
  /\ visit.shown /\ dialog = Closed
  /\ dialog' = [Closed EXCEPT !.kind = k, !.user = p, !.row = r]
  /\ UNCHANGED <<rows, visit, list, calls, spent>>

\* The button in the heading does not wait for the list.
OpenCreate == Opens("create", Admin, NewRow)
OpenEdit(p) == Shown(p) /\ Opens("edit", p, list.data[p])
OpenReset(p) == Shown(p) /\ Opens("reset", p, NoRow)
OpenDelete(p) == Shown(p) /\ p # Admin /\ Opens("delete", p, NoRow)

\* Escape, the cross and the backdrop also while the request runs; the form is discarded.
CloseDialog ==
  /\ dialog # Closed /\ dialog' = Closed
  /\ UNCHANGED <<rows, visit, list, calls, spent>>

Submits(p, r, t) ==
  /\ dialog.busy = 0
  /\ spent.submits < MaxSubmits /\ spent' = [spent EXCEPT !.submits = @ + 1]
  /\ \E i \in Slot :
       /\ calls[i] = Free /\ \A j \in Slot : j < i => calls[j] # Free
       /\ calls' = [calls EXCEPT ![i] = Running(dialog.kind, p, r, t)]
       /\ dialog' = [dialog EXCEPT !.busy = i]
  /\ UNCHANGED <<rows, visit, list>>

\* A new user gets an id of its own.
SaveCreate == dialog.kind = "create" /\ Submits(Admin, NewRow, TRUE)
\* defaults(user): the form holds every field of the row it was opened with, and sends
\* all of them, whatever the administrator has changed.
SaveEdit ==
  /\ dialog.kind = "edit"
  /\ \E row \in Row : Submits(dialog.user, row, row.balance # dialog.row.balance)
SavePassword == dialog.kind = "reset" /\ Submits(dialog.user, NoRow, FALSE)
ConfirmDelete == dialog.kind = "delete" /\ Submits(dialog.user, NoRow, FALSE)

-----------------------------------------------------------------------------
(* The requests. *)

Answered(i, ok) ==
  calls' = [calls EXCEPT ![i] = [phase |-> IF ok THEN "succeeded" ELSE "failed",
                                 kind |-> @.kind, user |-> @.user]]

\* An administrator who resets the own password.
OwnReset(i) == calls[i].kind = "reset" /\ calls[i].user = Admin

\* What the server does; the financial rules may add a block to an edit (Accounts).  A new
\* password ends all sessions of its user, and nothing is served to a session that has ended.
Serve(i) ==
  /\ calls[i].phase = "sent"
  /\ LET c == calls[i]
         known == visit.session /\ rows[c.user] # NoRow IN
     \/ /\ c.kind = "create" /\ visit.session
        /\ \E p \in Person : /\ rows[p] = NoRow
                             /\ rows' = [rows EXCEPT ![p] = c.row]
        /\ Answered(i, TRUE)
     \/ /\ c.kind = "edit" /\ known
        /\ \E s \in {c.row.status, "blocked"} :
             /\ rows' = [rows EXCEPT ![c.user] = [c.row EXCEPT !.status = s]]
             /\ Answered(i, TRUE)
     \/ /\ c.kind = "delete" /\ known /\ c.user # Admin
        /\ rows' = [rows EXCEPT ![c.user] = NoRow] /\ Answered(i, TRUE)
     \/ /\ c.kind = "reset" /\ known
        /\ Answered(i, TRUE) /\ UNCHANGED rows
     \/ /\ c.kind = "create" \/ ~known           \* the name is taken; no such user
        /\ Answered(i, FALSE) /\ UNCHANGED rows
  /\ visit' = [visit EXCEPT !.session = @ /\ ~OwnReset(i)]
  /\ UNCHANGED <<list, dialog, spent>>

\* The request, or its answer, is lost: what has happened is not refreshed.
LoseCall(i) ==
  /\ calls[i].phase \in {"sent", "succeeded"} /\ Spends
  /\ Answered(i, FALSE)
  /\ list' = [list EXCEPT !.behind = @ \/ calls[i].phase = "succeeded"]
  /\ UNCHANGED <<rows, visit, dialog>>

\* A mistake in the place of the next: the dialog closes but still counts as submitting.
ClosesBusy(k) ==
  dialog' = IF dialog.kind = k THEN [Closed EXCEPT !.busy = dialog.busy] ELSE dialog

\* The continuation of the save closes whatever dialog of its kind is open by now.
Closes(k) == dialog' = IF dialog.kind = k THEN Closed ELSE dialog
Done(i) == calls' = [calls EXCEPT ![i] = Free]

\* A mistake in the place of the next: the deletion does not refresh the list.
RefreshesSaves(i) ==
  /\ calls[i].phase = "succeeded" /\ calls[i].kind # "reset"
  /\ calls' = [calls EXCEPT ![i].phase = "refreshing"]
  /\ list' = IF calls[i].kind = "delete" THEN list ELSE Invalidated
  /\ UNCHANGED <<rows, visit, dialog, spent>>

\* onSuccess: the list is refreshed and waited for.  An edit of the own account is also
\* taken over by the store (Browser, SetUser).
Refreshes(i) ==
  /\ calls[i].phase = "succeeded" /\ calls[i].kind # "reset"
  /\ calls' = [calls EXCEPT ![i].phase = "refreshing"]
  /\ list' = Invalidated
  /\ UNCHANGED <<rows, visit, dialog, spent>>
Refreshed(i) ==
  /\ calls[i].phase = "refreshing" /\ list.fetch = "idle"
  /\ Closes(calls[i].kind) /\ Done(i)
  /\ UNCHANGED <<rows, visit, list, spent>>
\* The dialog closes; whoever has reset the own password is signed out, and waits for it.
PasswordReset(i) ==
  /\ calls[i].phase = "succeeded" /\ calls[i].kind = "reset"
  /\ Closes("reset")
  /\ IF OwnReset(i) THEN calls' = [calls EXCEPT ![i].phase = "leaving"] ELSE Done(i)
  /\ UNCHANGED <<rows, visit, list, spent>>
\* The page is left when the logout has an answer or none (useUserStore.logout, finally).
SignedOut(i) ==
  /\ calls[i].phase = "leaving" /\ Done(i)
  /\ visit' = [visit EXCEPT !.shown = FALSE] /\ dialog' = Closed
  /\ UNCHANGED <<rows, list, spent>>

\* A mistake in the place of the next: the form is not told that its request has failed.
FailsSilently(i) ==
  /\ calls[i].phase = "failed" /\ Done(i)
  /\ UNCHANGED <<rows, visit, list, dialog, spent>>

\* The error is shown by the form that waits for it; a form that is gone shows nothing.
Fails(i) ==
  /\ calls[i].phase = "failed" /\ Done(i)
  /\ dialog' = IF dialog.busy = i THEN [dialog EXCEPT !.busy = 0] ELSE dialog
  /\ UNCHANGED <<rows, visit, list, spent>>

\* Payments are credited, other administrators delete.
ChangedElsewhere(p) ==
  /\ rows[p] # NoRow /\ Spends
  /\ \/ rows[p].balance < MaxBalance /\ rows' = [rows EXCEPT ![p].balance = @ + 1]
     \/ p # Admin /\ rows' = [rows EXCEPT ![p] = NoRow]
  /\ list' = [list EXCEPT !.behind = TRUE]
  /\ UNCHANGED <<visit, dialog, calls>>

UsersNext ==
  /\ visit.shown
  /\ \/ ServeList \/ ListArrives \/ ListLost \/ RetryList
     \/ OpenCreate \/ CloseDialog \/ SaveCreate \/ SaveEdit \/ SavePassword \/ ConfirmDelete
     \/ \E p \in Person : \/ OpenEdit(p) \/ OpenReset(p) \/ OpenDelete(p) \/ ChangedElsewhere(p)
     \/ \E i \in Slot : \/ Serve(i) \/ LoseCall(i) \/ Refreshes(i) \/ Refreshed(i)
                        \/ PasswordReset(i) \/ SignedOut(i) \/ Fails(i)

UsersSpec == UsersInit /\ [][UsersNext]_usersVars

\* The server answers or ky times out, and what has arrived is processed: a save that waits
\* for the list goes on when its fetch has ended, before anybody can fetch again.
UsersFairness ==
  /\ WF_usersVars(visit.shown /\ ServeList) /\ WF_usersVars(visit.shown /\ ListArrives)
  /\ \A i \in Slot :
       /\ WF_usersVars(visit.shown /\ Serve(i)) /\ WF_usersVars(visit.shown /\ Refreshes(i))
       /\ SF_usersVars(visit.shown /\ Refreshed(i)) /\ WF_usersVars(visit.shown /\ PasswordReset(i))
       /\ WF_usersVars(visit.shown /\ SignedOut(i)) /\ WF_usersVars(visit.shown /\ Fails(i))

-----------------------------------------------------------------------------
(* Properties. *)

UsersTypeOK ==
  /\ rows \in [Person -> Row \cup {NoRow}]
  /\ visit \in [shown: BOOLEAN, session: BOOLEAN]
  /\ list \in [data: [Person -> Row \cup {NoRow}] \cup {NoList}, failed: BOOLEAN,
               fetch: {"idle", "sent", "answered"},
               snapshot: [Person -> Row \cup {NoRow}] \cup {NoList}, behind: BOOLEAN]
  /\ dialog.kind \in Kind \cup {"closed"} /\ dialog.user \in Person
  /\ dialog.busy \in {0} \cup {i \in Slot : calls[i] # Free /\ calls[i].kind = dialog.kind}
  /\ \A i \in Slot : calls[i] = Free \/
       /\ calls[i].phase \in {"sent", "succeeded", "failed", "refreshing", "leaving"}
       /\ calls[i].kind \in Kind /\ calls[i].user \in Person

\* When nothing runs the list shows what the server has: every save, however it overlaps
\* with others and with fetches, is followed by a fetch that has seen it.  Excused are
\* changes by others, a save whose answer was lost, a fetch that failed, and a save that
\* ended between the answer of the very first fetch and its arrival.
ListShowsSaves ==
  /\ visit.shown /\ list.fetch = "idle" /\ ~list.failed /\ ~list.behind
  /\ \A i \in Slot : calls[i] = Free
  => list.data = rows

\* A dialog that waits for its request gets an answer: it is closed, or shows an error
\* and can be used again.
DialogsComeBack == dialog.busy # 0 ~> dialog.busy = 0

\* An administrator who has not touched the balance in the form does not change it: a
\* payment that is credited while the form is open stays credited.
UntouchedBalanceStays ==
  [][\A i \in Slot :
       /\ calls[i].phase = "sent" /\ calls[i].kind = "edit" /\ ~calls[i].typed
       /\ calls'[i].phase = "succeeded"
       => rows'[calls[i].user].balance = rows[calls[i].user].balance]_usersVars
=============================================================================

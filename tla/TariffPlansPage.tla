--------------------------- MODULE TariffPlansPage --------------------------
(***************************************************************************)
(* The administrators' page of tariff plans against the table of plans of  *)
(* the server.  The form previews the end the schedule will give the plan, *)
(* and checks its start, from the list the page has loaded; meanwhile      *)
(* others change the schedule and midnight passes.                         *)
(***************************************************************************)
EXTENDS Integers, FiniteSets, Tariffs

CONSTANTS
  Monthly,        \* the monthly amounts, in kopecks
  LastDay,        \* the days are 1..LastDay
  MaxSaves        \* bound on the changes of the schedule

ASSUME PlansAssumption ==
  Monthly \subseteq Nat /\ LastDay \in Nat /\ LastDay >= 2 /\ MaxSaves \in Nat

VARIABLES
  plans,      \* server: the schedule
  today,      \* the date in Moscow
  planList,   \* browser: plansQuery
  form,       \* browser: the dialog, its plan and the values of its fields
  save,       \* the mutation that runs
  saves       \* what the bound counts
plansVars == <<plans, today, planList, form, save, saves>>

Day == 1..LastDay
NoDate == 0
NotLoaded == [loaded |-> FALSE, failed |-> FALSE, plans |-> NoPlans, fetching |-> TRUE]
NoForm == [kind |-> "closed", plan |-> NoPlan, start |-> NoDate, monthly |-> 0, minimum |-> NoDate]
NoSave == [phase |-> "none"]

PlansInit ==
  /\ plans = NoPlans
  /\ today = 2
  /\ planList = [NotLoaded EXCEPT !.fetching = FALSE]
  /\ form = NoForm /\ save = NoSave /\ saves = 0

-----------------------------------------------------------------------------
(* The list. *)

\* Without any plan in the list every start is allowed, also in the past.
MinimumStart(table) == IF DOMAIN table = {} THEN NoDate ELSE today + 1

\* What arrives renders the form anew as well.
PlansArrive(ok) ==
  /\ planList.fetching
  /\ planList' = IF ok THEN [loaded |-> TRUE, failed |-> FALSE, plans |-> plans, fetching |-> FALSE]
                 ELSE [planList EXCEPT !.failed = TRUE, !.fetching = FALSE]
  /\ form' = IF form = NoForm THEN form ELSE [form EXCEPT !.minimum = MinimumStart(planList'.plans)]
  /\ UNCHANGED <<plans, today, save, saves>>
\* The page is opened, the button after a failure, the focus of the window.
FetchPlans ==
  /\ ~planList.fetching /\ planList' = [planList EXCEPT !.fetching = TRUE]
  /\ UNCHANGED <<plans, today, form, save, saves>>

-----------------------------------------------------------------------------
(* The form. *)

FormAllows(f) == f.start # NoDate /\ f.monthly > 0 /\ f.start >= f.minimum

\* A mistake in the place of the next: the plan that is edited is not left out.
PreviewWithItself(start, table, editing) ==
  LET next == {table[p].start : p \in {q \in DOMAIN table : table[q].start > start}} IN
  IF next = {} THEN OpenEnded ELSE (CHOOSE s \in next : \A r \in next : s <= r) - 1

\* getPreviewEndDate: the day before the next start of another plan.
PreviewEndDate(start, table, editing) ==
  LET next == {table[p].start : p \in {q \in DOMAIN table : q # editing /\ table[q].start > start}} IN
  IF next = {} THEN OpenEnded ELSE (CHOOSE s \in next : \A r \in next : s <= r) - 1

OpenForm(kind, p, start, monthly) ==
  /\ form = NoForm
  /\ form' = [kind |-> kind, plan |-> p, start |-> start, monthly |-> monthly, minimum |-> MinimumStart(planList.plans)]
  /\ UNCHANGED <<plans, today, planList, save, saves>>

\* The button above the table is there also while the list is loading, or has failed.
OpenPlanCreate == OpenForm("create", NoPlan, NoDate, 0)
\* is_editable is of the moment of the fetch.
Editable(p) == ~planList.failed /\ p \in DOMAIN planList.plans
OpenPlanEdit(p) ==
  Editable(p) /\ OpenForm("edit", p, planList.plans[p].start, planList.plans[p].monthly)
OpenPlanDelete(p) == Editable(p) /\ OpenForm("delete", p, NoDate, 0)

\* Typing renders the form, with the minimum of that moment; it may go on while the
\* form is submitting.
TypePlan(start, monthly) ==
  /\ form.kind \in {"create", "edit"}
  /\ form' = [form EXCEPT !.start = start, !.monthly = monthly, !.minimum = MinimumStart(planList.plans)]
  /\ UNCHANGED <<plans, today, planList, save, saves>>
ClosePlanForm ==
  /\ form # NoForm /\ form' = NoForm
  /\ UNCHANGED <<plans, today, planList, save, saves>>

\* The requests of this page are followed one at a time, although a form that was closed
\* with its request running may be opened again.
SubmitPlan ==
  /\ save = NoSave /\ form.kind # "closed"
  /\ form.kind = "delete" \/ FormAllows(form)
  /\ save' = [phase |-> "sent", form |-> form]
  /\ UNCHANGED <<plans, today, planList, form, saves>>

-----------------------------------------------------------------------------
(* The server, and others. *)

Changes == saves < MaxSaves /\ saves' = saves + 1
\* What the handlers make of the table; Tariffs says what they accept.
Creates(id, f) == MayCreatePlan(plans, f.start, today) /\ id \notin DOMAIN plans
                  /\ plans' = CreatedPlan(plans, id, f.start, f.monthly)
Updates(f) == f.plan \in DOMAIN plans /\ MayUpdatePlan(plans, f.plan, f.start, today)
              /\ plans' = UpdatedPlan(plans, f.plan, f.start, f.monthly)
Deletes(f) == f.plan \in DOMAIN plans /\ MayDeletePlan(plans, f.plan, today)
              /\ plans' = DeletedPlan(plans, f.plan)
PlanSaved ==
  /\ save.phase = "sent" /\ Changes
  /\ LET f == save.form IN
     \/ f.kind = "create" /\ \E id \in PlanId : Creates(id, f)
     \/ f.kind = "edit" /\ Updates(f)
     \/ f.kind = "delete" /\ Deletes(f)
  /\ save' = [phase |-> "saved", form |-> save.form]
  /\ UNCHANGED <<today, planList, form>>
\* Refused, or the answer is lost: the form shows the error and stays.
PlanRefused ==
  /\ save.phase \in {"sent", "saved"} /\ save' = NoSave
  /\ UNCHANGED <<plans, today, planList, form, saves>>

\* onSuccess: the list is fetched anew; when it has arrived the dialog of that kind closes.
RefreshPlans ==
  /\ save.phase = "saved"
  /\ save' = [save EXCEPT !.phase = "refreshing"]
  /\ planList' = [planList EXCEPT !.fetching = TRUE]
  /\ UNCHANGED <<plans, today, form, saves>>
PlanDone ==
  /\ save.phase = "refreshing" /\ ~planList.fetching
  /\ save' = NoSave
  /\ form' = IF form.kind = save.form.kind THEN NoForm ELSE form
  /\ UNCHANGED <<plans, today, planList, saves>>

OtherAdmin ==
  /\ Changes
  /\ \/ \E id \in PlanId, start \in Day, monthly \in Monthly :
          Creates(id, [start |-> start, monthly |-> monthly])
     \/ \E p \in DOMAIN plans : Deletes([plan |-> p])
  /\ UNCHANGED <<today, planList, form, save>>
PlansMidnight ==
  /\ today < LastDay /\ today' = today + 1
  /\ UNCHANGED <<plans, planList, form, save, saves>>

PlansNext ==
  \/ FetchPlans \/ OpenPlanCreate \/ ClosePlanForm \/ SubmitPlan
  \/ PlanSaved \/ PlanRefused \/ RefreshPlans \/ PlanDone \/ OtherAdmin \/ PlansMidnight
  \/ \E ok \in BOOLEAN : PlansArrive(ok)
  \/ \E p \in PlanId : OpenPlanEdit(p) \/ OpenPlanDelete(p)
  \/ \E start \in Day, monthly \in Monthly : TypePlan(start, monthly)

PlansSpec == PlansInit /\ [][PlansNext]_plansVars

-----------------------------------------------------------------------------
(* Properties. *)

PlansTypeOK ==
  /\ IsPlanTable(plans) /\ IsPlanTable(planList.plans)
  /\ today \in Day
  /\ form.start \in Day \cup {NoDate} /\ save.phase \in {"none", "sent", "saved", "refreshing"}
  /\ saves \in 0..MaxSaves

\* The end the form has shown is the end the schedule gives the plan, if nobody has changed
\* the schedule since the list was loaded: two programs compute it on their own.
EndAsPreviewed ==
  /\ save.phase = "sent" /\ save'.phase = "saved" /\ save.form.kind \in {"create", "edit"}
  /\ planList.loaded /\ planList.plans = plans
  => \E p \in DOMAIN plans' :
       /\ p = save.form.plan \/ p \notin DOMAIN plans
       /\ plans'[p].end = PreviewEndDate(save.form.start, planList.plans, save.form.plan)
PreviewKept == [][EndAsPreviewed]_plansVars
=============================================================================

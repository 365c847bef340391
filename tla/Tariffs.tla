------------------------------ MODULE Tariffs -------------------------------
(***************************************************************************)
(* The table of tariff plans (src/backend/app/tariff_plans/service.py): a  *)
(* function from the ids of the plans that exist to their rows.            *)
(***************************************************************************)
EXTENDS Integers

CONSTANTS PlanId, NoPlan
ASSUME NoPlanAssumption == NoPlan \notin PlanId

OpenEnded == -1                 \* end_date IS NULL

Plan == [start : Nat, end : Int, monthly : Nat]
IsPlanTable(t) == DOMAIN t \subseteq PlanId /\ t \in [DOMAIN t -> Plan]

NoPlans == [p \in {} |-> [start |-> 0, end |-> OpenEnded, monthly |-> 0]]

\* TariffPlan.start_date <= day AND (end_date IS NULL OR end_date >= day)
Covers(row, day) == row.start <= day /\ (row.end = OpenEnded \/ row.end >= day)

\* ORDER BY start_date DESC LIMIT 1
PlanForDate(plans, day) ==
  LET covering == {p \in DOMAIN plans : Covers(plans[p], day)}
      last     == {p \in covering : \A q \in covering : plans[q].start <= plans[p].start}
  IN  IF last = {} THEN NoPlan ELSE CHOOSE p \in last : TRUE

\* The starts that follow, the first of them, and the end before it.
EndBefore(starts, start) ==
  LET following == {s \in starts : s > start}
      next      == {s \in following : \A r \in following : s <= r}
  IN  IF next = {} THEN OpenEnded ELSE (CHOOSE s \in next : TRUE) - 1

RebuildPeriods(plans) ==
  LET starts == {plans[p].start : p \in DOMAIN plans}
  IN  [p \in DOMAIN plans |->
         [plans[p] EXCEPT !.end = EndBefore(starts, plans[p].start)]]

-----------------------------------------------------------------------------
(* The guards and the effects of the three handlers on the locked table,   *)
(* given the Moscow date they read after taking the lock.                  *)

StartIsTaken(plans, others, start) == \E p \in others : plans[p].start = start

MayCreatePlan(plans, start, today) ==
  /\ DOMAIN plans = {} \/ start > today
  /\ ~StartIsTaken(plans, DOMAIN plans, start)

CreatedPlan(plans, id, start, monthly) ==
  RebuildPeriods([p \in DOMAIN plans \union {id} |->
     IF p = id THEN [start |-> start, end |-> OpenEnded, monthly |-> monthly]
     ELSE plans[p]])

MayUpdatePlan(plans, id, start, today) ==
  /\ plans[id].start > today
  /\ \/ start = plans[id].start
     \/ start > today /\ ~StartIsTaken(plans, DOMAIN plans \ {id}, start)

UpdatedPlan(plans, id, start, monthly) ==
  RebuildPeriods([plans EXCEPT ![id].start = start, ![id].monthly = monthly])

MayDeletePlan(plans, id, today) == plans[id].start > today

DeletedPlan(plans, id) == RebuildPeriods([p \in DOMAIN plans \ {id} |-> plans[p]])
=============================================================================

--------------------------- MODULE TariffsProofs ----------------------------
(***************************************************************************)
(* Lemmas about the table of tariff plans: the handlers keep it a table,   *)
(* the plan in force on a day is one that covers it, and the handlers keep *)
(* the periods of the plans without a gap and without an overlap.          *)
(***************************************************************************)
EXTENDS Tariffs, TLAPS, WellFoundedInduction

\* The plan of a date covers it; there is none when no plan does.
LEMMA PlanForDateCovers ==
  ASSUME NEW plans, IsPlanTable(plans), NEW day \in Int, PlanForDate(plans, day) # NoPlan
  PROVE  LET p == PlanForDate(plans, day)
         IN  /\ p \in DOMAIN plans /\ p \in PlanId /\ plans[p] \in Plan
             /\ Covers(plans[p], day) /\ plans[p].start \in Nat /\ plans[p].start <= day
<1> DEFINE covering == {p \in DOMAIN plans : Covers(plans[p], day)}
           last == {p \in covering : \A q \in covering : plans[q].start <= plans[p].start}
           c == CHOOSE p \in last : TRUE
<1>1. PlanForDate(plans, day) = IF last = {} THEN NoPlan ELSE c
  BY DEF PlanForDate
<1>2. last # {} /\ PlanForDate(plans, day) = c
  BY <1>1
<1>3. c \in last
  BY <1>2
<1> HIDE DEF c
<1>4. c \in DOMAIN plans /\ Covers(plans[c], day)
  BY <1>3
<1>5. c \in PlanId /\ plans[c] \in Plan
  BY <1>4 DEF IsPlanTable
<1>6. plans[c].start \in Nat /\ plans[c].start <= day
  BY <1>4, <1>5 DEF Plan, Covers
<1> QED
  BY <1>2, <1>4, <1>5, <1>6

LEMMA EndBeforeType ==
  ASSUME NEW starts \in SUBSET Nat, NEW start \in Nat
  PROVE  EndBefore(starts, start) \in Int
<1> DEFINE following == {s \in starts : s > start}
           next == {s \in following : \A r \in following : s <= r}
<1>1. next # {} => (CHOOSE s \in next : TRUE) \in next
  OBVIOUS
<1>2. next # {} => (CHOOSE s \in next : TRUE) \in Nat
  BY <1>1
<1>3. EndBefore(starts, start) =
        IF next = {} THEN OpenEnded ELSE (CHOOSE s \in next : TRUE) - 1
  BY DEF EndBefore
<1> HIDE DEF next
<1> QED
  BY <1>2, <1>3 DEF OpenEnded

\* _rebuild_periods
LEMMA RebuildPeriodsType ==
  ASSUME NEW plans, IsPlanTable(plans)
  PROVE  IsPlanTable(RebuildPeriods(plans)) /\ DOMAIN RebuildPeriods(plans) = DOMAIN plans
<1> DEFINE starts == {plans[p].start : p \in DOMAIN plans}
           rebuilt == [p \in DOMAIN plans |->
                         [plans[p] EXCEPT !.end = EndBefore(starts, plans[p].start)]]
<1>1. \A p \in DOMAIN plans : plans[p] \in Plan
  BY DEF IsPlanTable
<1>2. starts \in SUBSET Nat
  BY <1>1 DEF Plan
<1>3. ASSUME NEW p \in DOMAIN plans
      PROVE  rebuilt[p] \in Plan
  <2>1. plans[p] \in Plan /\ plans[p].start \in Nat
    BY <1>1 DEF Plan
  <2>2. EndBefore(starts, plans[p].start) \in Int
    BY <1>2, <2>1, EndBeforeType
  <2> HIDE DEF starts
  <2> QED
    BY <2>1, <2>2 DEF Plan
<1> HIDE DEF starts
<1>4. DOMAIN rebuilt \subseteq PlanId
  BY DEF IsPlanTable
<1> QED
  BY <1>3, <1>4 DEF IsPlanTable, RebuildPeriods, starts

\* The handlers keep the table a table.
LEMMA HandlersKeepTable ==
  ASSUME NEW plans, IsPlanTable(plans), NEW id \in PlanId,
         NEW start \in Nat, NEW monthly \in Nat
  PROVE  /\ IsPlanTable(CreatedPlan(plans, id, start, monthly))
         /\ id \in DOMAIN plans => IsPlanTable(UpdatedPlan(plans, id, start, monthly))
         /\ IsPlanTable(DeletedPlan(plans, id))
<1>1. \A p \in DOMAIN plans : p \in PlanId /\ plans[p] \in Plan
  BY DEF IsPlanTable
<1>2. IsPlanTable(CreatedPlan(plans, id, start, monthly))
  <2> DEFINE row == [start |-> start, end |-> OpenEnded, monthly |-> monthly]
             t == [p \in DOMAIN plans \union {id} |-> IF p = id THEN row ELSE plans[p]]
  <2>1. row \in Plan
    BY DEF Plan, OpenEnded
  <2> HIDE DEF row
  <2>2. IsPlanTable(t)
    BY <1>1, <2>1 DEF IsPlanTable
  <2> QED
    BY <2>2, RebuildPeriodsType DEF CreatedPlan, row
<1>3. ASSUME id \in DOMAIN plans
      PROVE  IsPlanTable(UpdatedPlan(plans, id, start, monthly))
  <2> DEFINE t == [plans EXCEPT ![id].start = start, ![id].monthly = monthly]
  <2>1. t = [p \in DOMAIN plans |->
               IF p = id THEN [plans[id] EXCEPT !.start = start, !.monthly = monthly]
               ELSE plans[p]]
    BY <1>3 DEF IsPlanTable
  <2>2. [plans[id] EXCEPT !.start = start, !.monthly = monthly] \in Plan
    BY <1>1, <1>3 DEF Plan
  <2>3. IsPlanTable(t)
    BY <1>1, <2>1, <2>2 DEF IsPlanTable
  <2> QED
    BY <2>3, RebuildPeriodsType DEF UpdatedPlan
<1>4. IsPlanTable(DeletedPlan(plans, id))
  <2> DEFINE t == [p \in DOMAIN plans \ {id} |-> plans[p]]
  <2>1. IsPlanTable(t)
    BY <1>1 DEF IsPlanTable
  <2> QED
    BY <2>1, RebuildPeriodsType DEF DeletedPlan
<1> QED
  BY <1>2, <1>3, <1>4

-----------------------------------------------------------------------------
(* The periods follow each other *)

\* A set of numbers that is not empty has a least one.
LEMMA LeastExists ==
  ASSUME NEW S \in SUBSET Nat, S # {}
  PROVE  \E x \in S : \A y \in S : x <= y
<1>1. PICK x \in S : \A y \in S : ~(<<y, x>> \in OpToRel(<, Nat))
  BY NatLessThanWellFounded, WFMin
<1>2. ASSUME NEW y \in S PROVE x <= y
  <2>1. x \in Nat /\ y \in Nat /\ <<y, x>> \in Nat \X Nat
    OBVIOUS
  <2>2. <<y, x>> \in OpToRel(<, Nat) <=> y < x
    BY <2>1 DEF OpToRel
  <2>3. <<y, x>> \notin OpToRel(<, Nat)
    BY ONLY <1>1, y \in S
  <2>4. ~(y < x)
    BY ONLY <2>2, <2>3
  <2> QED
    BY ONLY <2>1, <2>4
<1> QED
  BY <1>2

\* end_date of _rebuild_periods: the day before the next start; there is none after the last.
EndsBeforeNext(starts, start, end) ==
  \/ end = OpenEnded /\ \A s \in starts : s <= start
  \/ \E n \in starts : /\ n > start /\ end = n - 1
                      /\ \A s \in starts : s > start => n <= s

LEMMA EndBeforeIs ==
  ASSUME NEW starts \in SUBSET Nat, NEW start \in Nat
  PROVE  EndsBeforeNext(starts, start, EndBefore(starts, start))
<1> DEFINE following == {s \in starts : s > start}
           next == {s \in following : \A r \in following : s <= r}
           n == CHOOSE s \in next : TRUE
<1>1. EndBefore(starts, start) = IF next = {} THEN OpenEnded ELSE n - 1
  BY DEF EndBefore
<1>2. following \in SUBSET Nat
  OBVIOUS
<1>3. CASE following = {}
  <2>1. next = {}
    BY <1>3
  <2>2. \A s \in starts : s <= start
    BY <1>3
  <2> QED
    BY <1>1, <2>1, <2>2 DEF EndsBeforeNext
<1>4. CASE following # {}
  <2>1. next # {}
    <3> HIDE DEF following
    <3> QED
      BY <1>2, <1>4, LeastExists
  <2>2. n \in next
    BY <2>1
  <2>3. EndBefore(starts, start) = n - 1
    BY <1>1, <2>1
  <2> HIDE DEF n
  <2>4. n \in starts /\ n > start /\ \A s \in starts : s > start => n <= s
    BY <2>2
  <2> QED
    BY <2>3, <2>4 DEF EndsBeforeNext
<1> QED
  BY <1>3, <1>4

\* The end depends on the starts that follow only.
LEMMA SameEnd ==
  ASSUME NEW starts \in SUBSET Nat, NEW start \in Nat, NEW end \in Int, NEW other \in Int,
         EndsBeforeNext(starts, start, end), EndsBeforeNext(starts, start, other)
  PROVE  end = other
<1>1. CASE \A s \in starts : s <= start
  BY <1>1 DEF EndsBeforeNext
<1>2. CASE \E s \in starts : ~(s <= start)
  <2>1. PICK n \in starts : n > start /\ end = n - 1 /\ \A s \in starts : s > start => n <= s
    BY <1>2 DEF EndsBeforeNext
  <2>2. PICK m \in starts : m > start /\ other = m - 1 /\ \A s \in starts : s > start => m <= s
    BY <1>2 DEF EndsBeforeNext
  <2>3. n \in Nat /\ m \in Nat /\ n <= m /\ m <= n
    BY <2>1, <2>2
  <2> QED
    BY <2>1, <2>2, <2>3
<1> QED
  BY <1>1, <1>2

StartsOf(plans) == {plans[p].start : p \in DOMAIN plans}
\* No two plans start on the same day, and each ends before the next one starts.
IsSchedule(plans) ==
  /\ IsPlanTable(plans)
  /\ \A p, q \in DOMAIN plans : plans[p].start = plans[q].start => p = q
  /\ \A p \in DOMAIN plans : EndsBeforeNext(StartsOf(plans), plans[p].start, plans[p].end)

LEMMA StartsType ==
  ASSUME NEW plans, IsPlanTable(plans)
  PROVE  /\ StartsOf(plans) \in SUBSET Nat
         /\ \A p \in DOMAIN plans : /\ p \in PlanId /\ plans[p] \in Plan /\ plans[p].start \in Nat
                                  /\ plans[p].start \in StartsOf(plans) /\ plans[p].end \in Int
BY DEF IsPlanTable, Plan, StartsOf

\* _rebuild_periods keeps the starts and sets the ends.
LEMMA RebuiltRows ==
  ASSUME NEW plans, IsPlanTable(plans)
  PROVE  /\ DOMAIN RebuildPeriods(plans) = DOMAIN plans
         /\ \A p \in DOMAIN plans :
              /\ RebuildPeriods(plans)[p].start = plans[p].start
              /\ RebuildPeriods(plans)[p].monthly = plans[p].monthly
              /\ RebuildPeriods(plans)[p].end = EndBefore(StartsOf(plans), plans[p].start)
         /\ StartsOf(RebuildPeriods(plans)) = StartsOf(plans)
<1> DEFINE t == RebuildPeriods(plans)
<1>1. t = [p \in DOMAIN plans |->
             [plans[p] EXCEPT !.end = EndBefore(StartsOf(plans), plans[p].start)]]
  BY DEF RebuildPeriods, StartsOf
<1>2. ASSUME NEW p \in DOMAIN plans
      PROVE  /\ t[p].start = plans[p].start /\ t[p].monthly = plans[p].monthly
             /\ t[p].end = EndBefore(StartsOf(plans), plans[p].start)
  <2> DEFINE end == EndBefore(StartsOf(plans), plans[p].start)
  <2>1. plans[p] \in Plan
    BY StartsType
  <2>2. t[p] = [plans[p] EXCEPT !.end = end]
    BY <1>1
  <2> HIDE DEF end, t
  <2>3. /\ t[p].start = plans[p].start /\ t[p].monthly = plans[p].monthly /\ t[p].end = end
    BY <2>1, <2>2 DEF Plan
  <2> QED
    BY <2>3 DEF end
<1>3. DOMAIN t = DOMAIN plans
  BY <1>1
<1> HIDE DEF t
<1>4. StartsOf(t) = StartsOf(plans)
  BY <1>2, <1>3 DEF StartsOf
<1> QED
  BY <1>2, <1>3, <1>4 DEF t

LEMMA RebuiltIsSchedule ==
  ASSUME NEW plans, IsPlanTable(plans),
         \A p, q \in DOMAIN plans : plans[p].start = plans[q].start => p = q
  PROVE  IsSchedule(RebuildPeriods(plans))
<1> DEFINE t == RebuildPeriods(plans)
<1>1. IsPlanTable(t) /\ DOMAIN t = DOMAIN plans
  BY RebuildPeriodsType
<1>2. /\ \A p \in DOMAIN plans : t[p].start = plans[p].start
      /\ \A p \in DOMAIN plans : t[p].end = EndBefore(StartsOf(plans), plans[p].start)
      /\ StartsOf(t) = StartsOf(plans)
  BY RebuiltRows
<1>3. \A p \in DOMAIN plans :
        EndsBeforeNext(StartsOf(plans), plans[p].start, EndBefore(StartsOf(plans), plans[p].start))
  BY StartsType, EndBeforeIs
<1> HIDE DEF t
<1>4. IsSchedule(t)
  BY <1>1, <1>2, <1>3 DEF IsSchedule
<1> QED
  BY <1>4 DEF t

\* The plans the handlers leave, and their starts: those of before, but for one.
SameStarts(after, plans) == \A p \in DOMAIN after : after[p].start = plans[p].start
OneStart(after, plans, id, start) ==
  \A p \in DOMAIN after : after[p].start = IF p = id THEN start ELSE plans[p].start

LEMMA CreatedRows ==
  ASSUME NEW plans, IsPlanTable(plans), NEW id \in PlanId, NEW start \in Nat, NEW monthly \in Nat
  PROVE  /\ DOMAIN CreatedPlan(plans, id, start, monthly) = DOMAIN plans \cup {id}
         /\ OneStart(CreatedPlan(plans, id, start, monthly), plans, id, start)
<1> DEFINE row == [start |-> start, end |-> OpenEnded, monthly |-> monthly]
           t == [p \in DOMAIN plans \union {id} |-> IF p = id THEN row ELSE plans[p]]
<1>1. \A p \in DOMAIN plans : p \in PlanId /\ plans[p] \in Plan
  BY DEF IsPlanTable
<1>2. row \in Plan /\ row.start = start
  BY DEF Plan, OpenEnded
<1>3. CreatedPlan(plans, id, start, monthly) = RebuildPeriods(t)
  BY DEF CreatedPlan
<1> HIDE DEF row
<1>4. IsPlanTable(t) /\ DOMAIN t = DOMAIN plans \cup {id}
  BY <1>1, <1>2 DEF IsPlanTable
<1>5. \A p \in DOMAIN t : t[p].start = IF p = id THEN start ELSE plans[p].start
  BY <1>2
<1> HIDE DEF t
<1> QED
  BY <1>3, <1>4, <1>5, RebuiltRows DEF OneStart

LEMMA UpdatedRows ==
  ASSUME NEW plans, IsPlanTable(plans), NEW id \in DOMAIN plans, NEW start \in Nat,
         NEW monthly \in Nat
  PROVE  /\ DOMAIN UpdatedPlan(plans, id, start, monthly) = DOMAIN plans
         /\ OneStart(UpdatedPlan(plans, id, start, monthly), plans, id, start)
<1> DEFINE row == [plans[id] EXCEPT !.start = start, !.monthly = monthly]
           t == [plans EXCEPT ![id].start = start, ![id].monthly = monthly]
<1>1. \A p \in DOMAIN plans : p \in PlanId /\ plans[p] \in Plan
  BY DEF IsPlanTable
<1>2. row \in Plan /\ row.start = start
  BY <1>1 DEF Plan
<1>3. t = [p \in DOMAIN plans |-> IF p = id THEN row ELSE plans[p]]
  BY DEF IsPlanTable
<1>4. UpdatedPlan(plans, id, start, monthly) = RebuildPeriods(t)
  BY DEF UpdatedPlan
<1> HIDE DEF row, t
<1>5. IsPlanTable(t) /\ DOMAIN t = DOMAIN plans
  BY <1>1, <1>2, <1>3 DEF IsPlanTable
<1>6. \A p \in DOMAIN plans : t[p].start = IF p = id THEN start ELSE plans[p].start
  BY <1>2, <1>3
<1> QED
  BY <1>4, <1>5, <1>6, RebuiltRows DEF OneStart

LEMMA DeletedRows ==
  ASSUME NEW plans, IsPlanTable(plans), NEW id \in PlanId
  PROVE  /\ DOMAIN DeletedPlan(plans, id) = DOMAIN plans \ {id}
         /\ SameStarts(DeletedPlan(plans, id), plans)
<1> DEFINE t == [p \in DOMAIN plans \ {id} |-> plans[p]]
<1>1. IsPlanTable(t)
  BY DEF IsPlanTable
<1>2. DeletedPlan(plans, id) = RebuildPeriods(t)
  BY DEF DeletedPlan
<1>3. DOMAIN t = DOMAIN plans \ {id} /\ \A p \in DOMAIN t : t[p].start = plans[p].start
  OBVIOUS
<1> HIDE DEF t
<1> QED
  BY <1>1, <1>2, <1>3, RebuiltRows DEF SameStarts

\* What the three handlers make of a schedule within their guards is a schedule.
LEMMA HandlersKeepSchedule ==
  ASSUME NEW plans, IsSchedule(plans), NEW id \in PlanId, NEW start \in Nat, NEW monthly \in Nat,
         NEW today \in Int
  PROVE  /\ MayCreatePlan(plans, start, today) /\ id \notin DOMAIN plans =>
              IsSchedule(CreatedPlan(plans, id, start, monthly))
         /\ MayUpdatePlan(plans, id, start, today) /\ id \in DOMAIN plans =>
              IsSchedule(UpdatedPlan(plans, id, start, monthly))
         /\ IsSchedule(DeletedPlan(plans, id))
<1>1. /\ \A p \in DOMAIN plans : p \in PlanId /\ plans[p] \in Plan
      /\ \A p, q \in DOMAIN plans : plans[p].start = plans[q].start => p = q
  BY DEF IsSchedule, IsPlanTable
<1>2. ASSUME MayCreatePlan(plans, start, today), id \notin DOMAIN plans
      PROVE  IsSchedule(CreatedPlan(plans, id, start, monthly))
  <2> DEFINE row == [start |-> start, end |-> OpenEnded, monthly |-> monthly]
             t == [p \in DOMAIN plans \union {id} |-> IF p = id THEN row ELSE plans[p]]
  <2>1. row \in Plan /\ row.start = start
    BY DEF Plan, OpenEnded
  <2>2. \A p \in DOMAIN plans : plans[p].start # start
    BY <1>2 DEF MayCreatePlan, StartIsTaken
  <2>3. CreatedPlan(plans, id, start, monthly) = RebuildPeriods(t)
    BY DEF CreatedPlan
  <2> HIDE DEF row
  <2>4. IsPlanTable(t)
    BY <1>1, <2>1 DEF IsPlanTable
  <2>5. \A p, q \in DOMAIN t : t[p].start = t[q].start => p = q
    BY <1>1, <2>1, <2>2
  <2> HIDE DEF t
  <2> QED
    BY <2>3, <2>4, <2>5, RebuiltIsSchedule
<1>3. ASSUME MayUpdatePlan(plans, id, start, today), id \in DOMAIN plans
      PROVE  IsSchedule(UpdatedPlan(plans, id, start, monthly))
  <2> DEFINE row == [plans[id] EXCEPT !.start = start, !.monthly = monthly]
             t == [plans EXCEPT ![id].start = start, ![id].monthly = monthly]
  <2>1. row \in Plan /\ row.start = start
    BY <1>1, <1>3 DEF Plan
  <2>2. \A p \in DOMAIN plans \ {id} : plans[p].start # start
    BY <1>1, <1>3 DEF MayUpdatePlan, StartIsTaken
  <2>3. t = [p \in DOMAIN plans |-> IF p = id THEN row ELSE plans[p]]
    BY <1>3 DEF IsSchedule, IsPlanTable
  <2>4. UpdatedPlan(plans, id, start, monthly) = RebuildPeriods(t)
    BY DEF UpdatedPlan
  <2> HIDE DEF row, t
  <2>5. IsPlanTable(t)
    BY <1>1, <2>1, <2>3 DEF IsPlanTable
  <2>6. \A p, q \in DOMAIN t : t[p].start = t[q].start => p = q
    BY <1>1, <2>1, <2>2, <2>3
  <2> QED
    BY <2>4, <2>5, <2>6, RebuiltIsSchedule
<1>4. IsSchedule(DeletedPlan(plans, id))
  <2> DEFINE t == [p \in DOMAIN plans \ {id} |-> plans[p]]
  <2>1. IsPlanTable(t)
    BY <1>1 DEF IsPlanTable
  <2>2. \A p, q \in DOMAIN t : t[p].start = t[q].start => p = q
    BY <1>1
  <2> HIDE DEF t
  <2>3. IsSchedule(RebuildPeriods(t))
    BY <2>1, <2>2, RebuiltIsSchedule
  <2> QED
    BY <2>3 DEF DeletedPlan, t
<1> QED
  BY <1>2, <1>3, <1>4

\* Two plans of a schedule never cover the same day, so that the plan of a date is the one
\* that covers it whatever ORDER BY and LIMIT pick.
LEMMA OnePlanCovers ==
  ASSUME NEW plans, IsSchedule(plans), NEW day \in Nat,
         NEW p \in DOMAIN plans, NEW q \in DOMAIN plans,
         Covers(plans[p], day), Covers(plans[q], day)
  PROVE  p = q
<1>1. /\ plans[p].start \in Nat /\ plans[q].start \in Nat
      /\ plans[p].start \in StartsOf(plans) /\ plans[q].start \in StartsOf(plans)
      /\ StartsOf(plans) \in SUBSET Nat
  BY StartsType DEF IsSchedule
<1>2. ASSUME NEW a \in DOMAIN plans, NEW b \in DOMAIN plans, plans[a].start < plans[b].start,
             Covers(plans[a], day), Covers(plans[b], day),
             plans[a].start \in Nat, plans[b].start \in StartsOf(plans)
      PROVE  FALSE
  <2>1. EndsBeforeNext(StartsOf(plans), plans[a].start, plans[a].end)
    BY DEF IsSchedule
  <2>2. plans[b].start \in Nat
    BY <1>1, <1>2
  <2>3. PICK n \in StartsOf(plans) : plans[a].end = n - 1 /\ n <= plans[b].start
    BY <1>1, <1>2, <2>1, <2>2 DEF EndsBeforeNext
  <2>4. n \in Nat /\ n > plans[a].start
    BY <1>1, <1>2, <2>1, <2>2, <2>3 DEF EndsBeforeNext
  <2>5. plans[a].end >= day /\ plans[b].start <= day
    BY <1>2, <2>3, <2>4 DEF Covers, OpenEnded
  <2> QED
    BY <2>2, <2>3, <2>4, <2>5
<1>3. ~(plans[p].start < plans[q].start) /\ ~(plans[q].start < plans[p].start)
  BY <1>1, <1>2
<1>4. plans[p].start = plans[q].start
  BY <1>1, <1>3
<1> QED
  BY <1>4 DEF IsSchedule

\* From the first start on every day has a plan.
LEMMA EveryDayCovered ==
  ASSUME NEW plans, IsSchedule(plans), NEW day \in Nat,
         NEW p \in DOMAIN plans, plans[p].start <= day
  PROVE  \E q \in DOMAIN plans : Covers(plans[q], day)
<1>1. StartsOf(plans) \in SUBSET Nat /\ plans[p].start \in StartsOf(plans)
  BY StartsType DEF IsSchedule
<1> DEFINE ages == {day - s : s \in {r \in StartsOf(plans) : r <= day}}
<1>2. ages \in SUBSET Nat /\ ages # {}
  BY <1>1
<1>3. PICK a \in ages : \A b \in ages : a <= b
  <2> HIDE DEF ages
  <2> QED
    BY <1>2, LeastExists
<1>4. PICK s \in StartsOf(plans) : s <= day /\ a = day - s
  OBVIOUS
<1>5. \A r \in StartsOf(plans) : r <= day => r <= s
  BY <1>1, <1>3, <1>4
<1>6. PICK q \in DOMAIN plans : plans[q].start = s
  BY DEF StartsOf
<1>7. EndsBeforeNext(StartsOf(plans), s, plans[q].end)
  BY <1>6 DEF IsSchedule
<1>8. CASE plans[q].end = OpenEnded
  BY <1>4, <1>6, <1>8 DEF Covers
<1>9. CASE plans[q].end # OpenEnded
  <2>1. PICK n \in StartsOf(plans) : n > s /\ plans[q].end = n - 1
    BY <1>7, <1>9 DEF EndsBeforeNext
  <2>2. n \in Nat /\ n > day
    BY <1>1, <1>4, <1>5, <2>1
  <2>3. plans[q].end >= day
    BY <2>1, <2>2
  <2> QED
    BY <1>4, <1>6, <2>3 DEF Covers
<1> QED
  BY <1>8, <1>9

-----------------------------------------------------------------------------
(* The past is settled *)

\* The plan of a date by the starts alone: the last one to start by then.
InForce(plans, p, day) ==
  /\ p \in DOMAIN plans /\ plans[p].start <= day
  /\ \A q \in DOMAIN plans : plans[q].start <= day => plans[q].start <= plans[p].start

LEMMA InForceCovers ==
  ASSUME NEW plans, IsSchedule(plans), NEW day \in Nat, NEW p \in DOMAIN plans
  PROVE  InForce(plans, p, day) <=> Covers(plans[p], day)
<1>1. /\ StartsOf(plans) \in SUBSET Nat /\ plans[p].start \in Nat /\ plans[p].end \in Int
      /\ \A q \in DOMAIN plans : plans[q].start \in Nat /\ plans[q].start \in StartsOf(plans)
  BY StartsType DEF IsSchedule
<1>2. EndsBeforeNext(StartsOf(plans), plans[p].start, plans[p].end)
  BY DEF IsSchedule
<1>3. CASE plans[p].end = OpenEnded
  <2>1. \A s \in StartsOf(plans) : s <= plans[p].start
    <3>1. \A n \in StartsOf(plans) : n > plans[p].start => plans[p].end # n - 1
      BY <1>1, <1>3 DEF OpenEnded
    <3> QED
      BY <1>2, <3>1 DEF EndsBeforeNext
  <2> QED
    BY <1>1, <1>3, <2>1 DEF InForce, Covers
<1>4. CASE plans[p].end # OpenEnded
  <2>1. PICK n \in StartsOf(plans) : /\ n > plans[p].start /\ plans[p].end = n - 1
                                     /\ \A s \in StartsOf(plans) : s > plans[p].start => n <= s
    BY <1>2, <1>4 DEF EndsBeforeNext
  <2>2. PICK r \in DOMAIN plans : n = plans[r].start
    BY DEF StartsOf
  <2>3. n \in Nat
    BY <1>1
  <2>4. Covers(plans[p], day) <=> plans[p].start <= day /\ n > day
    BY <1>1, <1>4, <2>1, <2>3 DEF Covers
  <2>5. InForce(plans, p, day) => n > day
    BY <1>1, <2>1, <2>2, <2>3 DEF InForce
  <2>6. ASSUME n > day, NEW q \in DOMAIN plans, plans[q].start <= day
        PROVE  plans[q].start <= plans[p].start
    <3>1. plans[q].start \in Nat /\ plans[q].start \in StartsOf(plans)
      BY <1>1
    <3>2. plans[q].start > plans[p].start => n <= plans[q].start
      BY <2>1, <3>1
    <3> QED
      BY <1>1, <2>3, <2>6, <3>1, <3>2
  <2> QED
    BY <2>4, <2>5, <2>6 DEF InForce
<1> QED
  BY <1>3, <1>4

\* PlanForDate finds it.
LEMMA PlanInForce ==
  ASSUME NEW plans, IsSchedule(plans), NEW day \in Nat
  PROVE  /\ \A p \in DOMAIN plans : InForce(plans, p, day) => PlanForDate(plans, day) = p
         /\ PlanForDate(plans, day) # NoPlan => InForce(plans, PlanForDate(plans, day), day)
<1>1. IsPlanTable(plans) /\ day \in Int
  BY DEF IsSchedule
<1>2. ASSUME NEW p \in DOMAIN plans, InForce(plans, p, day)
      PROVE  PlanForDate(plans, day) = p
  <2> DEFINE covering == {q \in DOMAIN plans : Covers(plans[q], day)}
             last == {q \in covering : \A r \in covering : plans[r].start <= plans[q].start}
             c == CHOOSE q \in last : TRUE
  <2>1. Covers(plans[p], day)
    BY <1>2, InForceCovers
  <2>2. covering = {p}
    BY <2>1, OnePlanCovers
  <2>3. plans[p].start \in Nat
    BY <1>1, StartsType
  <2>4. last = {p}
    <3> HIDE DEF covering
    <3> QED
      BY <2>2, <2>3
  <2>5. c = p
    <3> HIDE DEF last
    <3> QED
      BY <2>4
  <2>6. PlanForDate(plans, day) = IF last = {} THEN NoPlan ELSE c
    BY DEF PlanForDate
  <2> HIDE DEF last, c
  <2> QED
    BY <2>4, <2>5, <2>6
<1>3. ASSUME PlanForDate(plans, day) # NoPlan
      PROVE  InForce(plans, PlanForDate(plans, day), day)
  <2>1. PlanForDate(plans, day) \in DOMAIN plans /\ Covers(plans[PlanForDate(plans, day)], day)
    BY <1>1, <1>3, PlanForDateCovers
  <2> QED
    BY <2>1, InForceCovers
<1> QED
  BY <1>2, <1>3

\* The plans that have started stay as they are, and no other one has.
KeepsStarted(after, plans, today) ==
  /\ \A p \in DOMAIN plans : plans[p].start <= today =>
       /\ p \in DOMAIN after /\ after[p].start = plans[p].start
       /\ after[p].monthly = plans[p].monthly
  /\ \A q \in DOMAIN after : after[q].start <= today =>
       q \in DOMAIN plans /\ plans[q].start = after[q].start

LEMMA RebuildKeepsStarted ==
  ASSUME NEW plans, NEW t, IsPlanTable(t), NEW today, KeepsStarted(t, plans, today)
  PROVE  KeepsStarted(RebuildPeriods(t), plans, today)
<1>1. /\ DOMAIN RebuildPeriods(t) = DOMAIN t
      /\ \A p \in DOMAIN t : /\ RebuildPeriods(t)[p].start = t[p].start
                             /\ RebuildPeriods(t)[p].monthly = t[p].monthly
  BY RebuiltRows
<1> QED
  BY <1>1 DEF KeepsStarted

\* create_plan once there is a plan, update_plan and delete_plan.
LEMMA HandlersKeepStarted ==
  ASSUME NEW plans, IsPlanTable(plans), NEW id \in PlanId, NEW start \in Nat, NEW monthly \in Nat,
         NEW today \in Int
  PROVE  /\ (MayCreatePlan(plans, start, today) /\ DOMAIN plans # {} /\ id \notin DOMAIN plans) =>
              KeepsStarted(CreatedPlan(plans, id, start, monthly), plans, today)
         /\ (MayUpdatePlan(plans, id, start, today) /\ id \in DOMAIN plans) =>
              KeepsStarted(UpdatedPlan(plans, id, start, monthly), plans, today)
         /\ (MayDeletePlan(plans, id, today) /\ id \in DOMAIN plans) =>
              KeepsStarted(DeletedPlan(plans, id), plans, today)
<1>1. \A p \in DOMAIN plans : p \in PlanId /\ plans[p] \in Plan /\ plans[p].start \in Nat
  BY StartsType
<1>2. ASSUME MayCreatePlan(plans, start, today), DOMAIN plans # {}, id \notin DOMAIN plans
      PROVE  KeepsStarted(CreatedPlan(plans, id, start, monthly), plans, today)
  <2> DEFINE row == [start |-> start, end |-> OpenEnded, monthly |-> monthly]
             t == [p \in DOMAIN plans \union {id} |-> IF p = id THEN row ELSE plans[p]]
  <2>1. row \in Plan /\ row.start = start
    BY DEF Plan, OpenEnded
  <2>2. ~(start <= today)
    BY <1>2 DEF MayCreatePlan
  <2>3. CreatedPlan(plans, id, start, monthly) = RebuildPeriods(t)
    BY DEF CreatedPlan
  <2> HIDE DEF row
  <2>4. IsPlanTable(t)
    BY <1>1, <2>1 DEF IsPlanTable
  <2>5. KeepsStarted(t, plans, today)
    BY <1>2, <2>1, <2>2 DEF KeepsStarted
  <2> HIDE DEF t
  <2> QED
    BY <2>3, <2>4, <2>5, RebuildKeepsStarted
<1>3. ASSUME MayUpdatePlan(plans, id, start, today), id \in DOMAIN plans
      PROVE  KeepsStarted(UpdatedPlan(plans, id, start, monthly), plans, today)
  <2> DEFINE row == [plans[id] EXCEPT !.start = start, !.monthly = monthly]
             t == [plans EXCEPT ![id].start = start, ![id].monthly = monthly]
  <2>1. row \in Plan /\ row.start = start
    BY <1>1, <1>3 DEF Plan
  <2>2. ~(start <= today) /\ ~(plans[id].start <= today)
    BY <1>1, <1>3 DEF MayUpdatePlan
  <2>3. t = [p \in DOMAIN plans |-> IF p = id THEN row ELSE plans[p]]
    BY <1>3 DEF IsPlanTable
  <2>4. UpdatedPlan(plans, id, start, monthly) = RebuildPeriods(t)
    BY DEF UpdatedPlan
  <2> HIDE DEF row, t
  <2>5. IsPlanTable(t)
    BY <1>1, <2>1, <2>3 DEF IsPlanTable
  <2>6. KeepsStarted(t, plans, today)
    BY <2>1, <2>2, <2>3 DEF KeepsStarted
  <2> QED
    BY <2>4, <2>5, <2>6, RebuildKeepsStarted
<1>4. ASSUME MayDeletePlan(plans, id, today), id \in DOMAIN plans
      PROVE  KeepsStarted(DeletedPlan(plans, id), plans, today)
  <2> DEFINE t == [p \in DOMAIN plans \ {id} |-> plans[p]]
  <2>1. IsPlanTable(t)
    BY <1>1 DEF IsPlanTable
  <2>2. ~(plans[id].start <= today)
    BY <1>1, <1>4 DEF MayDeletePlan
  <2>3. KeepsStarted(t, plans, today)
    BY <2>2 DEF KeepsStarted
  <2> HIDE DEF t
  <2>4. KeepsStarted(RebuildPeriods(t), plans, today)
    BY <2>1, <2>3, RebuildKeepsStarted
  <2> QED
    BY <2>4 DEF DeletedPlan, t
<1> QED
  BY <1>2, <1>3, <1>4

\* The plan of a day that has come, and its price, do not change.
LEMMA StartedStayInForce ==
  ASSUME NEW plans, IsPlanTable(plans), NEW after, IsPlanTable(after), NEW today \in Nat,
         KeepsStarted(after, plans, today), NEW day \in Nat, day <= today,
         NEW p, InForce(plans, p, day)
  PROVE  InForce(after, p, day) /\ after[p].monthly = plans[p].monthly
<1>1. /\ \A q \in DOMAIN plans : plans[q].start \in Nat
      /\ \A q \in DOMAIN after : after[q].start \in Nat
  BY StartsType
<1>2. p \in DOMAIN plans /\ plans[p].start <= today
  BY <1>1 DEF InForce
<1>3. p \in DOMAIN after /\ after[p].start = plans[p].start /\ after[p].monthly = plans[p].monthly
  BY <1>2 DEF KeepsStarted
<1>4. ASSUME NEW q \in DOMAIN after, after[q].start <= day
      PROVE  after[q].start <= after[p].start
  <2>1. after[q].start <= today
    BY <1>1, <1>4
  <2>2. q \in DOMAIN plans /\ plans[q].start = after[q].start
    BY <2>1 DEF KeepsStarted
  <2> QED
    BY <1>3, <1>4, <2>2 DEF InForce
<1> QED
  BY <1>3, <1>4 DEF InForce
=============================================================================

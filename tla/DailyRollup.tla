---------------------------- MODULE DailyRollup ----------------------------
(***************************************************************************)
(* The nightly rollup: two instances each roll yesterday, the days before  *)
(* it that may still have changed, and days that were never rolled         *)
(* (DailyRollupService).  A day's figures are abstracted to the number of  *)
(* changes its orders and payments have seen; a stored row holds that      *)
(* number as of its aggregation.  aggregateDay is one snapshot             *)
(* (REPEATABLE READ), and its upsert comes later.                          *)
(***************************************************************************)
EXTENDS Naturals, FiniteSetsExt, Absent

CONSTANTS
    LastDay,      \* business days are 1 .. LastDay
    Instances,
    CatchUpDays,  \* CATCH_UP_DAYS
    RerollDays,   \* REROLL_DAYS
    LateDays,     \* how long after its date a day may change
    MaxChanges, MaxMissed, MaxFails

Days == 1 .. LastDay

\* REROLL_DAYS covers the days in which a webhook is retried.
ASSUME WindowAssumption ==
    /\ {LastDay, CatchUpDays, RerollDays, LateDays} \subseteq Nat
    /\ LateDays <= RerollDays /\ RerollDays <= CatchUpDays
    /\ None \notin Nat

VARIABLES
    today,  \* the business day taking money
    live,   \* changes to each day's orders and payments
    stored, \* daily_sales_rollups: the changes its row accounts for
    job,    \* each instance's run: the days left and the aggregate in hand
    ran,    \* instances that have run tonight
    missed, \* nights no instance ran
    fails   \* days whose roll failed

vars == <<today, live, stored, job, ran, missed, fails>>

idle == [days |-> {}, row |-> None]

\* The day that closed last when the cron fires, at 03:00 of the day in course.
Target == today - 1

\* rollDays takes the target first, then the others in the order of the query.
upNext(days) == IF Target \in days THEN Target ELSE Min(days)

\* MUTANT of daysNeedingRoll: the window is one day short.
daysNeedingRollShort(target) ==
    {d \in Days : /\ live[d] > 0 /\ target <= d + CatchUpDays /\ d < target
                  /\ target < d + RerollDays \/ stored[d] = None}

\* MUTANT of daysNeedingRoll: days that were never rolled are not looked for.
daysNeedingRollRecent(target) ==
    {d \in Days : live[d] > 0 /\ d < target /\ target <= d + RerollDays}

daysNeedingRoll(target) ==
    {d \in Days : /\ live[d] > 0 /\ target <= d + CatchUpDays /\ d < target
                  /\ target <= d + RerollDays \/ stored[d] = None}

-----------------------------------------------------------------------------
\* An order is placed, paid, completed or refunded: on the day in course, or late,
\* by a webhook the gateway retried or an order finished the next morning.  A day
\* past has orders or never will: an order keeps the day it was placed on.
Change(d) ==
    /\ d = today \/ (live[d] > 0 /\ d < today /\ today <= d + LateDays)
    /\ live[d] < MaxChanges
    /\ live' = [live EXCEPT ![d] = @ + 1]
    /\ UNCHANGED <<today, stored, job, ran, missed, fails>>

rollUpYesterday(i) ==
    /\ i \notin ran /\ Target \in Days
    /\ ran' = ran \cup {i}
    /\ job' = [job EXCEPT ![i] = [days |-> {Target} \cup daysNeedingRoll(Target), row |-> None]]
    /\ UNCHANGED <<today, live, stored, missed, fails>>

aggregateDay(i) ==
    /\ job[i].days # {} /\ job[i].row = None
    /\ job' = [job EXCEPT ![i] = [days |-> @.days, row |-> live[upNext(@.days)]]]
    /\ UNCHANGED <<today, live, stored, ran, missed, fails>>

rollDay(i) ==
    /\ job[i].row # None
    /\ stored' = [stored EXCEPT ![upNext(job[i].days)] = job[i].row]
    /\ job' = [job EXCEPT ![i] = [days |-> @.days \ {upNext(@.days)}, row |-> None]]
    /\ UNCHANGED <<today, live, ran, missed, fails>>

\* rollDays catches the error and goes on with the next day.
RollFails(i) ==
    /\ job[i].days # {} /\ fails < MaxFails
    /\ job' = [job EXCEPT ![i] = [days |-> @.days \ {upNext(@.days)}, row |-> None]]
    /\ fails' = fails + 1
    /\ UNCHANGED <<today, live, stored, ran, missed>>

\* 05:00: the next business day.  A night without a run is lost, not made up.
NextDay ==
    /\ today < LastDay /\ \A i \in Instances : job[i] = idle
    /\ today' = today + 1
    /\ missed' = IF ran = {} /\ Target \in Days THEN missed + 1 ELSE missed
    /\ missed' <= MaxMissed
    /\ ran' = {}
    /\ UNCHANGED <<live, stored, job, fails>>

-----------------------------------------------------------------------------
Init ==
    /\ today = 1
    /\ live = [d \in Days |-> 0]
    /\ stored = [d \in Days |-> None]
    /\ job = [i \in Instances |-> idle]
    /\ ran = {}
    /\ missed = 0
    /\ fails = 0

Next ==
    \/ \E d \in Days : Change(d)
    \/ \E i \in Instances : rollUpYesterday(i) \/ aggregateDay(i) \/ rollDay(i) \/ RollFails(i)
    \/ NextDay

Spec == Init /\ [][Next]_vars

-----------------------------------------------------------------------------
\* A day no run will visit again: its last night is over.
Closed(d) == today > d + 1 + RerollDays

\* When every night runs and no roll fails, the row of a closed day accounts for
\* every change, whatever two runs of a night and late changes interleave
\* ("leaves the row open to correction for a full three days").
FinalIsRight ==
    missed + fails = 0 => \A d \in Days : Closed(d) /\ live[d] > 0 => stored[d] = live[d]

\* A failed roll of a day is made up later ("it keeps no finalized row and will
\* be retried", "the retry is automatic").
\* Not guaranteed by the code: the README tells how it fails.
FailedRollIsMadeUp ==
    missed = 0 => \A d \in Days : Closed(d) /\ live[d] > 0 => stored[d] = live[d]

\* A lost night or a failed roll costs a day's first row one night each and
\* never leaves a hole in the books, as long as there are fewer than CATCH_UP_DAYS.
EveryDayIsRolled ==
    missed + fails < CatchUpDays =>
        \A d \in Days : live[d] > 0 /\ today > d + 1 + missed + fails => stored[d] # None

\* A row never goes back to an older aggregation ("both compute identical numbers
\* and the upsert converges").
\* Not guaranteed by the code: the README tells how it fails.
UpsertConverges ==
    [][\A d \in Days : stored[d] # None => stored'[d] >= stored[d]]_vars

=============================================================================

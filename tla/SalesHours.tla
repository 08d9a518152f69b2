------------------------------ MODULE SalesHours ------------------------------
(***************************************************************************)
(* The business day of an order and the hourly sales report, across a      *)
(* daylight-saving change.  Time is counted in hours, a day has DayHours   *)
(* of them and dates are numbered; the clock on the wall is an hour on or  *)
(* back from some instant.  An order's created_at is the start of its      *)
(* transaction, its business day the clock of the instance later in it.    *)
(***************************************************************************)
EXTENDS Integers, FiniteSetsExt, Absent

CONSTANTS
    SoldOrders,
    DayHours,   \* hours of a calendar day
    StartHour,  \* BUSINESS_DAY_START_HOUR
    LastHour    \* bound on the clock

ASSUME HoursAssumption ==
    DayHours \in Nat \ {0} /\ StartHour \in 0 .. DayHours - 1 /\ LastHour \in Nat

VARIABLES
    now,
    change,      \* the zone: the instant its offset changes, and by how much
    created,     \* orders.created_at, None before the transaction
    businessDay, \* orders.business_day, None before the row
    settled      \* orders with a payment that SUCCEEDED

hourVars == <<now, change, created, businessDay, settled>>

-----------------------------------------------------------------------------
\* What a clock on the wall reads at an instant.
localWallClock(t) ==
    LET wall == DayHours + t + (IF t >= change.at THEN change.by ELSE 0)
    IN [date |-> wall \div DayHours, hour |-> wall % DayHours]

\* MUTANT of businessDayOf: a day is stepped back through the zone.
businessDayOfInstant(t) ==
    IF localWallClock(t).hour >= StartHour THEN localWallClock(t).date
    ELSE localWallClock(t - DayHours).date

businessDayOf(t) ==
    IF localWallClock(t).hour >= StartHour THEN localWallClock(t).date
    ELSE localWallClock(t).date - 1

current == businessDayOf(now)

-----------------------------------------------------------------------------
\* OrdersService.create: BEGIN, which is what now() of the transaction reads ...
begin(o) ==
    /\ created[o] = None
    /\ created' = [created EXCEPT ![o] = now]
    /\ UNCHANGED <<now, change, businessDay, settled>>

\* ... and the row, with the business day the instance reads by then.
persist(o) ==
    /\ created[o] # None /\ businessDay[o] = None
    /\ businessDay' = [businessDay EXCEPT ![o] = businessDayOf(now)]
    /\ UNCHANGED <<now, change, created, settled>>

Settle(o) ==
    /\ businessDay[o] # None /\ o \notin settled
    /\ settled' = settled \cup {o}
    /\ UNCHANGED <<now, change, created, businessDay>>

\* An hour passes; a transaction is shorter than that.
HourPasses ==
    /\ now < LastHour
    /\ \A o \in SoldOrders : created[o] # None /\ businessDay[o] = None => created[o] = now
    /\ now' = now + 1
    /\ UNCHANGED <<change, created, businessDay, settled>>

-----------------------------------------------------------------------------
\* A bucket is labelled by the business day and the hour on the wall.
Label(o) == [day |-> businessDay[o], hour |-> localWallClock(created[o]).hour]

\* hourlyBuckets: the labels of the settled orders of a range, each with the time of its
\* oldest order, by which they are listed.
hourlyBuckets(from, to) ==
    LET counted == {o \in settled : businessDay[o] \in from .. to}
        oldest(b) == Min({created[o] : o \in {p \in counted : Label(p) = b}})
    IN {[bucket |-> b, oldest |-> oldest(b)] : b \in {Label(o) : o \in counted}}

\* salesReport by the hour: refused when the range ends after the day in course.
salesReport(from, to) == IF to > current THEN None ELSE hourlyBuckets(from, to)

-----------------------------------------------------------------------------
HoursInit ==
    /\ now = 0
    /\ change \in [at : 0 .. LastHour, by : {-1, 1}]
    /\ created = [o \in SoldOrders |-> None]
    /\ businessDay = [o \in SoldOrders |-> None]
    /\ settled = {}

HoursNext ==
    \/ \E o \in SoldOrders : begin(o) \/ persist(o) \/ Settle(o)
    \/ HourPasses

HoursSpec == HoursInit /\ [][HoursNext]_hourVars

-----------------------------------------------------------------------------
\* Where an hour stands in the trading of its business day.
Rank(b) == b.day * DayHours + ((b.hour - StartHour) % DayHours)

Straddles(o) == businessDayOf(created[o]) # businessDay[o]

Ranges == (0 .. current) \X (0 .. current)
InOrder(r) ==
    LET report == salesReport(r[1], r[2])
    IN \A a, b \in report :
           a # b /\ a.oldest <= b.oldest => Rank(a.bucket) < Rank(b.bucket)

InRange(r) == {o \in settled : businessDay[o] \in r[1] .. r[2]}

\* The buckets of an hourly report are in the order the cafe traded, business day by
\* business day and the hours past midnight last ("keeps the small-hours buckets of a
\* business day sorted after its evening hours"), in every zone and across a change of
\* the clock, when no order in it straddled the start of a business day.
BucketsInOrder == \A r \in Ranges : (\A o \in InRange(r) : ~Straddles(o)) => InOrder(r)

\* The same for every order.  Not guaranteed by the code: an order begun before the
\* business day starts and written after has the last hour of its new day, which then
\* comes first in the report.
BucketsAlwaysInOrder == \A r \in Ranges : InOrder(r)

=============================================================================

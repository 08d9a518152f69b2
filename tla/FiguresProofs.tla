--------------------------- MODULE FiguresProofs ----------------------------
(* Proofs about the figures the system gives: the gauges of a scrape        *)
(* (ScrapedGauges), the hours sales are counted under (SalesHours) and a    *)
(* day's rollup (DailyRollup), for any gauges, days and instances, and any  *)
(* windows in which LateDays <= RerollDays <= CatchUpDays.                  *)
EXTENDS ScrapedGauges, SalesHours, DailyRollup, WellFoundedInduction, TLAPS

\* A leaf is first-order reasoning, unless it says that it needs SMT.
USE Zenon

-----------------------------------------------------------------------------
(* ScrapedGauges.                                                           *)

\* A check of a scrape is under way or settled, it is settled by its own timeout, and
\* only what has answered in this scrape counts as up: the deadline of dependency_up
\* is never reached without a value.
ReadinessInTime ==
    /\ DOMAIN task = Tasks /\ DOMAIN value = Gauges
    /\ elapsed \in Nat \cup {None}
    /\ dead \subseteq down
    /\ Scraping /\ value["dependency_up"] = None =>
          /\ elapsed <= CheckTimeout
          /\ \A d \in Dependencies : task[d] # "idle"
    /\ ~Scraping => /\ value["dependency_up"] = None
                    /\ \A d \in Dependencies : task[d] = "idle"
    /\ \A d \in Dependencies : task[d] = "answered" => d \notin dead

ScrapeInv == ReadinessInTime /\ DownIsZero

LEMMA ScrapeInitially == ScrapeInit => ScrapeInv
  BY DEF ScrapeInit, ScrapeInv, ReadinessInTime, DownIsZero, Scraping, Tasks, Gauges, Dependencies

LEMMA ScrapeStep == ScrapeInv /\ [ScrapeNext]_scrapeVars => ScrapeInv'
<1> SUFFICES ASSUME ScrapeInv, [ScrapeNext]_scrapeVars
             PROVE  ScrapeInv'
  OBVIOUS
<1> USE DeadlinesAssumption DEF ScrapeInv, ReadinessInTime, DownIsZero, Scraping
<1>0. Dependencies \subseteq Tasks /\ "dependency_up" \in Gauges /\ "dependency_up" \notin Reads
      /\ Reads \cap Dependencies = {} /\ Queries \subseteq Tasks /\ Reads \subseteq Gauges
  BY DEF Tasks, Gauges, Dependencies, Queries
<1>1. CASE handle
  BY <1>0, <1>1, SMT DEF handle, Gauges
<1>2. ASSUME NEW q \in Queries, acquire(q)
      PROVE  ScrapeInv'
  BY <1>0, <1>2 DEF acquire
<1>3. ASSUME NEW q \in Queries, AcquireTimesOut(q)
      PROVE  ScrapeInv'
  BY <1>0, <1>3 DEF AcquireTimesOut
<1>4. ASSUME NEW t \in Tasks, Reply(t)
      PROVE  ScrapeInv'
  <2>1. \A d \in Dependencies : Source(d) = d
    BY DEF Source, Dependencies
  <2> QED
    BY <1>0, <1>4, <2>1, SMT DEF Reply
<1>5. ASSUME NEW d \in Dependencies, withTimeout(d)
      PROVE  ScrapeInv'
  BY <1>0, <1>5 DEF withTimeout
<1>6. ASSUME NEW d \in Dependencies, Fail(d) \/ Recover(d)
      PROVE  ScrapeInv'
  BY <1>0, <1>6 DEF Fail, Recover
<1>7. ASSUME NEW g \in Reads, readOrNothing(g)
      PROVE  ScrapeInv'
  BY <1>0, <1>7 DEF readOrNothing
<1>8. CASE checkReadiness
  <2> DEFINE up(d) == IF task[d] = "answered" THEN 1 ELSE 0
  <2>1. /\ value' = [value EXCEPT !["dependency_up"] = {<<d, up(d)>> : d \in Dependencies}]
        /\ UNCHANGED <<elapsed, task, down, dead>>
    BY <1>8 DEF checkReadiness
  <2>2. value'["dependency_up"] = {<<d, up(d)>> : d \in Dependencies}
    BY <1>0, <2>1
  <2>3. \A d \in Dependencies : <<d, up(d)>> \in value'["dependency_up"]
    BY <2>2
  <2>4. \A d \in Dependencies : up(d) \in {0, 1} /\ (d \in dead => up(d) = 0)
    BY DEF up
  <2>5. DownIsZero'
    BY <2>1, <2>3, <2>4
  <2>6. Scraping
    BY <1>8 DEF checkReadiness, Dependencies
  <2>7. value["dependency_up"] = None /\ DOMAIN value' = Gauges
    BY <1>8, <2>1 DEF checkReadiness
  <2> QED
    BY <2>1, <2>5, <2>6, <2>7, SMT
<1>9. ASSUME NEW g \in Gauges, withDeadline(g)
      PROVE  ScrapeInv'
  BY <1>0, <1>9, SMT DEF withDeadline, AwaitedBy, deadlineOf, Gauges
<1>10. CASE Serialised
  BY <1>0, <1>10 DEF Serialised
<1>11. CASE LateReply
  BY <1>11 DEF LateReply
<1>12. CASE Tick
  BY <1>0, <1>12, SMT DEF Tick, AwaitedBy
<1>13. CASE UNCHANGED scrapeVars
  BY <1>13 DEF scrapeVars
<1> QED
  BY <1>1, <1>2, <1>3, <1>4, <1>5, <1>6, <1>7, <1>8, <1>9, <1>10, <1>11, <1>12, <1>13
     DEF ScrapeNext

\* A scrape always has dependency_up, and 0 in it for a dependency that has not answered
\* since the scrape began, whatever becomes of the pool and in whichever order the checks'
\* timeouts and the gauges' deadlines fire: the check's timeout is the shorter.
THEOREM DownIsZeroHolds == ScrapeSpec => []DownIsZero
<1>1. ScrapeInv => DownIsZero
  BY DEF ScrapeInv
<1> QED
  BY <1>1, ScrapeInitially, ScrapeStep, PTL DEF ScrapeSpec

-----------------------------------------------------------------------------
(* DailyRollup.                                                             *)

USE WindowAssumption

\* The least element of a set of naturals.
LEMMA MinIsMember == ASSUME NEW S \in SUBSET Nat, S # {} PROVE Min(S) \in S
<1> DEFINE R == OpToRel(<, Nat)
<1>1. IsWellFoundedOn(R, Nat)
  BY NatLessThanWellFounded
<1>2. PICK x \in S : \A y \in S : <<y, x>> \notin R
  <2> HIDE DEF R
  <2> QED BY <1>1, WFMin
<1>3. R = {ss \in Nat \X Nat : ss[1] < ss[2]}
  BY DEF OpToRel
<1>4. \A y \in S : x <= y
  <2> HIDE DEF R
  <2> SUFFICES ASSUME NEW y \in S, ~(x <= y) PROVE FALSE
    OBVIOUS
  <2>1. <<y, x>> \in Nat \X Nat /\ y < x
    BY SMT
  <2> QED BY <1>2, <1>3, <2>1
<1> QED BY <1>4 DEF Min

-----------------------------------------------------------------------------
TypeOK ==
    /\ today \in Nat /\ today >= 1
    /\ live \in [Days -> Nat]
    /\ stored \in [Days -> Nat \cup {None}]
    /\ job \in [Instances -> [days : SUBSET Days, row : Nat \cup {None}]]
    /\ ran \in SUBSET Instances
    /\ missed \in Nat /\ fails \in Nat

\* Only an instance that has run tonight has days left, all of them past, and an
\* aggregate in hand is one of a day that is left.
JobsOK ==
    \A i \in Instances :
        /\ i \notin ran => job[i] = idle
        /\ \A d \in job[i].days : d < today
        /\ job[i].row # None => job[i].days # {}

LEMMA UpNextIsLeft ==
    ASSUME TypeOK, JobsOK, NEW i \in Instances, job[i].days # {}
    PROVE  upNext(job[i].days) \in job[i].days /\ upNext(job[i].days) \in Days
<1>1. job[i].days \in SUBSET Days
  BY DEF TypeOK
<1>2. job[i].days \in SUBSET Nat
  BY <1>1, SMT DEF Days
<1> QED BY <1>1, <1>2, MinIsMember DEF upNext

\* What each step makes of the run of its instance.
LEMMA StartedRun ==
    ASSUME TypeOK, JobsOK, NEW i \in Instances, rollUpYesterday(i)
    PROVE  \E ds \in SUBSET Days :
              /\ ds = {Target} \cup daysNeedingRoll(Target)
              /\ \A d \in ds : d < today
              /\ job' = [job EXCEPT ![i] = [days |-> ds, row |-> None]]
<1>1. i \notin ran /\ job[i] = idle /\ Target \in Days
  BY DEF JobsOK, rollUpYesterday
<1>2. job' = [job EXCEPT ![i] = [days |-> {Target} \cup daysNeedingRoll(Target), row |-> None]]
  BY DEF rollUpYesterday
<1>3. {Target} \cup daysNeedingRoll(Target) \in SUBSET Days
  BY <1>1 DEF daysNeedingRoll
<1>4. \A d \in {Target} \cup daysNeedingRoll(Target) : d < today
  BY <1>1, SMT DEF daysNeedingRoll, Target, TypeOK, Days
<1> QED BY <1>2, <1>3, <1>4

LEMMA Aggregated ==
    ASSUME TypeOK, JobsOK, NEW i \in Instances, aggregateDay(i)
    PROVE  /\ i \in ran
           /\ job' = [job EXCEPT ![i] = [days |-> job[i].days, row |-> live[upNext(job[i].days)]]]
           /\ live[upNext(job[i].days)] \in Nat
           /\ job[i].days \in SUBSET Days
<1>1. job[i] \in [days : SUBSET Days, row : Nat \cup {None}] /\ job[i].days # {}
  BY DEF TypeOK, aggregateDay
<1>2. live[upNext(job[i].days)] \in Nat
  BY <1>1, UpNextIsLeft DEF TypeOK
<1>3. i \in ran
  BY <1>1, SMT DEF JobsOK, idle
<1>4. job' = [job EXCEPT ![i] = [days |-> job[i].days, row |-> live[upNext(job[i].days)]]]
  BY <1>1 DEF TypeOK, aggregateDay
<1> QED BY <1>1, <1>2, <1>3, <1>4

LEMMA DayDone ==
    ASSUME TypeOK, JobsOK, NEW i \in Instances, rollDay(i) \/ RollFails(i)
    PROVE  /\ i \in ran /\ job[i].days # {}
           /\ job' = [job EXCEPT ![i] =
                        [days |-> job[i].days \ {upNext(job[i].days)}, row |-> None]]
           /\ job[i].days \ {upNext(job[i].days)} \in SUBSET Days
<1>1. job[i] \in [days : SUBSET Days, row : Nat \cup {None}] /\ job[i].days # {}
  BY DEF TypeOK, JobsOK, rollDay, RollFails
<1>2. i \in ran
  BY <1>1, SMT DEF JobsOK, idle
<1>3. job' = [job EXCEPT ![i] = [days |-> job[i].days \ {upNext(job[i].days)}, row |-> None]]
  BY <1>1 DEF TypeOK, rollDay, RollFails
<1> QED BY <1>1, <1>2, <1>3

LEMMA TypeInit == Init => TypeOK /\ JobsOK
  BY SMT DEF Init, TypeOK, JobsOK, idle, Days

LEMMA TypeNext == TypeOK /\ JobsOK /\ [Next]_vars => TypeOK' /\ JobsOK'
<1> SUFFICES ASSUME TypeOK, JobsOK, [Next]_vars PROVE TypeOK' /\ JobsOK'
  OBVIOUS
<1>1. CASE UNCHANGED vars
  BY <1>1 DEF TypeOK, JobsOK, vars
<1>2. ASSUME NEW d \in Days, Change(d) PROVE TypeOK' /\ JobsOK'
  BY <1>2, SMT DEF TypeOK, JobsOK, Change
<1>3. ASSUME NEW i \in Instances, rollUpYesterday(i) PROVE TypeOK' /\ JobsOK'
  <2>1. PICK ds \in SUBSET Days :
            /\ \A d \in ds : d < today
            /\ job' = [job EXCEPT ![i] = [days |-> ds, row |-> None]]
    BY <1>3, StartedRun
  <2>2. UNCHANGED <<today, live, stored, missed, fails>> /\ ran' = ran \cup {i}
    BY <1>3 DEF rollUpYesterday
  <2>3. TypeOK'
    BY <2>1, <2>2 DEF TypeOK
  <2>4. JobsOK'
    BY <2>1, <2>2 DEF TypeOK, JobsOK, idle
  <2> QED BY <2>3, <2>4
<1>4. ASSUME NEW i \in Instances, aggregateDay(i) PROVE TypeOK' /\ JobsOK'
  BY <1>4, Aggregated DEF TypeOK, JobsOK, aggregateDay, idle
<1>5. ASSUME NEW i \in Instances, rollDay(i) PROVE TypeOK' /\ JobsOK'
  <2> DEFINE d == upNext(job[i].days)
  <2>1. /\ i \in ran /\ job[i].days # {} /\ job[i].days \ {d} \in SUBSET Days
        /\ job' = [job EXCEPT ![i] = [days |-> job[i].days \ {d}, row |-> None]]
    BY <1>5, DayDone
  <2>2. d \in Days /\ d \in job[i].days
    BY <2>1, UpNextIsLeft
  <2>3. /\ UNCHANGED <<today, live, ran, missed, fails>>
        /\ stored' = [stored EXCEPT ![d] = job[i].row]
    BY <1>5 DEF rollDay
  <2> HIDE DEF d
  <2>4. TypeOK'
    BY <2>1, <2>2, <2>3 DEF TypeOK
  <2>5. JobsOK'
    BY <2>1, <2>3 DEF TypeOK, JobsOK, idle
  <2> QED BY <2>4, <2>5
<1>6. ASSUME NEW i \in Instances, RollFails(i) PROVE TypeOK' /\ JobsOK'
  <2> DEFINE d == upNext(job[i].days)
  <2>1. /\ i \in ran /\ job[i].days \ {d} \in SUBSET Days
        /\ job' = [job EXCEPT ![i] = [days |-> job[i].days \ {d}, row |-> None]]
    BY <1>6, DayDone
  <2>2. UNCHANGED <<today, live, stored, ran, missed>> /\ fails' = fails + 1
    BY <1>6 DEF RollFails
  <2> HIDE DEF d
  <2>3. TypeOK'
    BY <2>1, <2>2, SMT DEF TypeOK
  <2>4. JobsOK'
    BY <2>1, <2>2 DEF TypeOK, JobsOK, idle
  <2> QED BY <2>3, <2>4
<1>7. ASSUME NextDay PROVE TypeOK' /\ JobsOK'
  BY <1>7, SMT DEF TypeOK, JobsOK, NextDay, idle
<1> QED BY <1>1, <1>2, <1>3, <1>4, <1>5, <1>6, <1>7 DEF Next

-----------------------------------------------------------------------------
\* A day with orders that has no row yet has cost a lost night or a failed roll
\* for every night since its first; tonight's too, once a run has left it out.
Overdue(d) == live[d] > 0 /\ d < today /\ stored[d] = None

LeftOut(d) == \E i \in ran : d \notin job[i].days

NightsAccounted ==
    missed + fails < CatchUpDays =>
        \A d \in Days :
            Overdue(d) => /\ today <= d + 1 + missed + fails
                          /\ LeftOut(d) => today < d + 1 + missed + fails

LEMMA NightsNext ==
    TypeOK /\ JobsOK /\ NightsAccounted /\ [Next]_vars => NightsAccounted'
<1> SUFFICES ASSUME TypeOK, JobsOK, NightsAccounted, [Next]_vars,
                    (missed + fails < CatchUpDays)',
                    NEW d \in Days, Overdue(d)'
             PROVE  /\ today' <= d + 1 + missed' + fails'
                    /\ LeftOut(d)' => today' < d + 1 + missed' + fails'
  BY DEF NightsAccounted
<1> USE DEF Overdue, LeftOut
<1>0. d \in Nat /\ TypeOK' /\ JobsOK'
  BY TypeNext, SMT DEF Days
<1>1. CASE UNCHANGED vars
  BY <1>1 DEF NightsAccounted, vars
<1>2. ASSUME NEW e \in Days, Change(e) PROVE Overdue(d) /\ UNCHANGED <<today, missed, fails, ran, job>>
  BY <1>0, <1>2, SMT DEF Change, TypeOK, Days
<1>3. ASSUME NEW i \in Instances, rollUpYesterday(i)
      PROVE  /\ today' <= d + 1 + missed' + fails'
             /\ LeftOut(d)' => today' < d + 1 + missed' + fails'
  <2>1. /\ UNCHANGED <<today, live, stored, missed, fails>> /\ ran' = ran \cup {i}
        /\ i \notin ran
    BY <1>3 DEF rollUpYesterday
  <2>2. Overdue(d) /\ today <= d + 1 + missed + fails
    BY <2>1 DEF NightsAccounted
  \* The run is within the catch-up window of the day and takes it in.
  <2>3. d \in {Target} \cup daysNeedingRoll(Target)
    BY <1>0, <2>1, <2>2, SMT DEF daysNeedingRoll, Target, TypeOK
  <2>4. d \in job'[i].days /\ \A k \in ran : job'[k] = job[k]
    BY <1>3, <2>1, <2>3, StartedRun, SMT DEF TypeOK
  <2>5. LeftOut(d)' => LeftOut(d)
    BY <2>1, <2>4
  <2> QED BY <2>1, <2>2, <2>5 DEF NightsAccounted
<1>4. ASSUME NEW i \in Instances, aggregateDay(i)
      PROVE  Overdue(d) /\ UNCHANGED <<today, missed, fails>> /\ (LeftOut(d)' => LeftOut(d))
  BY <1>4, Aggregated DEF aggregateDay, TypeOK
<1>5. ASSUME NEW i \in Instances, rollDay(i)
      PROVE  Overdue(d) /\ UNCHANGED <<today, missed, fails>> /\ (LeftOut(d)' => LeftOut(d))
  <2>1. job[i].row # None /\ job[i].days # {}
    BY <1>5 DEF rollDay, JobsOK
  <2>2. upNext(job[i].days) \in Days
    BY <2>1, UpNextIsLeft
  <2>3. d # upNext(job[i].days) /\ Overdue(d)
    BY <1>5, <2>1, <2>2 DEF rollDay, TypeOK
  <2> QED BY <1>5, <2>3, DayDone DEF rollDay, TypeOK
<1>6. ASSUME NEW i \in Instances, RollFails(i)
      PROVE  /\ today' <= d + 1 + missed' + fails'
             /\ LeftOut(d)' => today' < d + 1 + missed' + fails'
  <2>1. fails' = fails + 1 /\ UNCHANGED <<today, live, stored, ran, missed>>
    BY <1>6 DEF RollFails
  <2>2. today <= d + 1 + missed + fails
    BY <2>1, SMT DEF NightsAccounted, TypeOK
  <2> QED BY <1>0, <2>1, <2>2, SMT DEF TypeOK
<1>7. ASSUME NextDay
      PROVE  /\ today' <= d + 1 + missed' + fails'
             /\ LeftOut(d)' => today' < d + 1 + missed' + fails'
  <2>1. /\ today' = today + 1 /\ ran' = {} /\ UNCHANGED <<live, stored, fails>>
        /\ missed' \in {missed, missed + 1}
        /\ \A i \in Instances : job[i].days = {}
    BY <1>7, SMT DEF NextDay, idle
  <2>a. ~LeftOut(d)'
    BY <2>1
  <2>b. /\ today \in Nat /\ missed \in Nat /\ fails \in Nat
        /\ today' = today + 1 /\ fails' = fails
        /\ missed' = missed \/ missed' = missed + 1
    BY <2>1 DEF TypeOK
  <2> SUFFICES today' <= d + 1 + missed' + fails'
    BY <2>a
  <2> HIDE DEF LeftOut, Overdue
  <2>2. CASE d = today
    BY <1>0, <2>b, <2>2, SMT
  <2>3. CASE d # today
    <3>1. Overdue(d) /\ today <= d + 1 + missed + fails /\ Target \in Days
      BY <1>0, <1>7, <2>1, <2>3, SMT DEF NightsAccounted, TypeOK, Overdue, Target, Days, NextDay
    <3>2. CASE ran = {}
      <4>1. missed' = missed + 1
        BY <1>7, <2>1, <3>1, <3>2, SMT DEF NextDay
      <4> QED BY <1>0, <2>b, <3>1, <4>1, SMT
    <3>3. CASE ran # {}
      <4>1. LeftOut(d)
        BY <2>1, <3>3 DEF TypeOK, LeftOut
      <4>2. today < d + 1 + missed + fails
        BY <1>0, <2>1, <3>1, <4>1, SMT DEF NightsAccounted, TypeOK
      <4> QED BY <1>0, <2>b, <4>2, SMT
    <3> QED BY <3>2, <3>3
  <2> QED BY <2>2, <2>3
<1>8. ASSUME Overdue(d), UNCHANGED <<today, missed, fails>>, LeftOut(d)' => LeftOut(d)
      PROVE  /\ today' <= d + 1 + missed' + fails'
             /\ LeftOut(d)' => today' < d + 1 + missed' + fails'
  BY <1>8 DEF NightsAccounted
<1>9. ASSUME NEW e \in Days, Change(e) PROVE LeftOut(d)' => LeftOut(d)
  BY <1>2, <1>9
<1> HIDE DEF Overdue, LeftOut
<1> QED BY <1>1, <1>2, <1>3, <1>4, <1>5, <1>6, <1>7, <1>8, <1>9 DEF Next

\* Fewer than CATCH_UP_DAYS lost nights and failed rolls leave no day without a row:
\* each of them delays a day's first row by one night (daysNeedingRoll, rollDays).
THEOREM EveryDayIsRolledHolds == Spec => []EveryDayIsRolled
<1>1. Init => NightsAccounted
  BY SMT DEF Init, NightsAccounted, Overdue
<1>2. TypeOK /\ NightsAccounted => EveryDayIsRolled
  BY SMT DEF EveryDayIsRolled, NightsAccounted, Overdue, TypeOK, Days
<1> QED BY <1>1, <1>2, TypeInit, TypeNext, NightsNext, PTL DEF Spec

-----------------------------------------------------------------------------
\* The last night that visits a day: nothing can change it any more.
LastNight(d) == live[d] > 0 /\ today = d + 1 + RerollDays

\* With every night run and no roll failed: on its last night a day is right or is
\* still ahead of every run that has begun, and what a run holds of it is right;
\* afterwards it is right and in no run.
LastNightIsRight ==
    missed + fails = 0 =>
        \A d \in Days :
            /\ LastNight(d) =>
                  /\ \A i \in ran : d \in job[i].days \/ stored[d] = live[d]
                  /\ \A i \in Instances :
                        job[i].row # None /\ upNext(job[i].days) = d => job[i].row = live[d]
            /\ Closed(d) /\ live[d] > 0 =>
                  stored[d] = live[d] /\ \A i \in Instances : d \notin job[i].days

LEMMA LastNightNext ==
    TypeOK /\ JobsOK /\ LastNightIsRight /\ [Next]_vars => LastNightIsRight'
<1> SUFFICES ASSUME TypeOK, JobsOK, LastNightIsRight, [Next]_vars, (missed + fails = 0)',
                    NEW d \in Days
             PROVE  /\ LastNight(d)' =>
                          /\ \A i \in ran' : d \in job'[i].days \/ stored'[d] = live'[d]
                          /\ \A i \in Instances :
                                job'[i].row # None /\ upNext(job[i].days)' = d
                                    => job'[i].row = live'[d]
                    /\ Closed(d)' /\ live'[d] > 0 =>
                          /\ stored'[d] = live'[d]
                          /\ \A i \in Instances : d \notin job'[i].days
  BY DEF LastNightIsRight
<1> DEFINE
      Tonight == LastNight(d) =>
                    /\ \A i \in ran : d \in job[i].days \/ stored[d] = live[d]
                    /\ \A i \in Instances :
                          job[i].row # None /\ upNext(job[i].days) = d => job[i].row = live[d]
      After == Closed(d) /\ live[d] > 0 =>
                    stored[d] = live[d] /\ \A i \in Instances : d \notin job[i].days
<1> SUFFICES Tonight' /\ After'
  OBVIOUS
<1>a. d \in Nat /\ today \in Nat /\ RerollDays \in Nat /\ LateDays \in Nat /\ CatchUpDays \in Nat
  BY SMT DEF TypeOK, Days
<1>b. ASSUME missed + fails = 0 PROVE Tonight /\ After
  BY <1>b DEF LastNightIsRight
<1>1. CASE UNCHANGED vars
  BY <1>1, <1>b DEF vars, LastNight, Closed, upNext, Target
\* Neither a day on its last night nor one that is closed takes a change.
<1>2. ASSUME NEW e \in Days, Change(e) PROVE Tonight' /\ After'
  <2>1. UNCHANGED <<today, stored, job, ran, missed, fails>>
    BY <1>2 DEF Change
  <2>2. CASE live'[d] = live[d]
    BY <1>b, <2>1, <2>2 DEF LastNight, Closed, upNext, Target
  <2>3. CASE live'[d] # live[d]
    <3>1. d = today \/ today <= d + LateDays
      BY <1>2, <2>3, SMT DEF Change, TypeOK
    <3>2. today < d + 1 + RerollDays
      BY <1>a, <3>1, SMT
    <3> QED BY <1>a, <2>1, <3>2, SMT DEF LastNight, Closed
  <2> QED BY <2>2, <2>3
<1>3. ASSUME NEW i \in Instances, rollUpYesterday(i) PROVE Tonight' /\ After'
  <2>1. /\ UNCHANGED <<today, live, stored, missed, fails>> /\ ran' = ran \cup {i}
        /\ i \notin ran /\ Target \in Days
    BY <1>3 DEF rollUpYesterday
  <2>2. PICK ds \in SUBSET Days :
            /\ ds = {Target} \cup daysNeedingRoll(Target)
            /\ job' = [job EXCEPT ![i] = [days |-> ds, row |-> None]]
    BY <1>3, StartedRun
  <2>3. job'[i].days = ds /\ job'[i].row = None /\ \A k \in Instances \ {i} : job'[k] = job[k]
    BY <2>2 DEF TypeOK
  <2>4. Tonight /\ After
    BY <1>b, <2>1
  <2>5. Tonight'
    <3> SUFFICES ASSUME LastNight(d) PROVE Tonight'
      BY <2>1 DEF LastNight
    <3>1. d \in ds
      BY <1>a, <2>2, SMT DEF LastNight, daysNeedingRoll, Target
    <3> QED BY <2>1, <2>3, <2>4, <3>1 DEF upNext, Target, LastNight, TypeOK
  <2>6. After'
    <3> SUFFICES ASSUME Closed(d), live[d] > 0 PROVE After'
      BY <2>1 DEF Closed
    <3>1. stored[d] = live[d] /\ stored[d] # None
      BY <2>4, SMTT(30) DEF TypeOK
    <3>2. d \notin ds
      BY <1>a, <2>2, <3>1, SMT DEF Closed, daysNeedingRoll, Target
    <3> QED BY <2>1, <2>3, <2>4, <3>2 DEF Closed
  <2> QED BY <2>5, <2>6
<1>4. ASSUME NEW i \in Instances, aggregateDay(i) PROVE Tonight' /\ After'
  <2>1. UNCHANGED <<today, live, stored, ran, missed, fails>>
    BY <1>4 DEF aggregateDay
  <2>2. /\ job'[i].days = job[i].days /\ job'[i].row = live[upNext(job[i].days)]
        /\ \A k \in Instances \ {i} : job'[k] = job[k]
    BY <1>4, Aggregated, SMT DEF TypeOK
  <2> QED BY <1>b, <2>1, <2>2, SMT DEF LastNight, Closed, upNext, Target, TypeOK
<1>5. ASSUME NEW i \in Instances, rollDay(i) PROVE Tonight' /\ After'
  <2> DEFINE n == upNext(job[i].days)
  <2>1. /\ UNCHANGED <<today, live, ran, missed, fails>> /\ job[i].row # None
        /\ stored' = [stored EXCEPT ![n] = job[i].row]
    BY <1>5 DEF rollDay
  <2>2. n \in Days /\ n \in job[i].days
    BY <1>5, DayDone, UpNextIsLeft
  <2>3. /\ job'[i].days = job[i].days \ {n} /\ job'[i].row = None
        /\ \A k \in Instances \ {i} : job'[k] = job[k]
    BY <1>5, DayDone, SMT DEF TypeOK
  <2>4. Tonight /\ After
    BY <1>b, <2>1
  <2>5. stored'[d] = IF d = n THEN job[i].row ELSE stored[d]
    BY <2>1, <2>2 DEF TypeOK
  <2>6. \A k \in Instances \ {i} : upNext(job[k].days)' = upNext(job[k].days)
    BY <2>1, <2>3 DEF upNext, Target
  <2>7. Tonight'
    <3> SUFFICES ASSUME LastNight(d) PROVE Tonight'
      BY <2>1 DEF LastNight
    <3>1. d = n => stored'[d] = live[d]
      BY <2>1, <2>4, <2>5, SMT
    <3>2. \A k \in ran : d \in job'[k].days \/ stored'[d] = live[d]
      BY <2>3, <2>4, <2>5, <3>1 DEF TypeOK
    <3> HIDE DEF n
    <3> QED BY <2>1, <2>3, <2>4, <2>6, <3>2 DEF LastNight
  <2>8. After'
    BY <2>1, <2>2, <2>3, <2>4, <2>5, SMT DEF Closed
  <2> QED BY <2>7, <2>8
<1>6. ASSUME NEW i \in Instances, RollFails(i) PROVE FALSE
  BY <1>6, SMT DEF RollFails, TypeOK
\* A day's last night is over: some instance ran, and is done with the day.
<1>7. ASSUME NextDay PROVE Tonight' /\ After'
  <2>1. /\ today' = today + 1 /\ ran' = {} /\ UNCHANGED <<live, stored, fails, job>>
        /\ \A i \in Instances : job[i] = idle
    BY <1>7 DEF NextDay
  <2>2. missed + fails = 0 /\ (Target \in Days => ran # {})
    BY <1>7, SMT DEF NextDay, TypeOK
  <2>3. Tonight /\ After
    BY <1>b, <2>2
  <2>4. Tonight'
    BY <2>1, SMT DEF idle, LastNight
  <2>5. After'
    <3> SUFFICES ASSUME Closed(d)', live[d] > 0 PROVE stored[d] = live[d]
      BY <2>1, SMT DEF idle
    <3>1. CASE Closed(d)
      BY <2>3, <3>1
    <3>2. CASE LastNight(d)
      <4>1. Target \in Days
        BY <1>a, <1>7, <3>2, SMT DEF LastNight, Target, Days, NextDay
      <4>2. PICK i \in Instances : i \in ran /\ job[i].days = {}
        BY <2>1, <2>2, <4>1, SMT DEF idle, TypeOK
      <4> QED BY <2>3, <3>2, <4>2
    <3>3. Closed(d) \/ LastNight(d)
      BY <1>a, <2>1, SMT DEF Closed, LastNight
    <3> QED BY <3>1, <3>2, <3>3
  <2> QED BY <2>4, <2>5
<1> HIDE DEF Tonight, After
<1> QED BY <1>1, <1>2, <1>3, <1>4, <1>5, <1>6, <1>7 DEF Next

\* When every night runs and no roll fails, the row of a day that no run will visit
\* again accounts for every change, whatever the two runs of a night and the late
\* changes interleave: the last night begins after the last change (REROLL_DAYS).
THEOREM FinalIsRightHolds == Spec => []FinalIsRight
<1>1. Init => LastNightIsRight
  BY SMT DEF Init, LastNightIsRight, LastNight, Days
<1>2. LastNightIsRight => FinalIsRight
  BY DEF LastNightIsRight, FinalIsRight
<1> QED BY <1>1, <1>2, TypeInit, TypeNext, LastNightNext, PTL DEF Spec

-----------------------------------------------------------------------------
(* SalesHours.                                                              *)

USE HoursAssumption

\* An order with a row has a time, and every settled order has a row.
HoursInv ==
    /\ now \in Nat
    /\ change \in [at : Int, by : {-1, 1}]
    /\ created \in [SoldOrders -> Nat \cup {None}]
    /\ businessDay \in [SoldOrders -> Int \cup {None}]
    /\ \A o \in SoldOrders : businessDay[o] # None => created[o] \in Nat
    /\ settled \subseteq {o \in SoldOrders : businessDay[o] # None}

\* The hours the clock on the wall has counted at an instant.
Wall(t) == DayHours + t + (IF t >= change.at THEN change.by ELSE 0)

-----------------------------------------------------------------------------
\* Division with remainder.
LEMMA DivisionOfHours ==
    ASSUME NEW w \in Nat
    PROVE  /\ w \div DayHours \in Int /\ w % DayHours \in 0 .. DayHours - 1
           /\ w = (w \div DayHours) * DayHours + (w % DayHours)
  BY SMT

\* The remainder of a number less than one day off.
LEMMA HourOfDay ==
    ASSUME NEW h \in Int, -DayHours < h, h < DayHours
    PROVE  h % DayHours = IF h >= 0 THEN h ELSE h + DayHours
  BY SMT

\* The wall counts on, or stands for an hour when the clock goes back, and does so in
\* hours that are natural numbers.
LEMMA WallCountsOn ==
    ASSUME HoursInv, NEW t \in Nat
    PROVE  /\ Wall(t) \in Nat
           /\ \A u \in Nat : t <= u => Wall(t) <= Wall(u)
  BY SMT DEF HoursInv, Wall

\* An hour's place in the trading of its business day is the hour the wall has counted,
\* from the start of a day on: the hours before the start hour follow those of the day before.
LEMMA RankIsWall ==
    ASSUME HoursInv, NEW t \in Nat, NEW b, b.day = businessDayOf(t), b.hour = localWallClock(t).hour
    PROVE  Rank(b) = Wall(t) - StartHour
<1> DEFINE d == Wall(t) \div DayHours
           h == Wall(t) % DayHours
<1>1. localWallClock(t).date = d /\ localWallClock(t).hour = h
  BY DEF localWallClock, Wall
<1>2. d \in Int /\ h \in 0 .. DayHours - 1 /\ Wall(t) = d * DayHours + h
  BY WallCountsOn, DivisionOfHours
<1>3. b.day = (IF h >= StartHour THEN d ELSE d - 1) /\ b.hour = h
  BY <1>1 DEF businessDayOf
<1> HIDE DEF d, h
<1>4. (h - StartHour) % DayHours = IF h >= StartHour THEN h - StartHour ELSE h - StartHour + DayHours
  <2>1. h - StartHour \in Int /\ -DayHours < h - StartHour /\ h - StartHour < DayHours
    BY <1>2, SMT
  <2>2. (h - StartHour) % DayHours = IF h - StartHour >= 0 THEN h - StartHour ELSE (h - StartHour) + DayHours
    BY <2>1, HourOfDay
  <2> QED
    BY <1>2, <2>2, SMT
<1> QED
  BY <1>2, <1>3, <1>4, SMT DEF Rank

\* Two orders that lie in different hours of the report are in different hours on the wall.
LEMMA LabelIsWall ==
    ASSUME NEW o, NEW p, ~Straddles(o), ~Straddles(p),
           Wall(created[o]) = Wall(created[p])
    PROVE  Label(o) = Label(p)
<1>1. businessDay[o] = businessDayOf(created[o]) /\ businessDay[p] = businessDayOf(created[p])
  BY DEF Straddles
<1>2. localWallClock(created[o]) = localWallClock(created[p])
  BY DEF localWallClock, Wall
<1>3. businessDayOf(created[o]) = businessDayOf(created[p])
  BY <1>2 DEF businessDayOf
<1> QED
  BY <1>1, <1>2, <1>3 DEF Label

\* The bucket of a report stands for one of its orders, the oldest.
LEMMA BucketHasOldest ==
    ASSUME HoursInv, NEW from, NEW to, NEW b \in hourlyBuckets(from, to)
    PROVE  \E o \in InRange(<<from, to>>) : b.bucket = Label(o) /\ b.oldest = created[o]
<1> DEFINE counted == {o \in settled : businessDay[o] \in from .. to}
           times(l) == {created[o] : o \in {p \in counted : Label(p) = l}}
<1>1. PICK l \in {Label(o) : o \in counted} : b = [bucket |-> l, oldest |-> Min(times(l))]
  BY DEF hourlyBuckets
<1>2. times(l) \in SUBSET Nat /\ times(l) # {}
  <2>1. \A o \in settled : created[o] \in Nat
    BY DEF HoursInv
  <2>2. times(l) \in SUBSET Nat
    BY <2>1
  <2>3. PICK o \in counted : Label(o) = l
    OBVIOUS
  <2>4. created[o] \in times(l)
    BY <2>3
  <2> QED
    BY <2>2, <2>4
<1>3. Min(times(l)) \in times(l)
  <2> HIDE DEF times
  <2> QED
    BY <1>2, MinIsMember
<1>4. PICK o \in counted : Label(o) = l /\ Min(times(l)) = created[o]
  BY <1>3
<1>5. o \in InRange(<<from, to>>)
  BY DEF InRange
<1> QED
  BY <1>1, <1>4, <1>5

\* A label has one bucket.
LEMMA BucketIsItsLabel ==
    ASSUME NEW from, NEW to, NEW a \in hourlyBuckets(from, to), NEW b \in hourlyBuckets(from, to),
           a.bucket = b.bucket
    PROVE  a = b
<1> DEFINE counted == {o \in settled : businessDay[o] \in from .. to}
           time(l) == Min({created[o] : o \in {p \in counted : Label(p) = l}})
<1>1. PICK l \in {Label(o) : o \in counted} : a = [bucket |-> l, oldest |-> time(l)]
  BY DEF hourlyBuckets
<1>2. PICK k \in {Label(o) : o \in counted} : b = [bucket |-> k, oldest |-> time(k)]
  BY DEF hourlyBuckets
<1> HIDE DEF time, counted
<1> QED
  BY <1>1, <1>2

LEMMA HourlyInOrder ==
    ASSUME HoursInv, NEW from, NEW to, \A o \in InRange(<<from, to>>) : ~Straddles(o),
           NEW a \in hourlyBuckets(from, to), NEW b \in hourlyBuckets(from, to),
           a # b, a.oldest <= b.oldest
    PROVE  Rank(a.bucket) < Rank(b.bucket)
<1>0. \A c \in hourlyBuckets(from, to) :
         \E o \in InRange(<<from, to>>) : c.bucket = Label(o) /\ c.oldest = created[o]
  BY BucketHasOldest
<1>1. PICK o \in InRange(<<from, to>>) : a.bucket = Label(o) /\ a.oldest = created[o]
  BY <1>0
<1>2. PICK p \in InRange(<<from, to>>) : b.bucket = Label(p) /\ b.oldest = created[p]
  BY <1>0
<1>3. /\ o \in SoldOrders /\ created[o] \in Nat /\ businessDay[o] = businessDayOf(created[o])
      /\ p \in SoldOrders /\ created[p] \in Nat /\ businessDay[p] = businessDayOf(created[p])
  BY DEF HoursInv, Straddles, InRange
<1>4. Rank(a.bucket) = Wall(created[o]) - StartHour /\ Rank(b.bucket) = Wall(created[p]) - StartHour
  <2>1. /\ Label(o).day = businessDay[o] /\ Label(o).hour = localWallClock(created[o]).hour
        /\ Label(p).day = businessDay[p] /\ Label(p).hour = localWallClock(created[p]).hour
    BY DEF Label
  <2> QED
    BY <1>1, <1>2, <1>3, <2>1, RankIsWall
<1>5. Wall(created[o]) <= Wall(created[p]) /\ Wall(created[o]) \in Nat /\ Wall(created[p]) \in Nat
  BY <1>1, <1>2, <1>3, WallCountsOn
<1>6. Wall(created[o]) # Wall(created[p])
  BY <1>1, <1>2, <1>3, LabelIsWall, BucketIsItsLabel
<1> QED
  BY <1>4, <1>5, <1>6, SMT

-----------------------------------------------------------------------------
LEMMA BusinessDayIsInt ==
    ASSUME HoursInv, NEW t \in Nat
    PROVE  businessDayOf(t) \in Int
<1>1. Wall(t) \div DayHours \in Int
  BY WallCountsOn, DivisionOfHours
<1>2. localWallClock(t).date \in Int
  BY <1>1 DEF localWallClock, Wall
<1> QED
  BY <1>2, SMT DEF businessDayOf

LEMMA HoursInitially == HoursInit => HoursInv
  BY SMT DEF HoursInit, HoursInv

LEMMA HoursStep == HoursInv /\ [HoursNext]_hourVars => HoursInv'
<1> SUFFICES ASSUME HoursInv, [HoursNext]_hourVars PROVE HoursInv'
  OBVIOUS
<1>1. ASSUME NEW o \in SoldOrders, begin(o) PROVE HoursInv'
  BY <1>1 DEF begin, HoursInv
<1>2. ASSUME NEW o \in SoldOrders, persist(o) PROVE HoursInv'
  <2>1. businessDayOf(now) \in Int
    BY BusinessDayIsInt DEF HoursInv
  <2> QED
    BY <1>2, <2>1 DEF persist, HoursInv
<1>3. ASSUME NEW o \in SoldOrders, Settle(o) PROVE HoursInv'
  BY <1>3 DEF Settle, HoursInv
<1>4. CASE HourPasses
  <2>1. now' \in Nat
    BY <1>4, SMT DEF HourPasses, HoursInv
  <2> QED
    BY <1>4, <2>1 DEF HourPasses, HoursInv
<1>5. CASE UNCHANGED hourVars
  BY <1>5 DEF hourVars, HoursInv
<1> QED
  BY <1>1, <1>2, <1>3, <1>4, <1>5 DEF HoursNext

\* The buckets of every hourly report come in the order the cafe traded, for any number of
\* orders, any length of the day and start hour, and an hour put on or back at any time,
\* when no order in it straddles the start of a business day (hourlyBuckets, businessDayOf).
THEOREM BucketsInOrderHolds == HoursSpec => []BucketsInOrder
<1>1. HoursInv => BucketsInOrder
  <2> SUFFICES ASSUME HoursInv, NEW r \in Ranges, \A o \in InRange(r) : ~Straddles(o)
               PROVE  InOrder(r)
    BY DEF BucketsInOrder
  <2>1. current \in Int
    BY BusinessDayIsInt DEF current, HoursInv
  <2>2. r[2] \in 0 .. current
    BY DEF Ranges
  <2>3. ~(r[2] > current)
    BY <2>1, <2>2, SMTT(30)
  <2>4. InRange(<<r[1], r[2]>>) = InRange(r)
    BY DEF InRange
  <2> QED
    BY <2>3, <2>4, HourlyInOrder DEF InOrder, salesReport
<1> QED
  BY <1>1, HoursInitially, HoursStep, PTL DEF HoursSpec

=============================================================================

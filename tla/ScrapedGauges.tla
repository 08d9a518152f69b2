---------------------------- MODULE ScrapedGauges ----------------------------
(***************************************************************************)
(* One scrape of /metrics after another on one instance.  Every gauge that *)
(* needs the database reads it anew, all at once and through the instance's *)
(* pool, and gives up at its deadline; dependency_up runs the readiness    *)
(* checks, which have a timeout of their own.  A query nobody waits for any *)
(* more keeps its connection until the database answers it.  Prometheus    *)
(* starts a scrape when the last one is over.                              *)
(***************************************************************************)
EXTENDS Naturals, FiniteSets, Absent

CONSTANTS
    Reads,              \* the gauges that are one query each
    PoolMax,            \* connections of the pool
    AcquireTimeout,     \* connectionTimeoutMillis, in ticks, like the next three
    CheckTimeout,       \* CHECK_TIMEOUT_MS
    DefaultDeadline,    \* DEFAULT_DEADLINE_MS
    ReadinessDeadline   \* READINESS_DEADLINE_MS

\* A check that has timed out is a value before the deadline of dependency_up.
ASSUME DeadlinesAssumption ==
    /\ CheckTimeout \in Nat /\ ReadinessDeadline \in Nat
    /\ CheckTimeout < ReadinessDeadline
    /\ Reads \cap {"db", "redis", "dependency_up"} = {}
    /\ None \notin Nat

VARIABLES
    elapsed,  \* ticks since the scrape began, None between two scrapes
    task,     \* a query or the ping: "waiting" (for a connection), "asking",
              \* "answered", "failed", or "idle" when nobody waits for it
    value,    \* the samples <<label, number>> of a gauge, None until it is read
    late,     \* connections of queries that were given up
    down,     \* the dependencies that do not answer
    dead      \* those of them that have not answered since the scrape began

scrapeVars == <<elapsed, task, value, late, down, dead>>

Dependencies == {"db", "redis"}   \* the two readiness checks
Queries == Reads \cup {"db"}
Tasks == Reads \cup Dependencies
Gauges == Reads \cup {"dependency_up"}

Scraping == elapsed # None
held == late + Cardinality({q \in Queries : task[q] = "asking"})

-----------------------------------------------------------------------------
\* MetricsServer.handle: every gauge begins its read.  The ping needs no connection.
handle ==
    /\ ~Scraping
    /\ elapsed' = 0
    /\ task' = [t \in Tasks |-> IF t = "redis" THEN "asking" ELSE "waiting"]
    /\ value' = [g \in Gauges |-> None]
    /\ dead' = down
    /\ UNCHANGED <<late, down>>

\* The pool has a connection for a query; connecting to a dead database may also hang.
acquire(q) ==
    /\ task[q] = "waiting" /\ held < PoolMax
    /\ task' = [task EXCEPT ![q] = "asking"]
    /\ UNCHANGED <<elapsed, value, late, down, dead>>

AcquireTimesOut(q) ==
    /\ task[q] = "waiting" /\ elapsed = AcquireTimeout
    /\ task' = [task EXCEPT ![q] = "failed"]
    /\ UNCHANGED <<elapsed, value, late, down, dead>>

Source(t) == IF t = "redis" THEN "redis" ELSE "db"

\* What was asked comes back; with the dependency down it may fail at once.
Reply(t) ==
    /\ task[t] = "asking"
    /\ \/ Source(t) \notin down /\ task' = [task EXCEPT ![t] = "answered"]
       \/ Source(t) \in down /\ task' = [task EXCEPT ![t] = "failed"]
    /\ UNCHANGED <<elapsed, value, late, down, dead>>

\* HealthService.withTimeout: the check counts as failed, its query goes on.
withTimeout(d) ==
    /\ task[d] \in {"waiting", "asking"} /\ elapsed = CheckTimeout
    /\ task' = [task EXCEPT ![d] = "failed"]
    /\ late' = IF d = "db" /\ task[d] = "asking" THEN late + 1 ELSE late
    /\ UNCHANGED <<elapsed, value, down, dead>>

-----------------------------------------------------------------------------
\* MUTANT of deadlineOf: dependency_up has the deadline of the other gauges.
deadlineOfDefault(g) == DefaultDeadline

deadlineOf(g) == IF g = "dependency_up" THEN ReadinessDeadline ELSE DefaultDeadline

\* A read by one query: its rows, or nothing when it failed.
readOrNothing(g) ==
    /\ value[g] = None /\ task[g] \in {"answered", "failed"}
    /\ value' = [value EXCEPT ![g] = IF task[g] = "answered" THEN {<<g, 1>>} ELSE {}]
    /\ UNCHANGED <<elapsed, task, late, down, dead>>

\* checkReadiness: once both checks are settled, 1 for what is up and 0 for what is down.
checkReadiness ==
    /\ value["dependency_up"] = None
    /\ \A d \in Dependencies : task[d] \in {"answered", "failed"}
    /\ value' = [value EXCEPT !["dependency_up"] =
                    {<<d, IF task[d] = "answered" THEN 1 ELSE 0>> : d \in Dependencies}]
    /\ UNCHANGED <<elapsed, task, late, down, dead>>

\* The tasks a gauge waits for.
AwaitedBy(g) == IF g = "dependency_up" THEN Dependencies ELSE {g}

\* withDeadline: no value; what is still being asked is left to itself.
withDeadline(g) ==
    LET left == {t \in AwaitedBy(g) : task[t] = "asking"} IN
    /\ value[g] = None /\ elapsed = deadlineOf(g)
    /\ value' = [value EXCEPT ![g] = {}]
    /\ task' = [t \in Tasks |-> IF t \in AwaitedBy(g) THEN "idle" ELSE task[t]]
    /\ late' = late + Cardinality(left \ {"redis"})
    /\ UNCHANGED <<elapsed, down, dead>>

\* The body is sent.
Serialised ==
    /\ Scraping /\ \A g \in Gauges : value[g] # None
    /\ elapsed' = None
    /\ task' = [t \in Tasks |-> "idle"]
    /\ value' = [g \in Gauges |-> None]
    /\ dead' = {}
    /\ UNCHANGED <<late, down>>

-----------------------------------------------------------------------------
\* The database answers a query nobody waits for.
LateReply ==
    /\ late > 0 /\ "db" \notin down
    /\ late' = late - 1
    /\ UNCHANGED <<elapsed, task, value, down, dead>>

Fail(d) ==
    /\ d \notin down
    /\ down' = down \cup {d}
    /\ UNCHANGED <<elapsed, task, value, late, dead>>

Recover(d) ==
    /\ d \in down
    /\ down' = down \ {d} /\ dead' = dead \ {d}
    /\ UNCHANGED <<elapsed, task, value, late>>

\* Timers that are due fire first, and what they settle is read at once.
Tick ==
    /\ Scraping
    /\ \A q \in Queries : task[q] = "waiting" => elapsed < AcquireTimeout
    /\ \A d \in Dependencies : task[d] \in {"waiting", "asking"} => elapsed < CheckTimeout
    /\ \A g \in Gauges : value[g] = None => /\ elapsed < deadlineOf(g)
                                            /\ \E t \in AwaitedBy(g) : task[t] \in {"waiting", "asking"}
    /\ \E g \in Gauges : value[g] = None
    /\ elapsed' = elapsed + 1
    /\ UNCHANGED <<task, value, late, down, dead>>

ScrapeInit ==
    /\ elapsed = None
    /\ task = [t \in Tasks |-> "idle"]
    /\ value = [g \in Gauges |-> None]
    /\ late = 0 /\ down = {} /\ dead = {}

ScrapeNext ==
    \/ handle
    \/ \E q \in Queries : acquire(q) \/ AcquireTimesOut(q)
    \/ \E t \in Tasks : Reply(t)
    \/ \E d \in Dependencies : withTimeout(d) \/ Fail(d) \/ Recover(d)
    \/ \E g \in Reads : readOrNothing(g)
    \/ checkReadiness
    \/ \E g \in Gauges : withDeadline(g)
    \/ Serialised
    \/ LateReply
    \/ Tick

ScrapeSpec == ScrapeInit /\ [][ScrapeNext]_scrapeVars

-----------------------------------------------------------------------------
\* Every scrape has a value of dependency_up, and a dependency that did not answer
\* throughout it is in it as 0, also when the pool is full of queries that earlier
\* scrapes gave up ("A shorter deadline would turn a dead database into no value instead
\* of 0, and DatabaseDown keys on the 0").
DownIsZero ==
    value["dependency_up"] # None =>
        \A d \in Dependencies :
            /\ \E n \in {0, 1} : <<d, n>> \in value["dependency_up"]
            /\ d \in dead => <<d, 0>> \in value["dependency_up"]

=============================================================================

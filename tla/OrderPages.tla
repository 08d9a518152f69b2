----------------------------- MODULE OrderPages ----------------------------
(***************************************************************************)
(* GET /orders: a client walks the order list page by page while orders    *)
(* are placed and leave the filter (OrdersReadService.list, cursor.ts).    *)
(* A page resumes after the row its cursor names.  created_at is written   *)
(* by Postgres in microseconds; a JavaScript Date, and so the cursor, has  *)
(* milliseconds.                                                           *)
(***************************************************************************)
EXTENDS Integers, FiniteSets

CONSTANTS
    Ids,      \* orders.id, numbers because uuids are compared
    Totals,   \* total_minor values
    Limit,    \* rows per page
    PerMilli, \* clock ticks per millisecond (1000 in Postgres)
    MaxTime

ASSUME PagesAssumption ==
    Ids \subseteq Nat /\ Totals \subseteq Nat /\ PerMilli \in Nat \ {0}

orderSorts == {"-createdAt", "createdAt", "-totalMinor", "totalMinor"}
VARIABLES
    now,
    row,     \* "none", "open" (transaction running), "listed", "left" the filter
    created, \* created_at, the start of the inserting transaction
    total,   \* total_minor
    walk     \* the client's walk

pageVars == <<now, row, created, total, walk>>

noCursor == [value |-> 0, id |-> 0, given |-> FALSE]

-----------------------------------------------------------------------------
byTotal(sort) == sort \in {"totalMinor", "-totalMinor"}
descending(sort) == sort \in {"-createdAt", "-totalMinor"}

column(sort, id) == IF byTotal(sort) THEN total[id] ELSE created[id]

\* Row values, compared column by column.
less(a, b) == a[1] < b[1] \/ (a[1] = b[1] /\ a[2] < b[2])
before(sort, a, b) == IF descending(sort) THEN less(b, a) ELSE less(a, b)

rowValue(sort, id) == <<column(sort, id), id>>

\* The last row's value as toISOString and String write it.
sortValueOf(sort, id) ==
    IF byTotal(sort) THEN total[id] ELSE (created[id] \div PerMilli) * PerMilli

encodeCursor(sort, id) == [value |-> sortValueOf(sort, id), id |-> id, given |-> TRUE]

\* MUTANT of cursorPredicate: the sort column alone is compared.
cursorPredicateColumn(sort, cursor, id) ==
    before(sort, <<cursor.value, 0>>, <<column(sort, id), 0>>)

cursorPredicate(sort, cursor, id) ==
    before(sort, <<cursor.value, cursor.id>>, rowValue(sort, id))

\* The rows a request is about, and the ORDER BY.
selected(sort, cursor) ==
    {id \in Ids : row[id] = "listed" /\ (cursor.given => cursorPredicate(sort, cursor, id))}
sorted(sort, a, b) == before(sort, rowValue(sort, a), rowValue(sort, b))

\* One row more than a page holds is asked for: with it there is a next page, and the page
\* is the first Limit rows, of which last is the last.
more(match) == Cardinality(match) > Limit
FirstRows(sort, match, page, last) ==
    /\ Cardinality(page) = Limit
    /\ \A a \in page, b \in match \ page : sorted(sort, a, b)
    /\ last \in page
    /\ \A a \in page \ {last} : sorted(sort, a, last)

-----------------------------------------------------------------------------
\* OrdersService.persist: the row gets the time its transaction began ...
BeginOrder(id, t) ==
    /\ row[id] = "none"
    /\ row' = [row EXCEPT ![id] = "open"]
    /\ created' = [created EXCEPT ![id] = now]
    /\ total' = [total EXCEPT ![id] = t]
    /\ UNCHANGED <<now, walk>>

\* ... and can be read once it has committed.
CommitOrder(id) ==
    /\ row[id] = "open"
    /\ row' = [row EXCEPT ![id] = "listed"]
    /\ UNCHANGED <<now, created, total, walk>>

\* A change of its status or of its payment takes an order out of the filter.
LeaveFilter(id) ==
    /\ row[id] = "listed"
    /\ row' = [row EXCEPT ![id] = "left"]
    /\ UNCHANGED <<now, created, total, walk>>

Tick ==
    /\ now < MaxTime
    /\ now' = now + 1
    /\ UNCHANGED <<row, created, total, walk>>

Listed == {id \in Ids : row[id] = "listed"}

StartWalk(sort) ==
    /\ walk.phase = "idle"
    /\ walk' = [phase |-> "walking", sort |-> sort, cursor |-> noCursor,
                seen |-> {}, again |-> {}, start |-> Listed]
    /\ UNCHANGED <<now, row, created, total>>

\* The client takes in a page and goes on with the cursor that came with it.
TakesIn(page, cursor) ==
    walk' = [phase |-> IF cursor.given THEN "walking" ELSE "done",
             sort |-> walk.sort, cursor |-> cursor, seen |-> walk.seen \cup page,
             again |-> walk.again \cup (walk.seen \cap page), start |-> walk.start]

list ==
    LET match == selected(walk.sort, walk.cursor)
    IN
    /\ walk.phase = "walking"
    /\ IF more(match)
       THEN \E page \in SUBSET match : \E last \in page :
               /\ FirstRows(walk.sort, match, page, last)
               /\ TakesIn(page, encodeCursor(walk.sort, last))
       ELSE TakesIn(match, noCursor)
    /\ UNCHANGED <<now, row, created, total>>

-----------------------------------------------------------------------------
PagesInit ==
    /\ now = 0
    /\ row = [id \in Ids |-> "none"]
    /\ created = [id \in Ids |-> 0]
    /\ total = [id \in Ids |-> 0]
    /\ walk = [phase |-> "idle", sort |-> "-createdAt", cursor |-> noCursor, 
             seen |-> {}, again |-> {}, start |-> {}]

PagesNext ==
    \/ \E id \in Ids, t \in Totals : BeginOrder(id, t)
    \/ \E id \in Ids : CommitOrder(id) \/ LeaveFilter(id)
    \/ \E sort \in orderSorts : StartWalk(sort)
    \/ list
    \/ Tick

PagesSpec == PagesInit /\ [][PagesNext]_pageVars

\* No row is met twice, and every row that was there at the start and stayed is met.
VisitsExactly ==
    /\ walk.again = {}
    /\ walk.phase = "done" => \A id \in walk.start : row[id] = "left" \/ id \in walk.seen

\* Whatever is inserted or leaves meanwhile, a walk by total meets no row twice and every
\* row that was there when it began and stayed ("walking the pages visits every row
\* exactly once").
WalkIsExact == byTotal(walk.sort) => VisitsExactly

\* The same for every sort ("correct when two orders share a timestamp, which at peak they
\* will").  Not guaranteed by the code: the cursor of a sort by createdAt is cut to the
\* millisecond, so that a walk forward meets rows of that millisecond again and a walk
\* backward leaves some out.
EveryWalkIsExact == VisitsExactly

=============================================================================

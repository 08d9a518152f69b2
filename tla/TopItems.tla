------------------------------ MODULE TopItems ------------------------------
(***************************************************************************)
(* The best-seller report over a range of business days                    *)
(* (ReportsService.topItemsReport, dayTotals, mergeTopItems) while items   *)
(* are sold and renamed, orders settle, on their day or long after it, and *)
(* the nightly rollup turns days into stored rows and rolls some of them   *)
(* again.  A name is a number: 1 is the first name an item had, and names  *)
(* sort as numbers do.                                                     *)
(***************************************************************************)
EXTENDS Integers, Sequences, FiniteSets, SequencesExt, FiniteSetsExt

CONSTANTS
    Items, LastDay,
    NamesOf,     \* item -> the names it may be given, in the order it is given them
    Quantities,
    MaxLiveDays, \* MAX_LIVE_DAYS
    MaxSales, MaxRenames

Days == 1 .. LastDay
NoRow == [rolled |-> FALSE, items |-> <<>>]

VARIABLES
    day,    \* the business day taking money
    renamed,\* item -> how many times it was renamed
    sales,  \* order_items, of one line per order: [day, item, name, quantity],
            \* and a number that tells those alike apart
    paidFor,\* those of an order with a SUCCEEDED payment
    overdue,\* those paid for when the row of their day had been rolled, and it has not since
    rollup  \* daily_sales_rollups.top_items per day

vars == <<day, renamed, sales, paidFor, overdue, rollup>>

NameOf(i) == NamesOf[i][renamed[i] + 1]

SoldOf(set) == MapThenSumSet(LAMBDA s : s.quantity, set)

-----------------------------------------------------------------------------
\* aggregateDay groups by (menu_item_id, name_snapshot); buildRollupRow sorts by
\* quantity, then name.
Entries(d) ==
    {[item |-> s.item, name |-> s.name,
      quantity |-> SoldOf({t \in paidFor : t.day = d /\ t.item = s.item /\ t.name = s.name})] :
        s \in {t \in paidFor : t.day = d}}

Before(a, b) == a.quantity > b.quantity \/ (a.quantity = b.quantity /\ a.name < b.name)

buildRollupRow(d) == SetToSortSeq(Entries(d), Before)

\* A day's list from its stored row, or aggregated on the spot.
dayTotals(d) == IF rollup[d].rolled THEN rollup[d].items ELSE buildRollupRow(d)

\* One entry taken into the running totals: the name comes from the latest entry.
merged(totals, entry) ==
    IF entry.item \in DOMAIN totals
    THEN [totals EXCEPT ![entry.item] =
             [name |-> entry.name, quantity |-> @.quantity + entry.quantity]]
    ELSE [i \in DOMAIN totals \cup {entry.item} |->
             IF i = entry.item THEN [name |-> entry.name, quantity |-> entry.quantity]
             ELSE totals[i]]

ranked(totals) ==
    SetToSortSeq({[item |-> i, name |-> totals[i].name, quantity |-> totals[i].quantity] :
                     i \in DOMAIN totals}, Before)

firstOf(seq, limit) == SubSeq(seq, 1, Min({limit, Len(seq)}))

\* Too many days without a row are not aggregated on demand: the report is refused.
isAnswered(from, to) == Cardinality({d \in from .. to : ~rollup[d].rolled}) <= MaxLiveDays

\* MUTANT of mergeTopItems: entries are not joined by the item's id.
mergeTopItemsSplit(from, to, limit) ==
    firstOf(FlattenSeq([n \in 1 .. to - from + 1 |-> dayTotals(from + n - 1)]), limit)

mergeTopItems(from, to, limit) ==
    firstOf(ranked(FoldLeft(merged, <<>>,
        FlattenSeq([n \in 1 .. to - from + 1 |-> dayTotals(from + n - 1)]))), limit)

-----------------------------------------------------------------------------
persist(i, q) ==
    /\ Cardinality(sales) < MaxSales
    /\ LET line == [day |-> day, item |-> i, name |-> NameOf(i), quantity |-> q]
           alike == {s \in sales : [k \in DOMAIN line |-> s[k]] = line}
       IN sales' = sales \cup {[nr |-> Cardinality(alike)] @@ line}
    /\ UNCHANGED <<day, renamed, paidFor, overdue, rollup>>

\* The order keeps the day it was placed on, however late its money arrives.
markPaid(s) ==
    /\ s \notin paidFor
    /\ paidFor' = paidFor \cup {s}
    /\ overdue' = IF rollup[s.day].rolled THEN overdue \cup {s} ELSE overdue
    /\ UNCHANGED <<day, renamed, sales, rollup>>

Rename(i) ==
    /\ renamed[i] + 1 < Len(NamesOf[i])
    /\ MapThenSumSet(LAMBDA k : renamed[k], Items) < MaxRenames
    /\ renamed' = [renamed EXCEPT ![i] = @ + 1]
    /\ UNCHANGED <<day, sales, paidFor, overdue, rollup>>

\* Any closed day, any number of times; which days a night rolls, and what settles
\* between its read and its upsert, is DailyRollup's.
rollDay(d) ==
    /\ d < day
    /\ rollup' = [rollup EXCEPT ![d] = [rolled |-> TRUE, items |-> buildRollupRow(d)]]
    /\ overdue' = {s \in overdue : s.day # d}
    /\ UNCHANGED <<day, renamed, sales, paidFor>>

NextDay ==
    /\ day < LastDay
    /\ day' = day + 1
    /\ UNCHANGED <<renamed, sales, paidFor, overdue, rollup>>

Init ==
    /\ day = 1
    /\ renamed = [i \in Items |-> 0]
    /\ sales = {} /\ paidFor = {} /\ overdue = {}
    /\ rollup = [d \in Days |-> NoRow]

Next ==
    \/ \E i \in Items : Rename(i) \/ \E q \in Quantities : persist(i, q)
    \/ \E s \in sales : markPaid(s)
    \/ \E d \in Days : rollDay(d)
    \/ NextDay

Spec == Init /\ [][Next]_vars

-----------------------------------------------------------------------------
Ranges == {r \in Days \X Days : r[1] <= r[2] /\ r[2] <= day /\ isAnswered(r[1], r[2])}

Within(r, i, set) == {s \in set : s.item = i /\ s.day \in r[1] .. r[2]}

\* The report of a range ranks the items by these sales: each counts once, under one
\* entry per item, and no item left out sold more than one that is listed.
Ranks(set) ==
    \A r \in Ranges : \A limit \in 1 .. Cardinality(Items) :
        LET top == mergeTopItems(r[1], r[2], limit)
        IN /\ \A n, k \in DOMAIN top : top[n].item = top[k].item => n = k
           /\ \A n \in DOMAIN top : top[n].quantity = SoldOf(Within(r, top[n].item, set))
           /\ \A i \in Items \ {top[n].item : n \in DOMAIN top} :
                  /\ SoldOf(Within(r, i, set)) > 0 => Len(top) = limit
                  /\ \A n \in DOMAIN top : SoldOf(Within(r, i, set)) <= top[n].quantity

\* Whatever mixture of stored and live days answers it, a report is the ranking of
\* the sales of its range, though items were renamed ("the caller never sees the
\* split", "an item ranked eleventh every day can outsell a spiky third").  Only a
\* sale whose money came after its day was last rolled is missing, and a roll puts
\* that right ("flip a payment to SUCCEEDED on a row already treated as final").
RankingIsRight == Ranks(paidFor \ overdue)

\* A report ranks everything that was paid for.
\* Not guaranteed by the code: the README tells how it fails.
RankingIsUpToDate == Ranks(paidFor)

\* Where a name stands among those its item was given.
Since(i, name) == CHOOSE k \in DOMAIN NamesOf[i] : NamesOf[i][k] = name

\* An item is listed under the name it was last sold by in the range ("the
\* renamed-mid-service case, where the newer name appears second").
\* Not guaranteed by the code: the README tells how it fails.
LatestNameWins ==
    \A r \in Ranges :
        LET top == mergeTopItems(r[1], r[2], Cardinality(Items))
        IN \A n \in DOMAIN top : \A s \in Within(r, top[n].item, paidFor \ overdue) :
              Since(s.item, s.name) <= Since(s.item, top[n].name)

=============================================================================

----------------------------- MODULE MCReports -----------------------------
(* What is told of the shop after the fact, checked in one run: the daily     *)
(* rollup (DailyRollup), the Z-report and the nightly reconciliation          *)
(* (ZReport), the best sellers (TopItems), the hours of the sales report      *)
(* (SalesHours), the trimming of old events (EventRetention), when a kiosk    *)
(* was last seen (KioskPresence) and the gauges of a scrape (ScrapedGauges).  *)
(* No module reads another's variables: turn is chosen once, the component it *)
(* names runs its whole specification and the others keep their initial       *)
(* state, of which a property has nothing more to say.                        *)
EXTENDS DailyRollup, ZReport, EventRetention, ScrapedGauges, KioskPresence, SalesHours, TLC

CONSTANTS
    p1, p2, p3, e1, e2, e3,                                \* ZReport
    latte, mocha, Quantities, MaxSales, MaxRenames         \* TopItems

VARIABLES
    turn,
    day, renamed, sales, paidFor, overdue, rollup

-----------------------------------------------------------------------------
MCPayments == {p1, p2, p3}
MCDayPayments == {p1, p2}
MCEvents == {e1, e2, e3}
MCEventOf == [e \in MCEvents |-> CASE e = e1 -> p1 [] e = e2 -> p2 [] OTHER -> p3]
MCMismatched == {e2}

Items == {latte, mocha}
NamesOf == [i \in Items |-> IF i = latte THEN <<3, 1>> ELSE <<2>>]

Top == INSTANCE TopItems WITH LastDay <- 2, MaxLiveDays <- 1

-----------------------------------------------------------------------------
topVars == <<day, renamed, sales, paidFor, overdue, rollup>>

ReportsVars ==
    <<turn, vars, zVars, retentionVars, scrapeVars, topVars, hourVars, presenceVars>>

ReportsInit ==
    /\ turn \in {"rollup", "zreport", "topitems", "hours", "retention", "presence", "gauges"}
    /\ Init /\ ZInit /\ RetentionInit /\ ScrapeInit /\ PresenceInit
    /\ HoursInit /\ Top!Init
    \* one initial state is enough of a component that does not move
    /\ turn # "hours" => change = [at |-> 0, by |-> 1]

ReportsNext ==
    \/ turn = "rollup" /\ Next
       /\ UNCHANGED <<turn, zVars, retentionVars, scrapeVars, topVars, hourVars, presenceVars>>
    \/ turn = "zreport" /\ ZNext
       /\ UNCHANGED <<turn, vars, retentionVars, scrapeVars, topVars, hourVars, presenceVars>>
    \/ turn = "retention" /\ RetentionNext
       /\ UNCHANGED <<turn, vars, zVars, scrapeVars, topVars, hourVars, presenceVars>>
    \/ turn = "gauges" /\ ScrapeNext
       /\ UNCHANGED <<turn, vars, zVars, retentionVars, topVars, hourVars, presenceVars>>
    \/ turn = "topitems" /\ Top!Next
       /\ UNCHANGED <<turn, vars, zVars, retentionVars, scrapeVars, hourVars, presenceVars>>
    \/ turn = "hours" /\ HoursNext
       /\ UNCHANGED <<turn, vars, zVars, retentionVars, scrapeVars, topVars, presenceVars>>
    \/ turn = "presence" /\ PresenceNext
       /\ UNCHANGED <<turn, vars, zVars, retentionVars, scrapeVars, topVars, hourVars>>

ReportsSpec == ReportsInit /\ [][ReportsNext]_ReportsVars

Symmetric == Permutations(Instances) \cup Permutations(Refused)

-----------------------------------------------------------------------------
\* A report is the ranking of the sales of its range, but for those whose money came
\* after their day was last rolled (TopItems, mergeTopItems).
RankingIsRight == turn = "topitems" => Top!RankingIsRight

=============================================================================

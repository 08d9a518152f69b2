------------------------------ MODULE ZReport ------------------------------
(***************************************************************************)
(* The cash-up of one business day: the Z-report (ReportsService.zReport)  *)
(* and the nightly reconciliation (ReconciliationService), each a sequence *)
(* of reads of the books, the gateway and the webhook inbox while late     *)
(* webhooks still arrive.  An amount is abstracted to the payment it is    *)
(* of, so a total is a set of payments.                                    *)
(***************************************************************************)
EXTENDS FiniteSets

CONSTANTS
    Payments,      \* gateway payments
    DayPayments,   \* those whose order is of the day being cashed up
    Events,
    EventOf,       \* event -> the payment its intent is of
    Mismatched,    \* events whose amount or currency the processor refuses
    NoPayment

VARIABLES
    trading,  \* the day is still taking money
    captured, \* at the gateway
    booked,   \* payments with status SUCCEEDED
    inbox,    \* payment_events: [at, payment] per event
    z,        \* the Z-report being answered
    night     \* the nightly reconciliation

zVars == <<trading, captured, booked, inbox, z, night>>
world == <<trading, captured, booked, inbox>>

blank == [pc |-> "idle", provisional |-> FALSE, recorded |-> {}, gateway |-> {},
         unmatched |-> {}, due |-> {}, reason |-> "none", broken |-> "none", block |-> FALSE]

Unprocessed == {e \in Events : inbox[e].at = "received"}

\* Events of this day that wait for a human: read to state the properties.
RefusedToday == {e \in Unprocessed \cap Mismatched : EventOf[e] \in DayPayments}

-----------------------------------------------------------------------------
\* The day goes on.

Capture(p) ==
    /\ p \notin captured
    /\ captured' = captured \cup {p}
    /\ UNCHANGED <<trading, booked, inbox, z, night>>

Receive(e) ==
    /\ inbox[e].at = "absent" /\ EventOf[e] \in captured
    /\ inbox' = [inbox EXCEPT ![e].at = "received"]
    /\ UNCHANGED <<trading, captured, booked, z, night>>

\* markPaid: the event gains its payment_id with its processed_at, and not before.
\* A refused event is left as it is.
markPaid(e) ==
    /\ inbox[e].at = "received" /\ e \notin Mismatched
    /\ booked' = booked \cup {EventOf[e]}
    /\ inbox' = [inbox EXCEPT ![e] = [at |-> "processed", payment |-> EventOf[e]]]
    /\ UNCHANGED <<trading, captured, z, night>>

CloseDay ==
    /\ trading
    /\ trading' = FALSE
    /\ UNCHANGED <<captured, booked, inbox, z, night>>

-----------------------------------------------------------------------------
\* ReconciliationService.reconcile, for the report r in hand.

\* MUTANT of readBooks: payments of every status are compared.
readAllBooks(r) == [r EXCEPT !.pc = "gateway", !.recorded = DayPayments]

readBooks(r) == [r EXCEPT !.pc = "gateway", !.recorded = booked \cap DayPayments]

capturedTotalFor(r) == [r EXCEPT !.pc = "inbox", !.gateway = r.recorded \cap captured]

readInbox(r) == [r EXCEPT !.pc = "scoping", !.unmatched = Unprocessed]

ReconcileStep(r, next) ==
    \/ r.pc = "books" /\ next = readBooks(r)
    \/ r.pc = "gateway" /\ next = capturedTotalFor(r)
    \/ r.pc = "inbox" /\ next = readInbox(r)

-----------------------------------------------------------------------------
\* zReport, one action per await; the till figures it also serves are DailyRollup's.

zReport ==
    /\ z.pc = "idle"
    /\ z' = [z EXCEPT !.pc = IF trading THEN "done" ELSE "books",
                      !.provisional = trading,
                      !.reason = IF trading THEN "DAY_STILL_TRADING" ELSE "none",
                      !.due = RefusedToday]
    /\ UNCHANGED <<world, night>>

reconcile == ReconcileStep(z, z') /\ UNCHANGED <<world, night>>

\* The gateway throws, or the five seconds are over.
GatewayFails ==
    /\ z.pc \in {"books", "gateway", "inbox"}
    /\ z' = [z EXCEPT !.pc = "done", !.reason = "GATEWAY_UNREACHABLE", !.broken = "gateway"]
    /\ UNCHANGED <<world, night>>

\* A query of reconcile's own throws, into the same catch.
BooksFail ==
    /\ z.pc \in {"books", "inbox"}
    /\ z' = [z EXCEPT !.pc = "done", !.reason = "GATEWAY_UNREACHABLE", !.broken = "database"]
    /\ UNCHANGED <<world, night>>

unmatchedEventsForDay ==
    /\ z.pc = "scoping"
    /\ z' = [z EXCEPT !.pc = "done", !.block = TRUE,
                      !.unmatched = {e \in @ : inbox[e].payment \in DayPayments}]
    /\ UNCHANGED <<world, night>>

\* The query that narrows the events to the day throws.
ScopingFails ==
    /\ z.pc = "scoping"
    /\ z' = [z EXCEPT !.pc = "done", !.reason = "DATABASE_UNAVAILABLE", !.broken = "database"]
    /\ UNCHANGED <<world, night>>

\* reconcileYesterday: the same reads, unscoped, at 03:00 after the day closed.
reconcileYesterday ==
    /\ ~trading
    /\ \/ /\ night.pc = "idle"
          /\ night' = [night EXCEPT !.pc = "books"]
       \/ ReconcileStep(night, night')
    /\ UNCHANGED <<world, z>>

\* A read throws: nothing is reported.
NightFails ==
    /\ night.pc \in {"books", "gateway", "inbox"}
    /\ night' = blank
    /\ UNCHANGED <<world, z>>

-----------------------------------------------------------------------------
ZInit ==
    /\ trading = TRUE
    /\ captured = {}
    /\ booked = {}
    /\ inbox = [e \in Events |-> [at |-> "absent", payment |-> NoPayment]]
    /\ z = blank
    /\ night = blank

ZNext ==
    \/ \E p \in Payments : Capture(p)
    \/ \E e \in Events : Receive(e) \/ markPaid(e)
    \/ CloseDay
    \/ zReport \/ reconcile \/ GatewayFails \/ BooksFail
    \/ unmatchedEventsForDay \/ ScopingFails
    \/ reconcileYesterday \/ NightFails

ZSpec == ZInit /\ [][ZNext]_zVars

-----------------------------------------------------------------------------
\* Nobody is paged about nothing: with every booked payment captured, both reports
\* find the gateway and the books equal, whatever was captured or booked between
\* their reads, and a gateway that did not answer is never taken for a difference
\* ("a number that has to be right").
NoFalseDelta ==
    /\ z.block => z.gateway = z.recorded
    /\ night.pc = "scoping" => night.gateway = night.recorded

\* The reason given is the true one ("Three distinct facts, never collapsed", of
\* which the third is "our own database failed while the block was being assembled").
\* Not guaranteed by the code: the README tells how it fails.
ReasonIsTrue ==
    z.pc = "done" =>
        /\ z.reason = "GATEWAY_UNREACHABLE" <=> z.broken = "gateway"
        /\ z.reason = "DATABASE_UNAVAILABLE" <=> z.broken = "database"

\* The Z-report lists every event of the day that was refused before it began ("it is
\* also listed in the next Z-report's unmatchedEvents").
\* Not guaranteed by the code: the README tells how it fails.
ZListsRefused == z.block => z.due \subseteq z.unmatched

=============================================================================

---------------------------- MODULE BatchedSweep ----------------------------
(***************************************************************************)
(* The two cron jobs that work through a table in bounded batches:         *)
(* PaymentEventProcessor.drainInbox (unprocessed payment_events) and       *)
(* OrderExpiryService.expireOverdue (overdue PENDING_PAYMENT orders).      *)
(* Both SELECT ... LIMIT MAX_PER_TICK with no ORDER BY, then visit the     *)
(* rows in the order they came, each in its own transaction.  What a visit *)
(* does is in OrderPayments; here it clears its row or leaves it waiting.  *)
(***************************************************************************)
EXTENDS Naturals, FiniteSets, SequencesExt

CONSTANTS
    Entries,          \* rows that will ever match the query
    Stuck,         \* rows a visit never clears: REFUSE, ALREADY_SUCCEEDED
    MAX_PER_TICK,  \* the LIMIT
    Sweeps,        \* the job on each instance
    MaxDeaths      \* bound on ticks cut short

ASSUME BatchAssumption ==
    MAX_PER_TICK \in Nat \ {0} /\ Stuck \subseteq Entries /\ MaxDeaths \in Nat

VARIABLES
    waiting,  \* rows the query matches
    cleared,  \* rows processed or expired
    todo,     \* what is left of a sweep's batch, in order
    deaths

vars == <<waiting, cleared, todo, deaths>>

\* An event is stored and its kick lost, or an order's deadline passes.
Arrive(r) ==
    /\ r \notin waiting \cup cleared
    /\ waiting' = waiting \cup {r}
    /\ UNCHANGED <<cleared, todo, deaths>>

\* The database picks the rows and their order.
Select(s) ==
    /\ todo[s] = <<>> /\ waiting # {}
    /\ \E batch \in SUBSET waiting :
          /\ Cardinality(batch) <= MAX_PER_TICK
          /\ Cardinality(batch) = MAX_PER_TICK \/ batch = waiting
          /\ \E rows \in SetToSeqs(batch) : todo' = [todo EXCEPT ![s] = rows]
    /\ UNCHANGED <<waiting, cleared, deaths>>

\* MUTANT of Visit: a row that stays ends the tick.
VisitOrGiveUp(s) ==
    /\ todo[s] # <<>>
    /\ LET r == Head(todo[s]) IN
       IF r \in waiting \ Stuck
       THEN /\ waiting' = waiting \ {r} /\ cleared' = cleared \cup {r}
            /\ todo' = [todo EXCEPT ![s] = Tail(@)]
       ELSE /\ todo' = [todo EXCEPT ![s] = <<>>]
            /\ UNCHANGED <<waiting, cleared>>
    /\ UNCHANGED deaths

\* A row the other instance took first is left as it is.
Visit(s) ==
    /\ todo[s] # <<>>
    /\ LET r == Head(todo[s]) IN
       IF r \in waiting \ Stuck
       THEN waiting' = waiting \ {r} /\ cleared' = cleared \cup {r}
       ELSE UNCHANGED <<waiting, cleared>>
    /\ todo' = [todo EXCEPT ![s] = Tail(@)]
    /\ UNCHANGED deaths

\* One visit fails and is logged; the tick goes on with the next row.
VisitFails(s) ==
    /\ todo[s] # <<>>
    /\ todo' = [todo EXCEPT ![s] = Tail(@)]
    /\ UNCHANGED <<waiting, cleared, deaths>>

\* The instance dies during a tick.
SweepDies(s) ==
    /\ todo[s] # <<>> /\ deaths < MaxDeaths
    /\ todo' = [todo EXCEPT ![s] = <<>>]
    /\ deaths' = deaths + 1
    /\ UNCHANGED <<waiting, cleared>>

-----------------------------------------------------------------------------
Init ==
    /\ waiting = {} /\ cleared = {}
    /\ todo = [s \in Sweeps |-> <<>>]
    /\ deaths = 0

Next ==
    \/ \E r \in Entries : Arrive(r)
    \/ \E s \in Sweeps : Select(s) \/ Visit(s) \/ VisitFails(s) \/ SweepDies(s)

Spec == Init /\ [][Next]_vars

\* The scheduler starts a tick for ever, a tick goes on, and a fault does not
\* hit every visit to the same row.  Nothing is assumed of the rows a query
\* picks, or of their order.
Fairness ==
    /\ \A s \in Sweeps : WF_vars(Select(s)) /\ WF_vars(Visit(s) \/ VisitFails(s))
    /\ \A r \in Entries : SF_vars(\E s \in Sweeps : todo[s] # <<>> /\ Head(todo[s]) = r /\ Visit(s))

FairSpec == Spec /\ Fairness

\* "Whatever is left is taken on the next tick": a row that can be cleared is
\* cleared in the end, whatever else is waiting.
WaitingIsTaken == \A r \in Entries \ Stuck : r \in waiting ~> r \in cleared

=============================================================================

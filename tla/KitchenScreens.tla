--------------------------- MODULE KitchenScreens --------------------------
(***************************************************************************)
(* What the kitchen display and the public board show: transactions that   *)
(* move an order and announce it once they have committed (AfterCommit),   *)
(* the publisher that reads the order back and pushes it                   *)
(* (SocketRealtimePublisher), and a screen that draws what arrives last    *)
(* and fetches the snapshot when it connects.                              *)
(***************************************************************************)
EXTENDS Absent, Naturals, FiniteSets

CONSTANTS
    Orders,      \* orders.id, numbered by age
    Jobs,        \* handlers at work, on either instance
    MaxTickets,  \* MAX_TICKETS and MAX_ENTRIES
    MaxFailures  \* publications that fail

ORDER_TRANSITIONS ==
    [s \in {"PENDING_PAYMENT", "PAID", "IN_PREPARATION", "READY", "COMPLETED",
            "CANCELLED", "EXPIRED", "REFUNDED"} |->
        CASE s = "PENDING_PAYMENT" -> {"PAID", "EXPIRED", "CANCELLED"}
          [] s = "PAID" -> {"IN_PREPARATION", "REFUNDED"}
          [] s = "IN_PREPARATION" -> {"READY", "REFUNDED"}
          [] s = "READY" -> {"COMPLETED", "REFUNDED"}
          [] s = "COMPLETED" -> {"REFUNDED"}
          [] OTHER -> {}]

KDS_STATUSES == {"PAID", "IN_PREPARATION", "READY"}
BOARD_STATUSES == {"IN_PREPARATION", "READY"}

VARIABLES
    orderStatus, \* orders.status
    past,        \* every status an order has had
    job,         \* a handler: its order, the move, how far it is, what it read back
    connected,   \* the screen's socket
    kds,         \* the kitchen display: a status for each order it knows
    board,       \* the public board
    failures

screenVars == <<orderStatus, past, job, connected, kds, board, failures>>

idle == [phase |-> "idle", order |-> None, from |-> None, to |-> None, ticket |-> None,
         list |-> <<>>]
begun(o, to) == [phase |-> "tx", order |-> o, from |-> orderStatus[o], to |-> to,
                 ticket |-> None, list |-> <<>>]

\* MUTANT of events: a refund is not announced.
eventsWithoutRefund(to) ==
    CASE to = "PAID" -> {"order.paid"}
      [] to = "READY" -> {"order.ready"}
      [] to \in {"EXPIRED", "REFUNDED"} -> {}
      [] OTHER -> {"order.updated"}

\* The event each door emits for a move; the expiry sweep emits none.
events(to) ==
    CASE to = "PAID" -> {"order.paid"}
      [] to = "READY" -> {"order.ready"}
      [] to = "EXPIRED" -> {}
      [] OTHER -> {"order.updated"}

BOARD_EVENTS == {"order.updated", "order.ready"}

\* The oldest orders in one of the statuses, with their status.
oldest(statuses) ==
    LET active == {o \in Orders : orderStatus[o] \in statuses}
    IN  [o \in {a \in active : Cardinality({b \in active : b < a}) < MaxTickets} |-> orderStatus[o]]

-----------------------------------------------------------------------------
\* MUTANT of Begin: the move is announced from inside the transaction.
BeginAnnouncing(j, o, to) ==
    /\ job[j] = idle /\ to \in ORDER_TRANSITIONS[orderStatus[o]]
    /\ job' = [job EXCEPT ![j] = begun(o, to)]
    /\ kds' = IF connected THEN [kds EXCEPT ![o] = to] ELSE kds
    /\ UNCHANGED <<orderStatus, past, connected, board, failures>>

\* A door begins its transaction; what it does before the move may still throw.
Begin(j, o, to) ==
    /\ job[j] = idle /\ to \in ORDER_TRANSITIONS[orderStatus[o]]
    /\ job' = [job EXCEPT ![j] = begun(o, to)]
    /\ UNCHANGED <<orderStatus, past, connected, kds, board, failures>>

\* The move commits, guarded on the status the handler saw; what was emitted waits in
\* memory.
CommitMove(j) ==
    LET o == job[j].order
        to == job[j].to
    IN
    /\ job[j].phase = "tx" /\ orderStatus[o] = job[j].from
    /\ orderStatus' = [orderStatus EXCEPT ![o] = to]
    /\ past' = [past EXCEPT ![o] = @ \cup {to}]
    /\ job' = [job EXCEPT ![j] = IF events(to) = {} THEN idle
                                 ELSE [@ EXCEPT !.phase = "hydrate", !.from = None]]
    /\ UNCHANGED <<connected, kds, board, failures>>

\* The transaction is rolled back, by a lost race or by an error.
MoveRollsBack(j) ==
    /\ job[j].phase = "tx"
    /\ job' = [job EXCEPT ![j] = idle]
    /\ UNCHANGED <<orderStatus, past, connected, kds, board, failures>>

ticketFor(j) ==
    /\ job[j].phase = "hydrate"
    /\ job' = [job EXCEPT ![j] = [@ EXCEPT !.phase = "emit", !.ticket = orderStatus[job[j].order]]]
    /\ UNCHANGED <<orderStatus, past, connected, kds, board, failures>>

\* KdsGateway.broadcast, to the screens connected now.
broadcastTicket(j) ==
    /\ job[j].phase = "emit"
    /\ kds' = IF connected THEN [kds EXCEPT ![job[j].order] = job[j].ticket] ELSE kds
    /\ job' = [job EXCEPT ![j] = IF events(job[j].to) \cap BOARD_EVENTS = {} THEN idle
                                 ELSE [@ EXCEPT !.phase = "board", !.ticket = None]]
    /\ UNCHANGED <<orderStatus, past, connected, board, failures>>

boardSnapshot(j) ==
    /\ job[j].phase = "board"
    /\ job' = [job EXCEPT ![j] = [@ EXCEPT !.phase = "emitBoard", !.list = oldest(BOARD_STATUSES)]]
    /\ UNCHANGED <<orderStatus, past, connected, kds, board, failures>>

broadcastBoard(j) ==
    /\ job[j].phase = "emitBoard"
    /\ board' = IF connected THEN job[j].list ELSE board
    /\ job' = [job EXCEPT ![j] = idle]
    /\ UNCHANGED <<orderStatus, past, connected, kds, failures>>

\* AfterCommit.flush swallows the error; the instance may also have died.
PublishFails(j) ==
    /\ job[j].phase \notin {"idle", "tx"} /\ failures < MaxFailures
    /\ failures' = failures + 1
    /\ job' = [job EXCEPT ![j] = idle]
    /\ UNCHANGED <<orderStatus, past, connected, kds, board>>

-----------------------------------------------------------------------------
ScreenDisconnects ==
    /\ connected
    /\ connected' = FALSE
    /\ UNCHANGED <<orderStatus, past, job, kds, board, failures>>

\* The screen connects and draws GET /kds/orders; the board draws its own.
ScreenConnects ==
    LET tickets == oldest(KDS_STATUSES) IN
    /\ ~connected
    /\ connected' = TRUE
    /\ kds' = [o \in Orders |-> IF o \in DOMAIN tickets THEN tickets[o] ELSE None]
    /\ board' = oldest(BOARD_STATUSES)
    /\ UNCHANGED <<orderStatus, past, job, failures>>

-----------------------------------------------------------------------------
ScreensInit ==
    /\ orderStatus = [o \in Orders |-> "PENDING_PAYMENT"]
    /\ past = [o \in Orders |-> {"PENDING_PAYMENT"}]
    /\ job = [j \in Jobs |-> idle]
    /\ connected = FALSE
    /\ kds = [o \in Orders |-> None]
    /\ board = <<>>
    /\ failures = 0

Step(j) ==
    \/ CommitMove(j) \/ MoveRollsBack(j)
    \/ ticketFor(j) \/ broadcastTicket(j) \/ boardSnapshot(j) \/ broadcastBoard(j)

ScreensNext ==
    \/ \E j \in Jobs, o \in Orders : \E to \in ORDER_TRANSITIONS[orderStatus[o]] : Begin(j, o, to)
    \/ \E j \in Jobs : Step(j) \/ PublishFails(j)
    \/ ScreenDisconnects
    \/ ScreenConnects

\* A handler that has begun goes on to its end.
ScreensSpec == ScreensInit /\ [][ScreensNext]_screenVars /\ \A j \in Jobs : WF_screenVars(Step(j))

-----------------------------------------------------------------------------
shown(o) == IF kds[o] \in KDS_STATUSES THEN kds[o] ELSE None
due(o) == IF orderStatus[o] \in KDS_STATUSES THEN orderStatus[o] ELSE None

\* Nothing that was rolled back is ever on a screen, whatever handlers overlap
\* ("A *late* event is self-correcting; a *false* one is not").
NothingFalse ==
    /\ \A o \in Orders : kds[o] \in past[o] \cup {None}
    /\ \A o \in DOMAIN board : board[o] \in past[o]

Announcing == {j \in Jobs : job[j].phase \notin {"idle", "tx"}}

\* At some moment the screen is off and nothing is being announced, and from then on
\* announcements neither overlap nor fail.
ConnectsAfterTrouble ==
    \E n \in 0 .. MaxFailures :
        <>(~connected /\ Announcing = {} /\ [](Cardinality(Announcing) < 2 /\ failures = n))

InAccord == (\A o \in Orders : shown(o) = due(o)) /\ board = oldest(BOARD_STATUSES)

\* Once orders stop moving a screen shows them as they are and goes on to, although
\* announcements crossed or failed, if it connected once after the last time they did
\* ("the screens reconcile on reconnect via the snapshot endpoint").
ScreensCatchUp == ConnectsAfterTrouble => <>[](connected => InAccord)

\* The same of a screen that stays connected ("A *late* event is self-correcting",
\* "a client can always render from the latest one").
\* Not guaranteed by the code: the README tells how it fails.
ScreensCatchUpConnected == <>[](connected => InAccord)

=============================================================================

----------------------------- MODULE OrderLedger -----------------------------
(***************************************************************************)
(* What src/orders and src/payments promise about an order and its money,  *)
(* with no gateway, webhook, request or sweep in sight: an order moves only *)
(* along ORDER_TRANSITIONS and each move leaves its history row, it is paid *)
(* by one payment in one step, only an unpaid order is closed, only a paid  *)
(* one is made, and it is REFUNDED by the refund that returns the last of   *)
(* it.  OrderPayments is shown to implement this module.                    *)
(***************************************************************************)
EXTENDS Integers, Sequences

CONSTANTS Orders, Payments, OrderOf, Total

VARIABLES
    status,   \* where an order is in its life
    history,  \* the statuses it has had, the first one first
    paidBy,   \* the payments that settled an order
    returned  \* what has been given back of a payment

vars == <<status, history, paidBy, returned>>

ORDER_TRANSITIONS ==
    [ NONE            |-> {"DRAFT", "PENDING_PAYMENT"},
      DRAFT           |-> {"PENDING_PAYMENT", "CANCELLED"},
      PENDING_PAYMENT |-> {"PAID", "EXPIRED", "CANCELLED"},
      PAID            |-> {"IN_PREPARATION", "REFUNDED"},
      IN_PREPARATION  |-> {"READY", "REFUNDED"},
      READY           |-> {"COMPLETED", "REFUNDED"},
      COMPLETED       |-> {"REFUNDED"},
      CANCELLED       |-> {},
      EXPIRED         |-> {},
      REFUNDED        |-> {} ]

isLegalTransition(from, to) == to \in ORDER_TRANSITIONS[from]

Init ==
    /\ status = [o \in Orders |-> "NONE"]
    /\ history = [o \in Orders |-> <<>>]
    /\ paidBy = [o \in Orders |-> {}]
    /\ returned = [p \in Payments |-> 0]

Move(o, to) ==
    /\ isLegalTransition(status[o], to)
    /\ status' = [status EXCEPT ![o] = to]
    /\ history' = [history EXCEPT ![o] = Append(@, to)]

\* Intake, checkout and the kitchen: no money moves.
Advance(o, to) ==
    /\ Move(o, to)
    /\ UNCHANGED <<paidBy, returned>>

Settle(o, p) ==
    /\ Move(o, "PAID")
    /\ OrderOf[p] = o
    /\ paidBy[o] = {}
    /\ paidBy' = [paidBy EXCEPT ![o] = {p}]
    /\ UNCHANGED returned

Close(o, to) ==
    /\ Move(o, to)
    /\ paidBy[o] = {}
    /\ UNCHANGED <<paidBy, returned>>

Return(o, p, amount) ==
    /\ isLegalTransition(status[o], "REFUNDED")
    /\ returned[p] + amount <= Total
    /\ returned' = [returned EXCEPT ![p] = @ + amount]
    /\ IF returned[p] + amount = Total
       THEN Move(o, "REFUNDED")
       ELSE UNCHANGED <<status, history>>
    /\ UNCHANGED paidBy

Next ==
    \E o \in Orders :
        \/ \E to \in {"DRAFT", "PENDING_PAYMENT", "IN_PREPARATION", "READY", "COMPLETED"} :
              Advance(o, to)
        \/ \E p \in Payments : Settle(o, p)
        \/ \E to \in {"CANCELLED", "EXPIRED"} : Close(o, to)
        \/ \E p \in paidBy[o], amount \in 1..Total : Return(o, p, amount)

Spec == Init /\ [][Next]_vars

=============================================================================

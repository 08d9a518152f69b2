------------------------- MODULE OrderPaymentsProofs -------------------------
(***************************************************************************)
(* Proofs about OrderPayments, for any number of orders, intents, cash      *)
(* payments, requests in flight, sweeps, processors, managers and days.     *)
(***************************************************************************)
EXTENDS OrderPayments, TLAPS

\* A leaf is first-order reasoning, unless it says that it needs SMT.
USE Zenon

\* A draft is stamped with a day that has a counter.
DayStamped ==
    \A o \in Orders : status[o] = "DRAFT" => businessDay[o] \in 1..LastDay

\* The events on which a processor may have decided to write.
DecisionFitsEvent ==
    \A p \in Processors :
        /\ procs[p].phase = "MARK_PAYMENT" => procs[p].event[2] \in {"FAILED", "CANCELLED"}
        /\ procs[p].phase \in {"MARK_PAID", "SKIP"} => procs[p].event[2] # "MISMATCHED"

TypeInv == TypeOK /\ DayStamped /\ DecisionFitsEvent

USE IdsAssumption, TotalAssumption, DayAssumption, CaptureAssumption

\* What a step that leaves a group of variables alone preserves.
LEMMA Untouched ==
  ASSUME TypeOK
  PROVE  /\ UNCHANGED rows => OrdersOK'
         /\ UNCHANGED intake => IntakeOK'
         /\ UNCHANGED money => MoneyOK'
         /\ UNCHANGED inbox => InboxOK'
         /\ UNCHANGED external => ExternalOK'
         /\ UNCHANGED pays => PaysOK'
         /\ UNCHANGED voids => VoidsOK'
         /\ UNCHANGED procs => ProcsOK'
         /\ UNCHANGED refunds => RefundsOK'
  BY SMT DEF TypeOK, OrdersOK, IntakeOK, MoneyOK, InboxOK, ExternalOK, PaysOK, VoidsOK, ProcsOK,
         RefundsOK, rows, intake, money, external

\* A guarded move to anything but DRAFT keeps the types and the stamps.
LEMMA TransitionType ==
  ASSUME TypeOK, DayStamped, NEW o \in Orders, NEW from, NEW to \in OrderStatus \ {"DRAFT"},
         transitionOrder(o, from, to), UNCHANGED intake
  PROVE  OrdersOK' /\ DayStamped'
  <1>1. history'[o] \in Seq(OrderStatus)
    BY SMT DEF TypeOK, OrdersOK, transitionOrder
  <1>2. OrdersOK'
    BY <1>1 DEF TypeOK, OrdersOK, transitionOrder
  <1>3. DayStamped'
    BY DEF TypeOK, OrdersOK, transitionOrder, DayStamped, intake
  <1> QED
    BY <1>2, <1>3

LEMMA StampsUntouched ==
  ASSUME DayStamped, UNCHANGED <<status, businessDay>>
  PROVE  DayStamped'
  BY DEF DayStamped

LEMMA DecisionsUntouched ==
  ASSUME DecisionFitsEvent, UNCHANGED procs
  PROVE  DecisionFitsEvent'
  BY DEF DecisionFitsEvent

LEMMA TypeInit == Init => TypeInv
  BY SMT DEF Init, TypeInv, TypeOK, DayStamped, DecisionFitsEvent, Idle, OrderStatus,
         PaymentStatus, Events, Payments, Voiders, OrdersOK, IntakeOK, MoneyOK, InboxOK,
         ExternalOK, PaysOK, VoidsOK, ProcsOK, RefundsOK

LEMMA TypeOrderStep ==
  ASSUME TypeInv, NEW o \in Orders, OrderStep(o)
  PROVE  TypeInv'
  <1> USE DEF TypeInv
  <1>1. ASSUME NEW to \in {"DRAFT", "PENDING_PAYMENT"}, PlaceOrder(o, to)
        PROVE  TypeInv'
    <2>0. to \in OrderStatus
      BY DEF OrderStatus
    <2>1. OrdersOK'
      <3>1. expiresAt' \in [Orders -> {"none", "ahead", "past"}]
        BY <1>1 DEF PlaceOrder, TypeOK, OrdersOK
      <3>2. status' = [status EXCEPT ![o] = to] /\ history' = [history EXCEPT ![o] = <<to>>]
        BY <1>1 DEF PlaceOrder
      <3> QED
        BY <2>0, <3>1, <3>2, SMT DEF TypeOK, OrdersOK
    <2>2. DayStamped'
      BY <1>1 DEF PlaceOrder, TypeOK, OrdersOK, IntakeOK, ExternalOK, DayStamped
    <2>3. IntakeOK'
      <3>1. businessDay' \in [Orders -> 0..LastDay]
        BY <1>1, SMT DEF PlaceOrder, TypeOK, IntakeOK, ExternalOK
      <3>2. CASE to = "DRAFT"
        BY <1>1, <3>1, <3>2 DEF PlaceOrder, TypeOK, IntakeOK
      <3>3. CASE to = "PENDING_PAYMENT"
        <4>1. nextOrderNumber(o, today)
          BY <1>1, <3>3 DEF PlaceOrder
        <4> QED
          BY <3>1, <4>1, SMT DEF TypeOK, IntakeOK, ExternalOK, nextOrderNumber
      <3> QED
        BY <3>2, <3>3
    <2> QED
      BY <1>1, <2>1, <2>2, <2>3, Untouched, DecisionsUntouched DEF PlaceOrder, TypeOK, inflight
  <1>2. CASE Checkout(o)
    <2>1. OrdersOK'
      BY <1>2, SMT DEF Checkout, TypeOK, OrdersOK, OrderStatus
    <2>2. IntakeOK' /\ DayStamped'
      BY <1>2, SMT DEF Checkout, TypeOK, OrdersOK, IntakeOK, nextOrderNumber, DayStamped
    <2> QED
      BY <1>2, <2>1, <2>2, Untouched, DecisionsUntouched DEF Checkout, TypeOK, inflight
  <1>3. ASSUME NEW to \in OrderStatus, StaffTransition(o, to)
        PROVE  TypeInv'
    <2>1. to # "DRAFT"
      BY <1>3 DEF StaffTransition, STAFF_TRANSITIONS
    <2> QED
      BY <1>3, <2>1, TransitionType, Untouched, DecisionsUntouched
      DEF StaffTransition, TypeOK, inflight
  <1>4. CASE DeadlinePasses(o)
    <2>1. OrdersOK'
      BY <1>4 DEF DeadlinePasses, TypeOK, OrdersOK
    <2> QED
      BY <1>4, <2>1, Untouched, StampsUntouched, DecisionsUntouched
      DEF DeadlinePasses, TypeOK, inflight, intake
  <1> QED
    BY <1>1, <1>2, <1>3, <1>4 DEF OrderStep

LEMMA TypeDayEnds ==
  ASSUME TypeInv, DayEnds
  PROVE  TypeInv'
  <1> USE DEF TypeInv
  <1>1. ExternalOK'
    BY SMT DEF DayEnds, TypeOK, ExternalOK
  <1> QED
    BY <1>1, Untouched, StampsUntouched, DecisionsUntouched
    DEF DayEnds, TypeOK, inflight, intake, rows

LEMMA TypePayStep ==
  ASSUME TypeInv, NEW t \in Tills, PayStep(t)
  PROVE  TypeInv'
  <1> USE DEF TypeInv
  <1>0. Finish(t) => PaysOK'
    BY DEF TypeOK, Finish, PaysOK
  <1>1. ASSUME NEW o \in Orders, NEW method \in {"CASH", "CARD"}, ReadOrder(t, o, method)
        PROVE  TypeInv'
    <2>1. PaysOK'
      BY <1>1 DEF ReadOrder, TypeOK, PaysOK
    <2> QED
      BY <1>1, <2>1, Untouched, StampsUntouched, DecisionsUntouched
      DEF ReadOrder, TypeOK, intake, rows
  <1>2. CASE CheckNoneLive(t)
    <2>1. PaysOK'
      BY <1>2, SMT DEF CheckNoneLive, TypeOK, Finish, Idle, PaysOK
    <2> QED
      BY <1>2, <2>1, Untouched, StampsUntouched, DecisionsUntouched
      DEF CheckNoneLive, TypeOK, intake, rows
  <1>3. ASSUME NEW p \in CashPayments, takeCash(t, p)
        PROVE  TypeInv'
    <2>1. pays[t].order \in Orders
      BY <1>3, SMT DEF takeCash, TypeOK, PaysOK, Idle
    <2>2. OrdersOK' /\ DayStamped'
      BY <1>3, <2>1, TransitionType, Untouched, StampsUntouched
      DEF takeCash, OrderStatus, intake, rows
    <2>3. MoneyOK'
      BY <1>3 DEF takeCash, TypeOK, MoneyOK, Payments, PaymentStatus
    <2> QED
      BY <1>0, <1>3, <2>2, <2>3, Untouched, DecisionsUntouched DEF takeCash, TypeOK
  <1>4. ASSUME NEW i \in Intents, createIntent(t, i)
        PROVE  TypeInv'
    <2>1. PaysOK' /\ ExternalOK'
      BY <1>4 DEF createIntent, TypeOK, PaysOK, ExternalOK
    <2> QED
      BY <1>4, <2>1, Untouched, StampsUntouched, DecisionsUntouched
      DEF createIntent, TypeOK, intake, rows
  <1>5. CASE insertPayment(t)
    <2>1. pays[t].intent \in Intents
      BY <1>5, SMT DEF insertPayment, TypeOK, PaysOK, Idle
    <2>2. MoneyOK'
      BY <1>5, <2>1 DEF insertPayment, TypeOK, MoneyOK, Payments, PaymentStatus
    <2> QED
      BY <1>0, <1>5, <2>2, Untouched, StampsUntouched, DecisionsUntouched
      DEF insertPayment, TypeOK, intake, rows
  <1>6. CASE PayFails(t)
    BY <1>0, <1>6, Untouched, StampsUntouched, DecisionsUntouched
    DEF PayFails, TypeOK, intake, rows
  <1> QED
    BY <1>1, <1>2, <1>3, <1>4, <1>5, <1>6 DEF PayStep

LEMMA TypeVoidStep ==
  ASSUME TypeInv, NEW v \in Voiders, VoidStep(v)
  PROVE  TypeInv'
  <1> USE DEF TypeInv
  <1>0. voids' = [voids EXCEPT ![v] = Idle] => VoidsOK'
    BY DEF TypeOK, VoidsOK
  <1>1. ASSUME NEW o \in Orders, NEW to \in {"CANCELLED", "EXPIRED"},
               status[o] \in CANCELLABLE, readLive(v, o, to)
        PROVE  VoidsOK'
    <2>1. PICK live \in Intents \cup {None} :
             voids' = [voids EXCEPT ![v] = [phase |-> "read", order |-> o, from |-> status[o],
                                           to |-> to, live |-> live]]
      BY <1>1 DEF readLive, LivePayments, IntentsOf
    <2> QED
      BY <1>1, <2>1 DEF TypeOK, VoidsOK
  <1>2. ASSUME NEW o \in Orders, BeginCancel(v, o)
        PROVE  TypeInv'
    <2>1. VoidsOK'
      BY <1>1, <1>2 DEF BeginCancel
    <2> QED
      BY <1>2, <2>1, Untouched, StampsUntouched, DecisionsUntouched
      DEF BeginCancel, TypeOK, intake, rows
  <1>3. ASSUME NEW o \in Orders, BeginExpire(v, o)
        PROVE  TypeInv'
    <2>1. VoidsOK'
      BY <1>1, <1>3 DEF BeginExpire, CANCELLABLE
    <2> QED
      BY <1>3, <2>1, Untouched, StampsUntouched, DecisionsUntouched
      DEF BeginExpire, TypeOK, intake, rows
  <1>4. CASE cancelIntent(v)
    <2>1. VoidsOK'
      BY <1>4, SMT DEF cancelIntent, TypeOK, VoidsOK, Idle
    <2>2. voids[v].live \in Intents \cup {None}
      BY <1>4, SMT DEF cancelIntent, TypeOK, VoidsOK, Idle
    <2>3. ExternalOK'
      BY <1>4, <2>2, SMT DEF cancelIntent, TypeOK, ExternalOK, Events, EventKinds
    <2> QED
      BY <1>4, <2>1, <2>3, Untouched, StampsUntouched, DecisionsUntouched
      DEF cancelIntent, TypeOK, intake, rows
  <1>5. CASE commitVoid(v)
    <2>1. /\ voids[v].order \in Orders
          /\ voids[v].to \in {"CANCELLED", "EXPIRED"}
          /\ voids[v].live \in Intents \cup {None}
      BY <1>5, SMT DEF commitVoid, TypeOK, VoidsOK, Idle
    <2>2. OrdersOK' /\ DayStamped'
      BY <1>5, <2>1, TransitionType, Untouched, StampsUntouched
      DEF commitVoid, OrderStatus, intake, rows
    <2>3. MoneyOK'
      BY <1>5, <2>1 DEF commitVoid, TypeOK, MoneyOK, Payments, PaymentStatus
    <2> QED
      BY <1>0, <1>5, <2>2, <2>3, Untouched, DecisionsUntouched, SMT DEF commitVoid, TypeOK
  <1>6. CASE VoidFails(v)
    BY <1>0, <1>6, Untouched, StampsUntouched, DecisionsUntouched
    DEF VoidFails, TypeOK, intake, rows
  <1> QED
    BY <1>2, <1>3, <1>4, <1>5, <1>6 DEF VoidStep

LEMMA TypeGatewayStep ==
  ASSUME TypeInv, NEW i \in Intents, GatewayStep(i)
  PROVE  TypeInv'
  <1> USE DEF TypeInv
  <1>1. ExternalOK'
    BY SMT DEF GatewayStep, Capture, Decline, Lapse, TypeOK, ExternalOK, Events, EventKinds
  <1>2. UNCHANGED <<intake, rows, money, inbox, inflight>>
    BY DEF GatewayStep, Capture, Decline, Lapse
  <1> QED
    BY <1>1, <1>2, Untouched, StampsUntouched, DecisionsUntouched
    DEF TypeOK, intake, rows, inflight

LEMMA TypeRecord ==
  ASSUME TypeInv, NEW e \in Events, record(e)
  PROVE  TypeInv'
  <1> USE DEF TypeInv
  <1>1. InboxOK'
    BY DEF record, TypeOK, InboxOK
  <1> QED
    BY <1>1, Untouched, StampsUntouched, DecisionsUntouched
    DEF record, TypeOK, intake, rows, inflight

LEMMA TypeProcessorStep ==
  ASSUME TypeInv, NEW p \in Processors, ProcessorStep(p)
  PROVE  TypeInv'
  <1> USE DEF TypeInv
  <1>0. Done(p) => ProcsOK' /\ DecisionFitsEvent'
    BY SMT DEF TypeOK, Done, ProcsOK, DecisionFitsEvent, Idle
  <1>1. ASSUME NEW e \in Events, apply(p, e)
        PROVE  TypeInv'
    <2>1. ProcsOK' /\ DecisionFitsEvent'
      BY <1>1 DEF apply, decidePaymentOutcome, TypeOK, ProcsOK, DecisionFitsEvent, Events,
                  EventKinds
    <2> QED
      BY <1>1, <2>1, Untouched, StampsUntouched DEF apply, TypeOK, intake, rows
  <1>2. ASSUME procs[p].phase \in {"SKIP", "MARK_PAYMENT", "MARK_PAID"}
        PROVE  /\ procs[p].event \in Events
               /\ procs[p].event[1] \in Intents
    BY <1>2, SMT DEF TypeOK, ProcsOK, Idle, Events
  <1>3. procs[p].phase \in {"SKIP", "MARK_PAYMENT", "MARK_PAID"}
            /\ markProcessed(procs[p].event) => InboxOK'
    BY <1>2 DEF markProcessed, TypeOK, InboxOK
  <1>4. CASE refuse(p)
    BY <1>0, <1>4, Untouched, StampsUntouched DEF refuse, TypeOK, intake, rows
  <1>5. CASE skip(p)
    BY <1>0, <1>3, <1>5, Untouched, StampsUntouched DEF skip, TypeOK, intake, rows
  <1>6. CASE markPayment(p)
    <2>1. MoneyOK'
      BY <1>2, <1>6 DEF markPayment, TypeOK, MoneyOK, Payments, PaymentStatus, DecisionFitsEvent
    <2> QED
      BY <1>0, <1>3, <1>6, <2>1, Untouched, StampsUntouched
      DEF markPayment, TypeOK, intake, rows
  <1>7. CASE markPaid(p)
    <2>1. OrderOf[procs[p].event[1]] \in Orders
      BY <1>2, <1>7 DEF markPaid, Payments
    <2>2. OrdersOK' /\ DayStamped'
      BY <1>7, <2>1, TransitionType, Untouched, StampsUntouched
      DEF markPaid, OrderStatus, intake, rows
    <2>3. MoneyOK' /\ InboxOK'
      BY <1>2, <1>3, <1>7 DEF markPaid, TypeOK, MoneyOK, InboxOK, Payments, PaymentStatus
    <2> QED
      BY <1>0, <1>7, <2>2, <2>3, Untouched DEF markPaid, TypeOK
  <1>8. CASE ProcessingFails(p)
    BY <1>0, <1>8, Untouched, StampsUntouched DEF ProcessingFails, TypeOK, intake, rows
  <1> QED
    BY <1>1, <1>4, <1>5, <1>6, <1>7, <1>8 DEF ProcessorStep

LEMMA TypeRefundStep ==
  ASSUME TypeInv, NEW m \in Managers, RefundStep(m)
  PROVE  TypeInv'
  <1> USE DEF TypeInv
  <1>0. refunds' = [refunds EXCEPT ![m] = Idle] => RefundsOK'
    BY DEF TypeOK, RefundsOK
  <1>1. ASSUME NEW p \in Payments, BeginRefund(m, p)
        PROVE  TypeInv'
    <2>1. RefundsOK'
      BY <1>1 DEF BeginRefund, TypeOK, RefundsOK, OrdersOK
    <2> QED
      BY <1>1, <2>1, Untouched, StampsUntouched, DecisionsUntouched
      DEF BeginRefund, TypeOK, intake, rows
  <1>2. ASSUME NEW amount \in 1..Total, commitRefund(m, amount)
        PROVE  TypeInv'
    <2>1. refunds[m].payment \in Payments
      BY <1>2, SMT DEF commitRefund, TypeOK, RefundsOK, Idle
    <2>2. OrderOf[refunds[m].payment] \in Orders
      BY <2>1
    <2>3. OrdersOK' /\ DayStamped'
      BY <1>2, <2>2, TransitionType, Untouched, StampsUntouched
      DEF commitRefund, OrderStatus, intake, rows
    <2>4. MoneyOK'
      BY <1>2, <2>1, SMT DEF commitRefund, TypeOK, MoneyOK
    <2> QED
      BY <1>0, <1>2, <2>3, <2>4, Untouched, DecisionsUntouched DEF commitRefund, TypeOK
  <1>3. CASE RefundFails(m)
    BY <1>0, <1>3, Untouched, StampsUntouched, DecisionsUntouched
    DEF RefundFails, TypeOK, intake, rows
  <1> QED
    BY <1>1, <1>2, <1>3 DEF RefundStep

LEMMA TypeNext == TypeInv /\ [Next]_vars => TypeInv'
  <1> SUFFICES ASSUME TypeInv, [Next]_vars PROVE TypeInv'
    OBVIOUS
  <1>1. CASE UNCHANGED vars
    BY <1>1, Untouched, StampsUntouched, DecisionsUntouched
    DEF vars, TypeInv, TypeOK, inflight, intake, rows
  <1>2. CASE Next
    BY <1>2, TypeOrderStep, TypeDayEnds, TypePayStep, TypeVoidStep, TypeGatewayStep,
       TypeRecord, TypeProcessorStep, TypeRefundStep DEF Next
  <1> QED
    BY <1>1, <1>2

\* Every variable keeps its type, refund sums stay within the amount, and no
\* handler writes a payment status that is not one.
THEOREM TypeCorrect == Spec => []TypeOK
  <1>1. Spec => []TypeInv
    BY TypeInit, TypeNext, PTL DEF Spec
  <1>2. TypeInv => TypeOK
    BY DEF TypeInv
  <1> QED
    BY <1>1, <1>2, PTL

-----------------------------------------------------------------------------
(* That orders, payments and refunds agree, whatever interleaves. *)

\* What a handler still knows when it reaches its transaction.  The live
\* payment of a cancel or a sweep is one of its order; only PENDING_PAYMENT
\* orders are being expired; a payment being refunded stays SUCCEEDED, and
\* the status its order had then was one that follows payment.
CarriedVoids ==
    \A v \in Voiders : voids[v] # Idle =>
        /\ voids[v].live # None => OrderOf[voids[v].live] = voids[v].order
        /\ voids[v].to = "EXPIRED" => voids[v].from = "PENDING_PAYMENT"
        /\ v \in Sweepers => voids[v].to = "EXPIRED"

CarriedRefunds ==
    \A m \in Managers : refunds[m] # Idle =>
        /\ payments[refunds[m].payment] = "SUCCEEDED"
        /\ refunds[m].from \in Settled

MoneyInv ==
    TypeInv /\ PaidExactlyOnce /\ RefundsBalance /\ CarriedVoids /\ CarriedRefunds

-----------------------------------------------------------------------------
(* The four ways a step can touch orders and money. *)

\* It moves no payment into or out of SUCCEEDED, no order into or out of the
\* settled statuses, and no refund.
Quiet ==
    /\ \A p \in Payments : payments'[p] = "SUCCEEDED" <=> payments[p] = "SUCCEEDED"
    /\ \A o \in Orders : status'[o] \in Settled <=> status[o] \in Settled
    /\ \A o \in Orders : status'[o] = "REFUNDED" <=> status[o] = "REFUNDED"
    /\ UNCHANGED refunded

LEMMA QuietKeepsBooks ==
  ASSUME PaidExactlyOnce, RefundsBalance, Quiet
  PROVE  PaidExactlyOnce' /\ RefundsBalance'
  <1>1. \A o \in Orders : SucceededOf(o)' = SucceededOf(o)
    BY DEF Quiet, SucceededOf, PaymentsOf
  <1>2. PaidExactlyOnce'
    BY <1>1, SMT DEF PaidExactlyOnce, Quiet
  <1>3. RefundsBalance'
    BY SMT DEF RefundsBalance, Quiet, PaymentsOf
  <1> QED
    BY <1>2, <1>3

\* It settles a PENDING_PAYMENT order with one payment.
Settles(o, p) ==
    /\ status[o] = "PENDING_PAYMENT" /\ OrderOf[p] = o
    /\ status' = [status EXCEPT ![o] = "PAID"]
    /\ payments' = [payments EXCEPT ![p] = "SUCCEEDED"]
    /\ UNCHANGED refunded

LEMMA SettlingKeepsBooks ==
  ASSUME TypeOK, PaidExactlyOnce, RefundsBalance, NEW o \in Orders, NEW p \in Payments,
         Settles(o, p)
  PROVE  /\ PaidExactlyOnce' /\ RefundsBalance'
         /\ SucceededOf(o) = {}
         /\ SucceededOf(o)' = {p}
         /\ \A x \in Orders \ {o} : SucceededOf(x)' = SucceededOf(x)
  <1>1. SucceededOf(o) = {}
    BY DEF PaidExactlyOnce, Settles, Settled
  <1>2. SucceededOf(o)' = {p}
    BY <1>1 DEF Settles, SucceededOf, PaymentsOf, TypeOK, MoneyOK
  <1>3. \A x \in Orders \ {o} : SucceededOf(x)' = SucceededOf(x)
    BY DEF Settles, SucceededOf, PaymentsOf, TypeOK, MoneyOK
  <1>4. PaidExactlyOnce'
    <2>1. status'[o] \in Settled
      BY DEF Settles, Settled, TypeOK, OrdersOK
    <2>2. \A x \in Orders \ {o} : status'[x] = status[x]
      BY DEF Settles, TypeOK, OrdersOK
    <2> QED
      BY <1>2, <1>3, <2>1, <2>2, SMT DEF PaidExactlyOnce
  <1>5. RefundsBalance'
    <2>1. \A q \in Payments : refunded'[q] > 0 => payments'[q] = "SUCCEEDED"
      BY ZenonT(30) DEF RefundsBalance, Settles, TypeOK, MoneyOK
    <2>2. \A x \in Orders : status'[x] = "REFUNDED" <=> status[x] = "REFUNDED"
      BY DEF Settles, TypeOK, OrdersOK
    <2> QED
      BY <2>1, <2>2, SMT DEF RefundsBalance, Settles, PaymentsOf
  <1> QED
    BY <1>1, <1>2, <1>3, <1>4, <1>5

\* It gives back part of a payment, or the last of it and refunds the order.
Refunds(p, amount, from) ==
    /\ payments[p] = "SUCCEEDED"
    /\ refunded' = [refunded EXCEPT ![p] = @ + amount]
    /\ \/ amount < Total - refunded[p] /\ UNCHANGED status
       \/ /\ amount = Total - refunded[p]
          /\ status[OrderOf[p]] = from
          /\ status' = [status EXCEPT ![OrderOf[p]] = "REFUNDED"]
    /\ UNCHANGED payments

LEMMA RefundingKeepsBooks ==
  ASSUME TypeOK, PaidExactlyOnce, RefundsBalance, NEW p \in Payments, NEW amount \in 1..Total,
         NEW from \in Settled, Refunds(p, amount, from)
  PROVE  /\ PaidExactlyOnce' /\ RefundsBalance'
         /\ status[OrderOf[p]] \in Settled \ {"REFUNDED"}
  <1> DEFINE o == OrderOf[p]
  <1>0. o \in Orders /\ refunded[p] \in 0..Total /\ refunded[p] # Total
    <2>1. o \in Orders /\ refunded[p] \in 0..Total
      BY DEF TypeOK, MoneyOK
    <2> QED
      BY <2>1, SMT DEF Refunds
  <1>1. p \in SucceededOf(o)
    BY DEF Refunds, SucceededOf, PaymentsOf
  <1>2. status[o] \in Settled
    BY <1>0, <1>1 DEF PaidExactlyOnce
  <1>3. \A q \in PaymentsOf(o) : q # p => refunded[q] = 0
    BY <1>0, <1>1, SMT DEF PaidExactlyOnce, RefundsBalance, SucceededOf, PaymentsOf, TypeOK, MoneyOK
  <1>4. status[o] # "REFUNDED"
    BY <1>0, <1>3 DEF RefundsBalance
  <1>5. \A x \in Orders : SucceededOf(x)' = SucceededOf(x)
    BY DEF Refunds, SucceededOf, PaymentsOf
  <1>6. \A x \in Orders : status'[x] \in Settled <=> status[x] \in Settled
    BY <1>0, <1>2 DEF Refunds, Settled, TypeOK, OrdersOK
  <1>7. PaidExactlyOnce'
    BY <1>5, <1>6, SMT DEF PaidExactlyOnce
  <1>8. RefundsBalance'
    <2>1. \A q \in Payments : refunded'[q] > 0 => payments'[q] = "SUCCEEDED"
      BY <1>0 DEF Refunds, RefundsBalance, TypeOK, MoneyOK
    <2>2. ASSUME NEW x \in Orders, x # o
          PROVE  status'[x] = "REFUNDED" <=> \E q \in PaymentsOf(x) : refunded'[q] = Total
      BY <2>2, <1>0, SMT DEF Refunds, RefundsBalance, PaymentsOf, TypeOK, OrdersOK, MoneyOK
    <2>3. status'[o] = "REFUNDED" <=> \E q \in PaymentsOf(o) : refunded'[q] = Total
      <3>1. refunded'[p] = refunded[p] + amount
        BY <1>0 DEF Refunds, TypeOK, MoneyOK
      <3>2. \A q \in PaymentsOf(o) : q # p => refunded'[q] # Total
        BY <1>3 DEF Refunds, PaymentsOf, TypeOK, MoneyOK
      <3>3. p \in PaymentsOf(o)
        BY DEF PaymentsOf
      <3> QED
        <4>1. CASE amount < Total - refunded[p] /\ UNCHANGED status
          <5>1. refunded'[p] # Total
            BY <1>0, <3>1, <4>1, SMT
          <5> QED
            BY <1>4, <3>2, <4>1, <5>1
        <4>2. CASE /\ amount = Total - refunded[p]
                   /\ status' = [status EXCEPT ![o] = "REFUNDED"]
          <5>1. refunded'[p] = Total
            BY <1>0, <3>1, <4>2, SMT
          <5> QED
            BY <1>0, <3>3, <4>2, <5>1 DEF TypeOK, OrdersOK
        <4> QED
          BY <4>1, <4>2 DEF Refunds
    <2> QED
      BY <2>1, <2>2, <2>3 DEF RefundsBalance, PaymentsOf
  <1> QED
    BY <1>2, <1>4, <1>7, <1>8

-----------------------------------------------------------------------------
(* Every step is one of them. *)

Touches ==
    \/ Quiet
    \/ \E o \in Orders, p \in Payments : Settles(o, p)
    \/ \E p \in Payments, amount \in 1..Total, from \in Settled : Refunds(p, amount, from)

\* A guarded move on one side of payment is quiet if the payments are.
LEMMA QuietMove ==
  ASSUME TypeOK, NEW o \in Orders, NEW from, NEW to,
         transitionOrder(o, from, to),
         \/ from \notin Settled /\ to \notin Settled
         \/ from \in Settled \ {"REFUNDED"} /\ to \in Settled \ {"REFUNDED"},
         UNCHANGED refunded,
         \A p \in Payments : payments'[p] = "SUCCEEDED" <=> payments[p] = "SUCCEEDED"
  PROVE  Quiet
  BY DEF Quiet, transitionOrder, TypeOK, OrdersOK, Settled

LEMMA QuietWhenUntouched ==
  ASSUME UNCHANGED <<status, refunded>>,
         \A p \in Payments : payments'[p] = "SUCCEEDED" <=> payments[p] = "SUCCEEDED"
  PROVE  Quiet
  BY DEF Quiet

LEMMA OrderTouches ==
  ASSUME MoneyInv, NEW o \in Orders, OrderStep(o)
  PROVE  Quiet
  <1> USE DEF MoneyInv, TypeInv
  <1>1. ASSUME NEW to \in {"DRAFT", "PENDING_PAYMENT"}, PlaceOrder(o, to)
        PROVE  Quiet
    BY <1>1 DEF PlaceOrder, Quiet, TypeOK, OrdersOK, Settled, money
  <1>2. CASE Checkout(o)
    BY <1>2 DEF Checkout, Quiet, TypeOK, OrdersOK, Settled, money
  <1>3. ASSUME NEW to \in OrderStatus, StaffTransition(o, to)
        PROVE  Quiet
    BY <1>3, QuietMove DEF StaffTransition, STAFF_TRANSITIONS, Settled, money
  <1>4. CASE DeadlinePasses(o)
    BY <1>4 DEF DeadlinePasses, Quiet, money
  <1> QED
    BY <1>1, <1>2, <1>3, <1>4 DEF OrderStep

LEMMA PayTouches ==
  ASSUME MoneyInv, NEW t \in Tills, PayStep(t)
  PROVE  Touches
  <1> USE DEF MoneyInv, TypeInv
  <1>1. CASE \/ \E o \in Orders, method \in {"CASH", "CARD"} : ReadOrder(t, o, method)
             \/ CheckNoneLive(t)
             \/ \E i \in Intents : createIntent(t, i)
             \/ PayFails(t)
    BY <1>1 DEF ReadOrder, CheckNoneLive, createIntent, PayFails, Touches, Quiet, money, rows
  <1>2. ASSUME NEW p \in CashPayments, takeCash(t, p)
        PROVE  Touches
    <2>0. pays[t].order \in Orders /\ p \in Payments
      BY <1>2 DEF takeCash, TypeOK, PaysOK, Idle, Payments
    <2>1. CASE status[pays[t].order] = "PENDING_PAYMENT"
      <3>1. Settles(pays[t].order, p)
        BY <1>2, <2>1 DEF takeCash, transitionOrder, Settles
      <3> QED
        BY <2>0, <3>1 DEF Touches
    <2>2. CASE status[pays[t].order] # "PENDING_PAYMENT"
      BY <1>2, <2>2 DEF takeCash, transitionOrder, Touches, Quiet, rows
    <2> QED
      BY <2>1, <2>2
  <1>3. CASE insertPayment(t)
    <2>0. pays[t].intent \in Payments
      BY <1>3, SMTT(30) DEF insertPayment, TypeOK, PaysOK, Idle, Payments
    <2>1. \A p \in Payments : payments'[p] = "SUCCEEDED" <=> payments[p] = "SUCCEEDED"
      BY <1>3, <2>0 DEF insertPayment, TypeOK, MoneyOK
    <2> QED
      BY <1>3, <2>1, QuietWhenUntouched DEF insertPayment, Touches, rows
  <1> QED
    BY <1>1, <1>2, <1>3 DEF PayStep

LEMMA VoidTouches ==
  ASSUME MoneyInv, NEW v \in Voiders, VoidStep(v)
  PROVE  Quiet
  <1> USE DEF MoneyInv, TypeInv
  <1>1. CASE \/ \E o \in Orders : BeginCancel(v, o) \/ BeginExpire(v, o)
             \/ cancelIntent(v)
             \/ VoidFails(v)
    BY <1>1 DEF BeginCancel, BeginExpire, cancelIntent, VoidFails, Quiet, money, rows
  <1>2. CASE commitVoid(v)
    <2> DEFINE r == voids[v]
    <2>0. /\ r # Idle /\ r.order \in Orders /\ r.from \in CANCELLABLE
          /\ r.to \in {"CANCELLED", "EXPIRED"} /\ r.live \in Intents \cup {None}
      BY <1>2, SMT DEF commitVoid, TypeOK, VoidsOK, Idle
    <2>1. CASE status[r.order] = r.from
      <3>1. SucceededOf(r.order) = {}
        BY <2>0, <2>1 DEF PaidExactlyOnce, CANCELLABLE, Settled
      <3>2. r.live # None => r.live \in Payments /\ payments[r.live] # "SUCCEEDED"
        BY <2>0, <3>1 DEF CarriedVoids, SucceededOf, PaymentsOf, Payments
      <3>3. \A p \in Payments : payments'[p] = "SUCCEEDED" <=> payments[p] = "SUCCEEDED"
        BY <1>2, <2>1, <3>2 DEF commitVoid, TypeOK, MoneyOK
      <3>4. transitionOrder(r.order, r.from, r.to) /\ UNCHANGED refunded
        BY <1>2, <2>1 DEF commitVoid
      <3>5. r.from \notin Settled /\ r.to \notin Settled
        BY <2>0 DEF CANCELLABLE, Settled
      <3> QED
        BY <2>0, <3>3, <3>4, <3>5, QuietMove
    <2>2. CASE status[r.order] # r.from
      BY <1>2, <2>2 DEF commitVoid, transitionOrder, Quiet, rows
    <2> QED
      BY <2>1, <2>2
  <1> QED
    BY <1>1, <1>2 DEF VoidStep

LEMMA ProcessorTouches ==
  ASSUME MoneyInv, NEW p \in Processors, ProcessorStep(p)
  PROVE  Touches
  <1> USE DEF MoneyInv, TypeInv
  <1>1. CASE \/ \E e \in Events : apply(p, e)
             \/ refuse(p) \/ skip(p) \/ ProcessingFails(p)
    BY <1>1 DEF apply, refuse, skip, ProcessingFails, Touches, Quiet, money, rows
  <1>2. procs[p].phase \in {"MARK_PAYMENT", "MARK_PAID"} =>
            /\ procs[p].event[1] \in Payments
            /\ OrderOf[procs[p].event[1]] \in Orders
    <2>1. procs[p].phase # "idle" => procs[p].event \in Events
      BY SMT DEF TypeOK, ProcsOK, Idle
    <2>2. \A e \in Events : e[1] \in Payments /\ OrderOf[e[1]] \in Orders
      BY DEF Events, Payments
    <2> QED
      BY <2>1, <2>2
  <1>3. CASE markPayment(p)
    <2>1. procs[p].event[2] # "SUCCEEDED"
      BY <1>3 DEF markPayment, DecisionFitsEvent
    <2>2. \A q \in Payments : payments'[q] = "SUCCEEDED" <=> payments[q] = "SUCCEEDED"
      BY <1>2, <1>3, <2>1 DEF markPayment, TypeOK, MoneyOK
    <2> QED
      BY <1>3, <2>2, QuietWhenUntouched DEF markPayment, Touches, rows
  <1>4. CASE markPaid(p)
    <2> DEFINE i == procs[p].event[1]
    <2>1. CASE status[OrderOf[i]] = "PENDING_PAYMENT"
      <3>1. Settles(OrderOf[i], i)
        BY <1>4, <2>1 DEF markPaid, transitionOrder, Settles
      <3> QED
        BY <1>2, <1>4, <3>1 DEF markPaid, Touches
    <2>2. CASE status[OrderOf[i]] # "PENDING_PAYMENT"
      BY <1>4, <2>2 DEF markPaid, transitionOrder, Touches, Quiet, rows
    <2> QED
      BY <2>1, <2>2
  <1> QED
    BY <1>1, <1>3, <1>4 DEF ProcessorStep

LEMMA RefundTouches ==
  ASSUME MoneyInv, NEW m \in Managers, RefundStep(m)
  PROVE  Touches
  <1> USE DEF MoneyInv, TypeInv
  <1>1. CASE (\E p \in Payments : BeginRefund(m, p)) \/ RefundFails(m)
    BY <1>1 DEF BeginRefund, RefundFails, Touches, Quiet, money, rows
  <1>2. ASSUME NEW amount \in 1..Total, commitRefund(m, amount)
        PROVE  Touches
    <2>1. refunds[m] # Idle /\ refunds[m].payment \in Payments
      BY <1>2, SMTT(30) DEF commitRefund, TypeOK, RefundsOK, Idle
    <2>2. payments[refunds[m].payment] = "SUCCEEDED" /\ refunds[m].from \in Settled
      BY <2>1 DEF CarriedRefunds
    <2>3. Refunds(refunds[m].payment, amount, refunds[m].from)
      BY <1>2, <2>2 DEF commitRefund, Refunds, transitionOrder, rows
    <2> QED
      BY <2>1, <2>2, <2>3 DEF Touches
  <1> QED
    BY <1>1, <1>2 DEF RefundStep

LEMMA NextTouches ==
  ASSUME MoneyInv, [Next]_vars
  PROVE  Touches
  <1>1. CASE UNCHANGED vars \/ DayEnds
    BY <1>1 DEF vars, DayEnds, Touches, Quiet, money, rows
  <1>2. CASE \E i \in Intents : GatewayStep(i)
    BY <1>2 DEF GatewayStep, Capture, Decline, Lapse, Touches, Quiet, money, rows
  <1>3. CASE \E e \in Events : record(e)
    BY <1>3 DEF record, Touches, Quiet, money, rows
  <1> QED
    BY <1>1, <1>2, <1>3, OrderTouches, PayTouches, VoidTouches, ProcessorTouches, RefundTouches
    DEF Next, Touches

\* A payment that succeeded stays so, and refunds only grow.
LEMMA MoneyStays ==
  ASSUME MoneyInv, [Next]_vars, NEW p \in Payments
  PROVE  /\ payments[p] = "SUCCEEDED" => payments'[p] = "SUCCEEDED"
         /\ refunded'[p] >= refunded[p]
  <1>0. refunded[p] \in 0..Total /\ payments \in [Payments -> PaymentStatus \cup {"NONE"}]
    BY DEF MoneyInv, TypeInv, TypeOK, MoneyOK
  <1>1. CASE Quiet
    BY <1>0, <1>1, SMT DEF Quiet
  <1>2. ASSUME NEW o \in Orders, NEW q \in Payments, Settles(o, q)
        PROVE  /\ payments[p] = "SUCCEEDED" => payments'[p] = "SUCCEEDED"
               /\ refunded'[p] >= refunded[p]
    BY <1>0, <1>2, SMTT(30) DEF Settles
  <1>3. ASSUME NEW q \in Payments, NEW amount \in 1..Total, NEW from \in Settled,
               Refunds(q, amount, from)
        PROVE  /\ payments[p] = "SUCCEEDED" => payments'[p] = "SUCCEEDED"
               /\ refunded'[p] >= refunded[p]
    BY <1>0, <1>3, SMT DEF Refunds, MoneyInv, TypeInv, TypeOK, MoneyOK
  <1> QED
    BY <1>1, <1>2, <1>3, NextTouches DEF Touches

LEMMA BooksNext ==
  ASSUME MoneyInv, [Next]_vars
  PROVE  PaidExactlyOnce' /\ RefundsBalance'
  BY NextTouches, QuietKeepsBooks, SettlingKeepsBooks, RefundingKeepsBooks
  DEF MoneyInv, TypeInv, Touches

\* Only a cancel or a sweep changes what cancels and sweeps carry.
LEMMA CarriedVoidsNext ==
  ASSUME MoneyInv, [Next]_vars
  PROVE  CarriedVoids'
  <1> USE DEF MoneyInv, TypeInv
  <1>0. ASSUME UNCHANGED voids PROVE CarriedVoids'
    BY <1>0 DEF CarriedVoids
  <1>1. ASSUME NEW v \in Voiders, VoidStep(v) PROVE CarriedVoids'
    <2>0. voids' = [voids EXCEPT ![v] = Idle] => CarriedVoids'
      BY DEF CarriedVoids, TypeOK, VoidsOK
    <2>1. ASSUME NEW o \in Orders, NEW to, readLive(v, o, to),
                 to = "EXPIRED" => status[o] = "PENDING_PAYMENT",
                 v \in Sweepers => to = "EXPIRED"
          PROVE  CarriedVoids'
      <3>1. PICK live \in IntentsOf(o) \cup {None} :
               voids' = [voids EXCEPT ![v] = [phase |-> "read", order |-> o, from |-> status[o],
                                             to |-> to, live |-> live]]
        BY <2>1 DEF readLive, LivePayments
      <3> QED
        BY <2>1, <3>1 DEF CarriedVoids, TypeOK, VoidsOK, IntentsOf
    <2>2. ASSUME NEW o \in Orders, BeginCancel(v, o) PROVE CarriedVoids'
      BY <2>1, <2>2 DEF BeginCancel
    <2>3. ASSUME NEW o \in Orders, BeginExpire(v, o) PROVE CarriedVoids'
      BY <2>1, <2>3 DEF BeginExpire
    <2>4. CASE cancelIntent(v)
      <3>1. CASE voids' = [voids EXCEPT ![v].phase = "voided"]
        <4>1. voids[v] # Idle
          BY <2>4, SMT DEF cancelIntent, Idle
        <4> QED
          BY <3>1, <4>1, SMT DEF CarriedVoids, TypeOK, VoidsOK
      <3> QED
        BY <2>0, <2>4, <3>1 DEF cancelIntent
    <2>5. CASE commitVoid(v) \/ VoidFails(v)
      BY <2>0, <2>5 DEF commitVoid, VoidFails
    <2> QED
      BY <1>1, <2>2, <2>3, <2>4, <2>5, SMT DEF VoidStep
  <1>2. ASSUME NEW o \in Orders, OrderStep(o) PROVE UNCHANGED voids
    BY <1>2 DEF OrderStep, PlaceOrder, Checkout, StaffTransition, DeadlinePasses, inflight
  <1>3. ASSUME NEW t \in Tills, PayStep(t) PROVE UNCHANGED voids
    BY <1>3 DEF PayStep, ReadOrder, CheckNoneLive, takeCash, createIntent, insertPayment, PayFails
  <1>4. ASSUME NEW p \in Processors, ProcessorStep(p) PROVE UNCHANGED voids
    BY <1>4 DEF ProcessorStep, apply, refuse, skip, markPayment, markPaid, ProcessingFails
  <1>5. ASSUME NEW m \in Managers, RefundStep(m) PROVE UNCHANGED voids
    BY <1>5 DEF RefundStep, BeginRefund, commitRefund, RefundFails
  <1>6. ASSUME NEW i \in Intents, GatewayStep(i) PROVE UNCHANGED voids
    BY <1>6 DEF GatewayStep, Capture, Decline, Lapse, inflight
  <1>7. CASE UNCHANGED vars \/ DayEnds \/ \E e \in Events : record(e)
    BY <1>0, <1>7 DEF vars, DayEnds, record, inflight
  <1> QED
    BY <1>0, <1>1, <1>2, <1>3, <1>4, <1>5, <1>6, <1>7 DEF Next

LEMMA CarriedRefundsNext ==
  ASSUME MoneyInv, [Next]_vars
  PROVE  CarriedRefunds'
  <1> USE DEF MoneyInv, TypeInv
  <1>0. \A m \in Managers : refunds[m] # Idle => refunds[m].payment \in Payments
    BY DEF TypeOK, RefundsOK
  <1>1. ASSUME UNCHANGED refunds PROVE CarriedRefunds'
    BY <1>0, <1>1, MoneyStays DEF CarriedRefunds
  <1>2. ASSUME NEW m \in Managers, RefundStep(m) PROVE CarriedRefunds'
    <2>0. refunds' = [refunds EXCEPT ![m] = Idle] => CarriedRefunds'
      BY <1>0, MoneyStays DEF CarriedRefunds, TypeOK, RefundsOK
    <2>1. ASSUME NEW p \in Payments, BeginRefund(m, p) PROVE CarriedRefunds'
      <3>1. status[OrderOf[p]] \in Settled /\ payments'[p] = "SUCCEEDED"
        BY <2>1 DEF BeginRefund, PaidExactlyOnce, SucceededOf, PaymentsOf, money
      <3>2. refunds' = [refunds EXCEPT ![m] = [phase |-> "read", payment |-> p,
                                               from |-> status[OrderOf[p]]]]
        BY <2>1 DEF BeginRefund
      <3>3. UNCHANGED payments
        BY <2>1 DEF BeginRefund, money
      <3> QED
        BY <3>1, <3>2, <3>3 DEF CarriedRefunds, TypeOK, RefundsOK
    <2> QED
      BY <1>2, <2>0, <2>1 DEF RefundStep, commitRefund, RefundFails
  <1>3. ASSUME NEW o \in Orders, OrderStep(o) PROVE UNCHANGED refunds
    BY <1>3 DEF OrderStep, PlaceOrder, Checkout, StaffTransition, DeadlinePasses, inflight
  <1>4. ASSUME NEW t \in Tills, PayStep(t) PROVE UNCHANGED refunds
    BY <1>4 DEF PayStep, ReadOrder, CheckNoneLive, takeCash, createIntent, insertPayment, PayFails
  <1>5. ASSUME NEW p \in Processors, ProcessorStep(p) PROVE UNCHANGED refunds
    BY <1>5 DEF ProcessorStep, apply, refuse, skip, markPayment, markPaid, ProcessingFails
  <1>6. ASSUME NEW v \in Voiders, VoidStep(v) PROVE UNCHANGED refunds
    BY <1>6 DEF VoidStep, BeginCancel, BeginExpire, cancelIntent, commitVoid, VoidFails
  <1>7. ASSUME NEW i \in Intents, GatewayStep(i) PROVE UNCHANGED refunds
    BY <1>7 DEF GatewayStep, Capture, Decline, Lapse, inflight
  <1>8. CASE UNCHANGED vars \/ DayEnds \/ \E e \in Events : record(e)
    BY <1>1, <1>8 DEF vars, DayEnds, record, inflight
  <1> QED
    BY <1>1, <1>2, <1>3, <1>4, <1>5, <1>6, <1>7, <1>8 DEF Next

LEMMA MoneyInit == Init => MoneyInv
  <1> SUFFICES ASSUME Init PROVE MoneyInv
    OBVIOUS
  <1>1. PaidExactlyOnce
    BY DEF Init, PaidExactlyOnce, SucceededOf, PaymentsOf, Settled
  <1>2. RefundsBalance
    BY SMT DEF Init, RefundsBalance, PaymentsOf
  <1>3. CarriedVoids /\ CarriedRefunds
    BY DEF Init, CarriedVoids, CarriedRefunds
  <1> QED
    BY <1>1, <1>2, <1>3, TypeInit DEF MoneyInv

LEMMA MoneyNext == MoneyInv /\ [Next]_vars => MoneyInv'
  BY TypeNext, BooksNext, CarriedVoidsNext, CarriedRefundsNext DEF MoneyInv

LEMMA MoneyAlways == Spec => []MoneyInv
  BY MoneyInit, MoneyNext, PTL DEF Spec

\* An order is settled exactly while one payment of it, and only one, has
\* succeeded, however cash, webhooks, cancels and sweeps interleave.
THEOREM PaidExactlyOnceHolds == Spec => []PaidExactlyOnce
  <1>1. MoneyInv => PaidExactlyOnce
    BY DEF MoneyInv
  <1> QED
    BY <1>1, MoneyAlways, PTL

\* Concurrent refunds never give back more than was taken, and REFUNDED means
\* fully refunded.
THEOREM RefundsBalanceHolds == Spec => []RefundsBalance
  <1>1. MoneyInv => RefundsBalance
    BY DEF MoneyInv
  <1> QED
    BY <1>1, MoneyAlways, PTL

\* No event, cancel or sweep moves a payment that succeeded or undoes a refund.
THEOREM SettledMoneyStaysHolds == Spec => SettledMoneyStays
  <1>1. MoneyInv /\ [Next]_vars =>
          [\A p \in Payments :
              /\ payments[p] = "SUCCEEDED" => payments'[p] = "SUCCEEDED"
              /\ refunded'[p] >= refunded[p]]_vars
    BY MoneyStays
  <1> QED
    BY <1>1, MoneyAlways, PTL DEF Spec, SettledMoneyStays

=============================================================================

-------------------------- MODULE OrderBooksProofs --------------------------
(***************************************************************************)
(* That OrderPayments implements OrderLedger, that the inbox forgets no     *)
(* capture and that queue numbers have no gap, for every value of the       *)
(* constants of OrderPayments.                                              *)
(***************************************************************************)
EXTENDS OrderPaymentsProofs

\* A leaf is first-order reasoning, unless it says that it needs SMT.
USE Zenon

USE IdsAssumption, TotalAssumption, DayAssumption, CaptureAssumption

-----------------------------------------------------------------------------
(* The simulation. *)

\* An order that is not there yet has no history: PlaceOrder writes the first row.
NoRowNoHistory == \A o \in Orders : status[o] = "NONE" => history[o] = <<>>

LedgerInv == MoneyInv /\ NoRowNoHistory

\* A step of the ledger, or none.
LedgerStep == [Ledger!Next]_(Ledger!vars)

LEMMA SameSucceeded ==
  ASSUME \A p \in Payments : payments'[p] = "SUCCEEDED" <=> payments[p] = "SUCCEEDED"
  PROVE  [o \in Orders |-> SucceededOf(o)]' = [o \in Orders |-> SucceededOf(o)]
  BY DEF SucceededOf, PaymentsOf

\* A step that writes no order row, no refund and no success is none of the ledger's.
LEMMA LedgerUntouched ==
  ASSUME UNCHANGED <<status, history, refunded>>,
         \A p \in Payments : payments'[p] = "SUCCEEDED" <=> payments[p] = "SUCCEEDED"
  PROVE  LedgerStep
  BY SameSucceeded DEF LedgerStep, Ledger!vars

\* A legal move with its history row, which leaves the money alone.
LEMMA LedgerAdvances ==
  ASSUME NEW o \in Orders,
         NEW to \in {"DRAFT", "PENDING_PAYMENT", "IN_PREPARATION", "READY", "COMPLETED"},
         Ledger!isLegalTransition(status[o], to),
         status' = [status EXCEPT ![o] = to],
         history' = [history EXCEPT ![o] = Append(@, to)],
         UNCHANGED <<payments, refunded>>
  PROVE  LedgerStep
  <1>1. Ledger!Advance(o, to)
    BY SameSucceeded DEF Ledger!Advance, Ledger!Move
  <1> QED
    BY <1>1 DEF LedgerStep, Ledger!Next

LEMMA LedgerSettles ==
  ASSUME MoneyInv, NEW o \in Orders, NEW p \in Payments, OrderOf[p] = o,
         transitionOrder(o, "PENDING_PAYMENT", "PAID"),
         payments' = [payments EXCEPT ![p] = "SUCCEEDED"],
         UNCHANGED refunded
  PROVE  LedgerStep
  <1>1. Settles(o, p)
    BY DEF Settles, transitionOrder
  <1>2. /\ SucceededOf(o) = {}
        /\ SucceededOf(o)' = {p}
        /\ \A x \in Orders \ {o} : SucceededOf(x)' = SucceededOf(x)
    BY <1>1, SettlingKeepsBooks DEF MoneyInv, TypeInv
  <1>3. [x \in Orders |-> SucceededOf(x)]'
            = [[x \in Orders |-> SucceededOf(x)] EXCEPT ![o] = {p}]
    BY <1>2
  <1>4. Ledger!Move(o, "PAID")
    BY SMT DEF transitionOrder, Ledger!Move, Ledger!isLegalTransition, Ledger!ORDER_TRANSITIONS
  <1>5. Ledger!Settle(o, p)
    BY <1>2, <1>3, <1>4 DEF Ledger!Settle
  <1> QED
    BY <1>5 DEF LedgerStep, Ledger!Next

LEMMA LedgerCloses ==
  ASSUME NEW o \in Orders, NEW from, NEW to \in {"CANCELLED", "EXPIRED"},
         transitionOrder(o, from, to), SucceededOf(o) = {},
         from = "PENDING_PAYMENT" \/ (from = "DRAFT" /\ to = "CANCELLED"),
         \A p \in Payments : payments'[p] = "SUCCEEDED" <=> payments[p] = "SUCCEEDED",
         UNCHANGED refunded
  PROVE  LedgerStep
  <1>1. Ledger!Move(o, to)
    BY SMT DEF transitionOrder, Ledger!Move, Ledger!isLegalTransition, Ledger!ORDER_TRANSITIONS
  <1>2. Ledger!Close(o, to)
    BY <1>1, SameSucceeded, SMT DEF Ledger!Close
  <1> QED
    BY <1>2 DEF LedgerStep, Ledger!Next

-----------------------------------------------------------------------------
(* One lemma per kind of actor. *)

LEMMA OrderSimulates ==
  ASSUME LedgerInv, NEW o \in Orders, OrderStep(o)
  PROVE  LedgerStep
  <1> USE DEF LedgerInv, MoneyInv, TypeInv
  <1>1. ASSUME NEW to \in {"DRAFT", "PENDING_PAYMENT"}, PlaceOrder(o, to)
        PROVE  LedgerStep
    <2>1. history[o] = <<>> /\ history' = [history EXCEPT ![o] = <<to>>]
      BY <1>1 DEF PlaceOrder, NoRowNoHistory
    <2>2. history' = [history EXCEPT ![o] = Append(@, to)]
      BY <2>1, SMT DEF TypeOK, OrdersOK
    <2>3. Ledger!isLegalTransition(status[o], to)
      BY <1>1, SMT DEF PlaceOrder, Ledger!isLegalTransition, Ledger!ORDER_TRANSITIONS
    <2> QED
      BY <1>1, <2>2, <2>3, LedgerAdvances DEF PlaceOrder, money
  <1>2. CASE Checkout(o)
    <2>1. Ledger!isLegalTransition(status[o], "PENDING_PAYMENT")
      BY <1>2, SMT DEF Checkout, Ledger!isLegalTransition, Ledger!ORDER_TRANSITIONS
    <2> QED
      BY <1>2, <2>1, LedgerAdvances DEF Checkout, money
  <1>3. ASSUME NEW to \in OrderStatus, StaffTransition(o, to)
        PROVE  LedgerStep
    <2>1. /\ to \in {"IN_PREPARATION", "READY", "COMPLETED"}
          /\ Ledger!isLegalTransition(status[o], to)
      BY <1>3, SMT DEF StaffTransition, STAFF_TRANSITIONS, Ledger!isLegalTransition,
                  Ledger!ORDER_TRANSITIONS
    <2> QED
      BY <1>3, <2>1, LedgerAdvances DEF StaffTransition, transitionOrder, money
  <1>4. CASE DeadlinePasses(o)
    BY <1>4, LedgerUntouched DEF DeadlinePasses, money
  <1> QED
    BY <1>1, <1>2, <1>3, <1>4 DEF OrderStep

LEMMA PaySimulates ==
  ASSUME LedgerInv, NEW t \in Tills, PayStep(t)
  PROVE  LedgerStep
  <1> USE DEF LedgerInv, MoneyInv, TypeInv
  <1>1. CASE \/ \E o \in Orders, method \in {"CASH", "CARD"} : ReadOrder(t, o, method)
             \/ CheckNoneLive(t)
             \/ \E i \in Intents : createIntent(t, i)
             \/ PayFails(t)
    BY <1>1, LedgerUntouched DEF ReadOrder, CheckNoneLive, createIntent, PayFails, money, rows
  <1>2. ASSUME NEW p \in CashPayments, takeCash(t, p)
        PROVE  LedgerStep
    <2>0. pays[t].order \in Orders /\ p \in Payments
      BY <1>2 DEF takeCash, TypeOK, PaysOK, Idle, Payments
    <2>1. CASE status[pays[t].order] = "PENDING_PAYMENT"
      BY <1>2, <2>0, <2>1, LedgerSettles DEF takeCash
    <2>2. CASE status[pays[t].order] # "PENDING_PAYMENT"
      BY <1>2, <2>2, LedgerUntouched DEF takeCash, transitionOrder, rows
    <2> QED
      BY <2>1, <2>2
  <1>3. CASE insertPayment(t)
    <2>0. pays[t].intent \in Payments
      BY <1>3, SMT DEF insertPayment, TypeOK, PaysOK, Idle, Payments
    <2>1. \A p \in Payments : payments'[p] = "SUCCEEDED" <=> payments[p] = "SUCCEEDED"
      BY <1>3, <2>0 DEF insertPayment, TypeOK, MoneyOK
    <2> QED
      BY <1>3, <2>1, LedgerUntouched DEF insertPayment, rows
  <1> QED
    BY <1>1, <1>2, <1>3 DEF PayStep

LEMMA VoidSimulates ==
  ASSUME LedgerInv, NEW v \in Voiders, VoidStep(v)
  PROVE  LedgerStep
  <1> USE DEF LedgerInv, MoneyInv, TypeInv
  <1>1. CASE \/ \E o \in Orders : BeginCancel(v, o) \/ BeginExpire(v, o)
             \/ cancelIntent(v)
             \/ VoidFails(v)
    BY <1>1, LedgerUntouched DEF BeginCancel, BeginExpire, cancelIntent, VoidFails, money, rows
  <1>2. CASE commitVoid(v)
    <2> DEFINE r == voids[v]
    <2>0. /\ r # Idle /\ r.order \in Orders /\ r.from \in CANCELLABLE
          /\ r.to \in {"CANCELLED", "EXPIRED"} /\ r.live \in Intents \cup {None}
      BY <1>2, SMT DEF commitVoid, TypeOK, VoidsOK, Idle
    <2>1. CASE status[r.order] = r.from
      <3>1. SucceededOf(r.order) = {}
        BY <2>0, <2>1 DEF PaidExactlyOnce, CANCELLABLE, Settled
      <3>2. r.live # None => r.live \in Payments /\ payments[r.live] # "SUCCEEDED"
        BY <2>0, <3>1 DEF CarriedVoids, SucceededOf, PaymentsOf, Payments
      <3>3. \A p \in Payments : payments'[p] = "SUCCEEDED" <=> payments[p] = "SUCCEEDED"
        BY <1>2, <2>1, <3>2 DEF commitVoid, TypeOK, MoneyOK
      <3>4. transitionOrder(r.order, r.from, r.to) /\ UNCHANGED refunded
        BY <1>2, <2>1 DEF commitVoid
      <3>5. r.from = "PENDING_PAYMENT" \/ (r.from = "DRAFT" /\ r.to = "CANCELLED")
        BY <2>0 DEF CANCELLABLE, CarriedVoids
      <3> QED
        BY <2>0, <3>1, <3>3, <3>4, <3>5, LedgerCloses, SMT
    <2>2. CASE status[r.order] # r.from
      BY <1>2, <2>2, LedgerUntouched DEF commitVoid, transitionOrder, rows
    <2> QED
      BY <2>1, <2>2
  <1> QED
    BY <1>1, <1>2 DEF VoidStep

LEMMA ProcessorSimulates ==
  ASSUME LedgerInv, NEW p \in Processors, ProcessorStep(p)
  PROVE  LedgerStep
  <1> USE DEF LedgerInv, MoneyInv, TypeInv
  <1>1. CASE \/ \E e \in Events : apply(p, e)
             \/ refuse(p) \/ skip(p) \/ ProcessingFails(p)
    BY <1>1, LedgerUntouched DEF apply, refuse, skip, ProcessingFails, money, rows
  <1>2. procs[p].phase \in {"MARK_PAYMENT", "MARK_PAID"} =>
            /\ procs[p].event[1] \in Payments
            /\ OrderOf[procs[p].event[1]] \in Orders
    BY SMT DEF TypeOK, ProcsOK, Idle, Events, Payments
  <1>3. CASE markPayment(p)
    <2>1. procs[p].event[2] # "SUCCEEDED"
      BY <1>3 DEF markPayment, DecisionFitsEvent
    <2>2. \A q \in Payments : payments'[q] = "SUCCEEDED" <=> payments[q] = "SUCCEEDED"
      BY <1>2, <1>3, <2>1 DEF markPayment, TypeOK, MoneyOK
    <2> QED
      BY <1>3, <2>2, LedgerUntouched DEF markPayment, rows
  <1>4. CASE markPaid(p)
    <2> DEFINE i == procs[p].event[1]
    <2>1. CASE status[OrderOf[i]] = "PENDING_PAYMENT"
      BY <1>2, <1>4, <2>1, LedgerSettles DEF markPaid
    <2>2. CASE status[OrderOf[i]] # "PENDING_PAYMENT"
      BY <1>4, <2>2, LedgerUntouched DEF markPaid, transitionOrder, rows
    <2> QED
      BY <2>1, <2>2
  <1> QED
    BY <1>1, <1>3, <1>4 DEF ProcessorStep

LEMMA RefundSimulates ==
  ASSUME LedgerInv, NEW m \in Managers, RefundStep(m)
  PROVE  LedgerStep
  <1> USE DEF LedgerInv, MoneyInv, TypeInv
  <1>1. CASE (\E p \in Payments : BeginRefund(m, p)) \/ RefundFails(m)
    BY <1>1, LedgerUntouched DEF BeginRefund, RefundFails, money, rows
  <1>2. ASSUME NEW amount \in 1..Total, commitRefund(m, amount)
        PROVE  LedgerStep
    <2> DEFINE p == refunds[m].payment
               o == OrderOf[p]
    <2>1. refunds[m] # Idle /\ p \in Payments /\ o \in Orders /\ refunded[p] \in 0..Total
      BY <1>2, SMT DEF commitRefund, TypeOK, RefundsOK, MoneyOK, Idle
    <2>2. payments[p] = "SUCCEEDED" /\ refunds[m].from \in Settled
      BY <2>1 DEF CarriedRefunds
    <2>3. Refunds(p, amount, refunds[m].from)
      BY <1>2, <2>2 DEF commitRefund, Refunds, transitionOrder, rows
    <2>4. status[o] \in Settled \ {"REFUNDED"}
      BY <2>1, <2>2, <2>3, RefundingKeepsBooks
    <2>5. Ledger!isLegalTransition(status[o], "REFUNDED")
      BY <2>4, SMT DEF Settled, Ledger!isLegalTransition, Ledger!ORDER_TRANSITIONS
    <2>6. p \in SucceededOf(o)
      BY <2>1, <2>2 DEF SucceededOf, PaymentsOf
    <2>7. UNCHANGED payments /\ refunded' = [refunded EXCEPT ![p] = @ + amount]
      BY <1>2 DEF commitRefund
    <2>8. CASE amount < Total - refunded[p] /\ UNCHANGED rows
      <3>1. refunded[p] + amount <= Total /\ refunded[p] + amount # Total
        BY <2>1, <2>8, SMT
      <3>2. Ledger!Return(o, p, amount)
        BY <2>5, <2>7, <2>8, <3>1, SameSucceeded DEF Ledger!Return, rows
      <3> QED
        BY <2>1, <2>6, <3>2 DEF LedgerStep, Ledger!Next
    <2>9. CASE amount = Total - refunded[p] /\ transitionOrder(o, refunds[m].from, "REFUNDED")
      <3>1. refunded[p] + amount = Total /\ refunded[p] + amount <= Total
        BY <2>1, <2>9, SMT
      <3>2. Ledger!Move(o, "REFUNDED")
        BY <2>5, <2>9 DEF transitionOrder, Ledger!Move
      <3>3. Ledger!Return(o, p, amount)
        BY <2>5, <2>7, <3>1, <3>2, SameSucceeded DEF Ledger!Return
      <3> QED
        BY <2>1, <2>6, <3>3 DEF LedgerStep, Ledger!Next
    <2> QED
      BY <1>2, <2>8, <2>9 DEF commitRefund
  <1> QED
    BY <1>1, <1>2 DEF RefundStep

LEMMA NextSimulates ==
  ASSUME LedgerInv, [Next]_vars
  PROVE  LedgerStep
  <1>1. CASE UNCHANGED vars \/ DayEnds
    BY <1>1, LedgerUntouched DEF vars, DayEnds, money, rows
  <1>2. CASE \E i \in Intents : GatewayStep(i)
    BY <1>2, LedgerUntouched DEF GatewayStep, Capture, Decline, Lapse, money, rows
  <1>3. CASE \E e \in Events : record(e)
    BY <1>3, LedgerUntouched DEF record, money, rows
  <1> QED
    BY <1>1, <1>2, <1>3, OrderSimulates, PaySimulates, VoidSimulates, ProcessorSimulates,
       RefundSimulates, SMT DEF Next

\* An order never goes back to having no row.
LEMMA NoRowNext ==
  ASSUME LedgerInv, [Next]_vars
  PROVE  NoRowNoHistory'
  <1> USE DEF LedgerInv, MoneyInv, TypeInv
  <1>1. CASE UNCHANGED <<status, history>>
    BY <1>1 DEF NoRowNoHistory
  <1>2. ASSUME NEW o \in Orders, NEW to, to # "NONE", Ledger!Move(o, to)
        PROVE  NoRowNoHistory'
    BY <1>2 DEF NoRowNoHistory, Ledger!Move, TypeOK, OrdersOK
  <1>3. ASSUME NEW o \in Orders, NEW p, NEW amount, Ledger!Return(o, p, amount)
        PROVE  NoRowNoHistory'
    BY <1>1, <1>2, <1>3 DEF Ledger!Return
  <1>4. LedgerStep
    BY NextSimulates
  <1> QED
    BY <1>1, <1>2, <1>3, <1>4
    DEF LedgerStep, Ledger!Next, Ledger!vars, Ledger!Advance, Ledger!Settle, Ledger!Close

LEMMA LedgerInvAlways == Spec => []LedgerInv
  <1>1. Init => LedgerInv
    BY MoneyInit, SMT DEF Init, LedgerInv, NoRowNoHistory
  <1>2. LedgerInv /\ [Next]_vars => LedgerInv'
    BY MoneyNext, NoRowNext DEF LedgerInv
  <1> QED
    BY <1>1, <1>2, PTL DEF Spec

\* However tills, webhooks, cancels, sweeps and refunds interleave, and whatever fails
\* half way, orders and money only ever do what OrderLedger allows.
THEOREM ImplementsLedgerHolds == Spec => ImplementsLedger
  <1>1. Init => Ledger!Init
    BY SMT DEF Init, Ledger!Init, SucceededOf, PaymentsOf
  <1>2. LedgerInv /\ [Next]_vars => [Ledger!Next]_(Ledger!vars)
    BY NextSimulates DEF LedgerStep
  <1> QED
    BY <1>1, <1>2, LedgerInvAlways, PTL DEF Spec, ImplementsLedger, Ledger!Spec

-----------------------------------------------------------------------------
(* The inbox. *)

\* A processor that took a success for a redelivery saw a paid order.
SkippedIsPaid ==
    \A p \in Processors :
        procs[p].phase = "SKIP" /\ procs[p].event[2] = "SUCCEEDED" =>
            status[OrderOf[procs[p].event[1]]] \in Settled

InboxInv == MoneyInv /\ NoCaptureForgotten /\ SkippedIsPaid

LEMMA SettledStays ==
  ASSUME MoneyInv, [Next]_vars, NEW o \in Orders, status[o] \in Settled
  PROVE  status'[o] \in Settled
  <1> USE DEF MoneyInv, TypeInv
  <1>1. CASE Quiet
    BY <1>1 DEF Quiet
  <1>2. ASSUME NEW x \in Orders, NEW p \in Payments, Settles(x, p)
        PROVE  status'[o] \in Settled
    BY <1>2 DEF Settles, Settled, TypeOK, OrdersOK
  <1>3. ASSUME NEW p \in Payments, NEW amount \in 1..Total, NEW from \in Settled,
               Refunds(p, amount, from)
        PROVE  status'[o] \in Settled
    BY <1>3 DEF Refunds, Settled, TypeOK, OrdersOK
  <1> QED
    BY <1>1, <1>2, <1>3, NextTouches DEF Touches

LEMMA InboxUntouched ==
  ASSUME InboxInv, [Next]_vars, UNCHANGED inbox
  PROVE  NoCaptureForgotten'
  BY SettledStays DEF InboxInv, NoCaptureForgotten, Payments

LEMMA SkipsUntouched ==
  ASSUME InboxInv, [Next]_vars, UNCHANGED procs
  PROVE  SkippedIsPaid'
  <1>1. \A p \in Processors : procs[p].phase = "SKIP" => OrderOf[procs[p].event[1]] \in Orders
    BY SMT DEF InboxInv, MoneyInv, TypeInv, TypeOK, ProcsOK, Idle, Events, Payments
  <1> QED
    BY <1>1, SettledStays DEF InboxInv, SkippedIsPaid

\* A processor that ends leaves the others as they were.
LEMMA SkipsAfterDone ==
  ASSUME InboxInv, [Next]_vars, NEW p \in Processors, Done(p)
  PROVE  SkippedIsPaid'
  <1>1. \A q \in Processors : procs[q].phase = "SKIP" => OrderOf[procs[q].event[1]] \in Orders
    BY SMT DEF InboxInv, MoneyInv, TypeInv, TypeOK, ProcsOK, Idle, Events, Payments
  <1>2. \A q \in Processors : procs'[q] = IF q = p THEN Idle ELSE procs[q]
    BY DEF Done, InboxInv, MoneyInv, TypeInv, TypeOK, ProcsOK
  <1>3. Idle.phase # "SKIP"
    BY DEF Idle
  <1> QED
    BY <1>1, <1>2, <1>3, SettledStays DEF InboxInv, SkippedIsPaid

LEMMA ProcessorKeepsInbox ==
  ASSUME InboxInv, NEW p \in Processors, ProcessorStep(p), Next
  PROVE  NoCaptureForgotten' /\ SkippedIsPaid'
  <1> USE DEF InboxInv, MoneyInv, TypeInv
  <1>0. procs[p].phase \in {"SKIP", "MARK_PAYMENT", "MARK_PAID"} =>
            /\ procs[p].event \in Events
            /\ procs[p].event[1] \in Intents
            /\ procs[p].event = <<procs[p].event[1], procs[p].event[2]>>
            /\ OrderOf[procs[p].event[1]] \in Orders
    BY SMT DEF TypeOK, ProcsOK, Idle, Events, Payments
  <1>1. ASSUME NEW e \in Events, apply(p, e)
        PROVE  NoCaptureForgotten' /\ SkippedIsPaid'
    <2>1. e[1] \in Intents /\ OrderOf[e[1]] \in Orders
      BY DEF Events, Payments
    <2>2. decidePaymentOutcome(e[2], payments[e[1]], status[OrderOf[e[1]]]) = "SKIP"
             /\ e[2] = "SUCCEEDED" => status[OrderOf[e[1]]] \in Settled
      BY DEF decidePaymentOutcome, Settled
    <2>3. procs' = [procs EXCEPT ![p] =
                      [phase |-> decidePaymentOutcome(e[2], payments[e[1]], status[OrderOf[e[1]]]),
                       event |-> e]]
      BY <1>1 DEF apply
    <2>4. UNCHANGED status /\ UNCHANGED inbox
      BY <1>1 DEF apply, rows
    <2>5. SkippedIsPaid'
      BY <2>2, <2>3, <2>4 DEF SkippedIsPaid, TypeOK, ProcsOK
    <2> QED
      BY <2>4, <2>5, InboxUntouched
  <1>2. CASE refuse(p) \/ ProcessingFails(p)
    BY <1>2, InboxUntouched, SkipsAfterDone, SMT DEF refuse, ProcessingFails
  <1>3. CASE skip(p) \/ markPayment(p)
    <2>1. procs[p].phase \in {"SKIP", "MARK_PAYMENT"} /\ Done(p)
      BY <1>3 DEF skip, markPayment
    <2>2. inbox' = [inbox EXCEPT ![procs[p].event] = "processed"]
      BY <1>3 DEF skip, markPayment, markProcessed
    <2>3. procs[p].event[2] = "SUCCEEDED" => status[OrderOf[procs[p].event[1]]] \in Settled
      BY <2>1 DEF SkippedIsPaid, DecisionFitsEvent
    <2>4. ASSUME NEW i \in Intents, inbox'[<<i, "SUCCEEDED">>] = "processed"
          PROVE  status'[OrderOf[i]] \in Settled
      <3>1. <<i, "SUCCEEDED">> \in Events /\ OrderOf[i] \in Orders
        BY DEF Events, EventKinds, Payments
      <3>2. CASE procs[p].event = <<i, "SUCCEEDED">>
        BY <2>3, <3>1, <3>2, SettledStays, SMT
      <3>3. CASE procs[p].event # <<i, "SUCCEEDED">>
        <4>1. inbox[<<i, "SUCCEEDED">>] = "processed"
          BY <2>2, <2>4, <3>1, <3>3 DEF TypeOK, InboxOK
        <4> QED
          BY <3>1, <4>1, SettledStays, SMT DEF NoCaptureForgotten
      <3> QED
        BY <3>2, <3>3
    <2> QED
      BY <2>1, <2>4, SkipsAfterDone DEF NoCaptureForgotten
  <1>4. CASE markPaid(p)
    <2> DEFINE f == procs[p].event
    <2>1. Done(p) /\ procs[p].phase = "MARK_PAID"
      BY <1>4 DEF markPaid
    <2>2. CASE UNCHANGED inbox
      BY <2>1, <2>2, InboxUntouched, SkipsAfterDone
    <2>3. CASE /\ transitionOrder(OrderOf[f[1]], "PENDING_PAYMENT", "PAID")
               /\ markProcessed(f)
      <3>1. status'[OrderOf[f[1]]] \in Settled
        BY <1>0, <2>1, <2>3 DEF transitionOrder, Settled, TypeOK, OrdersOK
      <3>2. ASSUME NEW i \in Intents, inbox'[<<i, "SUCCEEDED">>] = "processed"
            PROVE  status'[OrderOf[i]] \in Settled
        <4>1. <<i, "SUCCEEDED">> \in Events /\ OrderOf[i] \in Orders
          BY DEF Events, EventKinds, Payments
        <4>2. CASE f = <<i, "SUCCEEDED">>
          BY <3>1, <4>2, SMT
        <4>3. CASE f # <<i, "SUCCEEDED">>
          <5>1. inbox[<<i, "SUCCEEDED">>] = "processed"
            BY <2>3, <3>2, <4>1, <4>3, SMT DEF markProcessed, TypeOK, InboxOK
          <5> QED
            BY <4>1, <5>1, SettledStays DEF NoCaptureForgotten
        <4> QED
          BY <4>2, <4>3
      <3> QED
        BY <2>1, <3>2, SkipsAfterDone, SMT DEF NoCaptureForgotten
    <2> QED
      BY <1>4, <2>2, <2>3 DEF markPaid
  <1> QED
    BY <1>1, <1>2, <1>3, <1>4, SMT DEF ProcessorStep

LEMMA InboxNext == InboxInv /\ [Next]_vars => InboxInv'
  <1> SUFFICES ASSUME InboxInv, [Next]_vars PROVE InboxInv'
    OBVIOUS
  <1>0. MoneyInv'
    BY MoneyNext DEF InboxInv
  <1>1. ASSUME UNCHANGED procs, UNCHANGED inbox PROVE InboxInv'
    BY <1>0, <1>1, InboxUntouched, SkipsUntouched DEF InboxInv
  <1>2. CASE UNCHANGED vars \/ DayEnds
    BY <1>1, <1>2 DEF vars, DayEnds, inflight
  <1>3. ASSUME NEW o \in Orders, OrderStep(o) PROVE InboxInv'
    BY <1>1, <1>3 DEF OrderStep, PlaceOrder, Checkout, StaffTransition, DeadlinePasses, inflight
  <1>4. ASSUME NEW t \in Tills, PayStep(t) PROVE InboxInv'
    BY <1>1, <1>4, SMT
    DEF PayStep, ReadOrder, CheckNoneLive, takeCash, createIntent, insertPayment, PayFails
  <1>5. ASSUME NEW v \in Voiders, VoidStep(v) PROVE InboxInv'
    BY <1>1, <1>5 DEF VoidStep, BeginCancel, BeginExpire, cancelIntent, commitVoid, VoidFails
  <1>6. ASSUME NEW i \in Intents, GatewayStep(i) PROVE InboxInv'
    BY <1>1, <1>6 DEF GatewayStep, Capture, Decline, Lapse, inflight
  <1>7. ASSUME NEW m \in Managers, RefundStep(m) PROVE InboxInv'
    BY <1>1, <1>7 DEF RefundStep, BeginRefund, commitRefund, RefundFails
  <1>8. ASSUME NEW e \in Events, record(e) PROVE InboxInv'
    <2>1. \A i \in Intents : inbox'[<<i, "SUCCEEDED">>] = "processed"
                                => inbox[<<i, "SUCCEEDED">>] = "processed"
      BY <1>8 DEF record, InboxInv, MoneyInv, TypeInv, TypeOK, InboxOK, Events, EventKinds
    <2>2. NoCaptureForgotten'
      BY <2>1, SettledStays DEF InboxInv, NoCaptureForgotten, Payments
    <2> QED
      BY <1>0, <1>8, <2>2, SkipsUntouched DEF record, inflight, InboxInv
  <1>9. ASSUME NEW p \in Processors, ProcessorStep(p), Next PROVE InboxInv'
    BY <1>0, <1>9, ProcessorKeepsInbox DEF InboxInv
  <1> QED
    BY <1>2, <1>3, <1>4, <1>5, <1>6, <1>7, <1>8, <1>9, SMT DEF Next

\* A capture whose event the inbox has finished with belongs to an order that was paid,
\* however many processors hold the event and whatever became of the order meanwhile.
THEOREM NoCaptureForgottenHolds == Spec => []NoCaptureForgotten
  <1>1. Init => InboxInv
    <2>1. Init => NoCaptureForgotten
      BY DEF Init, NoCaptureForgotten, Events, EventKinds
    <2>2. Init => SkippedIsPaid
      BY SMT DEF Init, SkippedIsPaid, Idle
    <2> QED
      BY <2>1, <2>2, MoneyInit DEF InboxInv
  <1>2. InboxInv => NoCaptureForgotten
    BY DEF InboxInv
  <1> QED
    BY <1>1, <1>2, InboxNext, PTL DEF Spec

-----------------------------------------------------------------------------
(* Queue numbers. *)

Queued(d) == {o \in Orders : businessDay[o] = d /\ orderNumber[o] # 0}

GaplessOn(d) ==
    /\ {orderNumber[o] : o \in Queued(d)} = 1..counters[d]
    /\ \A a, b \in Queued(d) : orderNumber[a] = orderNumber[b] => a = b

LEMMA GaplessByDay == NumbersGapless <=> \A d \in 1..LastDay : GaplessOn(d)
  BY DEF NumbersGapless, GaplessOn, Queued

\* A number is given at checkout, so an order that has not come to it has none.
UnnumberedBefore == \A o \in Orders : status[o] \in {"NONE", "DRAFT"} => orderNumber[o] = 0

NumbersInv == LedgerInv /\ NumbersGapless /\ UnnumberedBefore

\* The day's counter is bumped for an order that had no number.
LEMMA NumberIssued ==
  ASSUME NumbersInv, NEW o \in Orders, NEW d \in 1..LastDay, orderNumber[o] = 0,
         nextOrderNumber(o, d), businessDay' = [businessDay EXCEPT ![o] = d]
  PROVE  NumbersGapless'
  <1> USE DEF NumbersInv, LedgerInv, MoneyInv, TypeInv
  <1>0. /\ counters[d] \in Nat /\ counters'[d] = counters[d] + 1
        /\ orderNumber'[o] = counters[d] + 1 /\ businessDay'[o] = d
        /\ \A x \in Orders \ {o} : orderNumber'[x] = orderNumber[x] /\ businessDay'[x] = businessDay[x]
        /\ \A x \in Orders : orderNumber[x] \in Nat
    BY DEF nextOrderNumber, TypeOK, IntakeOK
  <1>1. ASSUME NEW e \in 1..LastDay PROVE GaplessOn(e)'
    <2>0. GaplessOn(e)
      BY GaplessByDay
    <2>1. CASE e # d
      <3>1. Queued(e)' = Queued(e)
        BY <1>0, <2>1 DEF Queued
      <3>2. counters'[e] = counters[e]
        BY <2>1 DEF nextOrderNumber, TypeOK, IntakeOK
      <3>3. \A x \in Queued(e) : orderNumber'[x] = orderNumber[x]
        BY <1>0 DEF Queued
      <3> QED
        BY <2>0, <3>1, <3>2, <3>3, SMT DEF GaplessOn
    <2>2. CASE e = d
      <3>1. Queued(d)' = Queued(d) \cup {o} /\ o \notin Queued(d)
        BY <1>0, SMT DEF Queued
      <3>2. \A x \in Queued(d) : orderNumber'[x] = orderNumber[x] /\ orderNumber[x] \in 1..counters[d]
        BY <1>0, <2>0, <2>2 DEF Queued, GaplessOn
      <3>3. {orderNumber'[x] : x \in Queued(d)'} = {orderNumber[x] : x \in Queued(d)} \cup {counters[d] + 1}
        BY <1>0, <3>1, <3>2, SMT
      <3>4. 1..counters'[d] = 1..counters[d] \cup {counters[d] + 1}
        <4>1. \A n \in Nat : 1..(n + 1) = 1..n \cup {n + 1}
          BY SMT
        <4> QED
          BY <1>0, <4>1
      <3>5. \A a, b \in Queued(d)' : orderNumber'[a] = orderNumber'[b] => a = b
        BY <1>0, <2>0, <2>2, <3>1, <3>2, SMT DEF GaplessOn
      <3> QED
        BY <2>0, <2>2, <3>3, <3>4, <3>5 DEF GaplessOn
    <2> QED
      BY <2>1, <2>2
  <1> QED
    BY <1>1 DEF NumbersGapless, GaplessOn, Queued

\* A draft is stamped with its day and takes no number.
LEMMA NumbersUntouched ==
  ASSUME NumbersInv, NEW o \in Orders, orderNumber[o] = 0, UNCHANGED <<orderNumber, counters>>,
         \A x \in Orders \ {o} : businessDay'[x] = businessDay[x]
  PROVE  NumbersGapless'
  <1>1. \A d \in 1..LastDay : Queued(d)' = Queued(d)
    BY DEF Queued
  <1>2. \A d \in 1..LastDay : GaplessOn(d)'
    BY <1>1, GaplessByDay, SMT DEF NumbersInv, GaplessOn
  <1> QED
    BY <1>2 DEF NumbersGapless, GaplessOn, Queued

\* A ledger step takes no order back before checkout.
LEMMA NotTakenBack ==
  ASSUME LedgerInv, [Next]_vars, NEW o \in Orders, status'[o] \in {"NONE", "DRAFT"}
  PROVE  status[o] \in {"NONE", "DRAFT"}
  <1> USE DEF LedgerInv, MoneyInv, TypeInv
  <1>1. CASE UNCHANGED status
    BY <1>1
  <1>2. ASSUME NEW x \in Orders, NEW to, Ledger!Move(x, to)
        PROVE  status[o] \in {"NONE", "DRAFT"}
    <2>1. CASE x = o
      <3>1. status'[o] = to /\ to \in Ledger!ORDER_TRANSITIONS[status[o]]
        BY <1>2, <2>1 DEF Ledger!Move, Ledger!isLegalTransition, TypeOK, OrdersOK
      <3>2. \A s \in OrderStatus : "NONE" \notin Ledger!ORDER_TRANSITIONS[s]
                                  /\ "DRAFT" \notin Ledger!ORDER_TRANSITIONS[s]
        BY SMT DEF Ledger!ORDER_TRANSITIONS, OrderStatus
      <3>3. status[o] \in OrderStatus \cup {"NONE"}
        BY DEF TypeOK, OrdersOK
      <3> QED
        BY <3>1, <3>2, <3>3
    <2>2. CASE x # o
      BY <1>2, <2>2 DEF Ledger!Move, TypeOK, OrdersOK
    <2> QED
      BY <2>1, <2>2
  <1>3. ASSUME NEW x \in Orders, NEW p, NEW amount, Ledger!Return(x, p, amount)
        PROVE  status[o] \in {"NONE", "DRAFT"}
    BY <1>1, <1>2, <1>3 DEF Ledger!Return
  <1>4. LedgerStep
    BY NextSimulates
  <1> QED
    BY <1>1, <1>2, <1>3, <1>4
    DEF LedgerStep, Ledger!Next, Ledger!vars, Ledger!Advance, Ledger!Settle, Ledger!Close

LEMMA IntakeKeepsNumbers ==
  ASSUME NumbersInv, [Next]_vars, UNCHANGED intake
  PROVE  NumbersGapless' /\ UnnumberedBefore'
  <1>1. NumbersGapless'
    BY SMT DEF NumbersInv, NumbersGapless, intake
  <1>2. UnnumberedBefore'
    BY NotTakenBack DEF NumbersInv, UnnumberedBefore, intake
  <1> QED
    BY <1>1, <1>2

LEMMA OrderKeepsNumbers ==
  ASSUME NumbersInv, [Next]_vars, NEW o \in Orders, OrderStep(o)
  PROVE  NumbersGapless' /\ UnnumberedBefore'
  <1> USE DEF NumbersInv, LedgerInv, MoneyInv, TypeInv
  <1>1. ASSUME NEW d \in 1..LastDay, nextOrderNumber(o, d), orderNumber[o] = 0,
               businessDay' = [businessDay EXCEPT ![o] = d],
               status' = [status EXCEPT ![o] = "PENDING_PAYMENT"]
        PROVE  NumbersGapless' /\ UnnumberedBefore'
    <2>1. UnnumberedBefore'
      BY <1>1 DEF UnnumberedBefore, nextOrderNumber, TypeOK, OrdersOK, IntakeOK
    <2> QED
      BY <1>1, <2>1, NumberIssued
  <1>2. ASSUME NEW to \in {"DRAFT", "PENDING_PAYMENT"}, PlaceOrder(o, to)
        PROVE  NumbersGapless' /\ UnnumberedBefore'
    <2>1. orderNumber[o] = 0 /\ today \in 1..LastDay
      BY <1>2 DEF PlaceOrder, UnnumberedBefore, TypeOK, ExternalOK
    <2>2. CASE to = "DRAFT"
      <3>1. NumbersGapless'
        BY <1>2, <2>1, <2>2, NumbersUntouched DEF PlaceOrder, TypeOK, IntakeOK
      <3>2. UnnumberedBefore'
        BY <1>2, <2>1, <2>2 DEF PlaceOrder, UnnumberedBefore, TypeOK, OrdersOK
      <3> QED
        BY <3>1, <3>2
    <2>3. CASE to = "PENDING_PAYMENT"
      BY <1>1, <1>2, <2>1, <2>3 DEF PlaceOrder
    <2> QED
      BY <2>2, <2>3
  <1>3. CASE Checkout(o)
    <2>1. orderNumber[o] = 0 /\ businessDay[o] \in 1..LastDay
      BY <1>3 DEF Checkout, UnnumberedBefore, DayStamped
    <2>2. businessDay' = [businessDay EXCEPT ![o] = businessDay[o]]
      BY <1>3 DEF Checkout, TypeOK, IntakeOK
    <2> QED
      BY <1>1, <1>3, <2>1, <2>2 DEF Checkout
  <1>4. CASE UNCHANGED intake
    BY <1>4, IntakeKeepsNumbers
  <1> QED
    BY <1>2, <1>3, <1>4 DEF OrderStep, StaffTransition, DeadlinePasses

LEMMA NumbersNext == NumbersInv /\ [Next]_vars => NumbersInv'
  <1> SUFFICES ASSUME NumbersInv, [Next]_vars PROVE NumbersInv'
    OBVIOUS
  <1>0. LedgerInv'
    BY MoneyNext, NoRowNext DEF NumbersInv, LedgerInv
  <1>1. (\E o \in Orders : OrderStep(o)) \/ UNCHANGED intake
    BY DEF Next, vars, DayEnds, PayStep, ReadOrder, CheckNoneLive, takeCash, createIntent,
           insertPayment, PayFails, VoidStep, BeginCancel, BeginExpire, cancelIntent, commitVoid,
           VoidFails, GatewayStep, Capture, Decline, Lapse, record, ProcessorStep, apply, refuse,
           skip, markPayment, markPaid, ProcessingFails, RefundStep, BeginRefund, commitRefund,
           RefundFails
  <1> QED
    BY <1>0, <1>1, OrderKeepsNumbers, IntakeKeepsNumbers, SMT DEF NumbersInv

\* The queue numbers of every business day are 1..n without a gap or a repeat, however
\* many orders are placed, parked and checked out, on whichever day.
THEOREM NumbersGaplessHolds == Spec => []NumbersGapless
  <1>1. Init => NumbersInv
    <2>1. Init => NumbersGapless
      BY SMT DEF Init, NumbersGapless
    <2>2. Init => UnnumberedBefore
      BY SMT DEF Init, UnnumberedBefore
    <2>3. Init => LedgerInv
      BY MoneyInit, SMT DEF Init, LedgerInv, NoRowNoHistory
    <2> QED
      BY <2>1, <2>2, <2>3 DEF NumbersInv
  <1>2. NumbersInv => NumbersGapless
    BY DEF NumbersInv
  <1> QED
    BY <1>1, <1>2, NumbersNext, PTL DEF Spec

=============================================================================

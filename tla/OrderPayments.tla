---------------------------- MODULE OrderPayments ----------------------------
(***************************************************************************)
(* Orders and the money taken for them: src/orders, src/payments.          *)
(*                                                                         *)
(* The database is shared by two API instances and written in READ         *)
(* COMMITTED transactions.  A handler that reads, calls the gateway and    *)
(* then opens a transaction is one action per stretch between two awaits   *)
(* whose order matters; a transaction is one action, because each of them  *)
(* takes its row lock with the guarded UPDATE it depends on.  A request    *)
(* that is refused without writing is the absence of a step.               *)
(***************************************************************************)
EXTENDS Integers, Sequences, Absent

CONSTANTS
    Orders,        \* order ids
    Intents,       \* gateway intent ids; a gateway payment row is named by its intent
    CashPayments,  \* ids of payment rows with provider CASH
    OrderOf,       \* the order each payment id is drawn for
    Total,         \* what an order costs, and so the amount of its payments
    CaptureKinds,  \* how a capture may look to us: "SUCCEEDED", "MISMATCHED"
    Tills,         \* in-flight POST /orders/:id/payments
    Cancellers,    \* in-flight POST /orders/:id/cancel
    Sweepers,      \* expiry sweeps, one per instance
    Processors,    \* in-flight processEvent calls: a webhook's kick or the inbox sweep
    Managers,      \* in-flight POST /payments/:id/refunds
    LastDay        \* bound on the clock: the last business day explored

Payments == Intents \cup CashPayments
Voiders  == Cancellers \cup Sweepers

ASSUME IdsAssumption ==
    /\ Intents \cap CashPayments = {}
    /\ None \notin Intents
    /\ Cancellers \cap Sweepers = {}
    /\ OrderOf \in [Payments -> Orders]

\* payments_amount_check: a payment row of amount 0 cannot be inserted.
ASSUME TotalAssumption == Total \in Nat \ {0}

ASSUME DayAssumption == LastDay \in Nat \ {0}

ASSUME CaptureAssumption ==
    /\ CaptureKinds \subseteq {"SUCCEEDED", "MISMATCHED"}
    /\ "SUCCEEDED" \in CaptureKinds

VARIABLES
    status,     \* orders.status, or "NONE" before the row exists
    expiresAt,  \* orders.expires_at: "none", "ahead" of the clock or "past"
    businessDay, \* orders.business_day, 0 before the row exists
    orderNumber, \* orders.order_number as its counter value, 0 for NULL
    counters,   \* order_number_counters.last_value per business day
    history,    \* order_status_history.to_status, oldest first
    payments,   \* payments.status, or "NONE" before the row exists
    refunded,   \* the sum of the refund rows of a payment
    inbox,      \* payment_events: "absent", "stored", "processed"
    today,      \* the current business day
    gateway,    \* the intent at the gateway: "none", "open", "succeeded", "canceled"
    sent,       \* events the gateway has raised
    pays,       \* what each in-flight payment request has read so far
    voids,      \* the same for cancels and the expiry sweeps
    procs,      \* the same for event processors
    refunds     \* the same for refunds

intake   == <<businessDay, orderNumber, counters>>
rows     == <<status, expiresAt, history>>
money    == <<payments, refunded>>
external == <<today, gateway, sent>>
inflight == <<pays, voids, procs, refunds>>
vars == <<intake, rows, money, inbox, external, inflight>>

-----------------------------------------------------------------------------
(* The order state machine. *)

OrderStatus == {"DRAFT", "PENDING_PAYMENT", "PAID", "IN_PREPARATION", "READY",
                "COMPLETED", "CANCELLED", "EXPIRED", "REFUNDED"}

STAFF_TRANSITIONS == { <<"PAID", "IN_PREPARATION">>,
                       <<"IN_PREPARATION", "READY">>,
                       <<"READY", "COMPLETED">> }

CANCELLABLE == {"DRAFT", "PENDING_PAYMENT"}

\* The statuses an order has only after its money was taken.
Settled == {"PAID", "IN_PREPARATION", "READY", "COMPLETED", "REFUNDED"}

PaymentStatus == {"PENDING", "SUCCEEDED", "FAILED", "CANCELLED"}

\* PROCESSING is live too, but no code path writes it.
LIVE == {"PENDING"}

PaymentsOf(o) == {p \in Payments : OrderOf[p] = o}

IntentsOf(o) == {i \in Intents : OrderOf[i] = o}

LivePayments(o) == {i \in IntentsOf(o) : payments[i] \in LIVE}

\* MUTANT of transitionOrder: the update is by id alone.
transitionOrderById(o, from, to) ==
    /\ status' = [status EXCEPT ![o] = to]
    /\ expiresAt' = IF from = "PENDING_PAYMENT"
                    THEN [expiresAt EXCEPT ![o] = "none"]
                    ELSE expiresAt
    /\ history' = [history EXCEPT ![o] = Append(@, to)]

\* The guarded move, its history row, and the deadline that only a
\* PENDING_PAYMENT order has.  ORDER_TRANSITIONS is not consulted.
transitionOrder(o, from, to) ==
    /\ status[o] = from
    /\ status' = [status EXCEPT ![o] = to]
    /\ expiresAt' = IF from = "PENDING_PAYMENT"
                    THEN [expiresAt EXCEPT ![o] = "none"]
                    ELSE expiresAt
    /\ history' = [history EXCEPT ![o] = Append(@, to)]

-----------------------------------------------------------------------------
(* Intake, the clock, and the kitchen. *)

\* The day's counter is bumped in the transaction that uses the value.
nextOrderNumber(o, day) ==
    /\ counters' = [counters EXCEPT ![day] = @ + 1]
    /\ orderNumber' = [orderNumber EXCEPT ![o] = counters[day] + 1]

\* OrdersService.persist: a draft has neither a number nor a deadline.
PlaceOrder(o, to) ==
    /\ status[o] = "NONE"
    /\ to \in {"DRAFT", "PENDING_PAYMENT"}
    /\ status' = [status EXCEPT ![o] = to]
    /\ history' = [history EXCEPT ![o] = <<to>>]
    /\ businessDay' = [businessDay EXCEPT ![o] = today]
    /\ IF to = "DRAFT"
       THEN UNCHANGED <<expiresAt, orderNumber, counters>>
       ELSE /\ expiresAt' = [expiresAt EXCEPT ![o] = "ahead"]
            /\ nextOrderNumber(o, today)
    /\ UNCHANGED <<money, inbox, external, inflight>>

\* MUTANT of Checkout: the number comes from today's counter.
CheckoutToday(o) ==
    /\ status[o] = "DRAFT"
    /\ status' = [status EXCEPT ![o] = "PENDING_PAYMENT"]
    /\ history' = [history EXCEPT ![o] = Append(@, "PENDING_PAYMENT")]
    /\ expiresAt' = [expiresAt EXCEPT ![o] = "ahead"]
    /\ nextOrderNumber(o, today)
    /\ UNCHANGED <<businessDay, money, inbox, external, inflight>>

\* The number is of the day stamped at creation, not of today.
Checkout(o) ==
    /\ status[o] = "DRAFT"
    /\ status' = [status EXCEPT ![o] = "PENDING_PAYMENT"]
    /\ history' = [history EXCEPT ![o] = Append(@, "PENDING_PAYMENT")]
    /\ expiresAt' = [expiresAt EXCEPT ![o] = "ahead"]
    /\ nextOrderNumber(o, businessDay[o])
    /\ UNCHANGED <<businessDay, money, inbox, external, inflight>>

\* POST /orders/:id/status: the status read inside the transaction is checked
\* again by the guarded update, so the two are one step.
StaffTransition(o, to) ==
    /\ <<status[o], to>> \in STAFF_TRANSITIONS
    /\ transitionOrder(o, status[o], to)
    /\ UNCHANGED <<intake, money, inbox, external, inflight>>

DeadlinePasses(o) ==
    /\ expiresAt[o] = "ahead"
    /\ expiresAt' = [expiresAt EXCEPT ![o] = "past"]
    /\ UNCHANGED <<status, history, intake, money, inbox, external, inflight>>

DayEnds ==
    \E day \in 1..LastDay - 1 :
        /\ today = day
        /\ today' = day + 1
        /\ UNCHANGED <<intake, rows, money, inbox, gateway, sent, inflight>>

-----------------------------------------------------------------------------
(* POST /orders/:id/payments without an Idempotency-Key. *)

Idle == [phase |-> "idle"]

Finish(t) == pays' = [pays EXCEPT ![t] = Idle]

\* loadPayableOrder, first read.
ReadOrder(t, o, method) ==
    /\ pays[t] = Idle
    /\ status[o] = "PENDING_PAYMENT"
    /\ pays' = [pays EXCEPT ![t] = [phase |-> "read", order |-> o, method |-> method]]
    /\ UNCHANGED <<intake, rows, money, inbox, external, voids, procs, refunds>>

\* loadPayableOrder, second read: a live payment is refused.
CheckNoneLive(t) ==
    /\ pays[t].phase = "read"
    /\ IF LivePayments(pays[t].order) = {}
       THEN pays' = [pays EXCEPT ![t].phase = "payable"]
       ELSE Finish(t)
    /\ UNCHANGED <<intake, rows, money, inbox, external, voids, procs, refunds>>

\* The cash row is inserted SUCCEEDED and the order moved in one transaction;
\* an order that is no longer PENDING_PAYMENT rolls both back.
takeCash(t, p) ==
    LET o == pays[t].order IN
    /\ pays[t].phase = "payable" /\ pays[t].method = "CASH"
    /\ OrderOf[p] = o /\ payments[p] = "NONE"
    /\ \/ /\ transitionOrder(o, "PENDING_PAYMENT", "PAID")
          /\ payments' = [payments EXCEPT ![p] = "SUCCEEDED"]
       \/ /\ status[o] # "PENDING_PAYMENT"
          /\ UNCHANGED <<rows, payments>>
    /\ Finish(t)
    /\ UNCHANGED <<intake, refunded, inbox, external, voids, procs, refunds>>

\* The intent is opened before any row exists.
createIntent(t, i) ==
    /\ pays[t].phase = "payable" /\ pays[t].method = "CARD"
    /\ OrderOf[i] = pays[t].order /\ gateway[i] = "none"
    /\ gateway' = [gateway EXCEPT ![i] = "open"]
    /\ pays' = [pays EXCEPT ![t] = [phase |-> "opened", intent |-> i]]
    /\ UNCHANGED <<intake, rows, money, inbox, today, sent, voids, procs, refunds>>

\* The row is written under one_live_payment; the order is not read again.
insertPayment(t) ==
    LET i == pays[t].intent IN
    /\ pays[t].phase = "opened"
    /\ payments' = IF LivePayments(OrderOf[i]) = {} /\ payments[i] = "NONE"
                   THEN [payments EXCEPT ![i] = "PENDING"]
                   ELSE payments
    /\ Finish(t)
    /\ UNCHANGED <<intake, rows, refunded, inbox, external, voids, procs, refunds>>

\* The request dies between two awaits: a gateway or database error, a crash.
PayFails(t) ==
    /\ pays[t] # Idle
    /\ Finish(t)
    /\ UNCHANGED <<intake, rows, money, inbox, external, voids, procs, refunds>>

-----------------------------------------------------------------------------
(* POST /orders/:id/cancel and the expiry sweep: read, ask the gateway, commit. *)

\* What a cancel or a sweep carries across its gateway call.
readLive(v, o, to) ==
    \E live \in IF LivePayments(o) = {} THEN {None} ELSE LivePayments(o) :
        voids' = [voids EXCEPT ![v] =
                     [phase |-> "read", order |-> o, from |-> status[o],
                      to |-> to, live |-> live]]

BeginCancel(v, o) ==
    /\ v \in Cancellers /\ voids[v] = Idle
    /\ status[o] \in CANCELLABLE
    /\ readLive(v, o, "CANCELLED")
    /\ UNCHANGED <<intake, rows, money, inbox, external, pays, procs, refunds>>

\* MUTANT of BeginExpire: orders with a payment in flight are left alone.
BeginExpireIdleOnly(v, o) ==
    /\ v \in Sweepers /\ voids[v] = Idle
    /\ status[o] = "PENDING_PAYMENT" /\ expiresAt[o] = "past"
    /\ LivePayments(o) = {}
    /\ readLive(v, o, "EXPIRED")
    /\ UNCHANGED <<intake, rows, money, inbox, external, pays, procs, refunds>>

BeginExpire(v, o) ==
    /\ v \in Sweepers /\ voids[v] = Idle
    /\ status[o] = "PENDING_PAYMENT" /\ expiresAt[o] = "past"
    /\ readLive(v, o, "EXPIRED")
    /\ UNCHANGED <<intake, rows, money, inbox, external, pays, procs, refunds>>

\* ALREADY_SUCCEEDED calls the whole thing off; an intent that is already
\* canceled counts as canceled now.
cancelIntent(v) ==
    LET i == voids[v].live IN
    /\ voids[v].phase = "read"
    /\ IF i # None /\ gateway[i] = "succeeded"
       THEN voids' = [voids EXCEPT ![v] = Idle]
       ELSE voids' = [voids EXCEPT ![v].phase = "voided"]
    /\ IF i # None /\ gateway[i] = "open"
       THEN /\ gateway' = [gateway EXCEPT ![i] = "canceled"]
            /\ sent' = sent \cup {<<i, "CANCELLED">>}
       ELSE UNCHANGED <<gateway, sent>>
    /\ UNCHANGED <<intake, rows, money, inbox, today, pays, procs, refunds>>

\* Guarded on the status that was read before the gateway call.  The cancel
\* spares a SUCCEEDED payment, the sweep writes by id alone.
commitVoid(v) ==
    LET r == voids[v] IN
    /\ r.phase = "voided"
    /\ \/ /\ transitionOrder(r.order, r.from, r.to)
          /\ payments' = IF r.live # None /\ (v \in Sweepers \/ payments[r.live] # "SUCCEEDED")
                         THEN [payments EXCEPT ![r.live] = "CANCELLED"]
                         ELSE payments
       \/ /\ status[r.order] # r.from
          /\ UNCHANGED <<rows, payments>>
    /\ voids' = [voids EXCEPT ![v] = Idle]
    /\ UNCHANGED <<intake, refunded, inbox, external, pays, procs, refunds>>

\* The gateway is unreachable, the transaction fails, or the instance dies.
VoidFails(v) ==
    /\ voids[v] # Idle
    /\ voids' = [voids EXCEPT ![v] = Idle]
    /\ UNCHANGED <<intake, rows, money, inbox, external, pays, procs, refunds>>

-----------------------------------------------------------------------------
(* The gateway, and its webhooks into the inbox. *)

\* "MISMATCHED" is a payment_intent.succeeded whose amount or currency is not
\* that of our row.
EventKinds == CaptureKinds \cup {"FAILED", "CANCELLED"}
Events == Intents \X EventKinds

\* A customer can only confirm an intent whose client secret was answered to
\* them, which is after its row committed.
Confirmable(i) == gateway[i] = "open" /\ payments[i] # "NONE"

Capture(i, kind) ==
    /\ Confirmable(i)
    /\ gateway' = [gateway EXCEPT ![i] = "succeeded"]
    /\ sent' = sent \cup {<<i, kind>>}
    /\ UNCHANGED <<intake, rows, money, inbox, today, inflight>>

\* A declined attempt leaves the intent open for another one.
Decline(i) ==
    /\ Confirmable(i)
    /\ sent' = sent \cup {<<i, "FAILED">>}
    /\ UNCHANGED <<intake, rows, money, inbox, today, gateway, inflight>>

\* The gateway gives up on an intent by itself.
Lapse(i) ==
    /\ gateway[i] = "open"
    /\ gateway' = [gateway EXCEPT ![i] = "canceled"]
    /\ sent' = sent \cup {<<i, "CANCELLED">>}
    /\ UNCHANGED <<intake, rows, money, inbox, today, inflight>>

\* Events arrive in any order and any number of times; provider_event_id
\* keeps the first.
record(e) ==
    /\ e \in sent /\ inbox[e] = "absent"
    /\ inbox' = [inbox EXCEPT ![e] = "stored"]
    /\ UNCHANGED <<intake, rows, money, external, inflight>>

-----------------------------------------------------------------------------
(* processEvent: decide on a snapshot, then apply in a transaction. *)

\* MUTANT of decidePaymentOutcome: a success for an order that is not waiting
\* for it is skipped, not refused.
decideSkipsLateSuccess(kind, payment, order) ==
    CASE payment = "NONE" \/ kind = "MISMATCHED" -> "REFUSE"
      [] payment # "NONE" /\ kind = "SUCCEEDED" ->
            IF order = "PENDING_PAYMENT" THEN "MARK_PAID" ELSE "SKIP"
      [] payment # "NONE" /\ kind \in {"FAILED", "CANCELLED"} ->
            (CASE payment = kind -> "SKIP"
               [] payment = "SUCCEEDED" -> "REFUSE"
               [] OTHER -> "MARK_PAYMENT")

decidePaymentOutcome(kind, payment, order) ==
    CASE payment = "NONE" -> "REFUSE"
      [] payment # "NONE" /\ kind = "MISMATCHED" -> "REFUSE"
      [] payment # "NONE" /\ kind = "SUCCEEDED" ->
            (CASE order = "PAID" -> "SKIP"
               [] order = "PENDING_PAYMENT" -> "MARK_PAID"
               [] OTHER -> "REFUSE")
      [] payment # "NONE" /\ kind \in {"FAILED", "CANCELLED"} ->
            (CASE payment = kind -> "SKIP"
               [] payment = "SUCCEEDED" -> "REFUSE"
               [] OTHER -> "MARK_PAYMENT")

\* A webhook's kick and the sweep both come here; an event may be in several
\* processors at once.  The payment and the order are read one after the
\* other, but each decision turns on one value that can change.
apply(p, e) ==
    /\ procs[p] = Idle
    /\ inbox[e] = "stored"
    /\ procs' = [procs EXCEPT ![p] =
                    [phase |-> decidePaymentOutcome(e[2], payments[e[1]], status[OrderOf[e[1]]]),
                     event |-> e]]
    /\ UNCHANGED <<intake, rows, money, inbox, external, pays, voids, refunds>>

Done(p) == procs' = [procs EXCEPT ![p] = Idle]

markProcessed(e) == inbox' = [inbox EXCEPT ![e] = "processed"]

\* Logged, and left unprocessed for the next sweep.
refuse(p) ==
    /\ procs[p].phase = "REFUSE"
    /\ Done(p)
    /\ UNCHANGED <<intake, rows, money, inbox, external, pays, voids, refunds>>

skip(p) ==
    /\ procs[p].phase = "SKIP"
    /\ markProcessed(procs[p].event)
    /\ Done(p)
    /\ UNCHANGED <<intake, rows, money, external, pays, voids, refunds>>

\* MUTANT of markPayment: the write is by id alone.
markPaymentById(p) ==
    /\ procs[p].phase = "MARK_PAYMENT"
    /\ payments' = [payments EXCEPT ![procs[p].event[1]] = procs[p].event[2]]
    /\ markProcessed(procs[p].event)
    /\ Done(p)
    /\ UNCHANGED <<intake, rows, refunded, external, pays, voids, refunds>>

\* The write spares a settled payment; the event is stamped either way.
markPayment(p) ==
    LET i == procs[p].event[1]  kind == procs[p].event[2] IN
    /\ procs[p].phase = "MARK_PAYMENT"
    /\ payments' = IF payments[i] # "SUCCEEDED"
                   THEN [payments EXCEPT ![i] = kind]
                   ELSE payments
    /\ markProcessed(procs[p].event)
    /\ Done(p)
    /\ UNCHANGED <<intake, rows, refunded, external, pays, voids, refunds>>

\* Order, payment and inbox row move together, or a lost race moves none.
markPaid(p) ==
    LET i == procs[p].event[1]  o == OrderOf[i] IN
    /\ procs[p].phase = "MARK_PAID"
    /\ \/ /\ transitionOrder(o, "PENDING_PAYMENT", "PAID")
          /\ payments' = [payments EXCEPT ![i] = "SUCCEEDED"]
          /\ markProcessed(procs[p].event)
       \/ /\ status[o] # "PENDING_PAYMENT"
          /\ UNCHANGED <<rows, payments, inbox>>
    /\ Done(p)
    /\ UNCHANGED <<intake, refunded, external, pays, voids, refunds>>

\* MUTANT of ProcessingFails: the event is stamped before it is applied.
StampedThenFails(p) ==
    /\ procs[p] # Idle
    /\ markProcessed(procs[p].event)
    /\ Done(p)
    /\ UNCHANGED <<intake, rows, money, external, pays, voids, refunds>>

\* processEvent never throws: a failure or a crash leaves the row for the sweep.
ProcessingFails(p) ==
    /\ procs[p] # Idle
    /\ Done(p)
    /\ UNCHANGED <<intake, rows, money, inbox, external, pays, voids, refunds>>

-----------------------------------------------------------------------------
(* POST /payments/:id/refunds. *)

BeginRefund(m, p) ==
    /\ refunds[m] = Idle
    /\ payments[p] = "SUCCEEDED"
    /\ businessDay[OrderOf[p]] = today
    /\ refunds' = [refunds EXCEPT ![m] =
                      [phase |-> "read", payment |-> p, from |-> status[OrderOf[p]]]]
    /\ UNCHANGED <<intake, rows, money, inbox, external, pays, voids, procs>>

\* MUTANT of commitRefund: what was already given back is not counted.
commitRefundUnsummed(m, amount) ==
    LET r == refunds[m] IN
    /\ r.phase = "read"
    /\ amount <= Total
    /\ refunded' = [refunded EXCEPT ![r.payment] = @ + amount]
    /\ IF amount = Total
       THEN transitionOrder(OrderOf[r.payment], r.from, "REFUNDED")
       ELSE UNCHANGED rows
    /\ refunds' = [refunds EXCEPT ![m] = Idle]
    /\ UNCHANGED <<intake, payments, inbox, external, pays, voids, procs>>

\* The payment row is locked and the refunds summed behind the lock.  The
\* refund that takes the last of the amount also moves the order, from the
\* status read before the transaction; if that lost a race, both roll back.
commitRefund(m, amount) ==
    LET r == refunds[m] IN
    /\ r.phase = "read"
    /\ \/ /\ amount < Total - refunded[r.payment]
          /\ refunded' = [refunded EXCEPT ![r.payment] = @ + amount]
          /\ UNCHANGED rows
       \/ /\ amount = Total - refunded[r.payment]
          /\ refunded' = [refunded EXCEPT ![r.payment] = @ + amount]
          /\ transitionOrder(OrderOf[r.payment], r.from, "REFUNDED")
    /\ refunds' = [refunds EXCEPT ![m] = Idle]
    /\ UNCHANGED <<intake, payments, inbox, external, pays, voids, procs>>

\* Over-refund, lost race, error or crash: nothing is written.
RefundFails(m) ==
    /\ refunds[m] # Idle
    /\ refunds' = [refunds EXCEPT ![m] = Idle]
    /\ UNCHANGED <<intake, rows, money, inbox, external, pays, voids, procs>>

-----------------------------------------------------------------------------
Init ==
    /\ status = [o \in Orders |-> "NONE"]
    /\ expiresAt = [o \in Orders |-> "none"]
    /\ businessDay = [o \in Orders |-> 0]
    /\ orderNumber = [o \in Orders |-> 0]
    /\ counters = [d \in 1..LastDay |-> 0]
    /\ history = [o \in Orders |-> <<>>]
    /\ payments = [p \in Payments |-> "NONE"]
    /\ refunded = [p \in Payments |-> 0]
    /\ inbox = [e \in Events |-> "absent"]
    /\ today = 1
    /\ gateway = [i \in Intents |-> "none"]
    /\ sent = {}
    /\ pays = [t \in Tills |-> Idle]
    /\ voids = [v \in Voiders |-> Idle]
    /\ procs = [p \in Processors |-> Idle]
    /\ refunds = [m \in Managers |-> Idle]

OrderStep(o) ==
    \/ \E to \in {"DRAFT", "PENDING_PAYMENT"} : PlaceOrder(o, to)
    \/ Checkout(o)
    \/ \E to \in OrderStatus : StaffTransition(o, to)
    \/ DeadlinePasses(o)

PayStep(t) ==
    \/ \E o \in Orders, method \in {"CASH", "CARD"} : ReadOrder(t, o, method)
    \/ CheckNoneLive(t)
    \/ \E p \in CashPayments : takeCash(t, p)
    \/ \E i \in Intents : createIntent(t, i)
    \/ insertPayment(t)
    \/ PayFails(t)

VoidStep(v) ==
    \/ \E o \in Orders : BeginCancel(v, o) \/ BeginExpire(v, o)
    \/ cancelIntent(v)
    \/ commitVoid(v)
    \/ VoidFails(v)

GatewayStep(i) ==
    \/ \E kind \in CaptureKinds : Capture(i, kind)
    \/ Decline(i)
    \/ Lapse(i)

ProcessorStep(p) ==
    \/ \E e \in Events : apply(p, e)
    \/ refuse(p)
    \/ skip(p)
    \/ markPayment(p)
    \/ markPaid(p)
    \/ ProcessingFails(p)

RefundStep(m) ==
    \/ \E p \in Payments : BeginRefund(m, p)
    \/ \E amount \in 1..Total : commitRefund(m, amount)
    \/ RefundFails(m)

Next ==
    \/ \E o \in Orders : OrderStep(o)
    \/ DayEnds
    \/ \E t \in Tills : PayStep(t)
    \/ \E v \in Voiders : VoidStep(v)
    \/ \E i \in Intents : GatewayStep(i)
    \/ \E e \in Events : record(e)
    \/ \E p \in Processors : ProcessorStep(p)
    \/ \E m \in Managers : RefundStep(m)

Spec == Init /\ [][Next]_vars

-----------------------------------------------------------------------------
(* Safety. *)

OrdersOK ==
    /\ status \in [Orders -> OrderStatus \cup {"NONE"}]
    /\ expiresAt \in [Orders -> {"none", "ahead", "past"}]
    /\ history \in [Orders -> Seq(OrderStatus)]

IntakeOK ==
    /\ businessDay \in [Orders -> 0..LastDay]
    /\ orderNumber \in [Orders -> Nat]
    /\ counters \in [1..LastDay -> Nat]

MoneyOK ==
    /\ payments \in [Payments -> PaymentStatus \cup {"NONE"}]
    /\ refunded \in [Payments -> 0..Total]

InboxOK == inbox \in [Events -> {"absent", "stored", "processed"}]

ExternalOK ==
    /\ today \in 1..LastDay
    /\ gateway \in [Intents -> {"none", "open", "succeeded", "canceled"}]
    /\ sent \subseteq Events

PaysOK ==
    pays \in [Tills ->
        {Idle} \cup [phase : {"read", "payable"}, order : Orders, method : {"CASH", "CARD"}]
               \cup [phase : {"opened"}, intent : Intents]]

VoidsOK ==
    voids \in [Voiders ->
        {Idle} \cup [phase : {"read", "voided"}, order : Orders, from : CANCELLABLE,
                     to : {"CANCELLED", "EXPIRED"}, live : Intents \cup {None}]]

ProcsOK ==
    procs \in [Processors ->
        {Idle} \cup [phase : {"REFUSE", "SKIP", "MARK_PAYMENT", "MARK_PAID"}, event : Events]]

RefundsOK ==
    refunds \in [Managers ->
        {Idle} \cup [phase : {"read"}, payment : Payments, from : OrderStatus \cup {"NONE"}]]

TypeOK ==
    /\ OrdersOK /\ IntakeOK /\ MoneyOK /\ InboxOK /\ ExternalOK
    /\ PaysOK /\ VoidsOK /\ ProcsOK /\ RefundsOK

SucceededOf(o) == {p \in PaymentsOf(o) : payments[p] = "SUCCEEDED"}

\* An order is PAID or beyond exactly while one payment of it, and only one, is
\* SUCCEEDED: takeCash, markPaid, the cancel, the sweep and a late failure
\* event never leave order and payment disagreeing, in whatever order they run.
PaidExactlyOnce ==
    \A o \in Orders :
        /\ status[o] \in Settled <=> SucceededOf(o) # {}
        /\ \A p, q \in SucceededOf(o) : p = q

\* However many managers refund at once, a payment never gives back more than
\* it took, and an order is REFUNDED exactly when a payment of it gave back
\* everything (CreateRefundService.refund).
RefundsBalance ==
    /\ \A p \in Payments : refunded[p] > 0 => payments[p] = "SUCCEEDED"
    /\ \A o \in Orders :
          status[o] = "REFUNDED" <=> \E p \in PaymentsOf(o) : refunded[p] = Total

\* A capture the inbox has finished with belongs to an order that was paid:
\* an event that found its order expired or cancelled is never marked processed.
NoCaptureForgotten ==
    \A i \in Intents :
        inbox[<<i, "SUCCEEDED">>] = "processed" => status[OrderOf[i]] \in Settled

\* B3: queue numbers of a business day are 1..n without a gap or a repeat,
\* across drafts checked out late and checkouts that lose a race.
NumbersGapless ==
    \A d \in 1..LastDay :
        LET queued == {o \in Orders : businessDay[o] = d /\ orderNumber[o] # 0} IN
        /\ {orderNumber[o] : o \in queued} = 1..counters[d]
        /\ \A a, b \in queued : orderNumber[a] = orderNumber[b] => a = b

\* No later event, cancel or sweep moves a payment that succeeded, and none
\* takes a refund back.
SettledMoneyStays ==
    [][\A p \in Payments :
          /\ payments[p] = "SUCCEEDED" => payments'[p] = "SUCCEEDED"
          /\ refunded'[p] >= refunded[p]]_vars

\* Every step of the system is a step of the ledger or leaves it alone: the
\* handlers, however they interleave, only ever do what OrderLedger allows.  The
\* order walks along ORDER_TRANSITIONS with a history row for each move, although
\* transitionOrder never consults that table and cancels, sweeps and refunds move
\* from a status they read earlier.
Ledger == INSTANCE OrderLedger
              WITH paidBy <- [o \in Orders |-> SucceededOf(o)], returned <- refunded
ImplementsLedger == Ledger!Spec

-----------------------------------------------------------------------------
(* Liveness. *)

\* What the scheduling of the code guarantees.  The gateway redelivers until a
\* webhook is acknowledged.  The cron jobs visit every unprocessed event and
\* every overdue order for ever, and a fault does not hit the same step every
\* time.  An await ends.  Customers, staff and managers promise nothing.  The
\* other events are visited as well, but nothing below needs it.
handled(e) ==
    \E p \in Processors :
        /\ procs[p] # Idle /\ procs[p].event = e
        /\ skip(p) \/ markPayment(p) \/ markPaid(p)

swept(o) ==
    \E s \in Sweepers :
        /\ voids[s] # Idle /\ voids[s].order = o
        /\ cancelIntent(s)

closed(o) ==
    \E s \in Sweepers :
        /\ voids[s] # Idle /\ voids[s].order = o
        /\ commitVoid(s)

Fairness ==
    /\ \A e \in Intents \X CaptureKinds : WF_vars(record(e))
    /\ \A e \in Intents \X {"SUCCEEDED"} :
          /\ SF_vars(\E p \in Processors : apply(p, e))
          /\ SF_vars(handled(e))
    /\ \A p \in Processors :
          WF_vars(refuse(p) \/ skip(p) \/ markPayment(p) \/ markPaid(p) \/ ProcessingFails(p))
    /\ \A o \in Orders :
          /\ WF_vars(DeadlinePasses(o))
          /\ SF_vars(\E s \in Sweepers : BeginExpire(s, o))
          /\ SF_vars(swept(o))
          /\ SF_vars(closed(o))
    /\ \A s \in Sweepers : WF_vars(cancelIntent(s) \/ commitVoid(s) \/ VoidFails(s))

FairSpec == Spec /\ Fairness

\* A capture of the order that decidePaymentOutcome refused for its amount or its
\* currency: the payment is still live, so the sweep asks the gateway, hears
\* ALREADY_SUCCEEDED and leaves the order "for the webhook".
HeldByMismatch(o) ==
    \E i \in LivePayments(o) \cap Intents :
        gateway[i] = "succeeded" /\ inbox[<<i, "MISMATCHED">>] = "stored"

\* An order stops waiting for its money: it is paid, cancelled or expired, whatever
\* requests and sweeps die half way (the expiry sweep, every minute).  The one
\* thing that can keep it waiting is a capture that does not match its payment,
\* and then the event stays in the inbox, unprocessed, for somebody to find.
PendingIsResolved ==
    \A o \in Orders :
        status[o] = "PENDING_PAYMENT" ~> status[o] # "PENDING_PAYMENT" \/ HeldByMismatch(o)

\* A raised success event is not lost to a dropped delivery, a failed kick or a
\* crash: if its order is still waiting for it the order stops waiting, and the
\* event ends up processed unless its order closed first.
CaptureIsHandled ==
    \A i \in Intents :
        <<i, "SUCCEEDED">> \in sent ~>
            \/ inbox[<<i, "SUCCEEDED">>] = "processed" /\ status[OrderOf[i]] \in Settled
            \/ status[OrderOf[i]] \notin {"PENDING_PAYMENT", "PAID"}

-----------------------------------------------------------------------------
(* What comments and documents say of this code, and the code does not do. *)

\* B4: "no two live intents racing".  A declined payment is FAILED and no
\* longer live, but its intent can still be confirmed beside the next one.
\* Not guaranteed by the code: the README tells how it fails.
OneConfirmableIntent ==
    \A i, j \in Intents :
        OrderOf[i] = OrderOf[j] /\ Confirmable(i) /\ Confirmable(j) => i = j

\* Every order stops waiting for its money, with nobody looking into it: expiry's
\* "leaving it for the webhook" costs "one more tick".
\* Not guaranteed by the code: the README tells how it fails.
NobodyWaitsForEver ==
    \A o \in Orders : status[o] = "PENDING_PAYMENT" ~> status[o] # "PENDING_PAYMENT"

\* A cancel or an expiry leaves no declined intent open behind the order.
\* Not guaranteed by the code: the README tells how it fails.
DeclinedIntentIsClosed ==
    \A i \in Intents :
        /\ status[OrderOf[i]] \in {"CANCELLED", "EXPIRED"}
        /\ payments[i] = "FAILED"
        => gateway[i] # "open"

\* A closed order keeps no live payment.
\* Not guaranteed by the code: the README tells how it fails.
ClosedHasNoLivePayment ==
    \A o \in Orders : status[o] \in {"CANCELLED", "EXPIRED"} => LivePayments(o) = {}

\* A capture the inbox has finished with is booked as a SUCCEEDED payment, so
\* reconciliation compares it or the unprocessed inbox shows it.
FinishedCaptureIsBooked ==
    \A i \in Intents :
        inbox[<<i, "SUCCEEDED">>] = "processed" => payments[i] = "SUCCEEDED"

\* A refund is recorded on the business day that took the money, or not at all.
\* Not guaranteed by the code: the README tells how it fails.
RefundsAreSameDay ==
    [][\A p \in Payments :
          refunded'[p] # refunded[p] => businessDay[OrderOf[p]] = today]_vars

=============================================================================

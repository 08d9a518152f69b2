------------------------- MODULE IdempotentRequests -------------------------
(***************************************************************************)
(* Requests that carry an Idempotency-Key: src/orders/idempotency, and its *)
(* two callers, OrdersService.create (POST /orders) and                    *)
(* CreatePaymentService.create (POST /orders/:id/payments, here all for    *)
(* one order).                                                             *)
(*                                                                         *)
(* An attempt is one delivery of a request; a retry is another attempt     *)
(* with the same key.  The row an attempt writes is named by the attempt.  *)
(* The transaction under the key is two steps, because its first statement *)
(* is where a retry has to wait.                                           *)
(***************************************************************************)
EXTENDS Absent, Naturals

CONSTANTS
    Attempts,  \* deliveries of a request
    Keys,      \* values of the Idempotency-Key header
    Bodies     \* parsed bodies together with who sent them

VARIABLES
    keys,    \* idempotency_keys: the committed row of a key, or None
    holder,  \* the attempt whose open transaction has inserted the key, or None
    reaped,  \* keys the hourly retention job has deleted at some time
    req,     \* what an attempt asks for, None before it arrives
    phase,   \* how far an attempt has come
    answer,  \* what an attempt was answered
    made,    \* attempts whose order or payment row is committed
    status,  \* orders.status of the order the payments are for
    live     \* the attempt whose payment row is live (one_live_payment), or None

keyVars == <<keys, holder, reaped, req, phase, answer, made, status, live>>

Endpoints == {"orders", "cash", "card"}

Requests == [key : Keys, endpoint : Endpoints, hash : Endpoints \X Bodies]
Rows     == [hash : Endpoints \X Bodies, response : Attempts]

ASSUME NoneAssumption == None \notin Attempts \cup Rows

Refusals == {"CONFLICT", "NOT_PAYABLE", "ALREADY_ACTIVE", "REFUSED", "ERROR"}

\* hashRequest: the fingerprint tells endpoint, sender and body apart.
hashRequest(endpoint, body) == <<endpoint, body>>

\* A row is visible only with its response beside it: they commit together.
Row(a) == [hash |-> req[a].hash, response |-> a]

Go(a, p) == phase' = [phase EXCEPT ![a] = p]

Answer(a, kind, row) ==
    /\ answer' = [answer EXCEPT ![a] = [kind |-> kind, row |-> row]]
    /\ Go(a, "answered")

-----------------------------------------------------------------------------
\* A request arrives.  POST /orders goes straight to its transaction.
Arrive(a, k, endpoint, body) ==
    /\ phase[a] = "idle"
    /\ req' = [req EXCEPT ![a] = [key |-> k, endpoint |-> endpoint,
                                  hash |-> hashRequest(endpoint, body)]]
    /\ Go(a, IF endpoint = "orders" THEN "ready" ELSE "looking")
    /\ UNCHANGED <<keys, holder, reaped, answer, made, status, live>>

\* MUTANT of completedResponseFor: the stored hash is not compared.
completedResponseForAnyBody(a) ==
    LET row == keys[req[a].key] IN
    /\ phase[a] = "looking"
    /\ IF row = None
       THEN Go(a, "loading") /\ UNCHANGED answer
       ELSE Answer(a, "replayed", row.response)
    /\ UNCHANGED <<keys, holder, reaped, req, made, status, live>>

\* A payment looks its key up before it validates anything.
completedResponseFor(a) ==
    LET row == keys[req[a].key] IN
    /\ phase[a] = "looking"
    /\ \/ row = None /\ Go(a, "loading") /\ UNCHANGED answer
       \/ row # None /\ row.hash # req[a].hash /\ Answer(a, "CONFLICT", None)
       \/ row # None /\ row.hash = req[a].hash /\ Answer(a, "replayed", row.response)
    /\ UNCHANGED <<keys, holder, reaped, req, made, status, live>>

\* loadPayableOrder, first read.
loadPayableOrder(a) ==
    /\ phase[a] = "loading"
    /\ IF status = "PENDING_PAYMENT"
       THEN Go(a, "payable") /\ UNCHANGED answer
       ELSE Answer(a, "NOT_PAYABLE", None)
    /\ UNCHANGED <<keys, holder, reaped, req, made, status, live>>

\* loadPayableOrder, second read; the gateway call that follows only takes time.
checkNoneLive(a) ==
    /\ phase[a] = "payable"
    /\ IF live = None
       THEN Go(a, "ready") /\ UNCHANGED answer
       ELSE Answer(a, "ALREADY_ACTIVE", None)
    /\ UNCHANGED <<keys, holder, reaped, req, made, status, live>>

\* MUTANT of reserveKey: the key is looked up and not inserted, so a retry
\* does not wait.
reserveKeyUnlocked(a) ==
    LET k == req[a].key IN
    /\ phase[a] = "ready"
    /\ IF keys[k] = None
       THEN holder' = [holder EXCEPT ![k] = a] /\ Go(a, "working")
       ELSE UNCHANGED holder /\ Go(a, "replaying")
    /\ UNCHANGED <<keys, reaped, req, answer, made, status, live>>

\* The insert waits for an open transaction that holds the key.
reserveKey(a) ==
    LET k == req[a].key IN
    /\ phase[a] = "ready"
    /\ holder[k] = None
    /\ IF keys[k] = None
       THEN holder' = [holder EXCEPT ![k] = a] /\ Go(a, "working")
       ELSE UNCHANGED holder /\ Go(a, "replaying")
    /\ UNCHANGED <<keys, reaped, req, answer, made, status, live>>

\* payments.idempotency_key is UNIQUE and outlives the row of the key.
KeyPaidBefore(a) ==
    \E b \in made : req[b].endpoint # "orders" /\ req[b].key = req[a].key

\* What the transaction of a payment runs into.  Cash is guarded on the
\* order's status, a gateway payment by one_live_payment, both by the key.
Payable(a) ==
    /\ ~KeyPaidBefore(a)
    /\ IF req[a].endpoint = "cash" THEN status = "PENDING_PAYMENT" ELSE live = None

\* The work and completeKey, and the commit that shows both.
completeKey(a) ==
    LET k == req[a].key IN
    /\ phase[a] = "working"
    /\ req[a].endpoint # "orders" => Payable(a)
    /\ made' = made \cup {a}
    /\ keys' = [keys EXCEPT ![k] = Row(a)]
    /\ holder' = [holder EXCEPT ![k] = None]
    /\ Answer(a, "created", a)
    /\ status' = IF req[a].endpoint = "cash" THEN "PAID" ELSE status
    /\ live' = IF req[a].endpoint = "card" THEN a ELSE live
    /\ UNCHANGED <<reaped, req>>

\* MUTANT of Rollback: the reservation was committed on its own.
RollbackKeepsKey(a) ==
    /\ phase[a] = "working"
    /\ Answer(a, "REFUSED", None)
    /\ UNCHANGED <<keys, holder, reaped, req, made, status, live>>

\* The work is refused (sold out, not payable, lost race), fails, or the
\* instance dies: the reservation goes with the transaction.
Rollback(a) ==
    /\ phase[a] = "working"
    /\ holder' = [holder EXCEPT ![req[a].key] = None]
    /\ Answer(a, "REFUSED", None)
    /\ UNCHANGED <<keys, reaped, req, made, status, live>>

\* Reads what the winner committed, if it is still there.
replayKey(a) ==
    LET row == keys[req[a].key] IN
    /\ phase[a] = "replaying"
    /\ IF row # None /\ row.hash = req[a].hash
       THEN Answer(a, "replayed", row.response)
       ELSE Answer(a, "CONFLICT", None)
    /\ UNCHANGED <<keys, holder, reaped, req, made, status, live>>

\* A read or the gateway call fails, or the instance dies outside the transaction.
AttemptFails(a) ==
    /\ phase[a] \in {"looking", "loading", "payable", "ready", "replaying"}
    /\ Answer(a, "ERROR", None)
    /\ UNCHANGED <<keys, holder, reaped, req, made, status, live>>

\* RetentionService.deleteExpiredIdempotencyKeys, after 24 hours.
Reap(k) ==
    /\ keys[k] # None
    /\ keys' = [keys EXCEPT ![k] = None]
    /\ reaped' = reaped \cup {k}
    /\ UNCHANGED <<holder, req, phase, answer, made, status, live>>

\* The webhook of a gateway payment: its success, also after a decline, or its
\* end.  Close is the expiry sweep or a cancel.  See OrderPayments.
Webhook(a) ==
    /\ a \in made /\ req[a].endpoint = "card"
    /\ \/ /\ status = "PENDING_PAYMENT" /\ status' = "PAID"
          /\ live' = IF live = a THEN None ELSE live
       \/ /\ live = a /\ live' = None
          /\ UNCHANGED status
    /\ UNCHANGED <<keys, holder, reaped, req, phase, answer, made>>

Close ==
    /\ status = "PENDING_PAYMENT"
    /\ status' = "EXPIRED"
    /\ live' \in {live, None}
    /\ UNCHANGED <<keys, holder, reaped, req, phase, answer, made>>

-----------------------------------------------------------------------------
KeyedInit ==
    /\ keys = [k \in Keys |-> None]
    /\ holder = [k \in Keys |-> None]
    /\ reaped = {}
    /\ req = [a \in Attempts |-> None]
    /\ phase = [a \in Attempts |-> "idle"]
    /\ answer = [a \in Attempts |-> None]
    /\ made = {}
    /\ status = "PENDING_PAYMENT"
    /\ live = None

Proceed(a) ==
    \/ completedResponseFor(a)
    \/ loadPayableOrder(a)
    \/ checkNoneLive(a)
    \/ reserveKey(a)
    \/ completeKey(a)
    \/ Rollback(a)
    \/ replayKey(a)

KeyedNext ==
    \/ \E a \in Attempts, k \in Keys, endpoint \in Endpoints, body \in Bodies :
          Arrive(a, k, endpoint, body)
    \/ \E a \in Attempts : Proceed(a)
    \/ \E k \in Keys : Reap(k)
    \/ \E a \in Attempts : AttemptFails(a) \/ Webhook(a)
    \/ Close

KeyedSpec == KeyedInit /\ [][KeyedNext]_keyVars

-----------------------------------------------------------------------------
Answers == [kind : Refusals \cup {"created", "replayed"}, row : Attempts \cup {None}]

TypeOK ==
    /\ keys \in [Keys -> Rows \cup {None}]
    /\ holder \in [Keys -> Attempts \cup {None}]
    /\ reaped \subseteq Keys
    /\ req \in [Attempts -> Requests \cup {None}]
    /\ phase \in [Attempts -> {"idle", "looking", "loading", "payable", "ready",
                               "working", "replaying", "answered"}]
    /\ answer \in [Attempts -> Answers \cup {None}]
    /\ made \subseteq Attempts
    /\ status \in {"PENDING_PAYMENT", "PAID", "EXPIRED"}
    /\ live \in Attempts \cup {None}

Payments == {a \in made : req[a].endpoint # "orders"}

\* However often a request is retried, at the same time or later, its work is
\* committed once while its key is kept, and a payment once for ever (FR-13).
WorkedOnce ==
    /\ \A a, b \in made : req[a].key = req[b].key /\ req[a].key \notin reaped => a = b
    /\ \A a, b \in Payments : req[a].key = req[b].key => a = b

\* A replay hands out a committed row that the same request asked for, never
\* the row of another body, endpoint or sender under the same key.
ReplayIsOwn ==
    \A a \in Attempts :
        answer[a] # None /\ answer[a].row # None =>
            /\ answer[a].row \in made
            /\ req[answer[a].row].key = req[a].key
            /\ req[answer[a].row].hash = req[a].hash

\* An await ends, and the database lets the first waiter in once the holder of
\* the key is gone.
Fairness == \A a \in Attempts : WF_keyVars(Proceed(a))

FairSpec == KeyedSpec /\ Fairness

\* A retry that waits for the key is answered in the end, also when the
\* attempt that held it was refused or died.
EveryAttemptIsAnswered ==
    \A a \in Attempts : phase[a] # "idle" ~> phase[a] = "answered"

\* A retry is not refused for the state its own first attempt created.  The
\* lookup and the payability checks are separate reads, and the first attempt
\* may commit in between.
\* Not guaranteed by the code: the README tells how it fails.
RetryIsNotRefusedByItself ==
    \A a \in Attempts :
        answer[a] # None /\ answer[a].kind \in {"NOT_PAYABLE", "ALREADY_ACTIVE"} =>
            ~ \E b \in made : /\ req[b].key = req[a].key /\ req[b].hash = req[a].hash
                            /\ req[b].key \notin reaped

=============================================================================

----------------------------- MODULE PaymentPool -----------------------------
(***************************************************************************)
(* POST /orders/:id/payments on one instance, seen from its connection     *)
(* pool.  A request borrows a connection for each read and keeps one for   *)
(* its transaction; there it waits for the locks of other transactions (an *)
(* idempotency key, the live payment of the order), and one that lost the  *)
(* order to another asks for a second connection to read the winner while  *)
(* it still holds the first.  Card payments of one order; pg grants        *)
(* connections first come, first served.                                   *)
(***************************************************************************)
EXTENDS Naturals, Sequences, SequencesExt, FiniteSetsExt

CONSTANTS
    Requests,
    KeyOf,     \* the Idempotency-Key of each request
    PoolMax,   \* POOL_OPTIONS.max
    None

VARIABLES
    phase,   \* of a request: where it is, "ended" once it is answered
    held,    \* connections it holds
    queue,   \* requests waiting for a connection, the first one first
    keys,    \* idempotency_keys: the committed ones
    live,    \* the request whose payment is live, or None
    answer   \* what a request was answered: "created", "replayed", "refused", "active",
             \* "nameless" or "error"

vars == <<phase, held, queue, keys, live, answer>>

\* The steps that begin with a connection from the pool.
Acquiring == {"look", "load", "live", "begin", "reread", "replay", "rehydrate"}

\* What an open transaction has locked.
HoldsKey(r) == phase[r] \in {"insert", "complete", "reread"}
HoldsOrder(r) == phase[r] = "complete"

free == PoolMax - MapThenSumSet(LAMBDA r : held[r], Requests)
Waiting(r) == r \in Range(queue)

-----------------------------------------------------------------------------
\* A request goes on to its next step, queueing when the step needs a connection.
Goto(r, p) ==
    /\ phase' = [phase EXCEPT ![r] = p]
    /\ queue' = IF p \in Acquiring THEN Append(queue, r) ELSE queue

\* It is answered, and gives back what it holds; an open transaction is over.
End(r, a) ==
    /\ phase' = [phase EXCEPT ![r] = "ended"]
    /\ answer' = [answer EXCEPT ![r] = a]
    /\ held' = [held EXCEPT ![r] = 0]

create(r) ==
    /\ phase[r] = "idle"
    /\ Goto(r, "look")
    /\ UNCHANGED <<held, keys, live, answer>>

\* The pool hands a connection to the first in the queue.
Grant(r) ==
    /\ queue # <<>> /\ Head(queue) = r /\ free > 0
    /\ held' = [held EXCEPT ![r] = @ + 1]
    /\ queue' = Tail(queue)
    /\ UNCHANGED <<phase, keys, live, answer>>

\* MUTANT of AcquireTimeout: pg's default, waiting for ever.
AcquireTimeoutNever(r) == FALSE /\ UNCHANGED vars

\* connectionTimeoutMillis: the request fails, its transaction is rolled back.
AcquireTimeout(r) ==
    /\ Waiting(r)
    /\ queue' = SelectSeq(queue, LAMBDA q : q # r)
    /\ End(r, "error")
    /\ UNCHANGED <<keys, live>>

Running(r, p) == phase[r] = p /\ ~Waiting(r)
Release(r) == held' = [held EXCEPT ![r] = @ - 1]

\* completedResponseFor, before anything is validated.
completedResponseFor(r) ==
    /\ Running(r, "look")
    /\ Release(r)
    /\ Goto(r, IF KeyOf[r] \in keys THEN "rehydrate" ELSE "load")
    /\ UNCHANGED <<keys, live, answer>>

\* The order may have been paid, cancelled or expired meanwhile.
loadPayableOrder(r) ==
    /\ Running(r, "load")
    /\ \/ Release(r) /\ Goto(r, "live") /\ UNCHANGED answer
       \/ End(r, "refused") /\ UNCHANGED queue
    /\ UNCHANGED <<keys, live>>

checkNoneLive(r) ==
    /\ Running(r, "live")
    /\ \/ live = None /\ Release(r) /\ Goto(r, "intent") /\ UNCHANGED answer
       \/ live # None /\ End(r, "active") /\ UNCHANGED queue
    /\ UNCHANGED <<keys, live>>

\* The gateway answers, or fails, with no connection held.
createIntent(r) ==
    /\ Running(r, "intent")
    /\ \/ Goto(r, "begin") /\ UNCHANGED <<held, answer>>
       \/ End(r, "error") /\ UNCHANGED queue
    /\ UNCHANGED <<keys, live>>

begin(r) ==
    /\ Running(r, "begin")
    /\ Goto(r, "reserve")
    /\ UNCHANGED <<held, keys, live, answer>>

\* reserveKey: it waits for a transaction that holds the key, and finds it taken when
\* that one has committed; the transaction ends and the stored answer is replayed.
reserveKey(r) ==
    /\ Running(r, "reserve")
    /\ \A q \in Requests \ {r} : KeyOf[q] = KeyOf[r] => ~HoldsKey(q)
    /\ \/ KeyOf[r] \notin keys /\ Goto(r, "insert") /\ UNCHANGED held
       \/ KeyOf[r] \in keys /\ Release(r) /\ Goto(r, "replay")
    /\ UNCHANGED <<keys, live, answer>>

\* insertPayment: it waits for a transaction that has inserted for the order.
insertPayment(r) ==
    /\ Running(r, "insert")
    /\ \A q \in Requests \ {r} : ~HoldsOrder(q)
    /\ Goto(r, IF live = None THEN "complete" ELSE "reread")
    /\ UNCHANGED <<held, keys, live, answer>>

\* The winner is read over a second connection, if it is still live, and the
\* transaction ends.
rereadWinner(r) ==
    /\ Running(r, "reread")
    /\ End(r, IF live = None THEN "nameless" ELSE "active")
    /\ UNCHANGED <<queue, keys, live>>

\* completeKey, and the commit.
completeKey(r) ==
    /\ Running(r, "complete")
    /\ keys' = keys \cup {KeyOf[r]}
    /\ live' = r
    /\ End(r, "created")
    /\ UNCHANGED queue

replayKey(r) ==
    /\ Running(r, "replay")
    /\ Release(r)
    /\ Goto(r, "rehydrate")
    /\ UNCHANGED <<keys, live, answer>>

\* The intent is read, and the gateway asked for its secret with no connection held.
rehydrate(r) ==
    /\ Running(r, "rehydrate")
    /\ Release(r)
    /\ Goto(r, "secret")
    /\ UNCHANGED <<keys, live, answer>>

clientSecretFor(r) ==
    /\ Running(r, "secret")
    /\ \E a \in {"replayed", "error"} : End(r, a)
    /\ UNCHANGED <<queue, keys, live>>

\* The live payment fails, and the order can be paid again.
PaymentFails ==
    /\ live # None
    /\ live' = None
    /\ UNCHANGED <<phase, held, queue, keys, answer>>

-----------------------------------------------------------------------------
Init ==
    /\ phase = [r \in Requests |-> "idle"]
    /\ held = [r \in Requests |-> 0]
    /\ queue = <<>>
    /\ keys = {}
    /\ live = None
    /\ answer = [r \in Requests |-> None]

Step(r) ==
    \/ completedResponseFor(r) \/ loadPayableOrder(r) \/ checkNoneLive(r) \/ createIntent(r)
    \/ begin(r) \/ reserveKey(r) \/ insertPayment(r) \/ rereadWinner(r) \/ completeKey(r)
    \/ replayKey(r) \/ rehydrate(r) \/ clientSecretFor(r)

Next ==
    \/ \E r \in Requests : create(r) \/ Grant(r) \/ AcquireTimeout(r) \/ Step(r)
    \/ PaymentFails

\* The database and the gateway answer, the pool hands out what is given back, and its
\* timer fires.
Fairness ==
    \A r \in Requests : WF_vars(Step(r)) /\ WF_vars(Grant(r)) /\ WF_vars(AcquireTimeout(r))

Spec == Init /\ [][Next]_vars
FairSpec == Spec /\ Fairness

-----------------------------------------------------------------------------
\* Every payment request is answered, although requests that hold a connection wait for
\* each other's locks and one of them for a second connection: the cycle is broken by
\* the pool's timeout (POOL_OPTIONS, where the default is "waiting forever").
EveryRequestEnds == \A r \in Requests : phase[r] # "idle" ~> phase[r] = "ended"

\* A request that lost the order is told which payment won ("the 409 carries the id that
\* won").  Not guaranteed by the code: the second connection may not be had, and the
\* winner may have failed by then.
LoserLearnsWinner == \A r \in Requests : phase[r] = "reread" ~> answer[r] = "active"

=============================================================================

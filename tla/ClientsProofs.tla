--------------------------- MODULE ClientsProofs ----------------------------
(* Proofs about IdempotentRequests, KitchenScreens, KioskDevices and MenuCache,*)
(* for any number of attempts and keys, orders and handlers, devices and    *)
(* tablets, kiosks and writers.                                             *)
EXTENDS IdempotentRequests, OrderPages, KitchenScreens, KioskDevices, MenuCache, TLAPS

\* A leaf is first-order reasoning, unless it says that it needs SMT.
USE Zenon

-----------------------------------------------------------------------------
(* IdempotentRequests.                                                      *)

USE NoneAssumption

\* A committed key row stands for a row some attempt committed under that key.
RowsAreMade ==
    \A k \in Keys :
        keys[k] # None => /\ keys[k].response \in made
                          /\ req[keys[k].response].key = k
                          /\ req[keys[k].response].hash = keys[k].hash

\* What was made under a key that is still kept is what the key stands for.
MadeIsKept ==
    \A a \in made :
        /\ phase[a] = "answered"
        /\ req[a].key \notin reaped => keys[req[a].key] # None /\ keys[req[a].key].response = a

\* An attempt at work holds its key, and the key has no committed row.
WorkHoldsKey ==
    \A a \in Attempts : phase[a] = "working" => holder[req[a].key] = a /\ keys[req[a].key] = None

\* A request is there from its arrival on, and is never changed.
Arrived ==
    \A a \in Attempts : IF phase[a] = "idle" THEN answer[a] = None ELSE req[a] \in Requests

IInv == TypeOK /\ Arrived /\ RowsAreMade /\ MadeIsKept /\ WorkHoldsKey /\ WorkedOnce /\ ReplayIsOwn

-----------------------------------------------------------------------------
LEMMA InitHolds == KeyedInit => IInv
  BY DEF KeyedInit, IInv, TypeOK, Arrived, RowsAreMade, MadeIsKept, WorkHoldsKey, WorkedOnce,
         ReplayIsOwn, Payments

\* Answering with no row, or with one that the key stands for, keeps ReplayIsOwn.
LEMMA Answering ==
  ASSUME IInv, NEW a \in Attempts, phase[a] # "idle", NEW kind, NEW keyRow,
         kind \in Refusals \cup {"created", "replayed"},
         keyRow = None \/ (keyRow \in made /\ req[keyRow].key = req[a].key /\ req[keyRow].hash = req[a].hash),
         phase[a] # "working", Answer(a, kind, keyRow),
         UNCHANGED <<keys, holder, reaped, req, made, status, live>>
  PROVE  IInv'
<1>1. TypeOK'
  BY DEF IInv, TypeOK, Answer, Go, Answers
<1>2. Arrived' /\ RowsAreMade' /\ MadeIsKept' /\ WorkHoldsKey'
  BY SMT DEF IInv, TypeOK, Answer, Go, Arrived, RowsAreMade, MadeIsKept, WorkHoldsKey
<1>3. WorkedOnce'
  BY DEF IInv, WorkedOnce, Payments
<1>4. ReplayIsOwn'
  BY DEF IInv, TypeOK, Answer, Go, ReplayIsOwn
<1> QED BY <1>1, <1>2, <1>3, <1>4 DEF IInv

\* A step along the request that writes nothing keeps the invariant.
LEMMA Going ==
  ASSUME IInv, NEW a \in Attempts, phase[a] \notin {"idle", "answered", "working"}, NEW p,
         p \in {"looking", "loading", "payable", "ready", "replaying"}, Go(a, p),
         UNCHANGED <<keys, holder, reaped, req, answer, made, status, live>>
  PROVE  IInv'
<1>1. TypeOK'
  BY DEF IInv, TypeOK, Go
<1>2. Arrived' /\ RowsAreMade' /\ MadeIsKept' /\ WorkHoldsKey'
  BY SMT DEF IInv, TypeOK, Go, Arrived, RowsAreMade, MadeIsKept, WorkHoldsKey
<1>3. WorkedOnce' /\ ReplayIsOwn'
  BY SMT DEF IInv, WorkedOnce, Payments, ReplayIsOwn
<1> QED BY <1>1, <1>2, <1>3 DEF IInv

LEMMA ArriveKeeps ==
  ASSUME IInv, NEW a \in Attempts, NEW k \in Keys, NEW endpoint \in Endpoints,
         NEW body \in Bodies, Arrive(a, k, endpoint, body)
  PROVE  IInv'
<1> DEFINE r == [key |-> k, endpoint |-> endpoint, hash |-> hashRequest(endpoint, body)]
<1>1. r \in Requests
  BY DEF Requests, hashRequest
<1>2. a \notin made /\ answer[a] = None
  BY DEF IInv, MadeIsKept, Arrived, Arrive
<1>3. /\ req' = [req EXCEPT ![a] = r]
      /\ phase' \in [Attempts -> {"idle", "looking", "loading", "payable", "ready",
                                  "working", "replaying", "answered"}]
      /\ phase'[a] \in {"ready", "looking"}
      /\ \A b \in Attempts : b # a => phase'[b] = phase[b] /\ req'[b] = req[b]
  BY DEF Arrive, Go, IInv, TypeOK
<1>4. TypeOK'
  <2> HIDE DEF r
  <2>1. req' \in [Attempts -> Requests \cup {None}]
    BY <1>1, <1>3 DEF IInv, TypeOK
  <2>2. UNCHANGED <<keys, holder, reaped, answer, made, status, live>>
    BY DEF Arrive
  <2> QED
    BY <1>3, <2>1, <2>2 DEF IInv, TypeOK
<1>5. Arrived' /\ RowsAreMade' /\ MadeIsKept' /\ WorkHoldsKey'
  BY <1>1, <1>2, <1>3, SMT DEF Arrive, IInv, TypeOK, Arrived, RowsAreMade, MadeIsKept, WorkHoldsKey
<1>6. WorkedOnce'
  BY <1>2, <1>3, SMT DEF Arrive, IInv, TypeOK, WorkedOnce, Payments
<1>7. ReplayIsOwn'
  BY <1>2, <1>3, SMT DEF Arrive, IInv, TypeOK, ReplayIsOwn
<1> QED BY <1>4, <1>5, <1>6, <1>7 DEF IInv

LEMMA ReserveKeeps ==
  ASSUME IInv, NEW a \in Attempts, reserveKey(a)
  PROVE  IInv'
<1> DEFINE k == req[a].key
<1>1. k \in Keys
  BY DEF IInv, Arrived, reserveKey, Requests
<1>2. CASE keys[k] # None
  BY <1>2, Going DEF reserveKey
<1>3. CASE keys[k] = None
  <2>1. /\ holder' = [holder EXCEPT ![k] = a] /\ phase' = [phase EXCEPT ![a] = "working"]
        /\ UNCHANGED <<keys, reaped, req, answer, made, status, live>>
        /\ phase[a] = "ready" /\ holder[k] = None
    BY <1>3 DEF reserveKey, Go
  <2>2. TypeOK'
    BY <1>1, <2>1 DEF IInv, TypeOK
  <2>3. WorkHoldsKey'
    BY <1>1, <1>3, <2>1, SMT DEF IInv, TypeOK, WorkHoldsKey
  <2>4. Arrived' /\ RowsAreMade' /\ MadeIsKept' /\ WorkedOnce' /\ ReplayIsOwn'
    BY <2>1, SMT DEF IInv, TypeOK, Arrived, RowsAreMade, MadeIsKept, WorkedOnce, Payments, ReplayIsOwn
  <2> QED BY <2>2, <2>3, <2>4 DEF IInv
<1> QED BY <1>2, <1>3

LEMMA CompleteKeeps ==
  ASSUME IInv, NEW a \in Attempts, completeKey(a)
  PROVE  IInv'
<1> DEFINE k == req[a].key
<1>1. /\ phase[a] = "working" /\ a \notin made
      /\ req[a] \in Requests /\ k \in Keys
      /\ keys[k] = None /\ holder[k] = a
  BY DEF IInv, TypeOK, Arrived, MadeIsKept, WorkHoldsKey, completeKey, Requests
<1>2. /\ made' = made \cup {a} /\ keys' = [keys EXCEPT ![k] = Row(a)]
      /\ holder' = [holder EXCEPT ![k] = None]
      /\ answer' = [answer EXCEPT ![a] = [kind |-> "created", row |-> a]]
      /\ phase' = [phase EXCEPT ![a] = "answered"]
      /\ UNCHANGED <<reaped, req>>
      /\ req[a].endpoint # "orders" => ~KeyPaidBefore(a)
  BY DEF completeKey, Answer, Go, Payable
<1>3. Row(a) \in Rows /\ Row(a) # None /\ Row(a).response = a /\ Row(a).hash = req[a].hash
  BY <1>1, SMT DEF Row, Rows, Requests
<1>4. TypeOK'
  <2>1. status' \in {"PENDING_PAYMENT", "PAID", "EXPIRED"} /\ live' \in Attempts \cup {None}
    BY DEF completeKey, IInv, TypeOK
  <2> QED BY <1>1, <1>2, <1>3, <2>1 DEF IInv, TypeOK, Answers
<1>5. Arrived' /\ RowsAreMade' /\ WorkHoldsKey'
  BY <1>1, <1>2, <1>3, SMTT(30) DEF IInv, TypeOK, Arrived, RowsAreMade, WorkHoldsKey
<1>6. MadeIsKept'
  BY <1>1, <1>2, <1>3, SMT DEF IInv, TypeOK, MadeIsKept
<1>7. WorkedOnce'
  <2>1. \A b \in made : req[b].key = k => k \in reaped
    BY <1>1 DEF IInv, MadeIsKept
  <2>2. req[a].endpoint # "orders" =>
          \A b \in made : req[b].endpoint # "orders" => req[b].key # k
    BY <1>2 DEF KeyPaidBefore
  <2> QED BY <1>2, <2>1, <2>2, SMT DEF IInv, WorkedOnce, Payments
<1>8. ReplayIsOwn'
  BY <1>1, <1>2 DEF IInv, TypeOK, ReplayIsOwn
<1> QED BY <1>4, <1>5, <1>6, <1>7, <1>8 DEF IInv

LEMMA RollbackKeeps ==
  ASSUME IInv, NEW a \in Attempts, Rollback(a)
  PROVE  IInv'
<1> DEFINE k == req[a].key
<1>1. /\ phase[a] = "working" /\ k \in Keys /\ holder[k] = a
      /\ holder' = [holder EXCEPT ![k] = None]
      /\ answer' = [answer EXCEPT ![a] = [kind |-> "REFUSED", row |-> None]]
      /\ phase' = [phase EXCEPT ![a] = "answered"]
      /\ UNCHANGED <<keys, reaped, req, made, status, live>>
  BY DEF Rollback, Answer, Go, IInv, Arrived, WorkHoldsKey, Requests
<1>2. TypeOK'
  BY <1>1 DEF IInv, TypeOK, Answers, Refusals
<1>3. Arrived' /\ RowsAreMade' /\ MadeIsKept' /\ WorkHoldsKey'
  BY <1>1, SMTT(30) DEF IInv, TypeOK, Arrived, RowsAreMade, MadeIsKept, WorkHoldsKey
<1>4. WorkedOnce' /\ ReplayIsOwn'
  BY <1>1, SMT DEF IInv, TypeOK, WorkedOnce, Payments, ReplayIsOwn
<1> QED BY <1>2, <1>3, <1>4 DEF IInv

LEMMA ReapKeeps ==
  ASSUME IInv, NEW k \in Keys, Reap(k)
  PROVE  IInv'
<1>1. TypeOK' /\ Arrived'
  BY DEF Reap, IInv, TypeOK, Arrived
<1>2. RowsAreMade' /\ MadeIsKept' /\ WorkHoldsKey'
  BY SMT DEF Reap, IInv, TypeOK, RowsAreMade, MadeIsKept, WorkHoldsKey
<1>3. WorkedOnce' /\ ReplayIsOwn'
  BY SMT DEF Reap, IInv, WorkedOnce, Payments, ReplayIsOwn
<1> QED BY <1>1, <1>2, <1>3 DEF IInv

LEMMA ProceedKeeps ==
  ASSUME IInv, NEW a \in Attempts, Proceed(a) \/ AttemptFails(a)
  PROVE  IInv'
<1> DEFINE keyRow == keys[req[a].key]
<1>1. phase[a] # "idle" => req[a].key \in Keys
  BY DEF IInv, Arrived, Requests
<1>2. phase[a] # "idle" /\ keyRow # None =>
        /\ keyRow.response \in made /\ req[keyRow.response].key = req[a].key
        /\ req[keyRow.response].hash = keyRow.hash
  BY <1>1 DEF IInv, RowsAreMade
<1>3. CASE completedResponseFor(a)
  BY <1>2, <1>3, Going, Answering DEF completedResponseFor, Refusals
<1>4. CASE loadPayableOrder(a)
  BY <1>4, Going, Answering DEF loadPayableOrder, Refusals
<1>5. CASE checkNoneLive(a)
  BY <1>5, Going, Answering DEF checkNoneLive, Refusals
<1>6. CASE replayKey(a)
  BY <1>2, <1>6, Answering DEF replayKey, Refusals
<1>7. CASE AttemptFails(a)
  BY <1>7, Answering DEF AttemptFails, Refusals
<1> QED BY <1>3, <1>4, <1>5, <1>6, <1>7, ReserveKeeps, CompleteKeeps, RollbackKeeps DEF Proceed

LEMMA NextKeeps == IInv /\ [KeyedNext]_keyVars => IInv'
<1> SUFFICES ASSUME IInv, [KeyedNext]_keyVars PROVE IInv'
  OBVIOUS
<1>1. CASE UNCHANGED keyVars \/ (\E a \in Attempts : Webhook(a)) \/ Close
  <2>1. /\ UNCHANGED <<keys, holder, reaped, req, phase, answer, made>>
        /\ status' \in {"PENDING_PAYMENT", "PAID", "EXPIRED"} /\ live' \in Attempts \cup {None}
    BY <1>1 DEF keyVars, Webhook, Close, IInv, TypeOK
  <2>2. TypeOK' /\ Arrived'
    BY <2>1 DEF IInv, TypeOK, Arrived
  <2>3. RowsAreMade' /\ MadeIsKept' /\ WorkHoldsKey'
    BY <2>1 DEF IInv, RowsAreMade, MadeIsKept, WorkHoldsKey
  <2>4. WorkedOnce' /\ ReplayIsOwn'
    BY <2>1 DEF IInv, WorkedOnce, Payments, ReplayIsOwn
  <2> QED BY <2>2, <2>3, <2>4 DEF IInv
<1> QED BY <1>1, ArriveKeeps, ProceedKeeps, ReapKeeps DEF KeyedNext

LEMMA AlwaysIInv == KeyedSpec => []IInv
  BY InitHolds, NextKeeps, PTL DEF KeyedSpec

\* Every reachable state is well typed; in particular a committed key row
\* always has its response.
THEOREM KeysTypeCorrect == KeyedSpec => []TypeOK
  BY AlwaysIInv, PTL DEF IInv

\* The work of a key is committed once while the key is kept and a payment of
\* a key once for ever, for any number of simultaneous and later retries.
THEOREM WorkedOnceHolds == KeyedSpec => []WorkedOnce
  BY AlwaysIInv, PTL DEF IInv

\* A replayed answer is always the row of the same request.
THEOREM ReplayIsOwnHolds == KeyedSpec => []ReplayIsOwn
  BY AlwaysIInv, PTL DEF IInv

-----------------------------------------------------------------------------
(* KitchenScreens.                                                          *)

Statuses == DOMAIN ORDER_TRANSITIONS

\* What a snapshot may hold: a status for each of some orders.
Lists == {<<>>} \cup UNION {[S -> Statuses] : S \in SUBSET Orders}

ScreensTypeOK ==
    /\ orderStatus \in [Orders -> Statuses]
    /\ past \in [Orders -> SUBSET Statuses]
    /\ kds \in [Orders -> Statuses \cup {None}]
    /\ job \in [Jobs -> [phase : {"idle", "tx", "hydrate", "emit", "board", "emitBoard"},
                         order : Orders \cup {None}, from : Statuses \cup {None},
                         to : Statuses \cup {None}, ticket : Statuses \cup {None}, list : Lists]]

Seen(entries) == \A o \in DOMAIN entries : entries[o] \in past[o]

\* What a handler has read and not yet sent was the status of an order once.
ReadWasTrue ==
    /\ \A o \in Orders : orderStatus[o] \in past[o]
    /\ \A j \in Jobs :
          /\ job[j].phase # "idle" => job[j].order \in Orders /\ job[j].to \in Statuses
          /\ job[j].phase = "emit" => job[j].ticket \in past[job[j].order]
          /\ Seen(job[j].list)

ScreensInv == ScreensTypeOK /\ ReadWasTrue /\ NothingFalse

LEMMA TransitionsType ==
    /\ "PENDING_PAYMENT" \in Statuses
    /\ \A s \in Statuses : ORDER_TRANSITIONS[s] \subseteq Statuses
  BY DEF Statuses, ORDER_TRANSITIONS

LEMMA OldestIsTrue ==
    ASSUME ScreensInv, NEW statuses
    PROVE  oldest(statuses) \in Lists /\ Seen(oldest(statuses))
<1> DEFINE active == {o \in Orders : orderStatus[o] \in statuses}
           S == {a \in active : Cardinality({b \in active : b < a}) < MaxTickets}
<1>1. oldest(statuses) = [o \in S |-> orderStatus[o]]
  BY DEF oldest
<1>2. S \in SUBSET Orders
  OBVIOUS
<1> HIDE DEF S
<1>3. oldest(statuses) \in [S -> Statuses] /\ \A o \in S : oldest(statuses)[o] \in past[o]
  BY <1>1, <1>2 DEF ScreensInv, ScreensTypeOK, ReadWasTrue
<1> QED BY <1>2, <1>3 DEF Lists, Seen

LEMMA ScreensInitially == ScreensInit => ScreensInv
  BY TransitionsType, SMT
  DEF ScreensInit, ScreensInv, ScreensTypeOK, ReadWasTrue, NothingFalse, Seen, Lists, idle

\* An order's past only grows, so what was true of it stays true.
LEMMA PastKeeps ==
    ASSUME ScreensInv, NEW o \in Orders, NEW to \in Statuses,
           past' = [past EXCEPT ![o] = past[o] \cup {to}]
    PROVE  /\ past' \in [Orders -> SUBSET Statuses]
           /\ to \in past'[o]
           /\ \A p \in Orders : past[p] \subseteq past'[p]
  BY DEF ScreensInv, ScreensTypeOK

LEMMA ScreensStep == ScreensInv /\ [ScreensNext]_screenVars => ScreensInv'
<1> SUFFICES ASSUME ScreensInv, [ScreensNext]_screenVars PROVE ScreensInv'
  OBVIOUS
<1>a. /\ ScreensTypeOK /\ ReadWasTrue /\ NothingFalse
      /\ idle \in [phase : {"idle"}, order : {None}, from : {None}, to : {None}, ticket : {None},
                list : {<<>>}]
      /\ <<>> \in Lists
  BY DEF ScreensInv, idle, Lists
\* A step of one handler that leaves the orders and the screens alone.
<1>b. ASSUME NEW j \in Jobs, UNCHANGED <<orderStatus, past, kds, board>>,
             NEW r, job' = [job EXCEPT ![j] = r],
             r \in [phase : {"idle", "tx", "hydrate", "emit", "board", "emitBoard"},
                    order : Orders \cup {None}, from : Statuses \cup {None},
                    to : Statuses \cup {None}, ticket : Statuses \cup {None}, list : Lists],
             r.phase # "idle" => r.order \in Orders /\ r.to \in Statuses,
             r.phase = "emit" => r.ticket \in past[r.order],
             Seen(r.list)
      PROVE  ScreensInv'
  BY <1>a, <1>b DEF ScreensInv, ScreensTypeOK, ReadWasTrue, NothingFalse, Seen
<1>1. CASE UNCHANGED <<orderStatus, past, job, kds, board>>
  BY <1>1 DEF ScreensInv, ScreensTypeOK, ReadWasTrue, NothingFalse, Seen
<1>2. ASSUME NEW j \in Jobs, NEW o \in Orders, NEW to \in ORDER_TRANSITIONS[orderStatus[o]],
             Begin(j, o, to)
      PROVE  ScreensInv'
  <2>1. to \in Statuses
    BY <1>a, TransitionsType DEF ScreensTypeOK
  <2>2. job' = [job EXCEPT ![j] = begun(o, to)] /\ UNCHANGED <<orderStatus, past, kds, board>>
    BY <1>2 DEF Begin
  <2>3. /\ begun(o, to) \in [phase : {"tx"}, order : Orders, from : Statuses, to : Statuses,
                             ticket : {None}, list : Lists]
        /\ begun(o, to).list = <<>>
    BY <1>a, <2>1 DEF begun, ScreensTypeOK
  <2>4. Seen(begun(o, to).list)
    BY <2>3, SMT DEF Seen
  <2> QED BY <1>b, <2>1, <2>2, <2>3, <2>4
<1>3. ASSUME NEW j \in Jobs, CommitMove(j) PROVE ScreensInv'
  <2> DEFINE o == job[j].order
             to == job[j].to
             r == IF events(to) = {} THEN idle ELSE [job[j] EXCEPT !.phase = "hydrate", !.from = None]
  <2>1. /\ job[j].phase = "tx"
        /\ orderStatus' = [orderStatus EXCEPT ![o] = to]
        /\ past' = [past EXCEPT ![o] = past[o] \cup {to}]
        /\ job' = [job EXCEPT ![j] = r] /\ UNCHANGED <<kds, board>>
    BY <1>3 DEF CommitMove
  <2>2. o \in Orders /\ to \in Statuses
    BY <1>a, <2>1 DEF ReadWasTrue
  <2>3. /\ past' \in [Orders -> SUBSET Statuses] /\ to \in past'[o]
        /\ \A p \in Orders : past[p] \subseteq past'[p]
    BY <2>1, <2>2, PastKeeps
  <2>4. /\ r \in [phase : {"idle", "hydrate"}, order : Orders \cup {None},
                  from : Statuses \cup {None}, to : Statuses \cup {None},
                  ticket : Statuses \cup {None}, list : Lists]
        /\ r.phase # "idle" => r.order \in Orders /\ r.to \in Statuses
        /\ r.list \in {<<>>, job[j].list}
    BY <1>a, <2>2 DEF ScreensTypeOK
  <2> HIDE DEF r, o, to
  <2>5. ScreensTypeOK'
    BY <1>a, <2>1, <2>2, <2>3, <2>4 DEF ScreensTypeOK
  <2>6. \A l \in Lists : Seen(l) => Seen(l)'
    <3>1. ASSUME NEW l \in Lists, NEW p \in DOMAIN l PROVE p \in Orders
      BY SMT DEF Lists
    <3> QED BY <2>3, <3>1 DEF Seen
  <2>7. ASSUME NEW i \in Jobs 
        PROVE  \A p \in DOMAIN job'[i].list : job'[i].list[p] \in past'[p]
    <3>1. Seen(job[i].list) /\ Seen(job[j].list) /\ Seen(<<>>)
      BY <1>a, SMT DEF ReadWasTrue, Seen
    <3>2. job'[i].list \in {job[i].list, job[j].list, <<>>}
      BY <1>a, <2>1, <2>4 DEF ScreensTypeOK
    <3>3. job[i].list \in Lists /\ job[j].list \in Lists
      BY <1>a DEF ScreensTypeOK
    <3>4. \A l \in {job[i].list, job[j].list, <<>>} : \A p \in DOMAIN l : l[p] \in past'[p]
      BY <1>a, <2>6, <3>1, <3>3 DEF Seen
    <3> QED BY <3>2, <3>4
  <2>8. ReadWasTrue'
    <3>1. \A p \in Orders : orderStatus'[p] \in past'[p]
      BY <1>a, <2>1, <2>2, <2>3 DEF ReadWasTrue, ScreensTypeOK
    <3>2. ASSUME NEW i \in Jobs
          PROVE  /\ job'[i].phase # "idle" => job'[i].order \in Orders /\ job'[i].to \in Statuses
                 /\ job'[i].phase = "emit" => job'[i].ticket \in past'[job'[i].order]
      BY <1>a, <2>1, <2>3, <2>4 DEF ReadWasTrue, ScreensTypeOK
    <3> QED BY <2>7, <3>1, <3>2 DEF ReadWasTrue, Seen
  <2>9. NothingFalse'
    BY <1>a, <2>1, <2>3, SMT DEF NothingFalse, ScreensInv
  <2> QED BY <2>5, <2>8, <2>9 DEF ScreensInv
<1>4. ASSUME NEW j \in Jobs, MoveRollsBack(j) \/ PublishFails(j) PROVE ScreensInv'
  BY <1>4, <1>a, <1>b, SMT DEF MoveRollsBack, PublishFails, Seen
<1>5. ASSUME NEW j \in Jobs, ticketFor(j) PROVE ScreensInv'
  <2> DEFINE r == [job[j] EXCEPT !.phase = "emit", !.ticket = orderStatus[job[j].order]]
  <2>1. /\ job[j].phase = "hydrate" /\ job' = [job EXCEPT ![j] = r]
        /\ UNCHANGED <<orderStatus, past, kds, board>>
    BY <1>5 DEF ticketFor
  <2>2. /\ job[j].order \in Orders /\ job[j].to \in Statuses /\ Seen(job[j].list)
        /\ orderStatus[job[j].order] \in Statuses
        /\ orderStatus[job[j].order] \in past[job[j].order]
    BY <1>a, <2>1 DEF ScreensTypeOK, ReadWasTrue
  <2>3. /\ r \in [phase : {"emit"}, order : Orders, from : Statuses \cup {None}, to : Statuses,
                  ticket : Statuses, list : Lists]
        /\ r.order = job[j].order /\ r.ticket = orderStatus[job[j].order]
        /\ r.list = job[j].list
    BY <1>a, <2>2 DEF ScreensTypeOK
  <2> HIDE DEF r
  <2> QED BY <1>b, <2>1, <2>2, <2>3
<1>6. ASSUME NEW j \in Jobs, broadcastTicket(j) PROVE ScreensInv'
  <2> DEFINE r == IF events(job[j].to) \cap BOARD_EVENTS = {} THEN idle
                  ELSE [job[j] EXCEPT !.phase = "board", !.ticket = None]
             o == job[j].order
  <2>1. /\ job[j].phase = "emit" /\ job' = [job EXCEPT ![j] = r]
        /\ kds' = IF connected THEN [kds EXCEPT ![o] = job[j].ticket] ELSE kds
        /\ UNCHANGED <<orderStatus, past, board>>
    BY <1>6 DEF broadcastTicket
  <2>2. o \in Orders /\ job[j].to \in Statuses /\ job[j].ticket \in past[o] /\ Seen(job[j].list)
    BY <1>a, <2>1 DEF ReadWasTrue
  <2>3. /\ r \in [phase : {"idle", "board"}, order : Orders \cup {None},
                  from : Statuses \cup {None}, to : Statuses \cup {None},
                  ticket : Statuses \cup {None}, list : Lists]
        /\ r.phase # "idle" => r.order \in Orders /\ r.to \in Statuses
        /\ r.list \in {<<>>, job[j].list}
    BY <1>a, <2>2 DEF ScreensTypeOK
  <2> HIDE DEF r, o
  <2>s. Seen(<<>>)
    BY SMT DEF Seen
  <2>t. Seen(r.list)
    BY <2>2, <2>3, <2>s
  <2>4. ScreensTypeOK'
    BY <1>a, <2>1, <2>2, <2>3 DEF ScreensTypeOK
  <2>5. ReadWasTrue'
    BY <1>a, <2>1, <2>3, <2>t DEF ScreensTypeOK, ReadWasTrue, Seen
  <2>6. NothingFalse'
    BY <1>a, <2>1, <2>2 DEF ScreensTypeOK, NothingFalse
  <2> QED BY <2>4, <2>5, <2>6 DEF ScreensInv
<1>7. ASSUME NEW j \in Jobs, boardSnapshot(j) PROVE ScreensInv'
  <2> DEFINE entries == oldest(BOARD_STATUSES)
             r == [job[j] EXCEPT !.phase = "emitBoard", !.list = entries]
  <2>1. /\ job[j].phase = "board" /\ job' = [job EXCEPT ![j] = r]
        /\ UNCHANGED <<orderStatus, past, kds, board>>
    BY <1>7 DEF boardSnapshot
  <2>2. entries \in Lists /\ Seen(entries)
    BY OldestIsTrue
  <2> HIDE DEF entries
  <2>3. job[j].order \in Orders /\ job[j].to \in Statuses
    BY <1>a, <2>1 DEF ReadWasTrue
  <2>4. /\ r \in [phase : {"emitBoard"}, order : Orders, from : Statuses \cup {None}, to : Statuses,
                  ticket : Statuses \cup {None}, list : Lists]
        /\ r.list = entries
    BY <1>a, <2>2, <2>3 DEF ScreensTypeOK
  <2> HIDE DEF r
  <2> QED BY <1>b, <2>1, <2>2, <2>4
<1>8. ASSUME NEW j \in Jobs, broadcastBoard(j) PROVE ScreensInv'
  <2>1. Seen(job[j].list) /\ Seen(<<>>)
    BY <1>a, SMT DEF ReadWasTrue, Seen
  <2>2. /\ board' = IF connected THEN job[j].list ELSE board
        /\ job' = [job EXCEPT ![j] = idle] /\ UNCHANGED <<orderStatus, past, kds>>
    BY <1>8 DEF broadcastBoard
  <2>3. ScreensTypeOK' /\ ReadWasTrue'
    BY <1>a, <2>1, <2>2 DEF ScreensTypeOK, ReadWasTrue, Seen
  <2>4. NothingFalse'
    BY <1>a, <2>1, <2>2 DEF NothingFalse, Seen
  <2> QED BY <2>3, <2>4 DEF ScreensInv
<1>9. ASSUME ScreenConnects PROVE ScreensInv'
  <2> DEFINE tickets == oldest(KDS_STATUSES)
  <2>1. /\ kds' = [o \in Orders |-> IF o \in DOMAIN tickets THEN tickets[o] ELSE None]
        /\ board' = oldest(BOARD_STATUSES) /\ UNCHANGED <<orderStatus, past, job>>
    BY <1>9 DEF ScreenConnects
  <2>2. tickets \in Lists /\ Seen(tickets) /\ Seen(oldest(BOARD_STATUSES))
    BY OldestIsTrue
  <2> HIDE DEF tickets
  <2>3. \A o \in Orders \cap DOMAIN tickets : tickets[o] \in past[o] /\ past[o] \subseteq Statuses
    BY <1>a, <2>2 DEF Seen, ScreensTypeOK
  <2>4. ScreensTypeOK' /\ ReadWasTrue'
    BY <1>a, <2>1, <2>3 DEF ScreensTypeOK, ReadWasTrue, Seen
  <2>5. NothingFalse'
    BY <1>a, <2>1, <2>2, <2>3 DEF NothingFalse, Seen
  <2> QED BY <2>4, <2>5 DEF ScreensInv
<1> QED
  BY <1>1, <1>2, <1>3, <1>4, <1>5, <1>6, <1>7, <1>8, <1>9
  DEF ScreensNext, Step, screenVars, ScreenDisconnects

\* Nothing that was rolled back is ever on a screen: what the kitchen display and the board
\* show of an order was its committed status at some time, for any number of orders and of
\* handlers that overlap (AfterCommit.flush, ticketFor, boardSnapshot).
THEOREM NothingFalseHolds == ScreensSpec => []NothingFalse
<1>1. ScreensInv => NothingFalse
  BY DEF ScreensInv
<1> QED BY <1>1, ScreensInitially, ScreensStep, PTL DEF ScreensSpec

-----------------------------------------------------------------------------
(* KioskDevices.                                                            *)

DeviceStatuses == {None, "PENDING", "ACTIVE", "PAUSED", "REVOKED"}

DevicesTypeOK ==
    /\ deviceStatus \in [Devices -> DeviceStatuses]
    /\ token \in [Devices -> Tablets \cup {None}]
    /\ edit \in [Edits -> [device : Devices, target : {"ACTIVE", "PAUSED"}] \cup {None}]

\* A row that is not paired yet holds no token; one that counts as live, or was seen
\* live by a pause or resume that has still to write, does.
PairedOnce ==
    /\ \A d \in Devices : deviceStatus[d] \in {None, "PENDING"} => token[d] = None
    /\ \A d \in Devices : deviceStatus[d] \in {"ACTIVE", "PAUSED"} => token[d] # None
    /\ \A e \in Edits : edit[e] # None => token[edit[e].device] # None

LEMMA DevicesInitially == DevicesInit => DevicesTypeOK /\ PairedOnce
  BY DevicesAssumption DEF DevicesInit, DevicesTypeOK, PairedOnce, DeviceStatuses

LEMMA DevicesStep ==
    DevicesTypeOK /\ PairedOnce /\ [DevicesNext]_deviceVars
        => DevicesTypeOK' /\ PairedOnce' /\ PairingKept
<1> SUFFICES ASSUME DevicesTypeOK, PairedOnce, [DevicesNext]_deviceVars
             PROVE  DevicesTypeOK' /\ PairedOnce' /\ PairingKept
  OBVIOUS
<1> USE DevicesAssumption DEF DevicesTypeOK, PairedOnce, PairingKept, DeviceStatuses
<1>1. CASE UNCHANGED <<deviceStatus, token, edit>>
  BY <1>1
<1>2. ASSUME NEW d \in Devices, create(d)
      PROVE  DevicesTypeOK' /\ PairedOnce' /\ PairingKept
  BY <1>2 DEF create
<1>3. ASSUME NEW d \in Devices, revoke(d)
      PROVE  DevicesTypeOK' /\ PairedOnce' /\ PairingKept
  BY <1>3 DEF revoke
<1>4. ASSUME NEW d \in Devices, NEW t \in Tablets, activate(t, d)
      PROVE  DevicesTypeOK' /\ PairedOnce' /\ PairingKept
  BY <1>4 DEF activate
<1>5. ASSUME NEW e \in Edits, NEW d \in Devices, NEW target \in {"ACTIVE", "PAUSED"},
             checkPaired(e, d, target)
      PROVE  DevicesTypeOK' /\ PairedOnce' /\ PairingKept
  BY <1>5 DEF checkPaired
<1>6. ASSUME NEW e \in Edits, update(e)
      PROVE  DevicesTypeOK' /\ PairedOnce' /\ PairingKept
  BY <1>6 DEF update
<1>7. ASSUME NEW d \in Devices,
             \/ CodeExpires(d) \/ onRevocation(d) \/ resolve(d) \/ resolveChannel(d)
             \/ authenticate(d) \/ handleConnection(d) \/ Disconnect(d)
      PROVE  UNCHANGED <<deviceStatus, token, edit>>
  BY <1>7 DEF CodeExpires, onRevocation, resolve, resolveChannel, authenticate,
              handleConnection, Disconnect
<1>8. UNCHANGED deviceVars => UNCHANGED <<deviceStatus, token, edit>>
  BY DEF deviceVars
<1> HIDE DEF DevicesTypeOK, PairedOnce, PairingKept, DeviceStatuses
<1> QED
  BY <1>1, <1>2, <1>3, <1>4, <1>5, <1>6, <1>7, <1>8 DEF DevicesNext

\* A device that counts as live holds a token, and it is the one token the device is ever
\* given, for any number of tablets with its code and of pauses, resumes and revocations
\* that race with the pairing (activate, update).
THEOREM LiveIsPairedHolds == DevicesSpec => LiveIsPaired
<1>1. DevicesTypeOK /\ PairedOnce /\ [DevicesNext]_deviceVars => (DevicesTypeOK /\ PairedOnce)'
  BY DevicesStep
<1>2. DevicesTypeOK /\ PairedOnce /\ [DevicesNext]_deviceVars => PairingKept
  BY DevicesStep
<1>3. DevicesSpec => [][PairingKept]_deviceVars
  BY <1>1, <1>2, DevicesInitially, PTL DEF DevicesSpec
<1> QED BY <1>3 DEF LiveIsPaired

-----------------------------------------------------------------------------
(* MenuCache.                                                               *)

USE BoundsAssumption

-----------------------------------------------------------------------------
LEMMA IncrType ==
  ASSUME MenuTypeOK, NEW revision \in Revisions, incr(revision)
  PROVE  /\ version' \in Versions /\ version' = version + 1
         /\ bumped' \in [Versions -> Revisions]
         /\ bumped'[version'] >= bumped[version] /\ bumped'[version'] >= revision
         /\ bumped'[version'] \in {revision, bumped[version]}
         /\ \A v \in Versions : v # version' => bumped'[v] = bumped[v]
  BY SMT DEF MenuTypeOK, incr, Versions, Revisions

PollsOK ==
    /\ polls \in [Kiosks -> [phase : {"idle", "create", "read", "build", "write"}, version : Versions,
                            floor : Revisions, revision : Revisions]]
    /\ \A k \in Kiosks : polls[k].phase \in {"read", "write"} => polls[k].version # 0

HeldOK == held \in [Kiosks -> [tag : Versions, revision : Revisions, floor : Revisions]]

LEMMA Numbers == Versions \subseteq Nat /\ Revisions \subseteq Nat /\ 0 \in Versions /\ 0 \in Revisions
  BY SMT DEF Versions, Revisions

LEMMA RespondType ==
  ASSUME MenuTypeOK, NEW k \in Kiosks, NEW tag \in Versions, NEW revision \in Revisions,
         NEW floor \in Revisions, Respond(k, tag, revision, floor)
  PROVE  HeldOK' /\ PollsOK'
  BY Numbers DEF MenuTypeOK, Respond, NoPoll, HeldOK, PollsOK

\* A poll that moves to a well-typed record keeps its type.
LEMMA PollType ==
  ASSUME MenuTypeOK, NEW k \in Kiosks, NEW at \in {"idle", "create", "read", "build", "write"},
         NEW v \in Versions, NEW floor \in Revisions, NEW revision \in Revisions,
         at \in {"read", "write"} => v # 0,
         polls' = [polls EXCEPT ![k] = [phase |-> at, version |-> v, floor |-> floor,
                                        revision |-> revision]]
  PROVE  PollsOK'
  BY DEF MenuTypeOK, PollsOK

LEMMA EtagType ==
  ASSUME MenuTypeOK, NEW k \in Kiosks, NEW v \in Versions, NEW floor \in Revisions, v # 0,
         matchesEtag(k, v, floor)
  PROVE  PollsOK' /\ HeldOK'
<1>1. CASE held[k].tag = v
  <2>1. held[k].revision \in Revisions /\ Respond(k, v, held[k].revision, floor)
    BY <1>1 DEF matchesEtag, MenuTypeOK
  <2> QED BY <2>1, RespondType
<1>2. CASE held[k].tag # v
  BY <1>2, PollType, Numbers DEF matchesEtag, MenuTypeOK, HeldOK
<1> QED BY <1>1, <1>2

LEMMA TypeInit == MenuInit => MenuTypeOK
  BY SMT DEF MenuInit, MenuTypeOK, Versions, Revisions, Missing, NoPoll

LEMMA TypeNext == MenuTypeOK /\ [MenuNext]_menuVars => MenuTypeOK'
<1> SUFFICES ASSUME MenuTypeOK, [MenuNext]_menuVars PROVE MenuTypeOK'
  OBVIOUS
<1>1. CASE UNCHANGED menuVars
  BY <1>1 DEF menuVars, MenuTypeOK
<1>2. ASSUME NEW w \in Writers, Commit(w) PROVE MenuTypeOK'
  BY <1>2, SMT DEF Commit, redis, MenuTypeOK, Revisions
<1>3. ASSUME NEW w \in Writers, bump(w) PROVE MenuTypeOK'
  <2>1. writes[w] \in Revisions /\ writes' \in [Writers -> Revisions]
    BY <1>3, Numbers DEF bump, MenuTypeOK
  <2> QED BY <1>3, <2>1, IncrType DEF bump, MenuTypeOK
<1>4. ASSUME NEW w \in Writers, bumpFails(w) PROVE MenuTypeOK'
  BY <1>4, Numbers, SMT DEF bumpFails, redis, MenuTypeOK
<1>5. ASSUME NEW k \in Kiosks, currentVersion(k) PROVE MenuTypeOK'
  <2>1. PollsOK' /\ HeldOK'
    <3>1. CASE version = 0
      <4>1. polls' = [polls EXCEPT ![k].phase = "create"] /\ UNCHANGED held
        BY <1>5, <3>1 DEF currentVersion
      <4> QED BY <4>1, SMT DEF MenuTypeOK, PollsOK, HeldOK
    <3>2. CASE version # 0
      <4>1. matchesEtag(k, version, bumped[version]) /\ bumped[version] \in Revisions
        BY <1>5, <3>2 DEF currentVersion, MenuTypeOK
      <4> QED BY <3>2, <4>1, EtagType DEF MenuTypeOK
    <3> QED BY <3>1, <3>2
  <2> QED BY <1>5, <2>1 DEF currentVersion, redis, MenuTypeOK, PollsOK, HeldOK
<1>5a. ASSUME NEW k \in Kiosks, createVersion(k) PROVE MenuTypeOK'
  <2>1. version' \in Versions /\ bumped' \in [Versions -> Revisions] /\ version' # 0
    <3>1. incr(0) /\ version \in Nat
      BY <1>5a, Numbers DEF createVersion, MenuTypeOK
    <3> QED BY <3>1, IncrType, Numbers, SMT
  <2>2. PollsOK' /\ HeldOK'
    BY <1>5a, <2>1, EtagType DEF createVersion
  <2> QED BY <1>5a, <2>1, <2>2 DEF createVersion, MenuTypeOK, PollsOK, HeldOK
<1>6. ASSUME NEW k \in Kiosks, currentVersionFails(k) PROVE MenuTypeOK'
  <2>1. PollsOK'
    BY <1>6, PollType, Numbers DEF currentVersionFails, MenuTypeOK
  <2> QED BY <1>6, <2>1 DEF currentVersionFails, redis, MenuTypeOK, PollsOK
<1>7. ASSUME NEW k \in Kiosks, read(k) PROVE MenuTypeOK'
  <2>1. PollsOK' /\ HeldOK'
    <3>1. CASE docs[polls[k].version] # Missing
      BY <1>7, <3>1, RespondType DEF read, MenuTypeOK
    <3>2. CASE docs[polls[k].version] = Missing
      <4>1. polls' = [polls EXCEPT ![k].phase = "build"] /\ UNCHANGED held
        BY <1>7, <3>2 DEF read
      <4> QED BY <4>1, SMT DEF MenuTypeOK, PollsOK, HeldOK
    <3> QED BY <3>1, <3>2
  <2> QED BY <1>7, <2>1 DEF read, redis, MenuTypeOK, PollsOK, HeldOK
<1>8. ASSUME NEW k \in Kiosks, readFails(k) PROVE MenuTypeOK'
  BY <1>8, SMT DEF readFails, redis, MenuTypeOK
<1>9. ASSUME NEW k \in Kiosks, build(k) PROVE MenuTypeOK'
  <2>1. PollsOK' /\ HeldOK'
    <3>1. CASE polls[k].version = 0
      BY <1>9, <3>1, RespondType, Numbers DEF build, MenuTypeOK
    <3>2. CASE polls[k].version # 0
      BY <1>9, <3>2, PollType DEF build, MenuTypeOK, HeldOK
    <3> QED BY <3>1, <3>2
  <2> QED BY <1>9, <2>1 DEF build, redis, MenuTypeOK, PollsOK, HeldOK
<1>10. ASSUME NEW k \in Kiosks, write(k) PROVE MenuTypeOK'
  <2>1. PollsOK' /\ HeldOK'
    BY <1>10, RespondType DEF write, MenuTypeOK
  <2>2. docs' \in [Versions -> Revisions \cup {Missing}]
    BY <1>10 DEF write, MenuTypeOK
  <2> QED BY <1>10, <2>1, <2>2 DEF write, MenuTypeOK, PollsOK, HeldOK
<1>11. ASSUME NEW v \in Versions, DocumentExpires(v) PROVE MenuTypeOK'
  BY <1>11 DEF DocumentExpires, MenuTypeOK
<1>12. ASSUME ColdRedis PROVE MenuTypeOK'
  BY <1>12, Numbers, SMT DEF ColdRedis, MenuTypeOK
<1> QED BY <1>1, <1>2, <1>3, <1>4, <1>5, <1>5a, <1>6, <1>7, <1>8, <1>9, <1>10, <1>11, <1>12
        DEF MenuNext, Poll

-----------------------------------------------------------------------------
\* What a version answers for was committed, and so was what a writer is about
\* to bump for.
BumpsAreCommitted ==
    /\ \A v \in Versions : bumped[v] <= menu
    /\ \A w \in Writers : writes[w] <= menu

\* A document of a version shows what the version answers for.
DocsMeetBumps ==
    \A v \in Versions : docs[v] # Missing => v # 0 /\ v <= version /\ docs[v] >= bumped[v]

\* So does what a kiosk holds under the ETag of a version.
TagsMeetBumps ==
    \A k \in Kiosks :
        /\ held[k].tag <= version
        /\ held[k].tag # 0 => held[k].revision >= bumped[held[k].tag]

\* A poll has to show what the version it read answers for.
PollsMeetBumps ==
    \A k \in Kiosks :
        /\ polls[k].version <= version
        /\ polls[k].floor <= menu
        /\ polls[k].version # 0 => polls[k].floor = bumped[polls[k].version]
        /\ polls[k].phase = "write" => polls[k].revision >= polls[k].floor

MenuInv == MenuTypeOK /\ BumpsAreCommitted /\ DocsMeetBumps /\ TagsMeetBumps /\ PollsMeetBumps
        /\ FreshAfterBump

LEMMA IInit == MenuInit => MenuInv
<1> SUFFICES ASSUME MenuInit PROVE MenuInv
  OBVIOUS
<1>1. MenuTypeOK BY TypeInit
<1> QED BY <1>1, Numbers, SMT DEF MenuInit, MenuInv, BumpsAreCommitted, DocsMeetBumps, TagsMeetBumps,
             PollsMeetBumps, FreshAfterBump, NoPoll

\* Changing one poll keeps PollsMeetBumps if the new one meets it.
LEMMA PollKeeps ==
  ASSUME MenuInv, NEW k \in Kiosks, NEW p, polls' = [polls EXCEPT ![k] = p],
         UNCHANGED <<menu, version, bumped>>,
         p.version <= version, p.floor <= menu,
         p.version # 0 => p.floor = bumped[p.version],
         p.phase = "write" => p.revision >= p.floor
  PROVE  PollsMeetBumps'
  BY DEF MenuInv, MenuTypeOK, PollsMeetBumps

\* A response that meets its version and its floor keeps the invariant.
LEMMA RespondKeeps ==
  ASSUME MenuInv, MenuTypeOK', NEW k \in Kiosks, NEW tag \in Versions, NEW revision \in Revisions,
         NEW floor \in Revisions, Respond(k, tag, revision, floor), revision >= floor,
         tag <= version, tag # 0 => revision >= bumped[tag],
         UNCHANGED <<menu, writes, version, bumped>>, DocsMeetBumps'
  PROVE  MenuInv'
<1>1. BumpsAreCommitted'
  BY DEF MenuInv, BumpsAreCommitted
<1>2. held' = [held EXCEPT ![k] = [tag |-> tag, revision |-> revision, floor |-> floor]]
      /\ polls' = [polls EXCEPT ![k] = NoPoll]
  BY DEF Respond
<1>3. TagsMeetBumps' /\ FreshAfterBump'
  BY <1>2 DEF MenuInv, TagsMeetBumps, FreshAfterBump, MenuTypeOK
<1>4. PollsMeetBumps'
  <2>1. NoPoll.version = 0 /\ NoPoll.floor = 0 /\ NoPoll.phase # "write" /\ 0 <= version /\ 0 <= menu
    BY Numbers, SMT DEF NoPoll, MenuInv, MenuTypeOK
  <2> QED BY <1>2, <2>1, PollKeeps
<1> QED BY <1>1, <1>3, <1>4 DEF MenuInv

\* The counter moves on: what the earlier versions answer for stays.
LEMMA IncrKeeps ==
  ASSUME MenuInv, NEW revision \in Revisions, revision <= menu, incr(revision),
         UNCHANGED <<menu, docs>>, \A w \in Writers : writes'[w] \in {0, writes[w]}
  PROVE  /\ BumpsAreCommitted' /\ DocsMeetBumps'
         /\ \A k \in Kiosks :
               /\ held[k].tag <= version'
               /\ held[k].tag # 0 => held[k].revision >= bumped'[held[k].tag]
               /\ polls[k].version <= version'
               /\ polls[k].version # 0 => polls[k].floor = bumped'[polls[k].version]
<1>1. /\ version \in Nat /\ version' = version + 1 /\ version' \in Versions /\ menu \in Nat
      /\ bumped'[version'] \in {revision, bumped[version]}
      /\ \A v \in Versions : v # version' => bumped'[v] = bumped[v]
  BY IncrType, Numbers DEF MenuInv, MenuTypeOK
<1>2. \A v \in Versions : v \in Nat /\ (v <= version => v <= version' /\ bumped'[v] = bumped[v])
  <2>1. \A v \in Nat : v <= version => v <= version + 1 /\ v # version + 1
    BY <1>1, SMT
  <2> SUFFICES ASSUME NEW v \in Versions
               PROVE  v \in Nat /\ (v <= version => v <= version' /\ bumped'[v] = bumped[v])
    OBVIOUS
  <2>2. v \in Nat
    BY Numbers
  <2>3. v <= version => v <= version' /\ v # version'
    BY <1>1, <2>1, <2>2
  <2> QED
    BY <1>1, <2>2, <2>3
<1>3. BumpsAreCommitted'
  BY <1>1, SMT DEF MenuInv, BumpsAreCommitted, MenuTypeOK
<1>4. DocsMeetBumps'
  BY <1>2 DEF MenuInv, DocsMeetBumps
<1>5. ASSUME NEW k \in Kiosks
      PROVE  /\ held[k].tag <= version'
             /\ held[k].tag # 0 => held[k].revision >= bumped'[held[k].tag]
             /\ polls[k].version <= version'
             /\ polls[k].version # 0 => polls[k].floor = bumped'[polls[k].version]
  <2>1. held[k].tag \in Versions /\ polls[k].version \in Versions
    BY DEF MenuInv, MenuTypeOK
  <2> QED BY <1>2, <2>1 DEF MenuInv, TagsMeetBumps, PollsMeetBumps
<1> QED BY <1>3, <1>4, <1>5

LEMMA WriterKeeps ==
  ASSUME MenuInv, MenuTypeOK', NEW w \in Writers, Commit(w) \/ bump(w) \/ bumpFails(w)
  PROVE  MenuInv'
<1>0. /\ menu \in Nat /\ writes[w] \in Revisions /\ writes[w] <= menu /\ writes[w] \in Nat
      /\ \A k \in Kiosks : polls[k].floor \in Nat
      /\ \A v \in Versions : bumped[v] \in Nat
      /\ \A x \in Writers : writes[x] \in Nat
  BY Numbers DEF MenuInv, MenuTypeOK, BumpsAreCommitted
<1>1. CASE Commit(w)
  <2>1. menu' = menu + 1 /\ writes' = [writes EXCEPT ![w] = menu + 1]
        /\ UNCHANGED <<version, docs, bumped, polls, held>>
    BY <1>1 DEF Commit, redis
  <2>2. BumpsAreCommitted'
    BY <1>0, <2>1, SMT DEF MenuInv, MenuTypeOK, BumpsAreCommitted
  <2>3. PollsMeetBumps'
    BY <1>0, <2>1, SMT DEF MenuInv, PollsMeetBumps
  <2> QED BY <2>1, <2>2, <2>3 DEF MenuInv, DocsMeetBumps, TagsMeetBumps, FreshAfterBump
<1>2. CASE bump(w)
  <2>1. incr(writes[w]) /\ UNCHANGED <<menu, docs, polls, held>>
        /\ \A x \in Writers : writes'[x] \in {0, writes[x]}
    BY <1>2 DEF bump, MenuInv, MenuTypeOK
  <2>2. /\ BumpsAreCommitted' /\ DocsMeetBumps'
        /\ \A k \in Kiosks :
              /\ held[k].tag <= version'
              /\ held[k].tag # 0 => held[k].revision >= bumped'[held[k].tag]
              /\ polls[k].version <= version'
              /\ polls[k].version # 0 => polls[k].floor = bumped'[polls[k].version]
    BY <1>0, <2>1, IncrKeeps
  <2>3. TagsMeetBumps' /\ PollsMeetBumps' /\ FreshAfterBump'
    BY <2>1, <2>2 DEF MenuInv, TagsMeetBumps, PollsMeetBumps, FreshAfterBump
  <2> QED BY <2>2, <2>3 DEF MenuInv
<1>3. CASE bumpFails(w)
  <2>1. writes' = [writes EXCEPT ![w] = 0] /\ UNCHANGED <<menu, version, docs, bumped, polls, held>>
    BY <1>3 DEF bumpFails, redis
  <2>2. BumpsAreCommitted'
    BY <1>0, <2>1, SMT DEF MenuInv, MenuTypeOK, BumpsAreCommitted
  <2> QED BY <2>1, <2>2 DEF MenuInv, DocsMeetBumps, TagsMeetBumps, PollsMeetBumps, FreshAfterBump
<1> QED BY <1>1, <1>2, <1>3

\* A 304, or a poll that goes on to read the document, once the counter is what
\* it is after the step.
LEMMA EtagKeeps ==
  ASSUME MenuInv, MenuTypeOK', NEW k \in Kiosks, UNCHANGED <<menu, writes, docs>>,
         matchesEtag(k, version', bumped'[version']), version' # 0,
         BumpsAreCommitted', DocsMeetBumps',
         \A j \in Kiosks :
            /\ held[j].tag <= version'
            /\ held[j].tag # 0 => held[j].revision >= bumped'[held[j].tag]
            /\ polls[j].version <= version'
            /\ polls[j].version # 0 => polls[j].floor = bumped'[polls[j].version]
  PROVE  MenuInv'
<1> DEFINE v == version'
           floor == bumped'[version']
<1>1. v \in Versions /\ v \in Nat /\ floor <= menu /\ v <= v
  <2>1. v \in Versions
    BY DEF MenuTypeOK
  <2>2. floor <= menu
    BY <2>1 DEF BumpsAreCommitted
  <2> QED BY <2>1, <2>2, Numbers, SMT
<1>2. CASE held[k].tag = v
  <2>1. /\ held' = [held EXCEPT ![k] = [tag |-> v, revision |-> held[k].revision, floor |-> floor]]
        /\ polls' = [polls EXCEPT ![k] = NoPoll]
    BY <1>2 DEF matchesEtag, Respond
  <2>2. TagsMeetBumps' /\ FreshAfterBump'
    <3> DEFINE h == [tag |-> v, revision |-> held[k].revision, floor |-> floor]
    <3>1. DOMAIN held = Kiosks
      BY DEF MenuInv, MenuTypeOK
    <3>2. \A j \in Kiosks : held'[j] = IF j = k THEN h ELSE held[j]
      BY <2>1, <3>1
    <3>3. h.tag = v /\ h.revision = held[k].revision /\ h.floor = floor
      OBVIOUS
    <3>4. held[k].revision >= floor
      BY <1>2
    <3> HIDE DEF h
    <3>5. TagsMeetBumps'
      BY <1>1, <3>2, <3>3, <3>4 DEF TagsMeetBumps
    <3>6. FreshAfterBump'
      BY <3>2, <3>3, <3>4 DEF MenuInv, FreshAfterBump
    <3> QED BY <3>5, <3>6
  <2>3. PollsMeetBumps'
    <3>1. NoPoll.version = 0 /\ NoPoll.floor = 0 /\ NoPoll.phase # "write" /\ 0 <= v /\ 0 <= menu
      BY <1>1, Numbers, SMTT(30) DEF NoPoll, MenuInv, MenuTypeOK
    <3> QED BY <2>1, <3>1 DEF MenuInv, MenuTypeOK, PollsMeetBumps
  <2> QED BY <2>2, <2>3 DEF MenuInv
<1>3. CASE held[k].tag # v
  <2> DEFINE p == [phase |-> "read", version |-> v, floor |-> floor, revision |-> 0]
  <2>1. polls' = [polls EXCEPT ![k] = p] /\ UNCHANGED held
    BY <1>3 DEF matchesEtag
  <2>2. TagsMeetBumps' /\ FreshAfterBump'
    BY <2>1 DEF MenuInv, TagsMeetBumps, FreshAfterBump
  <2>3. PollsMeetBumps'
    BY <1>1, <2>1 DEF MenuInv, MenuTypeOK, PollsMeetBumps
  <2> QED BY <2>2, <2>3 DEF MenuInv
<1> QED BY <1>2, <1>3

LEMMA CurrentVersionKeeps ==
  ASSUME MenuInv, MenuTypeOK', NEW k \in Kiosks, currentVersion(k)
  PROVE  MenuInv'
<1>1. UNCHANGED <<menu, writes, docs, version, bumped>>
  BY DEF currentVersion, redis
<1>2. BumpsAreCommitted' /\ DocsMeetBumps'
  BY <1>1 DEF MenuInv, BumpsAreCommitted, DocsMeetBumps
<1>3. CASE version = 0
  <2>1. polls' = [polls EXCEPT ![k].phase = "create"] /\ UNCHANGED held
    BY <1>3 DEF currentVersion
  <2>2. PollsMeetBumps'
    BY <1>1, <2>1, SMT DEF MenuInv, MenuTypeOK, PollsMeetBumps
  <2> QED BY <1>1, <1>2, <2>1, <2>2 DEF MenuInv, TagsMeetBumps, FreshAfterBump
<1>4. CASE version # 0
  <2>1. matchesEtag(k, version', bumped'[version'])
    BY <1>1, <1>4 DEF currentVersion
  <2>2. \A j \in Kiosks :
            /\ held[j].tag <= version'
            /\ held[j].tag # 0 => held[j].revision >= bumped'[held[j].tag]
            /\ polls[j].version <= version'
            /\ polls[j].version # 0 => polls[j].floor = bumped'[polls[j].version]
    BY <1>1 DEF MenuInv, TagsMeetBumps, PollsMeetBumps
  <2> QED BY <1>1, <1>2, <1>4, <2>1, <2>2, EtagKeeps
<1> QED BY <1>3, <1>4

LEMMA CreateVersionKeeps ==
  ASSUME MenuInv, MenuTypeOK', NEW k \in Kiosks, createVersion(k)
  PROVE  MenuInv'
<1>1. /\ UNCHANGED <<menu, writes, docs>> /\ incr(0)
      /\ matchesEtag(k, version', bumped'[version'])
  BY DEF createVersion
<1>2. 0 \in Revisions /\ 0 <= menu /\ \A w \in Writers : writes'[w] \in {0, writes[w]}
  BY <1>1, Numbers, SMT DEF MenuInv, MenuTypeOK
<1>3. version' # 0
  <2>1. version \in Nat /\ version' = version + 1
    BY <1>1, <1>2, IncrType, Numbers DEF MenuInv, MenuTypeOK
  <2> QED BY <2>1, SMT
<1> QED BY <1>1, <1>2, <1>3, IncrKeeps, EtagKeeps

LEMMA PollStepKeeps ==
  ASSUME MenuInv, MenuTypeOK', NEW k \in Kiosks,
         currentVersionFails(k) \/ read(k) \/ readFails(k) \/ build(k) \/ write(k)
  PROVE  MenuInv'
<1> DEFINE p == polls[k]
<1>0. /\ p.version \in Versions /\ p.floor \in Revisions /\ p.revision \in Revisions
      /\ menu \in Revisions /\ version \in Versions /\ held[k].tag \in Versions
      /\ p.version <= version /\ p.floor <= menu /\ 0 <= version
      /\ p.version # 0 => p.floor = bumped[p.version]
      /\ p.phase = "write" => p.revision >= p.floor
      /\ p.phase \in {"read", "write"} => p.version # 0
      /\ bumped[version] <= menu
  BY Numbers, SMTT(30) DEF MenuInv, MenuTypeOK, PollsMeetBumps, BumpsAreCommitted
<1>1. UNCHANGED <<menu, writes, version, bumped>>
  BY DEF currentVersionFails, read, readFails, build, write, redis
<1>2. ASSUME UNCHANGED <<docs, held>>, PollsMeetBumps' PROVE MenuInv'
  BY <1>1, <1>2 DEF MenuInv, BumpsAreCommitted, DocsMeetBumps, TagsMeetBumps, FreshAfterBump
<1>3. UNCHANGED docs => DocsMeetBumps'
  BY <1>1 DEF MenuInv, DocsMeetBumps
<1>4. ASSUME p.phase = "read", polls' = [polls EXCEPT ![k].phase = "build"] PROVE PollsMeetBumps'
  BY <1>1, <1>4, SMT DEF MenuInv, MenuTypeOK, PollsMeetBumps
<1>5. CASE currentVersionFails(k)
  <2> DEFINE q == [phase |-> "build", version |-> 0, floor |-> bumped[version], revision |-> 0]
  <2>1. polls' = [polls EXCEPT ![k] = q] /\ UNCHANGED <<docs, held>>
    BY <1>5 DEF currentVersionFails, redis
  <2> QED BY <1>0, <1>1, <1>2, <2>1, PollKeeps
<1>6. CASE read(k)
  <2>1. UNCHANGED docs /\ p.phase = "read"
    BY <1>6 DEF read, redis
  <2>2. CASE docs[p.version] # Missing
    <3>1. docs[p.version] \in Revisions /\ docs[p.version] >= bumped[p.version]
      BY <1>0, <2>2 DEF MenuInv, MenuTypeOK, DocsMeetBumps
    <3>2. Respond(k, p.version, docs[p.version], p.floor)
      BY <1>6, <2>2 DEF read
    <3> QED BY <1>0, <1>1, <1>3, <2>1, <3>1, <3>2, RespondKeeps
  <2>3. CASE docs[p.version] = Missing
    BY <1>2, <1>4, <1>6, <2>1, <2>3 DEF read
  <2> QED BY <2>2, <2>3
<1>7. CASE readFails(k)
  BY <1>2, <1>4, <1>7 DEF readFails, redis
<1>8. CASE build(k)
  <2>1. UNCHANGED docs
    BY <1>8 DEF build, redis
  <2>2. CASE p.version = 0
    BY <1>0, <1>1, <1>3, <1>8, <2>1, <2>2, Numbers, RespondKeeps, SMTT(30) DEF build
  <2>3. CASE p.version # 0
    <3> DEFINE q == [phase |-> "write", version |-> p.version, floor |-> p.floor, revision |-> menu]
    <3>1. polls' = [polls EXCEPT ![k] = q] /\ UNCHANGED held
      BY <1>8, <2>3 DEF build
    <3>2. menu >= p.floor
      BY <1>0, Numbers
    <3> QED BY <1>0, <1>1, <1>2, <2>1, <3>1, <3>2, PollKeeps
  <2> QED BY <2>2, <2>3
<1>9. CASE write(k)
  <2>1. p.phase = "write" /\ Respond(k, p.version, p.revision, p.floor)
    BY <1>9 DEF write
  <2>2. DocsMeetBumps'
    <3>1. DOMAIN docs = Versions
      BY DEF MenuInv, MenuTypeOK
    <3>2. \A v \in Versions : docs'[v] = docs[v] \/ (v = p.version /\ docs'[v] = p.revision)
      BY <1>9, <3>1 DEF write
    <3>3. p.revision >= bumped[p.version] /\ p.version # 0 /\ p.version <= version
      BY <1>0, <2>1
    <3> QED BY <1>1, <3>2, <3>3 DEF MenuInv, DocsMeetBumps
  <2> QED BY <1>0, <1>1, <2>1, <2>2, RespondKeeps
<1> QED BY <1>5, <1>6, <1>7, <1>8, <1>9

LEMMA INext ==
  ASSUME ColdStarts = 0
  PROVE  MenuInv /\ [MenuNext]_menuVars => MenuInv'
<1> SUFFICES ASSUME MenuInv, [MenuNext]_menuVars PROVE MenuInv'
  OBVIOUS
<1>0. MenuTypeOK /\ MenuTypeOK'
  BY TypeNext DEF MenuInv
<1>1. CASE UNCHANGED menuVars
  BY <1>1 DEF menuVars, MenuInv, MenuTypeOK, BumpsAreCommitted, DocsMeetBumps, TagsMeetBumps,
              PollsMeetBumps, FreshAfterBump
<1>2. ASSUME NEW v \in Versions, DocumentExpires(v) PROVE MenuInv'
  <2>1. DocsMeetBumps'
    BY <1>0, <1>2 DEF DocumentExpires, MenuInv, DocsMeetBumps, MenuTypeOK
  <2> QED BY <1>0, <1>2, <2>1 DEF DocumentExpires, MenuInv, BumpsAreCommitted, TagsMeetBumps,
                                  PollsMeetBumps, FreshAfterBump
<1>3. ~ColdRedis
  BY <1>0, SMT DEF ColdRedis, MenuTypeOK
<1> QED BY <1>0, <1>1, <1>2, <1>3, WriterKeeps, CurrentVersionKeeps, CreateVersionKeeps,
         PollStepKeeps, SMT DEF MenuNext, Poll

\* Every reachable state is well typed.
THEOREM MenuTypeCorrect == MenuSpec => []MenuTypeOK
  BY TypeInit, TypeNext, PTL DEF MenuSpec

\* While Redis keeps its keys, no interleaving of slow builds, failed reads,
\* lost bumps and other writes shows a kiosk a menu from before a bump that
\* its poll came after.
THEOREM FreshAfterBumpHolds ==
  ASSUME ColdStarts = 0
  PROVE  MenuSpec => []FreshAfterBump
<1>1. MenuInit => MenuInv
  BY IInit
<1>2. MenuInv /\ [MenuNext]_menuVars => MenuInv'
  BY INext
<1>3. MenuInv => FreshAfterBump
  BY DEF MenuInv
<1> QED BY <1>1, <1>2, <1>3, PTL DEF MenuSpec

-----------------------------------------------------------------------------
(* OrderPages.                                                              *)

USE PagesAssumption

Cursors == [value : Int, id : Nat, given : BOOLEAN]

RowValues == Int \X Nat

PagesTypeOK ==
    /\ row \in [Ids -> {"none", "open", "listed", "left"}]
    /\ now \in Nat
    /\ created \in [Ids -> Nat]
    /\ total \in [Ids -> Nat]
    /\ walk \in [phase : {"idle", "walking", "done"}, sort : orderSorts, cursor : Cursors,
                 seen : SUBSET Ids, again : SUBSET Ids, start : SUBSET Ids]

\* What a walk has met and what it set out from are rows that can no longer change.
MetAreRows == \A id \in walk.seen \cup walk.start : row[id] \in {"listed", "left"}

\* Nothing is met before the first page.
FirstPage == walk.phase # "done" /\ ~walk.cursor.given => walk.seen = {}

\* The cursor divides the rows: those met are not behind it, and those of the start that
\* stayed were met or are behind it.
CursorDivides ==
    walk.phase # "done" /\ walk.cursor.given =>
        /\ \A id \in walk.seen : ~cursorPredicate(walk.sort, walk.cursor, id)
        /\ \A id \in walk.start :
               \/ row[id] = "left"
               \/ id \in walk.seen
               \/ cursorPredicate(walk.sort, walk.cursor, id)

PagesInv ==
    /\ PagesTypeOK /\ MetAreRows /\ FirstPage
    /\ walk.phase = "idle" => ~walk.cursor.given /\ walk.again = {}
    /\ byTotal(walk.sort) => CursorDivides /\ VisitsExactly

-----------------------------------------------------------------------------
\* The order of a page's rows is strict.
LEMMA BeforeIsStrict ==
    ASSUME NEW sort, NEW a \in RowValues, NEW b \in RowValues, before(sort, a, b)
    PROVE  a # b /\ ~before(sort, b, a)
  BY SMT DEF before, less, RowValues

LEMMA BeforeIsTransitive ==
    ASSUME NEW sort, NEW a \in RowValues, NEW b \in RowValues, NEW c \in RowValues,
           before(sort, a, b), before(sort, b, c)
    PROVE  before(sort, a, c)
  BY SMT DEF before, less, RowValues

\* A cursor by total stands where its row stands.
LEMMA CursorIsRow ==
    ASSUME NEW sort, byTotal(sort), NEW last \in Ids
    PROVE  \A id \in Ids : cursorPredicate(sort, encodeCursor(sort, last), id) <=> sorted(sort, last, id)
<1>1. sortValueOf(sort, last) = total[last] /\ column(sort, last) = total[last]
  BY DEF sortValueOf, column
<1> QED
  BY <1>1 DEF encodeCursor, cursorPredicate, sorted, rowValue

\* Row values can be compared.
LEMMA RowValueIsPair ==
    ASSUME PagesTypeOK, NEW sort, byTotal(sort), NEW id \in Ids
    PROVE  rowValue(sort, id) \in RowValues
<1>1. total[id] \in Nat /\ id \in Nat /\ column(sort, id) = total[id]
  BY DEF PagesTypeOK, column
<1> QED
  BY <1>1, SMT DEF rowValue, RowValues

\* The page after a cursor holds nothing that was met.
LEMMA PageIsNew ==
    ASSUME PagesInv, byTotal(walk.sort), walk.phase = "walking"
    PROVE  walk.seen \cap selected(walk.sort, walk.cursor) = {}
  BY DEF PagesInv, FirstPage, CursorDivides, selected

\* A row of the start that stayed and was not met is in what the next request selects.
LEMMA UnmetIsSelected ==
    ASSUME PagesInv, byTotal(walk.sort), walk.phase = "walking",
           NEW id \in walk.start, row[id] # "left", id \notin walk.seen
    PROVE  id \in selected(walk.sort, walk.cursor)
<1>1. row[id] = "listed" /\ id \in Ids
  BY DEF PagesInv, MetAreRows, PagesTypeOK
<1>2. walk.cursor.given => cursorPredicate(walk.sort, walk.cursor, id)
  BY DEF PagesInv, CursorDivides
<1> QED
  BY <1>1, <1>2 DEF selected

-----------------------------------------------------------------------------
LEMMA PagesInitially == PagesInit => PagesInv
<1> SUFFICES ASSUME PagesInit PROVE PagesInv
  OBVIOUS
<1>1. /\ walk.phase = "idle" /\ walk.seen = {} /\ walk.again = {} /\ walk.start = {}
      /\ walk.cursor.given = FALSE
  BY SMT DEF PagesInit, noCursor
<1>2. PagesTypeOK
  BY SMT DEF PagesInit, noCursor, PagesTypeOK, Cursors, orderSorts
<1> QED
  BY <1>1, <1>2 DEF PagesInv, MetAreRows, FirstPage, CursorDivides, VisitsExactly

\* Rows come, are committed and leave the filter.
LEMMA RowsKeep ==
    ASSUME PagesInv, NEW id \in Ids, UNCHANGED walk,
           \/ \E t \in Totals : BeginOrder(id, t)
           \/ CommitOrder(id)
           \/ LeaveFilter(id)
    PROVE  PagesInv'
<1>1. /\ row' \in [Ids -> {"none", "open", "listed", "left"}]
      /\ \A k \in Ids : row[k] = "left" => row'[k] = "left"
      /\ \A k \in Ids : row[k] \in {"listed", "left"} => row'[k] \in {"listed", "left"}
  BY SMT DEF PagesInv, PagesTypeOK, BeginOrder, CommitOrder, LeaveFilter
<1>2. /\ total' \in [Ids -> Nat]
      /\ \A k \in Ids : row[k] \in {"listed", "left"} => total'[k] = total[k]
  BY SMT DEF PagesInv, PagesTypeOK, BeginOrder, CommitOrder, LeaveFilter
<1>0. now' \in Nat /\ created' \in [Ids -> Nat]
  BY SMT DEF PagesInv, PagesTypeOK, BeginOrder, CommitOrder, LeaveFilter
<1>3. walk.seen \subseteq Ids /\ walk.start \subseteq Ids
  BY DEF PagesInv, PagesTypeOK
<1>4. PagesTypeOK'
  BY <1>0, <1>1, <1>2 DEF PagesInv, PagesTypeOK
<1>5. MetAreRows' /\ FirstPage'
  BY <1>1, <1>3 DEF PagesInv, MetAreRows, FirstPage
<1>6. ASSUME byTotal(walk.sort), NEW k \in walk.seen \cup walk.start
      PROVE  cursorPredicate(walk.sort, walk.cursor, k)' <=> cursorPredicate(walk.sort, walk.cursor, k)
  <2>1. total'[k] = total[k]
    BY <1>2, <1>3 DEF PagesInv, MetAreRows
  <2> QED
    BY <1>6, <2>1 DEF cursorPredicate, rowValue, column
<1>7. byTotal(walk.sort) => CursorDivides'
  BY <1>1, <1>3, <1>6 DEF PagesInv, CursorDivides
<1>8. byTotal(walk.sort) => VisitsExactly'
  BY <1>1, <1>3 DEF PagesInv, VisitsExactly
<1> QED
  BY <1>4, <1>5, <1>7, <1>8 DEF PagesInv

LEMMA StartWalkKeeps ==
    ASSUME PagesInv, NEW sort \in orderSorts, StartWalk(sort)
    PROVE  PagesInv'
<1>1. /\ walk' = [phase |-> "walking", sort |-> sort, cursor |-> noCursor,
                  seen |-> {}, again |-> {}, start |-> Listed]
      /\ UNCHANGED <<now, row, created, total>>
  BY DEF StartWalk
<1>2. noCursor \in Cursors
  BY SMT DEF noCursor, Cursors
<1>3. PagesTypeOK'
  <2>1. Listed \in SUBSET Ids /\ {} \in SUBSET Ids
    BY DEF Listed
  <2>2. walk' \in [phase : {"idle", "walking", "done"}, sort : orderSorts, cursor : Cursors,
                   seen : SUBSET Ids, again : SUBSET Ids, start : SUBSET Ids]
    BY <1>1, <1>2, <2>1, SMT
  <2> QED
    BY <1>1, <2>2 DEF PagesInv, PagesTypeOK
<1>4. /\ walk'.phase = "walking" /\ walk'.seen = {} /\ walk'.again = {} /\ ~walk'.cursor.given
      /\ walk'.start = Listed
  BY <1>1 DEF noCursor
<1>5. MetAreRows'
  BY <1>1, <1>4 DEF MetAreRows, Listed
<1> QED
  BY <1>3, <1>4, <1>5 DEF PagesInv, FirstPage, CursorDivides, VisitsExactly

\* What a client has after a page is typed, and are rows.
LEMMA TakesInTyped ==
    ASSUME PagesInv, UNCHANGED <<now, row, created, total>>,
           NEW page \in SUBSET Ids, \A id \in page : row[id] = "listed",
           NEW cursor \in Cursors, TakesIn(page, cursor)
    PROVE  /\ PagesTypeOK' /\ MetAreRows' /\ FirstPage' /\ walk'.phase # "idle"
           /\ walk'.phase = "done" <=> ~cursor.given
           /\ walk'.cursor = cursor /\ walk'.sort = walk.sort /\ walk'.start = walk.start
           /\ walk'.seen = walk.seen \cup page
           /\ walk'.again = walk.again \cup (walk.seen \cap page)
<1>1. /\ walk'.phase = (IF cursor.given THEN "walking" ELSE "done")
      /\ walk'.cursor = cursor /\ walk'.sort = walk.sort /\ walk'.start = walk.start
      /\ walk'.seen = walk.seen \cup page
      /\ walk'.again = walk.again \cup (walk.seen \cap page)
  BY DEF TakesIn
<1>2. PagesTypeOK'
  <2>1. /\ walk.sort \in orderSorts /\ walk.seen \cup page \in SUBSET Ids
        /\ walk.again \cup (walk.seen \cap page) \in SUBSET Ids /\ walk.start \in SUBSET Ids
    BY DEF PagesInv, PagesTypeOK
  <2>2. walk' \in [phase : {"idle", "walking", "done"}, sort : orderSorts, cursor : Cursors,
                   seen : SUBSET Ids, again : SUBSET Ids, start : SUBSET Ids]
    BY <2>1, SMT DEF TakesIn
  <2> QED
    BY <2>2 DEF PagesInv, PagesTypeOK
<1>3. MetAreRows'
  BY <1>1 DEF PagesInv, MetAreRows
<1>4. cursor.given \in BOOLEAN
  BY DEF Cursors
<1> QED
  BY <1>1, <1>2, <1>3, <1>4 DEF FirstPage

\* A page with more to come: its cursor divides the rows anew.
LEMMA PageKeeps ==
    ASSUME PagesInv, UNCHANGED <<now, row, created, total>>, walk.phase = "walking",
           NEW page \in SUBSET selected(walk.sort, walk.cursor), NEW last \in page,
           FirstRows(walk.sort, selected(walk.sort, walk.cursor), page, last),
           TakesIn(page, encodeCursor(walk.sort, last))
    PROVE  PagesInv'
<1> DEFINE match == selected(walk.sort, walk.cursor)
           next == encodeCursor(walk.sort, last)
<1>1. page \in SUBSET Ids /\ \A id \in page : row[id] = "listed"
  BY DEF selected
<1>2. next \in Cursors /\ next.given
  <2>1. (created[last] \div PerMilli) * PerMilli \in Int
    BY <1>1, SMT DEF PagesInv, PagesTypeOK
  <2>2. sortValueOf(walk.sort, last) \in Int /\ last \in Nat
    BY <1>1, <2>1, SMT DEF sortValueOf, PagesInv, PagesTypeOK
  <2> QED
    BY <2>2, SMT DEF encodeCursor, Cursors
<1>3. /\ PagesTypeOK' /\ MetAreRows' /\ FirstPage' /\ walk'.phase # "idle" /\ walk'.phase # "done"
      /\ walk'.cursor = next /\ walk'.sort = walk.sort /\ walk'.start = walk.start
      /\ walk'.seen = walk.seen \cup page
      /\ walk'.again = walk.again \cup (walk.seen \cap page)
  <2> HIDE DEF next
  <2> QED
    BY <1>1, <1>2, TakesInTyped DEF next
<1>4. ASSUME byTotal(walk.sort) PROVE CursorDivides' /\ VisitsExactly'
  <2>1. \A id \in Ids : cursorPredicate(walk.sort, walk.cursor, id)' <=> sorted(walk.sort, last, id)
    <3>1. \A id \in Ids : cursorPredicate(walk.sort, walk.cursor, id)' <=> cursorPredicate(walk.sort, next, id)
      BY <1>3, <1>4 DEF cursorPredicate, rowValue, column
    <3> QED
      BY <1>1, <1>4, <3>1, CursorIsRow
  <2>2. \A id \in page : ~sorted(walk.sort, last, id)
    <3> SUFFICES ASSUME NEW id \in page PROVE ~sorted(walk.sort, last, id)
      OBVIOUS
    <3>1. rowValue(walk.sort, id) \in RowValues /\ rowValue(walk.sort, last) \in RowValues
      BY <1>1, <1>4, RowValueIsPair DEF PagesInv
    <3>2. CASE id = last
      BY <3>1, <3>2, BeforeIsStrict DEF sorted
    <3>3. CASE id # last
      <4>1. sorted(walk.sort, id, last)
        BY <3>3 DEF FirstRows
      <4> QED
        BY <3>1, <4>1, BeforeIsStrict DEF sorted
    <3> QED
      BY <3>2, <3>3
  <2>3. \A id \in walk.seen : ~sorted(walk.sort, last, id)
    <3> SUFFICES ASSUME NEW id \in walk.seen, sorted(walk.sort, last, id) PROVE FALSE
      OBVIOUS
    <3>1. walk.cursor.given /\ ~cursorPredicate(walk.sort, walk.cursor, id)
      BY <1>4 DEF PagesInv, FirstPage, CursorDivides
    <3>2. cursorPredicate(walk.sort, walk.cursor, last)
      BY <3>1 DEF selected
    <3>3. <<walk.cursor.value, walk.cursor.id>> \in RowValues /\ id \in Ids
      BY DEF PagesInv, PagesTypeOK, Cursors, RowValues
    <3>4. rowValue(walk.sort, id) \in RowValues /\ rowValue(walk.sort, last) \in RowValues
      BY <1>1, <1>4, <3>3, RowValueIsPair DEF PagesInv
    <3>5. PICK at \in RowValues : at = <<walk.cursor.value, walk.cursor.id>>
      BY <3>3
    <3>6. before(walk.sort, at, rowValue(walk.sort, id))
      <4>1. /\ before(walk.sort, at, rowValue(walk.sort, last))
            /\ before(walk.sort, rowValue(walk.sort, last), rowValue(walk.sort, id))
        BY <3>2, <3>5 DEF sorted, cursorPredicate
      <4> QED
        BY <3>4, <4>1, BeforeIsTransitive
    <3> QED
      BY <3>1, <3>5, <3>6 DEF cursorPredicate
  <2>4. \A id \in walk.start : row[id] = "left" \/ id \in walk.seen \cup page \/ sorted(walk.sort, last, id)
    BY <1>4, UnmetIsSelected DEF FirstRows
  <2>5. walk.seen \subseteq Ids /\ walk.start \subseteq Ids
    BY DEF PagesInv, PagesTypeOK
  <2>6. CursorDivides'
    BY <1>1, <1>3, <2>1, <2>2, <2>3, <2>4, <2>5 DEF CursorDivides
  <2>7. VisitsExactly'
    BY <1>3, <1>4, PageIsNew DEF VisitsExactly, PagesInv
  <2> QED
    BY <2>6, <2>7
<1> QED
  BY <1>3, <1>4 DEF PagesInv

\* The last page.
LEMMA LastPageKeeps ==
    ASSUME PagesInv, UNCHANGED <<now, row, created, total>>, walk.phase = "walking",
           TakesIn(selected(walk.sort, walk.cursor), noCursor)
    PROVE  PagesInv'
<1> DEFINE match == selected(walk.sort, walk.cursor)
<1>1. match \in SUBSET Ids /\ \A id \in match : row[id] = "listed"
  BY DEF selected
<1>2. noCursor \in Cursors /\ ~noCursor.given
  BY SMT DEF noCursor, Cursors
<1>3. /\ PagesTypeOK' /\ MetAreRows' /\ FirstPage' /\ walk'.phase = "done"
      /\ walk'.sort = walk.sort /\ walk'.start = walk.start
      /\ walk'.seen = walk.seen \cup match
      /\ walk'.again = walk.again \cup (walk.seen \cap match)
  <2> HIDE DEF match
  <2> QED
    BY <1>1, <1>2, TakesInTyped DEF match
<1>4. ASSUME byTotal(walk.sort) PROVE VisitsExactly'
  <2>1. \A id \in walk.start : row[id] = "left" \/ id \in walk.seen \cup match
    BY <1>4, UnmetIsSelected
  <2>2. walk'.again = {}
    BY <1>3, <1>4, PageIsNew DEF VisitsExactly, PagesInv
  <2> QED
    BY <1>3, <2>1, <2>2 DEF VisitsExactly
<1>5. CursorDivides'
  BY <1>3 DEF CursorDivides
<1>6. walk'.phase # "idle"
  BY <1>3
<1> QED
  BY <1>3, <1>4, <1>5, <1>6 DEF PagesInv

LEMMA PagesStep == PagesInv /\ [PagesNext]_pageVars => PagesInv'
<1> SUFFICES ASSUME PagesInv, [PagesNext]_pageVars PROVE PagesInv'
  OBVIOUS
<1>1. ASSUME UNCHANGED <<row, created, total, walk>>, now' \in Nat PROVE PagesInv'
  BY <1>1 DEF PagesInv, PagesTypeOK, MetAreRows, FirstPage, CursorDivides, VisitsExactly,
              cursorPredicate, rowValue, column
<1>2. CASE Tick
  <2>1. now' \in Nat
    BY <1>2, SMT DEF Tick, PagesInv, PagesTypeOK
  <2> QED
    BY <1>1, <1>2, <2>1 DEF Tick
<1>3. CASE UNCHANGED pageVars
  <2>1. now' \in Nat /\ UNCHANGED <<row, created, total, walk>>
    BY <1>3 DEF pageVars, PagesInv, PagesTypeOK
  <2> QED
    BY <1>1, <2>1
<1>4. CASE list
  BY <1>4, PageKeeps, LastPageKeeps DEF list
<1>5. ASSUME NEW id \in Ids, (\E t \in Totals : BeginOrder(id, t)) \/ CommitOrder(id) \/ LeaveFilter(id)
      PROVE  PagesInv'
  BY <1>5, RowsKeep DEF BeginOrder, CommitOrder, LeaveFilter
<1> QED
  BY <1>2, <1>3, <1>4, <1>5, StartWalkKeeps DEF PagesNext

\* However many orders are placed and leave the filter while a client walks the list by
\* total, and however many of them tie, the walk meets no row twice and every row that
\* was there when it began and stayed, for any page size (list, cursorPredicate).
THEOREM WalkIsExactHolds == PagesSpec => []WalkIsExact
<1>1. PagesInv => WalkIsExact
  BY DEF PagesInv, WalkIsExact
<1> QED
  BY <1>1, PagesInitially, PagesStep, PTL DEF PagesSpec

=============================================================================

----------------------------- MODULE MCProgress ----------------------------
(* What must happen in the end, checked in one run: a sweep reaches every row *)
(* it can clear (BatchedSweep), a keyed request is answered                   *)
(* (IdempotentRequests), also when the pool is empty (PaymentPool), a kiosk   *)
(* comes to show the new menu (MenuCache), the screens catch up               *)
(* (KitchenScreens).  No module reads another's variables: turn is chosen     *)
(* once and the component it names runs.  Each fairness condition is that of  *)
(* the component's own specification, for the component whose turn it is.     *)
EXTENDS BatchedSweep

CONSTANTS
    Attempts, Keys, Bodies,                                      \* IdempotentRequests
    Kiosks, Writers, MaxRevision, MaxVersion, LostBumps, ColdStarts,  \* MenuCache
    Orders, Jobs, MaxTickets, MaxFailures,                       \* KitchenScreens
    r1, r2, r3, k1, k2, PoolMax,                                 \* PaymentPool
    None

VARIABLES
    turn,
    keys, holder, reaped, req, phase, answer, made, status, live,
    menu, writes, version, docs, polls, held, bumped, lost, cold,
    orderStatus, past, job, connected, kds, board, failures,
    poolPhase, conns, queue, poolKeys, livePayment, poolAnswer

Keyed == INSTANCE IdempotentRequests

Menu == INSTANCE MenuCache

Kitchen == INSTANCE KitchenScreens

Pool == INSTANCE PaymentPool WITH
    Requests <- {r1, r2, r3},
    KeyOf <- [r \in {r1, r2, r3} |-> IF r = r3 THEN k2 ELSE k1],
    phase <- poolPhase, held <- conns, keys <- poolKeys, live <- livePayment,
    answer <- poolAnswer

-----------------------------------------------------------------------------
keyVars == <<keys, holder, reaped, req, phase, answer, made, status, live>>
menuVars == <<menu, writes, version, docs, polls, held, bumped, lost, cold>>
screenVars == <<orderStatus, past, job, connected, kds, board, failures>>
poolVars == <<poolPhase, conns, queue, poolKeys, livePayment, poolAnswer>>

ProgressVars == <<turn, vars, keyVars, menuVars, screenVars, poolVars>>

ProgressInit ==
    /\ turn \in {"sweep", "keys", "menu", "screens", "pool"}
    /\ Init /\ Keyed!KeyedInit /\ Menu!MenuInit /\ Kitchen!ScreensInit /\ Pool!Init

ProgressNext ==
    \/ turn = "sweep" /\ Next
       /\ UNCHANGED <<turn, keyVars, menuVars, screenVars, poolVars>>
    \/ turn = "keys" /\ Keyed!KeyedNext
       /\ UNCHANGED <<turn, vars, menuVars, screenVars, poolVars>>
    \/ turn = "menu" /\ Menu!MenuNext
       /\ UNCHANGED <<turn, vars, keyVars, screenVars, poolVars>>
    \/ turn = "screens" /\ Kitchen!ScreensNext
       /\ UNCHANGED <<turn, vars, keyVars, menuVars, poolVars>>
    \/ turn = "pool" /\ Pool!Next
       /\ UNCHANGED <<turn, vars, keyVars, menuVars, screenVars>>

SweepFairness ==
    /\ \A s \in Sweeps : /\ WF_vars(turn = "sweep" /\ Select(s))
                         /\ WF_vars(turn = "sweep" /\ (Visit(s) \/ VisitFails(s)))
    /\ \A r \in Entries :
          SF_vars(/\ turn = "sweep"
                  /\ \E s \in Sweeps : todo[s] # <<>> /\ Head(todo[s]) = r /\ Visit(s))

MenuFairness ==
    /\ \A k \in Kiosks : WF_menuVars(turn = "menu" /\ Menu!Poll(k))
    /\ \A w \in Writers : WF_menuVars(turn = "menu" /\ (Menu!bump(w) \/ Menu!bumpFails(w)))
    /\ \A v \in Menu!Versions : WF_menuVars(turn = "menu" /\ Menu!DocumentExpires(v))

PoolFairness ==
    \A r \in {r1, r2, r3} :
        /\ WF_poolVars(turn = "pool" /\ Pool!Step(r))
        /\ WF_poolVars(turn = "pool" /\ Pool!Grant(r))
        /\ WF_poolVars(turn = "pool" /\ Pool!AcquireTimeout(r))

ProgressSpec ==
    /\ ProgressInit /\ [][ProgressNext]_ProgressVars
    /\ SweepFairness
    /\ MenuFairness
    /\ PoolFairness
    /\ \A a \in Attempts : WF_keyVars(turn = "keys" /\ Keyed!Proceed(a))
    /\ \A j \in Jobs : WF_screenVars(turn = "screens" /\ Kitchen!Step(j))

-----------------------------------------------------------------------------
\* A retry that waits for the key is answered in the end, also when the attempt
\* that held it was refused or died (the insert waits for the holder's commit).
EveryAttemptIsAnswered == Keyed!EveryAttemptIsAnswered

\* Once the writes stop, every kiosk comes to show the catalog as it is (every write
\* bumps the version, and a kiosk is told "not modified" for its own version alone).
KioskCatchesUp == Menu!KioskCatchesUp

\* Once orders stop moving a screen shows them as they are, although announcements
\* crossed or failed, if it connected once after the last time they did (ticketFor and
\* boardSnapshot read after the commit, the snapshot is drawn on connecting).
ScreensCatchUp == Kitchen!ScreensCatchUp

\* Every payment request is answered, although requests that hold a connection wait
\* for each other's locks and for a second connection (insertPayment, POOL_OPTIONS).
EveryRequestEnds == Pool!EveryRequestEnds

=============================================================================

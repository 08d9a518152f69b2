------------------------------- MODULE Rollout -------------------------------
(***************************************************************************)
(* Replacing instances behind a load balancer: what SIGTERM sets going in  *)
(* one process (the revocation subscriber closes, /readyz turns to 503 for *)
(* the drain, the listener closes and drops its sockets, the requests that *)
(* run end, the pool and the Redis client close), what the balancer learns *)
(* of it from its probes, and what becomes of the screens.  Redis and      *)
(* Postgres may fail at any time, for ever.  The balancer, the deployer    *)
(* and the order in which Nest calls its hooks are outside the repository. *)
(***************************************************************************)
EXTENDS Naturals

CONSTANTS
    Instances,
    Screens,       \* sockets of staff, one principal each
    Interval,      \* ticks from one probe of an instance to the next
    CheckTimeout,  \* CHECK_TIMEOUT_MS in ticks, below Interval
    Drain,         \* SHUTDOWN_DRAIN_SECONDS in ticks
    MaxStops, MaxOutages,
    None

\* The drain covers a whole period of the probes.
ASSUME DrainAssumption ==
    /\ Interval \in Nat /\ CheckTimeout \in Nat /\ Drain \in Nat
    /\ Interval < Drain
    /\ None \notin Nat

VARIABLES
    stage,    \* an instance: "serving", "destroying", "draining", "closing" or "down"
    left,     \* what is left of its drain
    busy,     \* it works on a request
    check,    \* its readiness check in flight: the ticks it may still take, or None
    age,      \* ticks since the balancer last probed it
    ready,    \* the balancer has it in rotation
    at,       \* the instance that holds a screen's socket, or None
    revoked,  \* the screens whose principal has been revoked
    down,     \* the dependencies that do not answer
    stops, outages

vars == <<stage, left, busy, check, age, ready, at, revoked, down, stops, outages>>

Dependencies == {"db", "redis"}

listening(i) == stage[i] \in {"serving", "destroying", "draining"}
isDraining(i) == stage[i] \in {"draining", "closing"}

-----------------------------------------------------------------------------
\* bootstrap: the pool opens, configureApp installs the hooks, the server listens.
\* None of it waits for Redis: the kill channel is subscribed to once it is ready.
bootstrap(i) ==
    /\ stage[i] = "down"
    /\ stage' = [stage EXCEPT ![i] = "serving"]
    /\ UNCHANGED <<left, busy, check, age, ready, at, revoked, down, stops, outages>>

\* A deploy stops an instance, one at a time: the others are in rotation.
Sigterm(i) ==
    /\ stage[i] = "serving" /\ stops < MaxStops
    /\ \A j \in Instances \ {i} : stage[j] = "serving" /\ ready[j]
    /\ stage' = [stage EXCEPT ![i] = "destroying"]
    /\ stops' = stops + 1
    /\ UNCHANGED <<left, busy, check, age, ready, at, revoked, down, outages>>

\* MUTANT of closeRedis: a bare quit() waits for a connection.
closeRedisQuits == "redis" \notin down

\* A client that is not ready is disconnected; one that is ready is told to quit, and
\* disconnected when that fails, as it does when the connection is lost.  Either way the
\* hook comes back.
closeRedis == TRUE

\* MUTANT of onModuleDestroy: the wait comes before the flag.
onModuleDestroyLate(i) ==
    /\ stage[i] = "destroying" /\ closeRedis
    /\ stage' = [stage EXCEPT ![i] = "draining"]
    /\ left' = [left EXCEPT ![i] = 0]
    /\ UNCHANGED <<busy, check, age, ready, at, revoked, down, stops, outages>>

\* RevocationSubscriber.onModuleDestroy returns, and ShutdownDrain raises its flag and
\* starts to wait.
onModuleDestroy(i) ==
    /\ stage[i] = "destroying" /\ closeRedis
    /\ stage' = [stage EXCEPT ![i] = "draining"]
    /\ left' = [left EXCEPT ![i] = Drain]
    /\ UNCHANGED <<busy, check, age, ready, at, revoked, down, stops, outages>>

\* beforeApplicationShutdown returns: Nest closes the listener and drops the sockets.
dispose(i) ==
    /\ stage[i] = "draining" /\ left[i] = 0
    /\ stage' = [stage EXCEPT ![i] = "closing"]
    /\ at' = [s \in Screens |-> IF at[s] = i THEN None ELSE at[s]]
    /\ UNCHANGED <<left, busy, check, age, ready, revoked, down, stops, outages>>

\* The server is closed once what it was answering is answered; only then do the last
\* hooks end the pool and close the Redis client.
onApplicationShutdown(i) ==
    /\ stage[i] = "closing" /\ ~busy[i] /\ check[i] = None /\ closeRedis
    /\ stage' = [stage EXCEPT ![i] = "down"]
    /\ UNCHANGED <<left, busy, check, age, ready, at, revoked, down, stops, outages>>

-----------------------------------------------------------------------------
\* The balancer probes /readyz: refused by a closed listener, 503 at once from an
\* instance that drains, else the dependencies are asked.
readiness(i) ==
    /\ age[i] = Interval /\ check[i] = None
    /\ age' = [age EXCEPT ![i] = 0]
    /\ IF listening(i) /\ ~isDraining(i)
         THEN /\ check' = [check EXCEPT ![i] = CheckTimeout]
              /\ UNCHANGED ready
         ELSE /\ ready' = [ready EXCEPT ![i] = FALSE]
              /\ UNCHANGED check
    /\ UNCHANGED <<stage, left, busy, at, revoked, down, stops, outages>>

\* MUTANT of checkReadiness: an instance that once failed is never ready again.
checkReadinessSticky(i) ==
    /\ check[i] # None
    /\ check' = [check EXCEPT ![i] = None]
    /\ ready' = [ready EXCEPT ![i] = @ /\ down = {}]
    /\ UNCHANGED <<stage, left, busy, age, at, revoked, down, stops, outages>>

\* checkReadiness answers, whatever has become of the instance meanwhile: 200 when both
\* dependencies are up.
checkReadiness(i) ==
    /\ check[i] # None
    /\ check' = [check EXCEPT ![i] = None]
    /\ ready' = [ready EXCEPT ![i] = down = {}]
    /\ UNCHANGED <<stage, left, busy, age, at, revoked, down, stops, outages>>

Request(i) ==
    /\ ready[i] /\ listening(i) /\ ~busy[i]
    /\ busy' = [busy EXCEPT ![i] = TRUE]
    /\ UNCHANGED <<stage, left, check, age, ready, at, revoked, down, stops, outages>>

Answer(i) ==
    /\ busy[i]
    /\ busy' = [busy EXCEPT ![i] = FALSE]
    /\ UNCHANGED <<stage, left, check, age, ready, at, revoked, down, stops, outages>>

-----------------------------------------------------------------------------
\* KdsGateway.handleConnection, on an instance in rotation: the denylist is asked, and
\* without Redis the handshake is refused.
handleConnection(s, i) ==
    /\ at[s] = None /\ ready[i] /\ listening(i)
    /\ s \notin revoked /\ "redis" \notin down
    /\ at' = [at EXCEPT ![s] = i]
    /\ UNCHANGED <<stage, left, busy, check, age, ready, revoked, down, stops, outages>>

\* A principal is revoked: every instance whose subscriber is open cuts the sockets it
\* holds.  The QUIT of an instance that has just been told to stop may come first.
onRevocation(s) ==
    /\ s \notin revoked /\ "redis" \notin down
    /\ revoked' = revoked \cup {s}
    /\ \/ /\ at[s] # None => stage[at[s]] \in {"serving", "destroying"}
          /\ at' = [at EXCEPT ![s] = None]
       \/ /\ at[s] # None /\ stage[at[s]] \in {"destroying", "draining"}
          /\ UNCHANGED at
    /\ UNCHANGED <<stage, left, busy, check, age, ready, down, stops, outages>>

\* A dependency is lost, with the connections to it.
Outage(d) ==
    /\ d \notin down /\ outages < MaxOutages
    /\ down' = down \cup {d}
    /\ outages' = outages + 1
    /\ UNCHANGED <<stage, left, busy, check, age, ready, at, revoked, stops>>

Recovery(d) ==
    /\ d \in down
    /\ down' = down \ {d}
    /\ UNCHANGED <<stage, left, busy, check, age, ready, at, revoked, stops, outages>>

\* Time passes when no probe is due and no readiness check is at its deadline.
Tick ==
    /\ \A i \in Instances : age[i] < Interval /\ check[i] # 0
    /\ age' = [i \in Instances |-> age[i] + 1]
    /\ check' = [i \in Instances |-> IF check[i] = None THEN None ELSE check[i] - 1]
    /\ left' = [i \in Instances |-> IF left[i] = 0 THEN 0 ELSE left[i] - 1]
    /\ UNCHANGED <<stage, busy, ready, at, revoked, down, stops, outages>>

-----------------------------------------------------------------------------
\* Every instance serves and is in rotation; the probes are spread over the interval.
Init ==
    /\ stage = [i \in Instances |-> "serving"]
    /\ left = [i \in Instances |-> 0]
    /\ busy = [i \in Instances |-> FALSE]
    /\ check = [i \in Instances |-> None]
    /\ age \in [Instances -> 0 .. Interval]
    /\ ready = [i \in Instances |-> TRUE]
    /\ at \in [Screens -> Instances]
    /\ revoked = {} /\ down = {}
    /\ stops = 0 /\ outages = 0

Next ==
    \/ \E i \in Instances :
          \/ bootstrap(i) \/ Sigterm(i) \/ onModuleDestroy(i) \/ dispose(i)
          \/ onApplicationShutdown(i) \/ readiness(i) \/ checkReadiness(i)
          \/ Request(i) \/ Answer(i)
    \/ \E s \in Screens, i \in Instances : handleConnection(s, i)
    \/ \E s \in Screens : onRevocation(s)
    \/ \E d \in Dependencies : Outage(d) \/ Recovery(d)
    \/ Tick

\* A process runs its hooks and answers its requests, the balancer keeps probing, a
\* platform restarts what it stopped, a client of Socket.IO keeps reconnecting, and time
\* passes.  Nobody has to be revoked or stopped, and an outage need not end.
Fairness ==
    /\ \A i \in Instances :
          /\ WF_vars(bootstrap(i)) /\ WF_vars(onModuleDestroy(i)) /\ WF_vars(dispose(i))
          /\ WF_vars(onApplicationShutdown(i)) /\ WF_vars(readiness(i))
          /\ WF_vars(checkReadiness(i)) /\ WF_vars(Answer(i))
    /\ \A s \in Screens : WF_vars(\E i \in Instances : handleConnection(s, i))
    /\ WF_vars(Tick)

Spec == Init /\ [][Next]_vars
FairSpec == Spec /\ Fairness

-----------------------------------------------------------------------------
\* With a drain longer than the probe interval, no connection is sent to an instance
\* whose listener is closed ("so the load balancer moves traffic away first"), even when
\* a readiness check that began before the stop answers 200 after it.
NothingRoutedToClosed == \A i \in Instances : ready[i] => listening(i)

\* A stop ends, also when Redis is down throughout ("without letting an outage hang the
\* process").
StopEnds == \A i \in Instances : stage[i] = "destroying" ~> stage[i] = "down"

\* A screen whose principal is not revoked always comes back to an instance that serves,
\* given that the dependencies are up in the end ("each screen reconnects to an instance
\* that is staying up").
ScreensReturn ==
    <>[](down = {}) =>
        \A s \in Screens : []<>(s \in revoked \/ (at[s] # None /\ stage[at[s]] = "serving"))

\* No socket outlives the revocation of its principal on an instance that drains ("Every
\* instance receives this same message and disconnects the sockets *it* holds").
\* Not guaranteed by the code: the subscriber is closed before the drain begins.
DrainingHearsKills ==
    \A s \in Screens : s \in revoked /\ at[s] # None => stage[at[s]] # "draining"

\* While Redis is the only dependency that has failed, some instance stays in rotation
\* ("What degrades: logins and kiosk pairing are refused ..., the menu is served uncached,
\* other staff traffic is served without rate limiting").
\* Not guaranteed by the code: readiness needs Redis too.
RedisOutageIsServed == down = {"redis"} /\ outages = 1 => \E i \in Instances : ready[i]

=============================================================================

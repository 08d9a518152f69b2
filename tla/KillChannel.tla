---------------------------- MODULE KillChannel ----------------------------
(***************************************************************************)
(* Ending a staff session that holds a socket: RevocationService writes a  *)
(* denylist entry in Redis and publishes the principal, every instance     *)
(* cuts the sockets it holds (KdsGateway), and a handshake reads the       *)
(* denylist after it has verified the token.  An entry lives as long as an *)
(* access token.  Time advances only while no revocation is under way and  *)
(* no token waits longer than SignLatency to be signed: both take a second *)
(* or two, a token lives for minutes.                                      *)
(***************************************************************************)
EXTENDS Absent, Naturals, FiniteSets

CONSTANTS
    StaffIds, Jtis,  \* users.id and jti, the names a revocation may carry
    Sockets,
    Instances,
    Owner,           \* the user of each token
    Home,            \* the instance each socket connects to
    TTL,             \* ACCESS_TOKEN_TTL_SECONDS
    SignLatency,     \* from finding an account active to signing its token
    MaxTime, MaxRevocations, MaxRestarts

ASSUME ChannelAssumption ==
    /\ TTL \in Nat /\ SignLatency \in Nat
    /\ Owner \in [Jtis -> StaffIds]
    /\ None \notin Nat /\ None \notin Jtis /\ None \notin {"set", "publish"}

VARIABLES
    now,
    active,      \* users.is_active
    since,       \* when an account was last deactivated, 0 before
    checked,     \* when the account of a token was found active, None before
    minted,      \* when a token was signed, None before
    deny,        \* when a denylist entry expires, 0 without one
    announcing,  \* revocations in progress: name to "set" or "publish"
    kills,       \* kill messages under way: <<instance, name>>
    sock,        \* a socket: its token and how far the handshake is
    cut,         \* tokens that lost a socket to a kill
    refusedLive, \* tokens refused although their account was checked after the revocation
    revocations, restarts

channelVars == <<now, active, since, checked, minted, deny, announcing, kills, sock, cut,
          refusedLive, revocations, restarts>>

Names == StaffIds \cup Jtis
\* The denylist keys, and the rooms, of a token.
NamesOf(k) == {k, Owner[k]}

closed == [token |-> None, phase |-> "closed"]

verifies(k) == minted[k] # None /\ now < minted[k] + TTL
denied(k) == \E n \in NamesOf(k) : now < deny[n]

-----------------------------------------------------------------------------
\* MUTANT of checkActive: a refresh trusts its session and not the account.
checkActiveTrusting(k) ==
    /\ checked[k] = None
    /\ checked' = [checked EXCEPT ![k] = now]
    /\ UNCHANGED <<now, active, since, minted, deny, announcing, kills, sock, cut,
                   refusedLive, revocations, restarts>>

\* login or refresh: the account is found active ...
checkActive(k) ==
    /\ checked[k] = None /\ active[Owner[k]]
    /\ checked' = [checked EXCEPT ![k] = now]
    /\ UNCHANGED <<now, active, since, minted, deny, announcing, kills, sock, cut,
                   refusedLive, revocations, restarts>>

\* ... and its token is signed.
issue(k) ==
    /\ checked[k] # None /\ minted[k] = None
    /\ minted' = [minted EXCEPT ![k] = now]
    /\ UNCHANGED <<now, active, since, checked, deny, announcing, kills, sock, cut,
                   refusedLive, revocations, restarts>>

Announce(n) ==
    /\ announcing[n] = None /\ revocations < MaxRevocations
    /\ announcing' = [announcing EXCEPT ![n] = "set"]
    /\ revocations' = revocations + 1

\* UsersService.update on the guarded path, committed: a deactivation, a
\* reactivation, or a change of role that leaves is_active alone.
revokeUser(u) ==
    /\ Announce(u)
    /\ \E b \in BOOLEAN :
          /\ active' = [active EXCEPT ![u] = b]
          /\ since' = IF active[u] /\ ~b THEN [since EXCEPT ![u] = now] ELSE since
    /\ UNCHANGED <<now, checked, minted, deny, kills, sock, cut, refusedLive, restarts>>

\* AuthService.logout, the session's refresh tokens revoked.
revokeToken(k) ==
    /\ Announce(k) /\ verifies(k)
    /\ UNCHANGED <<now, active, since, checked, minted, deny, kills, sock, cut, refusedLive, restarts>>

\* MUTANT of setDenied: the entry is one unit short of a token's lifetime.
setDeniedShort(n) ==
    /\ announcing[n] = "set"
    /\ deny' = [deny EXCEPT ![n] = now + TTL - 1]
    /\ announcing' = [announcing EXCEPT ![n] = "publish"]
    /\ UNCHANGED <<now, active, since, checked, minted, kills, sock, cut, refusedLive, revocations, restarts>>

\* announce, the SET.
setDenied(n) ==
    /\ announcing[n] = "set"
    /\ deny' = [deny EXCEPT ![n] = now + TTL]
    /\ announcing' = [announcing EXCEPT ![n] = "publish"]
    /\ UNCHANGED <<now, active, since, checked, minted, kills, sock, cut, refusedLive, revocations, restarts>>

\* announce, the PUBLISH: it reaches the instances subscribed at that moment.
publish(n) ==
    /\ announcing[n] = "publish"
    /\ \E subscribed \in SUBSET Instances : kills' = kills \cup (subscribed \X {n})
    /\ announcing' = [announcing EXCEPT ![n] = None]
    /\ UNCHANGED <<now, active, since, checked, minted, deny, sock, cut, refusedLive, revocations, restarts>>

\* withRetry starts over with the SET.
retry(n) ==
    /\ announcing[n] = "publish"
    /\ announcing' = [announcing EXCEPT ![n] = "set"]
    /\ UNCHANGED <<now, active, since, checked, minted, deny, kills, sock, cut, refusedLive, revocations, restarts>>

\* withRetry gives up; the caller logs it.
giveUp(n) ==
    /\ announcing[n] # None
    /\ announcing' = [announcing EXCEPT ![n] = None]
    /\ UNCHANGED <<now, active, since, checked, minted, deny, kills, sock, cut, refusedLive, revocations, restarts>>

-----------------------------------------------------------------------------
\* KdsGateway.authenticate, the signature and the expiry of the token.
verify(s, k) ==
    /\ sock[s] = closed /\ verifies(k)
    /\ sock' = [sock EXCEPT ![s] = [token |-> k, phase |-> "verified"]]
    /\ UNCHANGED <<now, active, since, checked, minted, deny, announcing, kills, cut,
                   refusedLive, revocations, restarts>>

\* KdsGateway.authenticate, RevocationService.isRevoked: admitted or refused.
\* Without Redis the handshake is refused, as Disconnect has it.
isRevoked(s) ==
    LET k == sock[s].token
        fresh == \A n \in NamesOf(k) : now < deny[n] => deny[n] - TTL < checked[k] IN
    /\ sock[s].phase = "verified"
    /\ sock' = [sock EXCEPT ![s] = IF denied(k) THEN closed ELSE [@ EXCEPT !.phase = "admitted"]]
    /\ refusedLive' = IF denied(k) /\ fresh THEN refusedLive \cup {k} ELSE refusedLive
    /\ UNCHANGED <<now, active, since, checked, minted, deny, announcing, kills, cut, revocations, restarts>>

\* KdsGateway.handleConnection: the socket joins its user's and its token's room.
handleConnection(s) ==
    /\ sock[s].phase = "admitted"
    /\ sock' = [sock EXCEPT ![s].phase = "joined"]
    /\ UNCHANGED <<now, active, since, checked, minted, deny, announcing, kills, cut,
                   refusedLive, revocations, restarts>>

\* The sockets of an instance that a revocation names.
room(i, n) ==
    {s \in Sockets : /\ Home[s] = i /\ sock[s].phase = "joined"
                     /\ n \in NamesOf(sock[s].token)}

\* A kill message arrives and the instance cuts the room it names.
onRevocation(i, n) ==
    /\ <<i, n>> \in kills
    /\ kills' = kills \ {<<i, n>>}
    /\ cut' = cut \cup {sock[s].token : s \in room(i, n)}
    /\ sock' = [s \in Sockets |-> IF s \in room(i, n) THEN closed ELSE sock[s]]
    /\ UNCHANGED <<now, active, since, checked, minted, deny, announcing, refusedLive, revocations, restarts>>

Disconnect(s) ==
    /\ sock[s] # closed
    /\ sock' = [sock EXCEPT ![s] = closed]
    /\ UNCHANGED <<now, active, since, checked, minted, deny, announcing, kills, cut,
                   refusedLive, revocations, restarts>>

Tick ==
    /\ now < MaxTime /\ kills = {} /\ \A n \in Names : announcing[n] = None
    /\ \A k \in Jtis : checked[k] # None /\ minted[k] = None => now < checked[k] + SignLatency
    /\ now' = now + 1
    /\ UNCHANGED <<active, since, checked, minted, deny, announcing, kills, sock, cut,
                   refusedLive, revocations, restarts>>

\* Redis comes back without its keys; what it had not delivered is gone too.
RedisRestarts ==
    /\ restarts < MaxRestarts
    /\ restarts' = restarts + 1
    /\ deny' = [n \in Names |-> 0]
    /\ kills' = {}
    /\ UNCHANGED <<now, active, since, checked, minted, announcing, sock, cut, refusedLive, revocations>>

-----------------------------------------------------------------------------
ChannelInit ==
    /\ now = 0
    /\ active = [u \in StaffIds |-> TRUE]
    /\ since = [u \in StaffIds |-> 0]
    /\ checked = [k \in Jtis |-> None]
    /\ minted = [k \in Jtis |-> None]
    /\ deny = [n \in Names |-> 0]
    /\ announcing = [n \in Names |-> None]
    /\ kills = {}
    /\ sock = [s \in Sockets |-> closed]
    /\ cut = {} /\ refusedLive = {}
    /\ revocations = 0 /\ restarts = 0

ChannelNext ==
    \/ \E k \in Jtis : checkActive(k) \/ issue(k) \/ revokeToken(k)
    \/ \E u \in StaffIds : revokeUser(u)
    \/ \E n \in Names : setDenied(n) \/ publish(n) \/ retry(n) \/ giveUp(n)
    \/ \E s \in Sockets, k \in Jtis : verify(s, k)
    \/ \E s \in Sockets : isRevoked(s) \/ handleConnection(s) \/ Disconnect(s)
    \/ \E i \in Instances, n \in Names : onRevocation(i, n)
    \/ Tick
    \/ RedisRestarts

ChannelSpec == ChannelInit /\ [][ChannelNext]_channelVars

\* The handshakes that let a token back in although a kill has cut it.
ReadmittedAfterCut ==
    \E s \in Sockets :
        /\ sock[s].phase = "verified" /\ sock'[s].phase = "admitted"
        /\ verifies(sock[s].token) /\ sock[s].token \in cut

\* While Redis keeps its keys, a token that lost a socket to a kill opens no
\* other as long as it verifies, on any instance, whatever order the SET, the
\* messages and the handshakes take ("a subscriber that acted on the message and
\* then let the principal straight back in would be worse than useless").
NoReturnAfterCut == [][restarts = 0 => ~ReadmittedAfterCut]_channelVars

\* What a deactivated account can still do ends with the tokens it held, or was about to
\* be given: no request is let through and no handshake admitted once a token lifetime
\* has passed, also when Redis has lost the denylist in between ("a fired employee's
\* access token dies on its own soon enough").
AccessEndsWithToken ==
    \A k \in Jtis :
        ~active[Owner[k]] /\ verifies(k) => now < since[Owner[k]] + SignLatency + TTL

\* The same across a restart of Redis ("failing open on an authorization check
\* means an outage is a window in which a revoked principal reconnects").
\* Not guaranteed by the code: the README tells how it fails.
OutageIsNoWindow == [][~ReadmittedAfterCut]_channelVars

\* A token issued after the revocation of its user is not refused ("Whether
\* this principal has been revoked since its token was minted").
\* Not guaranteed by the code: the README tells how it fails.
FreshTokenAdmitted == refusedLive = {}

\* While an account is deactivated, no token of it outlives the denylist entry
\* ("a denylist entry for a token that can no longer verify is dead weight").
\* Not guaranteed by the code: the README tells how it fails.
NoTokenOutlivesEntry ==
    \A k \in Jtis :
        ~active[Owner[k]] /\ deny[Owner[k]] # 0 /\ verifies(k) => denied(k)

=============================================================================

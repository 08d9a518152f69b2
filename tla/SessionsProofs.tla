--------------------------- MODULE SessionsProofs ---------------------------
(* Proofs about RefreshSessions and KillChannel, for any number of tokens,    *)
(* families, requests, sockets and instances.                                 *)
EXTENDS RefreshSessions, KillChannel, TLAPS

\* A leaf is first-order reasoning, unless it says that it needs SMT.
USE Zenon

-----------------------------------------------------------------------------
(* RefreshSessions.                                                           *)

USE NoneAssumption

LEMMA TypeInit == SessionsInit => TypeOK
  BY SMT DEF SessionsInit, TypeOK, Idle

LEMMA TypeNext == TypeOK /\ [SessionsNext]_sessionVars => TypeOK'
<1> SUFFICES ASSUME TypeOK, [SessionsNext]_sessionVars PROVE TypeOK'
  OBVIOUS
<1> USE DEF TypeOK
<1>1. CASE UNCHANGED sessionVars
  BY <1>1 DEF sessionVars
<1>2. ASSUME NEW r \in Requests, NEW f \in Families, login(r, f) PROVE TypeOK'
  BY <1>2 DEF login
<1>3. ASSUME NEW r \in Requests, NEW t \in Tokens, retire(r, t) PROVE TypeOK'
  BY <1>3 DEF retire
<1>4. ASSUME NEW r \in Requests, NEW t \in Tokens, issuePair(r, t) PROVE TypeOK'
  BY <1>4, SMT DEF issuePair, Idle
<1>5. ASSUME NEW r \in Requests, revokeFamilyOfReplayedToken(r) PROVE TypeOK'
  BY <1>5 DEF revokeFamilyOfReplayedToken, revoked, Idle
<1>6. ASSUME NEW r \in Requests, checkUser(r) PROVE TypeOK'
  BY <1>6, SMT DEF checkUser, Idle
<1>7. ASSUME NEW r \in Requests, RequestFails(r) PROVE TypeOK'
  BY <1>7 DEF RequestFails, Idle
<1>8. ASSUME NEW t \in Tokens, logout(t) PROVE TypeOK'
  BY <1>8 DEF logout, revoked
<1>9. ASSUME NEW t \in Tokens, TokenExpires(t) PROVE TypeOK'
  BY <1>9 DEF TokenExpires
<1>10. ASSUME NEW t \in Tokens, deleteStaleRefreshTokens(t) PROVE TypeOK'
  BY <1>10 DEF deleteStaleRefreshTokens
<1>11. ASSUME NEW a \in BOOLEAN, SetActive(a) PROVE TypeOK'
  BY <1>11 DEF SetActive
<1> QED BY <1>1, <1>2, <1>3, <1>4, <1>5, <1>6, <1>7, <1>8, <1>9, <1>10, <1>11 DEF SessionsNext

\* Every reachable state is well typed, whatever is in flight.
THEOREM SessionsTypeCorrect == SessionsSpec => []TypeOK
  BY TypeInit, TypeNext, PTL DEF SessionsSpec

-----------------------------------------------------------------------------
Issued(t) == tok[t] # "unissued"

\* A family holds at most one of: a live token, a request that is about to
\* issue one.
OneHead ==
    /\ \A s, t \in Tokens : s # t /\ tok[s] = "live" /\ tok[t] = "live" => family[s] # family[t]
    /\ \A q, r \in Requests : q # r /\ InFlight(q) /\ InFlight(r) => op[q].family # op[r].family
    /\ \A r \in Requests, t \in Tokens :
          InFlight(r) /\ tok[t] = "live" => op[r].family # family[t]

\* Whatever has a family has one that a login started.
Started ==
    /\ \A t \in Tokens : Issued(t) => family[t] \in started
    /\ \A r \in Requests : InFlight(r) => op[r].family \in started

\* A token is retired before it gets a child, and gets one only.
OneChild ==
    /\ \A t \in Tokens : Issued(t) /\ parent[t] # None => tok[parent[t]] \in {"revoked", "deleted"}
    /\ \A r \in Requests : InFlight(r) /\ op[r].parent # None =>
          /\ tok[op[r].parent] \in {"revoked", "deleted"}
          /\ family[op[r].parent] = op[r].family
          /\ \A t \in Tokens : Issued(t) => parent[t] # op[r].parent
    /\ \A s, t \in Tokens : s # t /\ Issued(s) /\ Issued(t) /\ parent[s] = parent[t] => parent[s] = None

\* Once a deactivated account has renewed a session, nothing that could renew
\* it again has passed the check.
Bitten ==
    /\ isActive => \A f \in Families : late[f] = 0
    /\ \A f \in Families : late[f] <= 1
    /\ \A r \in Requests : op[r].phase = "checked" => late[op[r].family] = 0

IInv == TypeOK /\ OneHead /\ Started /\ OneChild /\ Bitten

LEMMA IInit == SessionsInit => IInv
<1> SUFFICES ASSUME SessionsInit PROVE IInv
  OBVIOUS
<1>1. TypeOK
  BY TypeInit
<1> QED BY <1>1, SMT DEF SessionsInit, IInv, OneHead, Started, OneChild, Bitten, Issued, InFlight, Idle

\* Steps that only revoke or delete tokens and let requests go.
LEMMA ShrinkKeeps ==
  ASSUME IInv, TypeOK', UNCHANGED <<family, parent, isActive, started, late>>,
         \A t \in Tokens : \/ tok'[t] = tok[t]
                           \/ tok[t] \in {"live", "revoked"} /\ tok'[t] \in {"revoked", "deleted"},
         \A r \in Requests : op'[r] = op[r] \/ op'[r].phase \in {"idle", "reused"}
  PROVE  IInv'
<1>1. OneHead'
  BY SMT DEF IInv, TypeOK, OneHead, InFlight
<1>2. Started'
  BY DEF IInv, TypeOK, Started, InFlight, Issued
<1>3. OneChild'
  BY SMT DEF IInv, TypeOK, OneChild, InFlight, Issued
<1>4. Bitten'
  BY SMT DEF IInv, TypeOK, Bitten
<1> QED BY <1>1, <1>2, <1>3, <1>4 DEF IInv

LEMMA INext == IInv /\ [SessionsNext]_sessionVars => IInv'
<1> SUFFICES ASSUME IInv, [SessionsNext]_sessionVars PROVE IInv'
  OBVIOUS
<1>0. TypeOK /\ TypeOK'
  BY TypeNext DEF IInv
<1>1. CASE UNCHANGED sessionVars
  BY <1>0, <1>1, ShrinkKeeps DEF sessionVars
<1>2. ASSUME NEW r \in Requests, NEW f \in Families, login(r, f) PROVE IInv'
  <2>1. /\ op' = [op EXCEPT ![r] = [phase |-> "checked", family |-> f, parent |-> None]]
        /\ f \notin started /\ started' = started \cup {f} /\ isActive
        /\ UNCHANGED <<tok, family, parent, expired, isActive, ended, late>>
    BY <1>2 DEF login
  <2>2. OneHead'
    BY <1>0, <2>1, SMT DEF IInv, TypeOK, OneHead, Started, InFlight, Issued
  <2>3. Started'
    BY <1>0, <2>1 DEF IInv, TypeOK, Started, InFlight, Issued
  <2>4. OneChild'
    BY <1>0, <2>1, SMT DEF IInv, TypeOK, OneChild, InFlight, Issued
  <2>5. Bitten'
    BY <1>0, <2>1 DEF IInv, TypeOK, Bitten
  <2> QED BY <1>0, <2>2, <2>3, <2>4, <2>5 DEF IInv
<1>3. ASSUME NEW r \in Requests, NEW t \in Tokens, retire(r, t) PROVE IInv'
  <2>1. CASE tok[t] = "live"
    <3>1. /\ op' = [op EXCEPT ![r] = [phase |-> "retired", family |-> family[t], parent |-> t]]
          /\ tok' = [tok EXCEPT ![t] = "revoked"]
          /\ UNCHANGED <<family, parent, expired, isActive, started, ended, late>>
      BY <1>3, <2>1 DEF retire
    <3>2. OneHead'
      BY <1>0, <2>1, <3>1, SMT DEF IInv, TypeOK, OneHead, InFlight
    <3>3. Started'
      BY <1>0, <2>1, <3>1, SMT DEF IInv, TypeOK, Started, InFlight, Issued
    <3>4. OneChild'
      BY <1>0, <2>1, <3>1, SMT DEF IInv, TypeOK, OneChild, InFlight, Issued
    <3>5. Bitten'
      BY <1>0, <3>1 DEF IInv, TypeOK, Bitten
    <3> QED BY <1>0, <3>2, <3>3, <3>4, <3>5 DEF IInv
  <2>2. CASE tok[t] # "live"
    BY <1>0, <1>3, <2>2, ShrinkKeeps, SMT DEF retire, TypeOK
  <2> QED BY <2>1, <2>2
<1>4. ASSUME NEW r \in Requests, NEW t \in Tokens, issuePair(r, t) PROVE IInv'
  <2> DEFINE f == op[r].family
  <2>1. /\ InFlight(r) /\ op[r].phase = "checked" /\ f \in Families /\ tok[t] = "unissued"
        /\ tok' = [tok EXCEPT ![t] = "live"]
        /\ family' = [family EXCEPT ![t] = f]
        /\ parent' = [parent EXCEPT ![t] = op[r].parent]
        /\ op' = [op EXCEPT ![r] = Idle]
        /\ late' = [late EXCEPT ![f] = IF isActive THEN @ ELSE @ + 1]
        /\ UNCHANGED <<isActive, started>>
    BY <1>0, <1>4 DEF issuePair, InFlight, TypeOK
  <2>2. ~InFlight(r)' /\ \A q \in Requests \ {r} : op'[q] = op[q] /\ (InFlight(q) => op[q].family # f)
    BY <1>0, <2>1, SMT DEF InFlight, Idle, IInv, OneHead, TypeOK
  <2>3. OneHead'
    BY <1>0, <2>1, <2>2, SMT DEF IInv, TypeOK, OneHead, InFlight
  <2>4. Started'
    BY <1>0, <2>1, <2>2, SMT DEF IInv, TypeOK, Started, InFlight, Issued
  <2>5. OneChild'
    <3>1. \A s \in Tokens : Issued(s) => s # t
      BY <2>1 DEF Issued
    <3>2. op[r].parent # None => /\ op[r].parent \in Tokens \ {t}
                                 /\ tok'[op[r].parent] \in {"revoked", "deleted"}
                                 /\ \A s \in Tokens : Issued(s) => parent[s] # op[r].parent
      BY <1>0, <2>1, SMT DEF IInv, OneChild, TypeOK
    <3>3. \A q \in Requests \ {r} :
             InFlight(q) /\ op[q].parent # None /\ op[r].parent # None => op[q].parent # op[r].parent
      BY <2>1, <2>2, SMT DEF IInv, OneChild
    <3>4. \A s \in Tokens : s # t => tok'[s] = tok[s] /\ parent'[s] = parent[s] /\ family'[s] = family[s]
      BY <1>0, <2>1, SMT DEF TypeOK
    <3>5. tok'[t] = "live" /\ parent'[t] = op[r].parent
      BY <1>0, <2>1, SMT DEF TypeOK
    <3>6. \A s \in Tokens : Issued(s)' <=> Issued(s) \/ s = t
      BY <3>4, <3>5 DEF Issued
    <3>7. \A s \in Tokens : Issued(s)' /\ parent'[s] # None => tok'[parent'[s]] \in {"revoked", "deleted"}
      BY <1>0, <2>1, <3>2, <3>4, <3>5, <3>6, SMTT(30) DEF IInv, OneChild, TypeOK
    <3>8. ASSUME NEW q \in Requests, InFlight(q)', op'[q].parent # None
          PROVE  /\ tok'[op'[q].parent] \in {"revoked", "deleted"}
                 /\ family'[op'[q].parent] = op'[q].family
                 /\ \A s \in Tokens : Issued(s)' => parent'[s] # op'[q].parent
      <4>1. q # r /\ op'[q] = op[q] /\ InFlight(q) /\ op[q].parent \in Tokens \ {t}
        BY <1>0, <2>1, <2>2, <3>8, SMT DEF InFlight, IInv, OneChild, TypeOK
      <4> QED BY <1>0, <3>3, <3>4, <3>5, <3>6, <3>8, <4>1, SMTT(30) DEF IInv, OneChild
    <3>9. \A s, u \in Tokens : s # u /\ Issued(s)' /\ Issued(u)' /\ parent'[s] = parent'[u] => parent'[s] = None
      BY <3>2, <3>4, <3>5, <3>6, SMTT(30) DEF IInv, OneChild
    <3> QED BY <3>7, <3>8, <3>9 DEF OneChild
  <2>6. Bitten'
    <3>1. late[f] = 0 /\ \A g \in Families : late'[g] = IF g = f /\ ~isActive THEN 1 ELSE late[g]
      BY <1>0, <2>1, SMT DEF IInv, Bitten, TypeOK
    <3>2. \A q \in Requests : op'[q].phase = "checked" => q # r /\ op'[q] = op[q] /\ op[q].family # f
                                                         /\ op[q].family \in Families
      BY <1>0, <2>1, <2>2 DEF InFlight, TypeOK
    <3> QED BY <2>1, <3>1, <3>2, SMT DEF IInv, Bitten
  <2> QED BY <1>0, <2>3, <2>4, <2>5, <2>6 DEF IInv
<1>5. ASSUME NEW r \in Requests, revokeFamilyOfReplayedToken(r) PROVE IInv'
  BY <1>0, <1>5, ShrinkKeeps DEF revokeFamilyOfReplayedToken, revoked, Idle, TypeOK
<1>6. ASSUME NEW r \in Requests, checkUser(r) PROVE IInv'
  <2>1. CASE op[r].parent \in expired \/ ~isActive
    BY <1>0, <1>6, <2>1, ShrinkKeeps DEF checkUser, Idle, TypeOK
  <2>2. CASE ~(op[r].parent \in expired \/ ~isActive)
    <3>1. /\ op[r].phase = "retired" /\ op' = [op EXCEPT ![r] = [op[r] EXCEPT !.phase = "checked"]] /\ isActive
          /\ UNCHANGED <<tok, family, parent, isActive, started, late>>
      BY <1>6, <2>2 DEF checkUser
    <3>2. /\ \A q \in Requests : /\ op'[q].family = op[q].family /\ op'[q].parent = op[q].parent
                                 /\ InFlight(q)' <=> InFlight(q)
                                 /\ op[q].phase # "idle" => op[q].family \in Families
      BY <1>0, <3>1, SMT DEF InFlight, TypeOK
    <3>3. OneHead' /\ Started'
      BY <3>1, <3>2, SMT DEF IInv, OneHead, Started, Issued
    <3>4. OneChild'
      BY <3>1, <3>2, SMT DEF IInv, OneChild, Issued
    <3>5. Bitten'
      BY <1>0, <3>1 DEF IInv, Bitten, TypeOK
    <3> QED BY <1>0, <3>3, <3>4, <3>5 DEF IInv
  <2> QED BY <2>1, <2>2
<1>7. ASSUME NEW r \in Requests, RequestFails(r) PROVE IInv'
  BY <1>0, <1>7, ShrinkKeeps DEF RequestFails, Idle, TypeOK
<1>8. ASSUME NEW t \in Tokens, logout(t) PROVE IInv'
  BY <1>0, <1>8, ShrinkKeeps DEF logout, revoked, TypeOK
<1>9. ASSUME NEW t \in Tokens, TokenExpires(t) PROVE IInv'
  BY <1>0, <1>9, ShrinkKeeps DEF TokenExpires
<1>10. ASSUME NEW t \in Tokens, deleteStaleRefreshTokens(t) PROVE IInv'
  BY <1>0, <1>10, ShrinkKeeps DEF deleteStaleRefreshTokens, TypeOK
<1>11. ASSUME NEW a \in BOOLEAN, SetActive(a) PROVE IInv'
  <2>1. UNCHANGED <<tok, family, parent, op, started>> /\ late' = [f \in Families |-> 0]
    BY <1>11 DEF SetActive
  <2>2. Bitten'
    BY <1>0, <2>1, SMT DEF IInv, Bitten, TypeOK
  <2>3. OneHead' /\ Started' /\ OneChild'
    BY <2>1 DEF IInv, OneHead, Started, OneChild, InFlight, Issued
  <2> QED BY <1>0, <2>2, <2>3 DEF IInv
<1> QED BY <1>1, <1>2, <1>3, <1>4, <1>5, <1>6, <1>7, <1>8, <1>9, <1>10, <1>11 DEF SessionsNext

\* A session is one chain, for any number of requests racing on any token.
THEOREM OneChainHolds == SessionsSpec => []OneChain
<1>1. IInv => OneChain
  BY DEF IInv, OneHead, OneChild, OneChain, Issued
<1> QED BY <1>1, IInit, INext, PTL DEF SessionsSpec

\* A deactivated account renews a session once at most.
THEOREM RenewedOnceAtMostHolds == SessionsSpec => []RenewedOnceAtMost
<1>1. IInv => RenewedOnceAtMost
  BY DEF IInv, Bitten, RenewedOnceAtMost
<1> QED BY <1>1, IInit, INext, PTL DEF SessionsSpec


-----------------------------------------------------------------------------
(* KillChannel.                                                             *)

SocketPhases == {"closed", "verified", "admitted", "joined"}

ChannelTypeOK ==
    /\ now \in Nat
    /\ active \in [StaffIds -> BOOLEAN]
    /\ since \in [StaffIds -> Nat]
    /\ checked \in [Jtis -> Nat \cup {None}]
    /\ minted \in [Jtis -> Nat \cup {None}]
    /\ deny \in [Names -> Nat]
    /\ announcing \in [Names -> {None, "set", "publish"}]
    /\ kills \in SUBSET (Instances \X Names)
    /\ sock \in [Sockets -> [token : Jtis \cup {None}, phase : SocketPhases]]
    /\ cut \in SUBSET Jtis
    /\ restarts \in Nat

\* The socket of a handshake has a token that was signed.
SocketsOK ==
    \A s \in Sockets :
        sock[s].phase # "closed" => sock[s].token \in Jtis /\ minted[sock[s].token] # None

LEMMA ChannelTypeInit == ChannelInit => ChannelTypeOK /\ SocketsOK
  BY ChannelAssumption, SMT DEF ChannelInit, ChannelTypeOK, SocketsOK, SocketPhases, closed, Names

LEMMA ChannelTypeNext ==
    ChannelTypeOK /\ SocketsOK /\ [ChannelNext]_channelVars => ChannelTypeOK' /\ SocketsOK'
<1> SUFFICES ASSUME ChannelTypeOK, SocketsOK, [ChannelNext]_channelVars PROVE ChannelTypeOK' /\ SocketsOK'
  OBVIOUS
<1> USE ChannelAssumption DEF ChannelTypeOK, SocketsOK
<1>1. CASE UNCHANGED channelVars
  BY <1>1 DEF channelVars
<1>2. ASSUME NEW k \in Jtis, checkActive(k) PROVE ChannelTypeOK' /\ SocketsOK'
  BY <1>2 DEF checkActive
<1>3. ASSUME NEW k \in Jtis, issue(k) PROVE ChannelTypeOK' /\ SocketsOK'
  BY <1>3 DEF issue
<1>4. ASSUME NEW k \in Jtis, revokeToken(k) PROVE ChannelTypeOK' /\ SocketsOK'
  BY <1>4 DEF revokeToken, Announce, Names
<1>5. ASSUME NEW u \in StaffIds, revokeUser(u) PROVE ChannelTypeOK' /\ SocketsOK'
  BY <1>5, SMT DEF revokeUser, Announce, Names
<1>6. ASSUME NEW n \in Names, setDenied(n) PROVE ChannelTypeOK' /\ SocketsOK'
  BY <1>6, SMT DEF setDenied
<1>7. ASSUME NEW n \in Names, publish(n) PROVE ChannelTypeOK' /\ SocketsOK'
  BY <1>7 DEF publish
<1>8. ASSUME NEW n \in Names, retry(n) \/ giveUp(n) PROVE ChannelTypeOK' /\ SocketsOK'
  BY <1>8 DEF retry, giveUp
<1>9. ASSUME NEW s \in Sockets, NEW k \in Jtis, verify(s, k) PROVE ChannelTypeOK' /\ SocketsOK'
  BY <1>9 DEF verify, verifies, SocketPhases
<1>10. ASSUME NEW s \in Sockets, isRevoked(s) PROVE ChannelTypeOK' /\ SocketsOK'
  BY <1>10, SMT DEF isRevoked, closed, SocketPhases
<1>11. ASSUME NEW s \in Sockets, handleConnection(s) PROVE ChannelTypeOK' /\ SocketsOK'
  BY <1>11, SMT DEF handleConnection, SocketPhases
<1>12. ASSUME NEW s \in Sockets, Disconnect(s) PROVE ChannelTypeOK' /\ SocketsOK'
  BY <1>12 DEF Disconnect, closed, SocketPhases
<1>13. ASSUME NEW i \in Instances, NEW n \in Names, onRevocation(i, n)
       PROVE ChannelTypeOK' /\ SocketsOK'
  <2>1. {sock[s].token : s \in room(i, n)} \subseteq Jtis
    BY SMT DEF room
  <2> QED BY <1>13, <2>1 DEF onRevocation, closed, SocketPhases
<1>14. ASSUME Tick PROVE ChannelTypeOK' /\ SocketsOK'
  BY <1>14, SMT DEF Tick
<1>15. ASSUME RedisRestarts PROVE ChannelTypeOK' /\ SocketsOK'
  BY <1>15, SMT DEF RedisRestarts
<1> QED BY <1>1, <1>2, <1>3, <1>4, <1>5, <1>6, <1>7, <1>8, <1>9, <1>10, <1>11, <1>12,
            <1>13, <1>14, <1>15 DEF ChannelNext

\* A token is signed within SignLatency of the moment its account was found active,
\* and an account that is inactive has been so ever since.
SignedInTime ==
    \A k \in Jtis :
        /\ checked[k] # None =>
              /\ checked[k] <= now
              /\ minted[k] = None => now <= checked[k] + SignLatency
              /\ ~active[Owner[k]] => checked[k] <= since[Owner[k]]
        /\ minted[k] # None =>
              /\ checked[k] # None
              /\ minted[k] <= now /\ minted[k] <= checked[k] + SignLatency

LEMMA SignedInit == ChannelInit => SignedInTime
  BY DEF ChannelInit, SignedInTime

LEMMA SignedNext == ChannelTypeOK /\ SignedInTime /\ [ChannelNext]_channelVars => SignedInTime'
<1> SUFFICES ASSUME ChannelTypeOK, SignedInTime, [ChannelNext]_channelVars PROVE SignedInTime'
  OBVIOUS
<1> USE ChannelAssumption DEF ChannelTypeOK, SignedInTime
<1>1. CASE UNCHANGED <<now, active, since, checked, minted>>
  BY <1>1
<1>2. ASSUME NEW k \in Jtis, checkActive(k) PROVE SignedInTime'
  BY <1>2, SMT DEF checkActive
<1>3. ASSUME NEW k \in Jtis, issue(k) PROVE SignedInTime'
  BY <1>3, SMT DEF issue
<1>4. ASSUME NEW u \in StaffIds, revokeUser(u) PROVE SignedInTime'
  BY <1>4, SMT DEF revokeUser
<1>5. ASSUME Tick PROVE SignedInTime'
  BY <1>5, SMT DEF Tick
<1> QED
  BY <1>1, <1>2, <1>3, <1>4, <1>5
  DEF ChannelNext, channelVars, revokeToken, setDenied, publish, retry, giveUp, verify, isRevoked,
      handleConnection, onRevocation, Disconnect, RedisRestarts

LEMMA SignedImplies == ChannelTypeOK /\ SignedInTime => AccessEndsWithToken
  BY ChannelAssumption, SMT DEF ChannelTypeOK, SignedInTime, AccessEndsWithToken, verifies

\* While Redis keeps its keys: a kill message travels with a whole token lifetime left
\* in the denylist, so a token it has cut is denied for as long as it verifies.
CutIsDenied ==
    restarts = 0 =>
        /\ \A n \in Names :
              announcing[n] = "publish" \/ (\E i \in Instances : <<i, n>> \in kills)
                  => deny[n] = now + TTL
        /\ \A k \in cut : minted[k] # None /\ \E n \in NamesOf(k) : minted[k] + TTL <= deny[n]

LEMMA CutInit == ChannelInit => CutIsDenied
  BY ChannelAssumption DEF ChannelInit, CutIsDenied, Names

LEMMA CutNext ==
    ChannelTypeOK /\ SocketsOK /\ SignedInTime /\ CutIsDenied /\ [ChannelNext]_channelVars => CutIsDenied'
<1> SUFFICES ASSUME ChannelTypeOK, SocketsOK, SignedInTime, CutIsDenied, [ChannelNext]_channelVars
             PROVE  CutIsDenied'
  OBVIOUS
<1> USE ChannelAssumption DEF ChannelTypeOK, CutIsDenied, NamesOf
<1>1. CASE UNCHANGED <<now, minted, deny, announcing, kills, cut, restarts>>
  BY <1>1
<1>2. ASSUME NEW k \in Jtis, issue(k) PROVE CutIsDenied'
  BY <1>2 DEF issue
<1>3. ASSUME NEW n \in Names, Announce(n), UNCHANGED <<now, minted, deny, kills, cut, restarts>>
      PROVE CutIsDenied'
  BY <1>3 DEF Announce
<1>4. ASSUME NEW n \in Names, setDenied(n) PROVE CutIsDenied'
  <2>1. /\ deny' = [deny EXCEPT ![n] = now + TTL]
        /\ announcing' = [announcing EXCEPT ![n] = "publish"]
        /\ UNCHANGED <<now, minted, kills, cut, restarts>>
    BY <1>4 DEF setDenied
  <2>2. ASSUME restarts = 0, NEW k \in cut
        PROVE  minted[k] # None /\ \E m \in {k, Owner[k]} : minted[k] + TTL <= deny'[m]
    <3>1. k \in Jtis /\ minted[k] # None /\ minted[k] \in Nat /\ minted[k] + TTL <= now + TTL
      BY <2>2, SMT DEF SignedInTime
    <3>2. PICK m \in {k, Owner[k]} : minted[k] + TTL <= deny[m]
      BY <2>2
    <3>3. m \in Names
      BY <3>1, <3>2, SMT DEF Names
    <3>4. minted[k] + TTL <= deny'[m]
      BY <2>1, <3>1, <3>2, <3>3
    <3> QED BY <3>1, <3>4
  <2>3. ASSUME NEW m \in Names PROVE deny'[m] = IF m = n THEN now + TTL ELSE deny[m]
    BY <2>1
  <2> QED BY <2>1, <2>2, <2>3
<1>5. ASSUME NEW n \in Names, publish(n) PROVE CutIsDenied'
  BY <1>5 DEF publish
<1>6. ASSUME NEW n \in Names, retry(n) \/ giveUp(n) PROVE CutIsDenied'
  BY <1>6 DEF retry, giveUp
<1>7. ASSUME NEW i \in Instances, NEW n \in Names, onRevocation(i, n) PROVE CutIsDenied'
  <2>1. UNCHANGED <<now, minted, deny, announcing, restarts>> /\ kills' \subseteq kills
    BY <1>7 DEF onRevocation
  <2>2. restarts = 0 => deny[n] = now + TTL
    BY <1>7 DEF onRevocation
  <2>3. ASSUME NEW s \in room(i, n)
        PROVE  LET k == sock[s].token IN
               k \in Jtis /\ minted[k] # None /\ minted[k] <= now /\ n \in {k, Owner[k]}
    BY DEF room, SocketsOK, SignedInTime
  <2>4. ASSUME restarts = 0, NEW k \in cut'
        PROVE  minted[k] # None /\ \E m \in {k, Owner[k]} : minted[k] + TTL <= deny[m]
    <3>1. CASE k \in cut
      BY <2>4, <3>1
    <3>2. CASE k \notin cut
      <4>1. PICK s \in room(i, n) : k = sock[s].token
        BY <1>7, <2>4, <3>2 DEF onRevocation
      <4>2. minted[k] # None /\ minted[k] <= now /\ n \in {k, Owner[k]} /\ k \in Jtis
        BY <2>3, <4>1
      <4>3. minted[k] \in Nat /\ minted[k] + TTL <= now + TTL
        BY <4>2, SMT
      <4> QED BY <2>2, <2>4, <4>2, <4>3
    <3> QED BY <3>1, <3>2
  <2> QED BY <2>1, <2>4
<1>8. ASSUME Tick PROVE CutIsDenied'
  BY <1>8 DEF Tick
<1>9. ASSUME RedisRestarts PROVE CutIsDenied'
  BY <1>9, SMT DEF RedisRestarts
<1> QED
  BY <1>1, <1>2, <1>3, <1>4, <1>5, <1>6, <1>7, <1>8, <1>9
  DEF ChannelNext, channelVars, checkActive, revokeToken, revokeUser, verify, isRevoked,
      handleConnection, Disconnect, Names

LEMMA NoReadmission ==
    ChannelTypeOK /\ SocketsOK /\ CutIsDenied /\ [ChannelNext]_channelVars /\ restarts = 0 => ~ReadmittedAfterCut
<1> SUFFICES ASSUME ChannelTypeOK, SocketsOK, CutIsDenied, [ChannelNext]_channelVars, restarts = 0,
                    NEW s \in Sockets,
                    sock[s].phase = "verified", sock'[s].phase = "admitted",
                    verifies(sock[s].token), sock[s].token \in cut
             PROVE  FALSE
  BY DEF ReadmittedAfterCut
<1>1. sock[s].token \in Jtis
  BY DEF SocketsOK
<1>2. denied(sock[s].token)
  BY <1>1, ChannelAssumption, SMT DEF CutIsDenied, denied, verifies, ChannelTypeOK, NamesOf, Names
<1> USE DEF ChannelTypeOK
<1>3. CASE UNCHANGED sock
  BY <1>3
<1>4. ASSUME NEW t \in Sockets, NEW k \in Jtis, verify(t, k) PROVE FALSE
  BY <1>4 DEF verify
<1>5. ASSUME NEW t \in Sockets, isRevoked(t) PROVE FALSE
  BY <1>2, <1>5 DEF isRevoked, closed
<1>6. ASSUME NEW t \in Sockets, handleConnection(t) \/ Disconnect(t) PROVE FALSE
  BY <1>6, SMT DEF handleConnection, Disconnect, closed
<1>7. ASSUME NEW i \in Instances, NEW n \in Names, onRevocation(i, n) PROVE FALSE
  BY <1>7 DEF onRevocation, closed
<1> QED
  BY <1>3, <1>4, <1>5, <1>6, <1>7
  DEF ChannelNext, channelVars, checkActive, issue, revokeToken, revokeUser, setDenied, publish, retry,
      giveUp, Tick, RedisRestarts

\* A deactivated account has no token that verifies once a token lifetime and the time
\* it takes to sign one have passed, also when Redis lost the denylist in between
\* (checkActive before issue, revokeUser).
THEOREM AccessEndsWithTokenHolds == ChannelSpec => []AccessEndsWithToken
<1> DEFINE Inv == ChannelTypeOK /\ SocketsOK /\ SignedInTime
<1>1. ChannelInit => Inv
  BY ChannelTypeInit, SignedInit
<1>2. Inv /\ [ChannelNext]_channelVars => Inv'
  BY ChannelTypeNext, SignedNext
<1>3. Inv => AccessEndsWithToken
  BY SignedImplies
<1> QED BY <1>1, <1>2, <1>3, PTL DEF ChannelSpec

\* While Redis keeps its keys, no handshake admits a token that lost a socket to a kill
\* and still verifies, on any instance (setDenied before publish, isRevoked after
\* verify).
THEOREM NoReturnAfterCutHolds == ChannelSpec => NoReturnAfterCut
<1> DEFINE Inv == ChannelTypeOK /\ SocketsOK /\ SignedInTime /\ CutIsDenied
           NoReturn == restarts = 0 => ~ReadmittedAfterCut
<1>1. ChannelInit => Inv
  BY ChannelTypeInit, SignedInit, CutInit
<1>2. Inv /\ [ChannelNext]_channelVars => Inv'
  BY ChannelTypeNext, SignedNext, CutNext
<1>3. Inv /\ [ChannelNext]_channelVars => NoReturn
  BY NoReadmission
<1>4. ChannelSpec => [][NoReturn]_channelVars
  BY <1>1, <1>2, <1>3, PTL DEF ChannelSpec
<1> QED BY <1>4 DEF NoReturnAfterCut

=============================================================================

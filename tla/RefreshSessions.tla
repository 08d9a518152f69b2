-------------------------- MODULE RefreshSessions --------------------------
(***************************************************************************)
(* AuthService: the refresh tokens of one staff account.  A login starts a *)
(* family; a refresh retires the token it is given and issues its child in *)
(* separate statements; a retired token that comes back, or a logout, ends *)
(* the family.  Any number of requests are in flight at once.              *)
(***************************************************************************)
EXTENDS Absent, Naturals

CONSTANTS
    Tokens,    \* refresh tokens that will ever be issued
    Families,  \* family ids
    Requests   \* logins and refreshes in flight

VARIABLES
    tok,       \* refresh_tokens: revoked_at, and whether the row exists
    family,    \* refresh_tokens.family_id
    parent,    \* the token a token was rotated from, None after a login
    expired,   \* tokens past expires_at
    isActive,  \* users.is_active of the account
    op,        \* how far a request has come, for which family and token
    started,   \* families some login has started
    ended,     \* families a logout or a reuse has revoked
    late       \* per family, tokens issued since the account was deactivated

sessionVars == <<tok, family, parent, expired, isActive, op, started, ended, late>>

Idle == [phase |-> "idle", family |-> None, parent |-> None]

InFlight(r) == op[r].phase \in {"retired", "checked"}

ASSUME NoneAssumption == None \notin Tokens /\ None \notin Families

-----------------------------------------------------------------------------
\* login, up to the point where the password and the account were found good.
login(r, f) ==
    /\ op[r] = Idle /\ f \notin started /\ isActive
    /\ started' = started \cup {f}
    /\ op' = [op EXCEPT ![r] = [phase |-> "checked", family |-> f, parent |-> None]]
    /\ UNCHANGED <<tok, family, parent, expired, isActive, ended, late>>

\* MUTANT of retire: the token is looked up, and retired whether or not another
\* request already has.
retireUnguarded(r, t) ==
    /\ op[r] = Idle /\ tok[t] \in {"live", "revoked"}
    /\ tok' = [tok EXCEPT ![t] = "revoked"]
    /\ op' = [op EXCEPT ![r] = [phase |-> "retired", family |-> family[t], parent |-> t]]
    /\ UNCHANGED <<family, parent, expired, isActive, started, ended, late>>

\* refresh, the guarded UPDATE: one request retires a live token; the others
\* match no row.
retire(r, t) ==
    /\ op[r] = Idle /\ tok[t] \in {"live", "revoked"}
    /\ tok' = [tok EXCEPT ![t] = "revoked"]
    /\ op' = [op EXCEPT ![r] = [phase |-> IF tok[t] = "live" THEN "retired" ELSE "reused",
                                family |-> family[t], parent |-> t]]
    /\ UNCHANGED <<family, parent, expired, isActive, started, ended, late>>

revoked(f) == [t \in Tokens |-> IF tok[t] = "live" /\ family[t] = f THEN "revoked" ELSE tok[t]]

\* revokeFamilyOfReplayedToken: the row is looked for and its family revoked.
revokeFamilyOfReplayedToken(r) ==
    /\ op[r].phase = "reused"
    /\ tok' = revoked(op[r].family)
    /\ ended' = ended \cup {op[r].family}
    /\ op' = [op EXCEPT ![r] = Idle]
    /\ UNCHANGED <<family, parent, expired, isActive, started, late>>

\* MUTANT of checkUser: the account is not read again.
checkUserNot(r) ==
    /\ op[r].phase = "retired"
    /\ op' = [op EXCEPT ![r] = IF op[r].parent \in expired THEN Idle
                              ELSE [@ EXCEPT !.phase = "checked"]]
    /\ UNCHANGED <<tok, family, parent, expired, isActive, started, ended, late>>

\* An expired token or a deactivated account ends the refresh, and the token
\* stays retired.
checkUser(r) ==
    /\ op[r].phase = "retired"
    /\ op' = [op EXCEPT ![r] = IF op[r].parent \in expired \/ ~isActive THEN Idle
                              ELSE [@ EXCEPT !.phase = "checked"]]
    /\ UNCHANGED <<tok, family, parent, expired, isActive, started, ended, late>>

\* The access token is signed and the child inserted.
issuePair(r, t) ==
    /\ op[r].phase = "checked" /\ tok[t] = "unissued"
    /\ tok' = [tok EXCEPT ![t] = "live"]
    /\ family' = [family EXCEPT ![t] = op[r].family]
    /\ parent' = [parent EXCEPT ![t] = op[r].parent]
    /\ late' = [late EXCEPT ![op[r].family] = IF isActive THEN @ ELSE @ + 1]
    /\ op' = [op EXCEPT ![r] = Idle]
    /\ UNCHANGED <<expired, isActive, started, ended>>

\* A statement fails or the instance dies.
RequestFails(r) ==
    /\ op[r] # Idle
    /\ op' = [op EXCEPT ![r] = Idle]
    /\ UNCHANGED <<tok, family, parent, expired, isActive, started, ended, late>>

\* logout presents a token of the session it ends.
logout(t) ==
    /\ tok[t] \in {"live", "revoked"}
    /\ tok' = revoked(family[t])
    /\ ended' = ended \cup {family[t]}
    /\ UNCHANGED <<family, parent, expired, isActive, op, started, late>>

\* UsersService.update
SetActive(a) ==
    /\ isActive # a
    /\ isActive' = a
    /\ late' = [f \in Families |-> 0]
    /\ UNCHANGED <<tok, family, parent, expired, op, started, ended>>

TokenExpires(t) ==
    /\ tok[t] = "live" /\ t \notin expired
    /\ expired' = expired \cup {t}
    /\ UNCHANGED <<tok, family, parent, isActive, op, started, ended, late>>

\* RetentionService.deleteStaleRefreshTokens, weeks after any request on it.
deleteStaleRefreshTokens(t) ==
    /\ tok[t] = "revoked" \/ (tok[t] = "live" /\ t \in expired)
    /\ \A r \in Requests : op[r].parent # t
    /\ tok' = [tok EXCEPT ![t] = "deleted"]
    /\ UNCHANGED <<family, parent, expired, isActive, op, started, ended, late>>

-----------------------------------------------------------------------------
SessionsInit ==
    /\ tok = [t \in Tokens |-> "unissued"]
    /\ family = [t \in Tokens |-> None]
    /\ parent = [t \in Tokens |-> None]
    /\ expired = {}
    /\ isActive = TRUE
    /\ op = [r \in Requests |-> Idle]
    /\ started = {} /\ ended = {}
    /\ late = [f \in Families |-> 0]

SessionsNext ==
    \/ \E r \in Requests, f \in Families : login(r, f)
    \/ \E r \in Requests, t \in Tokens : retire(r, t) \/ issuePair(r, t)
    \/ \E r \in Requests : revokeFamilyOfReplayedToken(r) \/ checkUser(r) \/ RequestFails(r)
    \/ \E t \in Tokens : logout(t) \/ TokenExpires(t) \/ deleteStaleRefreshTokens(t)
    \/ \E a \in BOOLEAN : SetActive(a)

SessionsSpec == SessionsInit /\ [][SessionsNext]_sessionVars

TypeOK ==
    /\ tok \in [Tokens -> {"unissued", "live", "revoked", "deleted"}]
    /\ family \in [Tokens -> Families \cup {None}]
    /\ parent \in [Tokens -> Tokens \cup {None}]
    /\ expired \subseteq Tokens
    /\ isActive \in BOOLEAN
    /\ op \in [Requests -> [phase : {"idle", "retired", "reused", "checked"},
                            family : Families \cup {None}, parent : Tokens \cup {None}]]
    /\ \A r \in Requests : op[r].phase # "idle" => op[r].family # None
    /\ \A t \in Tokens : tok[t] # "unissued" => family[t] # None
    /\ started \subseteq Families /\ ended \subseteq Families
    /\ late \in [Families -> Nat]

\* A session is one chain: however many refreshes race on a token, it has one
\* child at most, and a family never has two live tokens ("two requests racing
\* on the same token cannot both mint a child").
OneChain ==
    \A s, t \in Tokens :
        s # t /\ tok[s] # "unissued" /\ tok[t] # "unissued" =>
            /\ parent[s] = parent[t] => parent[s] = None
            /\ tok[s] = "live" /\ tok[t] = "live" => family[s] # family[t]

\* A deactivated account renews a session once at most, with the request that
\* was in flight ("deactivation has to bite here as well as at login").
RenewedOnceAtMost == \A f \in Families : late[f] <= 1

\* Once a family was revoked, by a logout or a reuse, it has no live token
\* ("the family is revoked, so the session cannot be renewed whatever happens
\* here").  A refresh in flight has no token to revoke yet.
\* Not guaranteed by the code: the README tells how it fails.
EndedStaysEnded == \A t \in Tokens : tok[t] = "live" => family[t] \notin ended

=============================================================================

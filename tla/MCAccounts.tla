----------------------------- MODULE MCAccounts ----------------------------
(* The staff side of identity, checked in one run: refresh sessions           *)
(* (RefreshSessions), changes to staff accounts (StaffAccounts), the limits   *)
(* on signing in (LoginLimits) and the end of a session that holds a socket   *)
(* (KillChannel).  No module reads another's variables: turn is chosen once,  *)
(* the component it names runs its whole specification and the others keep    *)
(* their initial state, in which their invariants hold.                       *)
EXTENDS RefreshSessions, StaffAccounts, LoginLimits, KillChannel

CONSTANTS user, jti, s1, s2, i1, i2

\* One member of staff with one access token, a socket on each of two instances.
MCStaffIds == {user}
MCJtis == {jti}
MCSockets == {s1, s2}
MCInstances == {i1, i2}
MCOwner == [k \in MCJtis |-> user]
MCHome == [s \in MCSockets |-> IF s = s1 THEN i1 ELSE i2]

VARIABLE turn

AccountsInit ==
    /\ turn \in {"sessions", "staff", "limits", "channel"}
    /\ SessionsInit /\ StaffInit /\ LimitsInit /\ ChannelInit
    \* one initial state is enough of a component that does not move
    /\ turn # "staff" => \A u \in Users : account[u] = [role |-> "ADMIN", isActive |-> TRUE]

AccountsNext ==
    \/ turn = "sessions" /\ SessionsNext /\ UNCHANGED <<turn, staffVars, limitVars, channelVars>>
    \/ turn = "staff" /\ StaffNext /\ UNCHANGED <<turn, sessionVars, limitVars, channelVars>>
    \/ turn = "limits" /\ LimitsNext /\ UNCHANGED <<turn, sessionVars, staffVars, channelVars>>
    \/ turn = "channel" /\ ChannelNext /\ UNCHANGED <<turn, sessionVars, staffVars, limitVars>>

AccountsSpec ==
    AccountsInit /\ [][AccountsNext]_<<turn, sessionVars, staffVars, limitVars, channelVars>>

=============================================================================

--------------------------- MODULE StaffAccounts ---------------------------
(***************************************************************************)
(* UsersService.update: changes to the role or the activity of staff       *)
(* accounts, and the guard that keeps one active ADMIN.  A change is a     *)
(* READ COMMITTED transaction of several statements: SELECT ... FOR UPDATE *)
(* over the active admins, a read of the account, a count of the other     *)
(* admins, and the UPDATE, which commits.  A locking SELECT fixes its rows *)
(* when it starts, locks them one by one in id order, and drops a row that *)
(* no longer matches when its lock is granted.                             *)
(***************************************************************************)
EXTENDS Naturals, FiniteSets, FiniteSetsExt

CONSTANTS
    N,        \* users.id is 1..N
    Changes,  \* PATCH /users/:id requests in flight
    Unset     \* a field the request leaves alone: neither a role nor a Boolean

ASSUME StaffAssumption ==
    /\ N \in Nat \ {0}
    /\ Unset \notin {"ADMIN", "STAFF"} /\ Unset \notin BOOLEAN

Users == 1..N

VARIABLES
    account,  \* users: role and isActive
    req,      \* what a change asks for
    phase,    \* its next statement
    queue,    \* rows its SELECT has still to lock
    locks,    \* rows it has locked
    current   \* the account as it read it

staffVars == <<account, req, phase, queue, locks, current>>

Accounts == [role : {"ADMIN", "STAFF"}, isActive : BOOLEAN]
Updates == [id : Users, role : {"ADMIN", "STAFF", Unset}, isActive : BOOLEAN \cup {Unset}]

isAdmin(a) == a.role = "ADMIN" /\ a.isActive

Admins == {u \in Users : isAdmin(account[u])}

\* `changes.role ?? current.role`
apply(r, a) ==
    [role |-> IF r.role = Unset THEN a.role ELSE r.role,
     isActive |-> IF r.isActive = Unset THEN a.isActive ELSE r.isActive]

LockedByOther(c, u) == \E d \in Changes \ {c} : u \in locks[d]

-----------------------------------------------------------------------------
\* MUTANT of BeginUpdate: the admins are read without FOR UPDATE.
BeginUpdateUnlocked(c, r) ==
    /\ phase[c] = "idle"
    /\ req' = [req EXCEPT ![c] = r]
    /\ phase' = [phase EXCEPT ![c] = "read"]
    /\ UNCHANGED <<account, queue, locks, current>>

\* A rename changes neither field and takes the unguarded path.
BeginUpdate(c, r) ==
    /\ phase[c] = "idle"
    /\ r.role # Unset \/ r.isActive # Unset
    /\ req' = [req EXCEPT ![c] = r]
    /\ phase' = [phase EXCEPT ![c] = "lock"]
    /\ queue' = [queue EXCEPT ![c] = Admins]
    /\ UNCHANGED <<account, locks, current>>

\* The next row in id order is granted; the SELECT ends when none is left.
Lock(c) ==
    /\ phase[c] = "lock"
    /\ IF queue[c] = {}
       THEN phase' = [phase EXCEPT ![c] = "read"] /\ UNCHANGED <<queue, locks>>
       ELSE LET u == Min(queue[c]) IN
            /\ ~LockedByOther(c, u)
            /\ queue' = [queue EXCEPT ![c] = @ \ {u}]
            /\ locks' = [locks EXCEPT ![c] = IF u \in Admins THEN @ \cup {u} ELSE @]
            /\ UNCHANGED phase
    /\ UNCHANGED <<account, req, current>>

ReadCurrent(c) ==
    /\ phase[c] = "read"
    /\ current' = [current EXCEPT ![c] = account[req[c].id]]
    /\ phase' = [phase EXCEPT ![c] = "guard"]
    /\ UNCHANGED <<account, req, queue, locks>>

\* guardLastAdmin: a change that removes an active admin needs another one.
guardLastAdmin(c) ==
    /\ phase[c] = "guard"
    /\ LET removes == isAdmin(current[c]) /\ ~isAdmin(apply(req[c], current[c])) IN
       IF removes /\ Admins \ {req[c].id} = {}
       THEN /\ phase' = [phase EXCEPT ![c] = "refused"]
            /\ locks' = [locks EXCEPT ![c] = {}]
       ELSE phase' = [phase EXCEPT ![c] = "write"] /\ UNCHANGED locks
    /\ UNCHANGED <<account, req, queue, current>>

\* The UPDATE waits for whoever has locked the row, writes only the fields the
\* request names, and the transaction commits.
Write(c) ==
    /\ phase[c] = "write"
    /\ ~LockedByOther(c, req[c].id)
    /\ account' = [account EXCEPT ![req[c].id] = apply(req[c], @)]
    /\ phase' = [phase EXCEPT ![c] = "done"]
    /\ locks' = [locks EXCEPT ![c] = {}]
    /\ UNCHANGED <<req, queue, current>>

\* A statement fails or the instance dies: nothing is written.
Abort(c) ==
    /\ phase[c] \in {"lock", "read", "guard", "write"}
    /\ phase' = [phase EXCEPT ![c] = "refused"]
    /\ locks' = [locks EXCEPT ![c] = {}]
    /\ queue' = [queue EXCEPT ![c] = {}]
    /\ UNCHANGED <<account, req, current>>

-----------------------------------------------------------------------------
NoRequest == [id |-> 1, role |-> Unset, isActive |-> Unset]

\* Accounts are in any state with an admin among them.
StaffInit ==
    /\ account \in [Users -> Accounts] /\ Admins # {}
    /\ req = [c \in Changes |-> NoRequest]
    /\ phase = [c \in Changes |-> "idle"]
    /\ queue = [c \in Changes |-> {}]
    /\ locks = [c \in Changes |-> {}]
    /\ current = [c \in Changes |-> account[1]]

StaffNext ==
    \/ \E c \in Changes, r \in Updates : BeginUpdate(c, r)
    \/ \E c \in Changes : Lock(c) \/ ReadCurrent(c) \/ guardLastAdmin(c) \/ Write(c) \/ Abort(c)

StaffSpec == StaffInit /\ [][StaffNext]_staffVars

Promotes(r) == r.role = "ADMIN" \/ r.isActive = TRUE

\* However many demotions and deactivations run at once, someone can still administer
\* the system ("refusing any change that would leave the system with no active
\* ADMIN"): of the admins there were, every change locks the ones that are left.
DemotionsLeaveAnAdmin == (\A c \in Changes : ~Promotes(req[c])) => Admins # {}

\* The same when accounts are promoted or activated meanwhile.
\* Not guaranteed by the code: the README tells how it fails.
SomeAdmin == Admins # {}

WaitsFor(c, d) ==
    \/ phase[c] = "lock" /\ queue[c] # {} /\ Min(queue[c]) \in locks[d]
    \/ phase[c] = "write" /\ req[c].id \in locks[d]

\* Two changes never wait for each other ("locked in a deterministic order so
\* two concurrent demotions queue rather than deadlock").
\* Not guaranteed by the code: the README tells how it fails.
NoMutualWait == \A c, d \in Changes : c # d => ~(WaitsFor(c, d) /\ WaitsFor(d, c))

=============================================================================

--------------------------- MODULE CountingProofs ---------------------------
(* Proofs by counting: the administrators that are left (StaffAccounts), the*)
(* failures of a window (LoginLimits) and the batches of a night            *)
(* (EventRetention), for any number of accounts, changes, addresses,   *)
(* sign-ins, events and runs.                                               *)
EXTENDS StaffAccounts, LoginLimits, EventRetention, FiniteSetTheorems, TLAPS

\* A leaf is first-order reasoning, unless it says that it needs SMT.
USE Zenon

-----------------------------------------------------------------------------
(* StaffAccounts.                                                           *)

ChangePhases == {"idle", "lock", "read", "guard", "write", "done", "refused"}

StaffTypeOK ==
    /\ account \in [Users -> Accounts]
    /\ req \in [Changes -> Updates]
    /\ phase \in [Changes -> ChangePhases]
    /\ queue \in [Changes -> SUBSET Users]
    /\ locks \in [Changes -> SUBSET Users]
    /\ current \in [Changes -> Accounts]

\* A row is locked by one change at a time, and a change that has not begun asks for
\* nothing.
LocksOK ==
    /\ \A c, d \in Changes : c # d => locks[c] \cap locks[d] = {}
    /\ \A c \in Changes : phase[c] = "idle" => req[c] = NoRequest

LEMMA StaffTypeInit == StaffInit => StaffTypeOK /\ LocksOK
<1> USE StaffAssumption
<1>1. 1 \in Users /\ NoRequest \in Updates
  BY SMT DEF Users, NoRequest, Updates
<1> QED BY <1>1, SMT DEF StaffInit, StaffTypeOK, LocksOK, ChangePhases

LEMMA ApplyIsAccount ==
    ASSUME NEW r \in Updates, NEW a \in Accounts PROVE apply(r, a) \in Accounts
  BY StaffAssumption DEF apply, Updates, Accounts

LEMMA StaffTypeNext == StaffTypeOK /\ LocksOK /\ [StaffNext]_staffVars => StaffTypeOK' /\ LocksOK'
<1> SUFFICES ASSUME StaffTypeOK, LocksOK, [StaffNext]_staffVars PROVE StaffTypeOK' /\ LocksOK'
  OBVIOUS
<1> USE DEF StaffTypeOK, LocksOK
<1>0. Admins \in SUBSET Users
  BY DEF Admins
<1>1. CASE UNCHANGED staffVars
  BY <1>1 DEF staffVars
<1>2. ASSUME NEW c \in Changes, NEW r \in Updates, BeginUpdate(c, r) PROVE StaffTypeOK' /\ LocksOK'
  BY <1>0, <1>2 DEF BeginUpdate, ChangePhases
<1>3. ASSUME NEW c \in Changes, Lock(c) PROVE StaffTypeOK' /\ LocksOK'
  <2>1. CASE queue[c] = {}
    BY <1>3, <2>1 DEF Lock, ChangePhases
  <2>2. CASE queue[c] # {}
    <3>1. PICK u :
          /\ ~LockedByOther(c, u)
          /\ queue' = [queue EXCEPT ![c] = @ \ {u}]
          /\ locks' = [locks EXCEPT ![c] = IF u \in Admins THEN @ \cup {u} ELSE @]
          /\ UNCHANGED <<phase, account, req, current>>
      BY <1>3, <2>2 DEF Lock
    <3>2. \A d \in Changes \ {c} : u \notin locks[d]
      BY <3>1 DEF LockedByOther
    <3> QED BY <1>0, <3>1, <3>2, SMT
  <2> QED BY <2>1, <2>2
<1>4. ASSUME NEW c \in Changes, ReadCurrent(c) PROVE StaffTypeOK' /\ LocksOK'
  <2>1. req[c].id \in Users
    BY DEF Updates
  <2> QED BY <1>4, <2>1 DEF ReadCurrent, ChangePhases
<1>5. ASSUME NEW c \in Changes, guardLastAdmin(c) PROVE StaffTypeOK' /\ LocksOK'
  BY <1>5 DEF guardLastAdmin, ChangePhases
<1>6. ASSUME NEW c \in Changes, Write(c) PROVE StaffTypeOK' /\ LocksOK'
  <2>1. req[c].id \in Users
    BY DEF Updates
  <2>2. apply(req[c], account[req[c].id]) \in Accounts
    BY <2>1, ApplyIsAccount
  <2> QED BY <1>6, <2>1, <2>2 DEF Write, ChangePhases
<1>7. ASSUME NEW c \in Changes, Abort(c) PROVE StaffTypeOK' /\ LocksOK'
  BY <1>7 DEF Abort, ChangePhases
<1> QED BY <1>1, <1>2, <1>3, <1>4, <1>5, <1>6, <1>7 DEF StaffNext

\* What the argument needs of one change, while nobody is promoted: it comes to hold
\* every admin row there is; an admin row it has read is as it read it; and a demotion
\* it is about to write leaves another admin.
HoldsAdmins(c) ==
    /\ phase[c] = "lock" => Admins \subseteq locks[c] \cup queue[c]
    /\ phase[c] \in {"read", "guard", "write"} => Admins \subseteq locks[c]
    /\ phase[c] \in {"guard", "write"} /\ req[c].id \in Admins => current[c] = account[req[c].id]
    /\ phase[c] = "write" /\ req[c].id \in Admins /\ ~isAdmin(apply(req[c], account[req[c].id]))
          => Admins \ {req[c].id} # {}

NoPromotion == \A c \in Changes : ~Promotes(req[c])

AdminsHeld == NoPromotion => Admins # {} /\ \A c \in Changes : HoldsAdmins(c)

LEMMA HeldInit == StaffInit => AdminsHeld
  BY DEF StaffInit, AdminsHeld, HoldsAdmins

\* A change that does not promote makes nobody an admin.
LEMMA DemotionDemotes ==
    ASSUME NEW r \in Updates, NEW a \in Accounts, ~Promotes(r), isAdmin(apply(r, a))
    PROVE  isAdmin(a)
  BY StaffAssumption DEF Promotes, isAdmin, apply, Updates, Accounts

LEMMA HeldNext == StaffTypeOK /\ LocksOK /\ AdminsHeld /\ [StaffNext]_staffVars => AdminsHeld'
<1> SUFFICES ASSUME StaffTypeOK, LocksOK, AdminsHeld, [StaffNext]_staffVars, NoPromotion'
             PROVE  (Admins # {})' /\ \A c \in Changes : HoldsAdmins(c)'
  BY DEF AdminsHeld
<1>a. UNCHANGED account => Admins' = Admins
  BY DEF Admins
<1>b. UNCHANGED req => NoPromotion
  BY DEF NoPromotion
<1>c. ASSUME NoPromotion PROVE Admins # {} /\ \A c \in Changes : HoldsAdmins(c)
  BY <1>c DEF AdminsHeld
<1>1. CASE UNCHANGED staffVars
  BY <1>1, <1>a, <1>b, <1>c DEF staffVars, HoldsAdmins
<1>2. ASSUME NEW c \in Changes, NEW r \in Updates, BeginUpdate(c, r)
      PROVE  (Admins # {})' /\ \A d \in Changes : HoldsAdmins(d)'
  <2>1. /\ phase[c] = "idle" /\ req' = [req EXCEPT ![c] = r]
        /\ phase' = [phase EXCEPT ![c] = "lock"] /\ queue' = [queue EXCEPT ![c] = Admins]
        /\ UNCHANGED <<account, locks, current>>
    BY <1>2 DEF BeginUpdate
  <2>2. ~Promotes(NoRequest)
    BY StaffAssumption DEF Promotes, NoRequest
  <2>3. NoPromotion
    <3> SUFFICES ASSUME NEW d \in Changes PROVE ~Promotes(req[d])
      BY DEF NoPromotion
    <3>1. CASE d = c
      BY <2>1, <2>2, <3>1 DEF LocksOK
    <3>2. CASE d # c
      BY <2>1, <3>2 DEF NoPromotion, StaffTypeOK
    <3> QED BY <3>1, <3>2
  <2>4. Admins' = Admins /\ Admins # {} /\ \A d \in Changes : HoldsAdmins(d)
    BY <1>a, <1>c, <2>1, <2>3
  <2> QED BY <2>1, <2>4 DEF HoldsAdmins, StaffTypeOK
<1>3. ASSUME NEW c \in Changes, Lock(c)
      PROVE  (Admins # {})' /\ \A d \in Changes : HoldsAdmins(d)'
  <2>1. UNCHANGED <<account, req, current>>
    BY <1>3 DEF Lock
  <2>2. Admins' = Admins /\ Admins # {} /\ \A d \in Changes : HoldsAdmins(d)
    BY <1>a, <1>b, <1>c, <2>1
  <2>3. CASE queue[c] = {}
    BY <1>3, <2>1, <2>2, <2>3, SMT DEF Lock, HoldsAdmins, StaffTypeOK
  <2>4. CASE queue[c] # {}
    <3>1. PICK u :
          /\ queue' = [queue EXCEPT ![c] = @ \ {u}] /\ phase[c] = "lock"
          /\ locks' = [locks EXCEPT ![c] = IF u \in Admins THEN @ \cup {u} ELSE @]
          /\ UNCHANGED phase
      BY <1>3, <2>4 DEF Lock
    <3> QED BY <2>1, <2>2, <3>1, SMT DEF HoldsAdmins, StaffTypeOK
  <2> QED BY <2>3, <2>4
<1>4. ASSUME NEW c \in Changes, ReadCurrent(c)
      PROVE  (Admins # {})' /\ \A d \in Changes : HoldsAdmins(d)'
  <2>1. /\ phase[c] = "read" /\ current' = [current EXCEPT ![c] = account[req[c].id]]
        /\ phase' = [phase EXCEPT ![c] = "guard"] /\ UNCHANGED <<account, req, queue, locks>>
    BY <1>4 DEF ReadCurrent
  <2>2. Admins' = Admins /\ Admins # {} /\ \A d \in Changes : HoldsAdmins(d)
    BY <1>a, <1>b, <1>c, <2>1
  <2> QED BY <2>1, <2>2 DEF HoldsAdmins, StaffTypeOK
<1>5. ASSUME NEW c \in Changes, guardLastAdmin(c)
      PROVE  (Admins # {})' /\ \A d \in Changes : HoldsAdmins(d)'
  <2>1. UNCHANGED <<account, req, queue, current>> /\ phase[c] = "guard"
    BY <1>5 DEF guardLastAdmin
  <2>2. Admins' = Admins /\ Admins # {} /\ \A d \in Changes : HoldsAdmins(d)
    BY <1>a, <1>b, <1>c, <2>1
  <2>3. req[c].id \in Admins => current[c] = account[req[c].id] /\ isAdmin(current[c])
    BY <2>1, <2>2 DEF HoldsAdmins, Admins
  <2>4. CASE phase' = [phase EXCEPT ![c] = "refused"] /\ locks' = [locks EXCEPT ![c] = {}]
    BY <2>1, <2>2, <2>4 DEF HoldsAdmins, StaffTypeOK
  <2>5. CASE /\ phase' = [phase EXCEPT ![c] = "write"] /\ UNCHANGED locks
             /\ ~(/\ isAdmin(current[c]) /\ ~isAdmin(apply(req[c], current[c]))
                  /\ Admins \ {req[c].id} = {})
    BY <2>1, <2>2, <2>3, <2>5 DEF HoldsAdmins, StaffTypeOK
  <2> QED BY <1>5, <2>4, <2>5 DEF guardLastAdmin
<1>6. ASSUME NEW c \in Changes, Write(c)
      PROVE  (Admins # {})' /\ \A d \in Changes : HoldsAdmins(d)'
  <2> DEFINE id == req[c].id
             new == apply(req[c], account[id])
  <2>1. /\ phase[c] = "write" /\ ~LockedByOther(c, id)
        /\ account' = [account EXCEPT ![id] = new]
        /\ phase' = [phase EXCEPT ![c] = "done"] /\ locks' = [locks EXCEPT ![c] = {}]
        /\ UNCHANGED <<req, queue, current>>
    BY <1>6 DEF Write
  <2>2. /\ id \in Users /\ new \in Accounts /\ account[id] \in Accounts
        /\ ~Promotes(req[c]) /\ req[c] \in Updates
    <3>1. req[c] \in Updates /\ id \in Users
      BY DEF StaffTypeOK, Updates
    <3> QED BY <1>b, <2>1, <3>1, ApplyIsAccount DEF StaffTypeOK, NoPromotion
  <2>3. Admins # {} /\ \A d \in Changes : HoldsAdmins(d)
    BY <1>b, <1>c, <2>1
  <2>4. Admins' = IF isAdmin(new) THEN Admins \cup {id} ELSE Admins \ {id}
    <3> HIDE DEF id, new
    <3> QED BY <2>1, <2>2 DEF Admins, StaffTypeOK
  <2>5. isAdmin(new) => id \in Admins
    BY <2>2, DemotionDemotes DEF Admins
  <2>6. Admins' \subseteq Admins /\ Admins' # {}
    <3>1. isAdmin(new) => Admins' = Admins
      BY <2>4, <2>5
    <3>2. ~isAdmin(new) => Admins' = Admins \ {id}
      BY <2>4
    <3>3. ~isAdmin(new) => Admins \ {id} # {}
      BY <2>1, <2>3, SMT DEF HoldsAdmins
    <3> HIDE DEF id, new
    <3> QED BY <2>3, <3>1, <3>2, <3>3
  \* Another change past its locks holds every admin row: the row that is written is
  \* not one, and the admins stay as they are.
  <2>7. ASSUME NEW d \in Changes, d # c PROVE HoldsAdmins(d)'
    <3>1. phase'[d] = phase[d] /\ locks'[d] = locks[d] /\ UNCHANGED <<req, queue, current>>
      BY <2>1, <2>7 DEF StaffTypeOK
    <3>2. id \notin locks[d]
      BY <2>1, <2>7 DEF LockedByOther
    <3>3. CASE phase[d] \in {"read", "guard", "write"}
      <4>1. id \notin Admins
        BY <2>3, <3>2, <3>3 DEF HoldsAdmins
      <4>2. Admins' = Admins
        BY <2>4, <2>5, <4>1
      <4>3. req[d].id \in Admins => account'[req[d].id] = account[req[d].id]
        BY <2>1, <4>1 DEF StaffTypeOK, Admins
      <4> HIDE DEF id, new
      <4> QED BY <2>3, <3>1, <3>3, <4>2, <4>3 DEF HoldsAdmins
    <3>4. CASE phase[d] \notin {"read", "guard", "write"}
      <4> HIDE DEF id, new
      <4> QED BY <2>3, <2>6, <3>1, <3>4 DEF HoldsAdmins
    <3> QED BY <3>3, <3>4
  <2>8. HoldsAdmins(c)'
    BY <2>1 DEF HoldsAdmins, StaffTypeOK
  <2> QED BY <2>6, <2>7, <2>8
<1>7. ASSUME NEW c \in Changes, Abort(c)
      PROVE  (Admins # {})' /\ \A d \in Changes : HoldsAdmins(d)'
  <2>1. /\ UNCHANGED <<account, req, current>> /\ phase' = [phase EXCEPT ![c] = "refused"]
        /\ locks' = [locks EXCEPT ![c] = {}] /\ queue' = [queue EXCEPT ![c] = {}]
    BY <1>7 DEF Abort
  <2>2. Admins' = Admins /\ Admins # {} /\ \A d \in Changes : HoldsAdmins(d)
    BY <1>a, <1>b, <1>c, <2>1
  <2> QED BY <2>1, <2>2 DEF HoldsAdmins, StaffTypeOK
<1> QED BY <1>1, <1>2, <1>3, <1>4, <1>5, <1>6, <1>7 DEF StaffNext

LEMMA HeldImplies == AdminsHeld => DemotionsLeaveAnAdmin
  BY DEF AdminsHeld, NoPromotion, DemotionsLeaveAnAdmin

\* However demotions and deactivations of staff accounts interleave, an active admin
\* is left: of the admins there were, every change holds the rows of those that are
\* left from its locking SELECT to its UPDATE (UsersService.update, guardLastAdmin).
THEOREM DemotionsLeaveAnAdminHolds == StaffSpec => []DemotionsLeaveAnAdmin
<1> DEFINE Inv == StaffTypeOK /\ LocksOK /\ AdminsHeld
<1>1. StaffInit => Inv
  BY StaffTypeInit, HeldInit
<1>2. Inv /\ [StaffNext]_staffVars => Inv'
  BY StaffTypeNext, HeldNext
<1>3. Inv => DemotionsLeaveAnAdmin
  BY HeldImplies
<1> QED BY <1>1, <1>2, <1>3, PTL DEF StaffSpec

-----------------------------------------------------------------------------
(* LoginLimits.                                                             *)

Keys == [n : Nat, left : Nat]

SignInRecords ==
    [phase : {"admitted", "verifying"}, address : Addresses, hit : 1..Limit,
     counted : BOOLEAN, left : 0..Latency]

LoginTypeOK ==
    /\ failures \in Keys
    /\ hits \in [Addresses -> Keys]
    /\ signIns \in [SignIns -> {None} \cup SignInRecords]

\* A request in flight has a place among the hits of its key, or of the key before it.
\* It ends before that next key does, and so does the one that made its key.
Placed(s) ==
    /\ s.counted => s.hit <= hits[s.address].n
    /\ ~s.counted => s.hit # 1
    /\ (s.hit = 1 \/ ~s.counted) /\ hits[s.address].n > 0 => s.left < hits[s.address].left

Apart(s, t) == ~(s.address = t.address /\ s.hit = t.hit /\ s.counted = t.counted)

PlacesOK ==
    /\ \A a \in Addresses : hits[a].n > 0 => hits[a].left > 0
    /\ \A q \in Arrived : Placed(signIns[q])
    /\ \A q, r \in Arrived : q # r => Apart(signIns[q], signIns[r])

LEMMA PlacesInit == LimitsInit => LoginTypeOK /\ PlacesOK
<1> SUFFICES ASSUME LimitsInit PROVE LoginTypeOK /\ PlacesOK
  OBVIOUS
<1>1. Arrived = {} /\ NoKey \in Keys /\ NoKey.n = 0
  BY SMT DEF LimitsInit, Arrived, NoKey, Keys
<1>2. LoginTypeOK
  BY <1>1 DEF LimitsInit, LoginTypeOK
<1>3. \A a \in Addresses : ~(hits[a].n > 0)
  BY <1>1, SMT DEF LimitsInit
<1> QED BY <1>1, <1>2, <1>3 DEF PlacesOK

\* What a request in flight is.
LEMMA ArrivedTyped ==
    ASSUME LoginTypeOK, NEW q \in Arrived
    PROVE  signIns[q] \in SignInRecords /\ hits[signIns[q].address] \in Keys
BY DEF LoginTypeOK, Arrived, SignInRecords

\* A request that leaves takes its place with it.
LEMMA LeavingKeepsPlaces ==
    ASSUME LoginTypeOK, PlacesOK, UNCHANGED hits, failures' \in Keys,
           NEW q \in SignIns, signIns' = [signIns EXCEPT ![q] = None]
    PROVE  LoginTypeOK' /\ PlacesOK'
<1>1. LoginTypeOK'
  BY DEF LoginTypeOK
<1>2. \A r \in Arrived' : r \in Arrived /\ signIns'[r] = signIns[r]
  BY DEF LoginTypeOK, Arrived
<1>3. \A r \in Arrived' : Placed(signIns[r])'
  BY <1>2 DEF PlacesOK, Placed
<1>4. \A r, t \in Arrived' : r # t => Apart(signIns'[r], signIns'[t])
  BY <1>2 DEF PlacesOK
<1> QED BY <1>1, <1>3, <1>4 DEF PlacesOK, Apart

LEMMA CheckKeepsPlaces ==
    ASSUME LoginTypeOK, PlacesOK, NEW q \in SignIns, assertNotLockedOut(q)
    PROVE  LoginTypeOK' /\ PlacesOK'
<1>0. UNCHANGED <<hits, failures>> /\ q \in Arrived
  BY DEF assertNotLockedOut, Arrived
<1>1. CASE signIns' = [signIns EXCEPT ![q] = None]
  BY <1>0, <1>1, LeavingKeepsPlaces DEF LoginTypeOK
<1>2. CASE signIns' = [signIns EXCEPT ![q] = Passed(signIns[q])]
  <2>1. signIns[q] \in SignInRecords
    BY <1>0, ArrivedTyped
  <2>2. Passed(signIns[q]) \in SignInRecords
    BY <2>1 DEF Passed, SignInRecords
  <2>3. LoginTypeOK'
    BY <1>0, <1>2, <2>2 DEF LoginTypeOK
  <2>4. \A r \in Arrived' :
           /\ r \in Arrived
           /\ signIns'[r].address = signIns[r].address /\ signIns'[r].hit = signIns[r].hit
           /\ signIns'[r].counted = signIns[r].counted /\ signIns'[r].left = signIns[r].left
    BY <1>0, <1>2 DEF LoginTypeOK, Arrived, Passed
  <2>5. \A r \in Arrived' : Placed(signIns[r])'
    BY <1>0, <2>4 DEF PlacesOK, Placed
  <2>6. ASSUME NEW r \in Arrived', NEW t \in Arrived', r # t
        PROVE  Apart(signIns'[r], signIns'[t])
    <3>1. r \in Arrived /\ t \in Arrived /\ Apart(signIns[r], signIns[t])
      BY <2>4, <2>6 DEF PlacesOK
    <3> QED BY <2>4, <2>6, <3>1 DEF Apart
  <2> QED BY <1>0, <2>3, <2>5, <2>6 DEF PlacesOK, Apart
<1> QED BY <1>1, <1>2 DEF assertNotLockedOut

\* A hit makes a key that outlives every request there is, or adds a place to it.
LEMMA CountedKey ==
    ASSUME NEW key \in Keys, key.n > 0 => key.left > 0
    PROVE  /\ counted(key) \in Keys
           /\ counted(key).left > 0
           /\ counted(key).n <= Limit => counted(key).n = key.n + 1
           /\ key.n = 0 => counted(key).left >= Ttl
           /\ key.n > 0 => counted(key).left >= key.left
BY LoginAssumption, SMT DEF counted, Saturated, Keys

LEMMA HitKeepsPlaces ==
    ASSUME LoginTypeOK, PlacesOK, NEW q \in SignIns, NEW a \in Addresses, increment(q, a)
    PROVE  LoginTypeOK' /\ PlacesOK'
<1> DEFINE key == counted(hits[a])
<1>0. /\ hits[a] \in Keys
      /\ hits[a].n > 0 => hits[a].left > 0
      /\ hits' = [hits EXCEPT ![a] = key] /\ UNCHANGED failures
      /\ signIns[q] = None /\ Limit \in Nat \ {0} /\ Ttl \in Nat /\ Latency \in Nat /\ Latency < Ttl
  BY LoginAssumption DEF LoginTypeOK, PlacesOK, increment
<1>1. /\ key \in Keys /\ key.left > 0
      /\ key.n <= Limit => key.n = hits[a].n + 1
      /\ hits[a].n = 0 => key.left >= Ttl
      /\ hits[a].n > 0 => key.left >= hits[a].left
  BY <1>0, CountedKey
<1> HIDE DEF key
<1>2. hits' \in [Addresses -> Keys] /\ hits'[a] = key /\ \A b \in Addresses \ {a} : hits'[b] = hits[b]
  BY <1>0, <1>1 DEF LoginTypeOK
<1>3. \A b \in Addresses : hits'[b].n > 0 => hits'[b].left > 0
  BY <1>1, <1>2 DEF PlacesOK
\* the requests that were in flight before
<1>4. ASSUME NEW s \in SignInRecords, Placed(s) PROVE Placed(s)'
  <2>1. CASE s.address # a
    BY <1>2, <1>4, <2>1 DEF Placed, SignInRecords
  <2>2. CASE s.address = a
    <3>1. PICK h \in 1..Limit : h = s.hit
      BY <1>4 DEF SignInRecords
    <3>2. PICK l \in Nat : l = s.left /\ l < Ttl
      BY <1>0, <1>4, SMT DEF SignInRecords
    <3>3. s.counted => h <= key.n
      BY <1>0, <1>1, <1>4, <2>2, <3>1, SMT DEF Placed, Keys
    <3>4. s.hit = 1 \/ ~s.counted => l < key.left
      BY <1>0, <1>1, <1>4, <2>2, <3>1, <3>2, SMT DEF Placed, Keys
    <3> QED BY <1>2, <1>4, <2>2, <3>1, <3>2, <3>3, <3>4 DEF Placed
  <2> QED BY <2>1, <2>2
<1>5. CASE signIns' = signIns
  <2>1. Arrived' = Arrived
    BY <1>5 DEF Arrived
  <2>2. \A r \in Arrived' : Placed(signIns[r])'
    BY <1>4, <1>5, <2>1, ArrivedTyped DEF PlacesOK, Placed
  <2>3. LoginTypeOK'
    BY <1>0, <1>2, <1>5 DEF LoginTypeOK
  <2>4. \A r, t \in Arrived' : r # t => Apart(signIns'[r], signIns'[t])
    BY <1>5, <2>1 DEF PlacesOK
  <2> QED BY <1>3, <2>2, <2>3, <2>4 DEF PlacesOK, Apart
<1>6. CASE key.n <= Limit /\ signIns' = [signIns EXCEPT ![q] =
              [phase |-> "admitted", address |-> a, hit |-> key.n, counted |-> TRUE, left |-> Latency]]
  <2>0. PICK new : /\ new = [phase |-> "admitted", address |-> a, hit |-> key.n,
                             counted |-> TRUE, left |-> Latency]
    OBVIOUS
  <2>1. new \in SignInRecords
    BY <1>0, <1>1, <1>6, <2>0, SMT DEF SignInRecords, Keys
  <2>2. /\ signIns'[q] = new /\ q \notin Arrived
        /\ \A r \in Arrived' : r # q => r \in Arrived /\ signIns'[r] = signIns[r]
    BY <1>0, <1>6, <2>0 DEF LoginTypeOK, Arrived
  <2>3. LoginTypeOK'
    BY <1>0, <1>2, <1>6, <2>0, <2>1 DEF LoginTypeOK
  <2>4. Placed(new)'
    <3>1. key.n <= key.n /\ (key.n = 1 => Latency < key.left)
      BY <1>0, <1>1, <1>6, SMT DEF Keys
    <3>2. PICK n \in Nat : n = key.n
      BY <1>1 DEF Keys
    <3>3. /\ new.address = a /\ new.counted = TRUE /\ new.hit = n /\ new.left = Latency
          /\ hits'[a].n = n /\ hits'[a].left = key.left
      BY <1>2, <2>0, <3>2
    <3> QED BY <3>1, <3>2, <3>3 DEF Placed
  <2>5. \A r \in Arrived : signIns[r].address = a /\ signIns[r].counted => signIns[r].hit # key.n
    <3> SUFFICES ASSUME NEW r \in Arrived, signIns[r].address = a, signIns[r].counted
                 PROVE  signIns[r].hit # key.n
      OBVIOUS
    <3>1. signIns[r].hit \in Nat /\ signIns[r].hit <= hits[a].n
      BY ArrivedTyped, SMT DEF PlacesOK, Placed, SignInRecords
    <3> QED BY <1>0, <1>1, <1>6, <3>1, SMT DEF Keys
  <2>6. \A r \in Arrived' : Placed(signIns[r])'
    <3> SUFFICES ASSUME NEW r \in Arrived' PROVE Placed(signIns[r])'
      OBVIOUS
    <3>1. CASE r = q
      BY <2>2, <2>4, <3>1 DEF Placed
    <3>2. CASE r # q
      <4>1. PICK s \in SignInRecords : s = signIns[r] /\ s = signIns'[r] /\ Placed(s)
        BY <2>2, <3>2, ArrivedTyped DEF PlacesOK
      <4>2. Placed(s)'
        BY <1>4, <4>1
      <4> QED BY <4>1, <4>2 DEF Placed
    <3> QED BY <3>1, <3>2
  <2>7. \A r \in Arrived : Apart(signIns[r], new) /\ Apart(new, signIns[r])
    BY <2>0, <2>5 DEF Apart
  <2>8. \A r, t \in Arrived' : r # t => Apart(signIns'[r], signIns'[t])
    BY <2>2, <2>7 DEF PlacesOK
  <2> QED BY <1>3, <2>3, <2>6, <2>8 DEF PlacesOK, Apart
<1>7. CASE signIns' = [signIns EXCEPT ![q] = None]
  <2>1. signIns' = signIns
    BY <1>0, <1>7 DEF LoginTypeOK
  <2> QED BY <1>5, <2>1
<1>8. key.n <= Limit \/ key.n > Limit
  BY <1>0, <1>1, SMT DEF Keys
<1> QED BY <1>6, <1>7, <1>8 DEF increment, key

\* When a key ends, the requests it has counted take the places of those before them,
\* all of which are over.
LEMMA TimeKeepsPlaces ==
    ASSUME LoginTypeOK, PlacesOK, SecondPasses
    PROVE  LoginTypeOK' /\ PlacesOK'
<1>1. ASSUME NEW key \in Keys
      PROVE  /\ Later(key) \in Keys
             /\ Later(key).n > 0 => /\ key.n > 0 /\ key.left > 1 /\ Later(key).n = key.n
                                    /\ Later(key).left = key.left - 1 /\ Later(key).left > 0
             /\ key.left > 1 => Later(key).n = key.n
  BY <1>1, SMT DEF Later, NoKey, Keys
<1>2. failures' \in Keys /\ hits' \in [Addresses -> Keys]
  BY <1>1 DEF SecondPasses, LoginTypeOK
<1>3. \A a \in Addresses : hits[a] \in Keys /\ hits'[a] = Later(hits[a])
  BY DEF SecondPasses, LoginTypeOK
<1>4. \A a \in Addresses : hits'[a].n > 0 => hits'[a].left > 0
  BY <1>1, <1>3
<1> DEFINE alive(s) == hits[s.address].left > 1
           older(s) == [phase |-> s.phase, address |-> s.address, hit |-> s.hit,
                        counted |-> s.counted /\ alive(s), left |-> s.left - 1]
<1>5. ASSUME NEW s \in SignInRecords, s.left > 0
      PROVE  older(s) \in SignInRecords
  <2>1. s.left - 1 \in 0..Latency
    BY <1>5, LoginAssumption, SMT DEF SignInRecords
  <2>2. (s.counted /\ alive(s)) \in BOOLEAN
    OBVIOUS
  <2> QED BY <1>5, <2>1, <2>2 DEF SignInRecords
<1>6. \A q \in SignIns : signIns'[q] = IF signIns[q] = None THEN None ELSE older(signIns[q])
  BY DEF SecondPasses
<1>7. ASSUME NEW q \in Arrived'
      PROVE  /\ q \in Arrived /\ signIns[q] \in SignInRecords /\ Placed(signIns[q])
             /\ signIns[q].left > 0 /\ signIns'[q] = older(signIns[q])
  <2>1. q \in Arrived
    BY <1>6, <1>7 DEF Arrived
  <2> QED BY <1>6, <2>1, ArrivedTyped DEF Arrived, SecondPasses, PlacesOK
<1>8. LoginTypeOK'
  <2>1. \A q \in SignIns : signIns'[q] \in {None} \cup SignInRecords
    BY <1>5, <1>6, ArrivedTyped DEF Arrived, SecondPasses
  <2>2. signIns' = [q \in SignIns |-> signIns'[q]]
    BY DEF SecondPasses
  <2> QED BY <1>2, <2>1, <2>2 DEF LoginTypeOK
\* of an ending key only requests other than its first are left
<1>9. ASSUME NEW s \in SignInRecords, Placed(s), s.left > 0,
             ~(hits[s.address].left > 1)
      PROVE  (s.counted => s.hit # 1) /\ (~s.counted => ~(hits[s.address].n > 0))
  <2>1. hits[s.address] \in Keys /\ s.hit \in Nat /\ s.left \in Nat
    BY <1>3, LoginAssumption, SMT DEF SignInRecords
  <2>2. s.counted => s.hit # 1
    BY <1>9, <2>1, SMT DEF Placed, Keys
  <2>3. ~s.counted => ~(hits[s.address].n > 0)
    BY <1>9, <2>1, SMT DEF Placed, Keys
  <2> QED BY <2>2, <2>3
<1>10. ASSUME NEW q \in Arrived' PROVE Placed(signIns[q])'
  <2>1. PICK s \in SignInRecords : /\ s = signIns[q] /\ Placed(s) /\ s.left > 0
                                   /\ signIns'[q] = older(s)
    BY <1>7, <1>10
  <2>2. s.address \in Addresses /\ s.hit \in Nat /\ s.left \in Nat
    BY LoginAssumption, SMT DEF SignInRecords
  <2>3. PICK key \in Keys : key = hits[s.address] /\ hits'[s.address] = Later(key)
    BY <1>3, <2>2
  <2>4. s.counted /\ key.left > 1 => s.hit <= Later(key).n
    BY <1>1, <2>1, <2>3 DEF Placed
  <2>5. ~(s.counted /\ key.left > 1) => s.hit # 1
    BY <1>9, <2>1, <2>3 DEF Placed
  <2>6. (s.hit = 1 \/ ~(s.counted /\ key.left > 1)) /\ Later(key).n > 0
          => s.left - 1 < Later(key).left
    <3>1. (s.hit = 1 \/ ~s.counted) /\ key.n > 0 => s.left < key.left
      BY <2>1, <2>3 DEF Placed
    <3>2. s.left < key.left => s.left - 1 < key.left - 1
      BY <2>2, SMT DEF Keys
    <3> QED BY <1>1, <3>1, <3>2
  <2>7. /\ older(s).counted = (s.counted /\ key.left > 1) /\ older(s).hit = s.hit
        /\ older(s).left = s.left - 1 /\ older(s).address = s.address
    BY <2>3
  <2> HIDE DEF older
  <2> QED BY <2>1, <2>3, <2>4, <2>5, <2>6, <2>7 DEF Placed
<1>11. ASSUME NEW q \in Arrived', NEW r \in Arrived', q # r
       PROVE  Apart(signIns'[q], signIns'[r])
  <2>1. PICK s \in SignInRecords : /\ s = signIns[q] /\ Placed(s) /\ s.left > 0
                                   /\ signIns'[q] = older(s)
    BY <1>7
  <2>2. PICK t \in SignInRecords : /\ t = signIns[r] /\ Placed(t) /\ t.left > 0
                                   /\ signIns'[r] = older(t)
    BY <1>7
  <2>3. Apart(s, t)
    BY <1>7, <1>11, <2>1, <2>2 DEF PlacesOK
  <2>4. SUFFICES ASSUME s.address = t.address, s.hit = t.hit,
                        (s.counted /\ alive(s)) = (t.counted /\ alive(t))
                 PROVE  FALSE
    <3>1. \A u \in {s, t} : /\ older(u).counted = (u.counted /\ alive(u))
                            /\ older(u).hit = u.hit /\ older(u).address = u.address
      OBVIOUS
    <3> HIDE DEF older
    <3> QED BY <2>1, <2>2, <3>1 DEF Apart
  <2>5. s.counted \in BOOLEAN /\ t.counted \in BOOLEAN
    BY DEF SignInRecords
  <2>6. alive(s) = alive(t)
    BY <2>4
  <2>7. ~alive(s) /\ s.counted # t.counted
    BY <2>3, <2>4, <2>5, <2>6 DEF Apart
  <2>8. \A u \in {s, t} : ~u.counted => ~(hits[s.address].n > 0)
    BY <1>9, <2>1, <2>2, <2>4, <2>6, <2>7
  <2>9. \A u \in {s, t} : u.counted => hits[s.address].n > 0
    <3>1. \A u \in {s, t} : u.counted => u.hit \in 1..Limit /\ u.hit <= hits[s.address].n
      BY <2>1, <2>2, <2>4 DEF Placed, SignInRecords
    <3>2. hits[s.address].n \in Nat /\ Limit \in Nat
      BY <1>3, LoginAssumption DEF SignInRecords, Keys
    <3> QED BY <3>1, <3>2, SMT
  <2>10. CASE s.counted
    BY <2>5, <2>7, <2>8, <2>9, <2>10
  <2>11. CASE ~s.counted
    BY <2>5, <2>7, <2>8, <2>9, <2>11
  <2> QED BY <2>10, <2>11
<1>12. \A q \in Arrived' : Placed(signIns[q])'
  BY <1>10
<1>13. \A q, r \in Arrived' : q # r => Apart(signIns'[q], signIns'[r])
  BY <1>11
<1> QED BY <1>4, <1>8, <1>12, <1>13 DEF PlacesOK, Apart

LEMMA PlacesNext ==
    ASSUME LoginTypeOK, PlacesOK, [LimitsNext]_limitVars
    PROVE  LoginTypeOK' /\ PlacesOK'
<1>1. CASE UNCHANGED <<hits, failures, signIns>>
  BY <1>1 DEF LoginTypeOK, PlacesOK, Arrived, Placed, Apart
<1>2. ASSUME NEW q \in SignIns, recordFailure(q) \/ clear(q) \/ BackendFails(q)
      PROVE  LoginTypeOK' /\ PlacesOK'
  <2>1. failures' \in Keys
    BY <1>2, LoginAssumption, SMT DEF recordFailure, clear, BackendFails, NoKey, Keys, LoginTypeOK
  <2> QED BY <1>2, <2>1, LeavingKeepsPlaces DEF recordFailure, clear, BackendFails
<1> QED BY <1>1, <1>2, HitKeepsPlaces, CheckKeepsPlaces, TimeKeepsPlaces
        DEF LimitsNext, limitVars, Outage

\* There are 2 * Limit - 1 places per address.
Room == (2 * Limit - 1) * Cardinality(Addresses)

Roomy ==
    /\ IsFiniteSet(Verifying) /\ Cardinality(Verifying) \in Nat
    /\ Room \in Nat
    /\ Cardinality(Verifying) <= Room

LEMMA VerifyingCounted == LoginTypeOK /\ PlacesOK => Roomy
<1> SUFFICES ASSUME LoginTypeOK, PlacesOK PROVE Roomy
  OBVIOUS
<1> DEFINE Numbers == 1 .. (2 * Limit - 1)
           Places == Numbers \X Addresses
           place == [q \in Verifying |->
                        <<IF signIns[q].counted THEN signIns[q].hit ELSE Limit + signIns[q].hit - 1,
                          signIns[q].address>>]
<1>1. IsFiniteSet(Numbers) /\ Cardinality(Numbers) = 2 * Limit - 1
  <2>1. 2 * Limit - 1 \in Int /\ 1 <= 2 * Limit - 1
    BY LoginAssumption, SMT
  <2>2. IsFiniteSet(Numbers)
        /\ Cardinality(Numbers) = IF 1 > 2 * Limit - 1 THEN 0 ELSE (2 * Limit - 1) - 1 + 1
    BY <2>1, FS_Interval, SMT
  <2> QED BY <2>1, <2>2, SMT
<1>2. IsFiniteSet(Places) /\ Cardinality(Places) = (2 * Limit - 1) * Cardinality(Addresses)
  <2>1. IsFiniteSet(Addresses)
    BY LoginAssumption
  <2> HIDE DEF Numbers
  <2>2. IsFiniteSet(Places) /\ Cardinality(Places) = Cardinality(Numbers) * Cardinality(Addresses)
    BY <1>1, <2>1, FS_Product
  <2> QED BY <1>1, <2>2
<1>3. \A q \in Verifying : q \in Arrived /\ signIns[q] \in SignInRecords /\ Placed(signIns[q])
  BY ArrivedTyped DEF Verifying, PlacesOK
<1>4. ASSUME NEW s \in SignInRecords, Placed(s)
      PROVE  /\ s.address \in Addresses /\ s.hit \in 1..Limit
             /\ s.counted => s.hit \in Numbers
             /\ ~s.counted => Limit + s.hit - 1 \in Numbers /\ Limit + s.hit - 1 > Limit
  BY <1>4, LoginAssumption, SMT DEF SignInRecords, Placed
<1>5. place \in [Verifying -> Places]
  <2> SUFFICES ASSUME NEW q \in Verifying PROVE place[q] \in Places
    OBVIOUS
  <2>1. PICK s \in SignInRecords : s = signIns[q] /\ Placed(s)
    BY <1>3
  <2> HIDE DEF Numbers
  <2> QED BY <1>4, <2>1
<1>6. ASSUME NEW q \in Verifying, NEW r \in Verifying, place[q] = place[r], q # r
      PROVE  FALSE
  <2>1. PICK s \in SignInRecords : s = signIns[q] /\ Placed(s)
    BY <1>3
  <2>2. PICK t \in SignInRecords : t = signIns[r] /\ Placed(t)
    BY <1>3
  <2>3. Apart(s, t)
    BY <1>3, <1>6, <2>1, <2>2 DEF PlacesOK
  <2>4. PICK h, k : h = s.hit /\ k = t.hit
    OBVIOUS
  <2>5. /\ s.address = t.address
        /\ (IF s.counted THEN h ELSE Limit + h - 1) = (IF t.counted THEN k ELSE Limit + k - 1)
    BY <1>6, <2>1, <2>2, <2>4
  <2>6. h \in 1..Limit /\ k \in 1..Limit /\ Limit \in Nat /\ (~s.counted => h # 1) /\ (~t.counted => k # 1)
    BY <1>4, <2>1, <2>2, <2>4, LoginAssumption DEF Placed
  <2>7. s.counted \in BOOLEAN /\ t.counted \in BOOLEAN
    BY DEF SignInRecords
  <2>8. CASE s.counted /\ t.counted
    BY <2>3, <2>4, <2>5, <2>7, <2>8 DEF Apart
  <2>9. CASE ~s.counted /\ ~t.counted
    <3>1. h = k
      BY <2>5, <2>6, <2>9, SMT
    <3> QED BY <2>3, <2>4, <2>5, <2>7, <2>9, <3>1 DEF Apart
  <2>10. CASE s.counted /\ ~t.counted
    BY <2>5, <2>6, <2>10, SMT
  <2>11. CASE ~s.counted /\ t.counted
    BY <2>5, <2>6, <2>11, SMT
  <2> QED BY <2>7, <2>8, <2>9, <2>10, <2>11
<1>7. place \in Injection(Verifying, Places)
  <2> HIDE DEF place, Places
  <2> QED BY <1>5, <1>6 DEF Injection, IsInjective
<1> HIDE DEF place, Places
<1>8. IsFiniteSet(Verifying) /\ Cardinality(Verifying) <= Cardinality(Places)
  BY <1>2, <1>7, FS_Injection
<1> QED BY <1>2, <1>8, FS_CardinalityType DEF Roomy, Room

\* The same of the next state.
LEMMA VerifyingStaysCounted == LoginTypeOK' /\ PlacesOK' => Roomy'
  BY VerifyingCounted, PTL

LEMMA LoginNext ==
    LoginTypeOK /\ PlacesOK /\ FailuresBounded /\ [LimitsNext]_limitVars
        => LoginTypeOK' /\ PlacesOK' /\ FailuresBounded'
<1> SUFFICES ASSUME LoginTypeOK, PlacesOK, FailuresBounded, [LimitsNext]_limitVars
             PROVE  LoginTypeOK' /\ PlacesOK' /\ FailuresBounded'
  OBVIOUS
<1>1. LoginTypeOK' /\ PlacesOK'
  BY PlacesNext
<1>2. PICK v \in Nat, b \in Nat, f \in Nat, m \in Nat \ {0} :
         /\ v = Cardinality(Verifying) /\ b = Room /\ f = failures.n /\ m = MaxFailures
         /\ f + v <= m - 1 + b
  BY VerifyingCounted, LoginAssumption DEF FailuresBounded, LoginTypeOK, Keys, Roomy, Room
<1>3. PICK w \in Nat, g \in Nat : w = Cardinality(Verifying') /\ w <= b /\ g = failures'.n
  <2>1. Roomy' /\ Room' = Room /\ failures' \in Keys
    BY <1>1, VerifyingStaysCounted DEF LoginTypeOK, Room
  <2> QED BY <1>2, <2>1 DEF Roomy, Keys
<1>4. SUFFICES g + w <= m - 1 + b
  BY <1>1, <1>2, <1>3 DEF FailuresBounded, Room
<1>5. ASSUME Verifying' \subseteq Verifying, g <= f PROVE g + w <= m - 1 + b
  <2>1. w <= v
    BY <1>2, <1>3, <1>5, VerifyingCounted, FS_Subset DEF Roomy
  <2> QED BY <1>2, <1>3, <1>5, <2>1, SMT
<1>6. CASE UNCHANGED <<failures, signIns>>
  <2>1. Verifying' = Verifying /\ g = f
    BY <1>2, <1>3, <1>6 DEF Verifying, Arrived
  <2> QED BY <1>2, <1>3, <2>1
<1>7. ASSUME NEW q \in SignIns, NEW a \in Addresses, increment(q, a) PROVE g + w <= m - 1 + b
  <2>1. Verifying' \subseteq Verifying
    BY <1>7 DEF increment, Verifying, Arrived, LoginTypeOK
  <2>2. g <= f
    BY <1>2, <1>3, <1>7, SMT DEF increment
  <2> QED BY <1>5, <2>1, <2>2
<1>8. ASSUME NEW q \in SignIns, assertNotLockedOut(q) PROVE g + w <= m - 1 + b
  <2>0. g = f
    BY <1>2, <1>3, <1>8 DEF assertNotLockedOut
  <2>1. CASE f < m
    BY <1>2, <1>3, <2>0, <2>1, SMT
  <2>2. CASE ~(f < m)
    <3>1. Verifying' \subseteq Verifying
      BY <1>2, <1>8, <2>2 DEF assertNotLockedOut, Verifying, Arrived, LoginTypeOK
    <3> QED BY <1>2, <1>5, <2>0, <3>1, SMT
  <2> QED BY <2>1, <2>2
<1>9. ASSUME NEW q \in SignIns, q \in Verifying, signIns' = [signIns EXCEPT ![q] = None],
             g <= f + 1
      PROVE  g + w <= m - 1 + b
  <2>1. Verifying' = Verifying \ {q}
    BY <1>9 DEF Verifying, Arrived, LoginTypeOK
  <2>2. w = v - 1
    BY <1>2, <1>3, <1>9, <2>1, VerifyingCounted, FS_RemoveElement DEF Roomy
  <2> QED BY <1>2, <1>3, <1>9, <2>2, SMT
<1>10. ASSUME NEW q \in SignIns, recordFailure(q) \/ clear(q) PROVE g + w <= m - 1 + b
  <2>1. g <= f + 1
    BY <1>2, <1>3, <1>10, SMT DEF recordFailure, clear, NoKey
  <2> QED BY <1>9, <1>10, <2>1 DEF recordFailure, clear
<1>11. ASSUME NEW q \in SignIns, BackendFails(q) PROVE g + w <= m - 1 + b
  <2>1. Verifying' \subseteq Verifying
    BY <1>11 DEF BackendFails, Verifying, Arrived, LoginTypeOK
  <2>2. g <= f
    BY <1>2, <1>3, <1>11, SMT DEF BackendFails
  <2> QED BY <1>5, <2>1, <2>2
<1>12. ASSUME SecondPasses PROVE g + w <= m - 1 + b
  <2>1. Verifying' \subseteq Verifying
    BY <1>12 DEF SecondPasses, Verifying, Arrived
  <2>2. g <= f
    BY <1>2, <1>3, <1>12, SMT DEF SecondPasses, Later, NoKey
  <2> QED BY <1>5, <2>1, <2>2
<1> QED BY <1>6, <1>7, <1>8, <1>10, <1>11, <1>12 DEF LimitsNext, limitVars, Outage

\* Sign-ins that pass the check together exceed the limit of failures by as many as
\* the other limit lets be in flight and no more, from however many addresses they
\* come, whatever keys end and whatever outages of Redis they meet while they run
\* (RedisThrottlerStorage.increment, LoginAttemptLimiter).
THEOREM FailuresBoundedHolds == LimitsSpec => []FailuresBounded
<1>1. LimitsInit => FailuresBounded
  <2> SUFFICES ASSUME LimitsInit PROVE FailuresBounded
    OBVIOUS
  <2>1. Verifying = {} /\ failures.n = 0
    BY DEF LimitsInit, Verifying, Arrived, NoKey
  <2>2. Cardinality(Verifying) = 0 /\ Room \in Nat
    BY <2>1, FS_EmptySet, PlacesInit, VerifyingCounted DEF Roomy
  <2>3. PICK b \in Nat : b = Room
    BY <2>2
  <2>4. 0 + 0 <= MaxFailures - 1 + b
    BY LoginAssumption, SMT
  <2> QED BY <2>1, <2>2, <2>3, <2>4 DEF FailuresBounded, Room
<1> QED BY <1>1, PlacesInit, LoginNext, PTL DEF LimitsSpec

-----------------------------------------------------------------------------
(* EventRetention.                                                          *)

RunRecord == [pc : {"asleep", "step", "update", "done", "failed"},
              batch : SUBSET OldEvents, batches : Nat]

RetentionTypeOK ==
    /\ old \subseteq OldEvents /\ trimmed \subseteq old
    /\ due \subseteq old /\ aged \subseteq old
    /\ run \in [Runs -> RunRecord]

\* What a night may have to trim, and how much of it a run may count as behind it.
Work == due \cup aged
Behind(i) == (trimmed \cap Work) \ run[i].batch

\* The full batches of a run are trimmed rows of the night's work, none of them in its
\* statement under way, and a statement that came back short held all that was left.
RunCounts(i) ==
    /\ Underway(i) => /\ run[i].batches < MaxBatches
                      /\ run[i].batches * BatchSize <= Cardinality(Behind(i))
    /\ run[i].pc = "update" => /\ run[i].batch \subseteq Work
                               /\ Cardinality(run[i].batch) <= BatchSize
                               /\ Cardinality(run[i].batch) < BatchSize
                                    => due \subseteq trimmed \cup run[i].batch
    /\ run[i].pc = "done" => \/ due \subseteq trimmed
                             \/ Cardinality(Work) > BatchSize * MaxBatches

RetentionInv ==
    /\ RetentionTypeOK
    /\ old \ trimmed \subseteq Work
    /\ \A i \in Runs : RunCounts(i)

LEMMA RetentionInitially == RetentionInit => RetentionInv
  BY SMT DEF RetentionInit, RetentionInv, RetentionTypeOK, RunRecord, RunCounts, Underway, runAt

LEMMA EventsFinite ==
    ASSUME NEW S \in SUBSET OldEvents
    PROVE  IsFiniteSet(S) /\ Cardinality(S) \in Nat
  BY RetentionAssumption, FS_Subset, FS_CardinalityType

LEMMA EventsOrdered ==
    ASSUME NEW S \in SUBSET OldEvents, NEW T \in SUBSET S
    PROVE  /\ Cardinality(T) <= Cardinality(S)
           /\ Cardinality(S) <= Cardinality(T) => S = T
<1>1. /\ IsFiniteSet(S) /\ Cardinality(S) \in Nat /\ Cardinality(T) \in Nat
  BY EventsFinite
<1>2. Cardinality(T) <= Cardinality(S) /\ (Cardinality(S) = Cardinality(T) => S = T)
  BY <1>1, FS_Subset
<1> QED
  BY <1>1, <1>2, SMT

LEMMA EventsAdded ==
    ASSUME NEW S \in SUBSET OldEvents, NEW T \in SUBSET OldEvents, S \cap T = {}
    PROVE  Cardinality(S \cup T) = Cardinality(S) + Cardinality(T)
<1>1. /\ IsFiniteSet(S) /\ IsFiniteSet(T)
      /\ Cardinality(S) \in Nat /\ Cardinality(T) \in Nat
  BY EventsFinite
<1>2. Cardinality(S \cup T) = Cardinality(S) + Cardinality(T) - Cardinality(S \cap T)
  BY <1>1, FS_Union
<1>3. Cardinality(S \cap T) = 0
  BY FS_EmptySet
<1> QED
  BY <1>1, <1>2, <1>3, SMT

\* What a run has counted stays counted: neither an event that ages nor a trim of any run
\* takes anything from it.
LEMMA CountsKept ==
    ASSUME RetentionInv, RetentionTypeOK', NEW i \in Runs, run'[i] = run[i],
           due' = due, aged \subseteq aged', trimmed \subseteq trimmed'
    PROVE  RunCounts(i)'
<1>1. Behind(i) \subseteq Behind(i)' /\ Behind(i)' \subseteq OldEvents
  BY DEF Behind, Work, RetentionInv, RetentionTypeOK
<1>2. Work \subseteq Work' /\ Work' \subseteq OldEvents
  BY DEF Work, RetentionInv, RetentionTypeOK
<1>3. /\ Cardinality(Behind(i)) <= Cardinality(Behind(i)')
      /\ Cardinality(Behind(i)) \in Nat /\ Cardinality(Behind(i)') \in Nat
  BY <1>1, EventsOrdered, EventsFinite
<1>4. /\ Cardinality(Work) <= Cardinality(Work')
      /\ Cardinality(Work) \in Nat /\ Cardinality(Work') \in Nat
  BY <1>2, EventsOrdered, EventsFinite
<1>5. run[i].batches \in Nat /\ run[i].batches * BatchSize \in Nat /\ BatchSize * MaxBatches \in Nat
  BY RetentionAssumption, SMT DEF RetentionInv, RetentionTypeOK, RunRecord
<1>6. RunCounts(i)
  BY DEF RetentionInv
<1>7. Underway(i)' <=> Underway(i)
  BY DEF Underway
<1>8. (run[i].batches * BatchSize <= Cardinality(Behind(i)))
        => (run[i].batches * BatchSize <= Cardinality(Behind(i)'))
  BY <1>3, <1>5, SMT
<1>9. (Cardinality(Work) > BatchSize * MaxBatches)
        => (Cardinality(Work') > BatchSize * MaxBatches)
  BY <1>4, <1>5, SMT
<1> HIDE DEF Behind, Work
<1>10. Underway(i)' => /\ run'[i].batches < MaxBatches
                       /\ run'[i].batches * BatchSize <= Cardinality(Behind(i)')
  BY <1>6, <1>7, <1>8 DEF RunCounts
<1>11. run'[i].pc = "done" => \/ due' \subseteq trimmed'
                              \/ Cardinality(Work') > BatchSize * MaxBatches
  BY <1>6, <1>9 DEF RunCounts
<1>12. run'[i].pc = "update" => /\ run'[i].batch \subseteq Work'
                                /\ Cardinality(run'[i].batch) <= BatchSize
                                /\ Cardinality(run'[i].batch) < BatchSize
                                     => due' \subseteq trimmed' \cup run'[i].batch
  BY <1>2, <1>6 DEF RunCounts
<1> QED
  BY <1>10, <1>11, <1>12 DEF RunCounts

LEMMA AgeKeeps ==
    ASSUME RetentionInv, NEW e \in OldEvents, Age(e)
    PROVE  RetentionInv'
<1>1. RetentionTypeOK' /\ (old \ trimmed \subseteq Work)'
  BY DEF Age, RetentionInv, RetentionTypeOK, Work
<1>2. ASSUME NEW i \in Runs
      PROVE  RunCounts(i)'
  BY <1>1, CountsKept DEF Age
<1> QED
  BY <1>1, <1>2 DEF RetentionInv

LEMMA RunNightlyKeeps ==
    ASSUME RetentionInv, runNightly
    PROVE  RetentionInv'
<1>1. run' = [i \in Runs |-> [pc |-> "step", batch |-> {}, batches |-> 0]]
  BY DEF runNightly, runAt
<1>2. RetentionTypeOK' /\ (old \ trimmed \subseteq Work)'
  BY <1>1, SMT DEF runNightly, RetentionInv, RetentionTypeOK, RunRecord, Work
<1>3. ASSUME NEW i \in Runs
      PROVE  RunCounts(i)'
  <2>1. Behind(i)' \in SUBSET OldEvents
    BY <1>2 DEF RetentionTypeOK, Behind, Work
  <2>2. Cardinality(Behind(i)') \in Nat
    BY <2>1, EventsFinite
  <2>3. run'[i].pc = "step" /\ run'[i].batches = 0
    BY <1>1
  <2> QED
    BY <2>2, <2>3, RetentionAssumption, SMTT(30) DEF RunCounts
<1> QED
  BY <1>2, <1>3 DEF RetentionInv

LEMMA SelectBatchKeeps ==
    ASSUME RetentionInv, NEW i \in Runs, selectBatch(i)
    PROVE  RetentionInv'
<1>1. PICK batch \in SUBSET (old \ trimmed) :
          /\ \/ Cardinality(batch) = BatchSize
             \/ Cardinality(batch) < BatchSize /\ batch = old \ trimmed
          /\ run' = [run EXCEPT ![i] = [pc |-> "update", batch |-> batch,
                                        batches |-> run[i].batches]]
  BY DEF selectBatch
<1>2. UNCHANGED <<old, trimmed, due, aged>> /\ run[i].pc = "step"
  BY DEF selectBatch
<1>3. RetentionTypeOK' /\ (old \ trimmed \subseteq Work)'
  BY <1>1, <1>2 DEF RetentionInv, RetentionTypeOK, RunRecord, Work
<1>4. ASSUME NEW j \in Runs, j # i
      PROVE  RunCounts(j)'
  BY <1>1, <1>2, <1>3, <1>4, CountsKept, SMT DEF RetentionInv, RetentionTypeOK
<1>5. RunCounts(i)'
  <2>1. run'[i] = [pc |-> "update", batch |-> batch, batches |-> run[i].batches]
    BY <1>1 DEF RetentionInv, RetentionTypeOK
  <2>2. /\ run[i].batches < MaxBatches
        /\ run[i].batches * BatchSize <= Cardinality(Behind(i))
    BY <1>2 DEF RetentionInv, RunCounts, Underway
  <2>3. Behind(i) \subseteq Behind(i)' /\ Behind(i)' \subseteq OldEvents
    BY <1>2, <2>1, SMT DEF Behind, Work, RetentionInv, RetentionTypeOK
  <2>4. /\ Cardinality(Behind(i)) <= Cardinality(Behind(i)')
        /\ Cardinality(Behind(i)) \in Nat /\ Cardinality(Behind(i)') \in Nat
    BY <2>3, EventsOrdered, EventsFinite
  <2>5. run[i].batches * BatchSize \in Nat
    BY RetentionAssumption, SMT DEF RetentionInv, RetentionTypeOK, RunRecord
  <2>6. run'[i].batches * BatchSize <= Cardinality(Behind(i)')
    BY <2>1, <2>2, <2>4, <2>5, SMT
  <2>7. /\ run'[i].batch \subseteq Work'
        /\ Cardinality(run'[i].batch) <= BatchSize
        /\ Cardinality(run'[i].batch) < BatchSize
             => due' \subseteq trimmed' \cup run'[i].batch
    <3>1. batch \subseteq Work /\ Work' = Work
      BY <1>2 DEF RetentionInv, Work
    <3>2. Cardinality(batch) \in Nat
      BY EventsFinite DEF RetentionInv, RetentionTypeOK
    <3> QED
      BY <1>1, <1>2, <2>1, <3>1, <3>2, RetentionAssumption, SMT DEF RetentionInv, RetentionTypeOK
  <2> QED
    BY <2>1, <2>2, <2>6, <2>7, SMT DEF RunCounts, Underway
<1> QED
  BY <1>3, <1>4, <1>5 DEF RetentionInv

LEMMA TrimKeeps ==
    ASSUME RetentionInv, NEW i \in Runs, trimEventPayloads(i)
    PROVE  RetentionInv'
<1> DEFINE batch == run[i].batch
           more == run[i].batches + 1
           last == Cardinality(batch) < BatchSize \/ more = MaxBatches
<1>1. /\ run[i].pc = "update" /\ trimmed' = trimmed \cup batch
      /\ UNCHANGED <<old, due, aged>>
      /\ run' = [run EXCEPT ![i] =
            IF last THEN [pc |-> "done", batch |-> {}, batches |-> 0]
            ELSE [pc |-> "step", batch |-> {}, batches |-> more]]
  BY DEF trimEventPayloads, runAt
<1>2. batch \subseteq Work /\ Work \subseteq old /\ Work' = Work /\ Work \subseteq OldEvents
  BY <1>1 DEF RetentionInv, RetentionTypeOK, RunCounts, Work
<1>3. run[i].batches \in Nat /\ more \in Nat
  BY SMT DEF RetentionInv, RetentionTypeOK, RunRecord
<1>4. RetentionTypeOK' /\ (old \ trimmed \subseteq Work)'
  <2>1. run' \in [Runs -> RunRecord]
    BY <1>1, <1>3 DEF RetentionInv, RetentionTypeOK, RunRecord
  <2> QED
    BY <1>1, <1>2, <2>1 DEF RetentionInv, RetentionTypeOK
<1>5. ASSUME NEW j \in Runs, j # i
      PROVE  RunCounts(j)'
  BY <1>1, <1>4, <1>5, CountsKept, SMT DEF RetentionInv, RetentionTypeOK
<1>6. run'[i] = IF last THEN [pc |-> "done", batch |-> {}, batches |-> 0]
                ELSE [pc |-> "step", batch |-> {}, batches |-> more]
  BY <1>1 DEF RetentionInv, RetentionTypeOK
<1>7. /\ run[i].batches < MaxBatches
      /\ run[i].batches * BatchSize <= Cardinality(Behind(i))
      /\ Cardinality(batch) <= BatchSize
      /\ Cardinality(batch) < BatchSize => due \subseteq trimmed \cup batch
  BY <1>1 DEF RetentionInv, RunCounts, Underway
\* A full batch joins what is behind the run.
<1>8. ASSUME ~(Cardinality(batch) < BatchSize)
      PROVE  more * BatchSize <= Cardinality(trimmed' \cap Work)
  <2>1. Behind(i) \in SUBSET OldEvents /\ batch \in SUBSET OldEvents /\ Behind(i) \cap batch = {}
    BY <1>2 DEF Behind
  <2>2. /\ Cardinality(Behind(i)) \in Nat /\ Cardinality(batch) \in Nat
        /\ Cardinality(Behind(i) \cup batch) = Cardinality(Behind(i)) + Cardinality(batch)
    BY <2>1, EventsFinite, EventsAdded
  <2>3. Behind(i) \cup batch = trimmed' \cap Work
    BY <1>1, <1>2 DEF Behind
  <2>4. Cardinality(batch) = BatchSize
    BY <1>7, <1>8, <2>2, RetentionAssumption, SMT
  <2>5. more * BatchSize = run[i].batches * BatchSize + BatchSize
    BY <1>3, RetentionAssumption, SMT
  <2>6. run[i].batches * BatchSize \in Nat
    BY <1>3, RetentionAssumption, SMT
  <2>7. Cardinality(trimmed' \cap Work) = Cardinality(Behind(i)) + BatchSize
    BY <2>2, <2>3, <2>4
  <2> HIDE DEF more, batch
  <2> QED
    BY <1>7, <2>2, <2>5, <2>6, <2>7, RetentionAssumption, SMT
<1>9. CASE ~last
  <2>1. run'[i].pc = "step" /\ run'[i].batches = more /\ run'[i].batch = {}
    BY <1>6, <1>9, SMT
  <2>2. Behind(i)' = trimmed' \cap Work
    BY <1>2, <2>1 DEF Behind
  <2>3. more < MaxBatches
    BY <1>3, <1>7, <1>9, RetentionAssumption, SMT
  <2>4. more * BatchSize <= Cardinality(trimmed' \cap Work)
    BY <1>8, <1>9
  <2> HIDE DEF more
  <2>5. RunCounts(i)'
    BY <2>1, <2>2, <2>3, <2>4, SMT DEF RunCounts, Underway
  <2> QED
    BY <1>4, <1>5, <2>5 DEF RetentionInv
<1>10. CASE last
  <2>1. run'[i].pc = "done"
    BY <1>6, <1>10, SMT
  <2>2. due' \subseteq trimmed' \/ Cardinality(Work') > BatchSize * MaxBatches
    <3>1. CASE Cardinality(batch) < BatchSize
      BY <1>1, <1>7, <3>1
    <3>2. CASE ~(Cardinality(batch) < BatchSize) /\ Cardinality(Work) <= BatchSize * MaxBatches
      <4>1. MaxBatches * BatchSize <= Cardinality(trimmed' \cap Work)
        BY <1>8, <1>10, <3>2
      <4>2. MaxBatches * BatchSize = BatchSize * MaxBatches /\ MaxBatches * BatchSize \in Nat
        BY RetentionAssumption, SMT
      <4>3. /\ trimmed' \cap Work \in SUBSET Work
            /\ Cardinality(Work) \in Nat /\ Cardinality(trimmed' \cap Work) \in Nat
        BY <1>2, EventsFinite
      <4>4. Cardinality(Work) <= Cardinality(trimmed' \cap Work)
        BY <3>2, <4>1, <4>2, <4>3, SMT
      <4>5. Work = trimmed' \cap Work
        BY <1>2, <4>3, <4>4, EventsOrdered, SMT
      <4> QED
        BY <1>1, <4>5 DEF Work
    <3>3. Cardinality(Work) \in Nat /\ BatchSize * MaxBatches \in Nat
      BY <1>2, EventsFinite, RetentionAssumption, SMT
    <3> QED
      BY <1>2, <3>1, <3>2, <3>3, SMT
  <2>3. RunCounts(i)'
    BY <2>1, <2>2 DEF RunCounts, Underway
  <2> QED
    BY <1>4, <1>5, <2>3 DEF RetentionInv
<1> QED
  BY <1>9, <1>10

LEMMA RunFailsKeeps ==
    ASSUME RetentionInv, NEW i \in Runs, RunFails(i)
    PROVE  RetentionInv'
<1>1. /\ UNCHANGED <<old, trimmed, due, aged>>
      /\ run' = [run EXCEPT ![i] = [pc |-> "failed", batch |-> {}, batches |-> 0]]
  BY DEF RunFails, runAt
<1>2. RetentionTypeOK' /\ (old \ trimmed \subseteq Work)'
  BY <1>1 DEF RetentionInv, RetentionTypeOK, RunRecord, Work
<1>3. ASSUME NEW j \in Runs, j # i
      PROVE  RunCounts(j)'
  BY <1>1, <1>2, <1>3, CountsKept DEF RetentionInv, RetentionTypeOK
<1>4. RunCounts(i)'
  BY <1>1 DEF RunCounts, Underway, RetentionInv, RetentionTypeOK
<1> QED
  BY <1>2, <1>3, <1>4 DEF RetentionInv

LEMMA RetentionStep == RetentionInv /\ [RetentionNext]_retentionVars => RetentionInv'
<1> SUFFICES ASSUME RetentionInv, [RetentionNext]_retentionVars
             PROVE  RetentionInv'
  OBVIOUS
<1>1. CASE UNCHANGED <<old, trimmed, run, due, aged>>
  BY <1>1 DEF RetentionInv, RetentionTypeOK, Work, RunCounts, Behind, Underway
<1>2. ASSUME NEW e \in OldEvents, replay(e)
      PROVE  UNCHANGED <<old, trimmed, run, due, aged>>
  BY <1>2 DEF replay
<1>3. UNCHANGED retentionVars => UNCHANGED <<old, trimmed, run, due, aged>>
  BY DEF retentionVars
<1> QED
  BY <1>1, <1>2, <1>3, AgeKeeps, RunNightlyKeeps, SelectBatchKeeps, TrimKeeps, RunFailsKeeps, SMT
     DEF RetentionNext

\* However the instances' runs overlap, fail or are overtaken by events that age, one run
\* that ends leaves trimmed what was due when the night began (trimEventPayloads), if it
\* fits into the batches of one run.
THEOREM NightLeavesNothingHolds == RetentionSpec => []NightLeavesNothing
<1>1. RetentionInv => NightLeavesNothing
  <2> SUFFICES ASSUME RetentionInv, NEW i \in Runs, run[i].pc = "done",
                      Cardinality(Work) <= BatchSize * MaxBatches
               PROVE  due \subseteq trimmed
    BY DEF NightLeavesNothing, Work
  <2>1. Work \in SUBSET OldEvents
    BY DEF RetentionInv, RetentionTypeOK, Work
  <2>2. Cardinality(Work) \in Nat /\ BatchSize * MaxBatches \in Nat
    BY <2>1, EventsFinite, RetentionAssumption, SMT
  <2> QED
    BY <2>2, SMT DEF RetentionInv, RunCounts
<1> QED
  BY <1>1, RetentionInitially, RetentionStep, PTL DEF RetentionSpec

=============================================================================

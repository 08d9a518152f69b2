--------------------------- MODULE KioskDevices ----------------------------
(***************************************************************************)
(* Kiosk tablets: DevicesService (register, pair, pause, revoke), the      *)
(* token check every request makes (DeviceTokenService.resolve), the       *)
(* status check of POST /orders (OrdersService.resolveChannel) and the     *)
(* tablet's socket (KioskGateway).  A pause reads the status and writes it *)
(* in separate statements; an order's two checks and a handshake's check   *)
(* and room are apart in the same way.                                     *)
(***************************************************************************)
EXTENDS Absent

CONSTANTS
    Devices,  \* kiosk_devices.id
    Tablets,  \* clients that may learn a pairing code
    Edits     \* PATCH /devices/:id requests in flight

ASSUME DevicesAssumption ==
    None \notin Tablets /\ None \notin {"PENDING", "ACTIVE", "PAUSED", "REVOKED"}

VARIABLES
    deviceStatus, \* kiosk_devices.status, None before the row exists
    code,         \* the pairing code: "open", "expired" or None once spent
    token,        \* the tablet that was given the device token
    edit,         \* a pause or resume that has passed its check
    order,        \* devices with a POST /orders between the guard and resolveChannel
    sock,         \* "closed", "checked" (handshake passed) or "joined" (in its room)
    kills,        \* revocations on their way to the instances
    cut,          \* revoked devices whose kill has been carried out
    reached       \* statuses resolveChannel has seen

deviceVars == <<deviceStatus, code, token, edit, order, sock, kills, cut, reached>>

Paired(d) == token[d] # None

-----------------------------------------------------------------------------
create(d) ==
    /\ deviceStatus[d] = None
    /\ deviceStatus' = [deviceStatus EXCEPT ![d] = "PENDING"]
    /\ code' = [code EXCEPT ![d] = "open"]
    /\ UNCHANGED <<token, edit, order, sock, kills, cut, reached>>

CodeExpires(d) ==
    /\ code[d] = "open"
    /\ code' = [code EXCEPT ![d] = "expired"]
    /\ UNCHANGED <<deviceStatus, token, edit, order, sock, kills, cut, reached>>

\* MUTANT of activate: the code is not spent by the statement that accepts it.
activateKeepsCode(t, d) ==
    /\ code[d] = "open" /\ deviceStatus[d] \in {"PENDING", "ACTIVE"}
    /\ deviceStatus' = [deviceStatus EXCEPT ![d] = "ACTIVE"]
    /\ token' = [token EXCEPT ![d] = t]
    /\ UNCHANGED <<code, edit, order, sock, kills, cut, reached>>

\* One guarded UPDATE matches the code, spends it and stores the token.
activate(t, d) ==
    /\ code[d] = "open" /\ deviceStatus[d] = "PENDING"
    /\ deviceStatus' = [deviceStatus EXCEPT ![d] = "ACTIVE"]
    /\ token' = [token EXCEPT ![d] = t]
    /\ code' = [code EXCEPT ![d] = None]
    /\ UNCHANGED <<edit, order, sock, kills, cut, reached>>

\* update, the read and the check.
checkPaired(e, d, target) ==
    /\ edit[e] = None /\ deviceStatus[d] \in {"ACTIVE", "PAUSED"}
    /\ edit' = [edit EXCEPT ![e] = [device |-> d, target |-> target]]
    /\ UNCHANGED <<deviceStatus, code, token, order, sock, kills, cut, reached>>

\* update, the write.
update(e) ==
    /\ edit[e] # None
    /\ deviceStatus' = [deviceStatus EXCEPT ![edit[e].device] = edit[e].target]
    /\ edit' = [edit EXCEPT ![e] = None]
    /\ UNCHANGED <<code, token, order, sock, kills, cut, reached>>

\* The row is written, then the kill is published, or that is given up and logged.
revoke(d) ==
    /\ deviceStatus[d] # None
    /\ deviceStatus' = [deviceStatus EXCEPT ![d] = "REVOKED"]
    /\ kills' \in {kills, kills \cup {d}}
    /\ cut' = cut \ {d}
    /\ UNCHANGED <<code, token, edit, order, sock, reached>>

\* DeviceTokenService.resolve in the guard of POST /orders.
resolve(d) ==
    /\ Paired(d) /\ deviceStatus[d] # "REVOKED" /\ d \notin order
    /\ order' = order \cup {d}
    /\ UNCHANGED <<deviceStatus, code, token, edit, sock, kills, cut, reached>>

\* OrdersService.resolveChannel reads the status once more and refuses PAUSED.
\* Taken or refused, the order has no further effect on the device.
resolveChannel(d) ==
    /\ d \in order
    /\ order' = order \ {d}
    /\ reached' = reached \cup {deviceStatus[d]}
    /\ UNCHANGED <<deviceStatus, code, token, edit, sock, kills, cut>>

\* KioskGateway.authenticate in the handshake.
authenticate(d) ==
    /\ Paired(d) /\ sock[d] = "closed" /\ deviceStatus[d] # "REVOKED"
    /\ sock' = [sock EXCEPT ![d] = "checked"]
    /\ UNCHANGED <<deviceStatus, code, token, edit, order, kills, cut, reached>>

handleConnection(d) ==
    /\ sock[d] = "checked"
    /\ sock' = [sock EXCEPT ![d] = "joined"]
    /\ UNCHANGED <<deviceStatus, code, token, edit, order, kills, cut, reached>>

\* A kill reaches the instance that holds the socket; it empties the room.
onRevocation(d) ==
    /\ d \in kills
    /\ kills' = kills \ {d}
    /\ cut' = cut \cup {d}
    /\ sock' = [sock EXCEPT ![d] = IF @ = "joined" THEN "closed" ELSE @]
    /\ UNCHANGED <<deviceStatus, code, token, edit, order, reached>>

Disconnect(d) ==
    /\ sock[d] # "closed"
    /\ sock' = [sock EXCEPT ![d] = "closed"]
    /\ UNCHANGED <<deviceStatus, code, token, edit, order, kills, cut, reached>>

-----------------------------------------------------------------------------
DevicesInit ==
    /\ deviceStatus = [d \in Devices |-> None]
    /\ code = [d \in Devices |-> None]
    /\ token = [d \in Devices |-> None]
    /\ edit = [e \in Edits |-> None]
    /\ order = {}
    /\ sock = [d \in Devices |-> "closed"]
    /\ kills = {}
    /\ cut = {}
    /\ reached = {}

DevicesNext ==
    \/ \E d \in Devices :
          \/ create(d) \/ CodeExpires(d) \/ revoke(d) \/ onRevocation(d)
          \/ resolve(d) \/ resolveChannel(d)
          \/ authenticate(d) \/ handleConnection(d) \/ Disconnect(d)
    \/ \E d \in Devices, t \in Tablets : activate(t, d)
    \/ \E e \in Edits, d \in Devices, target \in {"ACTIVE", "PAUSED"} : checkPaired(e, d, target)
    \/ \E e \in Edits : update(e)

DevicesSpec == DevicesInit /\ [][DevicesNext]_deviceVars

\* A step that leaves live devices with a token and takes no token away.
PairingKept ==
    \A d \in Devices :
        /\ deviceStatus'[d] \in {"ACTIVE", "PAUSED"} => token'[d] # None
        /\ token[d] # None => token'[d] = token[d]

\* A device that counts as live holds a token, and it is the one token the device is ever
\* given, whatever pauses, resumes, revocations and tablets with the same code race with
\* the pairing ("mark it live with no token behind it").
LiveIsPaired == [][PairingKept]_deviceVars

\* A revoked device stays revoked ("letting it resurrect a REVOKED one would
\* undo a security action through the rename endpoint").
RevokedStaysRevoked ==
    [][\A d \in Devices : deviceStatus[d] = "REVOKED" => deviceStatus'[d] = "REVOKED"]_deviceVars

\* resolveChannel never sees a revoked device ("REVOKED never reaches here").
\* Not guaranteed by the code: the README tells how it fails.
RevokedNeverReaches == "REVOKED" \notin reached

\* Once the kill has been carried out a revoked device has no open socket
\* ("Only an *already open* socket needs the kill channel").
\* Not guaranteed by the code: the README tells how it fails.
RevokedSocketIsCut ==
    \A d \in cut : deviceStatus[d] = "REVOKED" => sock[d] # "joined"

=============================================================================

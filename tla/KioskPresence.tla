--------------------------- MODULE KioskPresence ---------------------------
(***************************************************************************)
(* How last_seen_at of a kiosk is kept: each API instance stamps, every    *)
(* minute, the devices whose sockets it holds (KioskGateway.recordPresence,*)
(* DeviceTokenService.markSeen), and every authenticated use of a device   *)
(* token stamps its device unless the stamp it read was fresh              *)
(* (DeviceTokenService.resolve, touchLastSeen).                            *)
(*                                                                         *)
(* A stamp is taken when the statement is built and lands when the         *)
(* database executes it, so stamps of two instances can land out of order. *)
(***************************************************************************)
EXTENDS Integers, FiniteSets

CONSTANTS Processes,    \* API processes
          Devices,      \* paired kiosks
          Minute,       \* LAST_SEEN_REFRESH_MS and the period of the cron
          Latency,      \* the longest a statement stays in flight
          MaxClock,     \* bound: how far the clock runs
          MaxLost,      \* bound: stamping statements that fail
          MaxInFlight   \* bound: statements in flight at once

\* A statement takes less than a minute.
ASSUME MinuteAssumption == Minute \in Nat \ {0} /\ Latency \in Nat /\ Latency < Minute

VARIABLES clock,        \* now
          sockets,      \* instance -> devices whose sockets it holds
          crons,        \* processes whose minute cron has yet to run
          lastSeenAt,   \* device -> kiosk_devices.last_seen_at
          stamps,       \* UPDATE statements in flight
          lost          \* stamping statements that failed so far

presenceVars == <<clock, sockets, crons, lastSeenAt, stamps, lost>>

\* What the caller does once its UPDATE has landed.
Sequels == {"connect", "answer", "nothing"}
Stamps == [by : Processes, ids : SUBSET Devices, at : Nat, next : Sequels]

Connected(d) == \E i \in Processes : d \in sockets[i]

PresenceTypeOK ==
    /\ clock \in Nat /\ lost \in Nat
    /\ sockets \in [Processes -> SUBSET Devices]
    /\ crons \subseteq Processes
    /\ lastSeenAt \in [Devices -> Nat]
    /\ stamps \subseteq Stamps

\* The kiosks have not been heard from for a minute.
PresenceInit ==
    /\ clock = Minute /\ lost = 0 /\ crons = {} /\ stamps = {}
    /\ sockets = [i \in Processes |-> {}]
    /\ lastSeenAt = [d \in Devices |-> 0]

Issue(s) == Cardinality(stamps) < MaxInFlight /\ stamps' = stamps \cup {s}

\* MUTANT of isFresh: a stamp that is exactly a minute old still counts.
isFreshInclusive(at) == clock - at <= Minute

\* touchLastSeen, isFresh: the stamp that resolve read spares a write.
isFresh(at) == clock - at < Minute

\* resolve for a handshake (then "connect") or a request (then "answer").
resolve(d, i, then) ==
    /\ IF isFresh(lastSeenAt[d])
       THEN /\ sockets' = IF then = "connect"
                          THEN [sockets EXCEPT ![i] = @ \cup {d}] ELSE sockets
            /\ UNCHANGED stamps
       ELSE /\ Issue([by |-> i, ids |-> {d}, at |-> clock, next |-> then])
            /\ UNCHANGED sockets
    /\ UNCHANGED <<clock, crons, lastSeenAt, lost>>

Handshake(d, i) == d \notin sockets[i] /\ resolve(d, i, "connect")

UseToken(d, i) == resolve(d, i, "answer")

\* recordPresence: the local registry is read, and the stamp taken, before
\* the first await.
recordPresence(i) ==
    /\ i \in crons
    /\ crons' = crons \ {i}
    /\ IF sockets[i] = {}
       THEN UNCHANGED stamps
       ELSE Issue([by |-> i, ids |-> sockets[i], at |-> clock, next |-> "nothing"])
    /\ UNCHANGED <<clock, sockets, lastSeenAt, lost>>

\* A handshake goes through only once its own stamp is written.
joined(s) == IF s.next = "connect"
             THEN [sockets EXCEPT ![s.by] = @ \cup s.ids] ELSE sockets

\* new Date() is evaluated when the statement is built.
stampedAt(s) == s.at

\* markSeen and touchLastSeen: the UPDATE overwrites whatever is there.
markSeen(s) ==
    /\ s \in stamps
    /\ stamps' = stamps \ {s}
    /\ lastSeenAt' = [d \in Devices |-> IF d \in s.ids THEN stampedAt(s)
                                                       ELSE lastSeenAt[d]]
    /\ sockets' = joined(s)
    /\ UNCHANGED <<clock, crons, lost>>

\* The UPDATE fails: the cron logs and waits for the next minute, a handshake
\* or a request is refused.
StampFails(s) ==
    /\ s \in stamps /\ lost < MaxLost
    /\ stamps' = stamps \ {s} /\ lost' = lost + 1
    /\ UNCHANGED <<clock, sockets, crons, lastSeenAt>>

HangUp(d, i) ==
    /\ d \in sockets[i]
    /\ sockets' = [sockets EXCEPT ![i] = @ \ {d}]
    /\ UNCHANGED <<clock, crons, lastSeenAt, stamps, lost>>

\* The process dies: its sockets drop, statements already sent still land.
ProcessDies(i) ==
    /\ sockets[i] # {}
    /\ sockets' = [sockets EXCEPT ![i] = {}]
    /\ stamps' = {IF s.by = i THEN [s EXCEPT !.next = "nothing"] ELSE s : s \in stamps}
    /\ UNCHANGED <<clock, crons, lastSeenAt, lost>>

\* Crons run on the minute, on every instance; no statement outlives Latency.
ClockTicks ==
    /\ clock < MaxClock /\ crons = {}
    /\ \A s \in stamps : clock - s.at < Latency
    /\ clock' = clock + 1
    /\ crons' = IF clock' % Minute = 0 THEN Processes ELSE {}
    /\ UNCHANGED <<sockets, lastSeenAt, stamps, lost>>

PresenceNext ==
    \/ \E d \in Devices, i \in Processes :
          Handshake(d, i) \/ UseToken(d, i) \/ HangUp(d, i)
    \/ \E i \in Processes : recordPresence(i) \/ ProcessDies(i)
    \/ \E s \in stamps : markSeen(s) \/ StampFails(s)
    \/ ClockTicks

PresenceSpec == PresenceInit /\ [][PresenceNext]_presenceVars

(***************************************************************************)
(* A kiosk that holds a socket, however quiet and on whichever instance,   *)
(* is never shown as older than two refresh periods and one round trip,    *)
(* plus one period for each stamp the database refused: the handshake may  *)
(* skip its write because the stamp is up to a minute old, and the first   *)
(* cron that sees the socket comes up to a minute later.                   *)
(***************************************************************************)
ConnectedIsFresh ==
    \A d \in Devices : Connected(d) =>
        clock - lastSeenAt[d] < (2 + lost) * Minute + Latency

=============================================================================

-------------------------- MODULE OperationsProofs --------------------------
(* Proofs about what runs by the clock: the cash-up (ZReport), the stamps of*)
(* connected kiosks (KioskPresence) and a rolling stop (Rollout), for any   *)
(* payments, events, processes, devices, instances and screens, statements  *)
(* shorter than a minute and a probe interval shorter than the drain.       *)
EXTENDS ZReport, KioskPresence, Rollout, TLAPS

\* A leaf is first-order reasoning, unless it says that it needs SMT.
USE Zenon

-----------------------------------------------------------------------------
(* ZReport.                                                                 *)

ReportRecord ==
    [pc : {"idle", "books", "gateway", "inbox", "scoping", "done"}, provisional : BOOLEAN,
     recorded : SUBSET captured, gateway : SUBSET captured, unmatched : SUBSET Events,
     due : SUBSET Events, block : BOOLEAN,
     reason : {"none", "DAY_STILL_TRADING", "GATEWAY_UNREACHABLE", "DATABASE_UNAVAILABLE"},
     broken : {"none", "gateway", "database"}]

\* A report in hand: what it has read of the books was captured, so from the gateway's
\* answer on both sides are equal.
ReportOK(r) ==
    /\ r \in ReportRecord
    /\ r.pc \in {"inbox", "scoping"} \/ r.block => r.gateway = r.recorded
    /\ r.block => r.pc = "done"

\* Nothing is booked that was not captured, since no event comes before its capture.
BookedIsCaptured ==
    /\ trading \in BOOLEAN
    /\ DOMAIN inbox = Events
    /\ \A e \in Events : DOMAIN inbox[e] = {"at", "payment"}
    /\ booked \subseteq captured
    /\ \A e \in Events : inbox[e].at = "received" => EventOf[e] \in captured

ZInv == BookedIsCaptured /\ ReportOK(z) /\ ReportOK(night)

LEMMA BlankOK == ReportOK(blank)
  BY DEF ReportOK, ReportRecord, blank

LEMMA ZInitially == ZInit => ZInv
  BY BlankOK, SMT DEF ZInit, ZInv, BookedIsCaptured

\* What was read stays captured.
LEMMA ReportKept ==
    ASSUME captured \subseteq captured', NEW r, ReportOK(r)
    PROVE  r \in ReportRecord' /\ (r.pc \in {"inbox", "scoping"} \/ r.block => r.gateway = r.recorded)
           /\ (r.block => r.pc = "done")
  BY DEF ReportOK, ReportRecord

LEMMA ReconcileKeeps ==
    ASSUME BookedIsCaptured, NEW r, ReportOK(r), NEW next, ReconcileStep(r, next)
    PROVE  ReportOK(next)
<1> USE DEF ReportOK
<1>1. CASE r.pc = "books" /\ next = readBooks(r)
  <2>1. next \in ReportRecord
    BY <1>1 DEF readBooks, ReportRecord, BookedIsCaptured
  <2>2. next.pc = "gateway" /\ next.block = r.block
    BY <1>1 DEF readBooks, ReportRecord
  <2> QED
    BY <1>1, <2>1, <2>2
<1>2. CASE r.pc = "gateway" /\ next = capturedTotalFor(r)
  <2>1. next \in ReportRecord
    BY <1>2 DEF capturedTotalFor, ReportRecord
  <2>2. /\ next.pc = "inbox" /\ next.block = r.block
        /\ next.recorded = r.recorded /\ next.gateway = r.recorded \cap captured
    BY <1>2 DEF capturedTotalFor, ReportRecord
  <2>3. r.recorded \subseteq captured
    BY DEF ReportRecord
  <2> QED
    BY <1>2, <2>1, <2>2, <2>3
<1>3. CASE r.pc = "inbox" /\ next = readInbox(r)
  <2>1. next \in ReportRecord
    BY <1>3 DEF readInbox, ReportRecord, Unprocessed
  <2>2. /\ next.pc = "scoping" /\ next.block = r.block
        /\ next.recorded = r.recorded /\ next.gateway = r.gateway
    BY <1>3 DEF readInbox, ReportRecord
  <2> QED
    BY <1>3, <2>1, <2>2
<1> QED
  BY <1>1, <1>2, <1>3 DEF ReconcileStep

LEMMA ZStep == ZInv /\ [ZNext]_zVars => ZInv'
<1> SUFFICES ASSUME ZInv, [ZNext]_zVars
             PROVE  ZInv'
  OBVIOUS
<1>1. ASSUME captured \subseteq captured', BookedIsCaptured', UNCHANGED <<z, night>>
      PROVE  ZInv'
  <2>1. ReportOK(z)' /\ ReportOK(night)'
    BY <1>1, ReportKept DEF ZInv, ReportOK
  <2> QED
    BY <1>1, <2>1 DEF ZInv
<1>2. ASSUME NEW p \in Payments, Capture(p)
      PROVE  ZInv'
  BY <1>1, <1>2 DEF Capture, ZInv, BookedIsCaptured
<1>3. ASSUME NEW e \in Events, Receive(e)
      PROVE  ZInv'
  BY <1>1, <1>3 DEF Receive, ZInv, BookedIsCaptured
<1>4. ASSUME NEW e \in Events, markPaid(e)
      PROVE  ZInv'
  BY <1>1, <1>4 DEF markPaid, ZInv, BookedIsCaptured
<1>5. CASE CloseDay
  BY <1>1, <1>5 DEF CloseDay, ZInv, BookedIsCaptured
<1>6. ASSUME UNCHANGED world, z' \in ReportRecord, UNCHANGED night,
             z'.pc \in {"inbox", "scoping"} \/ z'.block => z'.gateway = z'.recorded,
             z'.block => z'.pc = "done"
      PROVE  ZInv'
  BY <1>6, SMT DEF world, ZInv, BookedIsCaptured, ReportOK, ReportRecord
<1>7. ASSUME UNCHANGED world, night' \in ReportRecord, UNCHANGED z,
             night'.pc \in {"inbox", "scoping"} \/ night'.block => night'.gateway = night'.recorded,
             night'.block => night'.pc = "done"
      PROVE  ZInv'
  BY <1>7, SMT DEF world, ZInv, BookedIsCaptured, ReportOK, ReportRecord
<1>8. CASE zReport
  <2>1. z' \in ReportRecord /\ z'.block = z.block /\ z'.pc \in {"done", "books"} /\ ~z.block
    <3>1. RefusedToday \subseteq Events /\ trading \in BOOLEAN
      BY DEF RefusedToday, Unprocessed, ZInv, BookedIsCaptured
    <3> QED
      BY <1>8, <3>1 DEF zReport, ZInv, ReportOK, ReportRecord
  <2> QED
    BY <1>6, <1>8, <2>1 DEF zReport
<1>9. CASE reconcile
  BY <1>6, <1>9, ReconcileKeeps DEF reconcile, ZInv, ReportOK
<1>10. CASE GatewayFails
  <2>1. z' \in ReportRecord /\ z'.block = z.block /\ z'.pc = "done" /\ ~z.block
    BY <1>10 DEF GatewayFails, ZInv, ReportOK, ReportRecord
  <2> QED
    BY <1>6, <1>10, <2>1 DEF GatewayFails
<1>11. CASE BooksFail
  <2>1. z' \in ReportRecord /\ z'.block = z.block /\ z'.pc = "done" /\ ~z.block
    BY <1>11 DEF BooksFail, ZInv, ReportOK, ReportRecord
  <2> QED
    BY <1>6, <1>11, <2>1 DEF BooksFail
<1>12. CASE unmatchedEventsForDay
  <2>1. /\ z' \in ReportRecord /\ z'.pc = "done"
        /\ z'.gateway = z.gateway /\ z'.recorded = z.recorded /\ z.gateway = z.recorded
    BY <1>12 DEF unmatchedEventsForDay, ZInv, ReportOK, ReportRecord
  <2> QED
    BY <1>6, <1>12, <2>1 DEF unmatchedEventsForDay
<1>13. CASE ScopingFails
  <2>1. z' \in ReportRecord /\ z'.block = z.block /\ z'.pc = "done" /\ ~z.block
    BY <1>13 DEF ScopingFails, ZInv, ReportOK, ReportRecord
  <2> QED
    BY <1>6, <1>13, <2>1 DEF ScopingFails
<1>14. CASE reconcileYesterday
  <2>1. CASE ReconcileStep(night, night')
    BY <1>7, <1>14, <2>1, ReconcileKeeps DEF reconcileYesterday, ZInv, ReportOK
  <2>2. CASE night.pc = "idle" /\ night' = [night EXCEPT !.pc = "books"]
    <3>1. night' \in ReportRecord /\ night'.block = night.block /\ night'.pc = "books" /\ ~night.block
      BY <2>2 DEF ZInv, ReportOK, ReportRecord
    <3> QED
      BY <1>7, <1>14, <3>1 DEF reconcileYesterday
  <2> QED
    BY <1>14, <2>1, <2>2 DEF reconcileYesterday
<1>15. CASE NightFails
  BY <1>7, <1>15, BlankOK DEF NightFails, ReportOK
<1>16. CASE UNCHANGED zVars
  BY <1>1, <1>16 DEF zVars, ZInv, BookedIsCaptured
<1> QED
  BY <1>2, <1>3, <1>4, <1>5, <1>8, <1>9, <1>10, <1>11, <1>12, <1>13, <1>14, <1>15, <1>16 DEF ZNext

\* Neither the Z-report nor the nightly reconciliation pages anyone about nothing: when it
\* compares, the gateway and the books agree, however captures, webhooks and bookings fall
\* between its reads (reconcile, capturedTotalFor).
THEOREM NoFalseDeltaHolds == ZSpec => []NoFalseDelta
<1>1. ZInv => NoFalseDelta
  BY DEF ZInv, ReportOK, NoFalseDelta
<1> QED
  BY <1>1, ZInitially, ZStep, PTL DEF ZSpec

-----------------------------------------------------------------------------
(* KioskPresence.                                                           *)

\* The minute mark after an instant, and the one at which the cron of a process runs next.
NextMark(c) == (c - (c % Minute)) + Minute
CronAt(i) == IF i \in crons THEN clock ELSE NextMark(clock)

\* How old a stamp may be when a cron renews it.
Allowed(l) == (2 + l) * Minute

\* When the next cron of a process that holds a device's socket runs, or when the cron
\* whose stamp is under way ran, the stored stamp is not older than allowed.
Renewed(i, d) ==
    \/ CronAt(i) - lastSeenAt[d] < Allowed(lost)
    \/ \E s \in stamps : /\ d \in s.ids /\ s.at % Minute = 0
                         /\ s.at - lastSeenAt[d] < Allowed(lost)

InFlight == \A s \in stamps : s.at <= clock /\ clock <= s.at + Latency

PresenceInv ==
    /\ PresenceTypeOK
    /\ crons # {} => clock % Minute = 0
    /\ InFlight
    /\ \A i \in Processes : \A d \in sockets[i] : Renewed(i, d)

LEMMA Remainder ==
    ASSUME NEW c \in Nat
    PROVE  /\ c % Minute \in 0 .. (Minute - 1)
           /\ c = Minute * (c \div Minute) + (c % Minute)
           /\ c \div Minute \in Nat
  BY MinuteAssumption, SMT

LEMMA RemainderIs ==
    ASSUME NEW c \in Nat, NEW q \in Nat, NEW r \in 0 .. (Minute - 1), c = Minute * q + r
    PROVE  c % Minute = r
  BY MinuteAssumption, SMT

LEMMA MarkHasNoRemainder ==
    ASSUME NEW c \in Nat, NEW q \in Nat, c = Minute * q
    PROVE  c % Minute = 0
  BY MinuteAssumption, SMT

LEMMA NextMarkIsNear ==
    ASSUME NEW c \in Nat
    PROVE  /\ NextMark(c) \in Nat /\ c < NextMark(c) /\ NextMark(c) <= c + Minute
  BY Remainder, MinuteAssumption, SMT DEF NextMark

\* Less than a minute after a mark, the next one is a minute after that mark.
LEMMA MarksApart ==
    ASSUME NEW m \in Nat, m % Minute = 0, NEW c \in Nat, m <= c, c < m + Minute
    PROVE  /\ NextMark(c) = m + Minute
           /\ c % Minute = 0 => c = m
<1>1. m = Minute * (m \div Minute) /\ m \div Minute \in Nat
  BY Remainder, MinuteAssumption, SMT
<1>2. c - m \in 0 .. (Minute - 1) /\ c = m + (c - m)
  BY MinuteAssumption, SMT
<1>3. c % Minute = c - m
  <2>1. c = Minute * (m \div Minute) + (c - m)
    BY ONLY <1>1, <1>2
  <2> QED
    BY <1>1, <1>2, <2>1, RemainderIs
<1> QED
  BY <1>3, MinuteAssumption, SMT DEF NextMark

LEMMA MarkPasses ==
    ASSUME NEW c \in Nat
    PROVE  IF (c + 1) % Minute = 0 THEN c + 1 = NextMark(c) ELSE NextMark(c + 1) = NextMark(c)
<1> DEFINE m == c - (c % Minute)
<1>1. /\ c % Minute \in 0 .. (Minute - 1)
      /\ m = Minute * (c \div Minute) /\ c \div Minute \in Nat /\ m \in Nat
      /\ m <= c /\ c < m + Minute
  BY Remainder, MinuteAssumption, SMT
<1>2. m % Minute = 0
  BY <1>1, MarkHasNoRemainder
<1>3. NextMark(c) = m + Minute
  BY DEF NextMark
<1>4. CASE c + 1 < m + Minute
  <2>1. NextMark(c + 1) = m + Minute /\ ((c + 1) % Minute = 0 => c + 1 = m)
    <3>1. c + 1 \in Nat /\ m <= c + 1
      BY <1>1, SMT
    <3> HIDE DEF m
    <3> QED
      BY <1>1, <1>2, <1>4, <3>1, MarksApart
  <2> QED
    BY <1>1, <1>3, <2>1, SMT
<1>5. CASE c + 1 = m + Minute
  <2>1. c + 1 = Minute * ((c \div Minute) + 1) /\ (c \div Minute) + 1 \in Nat /\ c + 1 \in Nat
    BY <1>1, <1>5, MinuteAssumption, SMT
  <2>2. (c + 1) % Minute = 0
    BY <2>1, MarkHasNoRemainder
  <2> QED
    BY <1>3, <1>5, <2>2
<1> QED
  BY <1>1, <1>4, <1>5, MinuteAssumption, SMT

LEMMA AllowedGrows ==
    ASSUME NEW l \in Nat
    PROVE  /\ Allowed(l) \in Nat /\ Allowed(l) >= 2 * Minute
           /\ Allowed(l + 1) = Allowed(l) + Minute
<1>1. l * Minute \in Nat
  BY MinuteAssumption, SMT
<1>2. (2 + l) * Minute = 2 * Minute + l * Minute
  BY MinuteAssumption, SMT
<1>3. (2 + (l + 1)) * Minute = 2 * Minute + l * Minute + Minute
  BY MinuteAssumption, SMT
<1> QED
  BY <1>1, <1>2, <1>3, MinuteAssumption, SMT DEF Allowed

LEMMA PresenceInitially == PresenceInit => PresenceInv
  BY MinuteAssumption, SMT DEF PresenceInit, PresenceInv, PresenceTypeOK, InFlight

LEMMA CronIsNear ==
    ASSUME PresenceInv, NEW i \in Processes
    PROVE  CronAt(i) \in Nat /\ clock <= CronAt(i) /\ CronAt(i) <= clock + Minute
  BY NextMarkIsNear, MinuteAssumption, SMT DEF CronAt, PresenceInv, PresenceTypeOK

\* The cron after a cron whose stamp is still under way is at most a minute later.
LEMMA CronAfterStamp ==
    ASSUME PresenceInv, NEW i \in Processes, NEW s \in stamps, s.at % Minute = 0
    PROVE  CronAt(i) <= s.at + Minute
<1>1. s.at \in Nat /\ clock \in Nat /\ s.at <= clock /\ clock <= s.at + Latency
  BY DEF PresenceInv, PresenceTypeOK, InFlight, Stamps
<1>2. clock < s.at + Minute
  BY <1>1, MinuteAssumption, SMT
<1>3. NextMark(clock) = s.at + Minute /\ (clock % Minute = 0 => clock = s.at)
  BY <1>1, <1>2, MarksApart
<1> QED
  BY <1>1, <1>3, MinuteAssumption, SMT DEF CronAt, PresenceInv

\* Renewed when a stamp is not older than a round trip, or was fresh a moment ago.
LEMMA FreshIsRenewed ==
    ASSUME PresenceInv, NEW i \in Processes, NEW seen \in Nat, clock - seen < Minute
    PROVE  CronAt(i) - seen < Allowed(lost)
  BY CronIsNear, AllowedGrows, MinuteAssumption, SMT DEF PresenceInv, PresenceTypeOK

\* What is renewed stays so while the clock, the losses and the stamp stand still and no
\* statement for the device ends.
LEMMA RenewedKept ==
    ASSUME NEW i \in Processes, NEW d \in Devices, Renewed(i, d),
           clock' = clock, lost' = lost, lastSeenAt'[d] = lastSeenAt[d],
           i \in crons' <=> i \in crons,
           \A s \in stamps : d \in s.ids =>
               \E t \in stamps' : t.ids = s.ids /\ t.at = s.at
    PROVE  Renewed(i, d)'
<1>1. CronAt(i)' = CronAt(i)
  BY DEF CronAt, NextMark
<1>2. CASE CronAt(i) - lastSeenAt[d] < Allowed(lost)
  BY <1>1, <1>2 DEF Renewed, Allowed
<1>3. CASE \E s \in stamps : /\ d \in s.ids /\ s.at % Minute = 0
                             /\ s.at - lastSeenAt[d] < Allowed(lost)
  BY <1>3 DEF Renewed, Allowed
<1> QED
  BY <1>2, <1>3 DEF Renewed

LEMMA ResolveKeeps ==
    ASSUME PresenceInv, NEW d \in Devices, NEW i \in Processes,
           NEW then \in {"connect", "answer"}, resolve(d, i, then)
    PROVE  PresenceInv'
<1>1. UNCHANGED <<clock, crons, lastSeenAt, lost>>
  BY DEF resolve
<1>2. CASE isFresh(lastSeenAt[d])
  <2>1. /\ UNCHANGED stamps
        /\ sockets' = IF then = "connect" THEN [sockets EXCEPT ![i] = @ \cup {d}] ELSE sockets
    BY <1>2 DEF resolve
  <2>2. PresenceTypeOK' /\ InFlight'
    BY <1>1, <2>1 DEF PresenceInv, PresenceTypeOK, InFlight
  <2>3. CronAt(i) - lastSeenAt[d] < Allowed(lost)
    BY <1>2, FreshIsRenewed DEF isFresh, PresenceInv, PresenceTypeOK
  <2>4. Renewed(i, d)
    BY <2>3 DEF Renewed
  <2>5. ASSUME NEW j \in Processes, NEW e \in sockets'[j]
        PROVE  Renewed(j, e)'
    <3>1. e \in Devices /\ Renewed(j, e)
      BY <2>1, <2>2, <2>4 DEF PresenceInv, PresenceTypeOK
    <3> QED
      BY <1>1, <2>1, <3>1, RenewedKept
  <2> QED
    BY <1>1, <2>2, <2>5 DEF PresenceInv
<1>3. CASE ~isFresh(lastSeenAt[d])
  <2> DEFINE s == [by |-> i, ids |-> {d}, at |-> clock, next |-> then]
  <2>1. UNCHANGED sockets /\ stamps' = stamps \cup {s}
    BY <1>3 DEF resolve, Issue
  <2>2. s \in Stamps /\ s.at = clock
    BY DEF PresenceInv, PresenceTypeOK, Stamps, Sequels
  <2> HIDE DEF s
  <2>3. PresenceTypeOK' /\ InFlight'
    BY <1>1, <2>1, <2>2, MinuteAssumption, SMT DEF PresenceInv, PresenceTypeOK, InFlight
  <2>4. ASSUME NEW j \in Processes, NEW e \in sockets'[j]
        PROVE  Renewed(j, e)'
    <3>1. e \in Devices /\ Renewed(j, e)
      BY <2>1 DEF PresenceInv, PresenceTypeOK
    <3> QED
      BY <1>1, <2>1, <3>1, RenewedKept
  <2> QED
    BY <1>1, <2>3, <2>4 DEF PresenceInv
<1> QED
  BY <1>2, <1>3

LEMMA RecordPresenceKeeps ==
    ASSUME PresenceInv, NEW i \in Processes, recordPresence(i)
    PROVE  PresenceInv'
<1> DEFINE s == [by |-> i, ids |-> sockets[i], at |-> clock, next |-> "nothing"]
<1>1. /\ i \in crons /\ crons' = crons \ {i} /\ UNCHANGED <<clock, sockets, lastSeenAt, lost>>
      /\ IF sockets[i] = {} THEN UNCHANGED stamps ELSE stamps' = stamps \cup {s}
  BY DEF recordPresence, Issue
<1>2. s \in Stamps /\ s.at = clock /\ s.ids = sockets[i]
  BY DEF PresenceInv, PresenceTypeOK, Stamps, Sequels
<1> HIDE DEF s
<1>3. PresenceTypeOK' /\ InFlight' /\ clock % Minute = 0
  BY <1>1, <1>2, MinuteAssumption, SMT DEF PresenceInv, PresenceTypeOK, InFlight
<1>4. ASSUME NEW j \in Processes, NEW e \in sockets'[j]
      PROVE  Renewed(j, e)'
  <2>1. e \in Devices /\ Renewed(j, e)
    BY <1>1 DEF PresenceInv, PresenceTypeOK
  <2>2. CASE j # i
    BY <1>1, <2>1, <2>2, RenewedKept
  <2>3. CASE j = i
    <3>1. s \in stamps' /\ stamps \subseteq stamps' /\ e \in s.ids /\ s.at % Minute = 0
      BY <1>1, <1>2, <1>3, <2>3
    <3>2. CronAt(i) = s.at
      BY <1>1, <1>2 DEF CronAt
    <3>3. \E t \in stamps' : /\ e \in t.ids /\ t.at % Minute = 0
                             /\ t.at - lastSeenAt[e] < Allowed(lost)
      BY <2>1, <2>3, <3>1, <3>2 DEF Renewed
    <3> QED
      BY <1>1, <3>3 DEF Renewed, Allowed
  <2> QED
    BY <2>2, <2>3
<1> QED
  BY <1>1, <1>3, <1>4 DEF PresenceInv

LEMMA MarkSeenKeeps ==
    ASSUME PresenceInv, NEW s \in stamps, markSeen(s)
    PROVE  PresenceInv'
<1>1. /\ stamps' = stamps \ {s} /\ UNCHANGED <<clock, crons, lost>>
      /\ lastSeenAt' = [d \in Devices |-> IF d \in s.ids THEN s.at ELSE lastSeenAt[d]]
      /\ sockets' = IF s.next = "connect"
                     THEN [sockets EXCEPT ![s.by] = @ \cup s.ids] ELSE sockets
  BY DEF markSeen, joined, stampedAt
<1>2. /\ s.by \in Processes /\ s.ids \subseteq Devices /\ s.at \in Nat
      /\ s.at <= clock /\ clock <= s.at + Latency
  BY DEF PresenceInv, PresenceTypeOK, Stamps, InFlight
<1>3. PresenceTypeOK' /\ InFlight'
  BY <1>1, <1>2 DEF PresenceInv, PresenceTypeOK, InFlight
<1>4. ASSUME NEW j \in Processes, NEW e \in sockets'[j]
      PROVE  Renewed(j, e)'
  <2>1. e \in Devices
    BY <1>3 DEF PresenceTypeOK
  <2>2. CASE e \in s.ids
    <3>1. clock - s.at < Minute
      BY <1>2, MinuteAssumption, SMT DEF PresenceInv, PresenceTypeOK
    <3>2. CronAt(j) - s.at < Allowed(lost)
      BY <1>2, <3>1, FreshIsRenewed
    <3>3. lastSeenAt'[e] = s.at /\ CronAt(j)' = CronAt(j) /\ Allowed(lost)' = Allowed(lost)
      BY <1>1, <2>1, <2>2 DEF CronAt, NextMark, Allowed
    <3>4. CronAt(j)' - lastSeenAt'[e] < Allowed(lost)'
      BY <3>2, <3>3
    <3> QED
      BY <3>4 DEF Renewed
  <2>3. CASE e \notin s.ids
    <3>1. e \in sockets[j]
      BY <1>1, <1>2, <2>3 DEF PresenceInv, PresenceTypeOK
    <3>2. Renewed(j, e) /\ lastSeenAt'[e] = lastSeenAt[e]
      BY <1>1, <2>1, <2>3, <3>1 DEF PresenceInv
    <3>3. \A t \in stamps : e \in t.ids => t \in stamps'
      BY <1>1, <2>3
    <3> QED
      BY <1>1, <2>1, <3>2, <3>3, RenewedKept
  <2> QED
    BY <2>2, <2>3
<1> QED
  BY <1>1, <1>3, <1>4 DEF PresenceInv

LEMMA StampFailsKeeps ==
    ASSUME PresenceInv, NEW s \in stamps, StampFails(s)
    PROVE  PresenceInv'
<1>1. stamps' = stamps \ {s} /\ lost' = lost + 1 /\ UNCHANGED <<clock, sockets, crons, lastSeenAt>>
  BY DEF StampFails
<1>2. PresenceTypeOK' /\ InFlight'
  BY <1>1, SMT DEF PresenceInv, PresenceTypeOK, InFlight
<1>3. ASSUME NEW j \in Processes, NEW e \in sockets'[j]
      PROVE  Renewed(j, e)'
  <2>1. e \in Devices /\ Renewed(j, e)
    BY <1>1 DEF PresenceInv, PresenceTypeOK
  <2>2. /\ CronAt(j) \in Nat /\ lastSeenAt[e] \in Nat
        /\ Allowed(lost) \in Nat /\ Allowed(lost + 1) = Allowed(lost) + Minute
    BY <2>1, CronIsNear, AllowedGrows DEF PresenceInv, PresenceTypeOK
  <2>3. CronAt(j)' = CronAt(j) /\ Allowed(lost)' = Allowed(lost + 1)
    BY <1>1 DEF CronAt, NextMark, Allowed
  <2>4. CASE CronAt(j) - lastSeenAt[e] < Allowed(lost)
    <3>1. CronAt(j) - lastSeenAt[e] < Allowed(lost + 1)
      BY <2>2, <2>4, MinuteAssumption, SMT
    <3> QED
      BY <1>1, <2>3, <3>1 DEF Renewed
  <2>5. CASE \E t \in stamps : /\ e \in t.ids /\ t.at % Minute = 0
                               /\ t.at - lastSeenAt[e] < Allowed(lost)
    <3>1. PICK t \in stamps : /\ e \in t.ids /\ t.at % Minute = 0
                             /\ t.at - lastSeenAt[e] < Allowed(lost)
      BY <2>5
    <3>2. CronAt(j) <= t.at + Minute /\ t.at \in Nat
      BY <3>1, CronAfterStamp DEF PresenceInv, PresenceTypeOK, Stamps
    <3>3. CronAt(j) - lastSeenAt[e] < Allowed(lost + 1)
      BY <2>2, <3>1, <3>2, MinuteAssumption, SMT
    <3> QED
      BY <1>1, <2>3, <3>3 DEF Renewed
  <2> QED
    BY <2>1, <2>4, <2>5 DEF Renewed
<1> QED
  BY <1>1, <1>2, <1>3 DEF PresenceInv

LEMMA LeavingKeeps ==
    ASSUME PresenceInv, NEW i \in Processes,
           (\E d \in Devices : HangUp(d, i)) \/ ProcessDies(i)
    PROVE  PresenceInv'
<1>1. /\ UNCHANGED <<clock, crons, lastSeenAt, lost>>
      /\ sockets' \in [Processes -> SUBSET Devices]
      /\ \A j \in Processes : sockets'[j] \subseteq sockets[j]
  BY DEF HangUp, ProcessDies, PresenceInv, PresenceTypeOK
<1>2. /\ stamps' \subseteq Stamps
      /\ \A s \in stamps : \E t \in stamps' : t.ids = s.ids /\ t.at = s.at
      /\ \A t \in stamps' : \E s \in stamps : t.at = s.at
  <2>1. CASE \E d \in Devices : HangUp(d, i)
    BY <2>1 DEF HangUp, PresenceInv, PresenceTypeOK
  <2>2. CASE ProcessDies(i)
    <3> DEFINE cut(s) == IF s.by = i THEN [s EXCEPT !.next = "nothing"] ELSE s
    <3>1. stamps' = {cut(s) : s \in stamps}
      BY <2>2 DEF ProcessDies
    <3>2. ASSUME NEW s \in stamps
          PROVE  cut(s) \in Stamps /\ cut(s).ids = s.ids /\ cut(s).at = s.at
      BY DEF PresenceInv, PresenceTypeOK, Stamps, Sequels
    <3> HIDE DEF cut
    <3> QED
      BY <3>1, <3>2
  <2> QED
    BY <2>1, <2>2
<1>3. PresenceTypeOK' /\ InFlight'
  BY <1>1, <1>2 DEF PresenceInv, PresenceTypeOK, InFlight
<1>4. ASSUME NEW j \in Processes, NEW e \in sockets'[j]
      PROVE  Renewed(j, e)'
  <2>1. e \in Devices /\ Renewed(j, e)
    BY <1>1 DEF PresenceInv, PresenceTypeOK
  <2> QED
    BY <1>1, <1>2, <2>1, RenewedKept
<1> QED
  BY <1>1, <1>3, <1>4 DEF PresenceInv

LEMMA ClockTicksKeeps ==
    ASSUME PresenceInv, ClockTicks
    PROVE  PresenceInv'
<1>1. /\ crons = {} /\ clock' = clock + 1
      /\ crons' = IF (clock + 1) % Minute = 0 THEN Processes ELSE {}
      /\ \A s \in stamps : clock - s.at < Latency
      /\ UNCHANGED <<sockets, lastSeenAt, stamps, lost>>
  BY DEF ClockTicks
<1>2. clock \in Nat /\ \A s \in stamps : s.at \in Nat
  BY DEF PresenceInv, PresenceTypeOK, Stamps
<1>3. PresenceTypeOK' /\ InFlight' /\ (crons # {} => clock % Minute = 0)'
  BY <1>1, <1>2, MinuteAssumption, SMT DEF PresenceInv, PresenceTypeOK, InFlight
<1>4. \A j \in Processes : CronAt(j)' = CronAt(j)
  BY <1>1, <1>2, MarkPasses DEF CronAt
<1>5. ASSUME NEW j \in Processes, NEW e \in sockets'[j]
      PROVE  Renewed(j, e)'
  BY <1>1, <1>4 DEF PresenceInv, Renewed, Allowed
<1> QED
  BY <1>3, <1>5 DEF PresenceInv

LEMMA PresenceStep == PresenceInv /\ [PresenceNext]_presenceVars => PresenceInv'
<1> SUFFICES ASSUME PresenceInv, [PresenceNext]_presenceVars
             PROVE  PresenceInv'
  OBVIOUS
<1>1. ASSUME NEW d \in Devices, NEW i \in Processes, Handshake(d, i) \/ UseToken(d, i)
      PROVE  PresenceInv'
  BY <1>1, ResolveKeeps DEF Handshake, UseToken
<1>2. CASE UNCHANGED presenceVars
  BY <1>2 DEF presenceVars, PresenceInv, PresenceTypeOK, InFlight, Renewed, CronAt, NextMark, Allowed
<1> QED
  BY <1>1, <1>2, RecordPresenceKeeps, MarkSeenKeeps, StampFailsKeeps, LeavingKeeps, ClockTicksKeeps
     DEF PresenceNext

\* A kiosk that holds a socket is never shown as older than two refresh periods and a
\* round trip, plus a period for each stamp the database refused, in whichever order the
\* stamps of the processes land (recordPresence, markSeen, resolve).
THEOREM ConnectedIsFreshHolds == PresenceSpec => []ConnectedIsFresh
<1>1. PresenceInv => ConnectedIsFresh
  <2> SUFFICES ASSUME PresenceInv, NEW d \in Devices, NEW i \in Processes, d \in sockets[i]
               PROVE  clock - lastSeenAt[d] < (2 + lost) * Minute + Latency
    BY DEF ConnectedIsFresh, Connected
  <2>1. clock \in Nat /\ lastSeenAt[d] \in Nat /\ Allowed(lost) \in Nat /\ Renewed(i, d)
    BY AllowedGrows DEF PresenceInv, PresenceTypeOK
  <2>2. CASE CronAt(i) - lastSeenAt[d] < Allowed(lost)
    <3>1. clock - lastSeenAt[d] < Allowed(lost) + Latency
      BY <2>1, <2>2, CronIsNear, MinuteAssumption, SMT
    <3> QED
      BY <3>1 DEF Allowed
  <2>3. CASE \E s \in stamps : /\ d \in s.ids /\ s.at % Minute = 0
                               /\ s.at - lastSeenAt[d] < Allowed(lost)
    <3>1. PICK s \in stamps : s.at - lastSeenAt[d] < Allowed(lost)
      BY <2>3
    <3>2. s.at \in Nat /\ clock <= s.at + Latency
      BY DEF PresenceInv, PresenceTypeOK, Stamps, InFlight
    <3>3. clock - lastSeenAt[d] < Allowed(lost) + Latency
      BY <2>1, <3>1, <3>2, MinuteAssumption, SMT
    <3> QED
      BY <3>3 DEF Allowed
  <2> QED
    BY <2>1, <2>2, <2>3 DEF Renewed
<1> QED
  BY <1>1, PresenceInitially, PresenceStep, PTL DEF PresenceSpec

-----------------------------------------------------------------------------
(* Rollout.                                                                 *)

USE DrainAssumption

Stages == {"serving", "destroying", "draining", "closing", "down"}

\* The types the argument needs: the clocks are numbers, and no probe is overdue.
ClocksOK ==
    /\ stage \in [Instances -> Stages]
    /\ left \in [Instances -> Nat]
    /\ check \in [Instances -> Nat \cup {None}]
    /\ age \in [Instances -> 0 .. Interval]
    /\ ready \in [Instances -> BOOLEAN]

\* The balancer sends nothing to an instance, and no check is left that could
\* tell it to.
Forgotten(i) == ~ready[i] /\ check[i] = None

\* While an instance drains, either it is forgotten already, or it has not been
\* probed since the drain began.  What is closed is forgotten.
DrainIsSeen ==
    \A i \in Instances :
        /\ stage[i] = "draining" => Forgotten(i) \/ age[i] + left[i] >= Drain
        /\ stage[i] \in {"closing", "down"} => Forgotten(i)

IInv == ClocksOK /\ DrainIsSeen

-----------------------------------------------------------------------------
LEMMA InvInit == Init => IInv
  BY SMT DEF Init, IInv, ClocksOK, DrainIsSeen, Stages

LEMMA InvNext == IInv /\ [Next]_vars => IInv'
<1> SUFFICES ASSUME IInv, [Next]_vars PROVE IInv'
  OBVIOUS
<1> USE DEF IInv, ClocksOK, DrainIsSeen, Forgotten, Stages
<1>1. CASE UNCHANGED vars
  BY <1>1 DEF vars
<1>2. ASSUME NEW i \in Instances, bootstrap(i) PROVE IInv'
  BY <1>2 DEF bootstrap
<1>3. ASSUME NEW i \in Instances, Sigterm(i) PROVE IInv'
  BY <1>3 DEF Sigterm
<1>4. ASSUME NEW i \in Instances, onModuleDestroy(i) PROVE IInv'
  BY <1>4, SMT DEF onModuleDestroy
\* The drain is over: had the instance not been probed in it, its last probe
\* would be longer ago than the interval.
<1>5. ASSUME NEW i \in Instances, dispose(i) PROVE IInv'
  BY <1>5, SMT DEF dispose
<1>6. ASSUME NEW i \in Instances, onApplicationShutdown(i) PROVE IInv'
  BY <1>6 DEF onApplicationShutdown
<1>7. ASSUME NEW i \in Instances, readiness(i) PROVE IInv'
  <2>1. CASE listening(i) /\ ~isDraining(i)
    <3>1. stage[i] \in {"serving", "destroying"}
      BY <2>1 DEF listening, isDraining
    <3>2. /\ check' = [check EXCEPT ![i] = CheckTimeout] /\ age' = [age EXCEPT ![i] = 0]
          /\ UNCHANGED <<stage, left, ready>>
      BY <1>7, <2>1 DEF readiness
    <3> QED BY <3>1, <3>2, SMT
  <2>2. CASE ~(listening(i) /\ ~isDraining(i))
    <3>1. /\ check[i] = None /\ ready' = [ready EXCEPT ![i] = FALSE]
          /\ age' = [age EXCEPT ![i] = 0]
          /\ UNCHANGED <<stage, left, check>>
      BY <1>7, <2>2 DEF readiness
    <3> QED BY <3>1, SMT
  <2> QED BY <2>1, <2>2, SMT
<1>8. ASSUME NEW i \in Instances, checkReadiness(i) PROVE IInv'
  BY <1>8 DEF checkReadiness
<1>9. ASSUME NEW i \in Instances, Request(i) \/ Answer(i) PROVE IInv'
  BY <1>9 DEF Request, Answer
<1>10. ASSUME NEW s \in Screens, NEW i \in Instances, handleConnection(s, i) PROVE IInv'
  BY <1>10 DEF handleConnection
<1>11. ASSUME NEW s \in Screens, onRevocation(s) PROVE IInv'
  BY <1>11 DEF onRevocation
<1>12. ASSUME NEW d \in Dependencies, Outage(d) \/ Recovery(d) PROVE IInv'
  BY <1>12 DEF Outage, Recovery
\* Time: the last probe and the end of the drain move towards each other.
<1>13. ASSUME Tick PROVE IInv'
  BY <1>13, SMT DEF Tick
<1> QED BY <1>1, <1>2, <1>3, <1>4, <1>5, <1>6, <1>7, <1>8, <1>9, <1>10, <1>11,
            <1>12, <1>13 DEF Next

\* With a drain longer than the probe interval the balancer sends no connection to
\* an instance whose listener is closed, whatever readiness checks were under way
\* when the instance was told to stop (ShutdownDrain, HealthController.readiness).
THEOREM NothingRoutedToClosedHolds == Spec => []NothingRoutedToClosed
<1>1. IInv => NothingRoutedToClosed
  BY DEF IInv, ClocksOK, DrainIsSeen, Forgotten, Stages, NothingRoutedToClosed, listening
<1> QED BY <1>1, InvInit, InvNext, PTL DEF Spec

=============================================================================

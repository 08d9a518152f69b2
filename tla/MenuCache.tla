----------------------------- MODULE MenuCache -----------------------------
(***************************************************************************)
(* GET /menu and what invalidates it: src/catalog/menu.  The catalog in     *)
(* Postgres is a revision number that every write moves.  Redis holds a     *)
(* version counter and one rendered document per version; the ETag a kiosk  *)
(* holds is the version alone.  A poll is a version read, a document read,  *)
(* a build and a cache write, and a catalog write is a commit and a bump,   *)
(* all of which interleave.                                                 *)
(***************************************************************************)
EXTENDS Naturals

CONSTANTS
    Kiosks,      \* clients, each with at most one poll in flight
    Writers,     \* in-flight catalog writes
    MaxRevision, \* bound on catalog writes
    MaxVersion,  \* bound on the version counter
    LostBumps,   \* bound on bumps that fail
    ColdStarts   \* bound on Redis coming back empty

ASSUME BoundsAssumption ==
    MaxRevision \in Nat /\ MaxVersion \in Nat /\ LostBumps \in Nat /\ ColdStarts \in Nat

VARIABLES
    menu,     \* the committed revision of the catalog
    writes,   \* the revision a writer has committed and not yet bumped for, or 0
    version,  \* catalog:version, 0 when the key is missing
    docs,     \* catalog:menu:v<n>: the revision rendered, or Missing
    polls,    \* what a poll in flight has so far
    held,     \* what a kiosk shows: its ETag (0 for none) and revision
    bumped,   \* per version, the newest write whose bump it answers for
    lost, cold

redis == <<version, docs, bumped>>
menuVars == <<menu, writes, version, docs, polls, held, bumped, lost, cold>>

Versions == 0..MaxVersion
Missing == MaxRevision + 1

NoPoll == [phase |-> "idle", version |-> 0, floor |-> 0, revision |-> 0]

-----------------------------------------------------------------------------
(* Catalog writes, with CatalogWriteInterceptor behind them. *)

Commit(w) ==
    /\ writes[w] = 0 /\ menu < MaxRevision
    /\ menu' = menu + 1
    /\ writes' = [writes EXCEPT ![w] = menu + 1]
    /\ UNCHANGED <<redis, polls, held, lost, cold>>

\* INCR, which creates a missing counter; `revision` is the write it answers for.
incr(revision) ==
    /\ version < MaxVersion
    /\ version' = version + 1
    /\ bumped' = [bumped EXCEPT ![version + 1] =
                     IF revision > bumped[version] THEN revision ELSE bumped[version]]

\* MUTANT of bump: the interceptor answers first and bumps when it gets to it.
bumpLater(w) ==
    /\ writes[w] # 0
    /\ bumped' = [bumped EXCEPT ![version] =
                     IF writes[w] > bumped[version] THEN writes[w] ELSE bumped[version]]
    /\ writes' = [writes EXCEPT ![w] = 0]
    /\ UNCHANGED <<menu, version, docs, polls, held, lost, cold>>

\* The bump finishes before the response goes out.
bump(w) ==
    /\ writes[w] # 0
    /\ incr(writes[w])
    /\ writes' = [writes EXCEPT ![w] = 0]
    /\ UNCHANGED <<menu, docs, polls, held, lost, cold>>

\* Redis is unreachable: a warning, and the write stands.
bumpFails(w) ==
    /\ writes[w] # 0 /\ lost < LostBumps
    /\ lost' = lost + 1
    /\ writes' = [writes EXCEPT ![w] = 0]
    /\ UNCHANGED <<menu, redis, polls, held, cold>>

-----------------------------------------------------------------------------
(* MenuController.get, MenuService.document. *)

\* What a response leaves at the kiosk; `floor` is what a poll that started
\* when this one did has to show.
Respond(k, tag, revision, floor) ==
    /\ held' = [held EXCEPT ![k] = [tag |-> tag, revision |-> revision, floor |-> floor]]
    /\ polls' = [polls EXCEPT ![k] = NoPoll]

\* A matching ETag is a 304: no document is looked at.
matchesEtag(k, v, floor) ==
    IF held[k].tag = v
    THEN Respond(k, v, held[k].revision, floor)
    ELSE /\ polls' = [polls EXCEPT ![k] = [phase |-> "read", version |-> v,
                                           floor |-> floor, revision |-> 0]]
         /\ UNCHANGED held

currentVersion(k) ==
    /\ polls[k] = NoPoll
    /\ IF version = 0
       THEN polls' = [polls EXCEPT ![k].phase = "create"] /\ UNCHANGED held
       ELSE matchesEtag(k, version, bumped[version])
    /\ UNCHANGED <<menu, writes, redis, lost, cold>>

\* A missing counter is created with a second command; a bump or another poll
\* may have created it in between.
createVersion(k) ==
    /\ polls[k].phase = "create"
    /\ incr(0)
    /\ matchesEtag(k, version', bumped'[version'])
    /\ UNCHANGED <<menu, writes, docs, lost, cold>>

\* Redis is unreachable: the menu is built and sent without an ETag.
currentVersionFails(k) ==
    /\ polls[k].phase \in {"idle", "create"}
    /\ polls' = [polls EXCEPT ![k] = [phase |-> "build", version |-> 0,
                                      floor |-> bumped[version], revision |-> 0]]
    /\ UNCHANGED <<menu, writes, redis, held, lost, cold>>

read(k) ==
    LET p == polls[k] IN
    /\ p.phase = "read"
    /\ IF docs[p.version] # Missing
       THEN Respond(k, p.version, docs[p.version], p.floor)
       ELSE polls' = [polls EXCEPT ![k].phase = "build"] /\ UNCHANGED held
    /\ UNCHANGED <<menu, writes, redis, lost, cold>>

\* A failed read is a miss.
readFails(k) ==
    /\ polls[k].phase = "read"
    /\ polls' = [polls EXCEPT ![k].phase = "build"]
    /\ UNCHANGED <<menu, writes, redis, held, lost, cold>>

\* One query, so one snapshot.
build(k) ==
    LET p == polls[k] IN
    /\ p.phase = "build"
    /\ IF p.version = 0
       THEN Respond(k, 0, menu, p.floor)
       ELSE /\ polls' = [polls EXCEPT ![k] = [phase |-> "write", version |-> p.version,
                                              floor |-> p.floor, revision |-> menu]]
            /\ UNCHANGED held
    /\ UNCHANGED <<menu, writes, redis, lost, cold>>

\* The document goes under the version that was read first, or the write fails.
write(k) ==
    LET p == polls[k] IN
    /\ p.phase = "write"
    /\ \/ docs' = [docs EXCEPT ![p.version] = p.revision]
       \/ UNCHANGED docs
    /\ Respond(k, p.version, p.revision, p.floor)
    /\ UNCHANGED <<menu, writes, version, bumped, lost, cold>>

-----------------------------------------------------------------------------
(* Redis by itself. *)

\* DOCUMENT_TTL_SECONDS.
DocumentExpires(v) ==
    /\ docs[v] # Missing
    /\ docs' = [docs EXCEPT ![v] = Missing]
    /\ UNCHANGED <<menu, writes, version, bumped, polls, held, lost, cold>>

ColdRedis ==
    /\ cold < ColdStarts
    /\ cold' = cold + 1
    /\ version' = 0
    /\ bumped' = [bumped EXCEPT ![0] = bumped[version]]
    /\ docs' = [v \in Versions |-> Missing]
    /\ UNCHANGED <<menu, writes, polls, held, lost>>

-----------------------------------------------------------------------------
MenuInit ==
    /\ menu = 0
    /\ writes = [w \in Writers |-> 0]
    /\ version = 0
    /\ docs = [v \in Versions |-> Missing]
    /\ polls = [k \in Kiosks |-> NoPoll]
    /\ held = [k \in Kiosks |-> [tag |-> 0, revision |-> 0, floor |-> 0]]
    /\ bumped = [v \in Versions |-> 0]
    /\ lost = 0 /\ cold = 0

Poll(k) == currentVersion(k) \/ createVersion(k) \/ read(k) \/ build(k) \/ write(k)

MenuNext ==
    \/ \E w \in Writers : Commit(w) \/ bump(w) \/ bumpFails(w)
    \/ \E k \in Kiosks : Poll(k) \/ currentVersionFails(k) \/ readFails(k)
    \/ \E v \in Versions : DocumentExpires(v)
    \/ ColdRedis

MenuSpec == MenuInit /\ [][MenuNext]_menuVars

Revisions == 0..MaxRevision

MenuTypeOK ==
    /\ menu \in Revisions
    /\ writes \in [Writers -> Revisions]
    /\ version \in Versions
    /\ docs \in [Versions -> Revisions \cup {Missing}]
    /\ polls \in [Kiosks -> [phase : {"idle", "create", "read", "build", "write"}, version : Versions,
                            floor : Revisions, revision : Revisions]]
    /\ \A k \in Kiosks : polls[k].phase \in {"read", "write"} => polls[k].version # 0
    /\ held \in [Kiosks -> [tag : Versions, revision : Revisions, floor : Revisions]]
    /\ bumped \in [Versions -> Revisions]
    /\ lost \in 0..LostBumps /\ cold \in 0..ColdStarts

\* A poll that starts after a write's bump succeeded shows that write, from
\* the cache, from a 304 or built, however slow builders and other writers
\* interleave (CatalogWriteInterceptor, MenuCacheService).
FreshAfterBump == \A k \in Kiosks : held[k].revision >= held[k].floor

\* Kiosks poll for ever, awaits end, a pending bump is made and a document's
\* TTL runs out.
MenuFairness ==
    /\ \A k \in Kiosks : WF_menuVars(Poll(k))
    /\ \A w \in Writers : WF_menuVars(bump(w) \/ bumpFails(w))
    /\ \A v \in Versions : WF_menuVars(DocumentExpires(v))

MenuFairSpec == MenuSpec /\ MenuFairness

\* FR-3: once the writes stop, every kiosk comes to show the catalog as it is.
KioskCatchesUp == \A k \in Kiosks : <>[](held[k].revision = menu)

=============================================================================

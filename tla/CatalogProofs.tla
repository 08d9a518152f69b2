--------------------------- MODULE CatalogProofs ----------------------------
(* Proofs about ItemImages, ItemOptionGroups and SeedRuns, for any number of*)
(* items, uploads, requests, runs of the seed and rows it plans.            *)
EXTENDS ItemImages, ItemOptionGroups, SeedRuns, TLAPS

\* A leaf is first-order reasoning, unless it says that it needs SMT.
USE Zenon

-----------------------------------------------------------------------------
(* ItemImages.                                                              *)

UploadRecord == [at : {"idle", "put", "update"}, item : Pictured \cup {None},
                 digest : Digests \cup {None}]

\* An upload is about to link only what it has stored, and nothing is ever deleted.
StoredFirst ==
    /\ imageUrl \in [Pictured -> Digests \cup {None, Elsewhere}]
    /\ upload \in [Instances -> UploadRecord]
    /\ \A i \in Instances : upload[i].at = "update" => upload[i].digest \in objects
    /\ LinkedIsStored

LEMMA ImagesInitially == ImagesInit => StoredFirst
<1> SUFFICES ASSUME ImagesInit PROVE StoredFirst
  OBVIOUS
<1>1. imageUrl = [m \in Pictured |-> None] /\ upload = [i \in Instances |-> NoUpload]
  BY DEF ImagesInit
<1>2. imageUrl \in [Pictured -> Digests \cup {None, Elsewhere}] /\ LinkedIsStored
  BY <1>1, UrlsAssumption DEF LinkedIsStored
<1>3. NoUpload \in UploadRecord /\ NoUpload.at = "idle"
  BY DEF NoUpload, UploadRecord
<1> QED
  BY <1>1, <1>2, <1>3 DEF StoredFirst

LEMMA ImagesStep == StoredFirst /\ [ImagesNext]_imageVars => StoredFirst'
<1> SUFFICES ASSUME StoredFirst, [ImagesNext]_imageVars
             PROVE  StoredFirst'
  OBVIOUS
<1> USE UrlsAssumption DEF StoredFirst, UploadRecord, LinkedIsStored
<1>1. CASE UNCHANGED <<objects, imageUrl, upload>>
  BY <1>1
<1>2. ASSUME NEW i \in Instances, Boots(i)
      PROVE  UNCHANGED <<objects, imageUrl, upload>>
  BY <1>2 DEF Boots, headBucket, createBucket, allowPublicReads
<1>3. ASSUME NEW i \in Instances, NEW m \in Pictured, NEW d \in Digests, replace(i, m, d)
      PROVE  StoredFirst'
  BY <1>3 DEF replace
<1>4. ASSUME NEW i \in Instances, put(i)
      PROVE  StoredFirst'
  <2>1. CASE /\ objects' = objects \cup {upload[i].digest}
             /\ upload' = [upload EXCEPT ![i].at = "update"]
    <3>1. upload' \in [Instances -> UploadRecord]
      BY <2>1
    <3>2. /\ upload'[i].at = "update" /\ upload'[i].digest = upload[i].digest
          /\ upload'[i].item = upload[i].item
          /\ \A j \in Instances : j # i => upload'[j] = upload[j]
      BY <2>1
    <3> QED
      BY <1>4, <2>1, <3>1, <3>2 DEF put
  <2>2. CASE upload' = [upload EXCEPT ![i] = NoUpload] /\ UNCHANGED objects
    BY <1>4, <2>2 DEF put, NoUpload
  <2> QED
    BY <1>4, <2>1, <2>2 DEF put
<1>5. ASSUME NEW i \in Instances, link(i)
      PROVE  StoredFirst'
  BY <1>5 DEF link, NoUpload
<1>6. ASSUME NEW m \in Pictured, NEW url \in {None, Elsewhere}, update(m, url)
      PROVE  StoredFirst'
  BY <1>6 DEF update
<1>7. ASSUME NEW i \in Instances, Restart(i)
      PROVE  StoredFirst'
  BY <1>7 DEF Restart, NoUpload
<1>8. UNCHANGED imageVars => UNCHANGED <<objects, imageUrl, upload>>
  BY DEF imageVars
<1> QED
  BY <1>1, <1>2, <1>3, <1>4, <1>5, <1>6, <1>7, <1>8 DEF ImagesNext

\* An item never shows one of our URLs without its picture in the bucket, whichever
\* uploads, edits, failures and restarts interleave (replace stores, then links).
THEOREM LinkedIsStoredHolds == ImagesSpec => []LinkedIsStored
<1>1. StoredFirst => LinkedIsStored
  BY DEF StoredFirst
<1> QED
  BY <1>1, ImagesInitially, ImagesStep, PTL DEF ImagesSpec

-----------------------------------------------------------------------------
(* ItemOptionGroups.                                                        *)

PutRows == (Attachable \cup UNION Bodies) \X (Puts \cup {Unset})

PutRecord == [pc : {"new", "deleting", "deleted", "inserted", "done", "failed"}, body : Bodies,
              seen : SUBSET PutRows, gone : SUBSET PutRows, added : SUBSET PutRows]

\* A request deletes what it saw and inserts its body, ...
PutsTypeOK ==
    /\ attachments \subseteq PutRows
    /\ tx \in [Puts -> PutRecord]
    /\ \A p \in Puts :
          /\ tx[p].gone \subseteq tx[p].seen
          /\ tx[p].pc = "inserted" => tx[p].added = tx[p].body \X {p}

\* ... and nobody has seen its rows before it commits.
UnseenRows(q) ==
    tx[q].pc # "done" => /\ \A row \in attachments : row[2] # q
                         /\ \A p \in Puts : \A row \in tx[p].seen : row[2] # q

\* The rows of a request are there all together or not at all: in the table, in what a
\* DELETE saw and in what it deleted.
Whole(rows, body) ==
    \A q \in Puts : \A row \in rows : row[2] = q =>
        row \in body[q] \X {q} /\ body[q] \X {q} \subseteq rows

Body == [q \in Puts |-> tx[q].body]

WholeRows ==
    /\ Whole(attachments, Body)
    /\ \A p \in Puts : Whole(tx[p].seen, Body) /\ Whole(tx[p].gone, Body)

\* What a request has not seen came from another; what it saw and is still there it has
\* deleted; and once it has inserted, what it does not delete has no group of its own.
KnowsRest(p) ==
    /\ Open(p) => \A row \in attachments \ tx[p].seen : row[2] \in Puts
    /\ tx[p].pc \in {"deleted", "inserted"} => attachments \cap tx[p].seen \subseteq tx[p].gone
    /\ tx[p].pc = "inserted" =>
          /\ \A row \in attachments \ tx[p].gone : Body[row[2]] \cap Body[p] = {}
          /\ \A q \in Puts \ {p} : tx[q].pc = "inserted" => Body[q] \cap Body[p] = {}

PutsInv ==
    /\ PutsTypeOK /\ WholeRows
    /\ \A p \in Puts : UnseenRows(p) /\ KnowsRest(p)

\* What a request leaves behind, at its commit.
Leaves(p) ==
    Commits(p) => /\ tx[p].body \subseteq GroupsOf(attachments')
                  /\ \A row \in attachments' : row[1] \in tx[p].body \/ SlippedIn(p, row)

LEMMA PutsInitially == PutsInit => PutsInv
<1> SUFFICES ASSUME PutsInit PROVE PutsInv
  OBVIOUS
<1>1. /\ attachments \subseteq PutRows /\ \A row \in attachments : row[2] = Unset
      /\ tx \in [Puts -> PutRecord]
      /\ \A p \in Puts : tx[p].pc = "new" /\ tx[p].seen = {} /\ tx[p].gone = {} /\ tx[p].added = {}
  BY SMT DEF PutsInit, PutRows, PutRecord
<1> QED
  BY <1>1, PutsAssumption DEF PutsInv, PutsTypeOK, UnseenRows, WholeRows, Whole, KnowsRest, Open

\* Sets of rows that are whole stay so when they are cut or joined.
LEMMA WholeCuts ==
    ASSUME NEW body, NEW a, NEW b, Whole(a, body), Whole(b, body)
    PROVE  Whole(a \cap b, body) /\ Whole(a \ b, body)
<1>1. Whole(a \cap b, body)
  BY DEF Whole
<1>2. Whole(a \ b, body)
  BY DEF Whole
<1> QED
  BY <1>1, <1>2

\* What a step of one request makes of the records.
LEMMA PutMoves ==
    ASSUME PutsTypeOK, NEW p \in Puts, NEW pc, NEW seen, NEW gone, NEW added,
           Becomes(p, pc, seen, gone, added), attachments' \subseteq PutRows,
           pc \in {"deleting", "deleted", "inserted", "done", "failed"},
           seen \subseteq PutRows, gone \subseteq seen, added \subseteq PutRows,
           pc = "inserted" => added = tx[p].body \X {p}
    PROVE  /\ PutsTypeOK'
           /\ tx'[p].pc = pc /\ tx'[p].seen = seen /\ tx'[p].gone = gone
           /\ \A q \in Puts \ {p} : tx'[q] = tx[q]
           /\ Body' = Body
<1> DEFINE r == [pc |-> pc, body |-> tx[p].body, seen |-> seen, gone |-> gone, added |-> added]
<1>1. r \in PutRecord
  BY DEF PutRecord, PutsTypeOK
<1>2. tx' = [tx EXCEPT ![p] = r]
  BY DEF Becomes
<1>3. r.pc = pc /\ r.seen = seen /\ r.gone = gone /\ r.body = tx[p].body /\ r.added = added
  OBVIOUS
<1> HIDE DEF r
<1>4. tx' \in [Puts -> PutRecord] /\ tx'[p] = r /\ \A q \in Puts \ {p} : tx'[q] = tx[q]
  BY <1>1, <1>2 DEF PutsTypeOK
<1>5. \A q \in Puts : tx'[q].body = tx[q].body
  BY <1>3, <1>4
<1>6. PutsTypeOK'
  BY <1>3, <1>4 DEF PutsTypeOK
<1> QED
  BY <1>3, <1>4, <1>5, <1>6 DEF Body

LEMMA SetForItemKeeps ==
    ASSUME PutsInv, NEW p \in Puts, setForItem(p)
    PROVE  PutsInv' /\ \A q \in Puts : Leaves(q)
<1>1. /\ tx[p].pc = "new" /\ attachments' = attachments /\ attachments \subseteq PutRows
      /\ Becomes(p, "deleting", attachments, {}, {})
  BY DEF setForItem, PutsInv, PutsTypeOK
<1>2. /\ PutsTypeOK' /\ tx'[p].pc = "deleting" /\ tx'[p].seen = attachments /\ tx'[p].gone = {}
      /\ \A q \in Puts \ {p} : tx'[q] = tx[q]
      /\ Body' = Body
  BY <1>1, PutMoves, SMT DEF PutsInv
<1>3. \A q \in Puts : UnseenRows(q)'
  BY <1>1, <1>2, SMT DEF PutsInv, UnseenRows
<1>4. WholeRows'
  BY <1>1, <1>2 DEF PutsInv, WholeRows, Whole
<1>5. \A q \in Puts : KnowsRest(q)'
  BY <1>1, <1>2, ZenonT(30) DEF PutsInv, KnowsRest, Open
<1>6. \A q \in Puts : Leaves(q)
  BY <1>1, <1>2 DEF Leaves, Commits
<1> QED
  BY <1>2, <1>3, <1>4, <1>5, <1>6 DEF PutsInv

LEMMA DeleteRowsKeeps ==
    ASSUME PutsInv, NEW p \in Puts, deleteRows(p)
    PROVE  PutsInv' /\ \A q \in Puts : Leaves(q)
<1> DEFINE seen == tx[p].seen
<1>1. /\ tx[p].pc = "deleting" /\ attachments' = attachments /\ attachments \subseteq PutRows
      /\ seen \subseteq PutRows
      /\ Becomes(p, "deleted", seen, seen \cap attachments, {})
  BY DEF deleteRows, PutsInv, PutsTypeOK, PutRecord
<1>a. Whole(seen, Body) /\ Whole(attachments, Body)
  BY DEF PutsInv, WholeRows
<1> HIDE DEF seen
<1>2. /\ PutsTypeOK' /\ tx'[p].pc = "deleted" /\ tx'[p].seen = seen
      /\ tx'[p].gone = seen \cap attachments
      /\ \A q \in Puts \ {p} : tx'[q] = tx[q]
      /\ Body' = Body
  BY <1>1, PutMoves, SMT DEF PutsInv
<1>3. \A q \in Puts : UnseenRows(q)'
  BY <1>1, <1>2, SMT DEF PutsInv, UnseenRows, seen
<1>4. WholeRows'
  <2>1. Whole(seen \cap attachments, Body)
    BY <1>a, WholeCuts
  <2>2. \A rows : Whole(rows, Body') <=> Whole(rows, Body)
    BY <1>2
  <2> QED
    BY <1>1, <1>2, <1>a, <2>1, <2>2 DEF PutsInv, WholeRows
<1>5. \A q \in Puts : KnowsRest(q)'
  BY <1>1, <1>2, ZenonT(30) DEF PutsInv, KnowsRest, Open, seen
<1>6. \A q \in Puts : Leaves(q)
  BY <1>1, <1>2 DEF Leaves, Commits
<1> QED
  BY <1>2, <1>3, <1>4, <1>5, <1>6 DEF PutsInv

\* A request that fails takes nothing with it.
LEMMA PutFails ==
    ASSUME PutsInv, NEW p \in Puts, tx[p].pc # "done", Becomes(p, "failed", tx[p].seen, {}, {}),
           attachments' = attachments
    PROVE  PutsInv' /\ \A q \in Puts : Leaves(q)
<1>1. attachments \subseteq PutRows /\ tx[p].seen \subseteq PutRows
  BY DEF PutsInv, PutsTypeOK, PutRecord
<1>2. /\ PutsTypeOK' /\ tx'[p].pc = "failed" /\ tx'[p].seen = tx[p].seen /\ tx'[p].gone = {}
      /\ \A q \in Puts \ {p} : tx'[q] = tx[q]
      /\ Body' = Body
  BY <1>1, PutMoves, SMT DEF PutsInv
<1>3. \A q \in Puts : UnseenRows(q)'
  BY <1>2, SMT DEF PutsInv, UnseenRows
<1>4. WholeRows'
  BY <1>1, <1>2 DEF PutsInv, WholeRows, Whole
<1>5. \A q \in Puts : KnowsRest(q)'
  BY <1>2, SMT DEF PutsInv, KnowsRest, Open
<1>6. \A q \in Puts : Leaves(q)
  BY <1>2 DEF Leaves, Commits
<1> QED
  BY <1>2, <1>3, <1>4, <1>5, <1>6 DEF PutsInv

\* Of two requests with a group in common, the second has to wait before it inserts.
LEMMA InsertRowsKeeps ==
    ASSUME PutsInv, NEW p \in Puts, insertRows(p)
    PROVE  PutsInv' /\ \A q \in Puts : Leaves(q)
<1>1. /\ tx[p].pc = "deleted" /\ attachments' = attachments /\ attachments \subseteq PutRows
      /\ tx[p].seen \subseteq PutRows /\ tx[p].gone \subseteq tx[p].seen
      /\ tx[p].body \X {p} \subseteq PutRows
  BY DEF insertRows, PutsInv, PutsTypeOK, PutRecord, PutRows
<1>2. CASE Becomes(p, "failed", tx[p].seen, {}, {})
  BY <1>1, <1>2, PutFails
<1>3. CASE /\ tx[p].body \cap GroupsOf(attachments \ tx[p].gone) = {}
           /\ Becomes(p, "inserted", tx[p].seen, tx[p].gone, tx[p].body \X {p})
  <2>1. /\ PutsTypeOK' /\ tx'[p].pc = "inserted" /\ tx'[p].seen = tx[p].seen
        /\ tx'[p].gone = tx[p].gone
        /\ \A q \in Puts \ {p} : tx'[q] = tx[q]
        /\ Body' = Body
    BY <1>1, <1>3, PutMoves, SMT DEF PutsInv
  <2>2. ASSUME NEW q \in Puts \ {p}, tx[q].pc = "inserted"
        PROVE  Body[p] \cap Body[q] = {}
    <3>1. tx[q].added = tx[q].body \X {q} /\ q \in Others(p)
      BY <2>2 DEF PutsInv, PutsTypeOK, Others, Open
    <3>2. tx[p].body \cap GroupsOf(tx[q].gone \cup tx[q].added) = {}
      BY <3>1 DEF insertRows
    <3>3. \A g \in tx[q].body : <<g, q>> \in tx[q].gone \cup tx[q].added /\ <<g, q>>[1] = g
      BY <3>1
    <3>4. tx[q].body \subseteq GroupsOf(tx[q].gone \cup tx[q].added)
      BY <3>3 DEF GroupsOf
    <3> QED
      BY <3>2, <3>4 DEF Body
  <2>3. ASSUME NEW row \in attachments \ tx[p].gone PROVE Body[row[2]] \cap Body[p] = {}
    <3>1. row[2] \in Puts
      BY <1>1 DEF PutsInv, KnowsRest, Open
    <3>2. Whole(attachments \ tx[p].gone, Body)
      BY WholeCuts DEF PutsInv, WholeRows
    <3>3. Body[row[2]] \X {row[2]} \subseteq attachments \ tx[p].gone
      BY <3>1, <3>2 DEF Whole
    <3>4. \A g \in Body[row[2]] : g \in GroupsOf(attachments \ tx[p].gone)
      <4>1. \A g \in Body[row[2]] : <<g, row[2]>> \in attachments \ tx[p].gone /\ <<g, row[2]>>[1] = g
        BY <3>3
      <4> QED
        BY <4>1 DEF GroupsOf
    <3> QED
      BY <1>3, <3>4 DEF Body
  <2>4. \A q \in Puts : UnseenRows(q)'
    BY <1>1, <2>1, SMT DEF PutsInv, UnseenRows
  <2>5. WholeRows'
    BY <1>1, <2>1 DEF PutsInv, WholeRows
  <2>6. KnowsRest(p)'
    BY <1>1, <2>1, <2>2, <2>3 DEF PutsInv, KnowsRest, Open
  <2>7. ASSUME NEW q \in Puts \ {p} PROVE KnowsRest(q)'
    BY <1>1, <2>1, <2>2 DEF PutsInv, KnowsRest, Open
  <2>8. \A q \in Puts : Leaves(q)
    BY <1>1, <2>1 DEF Leaves, Commits
  <2> QED
    BY <2>1, <2>4, <2>5, <2>6, <2>7, <2>8 DEF PutsInv
<1> QED
  BY <1>2, <1>3 DEF insertRows

\* A commit puts the body in the place of what was seen and is still there.
LEMMA CommitPutKeeps ==
    ASSUME PutsInv, NEW p \in Puts, CommitPut(p)
    PROVE  PutsInv' /\ \A q \in Puts : Leaves(q)
<1>1. /\ tx[p].pc = "inserted" /\ tx[p].seen \subseteq PutRows
      /\ attachments' = (attachments \ tx[p].gone) \cup (tx[p].body \X {p})
      /\ Becomes(p, "done", tx[p].seen, {}, {})
  BY DEF CommitPut, PutsInv, PutsTypeOK, PutRecord
<1>2. attachments' \subseteq PutRows
  BY <1>1 DEF PutsInv, PutsTypeOK, PutRecord, PutRows
<1>3. /\ PutsTypeOK' /\ tx'[p].pc = "done" /\ tx'[p].seen = tx[p].seen /\ tx'[p].gone = {}
      /\ \A q \in Puts \ {p} : tx'[q] = tx[q]
      /\ Body' = Body
  BY <1>1, <1>2, PutMoves, SMT DEF PutsInv
<1>4. /\ \A row \in attachments' : row \in attachments \ tx[p].gone \/ (row[2] = p /\ row[1] \in tx[p].body)
      /\ \A g \in tx[p].body : <<g, p>> \in attachments' /\ <<g, p>>[1] = g /\ <<g, p>>[2] = p
  BY <1>1
<1>5. \A q \in Puts : UnseenRows(q)'
  BY <1>3, <1>4, SMT DEF PutsInv, UnseenRows
<1>6. WholeRows'
  <2>1. Whole(attachments \ tx[p].gone, Body) /\ \A row \in attachments \ tx[p].gone : row[2] # p
    BY <1>1, WholeCuts DEF PutsInv, WholeRows, UnseenRows
  <2>2. Body[p] = tx[p].body
    BY DEF Body
  <2>3. Whole(attachments', Body)
    BY <1>1, <2>1, <2>2 DEF Whole
  <2>4. Whole({}, Body)
    BY DEF Whole
  <2>5. \A q \in Puts : Whole(tx'[q].seen, Body) /\ Whole(tx'[q].gone, Body)
    BY <1>3, <2>4 DEF PutsInv, WholeRows
  <2> QED
    BY <1>3, <2>3, <2>5 DEF WholeRows
<1>7. ASSUME NEW q \in Puts \ {p} PROVE KnowsRest(q)'
  <2>1. \A row \in tx[q].seen : row[2] # p
    BY <1>1 DEF PutsInv, UnseenRows
  <2>2. tx'[q] = tx[q] /\ Open(q)' = Open(q)
    BY <1>3 DEF Open
  <2>3. Open(q) => \A row \in attachments' \ tx[q].seen : row[2] \in Puts
    BY <1>4 DEF PutsInv, KnowsRest
  <2>4. tx[q].pc \in {"deleted", "inserted"} => attachments' \cap tx[q].seen \subseteq tx[q].gone
    BY <1>4, <2>1 DEF PutsInv, KnowsRest
  <2>5. tx[q].pc = "inserted" => \A row \in attachments' \ tx[q].gone : Body[row[2]] \cap Body[q] = {}
    BY <1>1, <1>4 DEF PutsInv, KnowsRest
  <2>6. tx[q].pc = "inserted" => \A k \in Puts \ {q} : tx'[k].pc = "inserted" => Body[k] \cap Body[q] = {}
    BY <1>3 DEF PutsInv, KnowsRest
  <2> QED
    BY <1>3, <2>2, <2>3, <2>4, <2>5, <2>6 DEF KnowsRest
<1>8. KnowsRest(p)'
  BY <1>3 DEF KnowsRest, Open
<1>9. Leaves(p)
  <2>1. tx[p].body \subseteq GroupsOf(attachments')
    BY <1>4 DEF GroupsOf
  <2>2. ASSUME NEW row \in attachments \ tx[p].gone PROVE SlippedIn(p, row)
    <3>1. row \notin tx[p].seen
      BY <1>1 DEF PutsInv, KnowsRest
    <3>2. row[2] \in Puts /\ row[2] # p
      BY <1>1, <3>1 DEF PutsInv, KnowsRest, Open, UnseenRows
    <3>3. Body[row[2]] \cap Body[p] = {}
      BY <1>1 DEF PutsInv, KnowsRest
    <3> QED
      BY <3>1, <3>2, <3>3 DEF SlippedIn, Body
  <2> QED
    BY <1>4, <2>1, <2>2 DEF Leaves
<1>10. \A q \in Puts \ {p} : Leaves(q)
  BY <1>3 DEF Leaves, Commits
<1> QED
  BY <1>3, <1>5, <1>6, <1>7, <1>8, <1>9, <1>10 DEF PutsInv

LEMMA PutsStep == PutsInv /\ [PutsNext]_putVars => PutsInv' /\ \A p \in Puts : Leaves(p)
<1> SUFFICES ASSUME PutsInv, [PutsNext]_putVars PROVE PutsInv' /\ \A p \in Puts : Leaves(p)
  OBVIOUS
<1>1. CASE UNCHANGED putVars
  BY <1>1, ZenonT(30) DEF putVars, PutsInv, PutsTypeOK, UnseenRows, WholeRows, Body, KnowsRest, Open, Leaves, Commits
<1>2. ASSUME NEW p \in Puts, Rollback(p)
      PROVE  PutsInv' /\ \A q \in Puts : Leaves(q)
  BY <1>2, PutFails DEF Rollback, Open
<1> QED
  BY <1>1, <1>2, SetForItemKeeps, DeleteRowsKeeps, InsertRowsKeeps, CommitPutKeeps, SMT DEF PutsNext

\* A PUT of option groups that succeeds leaves the item with the groups it asked for, and
\* with others only from a request that has none in common with it and committed since its
\* DELETE began, for any number of requests at once and of groups (setForItem: the DELETE
\* waits, or the primary key refuses the INSERT).
THEOREM ReplacesWholeSetHolds == PutsSpec => ReplacesWholeSet
<1>1. PutsSpec => [][\A p \in Puts : Leaves(p)]_putVars
  BY PutsInitially, PutsStep, PTL DEF PutsSpec
<1> QED
  BY <1>1 DEF ReplacesWholeSet, Leaves

-----------------------------------------------------------------------------
(* SeedRuns.                                                                *)

First == Plan[1]
View(r) == committed \cup pending[r]
Active(r) == phase[r] \in {"finding", "inserting"}
Seeded == \E row \in committed : row.key = First
Holding(r) == \E row \in pending[r] : row.key = First

RunsTypeOK ==
    /\ pending = [r \in Runs |-> pending[r]]
    /\ picked = [r \in Runs |-> picked[r]]
    /\ pos \in [Runs -> Nat \ {0}]
    /\ phase \in [Runs -> {"idle", "finding", "inserting", "done", "failed"}]
    /\ \A r \in Runs : \A row \in pending[r] : row.by = r

\* One row for every key, which refers to the rows of its parents.
OneRowEach(rows) == \A a, b \in rows : a.key = b.key => a = b

RefersWithin(rows) ==
    \A a \in rows : /\ a.key \in Keys
                    /\ a.of = [p \in Parents[a.key] |-> a.of[p]]
                    /\ \A p \in Parents[a.key] : \E b \in rows : b.key = p /\ a.of[p] = b.by

\* A run has a row for every key it has passed, and knows which.
Passed(r) ==
    \A n \in DOMAIN Plan : n < pos[r] =>
        /\ \E a \in View(r) : a.key = Plan[n]
        /\ Kind[Plan[n]] # "link" =>
              /\ Plan[n] \in DOMAIN picked[r]
              /\ picked[r][Plan[n]] \in View(r) /\ picked[r][Plan[n]].key = Plan[n]

\* A run that has passed the first account has inserted it, and is the only one, or came
\* after a run that did and committed everything.
Behaves(r) ==
    /\ Active(r) /\ pos[r] > 1 => Seeded \/ Holding(r)
    /\ Active(r) => Passed(r)
    /\ phase[r] = "idle" => pos[r] = 1
    /\ phase[r] = "done" => Seeded
    /\ pending[r] # {} => /\ Active(r) /\ pos[r] > 1 /\ Holding(r) /\ ~Seeded
                          /\ \A q \in Runs \ {r} : pending[q] = {}
    /\ \A a \in pending[r] : \E n \in DOMAIN Plan : n < pos[r] /\ a.key = Plan[n]
    /\ phase[r] = "inserting" =>
          /\ pos[r] <= Len(Plan)
          /\ pos[r] > 1 /\ Kind[key(r)] # "link" => \A a \in View(r) : a.key # key(r)
    /\ OneRowEach(View(r)) /\ RefersWithin(View(r))

Guarded ==
    /\ OneRowEach(committed) /\ RefersWithin(committed)
    /\ Seeded => \A k \in Keys : \E a \in committed : a.key = k
    /\ \A r \in Runs : Behaves(r)

SeedInv == RunsTypeOK /\ (Fresh => Guarded)

LEMMA PlanFacts ==
    /\ Len(Plan) \in Nat /\ DOMAIN Plan = 1..Len(Plan) /\ 1 \in DOMAIN Plan
    /\ \A n \in DOMAIN Plan : Plan[n] \in Keys
    /\ \A k \in Keys : \E n \in DOMAIN Plan : Plan[n] = k
    /\ First \in Keys
<1>1. Len(Plan) \in Nat /\ DOMAIN Plan = 1..Len(Plan)
  BY PlanAssumption, SMT
<1>2. Len(Plan) # 0
  BY PlanAssumption, SMT
<1> QED
  BY <1>1, <1>2, SMT DEF Keys, First

LEMMA SeedInitially == SeedInit => SeedInv
<1> SUFFICES ASSUME SeedInit PROVE SeedInv
  OBVIOUS
<1>1. PICK have \in SUBSET Keys :
         /\ \A k \in have : Parents[k] \subseteq have
         /\ committed = {[key |-> k, by |-> 0, of |-> [p \in Parents[k] |-> 0]] : k \in have}
  BY DEF SeedInit
<1>2. /\ \A r \in Runs : pending[r] = {} /\ pos[r] = 1 /\ phase[r] = "idle"
      /\ RunsTypeOK
  BY SMT DEF SeedInit, RunsTypeOK
<1>3. \A a \in committed : a.key \in have /\ a.by = 0 /\ a.of = [p \in Parents[a.key] |-> 0]
  BY <1>1, SMT
<1>4. \A k \in have : \E a \in committed : a.key = k /\ a.by = 0
  <2> SUFFICES ASSUME NEW k \in have PROVE \E a \in committed : a.key = k /\ a.by = 0
    OBVIOUS
  <2> DEFINE a == [key |-> k, by |-> 0, of |-> [p \in Parents[k] |-> 0]]
  <2>1. a \in committed
    BY <1>1
  <2>2. a.key = k /\ a.by = 0
    OBVIOUS
  <2> QED
    BY <2>1, <2>2
<1>5. OneRowEach(committed)
  BY <1>1, SMT DEF OneRowEach
<1>6. RefersWithin(committed)
  <2> SUFFICES ASSUME NEW a \in committed
               PROVE  /\ a.key \in Keys
                      /\ a.of = [p \in Parents[a.key] |-> a.of[p]]
                      /\ \A p \in Parents[a.key] : \E b \in committed : b.key = p /\ a.of[p] = b.by
    BY DEF RefersWithin
  <2>1. a.key \in Keys /\ Parents[a.key] \subseteq have
    BY <1>1, <1>3
  <2>2. a.of = [p \in Parents[a.key] |-> a.of[p]] /\ \A p \in Parents[a.key] : a.of[p] = 0
    BY <1>3
  <2> QED
    BY <1>4, <2>1, <2>2, SMTT(30)
<1>7. Fresh => ~Seeded
  BY <1>3 DEF Fresh, Seeded, First
<1>8. \A r \in Runs : View(r) = committed
  BY <1>2 DEF View
<1> QED
  BY <1>2, <1>5, <1>6, <1>7, <1>8, SMT DEF SeedInv, Guarded, Behaves, Active

\* What a run finds under its next key is the row it is looking for.
LEMMA Matches ==
    ASSUME Guarded, NEW r \in Runs, Active(r), pos[r] \in DOMAIN Plan,
           NEW a \in View(r), a.key = key(r)
    PROVE  SameEntry(Row(r, key(r)), a)
<1>1. ASSUME NEW p \in Parents[key(r)] PROVE a.of[p] = picked[r][p].by
  <2>1. PICK m \in DOMAIN Plan : m < pos[r] /\ Plan[m] = p /\ Kind[p] # "link"
    BY PlanAssumption, SMT DEF key
  <2>2. picked[r][p] \in View(r) /\ picked[r][p].key = p
    BY <2>1 DEF Guarded, Behaves, Passed
  <2>3. RefersWithin(View(r)) /\ OneRowEach(View(r))
    BY DEF Guarded, Behaves
  <2>4. PICK b \in View(r) : b.key = p /\ a.of[p] = b.by
    <3>1. p \in Parents[a.key]
      OBVIOUS
    <3>2. \A q \in Parents[a.key] : \E b \in View(r) : b.key = q /\ a.of[q] = b.by
      BY <2>3 DEF RefersWithin
    <3> QED
      BY <3>1, <3>2
  <2> QED
    BY <2>2, <2>3, <2>4 DEF OneRowEach
<1>2. a.of = [p \in Parents[key(r)] |-> a.of[p]]
  BY SMT DEF Guarded, Behaves, RefersWithin
<1>3. a.of = [p \in Parents[key(r)] |-> picked[r][p].by]
  BY <1>1, <1>2, SMT
<1> QED
  BY <1>3 DEF SameEntry, Row

\* A step of one run that commits nothing.
LEMMA OneRunMoves ==
    ASSUME Guarded, NEW r \in Runs, committed' = committed, Behaves(r)',
           \A q \in Runs \ {r} : /\ pending'[q] = pending[q] /\ picked'[q] = picked[q]
                                 /\ pos'[q] = pos[q] /\ phase'[q] = phase[q]
    PROVE  Guarded'
<1>1. Seeded' = Seeded
  BY DEF Seeded
<1>2. ASSUME NEW q \in Runs \ {r} PROVE Behaves(q)'
  <2>1. /\ View(q)' = View(q) /\ Holding(q)' = Holding(q) /\ Active(q)' = Active(q)
        /\ key(q)' = key(q)
    BY DEF View, Holding, Active, key
  <2>2. Passed(q)' = Passed(q)
    BY <2>1, SMT DEF Passed
  <2>3. pending'[r] # {} => pending'[q] = {}
    BY DEF Behaves
  <2>4. OneRowEach(View(q))' = OneRowEach(View(q)) /\ RefersWithin(View(q))' = RefersWithin(View(q))
    BY <2>1, SMT DEF OneRowEach, RefersWithin
  <2> QED
    BY <1>1, <2>1, <2>2, <2>3, <2>4, SMT DEF Guarded, Behaves
<1>3. (OneRowEach(committed) /\ RefersWithin(committed))'
  BY DEF Guarded, OneRowEach, RefersWithin
<1> QED
  BY <1>1, <1>2, <1>3 DEF Guarded

\* What a run has picked when it passes a key.
LEMMA PassKeeps ==
    ASSUME RunsTypeOK, NEW r \in Runs, NEW row, Passed(r), pos[r] \in DOMAIN Plan, Pass(r, row),
           row.key = key(r), View(r) \subseteq View(r)',
           \/ row \in View(r)'
           \/ Kind[key(r)] = "link" /\ \E a \in View(r)' : a.key = key(r)
    PROVE  /\ Passed(r)'
           /\ pos'[r] = pos[r] + 1 /\ phase'[r] = "finding"
           /\ picked' = [q \in Runs |-> picked'[q]] /\ pos' \in [Runs -> Nat \ {0}]
           /\ phase' \in [Runs -> {"idle", "finding", "inserting", "done", "failed"}]
           /\ \A q \in Runs \ {r} : picked'[q] = picked[q] /\ pos'[q] = pos[q] /\ phase'[q] = phase[q]
<1> DEFINE next == [k \in DOMAIN picked[r] \cup {row.key} |->
                      IF k = row.key THEN row ELSE picked[r][k]]
<1>1. /\ picked' = [picked EXCEPT ![r] = next]
      /\ pos' = [pos EXCEPT ![r] = pos[r] + 1] /\ phase' = [phase EXCEPT ![r] = "finding"]
  BY DEF Pass
<1>2. /\ DOMAIN next = {row.key} \cup DOMAIN picked[r]
      /\ next[row.key] = row
      /\ \A k \in DOMAIN picked[r] : k # row.key => next[k] = picked[r][k]
  OBVIOUS
<1> HIDE DEF next
<1>3. /\ picked'[r] = next /\ pos'[r] = pos[r] + 1 /\ phase'[r] = "finding"
      /\ picked' = [q \in Runs |-> picked'[q]] /\ pos' \in [Runs -> Nat \ {0}]
      /\ phase' \in [Runs -> {"idle", "finding", "inserting", "done", "failed"}]
      /\ \A q \in Runs \ {r} : picked'[q] = picked[q] /\ pos'[q] = pos[q] /\ phase'[q] = phase[q]
  BY <1>1, SMT DEF RunsTypeOK
<1>4. ASSUME NEW n \in DOMAIN Plan, n < pos'[r]
      PROVE  /\ \E a \in View(r)' : a.key = Plan[n]
             /\ Kind[Plan[n]] # "link" =>
                   /\ Plan[n] \in DOMAIN picked'[r]
                   /\ picked'[r][Plan[n]] \in View(r)' /\ picked'[r][Plan[n]].key = Plan[n]
  <2>1. CASE n = pos[r]
    BY <1>2, <1>3, <2>1, SMT DEF key
  <2>2. CASE n # pos[r]
    <3>1. n < pos[r] /\ Plan[n] # row.key
      BY <1>3, <1>4, <2>2, PlanFacts, PlanAssumption, SMT DEF RunsTypeOK, key
    <3> QED
      BY <1>2, <1>3, <3>1 DEF Passed
  <2> QED
    BY <2>1, <2>2
<1> QED
  BY <1>3, <1>4 DEF Passed

\* The types, and the run that inserted a row.
LEMMA RunsTyped == ASSUME RunsTypeOK, SeedNext PROVE RunsTypeOK'
<1>1. PICK r \in Runs : seed(r) \/ find(r) \/ insert(r) \/ commit(r) \/ Crash(r)
  BY DEF SeedNext
<1> USE DEF RunsTypeOK
<1>2. ASSUME NEW row, Pass(r, row), \A q \in Runs : \A b \in pending'[q] : b.by = q,
             pending' = [q \in Runs |-> pending'[q]]
      PROVE  RunsTypeOK'
  <2>1. PICK next : picked' = [picked EXCEPT ![r] = next]
    BY <1>2 DEF Pass
  <2>2. pos' = [pos EXCEPT ![r] = pos[r] + 1] /\ phase' = [phase EXCEPT ![r] = "finding"]
    BY <1>2 DEF Pass
  <2>3. picked' = [q \in Runs |-> picked'[q]]
    BY <2>1
  <2>4. /\ pos' \in [Runs -> Nat \ {0}]
        /\ phase' \in [Runs -> {"idle", "finding", "inserting", "done", "failed"}]
    BY <2>2, SMT
  <2> QED
    BY <1>2, <2>3, <2>4
<1>3. CASE seed(r)
  BY <1>3 DEF seed
<1>4. CASE find(r)
  <2>1. CASE UNCHANGED <<picked, pos>> /\ phase' = [phase EXCEPT ![r] = "inserting"]
    BY <1>4, <2>1 DEF find
  <2>2. CASE \E b : Pass(r, b)
    BY <1>2, <1>4, <2>2 DEF find
  <2> QED
    BY <1>4, <2>1, <2>2 DEF find
<1>5. CASE insert(r)
  <2>1. CASE pending' = [pending EXCEPT ![r] = @ \cup {Row(r, key(r))}] /\ Pass(r, Row(r, key(r)))
    <3>1. Row(r, key(r)).by = r
      BY DEF Row
    <3> QED
      BY <1>2, <2>1, <3>1
  <2>2. CASE Abort(r) /\ UNCHANGED <<picked, pos>>
    BY <2>2 DEF Abort
  <2>3. CASE Pass(r, Row(r, key(r))) /\ UNCHANGED pending
    BY <1>2, <2>3
  <2> QED
    BY <1>5, <2>1, <2>2, <2>3 DEF insert
<1>6. CASE commit(r)
  BY <1>6 DEF commit
<1>7. CASE Crash(r)
  BY <1>7 DEF Crash, Abort
<1> QED
  BY <1>1, <1>3, <1>4, <1>5, <1>6, <1>7

\* A run that ends without committing leaves nothing.
LEMMA AbortKeeps ==
    ASSUME RunsTypeOK, Guarded, NEW r \in Runs, Abort(r), UNCHANGED <<committed, picked, pos>>
    PROVE  Guarded'
<1>1. /\ pending'[r] = {} /\ phase'[r] = "failed"
      /\ \A q \in Runs \ {r} : pending'[q] = pending[q] /\ phase'[q] = phase[q]
  BY DEF Abort, RunsTypeOK
<1>2. View(r)' = committed
  BY <1>1 DEF View
<1>3. OneRowEach(View(r))' /\ RefersWithin(View(r))'
  BY <1>2, SMT DEF Guarded, OneRowEach, RefersWithin
<1>4. Behaves(r)'
  BY <1>1, <1>3 DEF Behaves, Active
<1> QED
  BY <1>1, <1>4, OneRunMoves

\* A run begins.
LEMMA SeedKeeps ==
    ASSUME RunsTypeOK, Guarded, NEW r \in Runs, seed(r)
    PROVE  Guarded'
<1>1. /\ phase[r] = "idle" /\ phase'[r] = "finding" /\ UNCHANGED <<committed, pending, picked, pos>>
      /\ \A q \in Runs \ {r} : phase'[q] = phase[q]
  BY DEF seed, RunsTypeOK
<1>2. pos[r] = 1 /\ pending[r] = {}
  BY <1>1 DEF Guarded, Behaves, Active
<1>3. Passed(r)'
  BY <1>1, <1>2, PlanFacts, SMT DEF Passed
<1>4. OneRowEach(View(r))' /\ RefersWithin(View(r))'
  BY <1>1, SMT DEF Guarded, Behaves, OneRowEach, RefersWithin, View
<1>5. Behaves(r)'
  BY <1>1, <1>2, <1>3, <1>4, SMT DEF Behaves
<1> QED
  BY <1>1, <1>5, OneRunMoves

\* A run looks for the row of its next key, in what it can see.
LEMMA FindKeeps ==
    ASSUME RunsTypeOK, Guarded, NEW r \in Runs, find(r)
    PROVE  Guarded'
<1> DEFINE row == Row(r, key(r))
           found == {b \in View(r) : SameEntry(row, b)}
<1>1. phase[r] = "finding" /\ pos[r] \in DOMAIN Plan /\ UNCHANGED <<committed, pending>>
  BY PlanFacts, SMT DEF find, RunsTypeOK
<1>2. Active(r) /\ Behaves(r) /\ Passed(r)
  BY <1>1 DEF Guarded, Behaves, Active
<1>3. View(r)' = View(r) /\ Holding(r)' = Holding(r) /\ Seeded' = Seeded
  BY <1>1 DEF View, Holding, Seeded
<1>4. OneRowEach(View(r))' /\ RefersWithin(View(r))'
  BY <1>2, <1>3, SMT DEF Behaves, OneRowEach, RefersWithin
<1>5. CASE /\ found = {} \/ Kind[key(r)] = "link"
           /\ phase' = [phase EXCEPT ![r] = "inserting"] /\ UNCHANGED <<picked, pos>>
  <2>1. phase'[r] = "inserting" /\ \A q \in Runs \ {r} : phase'[q] = phase[q]
    BY <1>5 DEF RunsTypeOK
  <2>2. key(r)' = key(r) /\ Passed(r)' /\ Active(r)'
    BY <1>2, <1>3, <1>5, <2>1 DEF key, Passed, Active
  <2>3. Kind[key(r)] # "link" => \A a \in View(r) : a.key # key(r)
    BY <1>1, <1>2, <1>5, Matches
  <2>4. Behaves(r)'
    BY <1>1, <1>2, <1>3, <1>4, <1>5, <2>1, <2>2, <2>3, PlanFacts, SMT DEF Behaves
  <2> QED
    BY <1>1, <1>5, <2>1, <2>4, OneRunMoves
<1>6. CASE \E b \in found : Pass(r, b)
  <2>1. PICK b \in found : Pass(r, b)
    BY <1>6
  <2>2. b \in View(r) /\ b.key = key(r)
    BY DEF SameEntry, Row
  <2>3. /\ Passed(r)' /\ pos'[r] = pos[r] + 1 /\ phase'[r] = "finding"
        /\ \A q \in Runs \ {r} : picked'[q] = picked[q] /\ pos'[q] = pos[q] /\ phase'[q] = phase[q]
    BY <1>1, <1>2, <1>3, <2>1, <2>2, PassKeeps
  <2>4. Seeded \/ Holding(r)
    <3>1. CASE pos[r] = 1
      BY <2>2, <3>1 DEF key, First, View, Seeded, Holding
    <3>2. CASE pos[r] # 1
      BY <1>2, <3>2, SMT DEF Behaves, RunsTypeOK
    <3> QED
      BY <3>1, <3>2
  <2>5. \A a \in pending'[r] : \E n \in DOMAIN Plan : n < pos'[r] /\ a.key = Plan[n]
    BY <1>1, <1>2, <2>3, PlanFacts, SMT DEF Behaves
  <2>6. pos'[r] > 1 /\ Active(r)'
    BY <1>1, <2>3, PlanFacts, SMT DEF Active
  <2>7. Behaves(r)'
    BY <1>1, <1>2, <1>3, <1>4, <2>3, <2>4, <2>5, <2>6 DEF Behaves
  <2> QED
    BY <1>1, <2>3, <2>7, OneRunMoves
<1> QED
  BY <1>5, <1>6 DEF find, View

\* A row goes in where no other has its key: the run is the only one that holds rows.
LEMMA AddKeeps ==
    ASSUME RunsTypeOK, Guarded, NEW r \in Runs, phase[r] = "inserting", committed' = committed,
           Against(r, Row(r, key(r))) = {}, Pass(r, Row(r, key(r))),
           pending' = [pending EXCEPT ![r] = @ \cup {Row(r, key(r))}]
    PROVE  Guarded'
<1> DEFINE row == Row(r, key(r))
<1>1. /\ pending'[r] = pending[r] \cup {row} /\ View(r)' = View(r) \cup {row}
      /\ \A q \in Runs \ {r} : pending'[q] = pending[q]
  BY DEF RunsTypeOK, View
<1>2. Active(r) /\ Behaves(r) /\ Passed(r) /\ pos[r] \in DOMAIN Plan /\ pos[r] \in Nat \ {0}
  BY PlanFacts, SMT DEF Guarded, Behaves, Active, RunsTypeOK
<1>3. /\ row.key = key(r) /\ key(r) \in Keys /\ row.by = r
      /\ row.of = [p \in Parents[key(r)] |-> picked[r][p].by]
  BY <1>2, PlanFacts DEF Row, key
<1>4. /\ Passed(r)' /\ pos'[r] = pos[r] + 1 /\ phase'[r] = "finding"
      /\ \A q \in Runs \ {r} : picked'[q] = picked[q] /\ pos'[q] = pos[q] /\ phase'[q] = phase[q]
  BY <1>1, <1>2, <1>3, PassKeeps
<1>5. Kind[key(r)] # "plain" => \A b \in committed : ~SameEntry(row, b)
  BY <1>3 DEF Against
<1>6. /\ \A a \in View(r) : a.key # key(r)
      /\ ~Seeded /\ (\A q \in Runs \ {r} : pending[q] = {})
      /\ pos[r] = 1 \/ Holding(r)
  <2>1. CASE pos[r] = 1
    <3>1. key(r) = First /\ Kind[key(r)] = "unique" /\ Parents[key(r)] = {} /\ pending[r] = {}
      BY <1>2, <2>1, PlanAssumption, SMT DEF key, First, Behaves
    <3>2. ASSUME NEW rows, RefersWithin(rows), NEW a \in rows, a.key = First
          PROVE  SameEntry(row, a)
      <4>1. a.of = [p \in Parents[a.key] |-> a.of[p]]
        BY <3>2 DEF RefersWithin
      <4>2. a.of = [p \in {} |-> a.of[p]] /\ row.of = [p \in {} |-> picked[r][p].by]
        BY <1>3, <3>1, <3>2, <4>1
      <4>3. a.of = row.of
        BY <4>2
      <4> QED
        BY <1>3, <3>1, <3>2, <4>3 DEF SameEntry
    <3>3. ~Seeded
      BY <1>5, <3>1, <3>2 DEF Seeded, Guarded
    <3>4. \A a \in View(r) : a.key # key(r)
      BY <3>1, <3>3 DEF Seeded, View
    <3>5. ASSUME NEW q \in Runs \ {r}, pending[q] # {} PROVE FALSE
      <4>1. Behaves(q)
        BY DEF Guarded
      <4>2. PICK a \in pending[q] : a.key = First
        BY <3>5, <4>1 DEF Behaves, Holding
      <4>3. SameEntry(row, a)
        BY <3>2, <4>1, <4>2 DEF Behaves, View
      <4>4. a \in UNION {pending[x] : x \in Runs \ {r}}
        BY <4>2
      <4>5. a \in Against(r, row)
        BY <1>3, <3>1, <4>3, <4>4 DEF Against
      <4> QED
        BY <4>5
    <3> QED
      BY <2>1, <3>3, <3>4, <3>5
  <2>2. CASE pos[r] # 1
    <3>1. \A a \in committed : a.key # key(r)
      <4>1. Kind[key(r)] # "link" => \A a \in View(r) : a.key # key(r)
        BY <1>2, <2>2, SMT DEF Behaves
      <4>2. Kind[key(r)] = "link" => \A a \in View(r) : a.key = key(r) => SameEntry(row, a)
        BY <1>2, Matches
      <4> QED
        BY <1>5, <4>1, <4>2 DEF View
    <3>2. ~Seeded
      BY <1>3, <3>1 DEF Guarded
    <3>3. Holding(r) /\ \A q \in Runs \ {r} : pending[q] = {}
      BY <1>2, <2>2, <3>2, SMT DEF Behaves, Holding
    <3>4. ASSUME NEW a \in pending[r] PROVE a.key # key(r)
      <4>1. PICK n \in DOMAIN Plan : n < pos[r] /\ a.key = Plan[n]
        BY <1>2 DEF Behaves
      <4>2. n # pos[r]
        BY <1>2, <4>1, PlanFacts, SMT
      <4> QED
        BY <1>2, <4>1, <4>2, PlanAssumption DEF key
    <3> QED
      BY <3>1, <3>2, <3>3, <3>4 DEF View
  <2> QED
    BY <2>1, <2>2
<1>7. OneRowEach(View(r) \cup {row})
  BY <1>2, <1>3, <1>6, SMT DEF Behaves, OneRowEach
<1>8. RefersWithin(View(r) \cup {row})
  <2>1. RefersWithin(View(r))
    BY <1>2 DEF Behaves
  <2>2. ASSUME NEW p \in Parents[row.key]
        PROVE  \E b \in View(r) \cup {row} : b.key = p /\ row.of[p] = b.by
    <3>1. p \in Parents[key(r)]
      BY <1>3
    <3>2. PICK m \in DOMAIN Plan : m < pos[r] /\ Plan[m] = p /\ Kind[p] # "link"
      BY <1>2, <3>1, PlanAssumption DEF key
    <3>3. picked[r][p] \in View(r) /\ picked[r][p].key = p
      BY <1>2, <3>2 DEF Passed
    <3>4. row.of[p] = picked[r][p].by
      BY <1>3, <3>1
    <3> QED
      BY <3>3, <3>4
  <2>3. row.of = [p \in Parents[row.key] |-> row.of[p]]
    BY <1>3
  <2> HIDE DEF row
  <2> QED
    BY <1>3, <2>1, <2>2, <2>3, SMT DEF RefersWithin
<1>9. \A a \in pending'[r] : \E n \in DOMAIN Plan : n < pos'[r] /\ a.key = Plan[n]
  <2>1. row.key = Plan[pos[r]] /\ pos[r] < pos'[r]
    BY <1>2, <1>3, <1>4, SMT DEF key
  <2>2. ASSUME NEW a \in pending[r] PROVE \E n \in DOMAIN Plan : n < pos'[r] /\ a.key = Plan[n]
    <3>1. PICK n \in DOMAIN Plan : n < pos[r] /\ a.key = Plan[n]
      BY <1>2 DEF Behaves
    <3>2. n < pos'[r]
      BY <1>2, <1>4, <3>1, PlanFacts, SMT
    <3> QED
      BY <3>1, <3>2
  <2> HIDE DEF row
  <2> QED
    BY <1>1, <1>2, <2>1, <2>2
<1>10. Holding(r)' /\ ~Seeded' /\ Active(r)' /\ pos'[r] > 1
  <2>1. Active(r)' /\ pos'[r] > 1 /\ ~Seeded'
    BY <1>2, <1>4, <1>6, SMT DEF Active, Seeded
  <2>2. pos[r] = 1 => row.key = First
    BY <1>3 DEF key, First
  <2> QED
    BY <1>1, <1>6, <2>1, <2>2 DEF Holding
<1>11. OneRowEach(View(r))' /\ RefersWithin(View(r))'
  BY <1>1, <1>7, <1>8, SMT DEF OneRowEach, RefersWithin
<1>12. Behaves(r)'
  BY <1>1, <1>4, <1>6, <1>9, <1>10, <1>11 DEF Behaves
<1> QED
  BY <1>1, <1>4, <1>12, OneRunMoves

\* A run inserts, fails on a unique key, or passes over a link.
LEMMA InsertKeeps ==
    ASSUME RunsTypeOK, Guarded, NEW r \in Runs, insert(r)
    PROVE  Guarded'
<1> DEFINE row == Row(r, key(r))
<1>1. phase[r] = "inserting" /\ committed' = committed /\ Against(r, row) \subseteq committed
  BY DEF insert
<1>2. CASE /\ Against(r, row) = {} /\ pending' = [pending EXCEPT ![r] = @ \cup {row}]
           /\ Pass(r, row)
  BY <1>1, <1>2, AddKeeps
<1>3. CASE Abort(r) /\ UNCHANGED <<picked, pos>>
  BY <1>1, <1>3, AbortKeeps
<1>4. CASE /\ Against(r, row) # {} /\ Kind[row.key] = "link" /\ Pass(r, row)
           /\ UNCHANGED pending
  <2>1. Active(r) /\ Behaves(r) /\ Passed(r) /\ pos[r] \in DOMAIN Plan /\ pos[r] \in Nat \ {0}
    BY <1>1, PlanFacts, SMT DEF Guarded, Behaves, Active, RunsTypeOK
  <2>2. row.key = key(r)
    BY DEF Row
  <2>3. \E a \in View(r) : a.key = key(r)
    <3>1. PICK a \in committed : a \in Against(r, row)
      BY <1>1, <1>4
    <3>2. a.key = key(r)
      BY <2>2, <3>1 DEF Against, SameEntry
    <3> QED
      BY <3>2 DEF View
  <2>4. View(r)' = View(r) /\ Holding(r)' = Holding(r) /\ Seeded' = Seeded
    BY <1>1, <1>4 DEF View, Holding, Seeded
  <2>5. /\ Passed(r)' /\ pos'[r] = pos[r] + 1 /\ phase'[r] = "finding"
        /\ \A q \in Runs \ {r} : picked'[q] = picked[q] /\ pos'[q] = pos[q] /\ phase'[q] = phase[q]
    BY <1>4, <2>1, <2>2, <2>3, <2>4, PassKeeps, SMT
  <2>6. pos[r] # 1
    BY <1>4, <2>2, PlanAssumption DEF key
  <2>7. Seeded \/ Holding(r)
    BY <2>1, <2>6, SMT DEF Behaves
  <2>8. \A a \in pending'[r] : \E n \in DOMAIN Plan : n < pos'[r] /\ a.key = Plan[n]
    BY <1>4, <2>1, <2>5, PlanFacts, SMT DEF Behaves
  <2>9. pos'[r] > 1 /\ Active(r)'
    BY <2>1, <2>5, SMT DEF Active
  <2>10. OneRowEach(View(r))' /\ RefersWithin(View(r))'
    BY <2>1, <2>4, SMT DEF Behaves, OneRowEach, RefersWithin
  <2>11. Behaves(r)'
    BY <1>4, <2>1, <2>4, <2>5, <2>7, <2>8, <2>9, <2>10 DEF Behaves
  <2> QED
    BY <1>1, <1>4, <2>5, <2>11, OneRunMoves
<1> QED
  BY <1>2, <1>3, <1>4 DEF insert

\* The run that inserted the first account commits every row; any other adds nothing.
LEMMA CommitKeeps ==
    ASSUME RunsTypeOK, Guarded, NEW r \in Runs, commit(r)
    PROVE  Guarded' /\ KeepsSeeded
<1>1. /\ phase[r] = "finding" /\ committed' = View(r) /\ UNCHANGED <<picked, pos>>
      /\ pending'[r] = {} /\ phase'[r] = "done"
      /\ \A q \in Runs \ {r} : pending'[q] = pending[q] /\ phase'[q] = phase[q]
  BY DEF commit, RunsTypeOK, View
<1>2. Behaves(r) /\ Active(r) /\ Passed(r) /\ pos[r] > 1 /\ \A n \in DOMAIN Plan : n < pos[r]
  BY <1>1, PlanFacts, SMT DEF Guarded, Behaves, Active, commit, RunsTypeOK
<1>3. View(r)' = View(r)
  BY <1>1 DEF View
<1>4. CASE pending[r] = {}
  <2>1. committed' = committed /\ Seeded
    BY <1>1, <1>2, <1>4 DEF View, Behaves, Holding
  <2>2. Seeded'
    BY <2>1 DEF Seeded
  <2>3. OneRowEach(View(r))' /\ RefersWithin(View(r))'
    BY <1>2, <1>3, SMTT(30) DEF Behaves, OneRowEach, RefersWithin
  <2>4. Behaves(r)'
    BY <1>1, <2>2, <2>3 DEF Behaves, Active
  <2> QED
    BY <1>1, <2>1, <2>4, OneRunMoves DEF KeepsSeeded
<1>5. CASE pending[r] # {}
  <2>1. Holding(r) /\ ~Seeded /\ \A q \in Runs \ {r} : pending[q] = {}
    BY <1>2, <1>5 DEF Behaves
  <2>2. KeepsSeeded
    BY <2>1 DEF KeepsSeeded, Guarded, Behaves
  <2>3. Seeded'
    BY <1>1, <2>1 DEF Seeded, Holding, View
  <2>4. \A k \in Keys : \E a \in committed' : a.key = k
    BY <1>1, <1>2, PlanFacts, SMT DEF Passed
  <2>5. (OneRowEach(committed) /\ RefersWithin(committed))'
    BY <1>1, <1>2 DEF Behaves, OneRowEach, RefersWithin
  <2>6. ASSUME NEW q \in Runs PROVE Behaves(q)'
    <3>1. View(q)' = committed' /\ pending'[q] = {}
      BY <1>1, <2>1 DEF View
    <3>2. OneRowEach(View(q))' /\ RefersWithin(View(q))'
      BY <2>5, <3>1, SMT DEF OneRowEach, RefersWithin
    <3>3. CASE q = r
      BY <1>1, <2>3, <3>1, <3>2, <3>3 DEF Behaves, Active
    <3>4. CASE q # r
      <4>1. Behaves(q) /\ ~Holding(q) /\ phase'[q] = phase[q] /\ pos'[q] = pos[q] /\ Active(q)' = Active(q)
        BY <1>1, <2>1, <3>4 DEF Guarded, Holding, Active
      <4>2. View(q) \subseteq View(q)'
        BY <1>1, <2>1, <3>1, <3>4 DEF View
      <4>3. Passed(q) => Passed(q)'
        BY <1>1, <4>2 DEF Passed
      <4>4. Active(q) => pos[q] = 1
        BY <2>1, <4>1, SMT DEF Behaves, RunsTypeOK
      <4> QED
        BY <2>3, <3>1, <3>2, <4>1, <4>3, <4>4, SMTT(30) DEF Behaves, Active
    <3> QED
      BY <3>3, <3>4
  <2> QED
    BY <2>2, <2>4, <2>5, <2>6 DEF Guarded
<1> QED
  BY <1>4, <1>5

\* Every step keeps the invariant, and adds no row once a run has committed.
LEMMA SeedStepKeeps ==
    ASSUME SeedInv, [SeedNext]_seedVars
    PROVE  SeedInv' /\ (Fresh => KeepsSeeded)
<1>1. CASE UNCHANGED seedVars
  <2>1. RunsTypeOK' = RunsTypeOK /\ Fresh' = Fresh /\ Guarded' = Guarded
    BY <1>1, SMT DEF seedVars, RunsTypeOK, Fresh, Guarded, Behaves, Seeded, Holding, Active, Passed,
                View, OneRowEach, RefersWithin, key
  <2> QED
    BY <1>1, <2>1 DEF SeedInv, KeepsSeeded, seedVars
<1>2. CASE SeedNext
  <2>1. PICK r \in Runs : seed(r) \/ find(r) \/ insert(r) \/ commit(r) \/ Crash(r)
    BY <1>2 DEF SeedNext
  <2>2. committed \subseteq committed'
    BY <2>1 DEF seed, find, insert, commit, Crash
  <2>3. Fresh' => Fresh
    BY <2>2 DEF Fresh
  <2>4. commit(r) \/ committed' = committed
    BY <2>1 DEF seed, find, insert, Crash
  <2>5. Guarded => Guarded'
    BY <2>1, SeedKeeps, FindKeeps, InsertKeeps, CommitKeeps, AbortKeeps DEF SeedInv, Crash
  <2>6. Guarded => KeepsSeeded
    BY <2>4, CommitKeeps DEF SeedInv, KeepsSeeded
  <2> QED
    BY <1>2, <2>3, <2>5, <2>6, RunsTyped DEF SeedInv
<1> QED
  BY <1>1, <1>2

\* However many runs of the seed overlap, whatever the rows they plan and wherever each of
\* them stops: if the first account was missing, no run adds a row once one has committed.
THEOREM SeedTakesOnceHolds == SeedSpec => SeedTakesOnce
<1>1. SeedInv /\ [SeedNext]_seedVars => SeedInv' /\ (Fresh => KeepsSeeded)
  BY SeedStepKeeps
<1>2. SeedInv /\ [SeedNext]_seedVars => [Fresh => KeepsSeeded]_seedVars
  BY <1>1
<1> QED
  BY <1>1, <1>2, SeedInitially, PTL DEF SeedSpec, SeedTakesOnce

=============================================================================

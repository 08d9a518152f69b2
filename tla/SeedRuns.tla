------------------------------- MODULE SeedRuns -------------------------------
(***************************************************************************)
(* The development seed: staff accounts, option groups with their options, *)
(* categories with their items, and the links between items and groups,    *)
(* each looked for by its natural key and inserted when it is missing, all *)
(* in one transaction.  Runs of the script overlap, crash and are repeated *)
(* on a database that may hold part of the rows already.  Transactions are *)
(* READ COMMITTED: a statement sees what is committed and its own rows.    *)
(***************************************************************************)
EXTENDS Naturals, Sequences

CONSTANTS
    Runs,     \* executions of the script
    Plan,     \* the keys in the order seed() visits them, a staff account first
    Kind,     \* of a key: "unique", "plain" or "link"
    Parents   \* of a key: the keys whose rows its own row refers to

Keys == {Plan[n] : n \in DOMAIN Plan}

\* seed() visits a row after the rows it refers to, and none of these is a link.
ASSUME PlanAssumption ==
    /\ Plan # <<>> /\ Plan \in Seq(Keys)
    /\ \A m, n \in DOMAIN Plan : Plan[m] = Plan[n] => m = n
    /\ Kind \in [Keys -> {"unique", "plain", "link"}]
    /\ Kind[Plan[1]] = "unique" /\ Parents[Plan[1]] = {}
    /\ \A n \in DOMAIN Plan : \A p \in Parents[Plan[n]] :
          Kind[p] # "link" /\ \E m \in DOMAIN Plan : m < n /\ Plan[m] = p
    /\ 0 \notin Runs

VARIABLES
    committed, \* the rows of the database
    pending,   \* the rows of each run's open transaction
    picked,    \* the row a run has found or inserted, for each key it has passed
    pos,       \* how far in Plan a run is
    phase      \* of a run: "idle", "finding", "inserting", "done" or "failed"

seedVars == <<committed, pending, picked, pos, phase>>

key(r) == Plan[pos[r]]

\* A row: its key, who inserted it (0 before any run), and who inserted its parents.
Row(r, k) == [key |-> k, by |-> r, of |-> [p \in Parents[k] |-> picked[r][p].by]]
SameEntry(a, b) == a.key = b.key /\ a.of = b.of

\* The rows of others that a unique index sets against a row.
Against(r, row) ==
    IF Kind[row.key] = "plain" THEN {}
    ELSE {b \in committed \cup UNION {pending[q] : q \in Runs \ {r}} : SameEntry(row, b)}

-----------------------------------------------------------------------------
\* main: the transaction begins.
seed(r) ==
    /\ phase[r] = "idle"
    /\ phase' = [phase EXCEPT ![r] = "finding"]
    /\ UNCHANGED <<committed, pending, picked, pos>>

Pass(r, row) ==
    /\ picked' = [picked EXCEPT ![r] = [k \in DOMAIN @ \cup {row.key} |->
                                           IF k = row.key THEN row ELSE @[k]]]
    /\ pos' = [pos EXCEPT ![r] = @ + 1]
    /\ phase' = [phase EXCEPT ![r] = "finding"]

\* findFirst by natural key: some row that matches, if there is one.  A link is not
\* looked for.
find(r) ==
    LET row == Row(r, key(r))
        found == {b \in committed \cup pending[r] : SameEntry(row, b)}
    IN /\ phase[r] = "finding" /\ pos[r] <= Len(Plan)
       /\ IF found = {} \/ Kind[key(r)] = "link"
            THEN /\ phase' = [phase EXCEPT ![r] = "inserting"]
                 /\ UNCHANGED <<picked, pos>>
            ELSE \E b \in found : Pass(r, b)
       /\ UNCHANGED <<committed, pending>>

\* The transaction is rolled back: a unique violation, or the process ends.
Abort(r) ==
    /\ phase' = [phase EXCEPT ![r] = "failed"]
    /\ pending' = [pending EXCEPT ![r] = {}]

\* MUTANT of insert: no transaction around the run.
insertAutocommit(r) ==
    LET row == Row(r, key(r)) IN
    /\ phase[r] = "inserting" /\ Against(r, row) \subseteq committed
    /\ IF Against(r, row) = {}
         THEN /\ committed' = committed \cup {row}
              /\ Pass(r, row)
              /\ UNCHANGED pending
         ELSE /\ phase' = [phase EXCEPT ![r] = "failed"]
              /\ UNCHANGED <<committed, pending, picked, pos>>

\* INSERT: it waits for an open transaction with the same unique key, then fails on a
\* committed one; onConflictDoNothing passes over a link that is there.
insert(r) ==
    LET row == Row(r, key(r)) IN
    /\ phase[r] = "inserting" /\ Against(r, row) \subseteq committed
    /\ \/ /\ Against(r, row) = {}
          /\ pending' = [pending EXCEPT ![r] = @ \cup {row}]
          /\ Pass(r, row)
       \/ /\ Against(r, row) # {} /\ Kind[row.key] = "unique"
          /\ Abort(r)
          /\ UNCHANGED <<picked, pos>>
       \/ /\ Against(r, row) # {} /\ Kind[row.key] = "link"
          /\ Pass(r, row)
          /\ UNCHANGED pending
    /\ UNCHANGED committed

commit(r) ==
    /\ phase[r] = "finding" /\ pos[r] > Len(Plan)
    /\ committed' = committed \cup pending[r]
    /\ pending' = [pending EXCEPT ![r] = {}]
    /\ phase' = [phase EXCEPT ![r] = "done"]
    /\ UNCHANGED <<picked, pos>>

Crash(r) ==
    /\ phase[r] \in {"finding", "inserting"}
    /\ Abort(r)
    /\ UNCHANGED <<committed, picked, pos>>

-----------------------------------------------------------------------------
\* The database holds any part of the rows, with the rows they refer to.
SeedInit ==
    /\ \E have \in SUBSET Keys :
          /\ \A k \in have : Parents[k] \subseteq have
          /\ committed = {[key |-> k, by |-> 0, of |-> [p \in Parents[k] |-> 0]] : k \in have}
    /\ pending = [r \in Runs |-> {}]
    /\ picked = [r \in Runs |-> <<>>]
    /\ pos = [r \in Runs |-> 1]
    /\ phase = [r \in Runs |-> "idle"]

SeedNext ==
    \E r \in Runs : seed(r) \/ find(r) \/ insert(r) \/ commit(r) \/ Crash(r)

SeedSpec == SeedInit /\ [][SeedNext]_seedVars

-----------------------------------------------------------------------------
\* A step that changes nothing once some run has committed.
KeepsSeeded == (\E r \in Runs : phase[r] = "done") => committed' = committed

\* The first account was missing when the runs began.
Fresh == ~\E row \in committed : row.key = Plan[1] /\ row.by = 0

\* On a database without the first account the seed takes effect once: after a run has
\* committed, no run changes anything, whether it comes later, overlapped it or was
\* about to insert ("idempotent; re-running changes nothing").  Only users.email and
\* categories.name are unique; what protects the rest is that every run starts with an
\* account, waits there for the run before it, and fails.
SeedTakesOnce == [][Fresh => KeepsSeeded]_seedVars

\* The same on any database.  Not guaranteed by the code: when the accounts are there,
\* overlapping runs insert an option group or an item twice.
SeedTakesOnceAlways == [][KeepsSeeded]_seedVars

=============================================================================

-------------------------- MODULE ItemOptionGroups --------------------------
(***************************************************************************)
(* PUT /items/:id/option-groups: the groups one item offers are replaced   *)
(* by delete-then-insert in a transaction (ItemOptionGroupsService         *)
(* .setForItem), which managers may run at the same time.  Postgres at     *)
(* READ COMMITTED: a DELETE sees the rows committed when it starts, waits  *)
(* for a transaction that is deleting one of them, and then skips it; an   *)
(* INSERT of a key another transaction has in hand waits for its outcome.  *)
(***************************************************************************)
EXTENDS Naturals

CONSTANTS
    Attachable, \* option groups
    Puts,       \* requests
    Bodies,     \* sets of groups a manager may ask for
    Unset       \* who made the rows there are at first

ASSUME PutsAssumption == Unset \notin Puts

VARIABLES
    attachments, \* menu_item_option_groups of the item: committed <<group, put>> pairs
    tx           \* each request: its body, how far it is, and its uncommitted work

putVars == <<attachments, tx>>

GroupsOf(links) == {r[1] : r \in links}

Open(p) == tx[p].pc \in {"deleting", "deleted", "inserted"}
Others(p) == {q \in Puts \ {p} : Open(q)}

\* How far a request is, what its DELETE saw, and its uncommitted work.
Becomes(p, pc, seen, gone, added) ==
    tx' = [tx EXCEPT ![p] = [pc |-> pc, body |-> tx[p].body,
                             seen |-> seen, gone |-> gone, added |-> added]]

-----------------------------------------------------------------------------
\* The transaction opens, finds the item and every group, and its DELETE takes
\* its snapshot.
setForItem(p) ==
    /\ tx[p].pc = "new"
    /\ Becomes(p, "deleting", attachments, {}, {})
    /\ UNCHANGED attachments

\* MUTANT of deleteRows: only the links about to be inserted again are deleted.
deleteOthersRows(p) ==
    /\ tx[p].pc = "deleting"
    /\ \A q \in Others(p) : tx[q].gone \cap tx[p].seen = {}
    /\ Becomes(p, "deleted", tx[p].seen,
               {r \in tx[p].seen \cap attachments : r[1] \in tx[p].body}, {})
    /\ UNCHANGED attachments

deleteRows(p) ==
    /\ tx[p].pc = "deleting"
    /\ \A q \in Others(p) : tx[q].gone \cap tx[p].seen = {}
    /\ Becomes(p, "deleted", tx[p].seen, tx[p].seen \cap attachments, {})
    /\ UNCHANGED attachments

\* The primary key: a link committed since the DELETE fails the request.
insertRows(p) ==
    /\ tx[p].pc = "deleted"
    /\ \A q \in Others(p) : tx[p].body \cap GroupsOf(tx[q].gone \cup tx[q].added) = {}
    /\ IF tx[p].body \cap GroupsOf(attachments \ tx[p].gone) = {}
       THEN Becomes(p, "inserted", tx[p].seen, tx[p].gone, tx[p].body \X {p})
       ELSE Becomes(p, "failed", tx[p].seen, {}, {})
    /\ UNCHANGED attachments

CommitPut(p) ==
    /\ tx[p].pc = "inserted"
    /\ attachments' = (attachments \ tx[p].gone) \cup tx[p].added
    /\ Becomes(p, "done", tx[p].seen, {}, {})

\* A deadlock, a lost connection or a crash: nothing of it stays.
Rollback(p) ==
    /\ Open(p)
    /\ Becomes(p, "failed", tx[p].seen, {}, {})
    /\ UNCHANGED attachments

-----------------------------------------------------------------------------
PutsInit ==
    /\ attachments \in {b \X {Unset} : b \in SUBSET Attachable}
    /\ tx \in [Puts -> [pc : {"new"}, body : Bodies, seen : {{}}, gone : {{}}, added : {{}}]]

PutsNext == \E p \in Puts :
    setForItem(p) \/ deleteRows(p) \/ insertRows(p) \/ CommitPut(p) \/ Rollback(p)

PutsSpec == PutsInit /\ [][PutsNext]_putVars

-----------------------------------------------------------------------------
Commits(p) == tx[p].pc # "done" /\ tx'[p].pc = "done"

\* A link that came while p ran, from a request that has no group in common with it.
SlippedIn(p, row) ==
    /\ row \notin tx[p].seen
    /\ \E q \in Puts \ {p} : row[2] = q /\ tx[q].body \cap tx[p].body = {}

\* A request that succeeds leaves the item with the groups it asked for ("Replaces the
\* whole attachment set for an item"), and with others only if a request that has no
\* group in common with it committed since its DELETE took its snapshot: of two requests
\* with a common group the later waits for the rows of the earlier, or fails on their key.
ReplacesWholeSet ==
    [][\A p \in Puts : Commits(p) =>
          /\ tx[p].body \subseteq GroupsOf(attachments')
          /\ \A row \in attachments' : row[1] \in tx[p].body \/ SlippedIn(p, row)]_putVars

\* No request leaves anything but its own groups.  Not guaranteed by the code: a DELETE
\* does not see what a request without a group in common inserts.
ReplacesWholeSetAlways ==
    [][\A p \in Puts : Commits(p) => GroupsOf(attachments') = tx[p].body]_putVars

=============================================================================

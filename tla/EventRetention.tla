--------------------------- MODULE EventRetention ---------------------------
(***************************************************************************)
(* Nightly trimming of old webhook payloads (RetentionService              *)
(* .trimEventPayloads through drainInBatches), run by every instance at    *)
(* 04:00 without coordination, beside the inbox sweep that replays what is *)
(* unprocessed from those same payloads.  A batch is one UPDATE: its inner *)
(* SELECT takes any rows of the snapshot, of which now() decides how old   *)
(* they are, and a row another instance has trimmed meanwhile is written   *)
(* again and counted.                                                      *)
(***************************************************************************)
EXTENDS Naturals, FiniteSets

CONSTANTS
    OldEvents,   \* the events that may pass the age of 13 months
    Refused,     \* succeeded events whose amount or currency is refused
    Runs,        \* the nightly run of each instance
    BatchSize, MaxBatches, MaxNights

ASSUME RetentionAssumption ==
    /\ IsFiniteSet(OldEvents)
    /\ BatchSize \in Nat \ {0} /\ MaxBatches \in Nat \ {0}

VARIABLES
    old,       \* received more than 13 months ago
    trimmed,   \* payload_trimmed_at is set
    processed, \* processed_at is set
    thrown,    \* events whose replay threw
    run,       \* [pc, batch, batches]: how far a run is, the rows of its statement,
               \* the full batches behind it
    due,       \* the events that were due when the night's runs began
    aged,      \* the events that have become old since
    nights

retentionVars == <<old, trimmed, processed, thrown, run, due, aged, nights>>

runAt(pc) == [pc |-> pc, batch |-> {}, batches |-> 0]

Underway(i) == run[i].pc \in {"step", "update"}

-----------------------------------------------------------------------------
Age(e) ==
    /\ e \notin old
    /\ old' = old \cup {e}
    /\ aged' = aged \cup {e}
    /\ UNCHANGED <<trimmed, processed, thrown, run, due, nights>>

\* The sweep replays an unprocessed event.  toOutcome finds a type and an object in
\* a trimmed payload, and no currency in the object.
replay(e) ==
    /\ e \notin processed
    /\ IF e \in trimmed
       THEN thrown' = thrown \cup {e} /\ UNCHANGED processed
       ELSE e \notin Refused /\ processed' = processed \cup {e} /\ UNCHANGED thrown
    /\ UNCHANGED <<old, trimmed, run, due, aged, nights>>

runNightly ==
    /\ nights < MaxNights /\ \A i \in Runs : ~Underway(i)
    /\ nights' = nights + 1
    /\ run' = [i \in Runs |-> runAt("step")]
    /\ due' = old \ trimmed
    /\ aged' = {}
    /\ UNCHANGED <<old, trimmed, processed, thrown>>

\* The rows a statement with LIMIT BatchSize takes.
selectBatch(i) ==
    /\ run[i].pc = "step"
    /\ \E batch \in SUBSET (old \ trimmed) :
          /\ \/ Cardinality(batch) = BatchSize
             \/ Cardinality(batch) < BatchSize /\ batch = old \ trimmed
          /\ run' = [run EXCEPT ![i] = [pc |-> "update", batch |-> batch,
                                        batches |-> run[i].batches]]
    /\ UNCHANGED <<old, trimmed, processed, thrown, due, aged, nights>>

\* MUTANT of trimEventPayloads: rows another instance has trimmed are not counted.
trimOnlyNew(i) ==
    /\ run[i].pc = "update"
    /\ trimmed' = trimmed \cup run[i].batch
    /\ run' = [run EXCEPT ![i] =
          IF Cardinality(run[i].batch \ trimmed) < BatchSize \/ run[i].batches + 1 = MaxBatches
          THEN runAt("done")
          ELSE [pc |-> "step", batch |-> {}, batches |-> run[i].batches + 1]]
    /\ UNCHANGED <<old, processed, thrown, due, aged, nights>>

\* The update, and drainInBatches' decision: a short batch or the cap ends the run.
trimEventPayloads(i) ==
    /\ run[i].pc = "update"
    /\ trimmed' = trimmed \cup run[i].batch
    /\ run' = [run EXCEPT ![i] =
          IF Cardinality(run[i].batch) < BatchSize \/ run[i].batches + 1 = MaxBatches
          THEN runAt("done")
          ELSE [pc |-> "step", batch |-> {}, batches |-> run[i].batches + 1]]
    /\ UNCHANGED <<old, processed, thrown, due, aged, nights>>

\* A statement throws, or the instance dies: what is left waits for the next night.
RunFails(i) ==
    /\ Underway(i)
    /\ run' = [run EXCEPT ![i] = runAt("failed")]
    /\ UNCHANGED <<old, trimmed, processed, thrown, due, aged, nights>>

-----------------------------------------------------------------------------
RetentionInit ==
    /\ old = {} /\ trimmed = {} /\ processed = {} /\ thrown = {} /\ due = {} /\ aged = {}
    /\ run = [i \in Runs |-> runAt("asleep")]
    /\ nights = 0

RetentionNext ==
    \/ \E e \in OldEvents : Age(e) \/ replay(e)
    \/ runNightly
    \/ \E i \in Runs : selectBatch(i) \/ trimEventPayloads(i) \/ RunFails(i)

RetentionSpec == RetentionInit /\ [][RetentionNext]_retentionVars

-----------------------------------------------------------------------------
\* One run that comes to its end is enough: however the others overlap it, take its rows
\* or fail, every payload that was due when the night began is then trimmed, if what was
\* due and what has aged since fits into the batches of one run ("both instances running
\* at once, finds nothing left to do").
NightLeavesNothing ==
    /\ \E i \in Runs : run[i].pc = "done"
    /\ Cardinality(due \cup aged) <= BatchSize * MaxBatches
    => due \subseteq trimmed

\* A replay never throws ("the difference between an unreadable row being ignored
\* and it throwing inside the sweep that was trying to drain the inbox").
\* Not guaranteed by the code: the README tells how it fails.
ReplayNeverThrows == thrown = {}

=============================================================================

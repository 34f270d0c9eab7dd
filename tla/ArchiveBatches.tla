--------------------------- MODULE ArchiveBatches ---------------------------
(***************************************************************************)
(* The rows an archive job moves: _execute_purge_job, _execute_dest_job,   *)
(* their MongoDB forms and _execute_single_delete, statement by statement  *)
(* on the source table, the destination and the job's counters.            *)
(*                                                                         *)
(* Who starts, pauses and ends an execution is in ArchiveJob; here an      *)
(* execution may be stopped after any batch and started again, and two may *)
(* overlap, which ArchiveJob shows to happen.  The application that owns   *)
(* the table goes on inserting and deleting rows that meet the condition.  *)
(***************************************************************************)
EXTENDS Integers, FiniteSets

CONSTANTS
    Rows,        \* rows that meet the condition, now or later
    BatchSize,   \* archive_job.batch_size
    MaxBatches,  \* batches of one execution, 10000 in the code
    Executors,   \* executions of the job that may overlap
    Modes,       \* the modes of the job, a subset of Mode
    StableOrder, \* TRUE: LIMIT without ORDER BY takes rows in one fixed order
    MaxInserts,  \* bound: rows the application adds
    MaxDeletes,  \* bound: rows the application deletes
    MaxCrashes   \* bound: executors that die

Mode == {"purge", "purge_mongo", "dest", "dest_mongo", "single"}

ASSUME RowAssumption == Rows \subseteq Nat /\ IsFiniteSet(Rows)
ASSUME BatchAssumption == BatchSize \in Nat \ {0} /\ MaxBatches \in Nat \ {0}
ASSUME ModeAssumption == Modes \subseteq Mode
ASSUME ExecutorAssumption == Executors # {}
ASSUME OrderAssumption == StableOrder \in BOOLEAN
ASSUME BoundAssumption == MaxInserts \in Nat /\ MaxDeletes \in Nat /\ MaxCrashes \in Nat

VARIABLES
    mode,       \* archive_mode and the kind of the source instance
    source,     \* rows in the source table that meet the condition
    copies,     \* how often each row is in the destination
    status,     \* archive_job.status
    processed,  \* archive_job.processed_rows
    guessed,    \* archive_job.row_count_is_estimated
    estimate,   \* archive_job.estimated_rows
    executor,   \* where each execution stands and what it holds in memory
    known,      \* history: rows that ever were in the source
    dropped,    \* history: rows the application deleted
    removed,    \* history: rows the job deleted
    crashes     \* history: executors that died

job == <<status, processed, guessed>>
history == <<known, dropped, removed, crashes>>
vars == <<mode, source, copies, job, estimate, executor, history>>
----------------------------------------------------------------------------
Mongo == mode \in {"purge_mongo", "dest_mongo"}
Copying == mode \in {"dest", "dest_mongo"}
Copied == {r \in Rows : copies[r] > 0}

Least(a, b) == IF a < b THEN a ELSE b
Most(a, b) == IF a > b THEN a ELSE b

\* What `... LIMIT batch_size' may take of the rows S.
Batch(S) == {T \in SUBSET S : /\ Cardinality(T) = Least(BatchSize, Cardinality(S))
                              /\ StableOrder => \A t \in T, s \in S \ T : t < s}

\* Mutant of Victims: the rows to delete are searched again by the condition.
VictimsByCondition(e) == Batch(source)
\* The rows DELETE removes: by _id in MongoDB, else by the condition again.
Victims(e) == IF Mongo THEN {executor[e].selected \cap source}
              ELSE IF mode = "single" THEN {source}
              ELSE Batch(source)

\* Mutant of Counts: a guess is not flagged as one.
CountsUnflagged(e, fallback) ==
    {[rows |-> executor[e].deleted, guess |-> FALSE], [rows |-> fallback, guess |-> FALSE]}
\* _review_affected_rows: an engine may report no count, or a count of zero;
\* MongoDB's deleted_count is used as it is.
Counts(e, fallback) ==
    LET real == [rows |-> executor[e].deleted, guess |-> FALSE]
        guess == [rows |-> fallback, guess |-> TRUE]
    IN  IF Mongo THEN {real} ELSE IF executor[e].deleted = 0 THEN {guess} ELSE {real, guess}

\* processed_rows += rows; a column that did not change is not written.
Added(e, rows) == IF rows = 0 THEN processed ELSE executor[e].processed + rows

Fallback(e) ==
    CASE mode = "purge" -> Least(BatchSize, Most(estimate - executor[e].processed, 0))
      [] OTHER -> Cardinality(executor[e].selected)

\* Mutant of LastBatch: the loop ends one row short of the estimate.
LastBatchByEstimate(e, rows) ==
    rows < BatchSize \/ executor[e].processed + rows >= estimate - 1
\* After which batch the loop ends with SUCCESS.
LastBatch(e, rows) ==
    CASE mode = "purge" -> rows < BatchSize \/ executor[e].processed + rows >= estimate
      [] mode = "purge_mongo" -> rows < BatchSize
      [] OTHER -> Cardinality(executor[e].selected) < BatchSize

Idle == [pc |-> "idle", round |-> 0, selected |-> {}, deleted |-> 0, processed |-> 0]
Goto(e, pc) == executor' = [executor EXCEPT ![e].pc = pc]
Return(e) == executor' = [executor EXCEPT ![e] = Idle]

Init ==
    /\ mode \in Modes
    /\ source \in SUBSET Rows
    /\ copies = [r \in Rows |-> 0]
    /\ status = "queued"
    /\ processed = 0
    /\ guessed = FALSE
    /\ estimate = Cardinality(source)
    /\ executor = [e \in Executors |-> Idle]
    /\ known = source
    /\ dropped = {}
    /\ removed = {}
    /\ crashes = 0
----------------------------------------------------------------------------
\* execute_job up to its first commit.
LoadJob(e) ==
    /\ executor[e].pc = "idle"
    /\ status \in {"queued", "paused"}
    /\ executor' = [executor EXCEPT ![e].pc = "loaded", ![e].processed = processed]
    /\ UNCHANGED <<mode, source, copies, job, estimate, history>>

StartJob(e) ==
    /\ executor[e].pc = "loaded"
    /\ status' = "running"
    /\ Goto(e, "next")
    /\ UNCHANGED <<mode, source, copies, processed, guessed, estimate, history>>

\* The next round of the loop reads what it will move, if it reads at all.
SelectRows(e) ==
    /\ executor[e].pc = "next"
    /\ executor[e].round < MaxBatches
    /\ mode \in {"dest", "purge_mongo", "dest_mongo"}
    /\ \E S \in Batch(source) :
         executor' = [executor EXCEPT ![e].selected = S,
                        ![e].pc = IF S = {} THEN "done" ELSE IF Copying THEN "insert" ELSE "delete"]
    /\ UNCHANGED <<mode, source, copies, job, estimate, history>>

SkipSelect(e) ==
    /\ executor[e].pc = "next"
    /\ executor[e].round < MaxBatches
    /\ mode \in {"purge", "single"}
    /\ Goto(e, "delete")
    /\ UNCHANGED <<mode, source, copies, job, estimate, history>>

\* 10000 batches: only _execute_purge_job raises, the other loops just end.
LeaveLoop(e) ==
    /\ executor[e].pc = "next"
    /\ executor[e].round = MaxBatches
    /\ status' = IF mode = "purge" THEN "failed" ELSE status
    /\ Return(e)
    /\ UNCHANGED <<mode, source, copies, processed, guessed, estimate, history>>

\* INSERT INTO ... VALUES, all or nothing; insert_many stops at a duplicate
\* _id, which FailBatch covers.
InsertRows(e) ==
    /\ executor[e].pc = "insert"
    /\ Mongo => executor[e].selected \cap Copied = {}
    /\ copies' = [r \in Rows |-> IF r \in executor[e].selected THEN copies[r] + 1 ELSE copies[r]]
    /\ Goto(e, "delete")
    /\ UNCHANGED <<mode, source, job, estimate, history>>

InsertSome(e) ==
    /\ executor[e].pc = "insert"
    /\ Mongo
    /\ \E S \in SUBSET (executor[e].selected \ Copied) :
         copies' = [r \in Rows |-> IF r \in S THEN 1 ELSE copies[r]]
    /\ status' = "failed"
    /\ Return(e)
    /\ UNCHANGED <<mode, source, processed, guessed, estimate, history>>

DeleteRows(e) ==
    /\ executor[e].pc = "delete"
    /\ \E S \in Victims(e) :
         /\ source' = source \ S
         /\ removed' = removed \cup S
         /\ executor' = [executor EXCEPT ![e].pc = "count", ![e].deleted = Cardinality(S)]
    /\ UNCHANGED <<mode, copies, job, estimate, known, dropped, crashes>>

\* The counters of the batch and its log are committed ...
CountBatch(e) ==
    /\ executor[e].pc = "count" /\ mode # "single"
    /\ \E count \in Counts(e, Fallback(e)) :
         /\ processed' = Added(e, count.rows)
         /\ guessed' = (guessed \/ count.guess)
         /\ Goto(e, IF LastBatch(e, count.rows) THEN "done" ELSE "control")
    /\ UNCHANGED <<mode, source, copies, status, estimate, history>>

\* ... with the success when one statement was all (ClickHouse, StarRocks).
CountAll(e) ==
    /\ executor[e].pc = "count" /\ mode = "single"
    /\ \E count \in Counts(e, estimate) :
         /\ processed' = Added(e, count.rows)
         /\ guessed' = (guessed \/ count.guess)
    /\ status' = "success"
    /\ Return(e)
    /\ UNCHANGED <<mode, source, copies, estimate, history>>

\* Mutant of Succeed: the batch copied last is not deleted first.
SucceedBeforeDelete(e) ==
    /\ executor[e].pc \in {"done", "delete"}
    /\ status' = "success"
    /\ Return(e)
    /\ UNCHANGED <<mode, source, copies, processed, guessed, estimate, history>>

Succeed(e) ==
    /\ executor[e].pc = "done"
    /\ status' = "success"
    /\ Return(e)
    /\ UNCHANGED <<mode, source, copies, processed, guessed, estimate, history>>

\* _post_batch_control: refresh and go on, or stop as a user asked.
GoOn(e) ==
    /\ executor[e].pc = "control"
    /\ executor' = [executor EXCEPT ![e] = [Idle EXCEPT !.pc = "next", !.processed = processed,
                                                        !.round = executor[e].round + 1]]
    /\ UNCHANGED <<mode, source, copies, job, estimate, history>>

Stop(e) ==
    /\ executor[e].pc = "control"
    /\ status = "running"
    /\ status' = "paused"
    /\ Return(e)
    /\ UNCHANGED <<mode, source, copies, processed, guessed, estimate, history>>

\* A statement is refused: nothing of it happened, the job fails.
FailBatch(e) ==
    /\ executor[e].pc \in {"next", "insert", "delete"}
    /\ executor[e].round < MaxBatches
    /\ status' = "failed"
    /\ Return(e)
    /\ UNCHANGED <<mode, source, copies, processed, guessed, estimate, history>>

Crash(e) ==
    /\ executor[e].pc # "idle"
    /\ crashes < MaxCrashes
    /\ crashes' = crashes + 1
    /\ Return(e)
    /\ UNCHANGED <<mode, source, copies, job, estimate, known, dropped, removed>>
----------------------------------------------------------------------------
\* The application that owns the table.
AppInsert ==
    /\ \E r \in Rows \ known :
         /\ source' = source \cup {r}
         /\ known' = known \cup {r}
    /\ Cardinality(known) < estimate + MaxInserts
    /\ UNCHANGED <<mode, copies, job, estimate, executor, dropped, removed, crashes>>

AppDelete ==
    /\ Cardinality(dropped) < MaxDeletes
    /\ \E r \in source :
         /\ source' = source \ {r}
         /\ dropped' = dropped \cup {r}
    /\ UNCHANGED <<mode, copies, job, estimate, executor, known, removed, crashes>>
----------------------------------------------------------------------------
Execute(e) ==
    \/ LoadJob(e) \/ StartJob(e) \/ SelectRows(e) \/ SkipSelect(e) \/ LeaveLoop(e)
    \/ InsertRows(e) \/ InsertSome(e) \/ DeleteRows(e) \/ CountBatch(e) \/ CountAll(e)
    \/ Succeed(e) \/ GoOn(e) \/ Stop(e) \/ FailBatch(e) \/ Crash(e)

Next == AppInsert \/ AppDelete \/ \E e \in Executors : Execute(e)

Spec == Init /\ [][Next]_vars
=============================================================================

------------------------ MODULE ArchiveBatchesAlone ------------------------
(***************************************************************************)
(* The executions of a job, of which `overlapping' chooses: those of a     *)
(* MongoDB migration may overlap and die, or executions follow one another *)
(* and none dies, which is what the counters and a success are about.      *)
(***************************************************************************)
EXTENDS ArchiveBatchesProps

VARIABLE overlapping

Alone == ~overlapping

ExecutionsInit ==
    /\ Init
    /\ overlapping \in BOOLEAN
    /\ overlapping => mode = "dest_mongo"

ExecutionsNext ==
    \/ AppInsert /\ UNCHANGED overlapping
    \/ AppDelete /\ UNCHANGED overlapping
    \/ \E e \in Executors :
         /\ Alone => \A d \in Executors \ {e} : executor[d] = Idle
         /\ Execute(e)
         /\ Alone => crashes' = 0
         /\ UNCHANGED overlapping

ExecutionsSpec == ExecutionsInit /\ [][ExecutionsNext]_<<vars, overlapping>>

\* The properties of a job whose executions follow one another.
ProcessedIsHonestAlone == Alone => ProcessedIsHonest
SuccessIsCompleteAlone == Alone => SuccessIsComplete
SuccessMovesWholeAlone == Alone => SuccessMovesWhole
----------------------------------------------------------------------------
(***************************************************************************)
(* What makes them inductive.  At most one execution is under way, and it  *)
(* knows the job as it is; every row that ever was in the table is in it,  *)
(* was deleted by the job or by the application; and an execution that     *)
(* leaves the loop has seen a batch which was all that was left.           *)
(***************************************************************************)
AtRest(e) == executor[e] = Idle
OneExecution ==
    /\ \A d, e \in Executors : d # e => AtRest(d) \/ AtRest(e)
    /\ \A e \in Executors : executor[e].pc = "idle" => AtRest(e)

\* The job and the copy that its execution holds of it.
InStep(e) ==
    /\ executor[e].pc \in {"loaded", "next", "insert", "delete", "count"} =>
         executor[e].processed = processed
    /\ executor[e].pc = "loaded" => status \in {"queued", "paused"}
    /\ executor[e].pc \notin {"idle", "loaded"} => status = "running"

\* No row comes back: each was deleted by the job, by the application or is there.
RowsParted ==
    /\ known = source \cup removed \cup dropped
    /\ source \cap removed = {} /\ source \cap dropped = {} /\ removed \cap dropped = {}
    /\ estimate <= Cardinality(known)

Counted ==
    ~guessed =>
        /\ \A e \in Executors :
             executor[e].pc = "count" => processed + executor[e].deleted = Cardinality(removed)
        /\ (\A e \in Executors : executor[e].pc # "count") => processed = Cardinality(removed)

\* No row arrived since the submission, so that a batch may be known to be the last.
Exact == Cardinality(known) = estimate
Gone == Cardinality(removed) + Cardinality(dropped)
Undisturbed == mode = "purge_mongo" => dropped = {}

LastIsWhole(e) ==
    /\ executor[e].pc \in {"insert", "delete"} /\ mode \notin {"purge", "single"} =>
         /\ Cardinality(executor[e].selected) < BatchSize => source \subseteq executor[e].selected
         /\ mode = "purge_mongo" /\ dropped = {} => executor[e].selected \subseteq source
    /\ executor[e].pc = "count" =>
         /\ mode = "purge" => processed + executor[e].deleted <= Gone
         /\ \/ mode \in {"purge", "purge_mongo"} /\ executor[e].deleted < BatchSize
            \/ mode = "single"
            \/ Copying /\ Cardinality(executor[e].selected) < BatchSize
            => (Undisturbed => source = {})
    /\ executor[e].pc = "done" => (Undisturbed => source = {})

Completing ==
    Exact =>
        /\ mode = "purge" => processed <= Gone
        /\ \A e \in Executors : LastIsWhole(e)
        /\ status = "success" /\ Undisturbed => source = {}

\* What is in both tables is about to be deleted from the source.
Moving ==
    mode = "dest_mongo" =>
        /\ \A r \in Rows : copies[r] <= 1
        /\ status # "failed" =>
             \A r \in source \cap Copied :
               \E e \in Executors : executor[e].pc = "delete" /\ r \in executor[e].selected

InTurn ==
    /\ OneExecution
    /\ \A e \in Executors : InStep(e)
    /\ RowsParted /\ Counted /\ Completing /\ Moving

\* The inductive invariant.
InductiveAlone == Inductive /\ (Alone => InTurn)
============================================================================

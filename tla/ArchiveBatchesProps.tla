------------------------- MODULE ArchiveBatchesProps -------------------------
(***************************************************************************)
(* What becomes of the rows of an archive job, and what the job says of    *)
(* them.                                                                   *)
(***************************************************************************)
EXTENDS ArchiveBatches

\* The state is well-formed.
TypeOK ==
    /\ mode \in Modes
    /\ source \in SUBSET Rows
    /\ copies \in [Rows -> Nat]
    /\ status \in {"queued", "running", "paused", "success", "failed"}
    /\ processed \in Nat /\ estimate \in Nat
    /\ guessed \in BOOLEAN
    /\ executor \in [Executors -> [pc : {"idle", "loaded", "next", "insert", "delete",
                                         "count", "done", "control"},
                                   round : Nat, selected : SUBSET Rows,
                                   deleted : Nat, processed : Nat]]
    /\ known \in SUBSET Rows /\ dropped \in SUBSET Rows /\ removed \in SUBSET Rows
    /\ crashes \in 0..MaxCrashes

(***************************************************************************)
(* Mode `dest' of MongoDB: whatever executions overlap or die, a row that  *)
(* the application did not delete is in one of the two collections         *)
(* (archive.py 1081-1083).                                                 *)
(***************************************************************************)
MigrationKeepsRows == mode = "dest_mongo" => known \ dropped \subseteq source \cup Copied

\* What makes it inductive: who is about to delete a batch by _id has copied it.
CopiedFirst ==
    mode = "dest_mongo" =>
        /\ known \ dropped \subseteq source \cup Copied
        /\ source \cup Copied \subseteq known
        /\ \A e \in Executors :
             /\ executor[e].selected \subseteq known
             /\ executor[e].pc = "delete" => executor[e].selected \subseteq Copied

\* The inductive invariant.
Inductive == TypeOK /\ CopiedFirst

(***************************************************************************)
(* As long as the application deletes none of its rows, a MongoDB job in   *)
(* mode `dest' moves rows as RowTransfer says: every step removes only     *)
(* what was copied before (archive.py 1062-1099).                          *)
(***************************************************************************)
Transfer == INSTANCE RowTransfer WITH dest <- Copied
ImplementsTransfer ==
    /\ mode = "dest_mongo" => Transfer!Init
    /\ [][mode = "dest_mongo" /\ dropped' = {} => Transfer!Next]_(Transfer!vars)

(***************************************************************************)
(* One execution at a time, none of which dies: unless it is flagged as an *)
(* estimate, processed_rows is the number of rows the job removed, the     *)
(* batch at hand apart (archive.py 161-167, 951-956, 1051-1056).           *)
(***************************************************************************)
Uncounted(e) == IF executor[e].pc = "count" THEN executor[e].deleted ELSE 0
ProcessedIsHonest ==
    ~guessed => \E e \in Executors : processed + Uncounted(e) = Cardinality(removed)

(***************************************************************************)
(* A successful job left none of the rows that were there when it was      *)
(* submitted, provided that no other arrived, and in a purge of MongoDB    *)
(* none was deleted by others (archive.py 957, 1005, 1057, 1089).          *)
(***************************************************************************)
SuccessIsComplete ==
    /\ status = "success"
    /\ Cardinality(known) = estimate
    /\ mode = "purge_mongo" => dropped = {}
    => source = {}

(***************************************************************************)
(* A successful job of mode `dest_mongo' leaves no row in both tables and  *)
(* copied none twice (archive.py 1081-1093).                               *)
(***************************************************************************)
SuccessMovesWhole ==
    status = "success" /\ mode = "dest_mongo" =>
        source \cap Copied = {} /\ \A r \in Rows : copies[r] <= 1
----------------------------------------------------------------------------
(***************************************************************************)
(* docs/sagittadb_progress.md:239: mode `dest' migrates rows from one      *)
(* instance to the other.  With a SQL source the rows deleted are searched *)
(* again and need not be the rows that were copied.                        *)
(***************************************************************************)
NoRowLost == Copying => known \ dropped \subseteq source \cup Copied
=============================================================================

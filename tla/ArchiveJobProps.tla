--------------------------- MODULE ArchiveJobProps ---------------------------
(***************************************************************************)
(* What an archive job, its ticket, its queue and its workers keep.        *)
(***************************************************************************)
EXTENDS ArchiveJob

Executing == {"batch", "last", "control", "stop", "end"}

\* The state is well-formed.
TypeOK ==
    /\ job \in ArchiveJobStatus \cup {"absent"}
    /\ ticket \in WorkflowStatus \cup {"ABSENT"}
    /\ scheduled \in BOOLEAN
    /\ verdict \in AuditStatus
    /\ left \in 0..Batches
    /\ actor \in [Actors -> [pc : {"idle", "commit", "publish", "loaded"} \cup Executing,
                             op : Operation \cup {"none"},
                             job : ArchiveJobStatus \cup {"absent"},
                             ticket : WorkflowStatus \cup {"ABSENT"},
                             scheduled : BOOLEAN]]
    /\ queue \in Nat /\ sqlQueue \in Nat
    /\ dispatcher \in {"idle", "committed"}
    /\ sqlWorker \in {"idle", "loaded", "run"}
    /\ requests \in 0..MaxRequests
    /\ approved \in BOOLEAN
    /\ faults \in 0..MaxFaults

At(pcs) == \E a \in Actors : actor[a].pc \in pcs

(***************************************************************************)
(* No batch touches the source table before the ticket was approved,       *)
(* whatever requests overlap and whichever message is still around         *)
(* (archive.py 399, 812-816, 834).                                         *)
(***************************************************************************)
RunsAfterApproval == left < Batches => approved

\* Whoever may still start or run the job found it past its approval.
PastApproval(j) == j \notin {"absent", "pending_review", "canceled"}
ApprovalInv ==
    /\ PastApproval(job) => approved
    /\ queue > 0 \/ dispatcher # "idle" \/ left < Batches => approved
    /\ \A a \in Actors :
         /\ actor[a].pc \notin {"idle", "commit"} => approved
         /\ actor[a].pc = "commit" /\ PastApproval(actor[a].job) => approved
         /\ actor[a].pc = "commit" /\ actor[a].op \in {"start", "schedule", "external",
                "pause", "resume", "cancel"} => PastApproval(actor[a].job)

\* The inductive invariant: the types, and what backs every copy of the row.
Inductive == TypeOK /\ ApprovalInv

(***************************************************************************)
(* Short of a fault a queued job has its message, or somebody who will     *)
(* publish one or is about to start it (archive.py 469-489, 834, 895-912). *)
(***************************************************************************)
QueuedIsOwed ==
    faults = 0 /\ job = "queued" =>
        \/ queue > 0 \/ dispatcher = "committed"
        \/ At({"publish", "loaded"})
        \/ \E a \in Actors : actor[a].pc = "commit" /\ actor[a].op = "start"

(***************************************************************************)
(* Short of a fault, and with the content of the ticket loaded, a running  *)
(* job has an executor, and so has a ticket shown as executing             *)
(* (archive.py 832-875).                                                   *)
(***************************************************************************)
RunningIsExecuted ==
    faults = 0 /\ ~LazyContent =>
        /\ job = "running" => At(Executing)
        /\ ticket = "EXECUTING" => At(Executing) \/ sqlWorker = "run"

(***************************************************************************)
(* A job that the platform itself executed is successful only when nothing *)
(* is left to move (archive.py 957-961, 1057-1061).  With LazyContent no   *)
(* external result is recorded, so a success is the platform's own.        *)
(***************************************************************************)
SuccessIsComplete == job = "success" => left = 0

(***************************************************************************)
(* One request at a time and no fault: a queued job leaves the queue, an   *)
(* execution ends, a scheduled job is dispatched.  With two requests the   *)
(* last may fail: a restart that overlaps a rescheduling clears the time   *)
(* of the scheduled job (archive.py 469-515, 832-914).                     *)
(***************************************************************************)
QueuedLeaves == job = "queued" ~> job # "queued"
RunningLeaves == job = "running" ~> job # "running"
ScheduledFires == job = "scheduled" ~> job # "scheduled"
----------------------------------------------------------------------------
(***************************************************************************)
(* execute_sql.py:141 calls what the dispatcher of SQL tickets sends due   *)
(* SQL tickets.  A scheduled archive ticket is none.                       *)
(***************************************************************************)
ArchiveIsNeverSentAsSql == sqlWorker # "run"

(***************************************************************************)
(* docs/sagittadb_progress.md:237: archive_job records the status of an    *)
(* execution and its error.                                                *)
(***************************************************************************)
ExecutionIsRecorded ==
    job = "running" ~> job \in {"paused", "canceled", "success", "failed"}
=============================================================================

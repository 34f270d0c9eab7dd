----------------------------- MODULE ArchiveJob -----------------------------
(***************************************************************************)
(* One archive job of SagittaDB: its row in archive_job, its approval      *)
(* ticket in sql_workflow and workflow_audit (a chain of one node, the     *)
(* default of _create_archive_workflow), the web requests on both, the     *)
(* Celery queue `archive' with its workers and dispatcher, and the queue   *)
(* `execute' of the SQL tickets, whose dispatcher takes archive tickets    *)
(* for its own.                                                            *)
(*                                                                         *)
(* As in SqlWorkflow a request reads its rows, decides, and commits later  *)
(* the columns it changed.  The data a batch moves is in ArchiveBatches;   *)
(* here a batch is one unit of the work left.                              *)
(***************************************************************************)
EXTENDS Naturals

CONSTANTS
    Handlers,     \* concurrent web requests
    Workers,      \* worker processes of the queue `archive'
    Batches,      \* full batches in the source table
    Requests,     \* the operations users ask for, a subset of Operation
    MaxRequests,  \* bound: web requests on the job and its ticket
    LazyContent,  \* TRUE: the first use of wf.content raises MissingGreenlet
    FaultKinds,   \* the faults that may happen: "web", "worker", "dispatcher", "broker"
    MaxFaults     \* bound: how many of them

Actors == Handlers \cup Workers
\* On the ticket: pass, reject, withdraw, execute; the others on the job.
Operation == {"pass", "reject", "withdraw", "execute", "start", "schedule",
              "external", "pause", "resume", "cancel"}

ASSUME RequestAssumption == Requests \subseteq Operation
ASSUME ActorAssumption == Handlers \cap Workers = {}
ASSUME WorkAssumption == Batches \in Nat \ {0}
ASSUME BoundAssumption == MaxRequests \in Nat /\ MaxFaults \in Nat
ASSUME SwitchAssumption == LazyContent \in BOOLEAN
ASSUME FaultAssumption == FaultKinds \subseteq {"web", "worker", "dispatcher", "broker"}

VARIABLES
    job,         \* archive_job.status, "absent" before the submission
    ticket,      \* sql_workflow.status
    scheduled,   \* sql_workflow.scheduled_execute_at is set
    verdict,     \* workflow_audit.current_status
    left,        \* full batches left in the source table
    actor,       \* what each request and each worker has read, where it stands
    queue,       \* messages of the queue `archive' nobody has taken
    dispatcher,  \* where the dispatching task of archive jobs stands
    sqlQueue,    \* messages of the queue `execute' about this ticket
    sqlWorker,   \* where the worker stands that took one
    requests,    \* history: web requests so far
    approved,    \* history: the ticket was approved
    faults       \* history: crashes and lost broker answers

row == <<job, ticket, scheduled, verdict>>
sqlSide == <<sqlQueue, sqlWorker>>
ghosts == <<requests, approved, faults>>
vars == <<row, left, actor, queue, dispatcher, sqlSide, ghosts>>
----------------------------------------------------------------------------
ArchiveJobStatus == {"pending_review", "approved", "scheduled", "queued", "running",
                     "pausing", "paused", "canceling", "canceled", "success", "failed"}
WorkflowStatus == {"PENDING_REVIEW", "AUTO_REVIEW_FAIL", "REVIEW_PASS",
                   "TIMING_TASK", "QUEUING", "EXECUTING",
                   "FINISH", "EXCEPTION", "ABORT"}
AuditStatus == {"PENDING", "PASSED", "REJECTED", "CANCELED"}

\* Mutant of Startable: an application may be started while under review.
StartableUnderReview == {"pending_review", "approved", "paused", "queued", "scheduled"}
Startable == {"approved", "paused", "queued", "scheduled"}       \* start_job
Pausable == {"queued", "running"}
Cancelable == {"approved", "scheduled", "queued", "running", "pausing", "paused"}
Executable == {"queued", "paused"}                               \* execute_job
AbortedWithJob == {"PENDING_REVIEW", "REVIEW_PASS", "TIMING_TASK", "QUEUING"}
CanceledWithTicket == {"pending_review", "approved", "scheduled", "queued"}

Idle == [pc |-> "idle", op |-> "none", job |-> "absent", ticket |-> "ABSENT",
         scheduled |-> FALSE]
Written(column, read, new) == IF new = read THEN column ELSE new

\* mark_workflow_approved, mark_workflow_canceled
MarkApproved(j) == IF j = "pending_review" THEN "approved" ELSE j
MarkCanceled(j) == IF j \in CanceledWithTicket THEN "canceled" ELSE j

\* What cancel makes of the job; a running one stops after its batch.
Stopped(j) == IF j \in {"running", "pausing"} THEN "canceling" ELSE "canceled"

\* What the end of an execution makes of the ticket.
Recorded(j) == CASE j = "success" -> "FINISH"
                 [] j = "canceled" -> "ABORT"
                 [] OTHER -> "EXCEPTION"

Fault(kind) ==
    /\ kind \in FaultKinds
    /\ faults < MaxFaults
    /\ faults' = faults + 1

Become(a, r) == actor' = [actor EXCEPT ![a] = r]
Answer(a) == Become(a, Idle)
Goto(a, pc) == Become(a, [actor[a] EXCEPT !.pc = pc])

Init ==
    /\ job = "absent"
    /\ ticket = "ABSENT"
    /\ scheduled = FALSE
    /\ verdict = "PENDING"
    /\ left = Batches
    /\ actor = [a \in Actors |-> Idle]
    /\ queue = 0
    /\ dispatcher = "idle"
    /\ sqlQueue = 0
    /\ sqlWorker = "idle"
    /\ requests = 0
    /\ approved = FALSE
    /\ faults = 0
----------------------------------------------------------------------------
(***************************************************************************)
(* Submission: create_audit commits the ticket before submit_job inserts   *)
(* the job; whoever acts on the ticket in between finds no job.            *)
(***************************************************************************)
SubmitTicket ==
    /\ ticket = "ABSENT"
    /\ ticket' = "PENDING_REVIEW"
    /\ UNCHANGED <<job, scheduled, verdict, left, actor, queue, dispatcher, sqlSide, ghosts>>

SubmitJob ==
    /\ ticket # "ABSENT" /\ job = "absent"
    /\ job' = "pending_review"
    /\ UNCHANGED <<ticket, scheduled, verdict, left, actor, queue, dispatcher, sqlSide, ghosts>>
----------------------------------------------------------------------------
(***************************************************************************)
(* Web requests: what each may start from, and what its commit writes.     *)
(***************************************************************************)
Admitted(op) ==
    \/ op = "pass" /\ ticket \in {"PENDING_REVIEW", "REVIEW_PASS"} /\ verdict = "PENDING"
    \/ op = "reject" /\ ticket \in {"PENDING_REVIEW", "REVIEW_PASS"}
    \/ op = "withdraw" /\ ticket = "PENDING_REVIEW" /\ verdict = "PENDING"
    \/ op = "execute" /\ ticket = "REVIEW_PASS"
    \/ op \in {"start", "schedule", "external"} /\ job \in Startable
    \/ op = "pause" /\ job \in Pausable
    \/ op = "resume" /\ job = "paused"
    \/ op = "cancel" /\ job \in Cancelable

\* The SELECTs of a request and the status tests made on them.
Read(h, op) ==
    /\ actor[h].pc = "idle"
    /\ requests < MaxRequests
    /\ requests' = requests + 1
    /\ op \in Requests /\ Admitted(op)
    /\ Become(h, [pc |-> "commit", op |-> op, job |-> job, ticket |-> ticket,
                  scheduled |-> scheduled])
    /\ UNCHANGED <<row, left, queue, dispatcher, sqlSide, approved, faults>>

Commits(h, op) == actor[h].pc = "commit" /\ actor[h].op = op

\* AuditService._do_pass of the only node, and mark_workflow_approved.
CommitPass(h) ==
    /\ Commits(h, "pass")
    /\ ticket' = Written(ticket, actor[h].ticket, "REVIEW_PASS")
    /\ verdict' = "PASSED"
    /\ job' = MarkApproved(job)
    /\ approved' = TRUE
    /\ Answer(h)
    /\ UNCHANGED <<scheduled, left, queue, dispatcher, sqlSide, requests, faults>>

\* AuditService._do_reject: the job is not told.
CommitReject(h) ==
    /\ Commits(h, "reject")
    /\ ticket' = Written(ticket, actor[h].ticket, "AUTO_REVIEW_FAIL")
    /\ verdict' = "REJECTED"
    /\ Answer(h)
    /\ UNCHANGED <<job, scheduled, left, queue, dispatcher, sqlSide, ghosts>>

\* AuditService._do_cancel, called for the ticket or for its pending job.
CommitWithdraw(h) ==
    /\ Commits(h, "withdraw")
    /\ ticket' = Written(ticket, actor[h].ticket, "ABORT")
    /\ verdict' = "CANCELED"
    /\ job' = MarkCanceled(job)
    /\ Answer(h)
    /\ UNCHANGED <<scheduled, left, queue, dispatcher, sqlSide, ghosts>>

\* WorkflowService._execute_immediately: nothing tells it the ticket's type.
CommitExecute(h) ==
    /\ Commits(h, "execute")
    /\ ticket' = Written(ticket, actor[h].ticket, "QUEUING")
    /\ scheduled' = Written(scheduled, actor[h].scheduled, FALSE)
    /\ sqlQueue' = sqlQueue + 1
    /\ Answer(h)
    /\ UNCHANGED <<job, verdict, left, queue, dispatcher, sqlWorker, ghosts>>

\* _start_job_immediately up to the first commit.
CommitStart(h) ==
    /\ Commits(h, "start")
    /\ job' = Written(job, actor[h].job, "queued")
    /\ ticket' = Written(ticket, actor[h].ticket, "QUEUING")
    /\ scheduled' = Written(scheduled, actor[h].scheduled, FALSE)
    /\ Become(h, [actor[h] EXCEPT !.pc = "publish", !.job = "queued"])
    /\ UNCHANGED <<verdict, left, queue, dispatcher, sqlSide, ghosts>>

\* Mutant of CommitSchedule: the time is not stored with the ticket.
CommitScheduleWithoutTime(h) ==
    /\ Commits(h, "schedule")
    /\ job' = Written(job, actor[h].job, "scheduled")
    /\ ticket' = Written(ticket, actor[h].ticket, "TIMING_TASK")
    /\ Answer(h)
    /\ UNCHANGED <<scheduled, verdict, left, queue, dispatcher, sqlSide, ghosts>>

\* _schedule_job
CommitSchedule(h) ==
    /\ Commits(h, "schedule")
    /\ job' = Written(job, actor[h].job, "scheduled")
    /\ ticket' = Written(ticket, actor[h].ticket, "TIMING_TASK")
    /\ scheduled' = TRUE
    /\ Answer(h)
    /\ UNCHANGED <<verdict, left, queue, dispatcher, sqlSide, ghosts>>

\* _record_external_job; _sync_workflow_execution_decision uses wf.content.
CommitExternal(h, result) ==
    /\ Commits(h, "external")
    /\ ~LazyContent
    /\ job' = Written(job, actor[h].job, result)
    /\ ticket' = Written(ticket, actor[h].ticket, Recorded(result))
    /\ scheduled' = Written(scheduled, actor[h].scheduled, FALSE)
    /\ Answer(h)
    /\ UNCHANGED <<verdict, left, queue, dispatcher, sqlSide, ghosts>>

ExternalRaises(h) ==
    /\ Commits(h, "external")
    /\ LazyContent
    /\ Answer(h)
    /\ UNCHANGED <<row, left, queue, dispatcher, sqlSide, ghosts>>

CommitPause(h) ==
    /\ Commits(h, "pause")
    /\ job' = Written(job, actor[h].job, "pausing")
    /\ Answer(h)
    /\ UNCHANGED <<ticket, scheduled, verdict, left, queue, dispatcher, sqlSide, ghosts>>

\* Mutant of CommitResume: the router does not call start_job afterwards.
CommitResumeOnly(h) ==
    /\ Commits(h, "resume")
    /\ job' = Written(job, actor[h].job, "queued")
    /\ Answer(h)
    /\ UNCHANGED <<ticket, scheduled, verdict, left, queue, dispatcher, sqlSide, ghosts>>

\* resume_archive_job commits `queued' and goes on with start_job.
CommitResume(h) ==
    /\ Commits(h, "resume")
    /\ job' = Written(job, actor[h].job, "queued")
    /\ Become(h, [pc |-> "commit", op |-> "start", job |-> "queued",
                  ticket |-> ticket, scheduled |-> scheduled])
    /\ UNCHANGED <<ticket, scheduled, verdict, left, queue, dispatcher, sqlSide, ghosts>>

\* set_job_control_state "cancel" of a job past its approval.
CommitCancel(h) ==
    LET stopped == Stopped(actor[h].job)
    IN  /\ Commits(h, "cancel")
        /\ job' = Written(job, actor[h].job, stopped)
        /\ ticket' = IF stopped = "canceled" /\ actor[h].ticket \in AbortedWithJob
                     THEN "ABORT" ELSE ticket
        /\ Answer(h)
        /\ UNCHANGED <<scheduled, verdict, left, queue, dispatcher, sqlSide, ghosts>>

\* execute_archive_job_task.delay succeeds.
Publish(h) ==
    /\ actor[h].pc = "publish"
    /\ queue' = queue + 1
    /\ Answer(h)
    /\ UNCHANGED <<row, left, dispatcher, sqlSide, ghosts>>

\* delay raises: the request executes the job itself, on the status it holds
\* in memory; when only the answer was lost the message is in the queue.
PublishFails(h) ==
    /\ actor[h].pc = "publish"
    /\ Goto(h, "loaded")
    /\ \/ UNCHANGED <<queue, faults>>
       \/ Fault("broker") /\ queue' = queue + 1
    /\ UNCHANGED <<row, left, dispatcher, sqlSide, requests, approved>>
----------------------------------------------------------------------------
(***************************************************************************)
(* execute_job, in a worker or in the request that could not publish.      *)
(***************************************************************************)
LoadJob(w) ==
    /\ actor[w].pc = "idle"
    /\ queue > 0
    /\ queue' = queue - 1
    /\ actor' = IF job \in Executable
                THEN [actor EXCEPT ![w] = [Idle EXCEPT !.pc = "loaded", !.job = job]]
                ELSE actor
    /\ UNCHANGED <<row, left, dispatcher, sqlSide, ghosts>>

StartJob(a) ==
    /\ actor[a].pc = "loaded"
    /\ job' = "running"
    /\ ticket' = "EXECUTING"
    /\ Become(a, [actor[a] EXCEPT !.pc = "batch", !.job = "running"])
    /\ UNCHANGED <<scheduled, verdict, left, queue, dispatcher, sqlSide, ghosts>>

\* Mutant of RunBatch: the last but one batch is taken for the last.
RunBatchEarly(a) ==
    /\ actor[a].pc = "batch"
    /\ left' = IF left = 0 THEN 0 ELSE left - 1
    /\ Goto(a, IF left <= 2 THEN "last" ELSE "control")
    /\ UNCHANGED <<row, queue, dispatcher, sqlSide, ghosts>>

\* One batch on the target, then its commit.
RunBatch(a) ==
    /\ actor[a].pc = "batch"
    /\ left' = IF left = 0 THEN 0 ELSE left - 1
    /\ Goto(a, IF left <= 1 THEN "last" ELSE "control")
    /\ UNCHANGED <<row, queue, dispatcher, sqlSide, ghosts>>

\* The engine reports an error; FAILED is set in memory only.
FailBatch(a) ==
    /\ actor[a].pc = "batch"
    /\ Become(a, [actor[a] EXCEPT !.pc = "end", !.job = "failed"])
    /\ UNCHANGED <<row, left, queue, dispatcher, sqlSide, ghosts>>

CommitSuccess(a) ==
    /\ actor[a].pc = "last"
    /\ job' = Written(job, actor[a].job, "success")
    /\ Become(a, [actor[a] EXCEPT !.pc = "end", !.job = "success"])
    /\ UNCHANGED <<ticket, scheduled, verdict, left, queue, dispatcher, sqlSide, ghosts>>

\* _post_batch_control: refresh, and go on unless told to stop.
RefreshJob(a) ==
    /\ actor[a].pc = "control"
    /\ Become(a, [actor[a] EXCEPT !.job = job,
                     !.pc = IF job \in {"pausing", "canceling"} THEN "stop" ELSE "batch"])
    /\ UNCHANGED <<row, left, queue, dispatcher, sqlSide, ghosts>>

CommitStop(a) ==
    LET rest == IF actor[a].job = "pausing" THEN "paused" ELSE "canceled"
    IN  /\ actor[a].pc = "stop"
        /\ job' = rest
        /\ Become(a, [actor[a] EXCEPT !.pc = "end", !.job = rest])
        /\ UNCHANGED <<ticket, scheduled, verdict, left, queue, dispatcher, sqlSide, ghosts>>

\* Mutant of RecordEnd: the failure of the job is not committed.
RecordTicketOnly(a) ==
    /\ actor[a].pc = "end"
    /\ ~LazyContent
    /\ ticket' = Recorded(actor[a].job)
    /\ Answer(a)
    /\ UNCHANGED <<job, scheduled, verdict, left, queue, dispatcher, sqlSide, ghosts>>

\* The `finally' of execute_job: ticket, and a failure of the job, are
\* committed after wf.content was used ...
RecordEnd(a) ==
    /\ actor[a].pc = "end"
    /\ ~LazyContent
    /\ job' = IF actor[a].job = "failed" THEN "failed" ELSE job
    /\ ticket' = Recorded(actor[a].job)
    /\ Answer(a)
    /\ UNCHANGED <<scheduled, verdict, left, queue, dispatcher, sqlSide, ghosts>>

\* ... and are rolled back when that raises.
RecordRaises(a) ==
    /\ actor[a].pc = "end"
    /\ LazyContent
    /\ Answer(a)
    /\ UNCHANGED <<row, left, queue, dispatcher, sqlSide, ghosts>>
----------------------------------------------------------------------------
(***************************************************************************)
(* dispatch_scheduled_jobs: the rows are committed before the messages go. *)
(***************************************************************************)
DispatchDue ==
    /\ dispatcher = "idle"
    /\ job = "scheduled" /\ scheduled
    /\ job' = "queued"
    /\ ticket' = "QUEUING"
    /\ dispatcher' = "committed"
    /\ UNCHANGED <<scheduled, verdict, left, actor, queue, sqlSide, ghosts>>

SendDue ==
    /\ dispatcher = "committed"
    /\ queue' = queue + 1
    /\ dispatcher' = "idle"
    /\ UNCHANGED <<row, left, actor, sqlSide, ghosts>>

(***************************************************************************)
(* The SQL side, see SqlWorkflow: its dispatcher asks for due tickets in   *)
(* TIMING_TASK whatever their type, its worker sends their content, here   *)
(* the JSON of the archive job, to the source instance.                    *)
(***************************************************************************)
SqlDispatch ==
    /\ ticket = "TIMING_TASK" /\ scheduled
    /\ ticket' = "QUEUING"
    /\ sqlQueue' = sqlQueue + 1
    /\ UNCHANGED <<job, scheduled, verdict, left, actor, queue, dispatcher, sqlWorker, ghosts>>

SqlLoad ==
    /\ sqlWorker = "idle"
    /\ sqlQueue > 0
    /\ sqlQueue' = sqlQueue - 1
    /\ sqlWorker' = IF ticket \in {"QUEUING", "TIMING_TASK"} THEN "loaded" ELSE "idle"
    /\ UNCHANGED <<row, left, actor, queue, dispatcher, ghosts>>

SqlStart ==
    /\ sqlWorker = "loaded"
    /\ ticket' = "EXECUTING"
    /\ sqlWorker' = "run"
    /\ UNCHANGED <<job, scheduled, verdict, left, actor, queue, dispatcher, sqlQueue, ghosts>>

\* The engine refuses the JSON.
SqlFinish ==
    /\ sqlWorker = "run"
    /\ ticket' = "EXCEPTION"
    /\ sqlWorker' = "idle"
    /\ UNCHANGED <<job, scheduled, verdict, left, actor, queue, dispatcher, sqlQueue, ghosts>>
----------------------------------------------------------------------------
\* A process dies: what it had not committed is lost.
ActorCrash(a) ==
    /\ actor[a].pc # "idle"
    /\ Fault(IF a \in Workers THEN "worker" ELSE "web")
    /\ Answer(a)
    /\ UNCHANGED <<row, left, queue, dispatcher, sqlSide, requests, approved>>

DispatcherCrash ==
    /\ dispatcher # "idle"
    /\ Fault("dispatcher")
    /\ dispatcher' = "idle"
    /\ UNCHANGED <<row, left, actor, queue, sqlSide, requests, approved>>
----------------------------------------------------------------------------
Submit == SubmitTicket \/ SubmitJob

ContinueRequest(h) ==
    \/ CommitPass(h) \/ CommitReject(h) \/ CommitWithdraw(h) \/ CommitExecute(h)
    \/ CommitStart(h) \/ CommitSchedule(h) \/ ExternalRaises(h)
    \/ \E result \in {"success", "failed"} : CommitExternal(h, result)
    \/ CommitPause(h) \/ CommitResume(h) \/ CommitCancel(h)
    \/ Publish(h) \/ PublishFails(h)

Execute(a) ==
    \/ StartJob(a) \/ RunBatch(a) \/ FailBatch(a) \/ CommitSuccess(a)
    \/ RefreshJob(a) \/ CommitStop(a) \/ RecordEnd(a) \/ RecordRaises(a)

DispatcherStep == DispatchDue \/ SendDue
SqlSide == SqlDispatch \/ SqlLoad \/ SqlStart \/ SqlFinish

Next ==
    \/ Submit
    \/ \E h \in Handlers : ContinueRequest(h) \/ \E op \in Operation : Read(h, op)
    \/ \E w \in Workers : LoadJob(w)
    \/ \E a \in Actors : Execute(a) \/ ActorCrash(a)
    \/ DispatcherStep \/ DispatcherCrash
    \/ SqlSide

Spec == Init /\ [][Next]_vars

\* A started request, an execution and the dispatchers go on; idle workers
\* poll their queue.  Nobody is obliged to send a request.
Fairness ==
    /\ \A h \in Handlers : WF_vars(ContinueRequest(h))
    /\ \A w \in Workers : WF_vars(LoadJob(w))
    /\ \A a \in Actors : WF_vars(Execute(a))
    /\ WF_vars(DispatcherStep)
    /\ WF_vars(SqlSide)

FairSpec == Spec /\ Fairness
=============================================================================

---------------------------- MODULE SqlWorkflow ----------------------------
(***************************************************************************)
(* One SQL ticket of SagittaDB: its row in sql_workflow, its approval      *)
(* chain in workflow_audit, the web requests that act on it, the Celery    *)
(* queue `execute', the workers that run the SQL and the dispatcher that   *)
(* beat starts every minute for scheduled tickets.                         *)
(*                                                                         *)
(* A web request reads the two rows with plain SELECTs, decides, and       *)
(* commits later; nothing it read is locked meanwhile.  The commit writes  *)
(* only the columns whose new value differs from the value the request     *)
(* read (SQLAlchemy's unit of work), see Written.  Every other handler may *)
(* run between the read and the commit.                                    *)
(***************************************************************************)
EXTENDS Naturals, FiniteSets

CONSTANTS
    N,            \* length of the approval chain snapshotted into the ticket
    Users,        \* the accounts that send requests
    Superusers,   \* operator["is_superuser"]
    Executors,    \* accounts holding the permission sql_execute
    Engineer,     \* the submitter
    Approvers,    \* Approvers[n]: who passes the check of node n
    Handlers,     \* concurrent web requests
    Workers,      \* worker processes of the queue `execute'
    ScheduledTime,\* the execution time a scheduling request carries
    NoTime,       \* NULL in scheduled_execute_at
    MaxConfirms,  \* bound: platform execution requests that are committed
    FaultKinds,   \* the faults that may happen: "web", "worker", "dispatcher", "broker"
    MaxFaults     \* bound: how many of them

ASSUME ChainAssumption == N \in Nat \ {0}
ASSUME UserAssumption ==
    /\ Superusers \subseteq Users
    /\ Executors \subseteq Users
    /\ Engineer \in Users
    /\ Approvers \in [1..N -> SUBSET Users]
ASSUME TimeAssumption == ScheduledTime # NoTime
ASSUME BoundAssumption == MaxConfirms \in Nat /\ MaxFaults \in Nat
ASSUME FaultAssumption == FaultKinds \subseteq {"web", "worker", "dispatcher", "broker"}

VARIABLES
    status,       \* sql_workflow.status, "ABSENT" before the submission
    scheduledAt,  \* sql_workflow.scheduled_execute_at
    auditStatus,  \* workflow_audit.current_status
    nodes,        \* workflow_audit.audit_auth_groups_info: status per node
    handler,      \* what each web request has read and where it stands
    queue,        \* messages of the queue `execute' nobody has taken
    worker,       \* where each worker process stands
    dispatcher,   \* where the dispatching task stands
    signed,       \* history: <<node, user>> of every committed approval
    confirms,     \* history: committed requests that the platform run the SQL
    runs,         \* history: times the SQL was sent to the target database
    faults        \* history: crashes and lost broker answers

row == <<status, scheduledAt, auditStatus, nodes>>
ghosts == <<signed, confirms, runs, faults>>
vars == <<row, handler, queue, worker, dispatcher, ghosts>>
----------------------------------------------------------------------------
Node == 1..N

WorkflowStatus == {"PENDING_REVIEW", "AUTO_REVIEW_FAIL", "REVIEW_PASS",
                   "TIMING_TASK", "QUEUING", "EXECUTING",
                   "FINISH", "EXCEPTION", "ABORT"}
AuditStatus == {"PENDING", "PASSED", "REJECTED", "CANCELED"}
Result == {"FINISH", "EXCEPTION"}

AuditOps == {"pass", "reject", "cancel"}
ExecuteOps == {"immediate", "scheduled", "external"}

\* An idle handler: its fields are the defaults of a request not yet read.
Idle == [pc |-> "idle", op |-> "none", user |-> Engineer,
         status |-> "ABSENT", scheduledAt |-> NoTime,
         auditStatus |-> "PENDING", nodes |-> [n \in Node |-> "PENDING"]]

\* A commit leaves a column alone when the request assigned it the value it
\* had read, whatever the row holds by now.
Written(column, read, new) == IF new = read THEN column ELSE new

\* SELECT ... FOR UPDATE of the dispatcher holds the row until it commits;
\* an UPDATE of the row waits, a plain SELECT does not.
RowUnlocked == dispatcher = "idle"

\* Mutant of Current: the search runs from the end of the chain.
CurrentFromEnd(n, chain) ==
    chain[n] = "PENDING" /\ \A m \in (n + 1)..N : chain[m] # "PENDING"
\* Mutant of Complete: one operated node is taken for all of them.
CompleteOnceOperated(chain) == \E n \in Node : chain[n] # "PENDING"

\* The first pending node of a chain is the one to be operated.
Current(n, chain) ==
    chain[n] = "PENDING" /\ \A m \in 1..(n - 1) : chain[m] # "PENDING"
Complete(chain) == \A n \in Node : chain[n] # "PENDING"
CanApprove(u, n) == u \in Superusers \cup Approvers[n]

MayPass(u, chain) == \E n \in Node : Current(n, chain) /\ CanApprove(u, n)
\* With the chain complete the node test is skipped: anyone may reject.
MayReject(u, chain) == \A n \in Node : Current(n, chain) => CanApprove(u, n)
MayCancel(u, st, chain) ==
    /\ st = "PENDING_REVIEW"
    /\ u \in Superusers \cup {Engineer}
    /\ \A n \in Node : chain[n] = "PENDING"

\* Mutant of CancelPending: only the current node is canceled.
CancelCurrent(chain) ==
    [n \in Node |-> IF Current(n, chain) THEN "CANCELED" ELSE chain[n]]
\* ApplicationCancelPolicy.cancel_pending_nodes
CancelPending(chain) ==
    [n \in Node |-> IF chain[n] = "PENDING" THEN "CANCELED" ELSE chain[n]]

\* What the last and an earlier approval write into the two status columns.
AuditVerdict(complete) == IF complete THEN "PASSED" ELSE "PENDING"
TicketVerdict(complete) == IF complete THEN "REVIEW_PASS" ELSE "PENDING_REVIEW"

\* Mutants: a failed ticket may be executed again; the worker insists on
\* the status the dispatcher is about to commit; the dispatcher also picks
\* up tickets it has already sent.
ConfirmableAfterException == {"REVIEW_PASS", "EXCEPTION"}
RunnableWhenQueued == {"QUEUING"}
DueAgain == status \in {"TIMING_TASK", "QUEUING"} /\ scheduledAt # NoTime

Confirmable == {"REVIEW_PASS"}          \* WorkflowService.execute
Runnable == {"QUEUING", "TIMING_TASK"}  \* _execute_async
Due == status = "TIMING_TASK" /\ scheduledAt # NoTime

Fault(kind) ==
    /\ kind \in FaultKinds
    /\ faults < MaxFaults
    /\ faults' = faults + 1

Init ==
    /\ status = "ABSENT"
    /\ scheduledAt = NoTime
    /\ auditStatus = "PENDING"
    /\ nodes = [n \in Node |-> "PENDING"]
    /\ handler = [h \in Handlers |-> Idle]
    /\ queue = 0
    /\ worker = [w \in Workers |-> "idle"]
    /\ dispatcher = "idle"
    /\ signed = {}
    /\ confirms = 0
    /\ runs = 0
    /\ faults = 0
----------------------------------------------------------------------------
(***************************************************************************)
(* Submission: workflow, content, audit and log go in with one commit.     *)
(***************************************************************************)
Submit ==
    /\ status = "ABSENT"
    /\ status' = "PENDING_REVIEW"
    /\ auditStatus' = "PENDING"
    /\ nodes' = [n \in Node |-> "PENDING"]
    /\ UNCHANGED <<scheduledAt, handler, queue, worker, dispatcher, ghosts>>

(***************************************************************************)
(* Web requests.  A request that a guard refuses changes nothing and is    *)
(* not started; one refused after its first read returns to idle.          *)
(***************************************************************************)
Become(h, r) == handler' = [handler EXCEPT ![h] = r]
Answer(h) == Become(h, Idle)
AwaitedConfirms ==
    confirms + Cardinality({h \in Handlers : handler[h].pc = "commit"
                                /\ handler[h].op \in {"immediate", "scheduled"}})

\* AuditService.operate: the first SELECT, and the status test on it.
ReadTicketToAudit(h, op) ==
    /\ handler[h].pc = "idle"
    /\ op \in AuditOps
    /\ status \in {"PENDING_REVIEW", "REVIEW_PASS"}
    /\ op = "cancel" => status = "PENDING_REVIEW"
    /\ Become(h, [Idle EXCEPT !.pc = "audit", !.op = op, !.status = status])
    /\ UNCHANGED <<row, queue, worker, dispatcher, ghosts>>

\* The second SELECT, of the audit row, and the tests made on the chain.
ReadChainToPass(h, u) ==
    /\ handler[h].pc = "audit" /\ handler[h].op = "pass"
    /\ MayPass(u, nodes)
    /\ Become(h, [handler[h] EXCEPT !.pc = "commit", !.user = u,
                     !.auditStatus = auditStatus, !.nodes = nodes])
    /\ UNCHANGED <<row, queue, worker, dispatcher, ghosts>>

ReadChainToReject(h, u) ==
    /\ handler[h].pc = "audit" /\ handler[h].op = "reject"
    /\ MayReject(u, nodes)
    /\ Become(h, [handler[h] EXCEPT !.pc = "commit", !.auditStatus = auditStatus])
    /\ UNCHANGED <<row, queue, worker, dispatcher, ghosts>>

ReadChainToCancel(h, u) ==
    /\ handler[h].pc = "audit" /\ handler[h].op = "cancel"
    /\ MayCancel(u, handler[h].status, nodes)
    /\ Become(h, [handler[h] EXCEPT !.pc = "commit",
                     !.auditStatus = auditStatus, !.nodes = nodes])
    /\ UNCHANGED <<row, queue, worker, dispatcher, ghosts>>

\* 400 or 403 after the second read: nothing left to approve, an operated
\* node under a cancellation, or a user the node or the ticket does not admit.
RefuseAudit(h) ==
    /\ handler[h].pc = "audit"
    /\ \E u \in Users :
         \/ handler[h].op = "pass" /\ ~MayPass(u, nodes)
         \/ handler[h].op = "reject" /\ ~MayReject(u, nodes)
         \/ handler[h].op = "cancel" /\ ~MayCancel(u, handler[h].status, nodes)
    /\ Answer(h)
    /\ UNCHANGED <<row, queue, worker, dispatcher, ghosts>>

\* AuditService._do_pass from the marked node to the commit.
CommitPass(h) ==
    LET r == handler[h]
    IN  /\ r.pc = "commit" /\ r.op = "pass"
        /\ \E n \in Node :
             LET chain == [r.nodes EXCEPT ![n] = "PASSED"]
             IN  /\ Current(n, r.nodes)
                 /\ RowUnlocked \/ TicketVerdict(Complete(chain)) = r.status
                 /\ nodes' = chain
                 /\ auditStatus' = Written(auditStatus, r.auditStatus,
                                           AuditVerdict(Complete(chain)))
                 /\ status' = Written(status, r.status,
                                      TicketVerdict(Complete(chain)))
                 /\ signed' = signed \cup {<<n, r.user>>}
        /\ Answer(h)
        /\ UNCHANGED <<scheduledAt, queue, worker, dispatcher, confirms, runs, faults>>

\* AuditService._do_reject: the nodes keep their statuses.
CommitReject(h) ==
    LET r == handler[h]
    IN  /\ r.pc = "commit" /\ r.op = "reject"
        /\ RowUnlocked
        /\ auditStatus' = Written(auditStatus, r.auditStatus, "REJECTED")
        /\ status' = Written(status, r.status, "AUTO_REVIEW_FAIL")
        /\ Answer(h)
        /\ UNCHANGED <<scheduledAt, nodes, queue, worker, dispatcher, ghosts>>

\* AuditService._do_cancel with ApplicationCancelPolicy.cancel_pending_nodes.
CommitCancel(h) ==
    LET r == handler[h]
    IN  /\ r.pc = "commit" /\ r.op = "cancel"
        /\ RowUnlocked
        /\ auditStatus' = Written(auditStatus, r.auditStatus, "CANCELED")
        /\ nodes' = CancelPending(r.nodes)
        /\ status' = Written(status, r.status, "ABORT")
        /\ Answer(h)
        /\ UNCHANGED <<scheduledAt, queue, worker, dispatcher, ghosts>>

\* WorkflowService.execute: SELECT and the status test on it.
ReadTicketToExecute(h, op, u) ==
    /\ handler[h].pc = "idle"
    /\ op \in ExecuteOps
    /\ u \in Superusers \cup Executors
    /\ status \in Confirmable
    /\ op # "external" => AwaitedConfirms < MaxConfirms
    /\ Become(h, [Idle EXCEPT !.pc = "commit", !.op = op, !.status = status,
                     !.scheduledAt = scheduledAt])
    /\ UNCHANGED <<row, queue, worker, dispatcher, ghosts>>

\* _execute_immediately up to its commit; the message is sent afterwards.
CommitImmediate(h) ==
    LET r == handler[h]
    IN  /\ r.pc = "commit" /\ r.op = "immediate"
        /\ RowUnlocked
        /\ status' = Written(status, r.status, "QUEUING")
        /\ scheduledAt' = Written(scheduledAt, r.scheduledAt, NoTime)
        /\ confirms' = confirms + 1
        /\ Become(h, [Idle EXCEPT !.pc = "publish", !.op = r.op])
        /\ UNCHANGED <<auditStatus, nodes, queue, worker, dispatcher,
                       signed, runs, faults>>

\* Mutant of CommitScheduled: the execution time is not stored.
CommitScheduledWithoutTime(h) ==
    LET r == handler[h]
    IN  /\ r.pc = "commit" /\ r.op = "scheduled"
        /\ RowUnlocked
        /\ status' = Written(status, r.status, "TIMING_TASK")
        /\ confirms' = confirms + 1
        /\ Answer(h)
        /\ UNCHANGED <<scheduledAt, auditStatus, nodes, queue, worker, dispatcher,
                       signed, runs, faults>>

CommitScheduled(h) ==
    LET r == handler[h]
    IN  /\ r.pc = "commit" /\ r.op = "scheduled"
        /\ RowUnlocked
        /\ status' = Written(status, r.status, "TIMING_TASK")
        /\ scheduledAt' = Written(scheduledAt, r.scheduledAt, ScheduledTime)
        /\ confirms' = confirms + 1
        /\ Answer(h)
        /\ UNCHANGED <<auditStatus, nodes, queue, worker, dispatcher,
                       signed, runs, faults>>

\* _record_external_execution: the SQL was run by hand, only noted here.
CommitExternal(h, result) ==
    LET r == handler[h]
    IN  /\ r.pc = "commit" /\ r.op = "external"
        /\ RowUnlocked
        /\ status' = Written(status, r.status, result)
        /\ Answer(h)
        /\ UNCHANGED <<scheduledAt, auditStatus, nodes, queue, worker, dispatcher, ghosts>>

\* execute_workflow_task.delay succeeds.
Publish(h) ==
    /\ handler[h].pc = "publish"
    /\ queue' = queue + 1
    /\ Answer(h)
    /\ UNCHANGED <<row, worker, dispatcher, ghosts>>

\* delay raises and the request goes on by itself; when only the broker's
\* answer was lost, the message is in the queue all the same.
PublishFails(h) ==
    /\ handler[h].pc = "publish"
    /\ Become(h, [handler[h] EXCEPT !.pc = "sync"])
    /\ \/ UNCHANGED <<queue, faults>>
       \/ Fault("broker") /\ queue' = queue + 1
    /\ UNCHANGED <<row, worker, dispatcher, signed, confirms, runs>>

\* _execute_sync: the target instance may be gone; the status is not read again.
SyncStart(h) ==
    /\ handler[h].pc = "sync"
    /\ RowUnlocked
    /\ \/ status' = "EXCEPTION" /\ Answer(h)
       \/ status' = "EXECUTING" /\ Become(h, [handler[h] EXCEPT !.pc = "run"])
    /\ UNCHANGED <<scheduledAt, auditStatus, nodes, queue, worker, dispatcher, ghosts>>

SyncRun(h) ==
    /\ handler[h].pc = "run"
    /\ runs' = runs + 1
    /\ Become(h, [handler[h] EXCEPT !.pc = "ran"])
    /\ UNCHANGED <<row, queue, worker, dispatcher, signed, confirms, faults>>

SyncFinish(h, result) ==
    /\ handler[h].pc = "ran"
    /\ RowUnlocked
    /\ status' = result
    /\ Answer(h)
    /\ UNCHANGED <<scheduledAt, auditStatus, nodes, queue, worker, dispatcher, ghosts>>
----------------------------------------------------------------------------
(***************************************************************************)
(* Celery.  A message is acknowledged when it is taken; a task that dies   *)
(* is not retried (max_retries=0).                                         *)
(***************************************************************************)
\* _execute_async: take the message, SELECT the ticket, test its status.
LoadTicket(w) ==
    /\ worker[w] = "idle"
    /\ queue > 0
    /\ queue' = queue - 1
    /\ worker' = [worker EXCEPT ![w] =
                    IF status \in Runnable THEN "loaded" ELSE "idle"]
    /\ UNCHANGED <<row, handler, dispatcher, ghosts>>

StartTicket(w) ==
    /\ worker[w] = "loaded"
    /\ RowUnlocked
    /\ \/ status' = "EXCEPTION" /\ worker' = [worker EXCEPT ![w] = "idle"]
       \/ status' = "EXECUTING" /\ worker' = [worker EXCEPT ![w] = "run"]
    /\ UNCHANGED <<scheduledAt, auditStatus, nodes, handler, queue, dispatcher, ghosts>>

RunTicket(w) ==
    /\ worker[w] = "run"
    /\ runs' = runs + 1
    /\ worker' = [worker EXCEPT ![w] = "ran"]
    /\ UNCHANGED <<row, handler, queue, dispatcher, signed, confirms, faults>>

\* Mutant of FinishTicket: an exception of the engine is not recorded.
FinishTicketSilently(w, result) ==
    /\ worker[w] = "ran"
    /\ RowUnlocked
    /\ status' = IF result = "FINISH" THEN "FINISH" ELSE status
    /\ worker' = [worker EXCEPT ![w] = "idle"]
    /\ UNCHANGED <<scheduledAt, auditStatus, nodes, handler, queue, dispatcher, ghosts>>

FinishTicket(w, result) ==
    /\ worker[w] = "ran"
    /\ RowUnlocked
    /\ status' = result
    /\ worker' = [worker EXCEPT ![w] = "idle"]
    /\ UNCHANGED <<scheduledAt, auditStatus, nodes, handler, queue, dispatcher, ghosts>>

\* _dispatch_scheduled_async: SELECT ... FOR UPDATE SKIP LOCKED of a due ticket.
SelectDue ==
    /\ dispatcher = "idle"
    /\ Due
    /\ dispatcher' = "selected"
    /\ UNCHANGED <<row, handler, queue, worker, ghosts>>

\* The message goes out before the commit.
DispatchDue ==
    /\ dispatcher = "selected"
    /\ queue' = queue + 1
    /\ dispatcher' = "dispatched"
    /\ UNCHANGED <<row, handler, worker, ghosts>>

CommitDispatch ==
    /\ dispatcher = "dispatched"
    /\ status' = "QUEUING"
    /\ dispatcher' = "idle"
    /\ UNCHANGED <<scheduledAt, auditStatus, nodes, handler, queue, worker, ghosts>>
----------------------------------------------------------------------------
(***************************************************************************)
(* Crashes: what was not committed is lost, a held row lock is released.   *)
(***************************************************************************)
WebCrash(h) ==
    /\ handler[h].pc # "idle"
    /\ Fault("web")
    /\ Answer(h)
    /\ UNCHANGED <<row, queue, worker, dispatcher, signed, confirms, runs>>

WorkerCrash(w) ==
    /\ worker[w] # "idle"
    /\ Fault("worker")
    /\ worker' = [worker EXCEPT ![w] = "idle"]
    /\ UNCHANGED <<row, handler, queue, dispatcher, signed, confirms, runs>>

DispatcherCrash ==
    /\ dispatcher # "idle"
    /\ Fault("dispatcher")
    /\ dispatcher' = "idle"
    /\ UNCHANGED <<row, handler, queue, worker, signed, confirms, runs>>
----------------------------------------------------------------------------
StartRequest(h) ==
    \/ \E op \in AuditOps : ReadTicketToAudit(h, op)
    \/ \E op \in ExecuteOps, u \in Users : ReadTicketToExecute(h, op, u)

ContinueRequest(h) ==
    \/ \E u \in Users : \/ ReadChainToPass(h, u)
                        \/ ReadChainToReject(h, u)
                        \/ ReadChainToCancel(h, u)
    \/ RefuseAudit(h)
    \/ CommitPass(h) \/ CommitReject(h) \/ CommitCancel(h)
    \/ CommitImmediate(h) \/ CommitScheduled(h)
    \/ \E result \in Result : CommitExternal(h, result) \/ SyncFinish(h, result)
    \/ Publish(h) \/ PublishFails(h)
    \/ SyncStart(h) \/ SyncRun(h)

WorkerStep(w) ==
    \/ LoadTicket(w) \/ StartTicket(w) \/ RunTicket(w)
    \/ \E result \in Result : FinishTicket(w, result)

DispatcherStep == SelectDue \/ DispatchDue \/ CommitDispatch

Crash == \/ \E h \in Handlers : WebCrash(h)
         \/ \E w \in Workers : WorkerCrash(w)
         \/ DispatcherCrash

Next ==
    \/ Submit
    \/ \E h \in Handlers : StartRequest(h) \/ ContinueRequest(h)
    \/ \E w \in Workers : WorkerStep(w)
    \/ DispatcherStep
    \/ Crash

Spec == Init /\ [][Next]_vars

(***************************************************************************)
(* The event loop runs an accepted request to its end, idle workers poll   *)
(* the queue, beat starts the dispatcher every minute and scheduled times  *)
(* come.  Nobody is obliged to send a request.                             *)
(***************************************************************************)
Fairness ==
    /\ \A h \in Handlers : WF_vars(ContinueRequest(h))
    /\ \A w \in Workers : WF_vars(WorkerStep(w))
    /\ WF_vars(DispatcherStep)

FairSpec == Spec /\ Fairness
============================================================================

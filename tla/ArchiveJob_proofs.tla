-------------------------- MODULE ArchiveJob_proofs --------------------------
(***************************************************************************)
(* For any number of batches, requests and workers and any bound: the job  *)
(* and its ticket are well-typed, no batch runs before the approval, short *)
(* of a fault a queued job has its message and a running one its executor, *)
(* and a success left nothing to move.                                     *)
(***************************************************************************)
EXTENDS ArchiveJobProps, TLAPS

USE ActorAssumption, WorkAssumption, BoundAssumption, RequestAssumption

\* What a request or a worker keeps between its steps.
Record == [pc : {"idle", "commit", "publish", "loaded"} \cup Executing,
           op : Operation \cup {"none"},
           job : ArchiveJobStatus \cup {"absent"},
           ticket : WorkflowStatus \cup {"ABSENT"},
           scheduled : BOOLEAN]

\* An idle actor's record is well-typed.
LEMMA IdleType == Idle \in Record
BY DEF Idle, Record

\* An actor that takes over a well-typed record leaves the others alone.
LEMMA BecomeType ==
    ASSUME actor \in [Actors -> Record], NEW a \in Actors, NEW r \in Record, Become(a, r)
    PROVE  actor' \in [Actors -> Record]
BY DEF Become

\* So does one that is done.
LEMMA AnswerType ==
    ASSUME actor \in [Actors -> Record], NEW a \in Actors, Answer(a)
    PROVE  actor' \in [Actors -> Record]
BY IdleType, BecomeType DEF Answer

\* So does one that only moves on, or moves on with another status in mind.
LEMMA GotoType ==
    ASSUME actor \in [Actors -> Record], NEW a \in Actors,
           NEW pc \in {"publish", "loaded"} \cup Executing, Goto(a, pc)
    PROVE  actor' \in [Actors -> Record]
<1>1. [actor[a] EXCEPT !.pc = pc] \in Record
  BY DEF Record
<1>2. QED
  BY <1>1, BecomeType DEF Goto

\* A status taken along is one of the enumeration.
LEMMA MoveType ==
    ASSUME actor \in [Actors -> Record], NEW a \in Actors,
           NEW pc \in {"publish", "loaded"} \cup Executing, NEW j \in ArchiveJobStatus \cup {"absent"},
           Become(a, [actor[a] EXCEPT !.pc = pc, !.job = j])
    PROVE  actor' \in [Actors -> Record]
<1> DEFINE r == [actor[a] EXCEPT !.pc = pc, !.job = j]
<1>1. r \in Record
  BY DEF Record
<1>2. Become(a, r)
  OBVIOUS
<1> HIDE DEF r
<1>3. QED
  BY <1>1, <1>2, BecomeType
----------------------------------------------------------------------------
\* The tables before the submission are well-typed.
LEMMA TypeInit == Init => TypeOK
<1> SUFFICES ASSUME Init PROVE TypeOK
  OBVIOUS
<1>1. actor \in [Actors -> Record]
  BY IdleType DEF Init
<1>2. left \in 0..Batches /\ requests \in 0..MaxRequests /\ faults \in 0..MaxFaults
  BY DEF Init
<1>3. scheduled \in BOOLEAN /\ approved \in BOOLEAN
  BY DEF Init
<1>4. QED
  BY <1>1, <1>2, <1>3 DEF Init, TypeOK, Record, AuditStatus

\* Every request, execution, dispatch and crash leaves them so.
LEMMA TypeStep == TypeOK /\ [Next]_vars => TypeOK'
<1> SUFFICES ASSUME TypeOK, [Next]_vars PROVE TypeOK'
  OBVIOUS
<1> USE DEF row, sqlSide, ghosts
<1>type. TypeOK <=> /\ job \in ArchiveJobStatus \cup {"absent"}
                    /\ ticket \in WorkflowStatus \cup {"ABSENT"}
                    /\ scheduled \in BOOLEAN
                    /\ verdict \in AuditStatus
                    /\ left \in 0..Batches
                    /\ actor \in [Actors -> Record]
                    /\ queue \in Nat /\ sqlQueue \in Nat
                    /\ dispatcher \in {"idle", "committed"}
                    /\ sqlWorker \in {"idle", "loaded", "run"}
                    /\ requests \in 0..MaxRequests
                    /\ approved \in BOOLEAN
                    /\ faults \in 0..MaxFaults
  BY DEF TypeOK, Record
<1>rec. \A a \in Actors : actor[a] \in Record
  BY <1>type
<1> DEFINE TypeOKNext ==
             /\ job' \in ArchiveJobStatus \cup {"absent"}
             /\ ticket' \in WorkflowStatus \cup {"ABSENT"}
             /\ scheduled' \in BOOLEAN
             /\ verdict' \in AuditStatus
             /\ left' \in 0..Batches
             /\ actor' \in [Actors -> Record]
             /\ queue' \in Nat /\ sqlQueue' \in Nat
             /\ dispatcher' \in {"idle", "committed"}
             /\ sqlWorker' \in {"idle", "loaded", "run"}
             /\ requests' \in 0..MaxRequests
             /\ approved' \in BOOLEAN
             /\ faults' \in 0..MaxFaults
<1>next. TypeOKNext => TypeOK'
  BY DEF TypeOK, Record
<1>1. CASE Submit
  BY <1>1, <1>type, <1>next DEF Submit, SubmitTicket, SubmitJob, WorkflowStatus, ArchiveJobStatus
<1>2. ASSUME NEW h \in Handlers, ContinueRequest(h) PROVE TypeOK'
  <2>a. h \in Actors /\ actor[h] \in Record
    BY <1>rec DEF Actors
  <2>1. CASE CommitPass(h)
    BY <2>1, <2>a, <1>type, <1>next, AnswerType
       DEF CommitPass, Written, MarkApproved, WorkflowStatus, ArchiveJobStatus, AuditStatus
  <2>2. CASE CommitReject(h)
    BY <2>2, <2>a, <1>type, <1>next, AnswerType DEF CommitReject, Written, WorkflowStatus, AuditStatus
  <2>3. CASE CommitWithdraw(h)
    BY <2>3, <2>a, <1>type, <1>next, AnswerType
       DEF CommitWithdraw, Written, MarkCanceled, WorkflowStatus, ArchiveJobStatus, AuditStatus
  <2>4. CASE CommitExecute(h)
    <3>1. actor' \in [Actors -> Record]
      BY <2>4, <2>a, <1>type, AnswerType DEF CommitExecute
    <3>2. scheduled' \in BOOLEAN
      BY <2>4, <1>type DEF CommitExecute, Written
    <3>3. ticket' \in WorkflowStatus \cup {"ABSENT"} /\ sqlQueue' \in Nat
      BY <2>4, <1>type DEF CommitExecute, Written, WorkflowStatus
    <3>4. UNCHANGED <<job, verdict, left, queue, dispatcher, sqlWorker, ghosts>>
      BY <2>4 DEF CommitExecute
    <3>5. QED
      BY <3>1, <3>2, <3>3, <3>4, <1>type, <1>next
  <2>5. CASE CommitStart(h)
    <3>1. actor' \in [Actors -> Record]
      BY <2>5, <2>a, <1>type, MoveType DEF CommitStart, ArchiveJobStatus
    <3>2. QED
      BY <2>5, <3>1, <1>type, <1>next DEF CommitStart, Written, WorkflowStatus, ArchiveJobStatus
  <2>6. CASE CommitSchedule(h)
    BY <2>6, <2>a, <1>type, <1>next, AnswerType
       DEF CommitSchedule, Written, WorkflowStatus, ArchiveJobStatus
  <2>7. CASE ExternalRaises(h)
    BY <2>7, <2>a, <1>type, <1>next, AnswerType DEF ExternalRaises
  <2>8. ASSUME NEW result \in {"success", "failed"}, CommitExternal(h, result) PROVE TypeOK'
    BY <2>8, <2>a, <1>type, <1>next, AnswerType
       DEF CommitExternal, Written, Recorded, WorkflowStatus, ArchiveJobStatus
  <2>9. CASE CommitPause(h)
    BY <2>9, <2>a, <1>type, <1>next, AnswerType DEF CommitPause, Written, ArchiveJobStatus
  <2>10. CASE CommitResume(h)
    <3> DEFINE r == [pc |-> "commit", op |-> "start", job |-> "queued",
                     ticket |-> ticket, scheduled |-> scheduled]
    <3>1. r \in Record
      BY <1>type DEF Record, Operation, ArchiveJobStatus
    <3>2. Become(h, r)
      BY <2>10 DEF CommitResume
    <3> HIDE DEF r
    <3>3. actor' \in [Actors -> Record]
      BY <3>1, <3>2, <2>a, <1>type, BecomeType
    <3>4. QED
      BY <2>10, <3>3, <1>type, <1>next DEF CommitResume, Written, ArchiveJobStatus
  <2>11. CASE CommitCancel(h)
    BY <2>11, <2>a, <1>type, <1>next, AnswerType
       DEF CommitCancel, Written, Stopped, WorkflowStatus, ArchiveJobStatus
  <2>12. CASE Publish(h)
    BY <2>12, <2>a, <1>type, <1>next, AnswerType DEF Publish
  <2>13. CASE PublishFails(h)
    <3>1. actor' \in [Actors -> Record]
      BY <2>13, <2>a, <1>type, GotoType DEF PublishFails
    <3>2. QED
      BY <2>13, <3>1, <1>type, <1>next DEF PublishFails, Fault
  <2>14. QED
    BY <1>2, <2>1, <2>2, <2>3, <2>4, <2>5, <2>6, <2>7, <2>8, <2>9, <2>10, <2>11, <2>12, <2>13
       DEF ContinueRequest
<1>3. ASSUME NEW h \in Handlers, NEW op \in Operation, Read(h, op) PROVE TypeOK'
  <2> DEFINE r == [pc |-> "commit", op |-> op, job |-> job, ticket |-> ticket,
                   scheduled |-> scheduled]
  <2>1. r \in Record
    BY <1>type DEF Record
  <2>2. Become(h, r) /\ h \in Actors
    BY <1>3 DEF Read, Actors
  <2> HIDE DEF r
  <2>3. actor' \in [Actors -> Record]
    BY <2>1, <2>2, <1>type, BecomeType
  <2>4. QED
    BY <1>3, <2>3, <1>type, <1>next DEF Read
<1>4. ASSUME NEW w \in Workers, LoadJob(w) PROVE TypeOK'
  <2> DEFINE r == [Idle EXCEPT !.pc = "loaded", !.job = job]
  <2>1. r \in Record
    BY <1>type, IdleType DEF Record, Idle
  <2>2. w \in Actors /\ (Become(w, r) \/ UNCHANGED actor)
    BY <1>4 DEF LoadJob, Become, Actors
  <2> HIDE DEF r
  <2>3. actor' \in [Actors -> Record]
    BY <2>1, <2>2, <1>type, BecomeType
  <2>4. QED
    BY <1>4, <2>3, <1>type, <1>next DEF LoadJob
<1>5. ASSUME NEW a \in Actors, Execute(a) PROVE TypeOK'
  <2>1. CASE StartJob(a)
    <3>1. actor' \in [Actors -> Record]
      BY <2>1, <1>type, MoveType DEF StartJob, ArchiveJobStatus, Executing
    <3>2. QED
      BY <2>1, <3>1, <1>type, <1>next DEF StartJob, WorkflowStatus, ArchiveJobStatus
  <2>2. CASE RunBatch(a)
    <3>1. actor' \in [Actors -> Record]
      BY <2>2, <1>type, GotoType DEF RunBatch, Executing
    <3>2. QED
      BY <2>2, <3>1, <1>type, <1>next DEF RunBatch
  <2>3. CASE FailBatch(a)
    <3>1. actor' \in [Actors -> Record]
      BY <2>3, <1>type, MoveType DEF FailBatch, ArchiveJobStatus, Executing
    <3>2. QED
      BY <2>3, <3>1, <1>type, <1>next DEF FailBatch
  <2>4. CASE CommitSuccess(a)
    <3>1. actor' \in [Actors -> Record]
      BY <2>4, <1>type, MoveType DEF CommitSuccess, ArchiveJobStatus, Executing
    <3>2. QED
      BY <2>4, <3>1, <1>type, <1>next DEF CommitSuccess, Written, ArchiveJobStatus
  <2>5. CASE RefreshJob(a)
    <3> DEFINE next == IF job \in {"pausing", "canceling"} THEN "stop" ELSE "batch"
               r == [actor[a] EXCEPT !.pc = next, !.job = job]
    <3>1. next \in Executing
      BY DEF Executing
    <3>2. Become(a, r)
      BY <2>5, <1>rec DEF RefreshJob, Become, Record
    <3> HIDE DEF next
    <3>3. actor' \in [Actors -> Record]
      BY <3>1, <3>2, <1>type, MoveType
    <3>4. QED
      BY <2>5, <3>3, <1>type, <1>next DEF RefreshJob
  <2>6. CASE CommitStop(a)
    <3>1. actor' \in [Actors -> Record]
      BY <2>6, <1>type, MoveType DEF CommitStop, ArchiveJobStatus, Executing
    <3>2. QED
      BY <2>6, <3>1, <1>type, <1>next DEF CommitStop, ArchiveJobStatus
  <2>7. CASE RecordEnd(a)
    BY <2>7, <1>type, <1>next, AnswerType
       DEF RecordEnd, Recorded, WorkflowStatus, ArchiveJobStatus
  <2>8. CASE RecordRaises(a)
    BY <2>8, <1>type, <1>next, AnswerType DEF RecordRaises
  <2>9. QED
    BY <1>5, <2>1, <2>2, <2>3, <2>4, <2>5, <2>6, <2>7, <2>8 DEF Execute
<1>6. ASSUME NEW a \in Actors, ActorCrash(a) PROVE TypeOK'
  BY <1>6, <1>type, <1>next, AnswerType DEF ActorCrash, Fault
<1>7. CASE DispatcherStep \/ DispatcherCrash
  BY <1>7, <1>type, <1>next
     DEF DispatcherStep, DispatchDue, SendDue, DispatcherCrash, Fault, WorkflowStatus, ArchiveJobStatus
<1>8. CASE SqlSide
  BY <1>8, <1>type, <1>next
     DEF SqlSide, SqlDispatch, SqlLoad, SqlStart, SqlFinish, WorkflowStatus
<1>9. CASE UNCHANGED vars
  BY <1>9, <1>type, <1>next DEF vars
<1>10. QED
  BY <1>1, <1>2, <1>3, <1>4, <1>5, <1>6, <1>7, <1>8, <1>9 DEF Next

\* Job, ticket, queues and what everybody remembers of them keep their types.
THEOREM TypeCorrect == Spec => []TypeOK
BY TypeInit, TypeStep, PTL DEF Spec
----------------------------------------------------------------------------
(***************************************************************************)
(* The approval.  RunsAfterApproval is not inductive: a batch may run      *)
(* because somebody read the job as startable long ago, or because a       *)
(* message is still in the queue.  ApprovalInv says of each of them that   *)
(* it has seen the job past its approval, and nothing undoes that.         *)
(***************************************************************************)
JobOperations == {"start", "schedule", "external", "pause", "resume", "cancel"}

\* What ApprovalInv says of one request or worker, `done' being approved.
Cleared(r, done) ==
    /\ r.pc \notin {"idle", "commit"} => done
    /\ r.pc = "commit" /\ PastApproval(r.job) => done
    /\ r.pc = "commit" /\ r.op \in JobOperations => PastApproval(r.job)

\* ApprovalInv in terms of Cleared.
LEMMA ApprovalSplit ==
    ApprovalInv <=>
        /\ PastApproval(job) => approved
        /\ queue > 0 \/ dispatcher # "idle" \/ left < Batches => approved
        /\ \A a \in Actors : Cleared(actor[a], approved)
BY DEF ApprovalInv, Cleared, JobOperations

\* Nothing was approved and nobody has read anything before the submission.
LEMMA ApprovalInit == Init => ApprovalInv
<1> SUFFICES ASSUME Init PROVE ApprovalInv
  OBVIOUS
<1>1. ~PastApproval(job) /\ queue = 0 /\ dispatcher = "idle" /\ left = Batches
  BY DEF Init, PastApproval
<1>2. \A a \in Actors : Cleared(actor[a], approved)
  BY DEF Init, Cleared, Idle
<1>3. QED
  BY <1>1, <1>2, ApprovalSplit

\* The records of the others are as they were, so only the one that changed
\* has to be looked at; once approved, there is nothing left to check but
\* what a request on the job has read.
LEMMA ClearedStep ==
    ASSUME TypeOK, ApprovalInv, NEW a \in Actors, NEW r, Become(a, r),
           approved => approved', Cleared(r, approved')
    PROVE  \A b \in Actors : Cleared(actor'[b], approved')
<1>1. \A b \in Actors : Cleared(actor[b], approved)
  BY ApprovalSplit
<1>2. SUFFICES ASSUME NEW b \in Actors PROVE Cleared(actor'[b], approved')
  OBVIOUS
<1>3. actor'[b] = IF b = a THEN r ELSE actor[b]
  BY DEF TypeOK, Become
<1>4. CASE b = a
  BY <1>3, <1>4 DEF Cleared
<1>5. CASE b # a
  BY <1>1, <1>3, <1>5 DEF Cleared
<1>6. QED
  BY <1>4, <1>5

\* Once approved, what remains to be seen is what a request on the job read.
LEMMA ApprovedStep ==
    ASSUME TypeOK, ApprovalInv, approved', NEW a \in Actors, NEW r, Become(a, r),
           r.pc = "commit" /\ r.op \in JobOperations => PastApproval(r.job)
    PROVE  ApprovalInv'
<1>1. Cleared(r, approved')
  BY DEF Cleared
<1>2. \A b \in Actors : Cleared(actor'[b], approved')
  BY <1>1, ClearedStep
<1>3. QED
  BY <1>2, ApprovalSplit DEF ApprovalInv, Cleared, JobOperations

\* Who is done after the approval leaves nothing to see.
LEMMA ApprovedAnswer ==
    ASSUME TypeOK, ApprovalInv, approved', NEW a \in Actors, Answer(a)
    PROVE  ApprovalInv'
<1>1. Idle.pc = "idle"
  BY DEF Idle
<1>2. QED
  BY <1>1, ApprovedStep DEF Answer

\* Neither does who is done without having moved the job past its approval.
LEMMA AnsweredStep ==
    ASSUME TypeOK, ApprovalInv, NEW a \in Actors, Answer(a), approved' = approved,
           PastApproval(job)' => PastApproval(job), UNCHANGED <<queue, dispatcher, left>>
    PROVE  ApprovalInv'
<1>1. Cleared(Idle, approved')
  BY DEF Cleared, Idle
<1>2. \A b \in Actors : Cleared(actor'[b], approved')
  BY <1>1, ClearedStep DEF Answer
<1>3. (PastApproval(job) => approved)'
  BY ApprovalSplit
<1>4. (queue > 0 \/ dispatcher # "idle" \/ left < Batches => approved)'
  BY ApprovalSplit
<1>5. QED
  BY <1>2, <1>3, <1>4 DEF ApprovalInv, Cleared, JobOperations

\* Neither does a step that leaves the requests and the workers alone.
LEMMA UntouchedStep ==
    ASSUME ApprovalInv, UNCHANGED <<actor, approved, left>>,
           PastApproval(job)' => approved, queue' > 0 => approved, dispatcher' # "idle" => approved
    PROVE  ApprovalInv'
BY DEF ApprovalInv

\* Every step keeps the approval invariant.
LEMMA ApprovalStep == TypeOK /\ ApprovalInv /\ [Next]_vars => ApprovalInv'
<1> SUFFICES ASSUME TypeOK, ApprovalInv, [Next]_vars PROVE ApprovalInv'
  OBVIOUS
<1> USE DEF row, sqlSide, ghosts
<1>job. PastApproval(job) => approved
  BY DEF ApprovalInv
<1>past. queue > 0 \/ dispatcher # "idle" \/ left < Batches => approved
  BY DEF ApprovalInv
<1>rec. \A a \in Actors : Cleared(actor[a], approved)
  BY ApprovalSplit
<1>cleared. \A a \in Actors :
              /\ actor[a].pc \notin {"idle", "commit"} => approved
              /\ actor[a].pc = "commit" /\ actor[a].op \in JobOperations => approved
  BY <1>rec DEF Cleared
<1>fields. \A a \in Actors : actor[a] \in Record
  BY DEF TypeOK, Record
<1>1. CASE Submit
  BY <1>1, <1>job, <1>past, UntouchedStep DEF Submit, SubmitTicket, SubmitJob, PastApproval
<1>2. ASSUME NEW h \in Handlers, ContinueRequest(h) PROVE ApprovalInv'
  <2>a. h \in Actors
    BY DEF Actors
  <2>1. CASE CommitPass(h)
    BY <2>1, <2>a, ApprovedAnswer DEF CommitPass
  <2>2. CASE CommitReject(h)
    BY <2>2, <2>a, AnsweredStep DEF CommitReject
  <2>3. CASE CommitWithdraw(h)
    BY <2>3, <2>a, AnsweredStep DEF CommitWithdraw, MarkCanceled, PastApproval
  <2>4. CASE CommitExecute(h)
    BY <2>4, <2>a, AnsweredStep DEF CommitExecute
  <2>5. CASE CommitStart(h)
    <3> DEFINE r == [actor[h] EXCEPT !.pc = "publish", !.job = "queued"]
    <3>1. approved'
      BY <2>5, <2>a, <1>cleared DEF CommitStart, Commits, JobOperations
    <3>2. r.pc # "commit"
      BY <2>a, <1>fields DEF Record
    <3>3. Become(h, r)
      BY <2>5 DEF CommitStart
    <3> HIDE DEF r
    <3>4. QED
      BY <3>1, <3>2, <3>3, <2>a, ApprovedStep
  <2>6. CASE CommitSchedule(h)
    BY <2>6, <2>a, <1>cleared, ApprovedAnswer DEF CommitSchedule, Commits, JobOperations
  <2>7. CASE ExternalRaises(h)
    BY <2>7, <2>a, AnsweredStep DEF ExternalRaises
  <2>8. ASSUME NEW result \in {"success", "failed"}, CommitExternal(h, result) PROVE ApprovalInv'
    BY <2>8, <2>a, <1>cleared, ApprovedAnswer DEF CommitExternal, Commits, JobOperations
  <2>9. CASE CommitPause(h)
    BY <2>9, <2>a, <1>cleared, ApprovedAnswer DEF CommitPause, Commits, JobOperations
  <2>10. CASE CommitResume(h)
    <3> DEFINE r == [pc |-> "commit", op |-> "start", job |-> "queued",
                     ticket |-> ticket, scheduled |-> scheduled]
    <3>1. approved'
      BY <2>10, <2>a, <1>cleared DEF CommitResume, Commits, JobOperations
    <3>2. PastApproval(r.job)
      BY DEF PastApproval
    <3>3. Become(h, r)
      BY <2>10 DEF CommitResume
    <3> HIDE DEF r
    <3>4. QED
      BY <3>1, <3>2, <3>3, <2>a, ApprovedStep
  <2>11. CASE CommitCancel(h)
    BY <2>11, <2>a, <1>cleared, ApprovedAnswer DEF CommitCancel, Commits, JobOperations
  <2>12. CASE Publish(h)
    BY <2>12, <2>a, <1>cleared, ApprovedAnswer DEF Publish
  <2>13. CASE PublishFails(h)
    <3> DEFINE r == [actor[h] EXCEPT !.pc = "loaded"]
    <3>1. approved'
      BY <2>13, <2>a, <1>cleared DEF PublishFails
    <3>2. r.pc # "commit"
      BY <2>a, <1>fields DEF Record
    <3>3. Become(h, r)
      BY <2>13 DEF PublishFails, Goto
    <3> HIDE DEF r
    <3>4. QED
      BY <3>1, <3>2, <3>3, <2>a, ApprovedStep
  <2>14. QED
    BY <1>2, <2>1, <2>2, <2>3, <2>4, <2>5, <2>6, <2>7, <2>8, <2>9, <2>10, <2>11, <2>12, <2>13
       DEF ContinueRequest
<1>3. ASSUME NEW h \in Handlers, NEW op \in Operation, Read(h, op) PROVE ApprovalInv'
  <2> DEFINE r == [pc |-> "commit", op |-> op, job |-> job, ticket |-> ticket,
                   scheduled |-> scheduled]
  <2>1. op \in JobOperations => PastApproval(job)
    BY <1>3 DEF Read, Admitted, JobOperations, PastApproval, Startable, Pausable, Cancelable
  <2>2. Become(h, r) /\ h \in Actors
    BY <1>3 DEF Read, Actors
  <2>3. UNCHANGED <<job, queue, dispatcher, left, approved>>
    BY <1>3 DEF Read
  <2>4. Cleared(r, approved')
    BY <2>1, <2>3, <1>job DEF Cleared
  <2> HIDE DEF r
  <2>5. \A b \in Actors : Cleared(actor'[b], approved')
    BY <2>2, <2>3, <2>4, ClearedStep
  <2>6. QED
    BY <2>3, <2>5, <1>job, <1>past DEF ApprovalInv, Cleared, JobOperations
<1>4. ASSUME NEW w \in Workers, LoadJob(w) PROVE ApprovalInv'
  <2>1. approved /\ approved'
    BY <1>4, <1>past DEF LoadJob
  <2>2. CASE actor' = actor
    BY <1>4, <2>1, <2>2 DEF ApprovalInv
  <2> DEFINE r == [Idle EXCEPT !.pc = "loaded", !.job = job]
  <2>3. CASE Become(w, r)
    <3>1. r.pc # "commit" /\ w \in Actors
      BY DEF Idle, Actors
    <3> HIDE DEF r
    <3>2. QED
      BY <2>1, <2>3, <3>1, ApprovedStep
  <2>4. QED
    BY <1>4, <2>2, <2>3 DEF LoadJob, Become
<1>5. ASSUME NEW a \in Actors, Execute(a) PROVE ApprovalInv'
  <2>1. actor[a].pc \notin {"idle", "commit"} /\ UNCHANGED approved
    BY <1>5 DEF Execute, StartJob, RunBatch, FailBatch, CommitSuccess, RefreshJob,
                CommitStop, RecordEnd, RecordRaises
  <2>2. approved'
    BY <2>1, <1>cleared
  <2>3. PICK r : Become(a, r) /\ r.pc # "commit"
    <3>1. ASSUME NEW pc, Goto(a, pc), pc # "commit" PROVE \E r : Become(a, r) /\ r.pc # "commit"
      BY <3>1, <1>fields DEF Goto, Record
    <3>2. ASSUME NEW pc, NEW j, Become(a, [actor[a] EXCEPT !.pc = pc, !.job = j]), pc # "commit"
          PROVE  \E r : Become(a, r) /\ r.pc # "commit"
      <4> DEFINE r == [actor[a] EXCEPT !.pc = pc, !.job = j]
      <4>1. r.pc # "commit"
        BY <3>2, <1>fields DEF Record
      <4>2. Become(a, r)
        BY <3>2
      <4> HIDE DEF r
      <4>3. QED
        BY <4>1, <4>2
    <3>3. ASSUME Answer(a) PROVE \E r : Become(a, r) /\ r.pc # "commit"
      BY <3>3 DEF Answer, Idle
    <3>4. CASE StartJob(a) \/ FailBatch(a) \/ CommitSuccess(a) \/ CommitStop(a)
      BY <3>4, <3>2 DEF StartJob, FailBatch, CommitSuccess, CommitStop
    <3>5. CASE RunBatch(a)
      BY <3>5, <3>1 DEF RunBatch
    <3>6. CASE RefreshJob(a)
      <4> DEFINE next == IF job \in {"pausing", "canceling"} THEN "stop" ELSE "batch"
                 r == [actor[a] EXCEPT !.pc = next, !.job = job]
      <4>1. next # "commit"
        OBVIOUS
      <4>2. Become(a, r)
        BY <3>6, <1>fields DEF RefreshJob, Become, Record
      <4> HIDE DEF next
      <4>3. QED
        BY <3>2, <4>1, <4>2
    <3>7. CASE RecordEnd(a) \/ RecordRaises(a)
      BY <3>7, <3>3 DEF RecordEnd, RecordRaises
    <3>8. QED
      BY <1>5, <3>4, <3>5, <3>6, <3>7 DEF Execute
  <2>4. QED
    BY <2>2, <2>3, ApprovedStep
<1>6. ASSUME NEW a \in Actors, ActorCrash(a) PROVE ApprovalInv'
  BY <1>6, AnsweredStep DEF ActorCrash
<1>7. CASE DispatcherStep \/ DispatcherCrash
  <2>1. CASE DispatchDue
    <3>1. approved
      BY <2>1, <1>job DEF DispatchDue, PastApproval
    <3>2. QED
      BY <2>1, <3>1, UntouchedStep DEF DispatchDue
  <2>2. CASE SendDue
    BY <2>2, <1>job, <1>past, UntouchedStep DEF SendDue
  <2>3. CASE DispatcherCrash
    BY <2>3, <1>job, <1>past, UntouchedStep DEF DispatcherCrash
  <2>4. QED
    BY <1>7, <2>1, <2>2, <2>3 DEF DispatcherStep
<1>8. CASE SqlSide
  BY <1>8, <1>job, <1>past, UntouchedStep
     DEF SqlSide, SqlDispatch, SqlLoad, SqlStart, SqlFinish
<1>9. CASE UNCHANGED vars
  BY <1>9, <1>job, <1>past, UntouchedStep DEF vars
<1>10. QED
  BY <1>1, <1>2, <1>3, <1>4, <1>5, <1>6, <1>7, <1>8, <1>9 DEF Next

\* Whoever may still start the job, and every message about it, saw it past
\* its approval (archive.py 395-406, 469-489, 832-841, 878-914).
THEOREM ApprovalCorrect == Spec => []ApprovalInv
<1>1. Init => TypeOK /\ ApprovalInv
  BY TypeInit, ApprovalInit
<1>2. TypeOK /\ ApprovalInv /\ [Next]_vars => (TypeOK /\ ApprovalInv)'
  BY TypeStep, ApprovalStep
<1>3. QED
  BY <1>1, <1>2, PTL DEF Spec

\* No batch touches the source table before the approval, for any number of
\* requests, workers, batches and faults.
THEOREM BatchesApproved == Spec => []RunsAfterApproval
<1>1. ApprovalInv => RunsAfterApproval
  BY DEF ApprovalInv, RunsAfterApproval
<1>2. QED
  BY <1>1, ApprovalCorrect, PTL

\* The strengthening as one invariant, as TLC checks it.
THEOREM InductiveCorrect == Spec => []Inductive
BY TypeCorrect, ApprovalCorrect, PTL DEF Inductive

----------------------------------------------------------------------------
(***************************************************************************)
(* A queued job is owed: whoever gives up what it owed hands it on.        *)
(***************************************************************************)
\* An actor that is about to start, publish or execute the job.
Owes(r) == r.pc \in {"publish", "loaded"} \/ (r.pc = "commit" /\ r.op = "start")
Owed == \E a \in Actors : Owes(actor[a])

\* What one actor becomes changes nobody else.
LEMMA OnlyOneMoves ==
    ASSUME TypeOK, NEW a \in Actors, NEW r, Become(a, r), NEW b \in Actors
    PROVE  actor'[b] = IF b = a THEN r ELSE actor[b]
BY DEF Become, TypeOK

\* The job stays owed when the actor that moves owed nothing or still does.
LEMMA OwedStays ==
    ASSUME TypeOK, NEW a \in Actors, NEW r, Become(a, r), Owes(actor[a]) => Owes(r), Owed
    PROVE  Owed'
<1>1. PICK b \in Actors : Owes(actor[b])
  BY DEF Owed
<1>2. Owes(actor'[b])
  BY <1>1, OnlyOneMoves
<1>3. QED
  BY <1>2 DEF Owed, Owes

\* An actor that takes the debt over owes it.
LEMMA OwedBy ==
    ASSUME TypeOK, NEW a \in Actors, NEW r, Become(a, r), Owes(r)
    PROVE  Owed'
<1>1. Owes(actor'[a])
  BY OnlyOneMoves
<1>2. QED
  BY <1>1 DEF Owed, Owes

\* The property in these words.
LEMMA QueuedOwed ==
    QueuedIsOwed <=> (faults = 0 /\ job = "queued" =>
                        queue > 0 \/ dispatcher = "committed" \/ Owed)
BY DEF QueuedIsOwed, Owed, Owes, At

\* No step of any process leaves a queued job without its message.
LEMMA OwedStep == TypeOK /\ QueuedIsOwed /\ [Next]_vars => QueuedIsOwed'
<1> SUFFICES ASSUME TypeOK, QueuedIsOwed, [Next]_vars PROVE QueuedIsOwed'
  OBVIOUS
<1> USE DEF row, sqlSide, ghosts
<1>now. faults = 0 /\ job = "queued" => queue > 0 \/ dispatcher = "committed" \/ Owed
  BY QueuedOwed
<1>then. (faults' = 0 /\ job' = "queued" =>
             queue' > 0 \/ dispatcher' = "committed" \/ Owed') => QueuedIsOwed'
  BY DEF QueuedIsOwed, Owed, Owes, At
<1>idle. ~Owes(Idle)
  BY DEF Owes, Idle
\* An actor that owes nothing moves; the job may be taken out of the queue.
<1>frame. ASSUME NEW a \in Actors, NEW r, Become(a, r), ~Owes(actor[a]),
                 UNCHANGED <<queue, dispatcher, faults>>, job' = job \/ job' # "queued"
          PROVE  QueuedIsOwed'
  BY <1>frame, <1>now, <1>then, OwedStays
<1>1. CASE Submit
  BY <1>1, <1>now, <1>then DEF Submit, SubmitTicket, SubmitJob, Owed
<1>2. ASSUME NEW h \in Handlers, ContinueRequest(h) PROVE QueuedIsOwed'
  <2>h. h \in Actors
    BY DEF Actors
  <2> DEFINE Quiet == actor[h].pc = "commit" /\ actor[h].op # "start"
  <2>quiet. Quiet => ~Owes(actor[h])
    BY DEF Owes
  <2>1. CASE CommitPass(h) \/ CommitReject(h) \/ CommitWithdraw(h) \/ CommitExecute(h)
    BY <2>1, <2>h, <2>quiet, <1>frame
       DEF CommitPass, CommitReject, CommitWithdraw, CommitExecute, Commits, Answer,
           MarkApproved, MarkCanceled
  <2>2. CASE CommitStart(h)
    <3> DEFINE r == [actor[h] EXCEPT !.pc = "publish", !.job = "queued"]
    <3>1. r.pc = "publish"
      BY <2>h DEF TypeOK
    <3>2. Become(h, r)
      BY <2>2 DEF CommitStart
    <3> HIDE DEF r
    <3>3. QED
      BY <3>1, <3>2, <2>h, <1>then, OwedBy DEF Owes
  <2>3. CASE CommitSchedule(h) \/ ExternalRaises(h) \/ CommitPause(h)
    BY <2>3, <2>h, <2>quiet, <1>frame
       DEF CommitSchedule, ExternalRaises, CommitPause, Commits, Answer, Written
  <2>4. ASSUME NEW result \in {"success", "failed"}, CommitExternal(h, result)
        PROVE  QueuedIsOwed'
    BY <2>4, <2>h, <2>quiet, <1>frame DEF CommitExternal, Commits, Answer, Written
  <2>5. CASE CommitResume(h)
    <3> DEFINE r == [pc |-> "commit", op |-> "start", job |-> "queued",
                     ticket |-> ticket, scheduled |-> scheduled]
    <3>1. Become(h, r) /\ Owes(r)
      BY <2>5 DEF CommitResume, Owes
    <3> HIDE DEF r
    <3>2. QED
      BY <3>1, <2>h, <1>then, OwedBy
  <2>6. CASE CommitCancel(h)
    BY <2>6, <2>h, <2>quiet, <1>frame DEF CommitCancel, Commits, Answer, Written, Stopped
  <2>7. CASE Publish(h)
    BY <2>7, <1>then DEF Publish, TypeOK
  <2>8. CASE PublishFails(h)
    <3> DEFINE r == [actor[h] EXCEPT !.pc = "loaded"]
    <3>1. r.pc = "loaded"
      BY <2>h DEF TypeOK
    <3>2. Become(h, r)
      BY <2>8 DEF PublishFails, Goto
    <3> HIDE DEF r
    <3>3. QED
      BY <3>1, <3>2, <2>h, <1>then, OwedBy DEF Owes
  <2>9. QED
    BY <1>2, <2>1, <2>2, <2>3, <2>4, <2>5, <2>6, <2>7, <2>8 DEF ContinueRequest
<1>3. ASSUME NEW h \in Handlers, NEW op \in Operation, Read(h, op) PROVE QueuedIsOwed'
  <2>1. h \in Actors /\ ~Owes(actor[h])
    BY <1>3 DEF Actors, Read, Owes
  <2>2. QED
    BY <1>3, <2>1, <1>frame DEF Read
<1>4. ASSUME NEW w \in Workers, LoadJob(w) PROVE QueuedIsOwed'
  <2>1. CASE job \in Executable
    <3> DEFINE r == [Idle EXCEPT !.pc = "loaded", !.job = job]
    <3>1. Become(w, r) /\ r.pc = "loaded" /\ w \in Actors
      BY <1>4, <2>1 DEF LoadJob, Become, Idle, Actors
    <3> HIDE DEF r
    <3>2. QED
      BY <3>1, <1>then, OwedBy DEF Owes
  <2>2. CASE job \notin Executable
    BY <1>4, <2>2, <1>then DEF LoadJob, Executable
  <2>3. QED
    BY <2>1, <2>2
<1>5. ASSUME NEW a \in Actors, Execute(a) PROVE QueuedIsOwed'
  <2>1. CASE StartJob(a)
    BY <2>1, <1>then DEF StartJob
  <2>2. CASE ~StartJob(a)
    <3>1. ~Owes(actor[a])
      BY <1>5, <2>2 DEF Execute, RunBatch, FailBatch, CommitSuccess, RefreshJob,
                        CommitStop, RecordEnd, RecordRaises, Owes
    <3>2. /\ UNCHANGED <<queue, dispatcher, faults>>
          /\ job' = job \/ job' # "queued"
      BY <1>5, <2>2 DEF Execute, RunBatch, FailBatch, CommitSuccess, RefreshJob,
                        CommitStop, RecordEnd, RecordRaises, Written
    <3>3. \E r : Become(a, r)
      BY <1>5, <2>2 DEF Execute, RunBatch, FailBatch, CommitSuccess, RefreshJob,
                        CommitStop, RecordEnd, RecordRaises, Goto, Answer
    <3>4. QED
      BY <3>1, <3>2, <3>3, <1>frame
  <2>3. QED
    BY <2>1, <2>2
<1>6. ASSUME NEW a \in Actors, ActorCrash(a) PROVE QueuedIsOwed'
  BY <1>6, <1>then DEF ActorCrash, Fault, TypeOK
<1>7. CASE DispatcherStep \/ DispatcherCrash
  BY <1>7, <1>now, <1>then DEF DispatcherStep, DispatchDue, SendDue, DispatcherCrash,
                               Fault, TypeOK, Owed
<1>8. CASE SqlSide
  BY <1>8, <1>now, <1>then DEF SqlSide, SqlDispatch, SqlLoad, SqlStart, SqlFinish, Owed
<1>9. CASE UNCHANGED vars
  BY <1>9, <1>now, <1>then DEF vars, Owed
<1>10. QED
  BY <1>1, <1>2, <1>3, <1>4, <1>5, <1>6, <1>7, <1>8, <1>9 DEF Next

\* Short of a fault a queued job has its message or somebody who owes it one,
\* whatever overlaps (archive.py 469-489, 834, 895-912).
THEOREM QueueCorrect == Spec => []QueuedIsOwed
<1>1. Init => TypeOK /\ QueuedIsOwed
  BY TypeInit DEF Init, QueuedIsOwed
<1>2. (TypeOK /\ QueuedIsOwed) /\ [Next]_vars => (TypeOK /\ QueuedIsOwed)'
  BY TypeStep, OwedStep
<1>3. QED
  BY <1>1, <1>2, PTL DEF Spec

----------------------------------------------------------------------------
(***************************************************************************)
(* A running job has an owner: an executor that will still write its       *)
(* status.  An executor whose copy is older than a colleague's restart     *)
(* ends without a write, and is none.                                      *)
(***************************************************************************)
Owns(r) ==
    \/ r.pc \in {"batch", "last"} /\ r.job = "running"
    \/ r.pc \in {"control", "stop"}
    \/ r.pc = "end" /\ r.job = "failed"
Owned == \E a \in Actors : Owns(actor[a])
OwnedInv == faults = 0 /\ ~LazyContent => (job = "running" => Owned)

\* The job keeps an owner when the actor that moves was none or still is.
LEMMA OwnedStays ==
    ASSUME TypeOK, NEW a \in Actors, NEW r, Become(a, r), Owns(actor[a]) => Owns(r), Owned
    PROVE  Owned'
<1>1. PICK b \in Actors : Owns(actor[b])
  BY DEF Owned
<1>2. Owns(actor'[b])
  BY <1>1, OnlyOneMoves
<1>3. QED
  BY <1>2 DEF Owned, Owns

\* An actor that becomes an owner is one.
LEMMA OwnedBy ==
    ASSUME TypeOK, NEW a \in Actors, NEW r, Become(a, r), Owns(r)
    PROVE  Owned'
<1>1. Owns(actor'[a])
  BY OnlyOneMoves
<1>2. QED
  BY <1>1 DEF Owned, Owns

\* Only an executor writes `running', and none gives the job up as such.
LEMMA OwnedStep == TypeOK /\ OwnedInv /\ [Next]_vars => OwnedInv'
<1> SUFFICES ASSUME TypeOK, OwnedInv, [Next]_vars PROVE OwnedInv'
  OBVIOUS
<1> USE DEF row, sqlSide, ghosts
<1>then. (faults' = 0 /\ ~LazyContent => (job' = "running" => Owned')) => OwnedInv'
  BY DEF OwnedInv, Owned, Owns
\* An actor that is no owner moves, or one that stays an owner.
<1>frame. ASSUME NEW a \in Actors, NEW r, Become(a, r), Owns(actor[a]) => Owns(r),
                 faults' = faults, job' = job \/ job' # "running"
          PROVE  OwnedInv'
  BY <1>frame, <1>then, OwnedStays DEF OwnedInv
<1>still. ASSUME actor' = actor, faults' = faults, job' = job \/ job' # "running"
          PROVE  OwnedInv'
  BY <1>still DEF OwnedInv, Owned
<1>1. CASE Submit
  BY <1>1, <1>still DEF Submit, SubmitTicket, SubmitJob
<1>2. ASSUME NEW h \in Handlers, ContinueRequest(h) PROVE OwnedInv'
  <2>1. CASE faults' = faults
    <3>1. h \in Actors /\ ~Owns(actor[h])
      BY <1>2 DEF Actors, Owns, ContinueRequest, Commits, CommitPass, CommitReject,
                  CommitWithdraw, CommitExecute, CommitStart, CommitSchedule,
                  ExternalRaises, CommitExternal, CommitPause, CommitResume,
                  CommitCancel, Publish, PublishFails
    <3>2. job' = job \/ job' # "running"
      BY <1>2 DEF ContinueRequest, CommitPass, CommitReject, CommitWithdraw,
                  CommitExecute, CommitStart, CommitSchedule, ExternalRaises,
                  CommitExternal, CommitPause, CommitResume, CommitCancel, Publish,
                  PublishFails, MarkApproved, MarkCanceled, Written, Stopped
    <3>3. \E r : Become(h, r)
      BY <1>2 DEF ContinueRequest, CommitPass, CommitReject, CommitWithdraw,
                  CommitExecute, CommitStart, CommitSchedule, ExternalRaises,
                  CommitExternal, CommitPause, CommitResume, CommitCancel, Publish,
                  PublishFails, Goto, Answer
    <3>4. QED
      BY <2>1, <3>1, <3>2, <3>3, <1>frame
  <2>2. CASE faults' # faults
    <3>1. PublishFails(h)
      BY <1>2, <2>2 DEF ContinueRequest, CommitPass, CommitReject, CommitWithdraw,
                  CommitExecute, CommitStart, CommitSchedule, ExternalRaises,
                  CommitExternal, CommitPause, CommitResume, CommitCancel, Publish
    <3>2. faults' # 0
      BY <2>2, <3>1 DEF PublishFails, Fault, TypeOK
    <3>3. QED
      BY <3>2, <1>then
  <2>3. QED
    BY <2>1, <2>2
<1>3. ASSUME NEW h \in Handlers, NEW op \in Operation, Read(h, op) PROVE OwnedInv'
  <2>1. h \in Actors /\ ~Owns(actor[h])
    BY <1>3 DEF Actors, Read, Owns
  <2>2. QED
    BY <1>3, <2>1, <1>frame DEF Read
<1>4. ASSUME NEW w \in Workers, LoadJob(w) PROVE OwnedInv'
  <2>1. w \in Actors /\ ~Owns(actor[w])
    BY <1>4 DEF Actors, LoadJob, Owns
  <2>2. (\E r : Become(w, r)) \/ actor' = actor
    BY <1>4 DEF LoadJob, Become
  <2>3. QED
    BY <1>4, <2>1, <2>2, <1>frame, <1>still DEF LoadJob
<1>5. ASSUME NEW a \in Actors, Execute(a) PROVE OwnedInv'
  <2>a. actor[a] \in Record /\ faults' = faults
    BY <1>5 DEF TypeOK, Record, Execute, StartJob, RunBatch, FailBatch, CommitSuccess,
                RefreshJob, CommitStop, RecordEnd, RecordRaises
  <2>1. CASE StartJob(a)
    <3> DEFINE r == [actor[a] EXCEPT !.pc = "batch", !.job = "running"]
    <3>1. r.pc = "batch" /\ r.job = "running"
      BY <2>a DEF Record
    <3>2. Become(a, r)
      BY <2>1 DEF StartJob
    <3> HIDE DEF r
    <3>3. QED
      BY <3>1, <3>2, <1>then, OwnedBy DEF Owns
  <2>2. CASE RunBatch(a)
    <3> DEFINE pc == IF left <= 1 THEN "last" ELSE "control"
               r == [actor[a] EXCEPT !.pc = pc]
    <3>1. r.pc = pc /\ r.job = actor[a].job /\ pc \in {"last", "control"}
      BY <2>a DEF Record
    <3>2. Become(a, r) /\ actor[a].pc = "batch" /\ job' = job
      BY <2>2 DEF RunBatch, Goto
    <3> HIDE DEF r, pc
    <3>3. Owns(actor[a]) => Owns(r)
      BY <3>1, <3>2 DEF Owns
    <3>4. QED
      BY <2>a, <3>2, <3>3, <1>frame
  <2>3. CASE FailBatch(a)
    <3> DEFINE r == [actor[a] EXCEPT !.pc = "end", !.job = "failed"]
    <3>1. r.pc = "end" /\ r.job = "failed"
      BY <2>a DEF Record
    <3>2. Become(a, r)
      BY <2>3 DEF FailBatch
    <3> HIDE DEF r
    <3>3. QED
      BY <3>1, <3>2, <1>then, OwnedBy DEF Owns
  <2>4. CASE CommitSuccess(a)
    <3>1. PICK r : Become(a, r)
      BY <2>4 DEF CommitSuccess
    <3>2. CASE actor[a].job = "running"
      BY <2>4, <3>2, <1>then DEF CommitSuccess, Written
    <3>3. CASE actor[a].job # "running"
      <4>1. ~Owns(actor[a])
        BY <2>4, <3>3 DEF CommitSuccess, Owns
      <4>2. job' = job \/ job' # "running"
        BY <2>4 DEF CommitSuccess, Written
      <4>3. QED
        BY <2>a, <3>1, <4>1, <4>2, <1>frame
    <3>4. QED
      BY <3>2, <3>3
  <2>5. CASE RefreshJob(a)
    <3> DEFINE pc == IF job \in {"pausing", "canceling"} THEN "stop" ELSE "batch"
               r == [actor[a] EXCEPT !.job = job, !.pc = pc]
    <3>1. r.pc = pc /\ r.job = job
      BY <2>a DEF Record
    <3>2. Become(a, r) /\ job' = job
      BY <2>5 DEF RefreshJob
    <3>3. job = "running" => Owns(r)
      BY <3>1 DEF Owns
    <3> HIDE DEF r, pc
    <3>4. QED
      BY <3>2, <3>3, <1>then, OwnedBy
  <2>6. CASE CommitStop(a)
    BY <2>6, <1>then DEF CommitStop
  <2>7. CASE RecordEnd(a)
    <3>1. CASE actor[a].job = "failed"
      BY <2>7, <3>1, <1>then DEF RecordEnd
    <3>2. CASE actor[a].job # "failed"
      BY <2>7, <2>a, <3>2, <1>frame DEF RecordEnd, Owns, Answer
    <3>3. QED
      BY <3>1, <3>2
  <2>8. CASE RecordRaises(a)
    BY <2>8, <1>then DEF RecordRaises
  <2>9. QED
    BY <1>5, <2>1, <2>2, <2>3, <2>4, <2>5, <2>6, <2>7, <2>8 DEF Execute
<1>6. ASSUME NEW a \in Actors, ActorCrash(a) PROVE OwnedInv'
  BY <1>6, <1>then DEF ActorCrash, Fault, TypeOK
<1>7. CASE DispatcherStep
  BY <1>7, <1>still DEF DispatcherStep, DispatchDue, SendDue
<1>8. CASE DispatcherCrash
  BY <1>8, <1>then DEF DispatcherCrash, Fault, TypeOK
<1>9. CASE SqlSide
  BY <1>9, <1>still DEF SqlSide, SqlDispatch, SqlLoad, SqlStart, SqlFinish
<1>10. CASE UNCHANGED vars
  BY <1>10, <1>still DEF vars
<1>11. QED
  BY <1>1, <1>2, <1>3, <1>4, <1>5, <1>6, <1>7, <1>8, <1>9, <1>10 DEF Next

\* The ticket shows an execution while somebody is at it, here or on the SQL side.
TicketInv ==
    faults = 0 /\ ~LazyContent =>
        (ticket = "EXECUTING" => At(Executing) \/ sqlWorker = "run")

\* Somebody executes as long as the actor that moves did not, or goes on.
LEMMA ExecutingStays ==
    ASSUME TypeOK, NEW a \in Actors, NEW r, Become(a, r),
           actor[a].pc \in Executing => r.pc \in Executing, At(Executing)
    PROVE  At(Executing)'
<1>1. PICK b \in Actors : actor[b].pc \in Executing
  BY DEF At
<1>2. actor'[b].pc \in Executing
  BY <1>1, OnlyOneMoves
<1>3. QED
  BY <1>2 DEF At, Executing

\* An actor that arrives in the execution is there.
LEMMA ExecutingBy ==
    ASSUME TypeOK, NEW a \in Actors, NEW r, Become(a, r), r.pc \in Executing
    PROVE  At(Executing)'
<1>1. actor'[a].pc \in Executing
  BY OnlyOneMoves
<1>2. QED
  BY <1>1 DEF At, Executing

\* Who leaves the execution has written the ticket, and so has the SQL worker.
LEMMA TicketStep == TypeOK /\ TicketInv /\ [Next]_vars => TicketInv'
<1> SUFFICES ASSUME TypeOK, TicketInv, [Next]_vars PROVE TicketInv'
  OBVIOUS
<1> USE DEF row, sqlSide, ghosts
<1>then. (faults' = 0 /\ ~LazyContent =>
            (ticket' = "EXECUTING" => At(Executing)' \/ sqlWorker' = "run")) => TicketInv'
  BY DEF TicketInv, At, Executing
<1>frame. ASSUME NEW a \in Actors, NEW r, Become(a, r),
                 actor[a].pc \in Executing => r.pc \in Executing,
                 UNCHANGED <<faults, sqlWorker>>, ticket' = ticket \/ ticket' # "EXECUTING"
          PROVE  TicketInv'
  BY <1>frame, <1>then, ExecutingStays DEF TicketInv
<1>still. ASSUME actor' = actor, faults' = faults, sqlWorker' = sqlWorker,
                 ticket' = ticket \/ ticket' # "EXECUTING"
          PROVE  TicketInv'
  BY <1>still DEF TicketInv, At
<1>1. CASE Submit
  BY <1>1, <1>still DEF Submit, SubmitTicket, SubmitJob
<1>2. ASSUME NEW h \in Handlers, ContinueRequest(h) PROVE TicketInv'
  <2>1. CASE faults' = faults
    <3>1. h \in Actors /\ actor[h].pc \notin Executing
      BY <1>2 DEF Actors, Executing, ContinueRequest, Commits, CommitPass, CommitReject,
                  CommitWithdraw, CommitExecute, CommitStart, CommitSchedule,
                  ExternalRaises, CommitExternal, CommitPause, CommitResume,
                  CommitCancel, Publish, PublishFails
    <3>2. ticket' = ticket \/ ticket' # "EXECUTING"
      BY <1>2 DEF ContinueRequest, CommitPass, CommitReject, CommitWithdraw,
                  CommitExecute, CommitStart, CommitSchedule, ExternalRaises,
                  CommitExternal, CommitPause, CommitResume, CommitCancel, Publish,
                  PublishFails, Written, Recorded
    <3>3. sqlWorker' = sqlWorker /\ \E r : Become(h, r)
      BY <1>2 DEF ContinueRequest, CommitPass, CommitReject, CommitWithdraw,
                  CommitExecute, CommitStart, CommitSchedule, ExternalRaises,
                  CommitExternal, CommitPause, CommitResume, CommitCancel, Publish,
                  PublishFails, Goto, Answer
    <3>4. QED
      BY <2>1, <3>1, <3>2, <3>3, <1>frame
  <2>2. CASE faults' # faults
    <3>1. PublishFails(h)
      BY <1>2, <2>2 DEF ContinueRequest, CommitPass, CommitReject, CommitWithdraw,
                  CommitExecute, CommitStart, CommitSchedule, ExternalRaises,
                  CommitExternal, CommitPause, CommitResume, CommitCancel, Publish
    <3>2. faults' # 0
      BY <2>2, <3>1 DEF PublishFails, Fault, TypeOK
    <3>3. QED
      BY <3>2, <1>then
  <2>3. QED
    BY <2>1, <2>2
<1>3. ASSUME NEW h \in Handlers, NEW op \in Operation, Read(h, op) PROVE TicketInv'
  <2>1. h \in Actors /\ actor[h].pc \notin Executing
    BY <1>3 DEF Actors, Read, Executing
  <2>2. QED
    BY <1>3, <2>1, <1>frame DEF Read
<1>4. ASSUME NEW w \in Workers, LoadJob(w) PROVE TicketInv'
  <2>1. w \in Actors /\ actor[w].pc \notin Executing
    BY <1>4 DEF Actors, LoadJob, Executing
  <2>2. (\E r : Become(w, r)) \/ actor' = actor
    BY <1>4 DEF LoadJob, Become
  <2>3. QED
    BY <1>4, <2>1, <2>2, <1>frame, <1>still DEF LoadJob
<1>5. ASSUME NEW a \in Actors, Execute(a) PROVE TicketInv'
  <2>a. actor[a] \in Record /\ UNCHANGED <<faults, sqlWorker>>
    BY <1>5 DEF TypeOK, Record, Execute, StartJob, RunBatch, FailBatch, CommitSuccess,
                RefreshJob, CommitStop, RecordEnd, RecordRaises
  <2>1. CASE RecordEnd(a)
    BY <2>1, <1>then DEF RecordEnd, Recorded
  <2>2. CASE RecordRaises(a)
    BY <2>2, <1>then DEF RecordRaises
  <2>3. CASE ~RecordEnd(a) /\ ~RecordRaises(a)
    <3>1. PICK pc \in Executing, j \in {actor[a].job, "running", "failed", "success", job,
                                        "paused", "canceled"} :
             Become(a, [actor[a] EXCEPT !.pc = pc, !.job = j])
      <4>1. \A pc : [actor[a] EXCEPT !.pc = pc] = [actor[a] EXCEPT !.pc = pc, !.job = actor[a].job]
        BY <2>a DEF Record
      <4>2. \A pc, j : [actor[a] EXCEPT !.job = j, !.pc = pc] = [actor[a] EXCEPT !.pc = pc, !.job = j]
        BY <2>a DEF Record
      <4>3. CASE StartJob(a)
        BY <4>3 DEF StartJob, Executing
      <4>4. CASE RunBatch(a)
        BY <4>4, <4>1 DEF RunBatch, Goto, Executing
      <4>5. CASE FailBatch(a)
        BY <4>5 DEF FailBatch, Executing
      <4>6. CASE CommitSuccess(a)
        BY <4>6 DEF CommitSuccess, Executing
      <4>7. CASE RefreshJob(a)
        BY <4>7, <4>2 DEF RefreshJob, Executing
      <4>8. CASE CommitStop(a)
        BY <4>8 DEF CommitStop, Executing
      <4>9. QED
        BY <1>5, <2>3, <4>3, <4>4, <4>5, <4>6, <4>7, <4>8 DEF Execute
    <3> DEFINE r == [actor[a] EXCEPT !.pc = pc, !.job = j]
    <3>2. r.pc \in Executing
      BY <2>a DEF Record
    <3>3. Become(a, r)
      BY <3>1
    <3> HIDE DEF r
    <3>4. QED
      BY <3>2, <3>3, <1>then, ExecutingBy
  <2>4. QED
    BY <2>1, <2>2, <2>3
<1>6. ASSUME NEW a \in Actors, ActorCrash(a) PROVE TicketInv'
  BY <1>6, <1>then DEF ActorCrash, Fault, TypeOK
<1>7. CASE DispatcherStep
  BY <1>7, <1>still DEF DispatcherStep, DispatchDue, SendDue
<1>8. CASE DispatcherCrash
  BY <1>8, <1>then DEF DispatcherCrash, Fault, TypeOK
<1>9. CASE SqlSide
  <2>1. CASE SqlLoad
    BY <2>1 DEF SqlLoad, TicketInv, At
  <2>2. CASE SqlDispatch \/ SqlStart \/ SqlFinish
    BY <2>2, <1>then DEF SqlDispatch, SqlStart, SqlFinish
  <2>3. QED
    BY <1>9, <2>1, <2>2 DEF SqlSide
<1>10. CASE UNCHANGED vars
  BY <1>10, <1>still DEF vars
<1>11. QED
  BY <1>1, <1>2, <1>3, <1>4, <1>5, <1>6, <1>7, <1>8, <1>9, <1>10 DEF Next

\* Short of a fault, and with the ticket's content at hand, a running job and
\* a ticket shown as executing have an executor (archive.py 832-875, 1021-1061).
THEOREM ExecutionCorrect == Spec => []RunningIsExecuted
<1> DEFINE Inv == TypeOK /\ OwnedInv /\ TicketInv
<1>1. Init => Inv
  BY TypeInit DEF Init, OwnedInv, TicketInv
<1>2. Inv /\ [Next]_vars => Inv'
  BY TypeStep, OwnedStep, TicketStep
<1>3. Inv => RunningIsExecuted
  BY DEF OwnedInv, TicketInv, RunningIsExecuted, Owned, Owns, At, Executing
<1>4. QED
  BY <1>1, <1>2, <1>3, PTL DEF Spec
----------------------------------------------------------------------------
(***************************************************************************)
(* While results by hand are not recorded, a success comes after the last  *)
(* batch, and nothing is moved back.                                       *)
(***************************************************************************)
CompleteInv ==
    LazyContent => /\ SuccessIsComplete
                   /\ \A a \in Actors : actor[a].pc = "last" => left = 0

\* Only RunBatch reaches the last commit; the work left never grows.
LEMMA CompleteStep == TypeOK /\ CompleteInv /\ [Next]_vars => CompleteInv'
<1> SUFFICES ASSUME TypeOK, CompleteInv, [Next]_vars, LazyContent PROVE CompleteInv'
  BY DEF CompleteInv
<1> USE DEF row, sqlSide, ghosts
\* A step that finishes no batch and records no success.
<1>frame. ASSUME NEW a \in Actors, NEW r, Become(a, r), r.pc # "last",
                 left' = left, job' = job \/ job' # "success"
          PROVE  CompleteInv'
  BY <1>frame, OnlyOneMoves DEF CompleteInv, SuccessIsComplete
<1>still. ASSUME actor' = actor, left' = left, job' = job \/ job' # "success"
          PROVE  CompleteInv'
  BY <1>still DEF CompleteInv, SuccessIsComplete
<1>idle. Idle.pc # "last"
  BY DEF Idle
<1>1. CASE Submit
  BY <1>1, <1>still DEF Submit, SubmitTicket, SubmitJob
<1>2. ASSUME NEW h \in Handlers, ContinueRequest(h) PROVE CompleteInv'
  <2>1. h \in Actors /\ actor[h] \in Record
    BY DEF Actors, TypeOK, Record
  <2>2. left' = left /\ (job' = job \/ job' # "success")
    BY <1>2 DEF ContinueRequest, CommitPass, CommitReject, CommitWithdraw,
                CommitExecute, CommitStart, CommitSchedule, ExternalRaises,
                CommitExternal, CommitPause, CommitResume, CommitCancel, Publish,
                PublishFails, MarkApproved, MarkCanceled, Written, Stopped
  <2>3. \E r : Become(h, r) /\ r.pc # "last"
    <3>1. CASE CommitStart(h)
      <4>1. [actor[h] EXCEPT !.pc = "publish", !.job = "queued"].pc = "publish"
        BY <2>1 DEF Record
      <4>2. QED
        BY <3>1, <4>1 DEF CommitStart
    <3>2. CASE PublishFails(h)
      <4>1. [actor[h] EXCEPT !.pc = "loaded"].pc = "loaded"
        BY <2>1 DEF Record
      <4>2. QED
        BY <3>2, <4>1 DEF PublishFails, Goto
    <3>3. CASE CommitResume(h)
      BY <3>3 DEF CommitResume
    <3>4. CASE Answer(h)
      BY <3>4, <1>idle DEF Answer
    <3>5. QED
      BY <1>2, <3>1, <3>2, <3>3, <3>4
         DEF ContinueRequest, CommitPass, CommitReject, CommitWithdraw, CommitExecute,
             CommitSchedule, ExternalRaises, CommitExternal, CommitPause, CommitCancel,
             Publish
  <2>4. QED
    BY <2>1, <2>2, <2>3, <1>frame
<1>3. ASSUME NEW h \in Handlers, NEW op \in Operation, Read(h, op) PROVE CompleteInv'
  BY <1>3, <1>frame DEF Read, Actors
<1>4. ASSUME NEW w \in Workers, LoadJob(w) PROVE CompleteInv'
  <2>1. CASE job \in Executable
    <3> DEFINE r == [Idle EXCEPT !.pc = "loaded", !.job = job]
    <3>1. Become(w, r) /\ r.pc = "loaded" /\ w \in Actors
      BY <1>4, <2>1 DEF LoadJob, Become, Idle, Actors
    <3> HIDE DEF r
    <3>2. QED
      BY <1>4, <3>1, <1>frame DEF LoadJob
  <2>2. CASE job \notin Executable
    BY <1>4, <2>2, <1>still DEF LoadJob
  <2>3. QED
    BY <2>1, <2>2
<1>5. ASSUME NEW a \in Actors, Execute(a) PROVE CompleteInv'
  <2>a. actor[a] \in Record
    BY DEF TypeOK, Record
  <2>goto. \A pc, j : [actor[a] EXCEPT !.pc = pc, !.job = j].pc = pc
    BY <2>a DEF Record
  <2>1. CASE StartJob(a)
    BY <2>1, <2>goto, <1>frame DEF StartJob
  <2>2. CASE RunBatch(a)
    <3>1. /\ left' \in Nat /\ (left <= 1 <=> left' = 0) /\ job' = job
          /\ left = 0 => left' = 0
      BY <2>2 DEF RunBatch, TypeOK
    <3> DEFINE pc == IF left <= 1 THEN "last" ELSE "control"
               r == [actor[a] EXCEPT !.pc = pc]
    <3>2. r.pc = pc
      BY <2>a DEF Record
    <3>3. Become(a, r)
      BY <2>2 DEF RunBatch, Goto
    <3>4. r.pc = "last" => left' = 0
      BY <3>1, <3>2
    <3> HIDE DEF r, pc
    <3>5. QED
      BY <3>1, <3>3, <3>4, OnlyOneMoves DEF CompleteInv, SuccessIsComplete
  <2>3. CASE FailBatch(a)
    BY <2>3, <2>goto, <1>frame DEF FailBatch
  <2>4. CASE CommitSuccess(a)
    <3>1. left' = 0
      BY <2>4 DEF CommitSuccess, CompleteInv
    <3>2. QED
      BY <3>1 DEF CompleteInv, SuccessIsComplete
  <2>5. CASE RefreshJob(a)
    <3> DEFINE pc == IF job \in {"pausing", "canceling"} THEN "stop" ELSE "batch"
               r == [actor[a] EXCEPT !.job = job, !.pc = pc]
    <3>1. r.pc # "last"
      BY <2>a DEF Record
    <3>2. Become(a, r) /\ left' = left /\ job' = job
      BY <2>5 DEF RefreshJob
    <3> HIDE DEF r
    <3>3. QED
      BY <3>1, <3>2, <1>frame
  <2>6. CASE CommitStop(a)
    <3> DEFINE rest == IF actor[a].job = "pausing" THEN "paused" ELSE "canceled"
               r == [actor[a] EXCEPT !.pc = "end", !.job = rest]
    <3>1. r.pc # "last"
      BY <2>goto
    <3>2. Become(a, r) /\ left' = left /\ job' # "success"
      BY <2>6 DEF CommitStop
    <3> HIDE DEF r
    <3>3. QED
      BY <3>1, <3>2, <1>frame
  <2>7. CASE RecordEnd(a)
    BY <2>7 DEF RecordEnd
  <2>8. CASE RecordRaises(a)
    BY <2>8, <1>idle, <1>frame DEF RecordRaises, Answer
  <2>9. QED
    BY <1>5, <2>1, <2>2, <2>3, <2>4, <2>5, <2>6, <2>7, <2>8 DEF Execute
<1>6. ASSUME NEW a \in Actors, ActorCrash(a) PROVE CompleteInv'
  BY <1>6, <1>idle, <1>frame DEF ActorCrash, Answer
<1>7. CASE DispatcherStep \/ DispatcherCrash
  BY <1>7, <1>still DEF DispatcherStep, DispatchDue, SendDue, DispatcherCrash
<1>8. CASE SqlSide
  BY <1>8, <1>still DEF SqlSide, SqlDispatch, SqlLoad, SqlStart, SqlFinish
<1>9. CASE UNCHANGED vars
  BY <1>9, <1>still DEF vars
<1>10. QED
  BY <1>1, <1>2, <1>3, <1>4, <1>5, <1>6, <1>7, <1>8, <1>9 DEF Next

\* While the platform's executors are the only ones to record a success, a
\* successful job left nothing to move, with any number of executors at work
\* on it (archive.py 957-961, 1057-1061).
THEOREM SuccessCorrect == Spec => [](LazyContent => SuccessIsComplete)
<1>1. Init => TypeOK /\ CompleteInv
  BY TypeInit DEF Init, CompleteInv, SuccessIsComplete, Idle
<1>2. (TypeOK /\ CompleteInv) /\ [Next]_vars => (TypeOK /\ CompleteInv)'
  BY TypeStep, CompleteStep
<1>3. CompleteInv => (LazyContent => SuccessIsComplete)
  BY DEF CompleteInv
<1>4. QED
  BY <1>1, <1>2, <1>3, PTL DEF Spec
=============================================================================

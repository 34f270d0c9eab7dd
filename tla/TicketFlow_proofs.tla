------------------------- MODULE TicketFlow_proofs -------------------------
(***************************************************************************)
(* One request at a time, for every chain length, every set of users and   *)
(* workers and every bound: the tables tell one story whatever dies, and   *)
(* unless a message is doubled the ticket lives the life of its status     *)
(* diagram and its SQL is sent once.                                       *)
(***************************************************************************)
EXTENDS TicketFlow, SqlWorkflow_proofs

(***************************************************************************)
(* Why the tables agree.  At most one request is under way.  Until it has  *)
(* committed nobody else writes the ticket, since nothing is queued before *)
(* a confirmation; so what it read is what the rows hold.                  *)
(***************************************************************************)
BeforeExecution == {"ABSENT", "PENDING_REVIEW", "REVIEW_PASS", "AUTO_REVIEW_FAIL", "ABORT"}
AfterConfirm == {"TIMING_TASK", "QUEUING", "EXECUTING"} \cup Result
PastCommit == {"publish", "sync", "run", "ran"}

OneAtATime == \A g, h \in Handlers : g # h => handler[g].pc = "idle" \/ handler[h].pc = "idle"
NoSender == \A h \in Handlers : handler[h].pc \notin PastCommit
NoWorker == \A w \in Workers : worker[w] = "idle"
Quiet == queue = 0 /\ NoSender /\ NoWorker /\ dispatcher = "idle" /\ runs = 0

\* r: a request; s, a, c: the ticket's status, the audit status, the chain.
UpToDate(r, s, a, c) ==
    /\ r.pc \in {"audit", "commit"} => r.status = s /\ s \in {"PENDING_REVIEW", "REVIEW_PASS"}
    /\ r.pc \in {"audit", "commit"} /\ r.op = "cancel" => s = "PENDING_REVIEW"
    /\ r.pc = "commit" /\ r.op \in AuditOps => r.auditStatus = a
    /\ r.pc = "commit" /\ r.op \in {"pass", "cancel"} => r.nodes = c
    /\ r.pc = "commit" /\ r.op \in ExecuteOps => s = "REVIEW_PASS"

SerialInv ==
    /\ OneAtATime
    /\ \A h \in Handlers : UpToDate(handler[h], status, auditStatus, nodes)
    /\ status \in BeforeExecution => Quiet
    /\ AuditAgrees

----------------------------------------------------------------------------
\* A chain has a first node.
LEMMA FirstNode == 1 \in Node
BY ChainAssumption DEF Node

\* The request that moves is the only one; it leaves the others idle.
LEMMA OthersIdle ==
    ASSUME TypeOK, OneAtATime, OneAtATime', NEW h \in Handlers, NEW r, Become(h, r),
           handler[h].pc # "idle" \/ r.pc # "idle"
    PROVE  \A g \in Handlers : /\ handler'[g] = IF g = h THEN r ELSE handler[g]
                               /\ g # h => handler[g].pc = "idle"
<1>1. \A g \in Handlers : handler'[g] = IF g = h THEN r ELSE handler[g]
  BY DEF Become, TypeOK
<1>2. CASE handler[h].pc # "idle"
  BY <1>1, <1>2 DEF OneAtATime
<1>3. CASE r.pc # "idle"
  BY <1>1, <1>3 DEF OneAtATime
<1>4. QED
  BY <1>1, <1>2, <1>3
\* A request that is idle is up to date with anything.
LEMMA IdleUpToDate ==
    \A r, s, a, c : r.pc = "idle" => UpToDate(r, s, a, c)
BY DEF UpToDate

\* Past the confirmation the chain and the audit status do not change.
LEMMA AgreesAfterConfirm ==
    ASSUME TypeOK, AuditAgrees, status \in AfterConfirm \cup {"REVIEW_PASS"},
           status' \in AfterConfirm \cup {"REVIEW_PASS"}, UNCHANGED <<auditStatus, nodes>>
    PROVE  AuditAgrees'
<1>1. \A s \in {"PASSED", "CANCELED"} : ChainIs(s)' <=> ChainIs(s)
  BY DEF ChainIs
<1>2. QED
  BY <1>1 DEF AuditAgrees, AfterConfirm, Result, TypeOK, AuditStatus

\* Nothing is filed yet: nobody is at work and the tables agree.
LEMMA SerialInit == Init => SerialInv
<1> SUFFICES ASSUME Init PROVE SerialInv
  OBVIOUS
<1>1. \A h \in Handlers : handler[h].pc = "idle"
  BY DEF Init, Idle
<1>2. ~ChainIs("PASSED") /\ ~ChainIs("CANCELED")
  BY FirstNode DEF Init, ChainIs
<1>3. AuditAgrees
  BY <1>2 DEF Init, AuditAgrees
<1>4. Quiet
  BY <1>1 DEF Init, Quiet, NoSender, NoWorker, PastCommit
<1>5. OneAtATime
  BY <1>1 DEF OneAtATime
<1>6. \A h \in Handlers : UpToDate(handler[h], status, auditStatus, nodes)
  BY <1>1, IdleUpToDate
<1>7. QED
  BY <1>3, <1>4, <1>5, <1>6 DEF SerialInv

\* The submission finds every handler idle.
LEMMA SerialSubmit == TypeOK /\ SerialInv /\ Submit => SerialInv'
<1> SUFFICES ASSUME TypeOK, SerialInv, Submit PROVE SerialInv'
  OBVIOUS
<1>1. Quiet /\ status = "ABSENT" /\ UNCHANGED <<handler, worker, queue, dispatcher, runs>>
  BY DEF SerialInv, Submit, BeforeExecution, ghosts
<1>2. \A h \in Handlers : UpToDate(handler[h], status, auditStatus, nodes)
  BY DEF SerialInv
<1>3. \A h \in Handlers : handler[h].pc \notin {"audit", "commit"}
  BY <1>1, <1>2 DEF UpToDate
<1>4. \A h \in Handlers : UpToDate(handler'[h], status', auditStatus', nodes')
  BY <1>1, <1>3 DEF UpToDate
<1>5. ~ChainIs("PASSED")' /\ ~ChainIs("CANCELED")'
  BY FirstNode DEF Submit, ChainIs
<1>6. AuditAgrees'
  BY <1>5 DEF Submit, AuditAgrees
<1>7. Quiet'
  BY <1>1 DEF Quiet, NoSender, NoWorker
<1>8. OneAtATime'
  BY <1>1 DEF SerialInv, OneAtATime
<1>9. QED
  BY <1>4, <1>6, <1>7, <1>8 DEF SerialInv

\* What an approval writes, when the request's copies are what the rows hold.
LEMMA AgreesAfterPass ==
    ASSUME TypeOK, ApprovalInv, SerialInv, NEW h \in Handlers, CommitPass(h)
    PROVE  /\ status = "PENDING_REVIEW" /\ status' \in {"PENDING_REVIEW", "REVIEW_PASS"}
           /\ AuditAgrees'
<1> DEFINE r == handler[h]
<1>1. r.pc = "commit" /\ r.op = "pass"
  BY DEF CommitPass
<1>2. r.status = status /\ r.auditStatus = auditStatus /\ r.nodes = nodes
      /\ status \in {"PENDING_REVIEW", "REVIEW_PASS"}
  BY <1>1 DEF SerialInv, UpToDate, AuditOps
<1>3. PICK n \in Node :
        LET chain == [nodes EXCEPT ![n] = "PASSED"]
        IN  /\ Current(n, nodes)
            /\ nodes' = chain
            /\ auditStatus' = Written(auditStatus, auditStatus, AuditVerdict(Complete(chain)))
            /\ status' = Written(status, status, TicketVerdict(Complete(chain)))
  BY <1>2 DEF CommitPass
<1> DEFINE chain == [nodes EXCEPT ![n] = "PASSED"]
<1>4. /\ nodes' = chain
      /\ auditStatus' = AuditVerdict(Complete(chain))
      /\ status' = TicketVerdict(Complete(chain))
  BY <1>3 DEF Written
<1>5. nodes[n] = "PENDING"
  BY <1>3 DEF Current
<1>6. \A m \in Node : nodes[m] \in {"PENDING", "PASSED"}
  BY <1>5 DEF ApprovalInv, ChainOK, TypeOK, AuditStatus
<1>7. \A m \in Node : chain[m] \in {"PENDING", "PASSED"} /\ chain[n] = "PASSED"
  BY <1>6 DEF TypeOK
<1>8. status = "PENDING_REVIEW"
  <2>1. ~ChainIs("PASSED")
    BY <1>5 DEF ChainIs
  <2>2. QED
    BY <1>2, <2>1 DEF SerialInv, AuditAgrees, TypeOK, AuditStatus
<1> HIDE DEF chain
<1>9. ChainIs("PASSED")' <=> Complete(chain)
  BY <1>4, <1>7 DEF ChainIs, Complete
<1>10. ~ChainIs("CANCELED")'
  BY <1>4, <1>7 DEF ChainIs
<1>11. QED
  BY <1>4, <1>8, <1>9, <1>10 DEF AuditAgrees, AuditVerdict, TicketVerdict

\* What a rejection writes.
LEMMA AgreesAfterReject ==
    ASSUME TypeOK, SerialInv, NEW h \in Handlers, CommitReject(h)
    PROVE  /\ status \in {"PENDING_REVIEW", "REVIEW_PASS"} /\ status' = "AUTO_REVIEW_FAIL"
           /\ AuditAgrees'
<1> DEFINE r == handler[h]
<1>1. r.pc = "commit" /\ r.op = "reject"
  BY DEF CommitReject
<1>2. r.status = status /\ r.auditStatus = auditStatus /\ status \in {"PENDING_REVIEW", "REVIEW_PASS"}
  BY <1>1 DEF SerialInv, UpToDate, AuditOps
<1>3. auditStatus # "REJECTED" /\ ~ChainIs("CANCELED")
  BY <1>2 DEF SerialInv, AuditAgrees
<1>4. status' = "AUTO_REVIEW_FAIL" /\ auditStatus' = "REJECTED" /\ nodes' = nodes
  BY <1>2, <1>3 DEF CommitReject, Written
<1>5. ~ChainIs("CANCELED")'
  BY <1>3, <1>4 DEF ChainIs
<1>6. QED
  BY <1>2, <1>4, <1>5 DEF AuditAgrees

\* What a cancellation writes.
LEMMA AgreesAfterCancel ==
    ASSUME TypeOK, ApprovalInv, SerialInv, NEW h \in Handlers, CommitCancel(h)
    PROVE  /\ status = "PENDING_REVIEW" /\ status' = "ABORT"
           /\ AuditAgrees'
<1> DEFINE r == handler[h]
<1>1. r.pc = "commit" /\ r.op = "cancel"
  BY DEF CommitCancel
<1>2. r.status = status /\ r.auditStatus = auditStatus /\ r.nodes = nodes /\ status = "PENDING_REVIEW"
  BY <1>1 DEF SerialInv, UpToDate, AuditOps
<1>3. auditStatus = "PENDING"
  BY <1>2 DEF SerialInv, AuditAgrees
<1>4. \A n \in Node : nodes[n] = "PENDING"
  BY <1>1, <1>2 DEF ApprovalInv, RequestBacked
<1>5. status' = "ABORT" /\ auditStatus' = "CANCELED" /\ nodes' = CancelPending(nodes)
  BY <1>2, <1>3 DEF CommitCancel, Written
<1>6. ChainIs("CANCELED")'
  BY <1>4, <1>5 DEF ChainIs, CancelPending
<1>7. QED
  BY <1>2, <1>5, <1>6 DEF AuditAgrees

\* No step of a request, alone as it is, tells two stories.
LEMMA SerialRequest ==
    ASSUME TypeOK, ApprovalInv, SerialInv, OneAtATime', NEW h \in Handlers,
           StartRequest(h) \/ ContinueRequest(h)
    PROVE  SerialInv'
<1> USE DEF row, ghosts
<1>inv. /\ OneAtATime /\ AuditAgrees
        /\ UpToDate(handler[h], status, auditStatus, nodes)
        /\ status \in BeforeExecution => Quiet
  BY DEF SerialInv
\* The request that moves is up to date as the rows then stand.
<1>move. ASSUME NEW r, Become(h, r), handler[h].pc # "idle" \/ r.pc # "idle",
                UpToDate(r, status', auditStatus', nodes'),
                status' \in BeforeExecution => Quiet', AuditAgrees'
         PROVE  SerialInv'
  <2>1. \A g \in Handlers : /\ handler'[g] = IF g = h THEN r ELSE handler[g]
                            /\ g # h => handler[g].pc = "idle"
    BY <1>move, <1>inv, OthersIdle
  <2>2. \A g \in Handlers : UpToDate(handler'[g], status', auditStatus', nodes')
    BY <1>move, <2>1, IdleUpToDate
  <2>3. QED
    BY <1>move, <2>2 DEF SerialInv
\* Until the confirmation the request is the only thing that is under way.
<1>quiet. ASSUME NEW r, Become(h, r), r.pc \notin PastCommit, status \in BeforeExecution,
                 UNCHANGED <<queue, worker, dispatcher, runs>>
          PROVE  Quiet'
  <2>1. \A g \in Handlers : handler'[g] \in {r, handler[g]}
    BY <1>quiet DEF Become, TypeOK
  <2>2. QED
    BY <1>quiet, <1>inv, <2>1 DEF Quiet, NoSender, NoWorker
\* A request that only reads.
<1>read. ASSUME NEW r, Become(h, r), r.pc \in {"audit", "commit"}, UNCHANGED <<row, queue, worker, dispatcher, runs>>,
                UpToDate(r, status, auditStatus, nodes)
         PROVE  SerialInv'
  <2>1. status \in BeforeExecution
    BY <1>read DEF UpToDate, BeforeExecution
  <2>2. Quiet'
    BY <1>read, <1>quiet, <2>1 DEF PastCommit
  <2>3. AuditAgrees'
    BY <1>read, <1>inv DEF AuditAgrees, ChainIs
  <2>4. QED
    BY <1>read, <1>move, <2>2, <2>3
\* A request that is answered.
<1>idle. Idle.pc = "idle" /\ Idle.pc \notin PastCommit
  BY DEF Idle, PastCommit
<1>done. ASSUME Become(h, Idle), handler[h].pc # "idle", AuditAgrees',
                \/ status' \notin BeforeExecution
                \/ status \in BeforeExecution /\ UNCHANGED <<queue, worker, dispatcher, runs>>
         PROVE  SerialInv'
  <2>1. status' \in BeforeExecution => Quiet'
    BY <1>done, <1>quiet, <1>idle
  <2>2. UpToDate(Idle, status', auditStatus', nodes')
    BY <1>idle, IdleUpToDate
  <2>3. QED
    BY <1>done, <1>move, <2>1, <2>2
\* A request past the confirmation.
<1>late. ASSUME handler[h].pc \in PastCommit, NEW r, Become(h, r), r.pc \notin {"audit", "commit"},
                status' \in AfterConfirm \cup {status}, UNCHANGED <<auditStatus, nodes>>
         PROVE  SerialInv'
  <2>1. status \in AfterConfirm /\ status' \in AfterConfirm
    BY <1>late, <1>inv DEF Quiet, NoSender, BeforeExecution, AfterConfirm, Result, TypeOK, WorkflowStatus
  <2>2. AuditAgrees'
    BY <1>late, <1>inv, <2>1, AgreesAfterConfirm
  <2>3. UpToDate(r, status', auditStatus', nodes')
    BY <1>late DEF UpToDate
  <2>4. status' \notin BeforeExecution /\ handler[h].pc # "idle"
    BY <1>late, <2>1 DEF AfterConfirm, BeforeExecution, Result, PastCommit
  <2>5. QED
    BY <1>late, <1>move, <2>2, <2>3, <2>4
<1>1. ASSUME NEW op \in AuditOps, ReadTicketToAudit(h, op) PROVE SerialInv'
  <2> DEFINE r == [Idle EXCEPT !.pc = "audit", !.op = op, !.status = status]
  <2>1. r.pc = "audit" /\ r.op = op /\ r.status = status
    BY DEF Idle
  <2> HIDE DEF r
  <2>2. UpToDate(r, status, auditStatus, nodes)
    BY <1>1, <2>1 DEF UpToDate, ReadTicketToAudit
  <2>3. QED
    BY <1>1, <2>1, <2>2, <1>read DEF ReadTicketToAudit, r
<1>2. ASSUME NEW op \in ExecuteOps, NEW u \in Users, ReadTicketToExecute(h, op, u)
      PROVE  SerialInv'
  <2> DEFINE r == [Idle EXCEPT !.pc = "commit", !.op = op, !.status = status, !.scheduledAt = scheduledAt]
  <2>1. r.pc = "commit" /\ r.op = op /\ r.status = status /\ op \notin AuditOps
    BY DEF Idle, ExecuteOps, AuditOps
  <2> HIDE DEF r
  <2>2. UpToDate(r, status, auditStatus, nodes)
    BY <1>2, <2>1 DEF UpToDate, ReadTicketToExecute, Confirmable, AuditOps
  <2>3. QED
    BY <1>2, <2>1, <2>2, <1>read DEF ReadTicketToExecute, r
<1>req. handler[h] \in Request
  BY DEF TypeOK
<1>3. ASSUME NEW u \in Users, ReadChainToPass(h, u) PROVE SerialInv'
  <2> DEFINE r == [handler[h] EXCEPT !.pc = "commit", !.user = u,
                      !.auditStatus = auditStatus, !.nodes = nodes]
  <2>1. /\ r.pc = "commit" /\ r.op = "pass" /\ r.status = handler[h].status
        /\ r.auditStatus = auditStatus /\ r.nodes = nodes
    BY <1>3, <1>req DEF Request, ReadChainToPass
  <2> HIDE DEF r
  <2>2. UpToDate(r, status, auditStatus, nodes)
    BY <1>3, <1>inv, <2>1 DEF UpToDate, ReadChainToPass, ExecuteOps
  <2>3. QED
    BY <1>3, <2>1, <2>2, <1>read DEF ReadChainToPass, r
<1>4. ASSUME NEW u \in Users, ReadChainToReject(h, u) PROVE SerialInv'
  <2> DEFINE r == [handler[h] EXCEPT !.pc = "commit", !.auditStatus = auditStatus]
  <2>1. /\ r.pc = "commit" /\ r.op = "reject" /\ r.status = handler[h].status
        /\ r.auditStatus = auditStatus
    BY <1>4, <1>req DEF Request, ReadChainToReject
  <2> HIDE DEF r
  <2>2. UpToDate(r, status, auditStatus, nodes)
    BY <1>4, <1>inv, <2>1 DEF UpToDate, ReadChainToReject, ExecuteOps
  <2>3. QED
    BY <1>4, <2>1, <2>2, <1>read DEF ReadChainToReject, r
<1>5. ASSUME NEW u \in Users, ReadChainToCancel(h, u) PROVE SerialInv'
  <2> DEFINE r == [handler[h] EXCEPT !.pc = "commit",
                      !.auditStatus = auditStatus, !.nodes = nodes]
  <2>1. /\ r.pc = "commit" /\ r.op = "cancel" /\ r.status = handler[h].status
        /\ r.auditStatus = auditStatus /\ r.nodes = nodes
    BY <1>5, <1>req DEF Request, ReadChainToCancel
  <2> HIDE DEF r
  <2>2. UpToDate(r, status, auditStatus, nodes)
    BY <1>5, <1>inv, <2>1 DEF UpToDate, ReadChainToCancel, ExecuteOps
  <2>3. QED
    BY <1>5, <2>1, <2>2, <1>read DEF ReadChainToCancel, r
<1>6. CASE RefuseAudit(h)
  <2>1. /\ Become(h, Idle) /\ handler[h].pc = "audit"
        /\ UNCHANGED <<status, auditStatus, nodes, queue, worker, dispatcher, runs>>
    BY <1>6 DEF RefuseAudit, Answer
  <2>2. status \in BeforeExecution
    BY <2>1, <1>inv DEF UpToDate, BeforeExecution
  <2>3. AuditAgrees'
    BY <2>1, <1>inv DEF AuditAgrees, ChainIs
  <2>4. QED
    BY <2>1, <2>2, <2>3, <1>done
<1>7. CASE CommitPass(h)
  <2>1. /\ Become(h, Idle) /\ handler[h].pc = "commit" /\ UNCHANGED <<queue, worker, dispatcher, runs>>
    BY <1>7 DEF CommitPass, Answer
  <2>2. QED
    BY <1>7, <2>1, AgreesAfterPass, <1>done DEF BeforeExecution
<1>8. CASE CommitReject(h)
  <2>1. /\ Become(h, Idle) /\ handler[h].pc = "commit" /\ UNCHANGED <<queue, worker, dispatcher, runs>>
    BY <1>8 DEF CommitReject, Answer
  <2>2. QED
    BY <1>8, <2>1, AgreesAfterReject, <1>done DEF BeforeExecution
<1>9. CASE CommitCancel(h)
  <2>1. /\ Become(h, Idle) /\ handler[h].pc = "commit" /\ UNCHANGED <<queue, worker, dispatcher, runs>>
    BY <1>9 DEF CommitCancel, Answer
  <2>2. QED
    BY <1>9, <2>1, AgreesAfterCancel, <1>done DEF BeforeExecution
\* A request whose commit confirms the execution, or notes it.
<1>confirmed. ASSUME handler[h].pc = "commit", handler[h].op \in ExecuteOps,
                     \E new \in AfterConfirm : status' = Written(status, handler[h].status, new),
                     UNCHANGED <<auditStatus, nodes>>
              PROVE  AuditAgrees' /\ status = "REVIEW_PASS" /\ status' \in AfterConfirm /\ status' \notin BeforeExecution
  <2>1. status = "REVIEW_PASS" /\ handler[h].status = status
    BY <1>confirmed, <1>inv DEF UpToDate
  <2>2. status' \in AfterConfirm
    BY <1>confirmed, <2>1 DEF Written, AfterConfirm, Result
  <2>3. QED
    BY <1>confirmed, <1>inv, <2>1, <2>2, AgreesAfterConfirm DEF AfterConfirm, BeforeExecution, Result
<1>10. CASE CommitImmediate(h)
  <2> DEFINE r == [Idle EXCEPT !.pc = "publish", !.op = handler[h].op]
  <2>1. r.pc = "publish"
    BY DEF Idle
  <2>2. UpToDate(r, status', auditStatus', nodes')
    BY <2>1 DEF UpToDate
  <2> HIDE DEF r
  <2>3. AuditAgrees' /\ status' \notin BeforeExecution
    BY <1>10, <1>confirmed DEF CommitImmediate, ExecuteOps, AfterConfirm
  <2>4. QED
    BY <1>10, <2>1, <2>2, <2>3, <1>move DEF CommitImmediate, r
<1>11. CASE CommitScheduled(h)
  <2>1. AuditAgrees' /\ status' \notin BeforeExecution
    BY <1>11, <1>confirmed DEF CommitScheduled, ExecuteOps, AfterConfirm
  <2>2. QED
    BY <1>11, <2>1, <1>done DEF CommitScheduled, Answer
<1>12. ASSUME NEW result \in Result, CommitExternal(h, result) PROVE SerialInv'
  <2>1. AuditAgrees' /\ status' \notin BeforeExecution
    BY <1>12, <1>confirmed DEF CommitExternal, ExecuteOps, AfterConfirm
  <2>2. QED
    BY <1>12, <2>1, <1>done DEF CommitExternal, Answer
<1>13. CASE Publish(h)
  BY <1>13, <1>late, <1>idle DEF Publish, Answer, PastCommit
<1>14. CASE PublishFails(h)
  <2> DEFINE r == [handler[h] EXCEPT !.pc = "sync"]
  <2>1. r.pc = "sync"
    BY <1>req DEF Request
  <2> HIDE DEF r
  <2>2. QED
    BY <1>14, <2>1, <1>late DEF PublishFails, PastCommit, r
<1>15. CASE SyncStart(h)
  <2> DEFINE r == [handler[h] EXCEPT !.pc = "run"]
  <2>1. r.pc = "run"
    BY <1>req DEF Request
  <2> HIDE DEF r
  <2>2. /\ handler[h].pc \in PastCommit /\ status' \in AfterConfirm /\ UNCHANGED <<auditStatus, nodes>>
        /\ Become(h, Idle) \/ Become(h, r)
    BY <1>15 DEF SyncStart, Answer, PastCommit, AfterConfirm, Result, r
  <2>3. QED
    BY <2>1, <2>2, <1>late, <1>idle
<1>16. CASE SyncRun(h)
  <2> DEFINE r == [handler[h] EXCEPT !.pc = "ran"]
  <2>1. r.pc = "ran"
    BY <1>req DEF Request
  <2> HIDE DEF r
  <2>2. QED
    BY <1>16, <2>1, <1>late DEF SyncRun, PastCommit, r
<1>17. ASSUME NEW result \in Result, SyncFinish(h, result) PROVE SerialInv'
  BY <1>17, <1>late, <1>idle DEF SyncFinish, Answer, PastCommit, AfterConfirm
<1>18. QED
  BY <1>1, <1>2, <1>3, <1>4, <1>5, <1>6, <1>7, <1>8, <1>9, <1>10, <1>11, <1>12,
     <1>13, <1>14, <1>15, <1>16, <1>17 DEF StartRequest, ContinueRequest

\* Workers, dispatcher and crashes meet a confirmed ticket or change nothing
\* the tables tell.
LEMMA SerialStep == TypeOK /\ ApprovalInv /\ SerialInv /\ OneAtATime' /\ [Next]_vars => SerialInv'
<1> SUFFICES ASSUME TypeOK, ApprovalInv, SerialInv, OneAtATime', [Next]_vars PROVE SerialInv'
  OBVIOUS
<1> USE DEF row, ghosts
<1>inv. /\ OneAtATime /\ AuditAgrees
        /\ \A h \in Handlers : UpToDate(handler[h], status, auditStatus, nodes)
        /\ status \in BeforeExecution => Quiet
  BY DEF SerialInv
<1>after. ASSUME status \in AfterConfirm, status' \in AfterConfirm, UNCHANGED <<handler, auditStatus, nodes>>
          PROVE  SerialInv'
  <2>1. AuditAgrees'
    BY <1>after, <1>inv, AgreesAfterConfirm
  <2>2. \A h \in Handlers : handler[h].pc \notin {"audit", "commit"}
    BY <1>after, <1>inv DEF UpToDate, AfterConfirm, Result
  <2>3. \A h \in Handlers : UpToDate(handler'[h], status', auditStatus', nodes')
    BY <1>after, <2>2 DEF UpToDate
  <2>4. status' \notin BeforeExecution
    BY <1>after DEF AfterConfirm, BeforeExecution, Result
  <2>5. QED
    BY <2>1, <2>3, <2>4 DEF SerialInv
<1>confirmed. ~Quiet => status \in AfterConfirm
  BY <1>inv DEF BeforeExecution, AfterConfirm, Result, TypeOK, WorkflowStatus
<1>1. CASE Submit
  BY <1>1, SerialSubmit
<1>2. ASSUME NEW h \in Handlers, StartRequest(h) \/ ContinueRequest(h) PROVE SerialInv'
  BY <1>2, SerialRequest
<1>3. ASSUME NEW w \in Workers, WorkerStep(w) PROVE SerialInv'
  <2>1. CASE LoadTicket(w)
    BY <2>1, <1>confirmed, <1>after DEF LoadTicket, Quiet
  <2>2. CASE StartTicket(w)
    <3>1. worker[w] # "idle" /\ status' \in AfterConfirm
      BY <2>2 DEF StartTicket, AfterConfirm, Result
    <3>2. QED
      BY <2>2, <3>1, <1>confirmed, <1>after DEF StartTicket, Quiet, NoWorker
  <2>3. CASE RunTicket(w)
    BY <2>3, <1>confirmed, <1>after DEF RunTicket, Quiet, NoWorker
  <2>4. ASSUME NEW result \in Result, FinishTicket(w, result) PROVE SerialInv'
    <3>1. worker[w] # "idle" /\ status' \in AfterConfirm
      BY <2>4 DEF FinishTicket, AfterConfirm
    <3>2. QED
      BY <2>4, <3>1, <1>confirmed, <1>after DEF FinishTicket, Quiet, NoWorker
  <2>5. QED
    BY <1>3, <2>1, <2>2, <2>3, <2>4 DEF WorkerStep
<1>4. CASE DispatcherStep
  <2>1. CASE SelectDue
    BY <2>1, <1>after DEF SelectDue, Due, AfterConfirm
  <2>2. CASE DispatchDue
    BY <2>2, <1>confirmed, <1>after DEF DispatchDue, Quiet
  <2>3. CASE CommitDispatch
    <3>1. dispatcher # "idle" /\ status' \in AfterConfirm
      BY <2>3 DEF CommitDispatch, AfterConfirm
    <3>2. QED
      BY <2>3, <3>1, <1>confirmed, <1>after DEF CommitDispatch, Quiet
  <2>4. QED
    BY <1>4, <2>1, <2>2, <2>3 DEF DispatcherStep
<1>5. CASE Crash
  <2>1. ASSUME NEW h \in Handlers, WebCrash(h) PROVE SerialInv'
    <3>1. /\ Become(h, Idle) /\ UNCHANGED <<status, auditStatus, nodes, queue, worker, dispatcher, runs>>
          /\ Idle.pc = "idle"
      BY <2>1 DEF WebCrash, Answer, Idle
    <3>2. \A g \in Handlers : handler'[g] = IF g = h THEN Idle ELSE handler[g]
      BY <3>1 DEF Become, TypeOK
    <3>3. \A g \in Handlers : UpToDate(handler'[g], status', auditStatus', nodes')
      BY <3>1, <3>2, <1>inv, IdleUpToDate
    <3>4. AuditAgrees'
      BY <3>1, <1>inv DEF AuditAgrees, ChainIs
    <3>5. Quiet => Quiet'
      BY <3>1, <3>2 DEF Quiet, NoSender, NoWorker, PastCommit
    <3>6. QED
      BY <3>1, <3>3, <3>4, <3>5, <1>inv DEF SerialInv
  <2>2. ASSUME NEW w \in Workers, WorkerCrash(w) PROVE SerialInv'
    BY <2>2, <1>confirmed, <1>after DEF WorkerCrash, Quiet, NoWorker
  <2>3. CASE DispatcherCrash
    BY <2>3, <1>confirmed, <1>after DEF DispatcherCrash, Quiet
  <2>4. QED
    BY <1>5, <2>1, <2>2, <2>3 DEF Crash
<1>6. CASE UNCHANGED vars
  <2>1. UNCHANGED <<status, auditStatus, nodes, handler, queue, worker, dispatcher, runs>>
    BY <1>6 DEF vars
  <2>2. AuditAgrees' /\ (Quiet => Quiet')
    BY <2>1, <1>inv DEF AuditAgrees, ChainIs, Quiet, NoSender, NoWorker
  <2>3. QED
    BY <2>1, <2>2, <1>inv DEF SerialInv
<1>7. QED
  BY <1>1, <1>2, <1>3, <1>4, <1>5, <1>6 DEF Next

(***************************************************************************)
(* One request at a time, whatever dies: ticket, audit record and chain    *)
(* tell one story (audit.py 150-275, workflow.py 534-707).                 *)
(***************************************************************************)
FlowInv == TypeOK /\ ApprovalInv /\ (serial => SerialInv)

LEMMA FlowInvInit == FlowInit => FlowInv
BY TypeInit, ApprovalInit, SerialInit DEF FlowInit, FlowInv

LEMMA FlowInvStep == FlowInv /\ [FlowNext]_<<vars, serial>> => FlowInv'
<1> SUFFICES ASSUME FlowInv, [FlowNext]_<<vars, serial>> PROVE FlowInv'
  OBVIOUS
<1>1. [Next]_vars /\ serial' = serial
  BY DEF FlowNext
<1>2. TypeOK' /\ ApprovalInv'
  BY <1>1, TypeStep, ApprovalStep DEF FlowInv
<1>3. ASSUME serial PROVE SerialInv'
  <2>1. SerialInv
    BY <1>3 DEF FlowInv
  <2>2. OneAtATime'
    <3>1. CASE FlowNext
      BY <1>3, <3>1 DEF FlowNext, OneAtATime
    <3>2. CASE UNCHANGED <<vars, serial>>
      BY <2>1, <3>2 DEF vars, SerialInv, OneAtATime
    <3>3. QED
      BY <3>1, <3>2
  <2>3. QED
    BY <1>1, <2>1, <2>2, SerialStep DEF FlowInv
<1>4. QED
  BY <1>1, <1>2, <1>3 DEF FlowInv

LEMMA FlowInvHolds == FlowSpec => []FlowInv
BY FlowInvInit, FlowInvStep, PTL DEF FlowSpec

\* While requests follow one another, the ticket, its audit record and its chain of
\* nodes tell the same story after every commit, whatever process dies in between
\* (services/workflow.py, services/audit.py).
THEOREM TablesAgree == FlowSpec => []AuditAgreesSerially
<1>1. FlowInv => AuditAgreesSerially
  BY DEF FlowInv, SerialInv, AuditAgreesSerially
<1>2. QED
  BY <1>1, FlowInvHolds, PTL

----------------------------------------------------------------------------
(***************************************************************************)
(* Why the SQL is sent once: the stages a ticket passes.  It is booked, or *)
(* it waits as one message or with the one process that will act on it, or *)
(* one process executes it; a crash may leave it without any.              *)
(***************************************************************************)
OnlyWorker(w, at) == \A v \in Workers : worker[v] = IF v = w THEN at ELSE "idle"
Nobody == NoSender /\ NoWorker
HandlerIs(pcs) == NoWorker /\ \E h \in Handlers : handler[h].pc \in pcs
WorkerIs(at) == NoSender /\ \E w \in Workers : OnlyWorker(w, at)

StageBooked ==
    /\ status = "TIMING_TASK" /\ dispatcher \in {"idle", "selected"}
    /\ queue = 0 /\ Nobody /\ runs = 0
StageSent ==
    /\ \/ status = "TIMING_TASK" /\ dispatcher = "dispatched"
       \/ status = "QUEUING" /\ dispatcher = "idle"
    /\ \/ queue \in {0, 1} /\ Nobody
       \/ queue = 0 /\ WorkerIs("loaded")
       \/ queue = 0 /\ HandlerIs({"publish", "sync"}) /\ status = "QUEUING"
    /\ runs = 0
StageExecuting ==
    /\ status = "EXECUTING" /\ dispatcher = "idle" /\ queue = 0
    /\ \/ Nobody /\ runs \in {0, 1}
       \/ (WorkerIs("run") \/ HandlerIs({"run"})) /\ runs = 0
       \/ (WorkerIs("ran") \/ HandlerIs({"ran"})) /\ runs = 1
StageEnded ==
    /\ status \in Result /\ dispatcher = "idle"
    /\ queue = 0 /\ Nobody /\ runs \in {0, 1}

StageInv ==
    \/ status \in BeforeExecution
    \/ StageBooked \/ StageSent \/ StageExecuting \/ StageEnded

\* The abstract ticket, of the status and the count of executions as they are.
Life == INSTANCE WorkflowLifecycle
Lives == [Life!Next]_<<status, runs>>

\* No broker answer is lost after the message was stored and no dispatcher
\* dies with its message sent: the faults that double a message.
NoDoubling == FaultKinds \cap {"broker", "dispatcher"} = {}

\* Where a request stands past its commit tells the stage of the ticket.
LEMMA StageOfRequest ==
    ASSUME TypeOK, SerialInv, StageInv, NEW h \in Handlers, handler[h].pc \in PastCommit
    PROVE  /\ dispatcher = "idle" /\ queue = 0 /\ NoWorker
           /\ handler[h].pc \in {"publish", "sync"} => status = "QUEUING" /\ runs = 0
           /\ handler[h].pc = "run" => status = "EXECUTING" /\ runs = 0
           /\ handler[h].pc = "ran" => status = "EXECUTING" /\ runs = 1
<1>1. ~NoSender
  BY DEF NoSender
<1>2. status \notin BeforeExecution
  BY <1>1 DEF SerialInv, Quiet
<1>3. \A g \in Handlers : handler[g].pc # "idle" => g = h
  BY DEF SerialInv, OneAtATime, PastCommit
<1>5. CASE StageSent
  <2>1. HandlerIs({"publish", "sync"}) /\ status = "QUEUING" /\ queue = 0
    BY <1>1, <1>5 DEF StageSent, Nobody, WorkerIs
  <2>2. NoWorker /\ handler[h].pc \in {"publish", "sync"}
    BY <1>3, <2>1 DEF HandlerIs
  <2>3. QED
    BY <1>5, <2>1, <2>2 DEF StageSent
<1>6. CASE StageExecuting
  <2>1. \/ HandlerIs({"run"}) /\ runs = 0
        \/ HandlerIs({"ran"}) /\ runs = 1
    BY <1>1, <1>6 DEF StageExecuting, Nobody, WorkerIs
  <2>2. /\ NoWorker
        /\ \/ handler[h].pc = "run" /\ runs = 0
           \/ handler[h].pc = "ran" /\ runs = 1
    BY <1>3, <2>1 DEF HandlerIs
  <2>3. QED
    BY <1>6, <2>2 DEF StageExecuting
<1>7. QED
  BY <1>1, <1>2, <1>5, <1>6 DEF StageInv, StageBooked, StageEnded, Nobody

\* No step of a request leaves the stages, and each is one of the diagram.
LEMMA StageRequest ==
    ASSUME TypeOK, ApprovalInv, SerialInv, StageInv, NoDoubling, OneAtATime', NEW h \in Handlers,
           StartRequest(h) \/ ContinueRequest(h)
    PROVE  StageInv' /\ Lives
<1> USE DEF row, ghosts
<1>inv. /\ UpToDate(handler[h], status, auditStatus, nodes)
        /\ status \in BeforeExecution => Quiet
  BY DEF SerialInv
<1>others. ASSUME NEW r, Become(h, r), handler[h].pc # "idle" \/ r.pc # "idle"
           PROVE  \A g \in Handlers : /\ handler'[g] = IF g = h THEN r ELSE handler[g]
                                      /\ g # h => handler[g].pc = "idle"
  BY <1>others, OthersIdle DEF SerialInv
<1>idle. ASSUME Become(h, Idle), handler[h].pc # "idle", UNCHANGED worker, NoWorker PROVE Nobody'
  <2>1. Idle.pc = "idle"
    BY DEF Idle
  <2>2. \A g \in Handlers : handler'[g].pc = "idle"
    BY <1>idle, <1>others, <2>1
  <2>3. QED
    BY <1>idle, <2>2 DEF Nobody, NoSender, NoWorker, PastCommit
<1>early. ASSUME handler[h].pc \in {"audit", "commit"} PROVE status \in BeforeExecution /\ Quiet
  BY <1>early, <1>inv DEF UpToDate, BeforeExecution
<1>1. ASSUME NEW op \in AuditOps, ReadTicketToAudit(h, op) PROVE StageInv' /\ Lives
  BY <1>1 DEF ReadTicketToAudit, StageInv, BeforeExecution, Lives
<1>2. ASSUME NEW op \in ExecuteOps, NEW u \in Users, ReadTicketToExecute(h, op, u)
      PROVE  StageInv' /\ Lives
  BY <1>2 DEF ReadTicketToExecute, Confirmable, StageInv, BeforeExecution, Lives
<1>3. ASSUME NEW u \in Users,
             ReadChainToPass(h, u) \/ ReadChainToReject(h, u) \/ ReadChainToCancel(h, u)
      PROVE  StageInv' /\ Lives
  BY <1>3, <1>early DEF ReadChainToPass, ReadChainToReject, ReadChainToCancel, StageInv, Lives
<1>4. CASE RefuseAudit(h)
  BY <1>4, <1>early DEF RefuseAudit, StageInv, Lives
<1>5. CASE CommitPass(h)
  <2>1. status = "PENDING_REVIEW" /\ status' \in {"PENDING_REVIEW", "REVIEW_PASS"} /\ runs' = runs
    BY <1>5, AgreesAfterPass DEF CommitPass
  <2>2. Life!Approve \/ UNCHANGED <<status, runs>>
    BY <2>1 DEF Life!Approve, Life!Move
  <2>3. QED
    BY <2>1, <2>2 DEF StageInv, BeforeExecution, Lives, Life!Next
<1>6. CASE CommitReject(h)
  <2>1. status \in {"PENDING_REVIEW", "REVIEW_PASS"} /\ status' = "AUTO_REVIEW_FAIL" /\ runs' = runs
    BY <1>6, AgreesAfterReject DEF CommitReject
  <2>2. Life!Reject
    BY <2>1 DEF Life!Reject, Life!Move, Life!Open
  <2>3. QED
    BY <2>1, <2>2 DEF StageInv, BeforeExecution, Lives, Life!Next
<1>7. CASE CommitCancel(h)
  <2>1. status = "PENDING_REVIEW" /\ status' = "ABORT" /\ runs' = runs
    BY <1>7, AgreesAfterCancel DEF CommitCancel
  <2>2. Life!Cancel
    BY <2>1 DEF Life!Cancel, Life!Move
  <2>3. QED
    BY <2>1, <2>2 DEF StageInv, BeforeExecution, Lives, Life!Next
<1>confirm. ASSUME handler[h].pc = "commit", handler[h].op \in ExecuteOps, NEW new \in AfterConfirm,
                   status' = Written(status, handler[h].status, new)
            PROVE  status = "REVIEW_PASS" /\ status' = new /\ Quiet
  <2>1. status = "REVIEW_PASS" /\ handler[h].status = status
    BY <1>confirm, <1>inv DEF UpToDate
  <2>2. QED
    BY <1>confirm, <1>early, <2>1 DEF Written, AfterConfirm, Result
<1>8. CASE CommitImmediate(h)
  <2> DEFINE r == [Idle EXCEPT !.pc = "publish", !.op = handler[h].op]
  <2>1. r.pc = "publish" /\ Become(h, r) /\ UNCHANGED worker
    BY <1>8 DEF Idle, CommitImmediate
  <2> HIDE DEF r
  <2>2. status = "REVIEW_PASS" /\ status' = "QUEUING" /\ Quiet
    BY <1>8, <1>confirm DEF CommitImmediate, ExecuteOps, AfterConfirm
  <2>3. handler'[h].pc = "publish" /\ (NoWorker)'
    BY <2>1, <2>2, <1>others DEF Quiet, NoWorker
  <2>4. UNCHANGED <<queue, dispatcher, runs>>
    BY <1>8 DEF CommitImmediate
  <2>5. StageSent'
    BY <2>2, <2>3, <2>4 DEF StageSent, HandlerIs, Quiet
  <2>6. Life!Confirm
    BY <2>2, <2>4 DEF Life!Confirm, Life!Move, Life!Waiting
  <2>7. QED
    BY <2>5, <2>6 DEF StageInv, Lives, Life!Next
<1>9. CASE CommitScheduled(h)
  <2>1. status = "REVIEW_PASS" /\ status' = "TIMING_TASK" /\ Quiet
    BY <1>9, <1>confirm DEF CommitScheduled, ExecuteOps, AfterConfirm
  <2>2. Nobody' /\ UNCHANGED <<queue, dispatcher, runs>>
    BY <1>9, <2>1, <1>idle DEF CommitScheduled, Answer, Quiet
  <2>3. StageBooked'
    BY <2>1, <2>2 DEF StageBooked, Quiet
  <2>4. Life!Confirm
    BY <2>1, <2>2 DEF Life!Confirm, Life!Move, Life!Waiting
  <2>5. QED
    BY <2>3, <2>4 DEF StageInv, Lives, Life!Next
<1>10. ASSUME NEW result \in Result, CommitExternal(h, result) PROVE StageInv' /\ Lives
  <2>1. status = "REVIEW_PASS" /\ status' = result /\ Quiet
    BY <1>10, <1>confirm DEF CommitExternal, ExecuteOps, AfterConfirm
  <2>2. Nobody' /\ UNCHANGED <<queue, dispatcher, runs>>
    BY <1>10, <2>1, <1>idle DEF CommitExternal, Answer, Quiet
  <2>3. StageEnded'
    BY <2>1, <2>2 DEF StageEnded, Quiet
  <2>4. Life!RecordExternal
    BY <2>1, <2>2 DEF Life!RecordExternal, Life!Move, Life!Result, Result
  <2>5. QED
    BY <2>3, <2>4 DEF StageInv, Lives, Life!Next
<1>11. CASE Publish(h)
  <2>1. status = "QUEUING" /\ runs = 0 /\ dispatcher = "idle" /\ queue = 0 /\ NoWorker
    BY <1>11, StageOfRequest DEF Publish, PastCommit
  <2>2. Nobody' /\ queue' = 1 /\ UNCHANGED <<status, dispatcher, runs>>
    BY <1>11, <2>1, <1>idle DEF Publish, Answer
  <2>3. StageSent'
    BY <2>1, <2>2 DEF StageSent
  <2>4. QED
    BY <2>2, <2>3 DEF StageInv, Lives
<1>req. handler[h] \in Request
  BY DEF TypeOK
<1>12. CASE PublishFails(h)
  <2>1. status = "QUEUING" /\ runs = 0 /\ dispatcher = "idle" /\ queue = 0 /\ NoWorker
    BY <1>12, StageOfRequest DEF PublishFails, PastCommit
  <2> DEFINE r == [handler[h] EXCEPT !.pc = "sync"]
  <2>2. r.pc = "sync" /\ Become(h, r)
    BY <1>12, <1>req DEF PublishFails, Request
  <2> HIDE DEF r
  <2>3. handler'[h].pc = "sync"
    BY <2>2, <1>others
  <2>4. UNCHANGED <<status, worker, queue, dispatcher, runs>>
    BY <1>12 DEF PublishFails, Fault, NoDoubling
  <2>5. StageSent'
    BY <2>1, <2>3, <2>4 DEF StageSent, HandlerIs, NoWorker
  <2>6. QED
    BY <2>4, <2>5 DEF StageInv, Lives
<1>13. CASE SyncStart(h)
  <2>1. status = "QUEUING" /\ runs = 0 /\ dispatcher = "idle" /\ queue = 0 /\ NoWorker
    BY <1>13, StageOfRequest DEF SyncStart, PastCommit
  <2>2. UNCHANGED <<worker, queue, dispatcher, runs>> /\ status' \in {"EXCEPTION", "EXECUTING"}
    BY <1>13 DEF SyncStart
  <2>3. Life!Start
    BY <2>1, <2>2 DEF Life!Start, Life!Move, Life!Waiting
  <2>4. CASE status' = "EXCEPTION" /\ Answer(h)
    <3>1. Nobody'
      BY <1>13, <2>1, <2>2, <2>4, <1>idle DEF Answer, SyncStart
    <3>2. StageEnded'
      BY <2>1, <2>2, <2>4, <3>1 DEF StageEnded, Result
    <3>3. QED
      BY <2>3, <3>2 DEF StageInv, Lives, Life!Next
  <2>5. CASE status' = "EXECUTING" /\ Become(h, [handler[h] EXCEPT !.pc = "run"])
    <3> DEFINE r == [handler[h] EXCEPT !.pc = "run"]
    <3>1. r.pc = "run" /\ Become(h, r)
      BY <2>5, <1>req DEF Request
    <3> HIDE DEF r
    <3>2. handler'[h].pc = "run"
      BY <3>1, <1>others
    <3>3. StageExecuting'
      BY <2>1, <2>2, <2>5, <3>2 DEF StageExecuting, HandlerIs, NoWorker
    <3>4. QED
      BY <2>3, <3>3 DEF StageInv, Lives, Life!Next
  <2>6. QED
    BY <1>13, <2>4, <2>5 DEF SyncStart
<1>14. CASE SyncRun(h)
  <2>1. status = "EXECUTING" /\ runs = 0 /\ dispatcher = "idle" /\ queue = 0 /\ NoWorker
    BY <1>14, StageOfRequest DEF SyncRun, PastCommit
  <2> DEFINE r == [handler[h] EXCEPT !.pc = "ran"]
  <2>2. r.pc = "ran" /\ Become(h, r)
    BY <1>14, <1>req DEF SyncRun, Request
  <2> HIDE DEF r
  <2>3. handler'[h].pc = "ran"
    BY <2>2, <1>others
  <2>4. UNCHANGED <<status, worker, queue, dispatcher>> /\ runs' = 1
    BY <1>14, <2>1 DEF SyncRun
  <2>5. StageExecuting'
    BY <2>1, <2>3, <2>4 DEF StageExecuting, HandlerIs, NoWorker
  <2>6. Life!Run
    BY <2>1, <2>4 DEF Life!Run
  <2>7. QED
    BY <2>5, <2>6 DEF StageInv, Lives, Life!Next
<1>15. ASSUME NEW result \in Result, SyncFinish(h, result) PROVE StageInv' /\ Lives
  <2>1. status = "EXECUTING" /\ runs = 1 /\ dispatcher = "idle" /\ queue = 0 /\ NoWorker
    BY <1>15, StageOfRequest DEF SyncFinish, PastCommit
  <2>2. Nobody' /\ UNCHANGED <<queue, dispatcher, runs>> /\ status' = result
    BY <1>15, <2>1, <1>idle DEF SyncFinish, Answer
  <2>3. StageEnded'
    BY <2>1, <2>2 DEF StageEnded
  <2>4. Life!Finish
    BY <2>1, <2>2 DEF Life!Finish, Life!Move, Life!Result, Result
  <2>5. QED
    BY <2>3, <2>4 DEF StageInv, Lives, Life!Next
<1>16. QED
  BY <1>1, <1>2, <1>3, <1>4, <1>5, <1>6, <1>7, <1>8, <1>9, <1>10, <1>11, <1>12,
     <1>13, <1>14, <1>15 DEF StartRequest, ContinueRequest

\* So does where a worker stands.
LEMMA StageOfWorker ==
    ASSUME TypeOK, SerialInv, StageInv, NEW w \in Workers, worker[w] # "idle"
    PROVE  /\ queue = 0 /\ NoSender /\ \A v \in Workers : v # w => worker[v] = "idle"
           /\ worker[w] = "loaded" => StageSent /\ WorkerIs("loaded") /\ runs = 0
           /\ worker[w] = "run" => status = "EXECUTING" /\ dispatcher = "idle" /\ runs = 0
           /\ worker[w] = "ran" => status = "EXECUTING" /\ dispatcher = "idle" /\ runs = 1
<1>1. ~NoWorker
  BY DEF NoWorker
<1>2. status \notin BeforeExecution
  BY <1>1 DEF SerialInv, Quiet
<1>3. ASSUME NEW at, WorkerIs(at)
      PROVE  worker[w] = at /\ NoSender /\ \A v \in Workers : v # w => worker[v] = "idle"
  BY <1>3 DEF WorkerIs, OnlyWorker
<1>4. CASE StageSent
  <2>1. WorkerIs("loaded") /\ queue = 0
    BY <1>1, <1>4 DEF StageSent, Nobody, HandlerIs
  <2>2. QED
    BY <1>3, <1>4, <2>1 DEF StageSent
<1>5. CASE StageExecuting
  <2>1. CASE WorkerIs("run") /\ runs = 0
    BY <1>3, <1>5, <2>1 DEF StageExecuting
  <2>2. CASE WorkerIs("ran") /\ runs = 1
    BY <1>3, <1>5, <2>2 DEF StageExecuting
  <2>3. QED
    BY <1>1, <1>5, <2>1, <2>2 DEF StageExecuting, Nobody, HandlerIs
<1>6. QED
  BY <1>1, <1>2, <1>4, <1>5 DEF StageInv, StageBooked, StageEnded, Nobody

\* The message passes to one worker, which executes once.
LEMMA StageWorker ==
    ASSUME TypeOK, SerialInv, StageInv, NEW w \in Workers, WorkerStep(w)
    PROVE  StageInv' /\ Lives
<1> USE DEF row, ghosts
<1>moved. ASSUME NEW at, worker' = [worker EXCEPT ![w] = at], UNCHANGED handler, NoSender,
                 \A v \in Workers : v # w => worker[v] = "idle"
          PROVE  WorkerIs(at)' /\ (at = "idle" => Nobody')
  <2>1. \A v \in Workers : worker'[v] = IF v = w THEN at ELSE "idle"
    BY <1>moved DEF TypeOK
  <2>2. (NoSender)'
    BY <1>moved DEF NoSender
  <2>3. QED
    BY <2>1, <2>2 DEF WorkerIs, OnlyWorker, Nobody, NoWorker
<1>1. CASE LoadTicket(w)
  <2>1. StageSent /\ queue = 1 /\ Nobody
    BY <1>1 DEF LoadTicket, SerialInv, Quiet, StageInv, StageBooked, StageSent, StageExecuting, StageEnded
  <2>run. status \in Runnable
    BY <2>1 DEF StageSent, Runnable
  <2>2. worker' = [worker EXCEPT ![w] = "loaded"] /\ queue' = 0 /\ UNCHANGED <<status, dispatcher, runs, handler>>
    BY <1>1, <2>1, <2>run DEF LoadTicket
  <2>3. WorkerIs("loaded")'
    BY <2>1, <2>2, <1>moved DEF Nobody, NoWorker
  <2>4. StageSent'
    BY <2>1, <2>2, <2>3 DEF StageSent
  <2>5. QED
    BY <2>2, <2>4 DEF StageInv, Lives
<1>2. CASE StartTicket(w)
  <2>1. /\ queue = 0 /\ NoSender /\ \A v \in Workers : v # w => worker[v] = "idle"
        /\ StageSent /\ runs = 0
    BY <1>2, StageOfWorker DEF StartTicket
  <2>2. status = "QUEUING" /\ dispatcher = "idle"
    BY <1>2, <2>1 DEF StartTicket, RowUnlocked, StageSent
  <2>3. UNCHANGED <<handler, queue, dispatcher, runs>>
    BY <1>2 DEF StartTicket
  <2>4. CASE status' = "EXCEPTION" /\ worker' = [worker EXCEPT ![w] = "idle"]
    <3>1. Nobody'
      BY <2>1, <2>3, <2>4, <1>moved
    <3>2. StageEnded'
      BY <2>1, <2>2, <2>3, <2>4, <3>1 DEF StageEnded, Result
    <3>3. Life!Start
      BY <2>2, <2>3, <2>4 DEF Life!Start, Life!Move, Life!Waiting
    <3>4. QED
      BY <3>2, <3>3 DEF StageInv, Lives, Life!Next
  <2>5. CASE status' = "EXECUTING" /\ worker' = [worker EXCEPT ![w] = "run"]
    <3>1. WorkerIs("run")'
      BY <2>1, <2>3, <2>5, <1>moved
    <3>2. StageExecuting'
      BY <2>1, <2>2, <2>3, <2>5, <3>1 DEF StageExecuting
    <3>3. Life!Start
      BY <2>2, <2>3, <2>5 DEF Life!Start, Life!Move, Life!Waiting
    <3>4. QED
      BY <3>2, <3>3 DEF StageInv, Lives, Life!Next
  <2>6. QED
    BY <1>2, <2>4, <2>5 DEF StartTicket
<1>3. CASE RunTicket(w)
  <2>1. /\ queue = 0 /\ NoSender /\ \A v \in Workers : v # w => worker[v] = "idle"
        /\ status = "EXECUTING" /\ dispatcher = "idle" /\ runs = 0
    BY <1>3, StageOfWorker DEF RunTicket
  <2>2. /\ worker' = [worker EXCEPT ![w] = "ran"] /\ runs' = 1
        /\ UNCHANGED <<status, handler, queue, dispatcher>>
    BY <1>3, <2>1 DEF RunTicket
  <2>3. WorkerIs("ran")'
    BY <2>1, <2>2, <1>moved
  <2>4. StageExecuting'
    BY <2>1, <2>2, <2>3 DEF StageExecuting
  <2>5. Life!Run
    BY <2>1, <2>2 DEF Life!Run
  <2>6. QED
    BY <2>4, <2>5 DEF StageInv, Lives, Life!Next
<1>4. ASSUME NEW result \in Result, FinishTicket(w, result) PROVE StageInv' /\ Lives
  <2>1. /\ queue = 0 /\ NoSender /\ \A v \in Workers : v # w => worker[v] = "idle"
        /\ status = "EXECUTING" /\ dispatcher = "idle" /\ runs = 1
    BY <1>4, StageOfWorker DEF FinishTicket
  <2>2. /\ worker' = [worker EXCEPT ![w] = "idle"] /\ status' = result
        /\ UNCHANGED <<handler, queue, dispatcher, runs>>
    BY <1>4 DEF FinishTicket
  <2>3. Nobody'
    BY <2>1, <2>2, <1>moved
  <2>4. StageEnded'
    BY <2>1, <2>2, <2>3 DEF StageEnded
  <2>5. Life!Finish
    BY <2>1, <2>2 DEF Life!Finish, Life!Move, Life!Result, Result
  <2>6. QED
    BY <2>4, <2>5 DEF StageInv, Lives, Life!Next
<1>5. QED
  BY <1>1, <1>2, <1>3, <1>4 DEF WorkerStep

\* The dispatcher sends what is booked, and a crash loses what it held.
LEMMA StageStep ==
    ASSUME TypeOK, ApprovalInv, SerialInv, StageInv, NoDoubling, OneAtATime', [Next]_vars
    PROVE  StageInv' /\ Lives
<1> USE DEF row, ghosts
<1>1. CASE Submit
  <2>1. Life!Submit /\ status' \in BeforeExecution
    BY <1>1 DEF Submit, Life!Submit, Life!Move, BeforeExecution
  <2>2. QED
    BY <2>1 DEF StageInv, Lives, Life!Next
<1>2. ASSUME NEW h \in Handlers, StartRequest(h) \/ ContinueRequest(h) PROVE StageInv' /\ Lives
  BY <1>2, StageRequest
<1>3. ASSUME NEW w \in Workers, WorkerStep(w) PROVE StageInv' /\ Lives
  BY <1>3, StageWorker
<1>same. UNCHANGED <<handler, worker>> =>
           /\ Nobody' <=> Nobody
           /\ WorkerIs("loaded")' <=> WorkerIs("loaded")
  BY DEF Nobody, NoSender, NoWorker, WorkerIs, OnlyWorker
<1>4. CASE DispatcherStep
  <2>1. CASE SelectDue
    <3>1. StageBooked
      BY <2>1 DEF SelectDue, Due, StageInv, BeforeExecution, StageBooked, StageSent, StageExecuting,
                  StageEnded, Result
    <3>2. StageBooked'
      BY <2>1, <3>1, <1>same DEF SelectDue, StageBooked
    <3>3. QED
      BY <2>1, <3>2 DEF StageInv, SelectDue, Lives
  <2>2. CASE DispatchDue
    <3>1. StageBooked
      BY <2>2 DEF DispatchDue, SerialInv, Quiet, StageInv, StageBooked, StageSent, StageExecuting, StageEnded
    <3>2. StageSent'
      BY <2>2, <3>1, <1>same DEF DispatchDue, StageBooked, StageSent
    <3>3. QED
      BY <2>2, <3>2 DEF StageInv, DispatchDue, Lives
  <2>3. CASE CommitDispatch
    <3>1. StageSent
      BY <2>3 DEF CommitDispatch, SerialInv, Quiet, StageInv, StageBooked, StageExecuting, StageEnded
    <3>2. status = "TIMING_TASK"
      BY <2>3, <3>1 DEF CommitDispatch, StageSent
    <3>3. UNCHANGED <<handler, worker, queue, runs>> /\ status' = "QUEUING" /\ dispatcher' = "idle"
      BY <2>3 DEF CommitDispatch
    <3>4. StageSent'
      BY <3>1, <3>2, <3>3, <1>same DEF StageSent
    <3>5. Life!Dispatch
      BY <3>2, <3>3 DEF Life!Dispatch, Life!Move
    <3>6. QED
      BY <3>4, <3>5 DEF StageInv, Lives, Life!Next
  <2>4. QED
    BY <1>4, <2>1, <2>2, <2>3 DEF DispatcherStep
<1>5. CASE Crash
  <2>1. ASSUME NEW h \in Handlers, WebCrash(h) PROVE StageInv' /\ Lives
    <3>1. /\ Become(h, Idle) /\ Idle.pc = "idle" /\ handler[h].pc # "idle"
          /\ UNCHANGED <<status, worker, queue, dispatcher, runs>>
      BY <2>1 DEF WebCrash, Answer, Idle
    <3>2. CASE handler[h].pc \in {"audit", "commit"}
      <4>1. status \in BeforeExecution
        BY <3>2 DEF SerialInv, UpToDate, BeforeExecution
      <4>2. QED
        BY <3>1, <4>1 DEF StageInv, Lives
    <3>3. CASE handler[h].pc \in PastCommit
      <4>1. /\ dispatcher = "idle" /\ queue = 0 /\ NoWorker
            /\ \/ status = "QUEUING" /\ runs = 0
               \/ status = "EXECUTING" /\ runs \in {0, 1}
        BY <3>3, StageOfRequest DEF PastCommit
      <4>2. \A g \in Handlers : handler'[g].pc = "idle"
        BY <3>1, OthersIdle DEF SerialInv
      <4>3. Nobody'
        BY <3>1, <4>1, <4>2 DEF Nobody, NoSender, NoWorker, PastCommit
      <4>4. StageSent' \/ StageExecuting'
        BY <3>1, <4>1, <4>3 DEF StageSent, StageExecuting
      <4>5. QED
        BY <3>1, <4>4 DEF StageInv, Lives
    <3>4. QED
      BY <3>1, <3>2, <3>3 DEF TypeOK, Request, PastCommit
  <2>2. ASSUME NEW w \in Workers, WorkerCrash(w) PROVE StageInv' /\ Lives
    <3>1. /\ worker' = [worker EXCEPT ![w] = "idle"] /\ worker[w] # "idle"
          /\ UNCHANGED <<status, handler, queue, dispatcher, runs>>
      BY <2>2 DEF WorkerCrash
    <3>2. queue = 0 /\ NoSender /\ \A v \in Workers : v # w => worker[v] = "idle"
      BY <3>1, StageOfWorker
    <3>3. \/ StageSent /\ runs = 0
          \/ status = "EXECUTING" /\ dispatcher = "idle" /\ runs \in {0, 1}
      BY <3>1, StageOfWorker DEF TypeOK
    <3>4. Nobody'
      BY <3>1, <3>2 DEF Nobody, NoSender, NoWorker, TypeOK
    <3>5. StageSent' \/ StageExecuting'
      BY <3>1, <3>2, <3>3, <3>4 DEF StageSent, StageExecuting
    <3>6. QED
      BY <3>1, <3>5 DEF StageInv, Lives
  <2>3. CASE DispatcherCrash
    BY <2>3 DEF DispatcherCrash, Fault, NoDoubling
  <2>4. QED
    BY <1>5, <2>1, <2>2, <2>3 DEF Crash
<1>6. CASE UNCHANGED vars
  <2>1. UNCHANGED <<status, handler, worker, queue, dispatcher, runs>>
    BY <1>6 DEF vars
  <2>2. StageInv'
    BY <2>1 DEF StageInv, StageBooked, StageSent, StageExecuting, StageEnded, Nobody, NoSender, NoWorker,
                HandlerIs, WorkerIs, OnlyWorker
  <2>3. QED
    BY <2>1, <2>2 DEF Lives
<1>7. QED
  BY <1>1, <1>2, <1>3, <1>4, <1>5, <1>6 DEF Next

(***************************************************************************)
(* One request at a time and no message doubled, for every chain length    *)
(* and every number of workers, confirmations and crashes: the ticket      *)
(* implements the life its status diagram draws, and its SQL is sent at    *)
(* most once (workflow.py 534-758, execute_sql.py 60-176).                 *)
(***************************************************************************)
THEOREM TicketLivesOnce ==
    ASSUME NoDoubling
    PROVE  FlowSpec => ImplementsLifecycle
<1> DEFINE Inv == FlowInv /\ (serial => StageInv)
<1> DEFINE Step == [Lifecycle!Next]_<<IF serial THEN status ELSE "ABSENT", IF serial THEN runs ELSE 0>>
<1>1. FlowInit => Inv /\ Lifecycle!Init
  <2>1. FlowInit => FlowInv
    BY FlowInvInit
  <2>2. FlowInit => status \in BeforeExecution
    BY DEF FlowInit, Init, BeforeExecution
  <2>3. FlowInit => Lifecycle!Init
    BY DEF FlowInit, Init, Lifecycle!Init
  <2>4. QED
    BY <2>1, <2>2, <2>3 DEF StageInv
<1>2. Inv /\ [FlowNext]_<<vars, serial>> => Inv' /\ Step
  <2> SUFFICES ASSUME Inv, [FlowNext]_<<vars, serial>> PROVE Inv' /\ Step
    OBVIOUS
  <2>1. [Next]_vars /\ serial' = serial
    BY DEF FlowNext
  <2>2. FlowInv'
    BY FlowInvStep
  <2>3. CASE serial
    <3>1. SerialInv /\ StageInv /\ TypeOK /\ ApprovalInv
      BY <2>3 DEF FlowInv
    <3>2. OneAtATime'
      BY <2>1, <2>2, <2>3 DEF FlowInv, SerialInv
    <3>3. StageInv' /\ Lives
      BY <2>1, <3>1, <3>2, StageStep
    <3>4. Lives => Step
      BY <2>1, <2>3 DEF Lives, Life!Next, Life!Submit, Life!Approve, Life!Reject, Life!Cancel, Life!Confirm,
           Life!RecordExternal, Life!Dispatch, Life!Start, Life!Run, Life!Finish, Life!Move, Life!Open,
           Life!Waiting, Life!Result,
           Lifecycle!Next, Lifecycle!Submit, Lifecycle!Approve, Lifecycle!Reject, Lifecycle!Cancel,
           Lifecycle!Confirm, Lifecycle!RecordExternal, Lifecycle!Dispatch, Lifecycle!Start, Lifecycle!Run,
           Lifecycle!Finish, Lifecycle!Move, Lifecycle!Open, Lifecycle!Waiting, Lifecycle!Result
    <3>5. QED
      BY <2>2, <3>3, <3>4
  <2>4. CASE ~serial
    BY <2>1, <2>2, <2>4
  <2>5. QED
    BY <2>3, <2>4
<1> HIDE DEF Inv
<1>3. QED
  BY <1>1, <1>2, PTL DEF FlowSpec, ImplementsLifecycle, Lifecycle!Spec
====

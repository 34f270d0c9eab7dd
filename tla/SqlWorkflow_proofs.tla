------------------------ MODULE SqlWorkflow_proofs ------------------------
(***************************************************************************)
(* For every chain length, every set of users, requests and workers and    *)
(* every bound: the ticket is well-typed, its SQL runs only after the      *)
(* whole chain was approved, the chain was approved in order, and short of *)
(* a fault no waiting or running ticket is left without a process.         *)
(***************************************************************************)
EXTENDS SqlWorkflowProps, FiniteSetTheorems, TLAPS

USE ChainAssumption, UserAssumption, TimeAssumption, BoundAssumption

\* An idle handler is a request.
LEMMA IdleIsRequest == Idle \in Request
BY DEF Idle, Request, Node, AuditStatus

\* Setting a handler to a request leaves a family of requests.
LEMMA BecomeType ==
    ASSUME handler \in [Handlers -> Request], NEW h \in Handlers,
           NEW r \in Request, Become(h, r)
    PROVE  handler' \in [Handlers -> Request]
BY DEF Become

\* Answering a request, likewise.
LEMMA AnswerType ==
    ASSUME handler \in [Handlers -> Request], NEW h \in Handlers, Answer(h)
    PROVE  handler' \in [Handlers -> Request]
BY IdleIsRequest, BecomeType DEF Answer

\* A column written by a commit stays in its enumeration.
LEMMA WrittenType ==
    ASSUME NEW S, NEW column \in S, NEW read, NEW new \in S
    PROVE  Written(column, read, new) \in S
BY DEF Written

----------------------------------------------------------------------------
(***************************************************************************)
(* TypeOK is inductive on its own.                                         *)
(***************************************************************************)
\* The tables of a fresh ticket are well-typed.
LEMMA TypeInit == Init => TypeOK
BY IdleIsRequest DEF Init, TypeOK, AuditStatus

\* Every handler, task and crash leaves columns and copies well-typed.
LEMMA TypeStep == TypeOK /\ [Next]_vars => TypeOK'
<1> SUFFICES ASSUME TypeOK, [Next]_vars PROVE TypeOK'
  OBVIOUS
<1> USE DEF TypeOK, row, ghosts
<1>1. CASE Submit
  BY <1>1 DEF Submit, WorkflowStatus, AuditStatus
<1>2. ASSUME NEW h \in Handlers, StartRequest(h) PROVE TypeOK'
  <2>1. ASSUME NEW op \in AuditOps, ReadTicketToAudit(h, op) PROVE TypeOK'
    <3> DEFINE r == [Idle EXCEPT !.pc = "audit", !.op = op, !.status = status]
    <3>1. r \in Request
      BY IdleIsRequest DEF Request, Idle
    <3>2. Become(h, r)
      BY <2>1 DEF ReadTicketToAudit
    <3> HIDE DEF r
    <3>3. handler' \in [Handlers -> Request]
      BY <3>1, <3>2, BecomeType
    <3>4. QED
      BY <3>3, <2>1 DEF ReadTicketToAudit
  <2>2. ASSUME NEW op \in ExecuteOps, NEW u \in Users, ReadTicketToExecute(h, op, u)
        PROVE  TypeOK'
    <3> DEFINE r == [Idle EXCEPT !.pc = "commit", !.op = op, !.status = status,
                        !.scheduledAt = scheduledAt]
    <3>1. r \in Request
      BY IdleIsRequest DEF Request, Idle
    <3>2. Become(h, r)
      BY <2>2 DEF ReadTicketToExecute
    <3> HIDE DEF r
    <3>3. handler' \in [Handlers -> Request]
      BY <3>1, <3>2, BecomeType
    <3>4. QED
      BY <3>3, <2>2 DEF ReadTicketToExecute
  <2>3. QED
    BY <1>2, <2>1, <2>2 DEF StartRequest
<1>3. ASSUME NEW h \in Handlers, ContinueRequest(h) PROVE TypeOK'
  <2>req. handler[h] \in Request
    OBVIOUS
  <2>1. ASSUME NEW u \in Users, ReadChainToPass(h, u) PROVE TypeOK'
    <3> DEFINE r == [handler[h] EXCEPT !.pc = "commit", !.user = u,
                        !.auditStatus = auditStatus, !.nodes = nodes]
    <3>1. r \in Request
      BY <2>req DEF Request
    <3>2. Become(h, r)
      BY <2>1 DEF ReadChainToPass
    <3> HIDE DEF r
    <3>3. handler' \in [Handlers -> Request]
      BY <3>1, <3>2, BecomeType
    <3>4. QED
      BY <3>3, <2>1 DEF ReadChainToPass
  <2>2. ASSUME NEW u \in Users, ReadChainToReject(h, u) PROVE TypeOK'
    <3> DEFINE r == [handler[h] EXCEPT !.pc = "commit", !.auditStatus = auditStatus]
    <3>1. r \in Request
      BY <2>req DEF Request
    <3>2. Become(h, r)
      BY <2>2 DEF ReadChainToReject
    <3> HIDE DEF r
    <3>3. handler' \in [Handlers -> Request]
      BY <3>1, <3>2, BecomeType
    <3>4. QED
      BY <3>3, <2>2 DEF ReadChainToReject
  <2>3. ASSUME NEW u \in Users, ReadChainToCancel(h, u) PROVE TypeOK'
    <3> DEFINE r == [handler[h] EXCEPT !.pc = "commit",
                        !.auditStatus = auditStatus, !.nodes = nodes]
    <3>1. r \in Request
      BY <2>req DEF Request
    <3>2. Become(h, r)
      BY <2>3 DEF ReadChainToCancel
    <3> HIDE DEF r
    <3>3. handler' \in [Handlers -> Request]
      BY <3>1, <3>2, BecomeType
    <3>4. QED
      BY <3>3, <2>3 DEF ReadChainToCancel
  <2>4. CASE RefuseAudit(h)
    BY <2>4, AnswerType DEF RefuseAudit
  <2>5. CASE CommitPass(h)
    <3>1. PICK n \in Node :
             LET chain == [handler[h].nodes EXCEPT ![n] = "PASSED"]
             IN  /\ nodes' = chain
                 /\ auditStatus' = Written(auditStatus, handler[h].auditStatus,
                                           AuditVerdict(Complete(chain)))
                 /\ status' = Written(status, handler[h].status,
                                      TicketVerdict(Complete(chain)))
                 /\ signed' = signed \cup {<<n, handler[h].user>>}
      BY <2>5 DEF CommitPass
    <3> DEFINE chain == [handler[h].nodes EXCEPT ![n] = "PASSED"]
    <3>2. chain \in [Node -> AuditStatus] /\ handler[h].user \in Users
      BY <2>req DEF Request, AuditStatus
    <3>3. /\ AuditVerdict(Complete(chain)) \in AuditStatus
          /\ TicketVerdict(Complete(chain)) \in WorkflowStatus \cup {"ABSENT"}
      BY DEF AuditVerdict, TicketVerdict, AuditStatus, WorkflowStatus
    <3>4. auditStatus' \in AuditStatus
      BY <3>1, <3>3 DEF Written
    <3>5. status' \in WorkflowStatus \cup {"ABSENT"}
      BY <3>1, <3>3 DEF Written
    <3>6. nodes' \in [Node -> AuditStatus] /\ signed' \in SUBSET (Node \X Users)
      BY <3>1, <3>2
    <3>7. QED
      BY <2>5, <3>4, <3>5, <3>6, AnswerType DEF CommitPass
  <2>6. CASE CommitReject(h)
    BY <2>6, AnswerType DEF CommitReject, Written, AuditStatus, WorkflowStatus
  <2>7. CASE CommitCancel(h)
    <3>1. CancelPending(handler[h].nodes) \in [Node -> AuditStatus]
      BY <2>req DEF CancelPending, Request, AuditStatus
    <3>2. QED
      BY <2>7, <3>1, AnswerType DEF CommitCancel, Written, AuditStatus, WorkflowStatus
  <2>8. CASE CommitImmediate(h)
    <3>1. [Idle EXCEPT !.pc = "publish", !.op = handler[h].op] \in Request
      BY <2>req, IdleIsRequest DEF Request, Idle
    <3>2. handler' \in [Handlers -> Request]
      BY <2>8, <3>1, BecomeType DEF CommitImmediate
    <3>3. QED
      BY <2>8, <3>2 DEF CommitImmediate, Written, WorkflowStatus
  <2>9. CASE CommitScheduled(h)
    BY <2>9, AnswerType DEF CommitScheduled, Written, WorkflowStatus
  <2>10. ASSUME NEW result \in Result, CommitExternal(h, result) PROVE TypeOK'
    BY <2>10, AnswerType DEF CommitExternal, Written, WorkflowStatus, Result
  <2>11. ASSUME NEW result \in Result, SyncFinish(h, result) PROVE TypeOK'
    BY <2>11, AnswerType DEF SyncFinish, WorkflowStatus, Result
  <2>12. CASE Publish(h)
    BY <2>12, AnswerType DEF Publish
  <2>13. CASE PublishFails(h)
    <3>1. [handler[h] EXCEPT !.pc = "sync"] \in Request
      BY <2>req DEF Request
    <3>2. handler' \in [Handlers -> Request]
      BY <2>13, <3>1, BecomeType DEF PublishFails
    <3>3. QED
      BY <2>13, <3>2 DEF PublishFails, Fault
  <2>14. CASE SyncStart(h)
    <3>1. [handler[h] EXCEPT !.pc = "run"] \in Request
      BY <2>req DEF Request
    <3>2. handler' \in [Handlers -> Request]
      BY <2>14, <3>1, BecomeType, AnswerType DEF SyncStart
    <3>3. QED
      BY <2>14, <3>2 DEF SyncStart, WorkflowStatus
  <2>15. CASE SyncRun(h)
    <3>1. [handler[h] EXCEPT !.pc = "ran"] \in Request
      BY <2>req DEF Request
    <3>2. handler' \in [Handlers -> Request]
      BY <2>15, <3>1, BecomeType DEF SyncRun
    <3>3. QED
      BY <2>15, <3>2 DEF SyncRun
  <2>16. QED
    BY <1>3, <2>1, <2>2, <2>3, <2>4, <2>5, <2>6, <2>7, <2>8, <2>9, <2>10, <2>11,
       <2>12, <2>13, <2>14, <2>15 DEF ContinueRequest
<1>4. ASSUME NEW w \in Workers, WorkerStep(w) PROVE TypeOK'
  <2>1. CASE LoadTicket(w)
    BY <2>1 DEF LoadTicket
  <2>2. CASE StartTicket(w)
    BY <2>2 DEF StartTicket, WorkflowStatus
  <2>3. CASE RunTicket(w)
    BY <2>3 DEF RunTicket
  <2>4. ASSUME NEW result \in Result, FinishTicket(w, result) PROVE TypeOK'
    BY <2>4 DEF FinishTicket, Result, WorkflowStatus
  <2>5. QED
    BY <1>4, <2>1, <2>2, <2>3, <2>4 DEF WorkerStep
<1>5. CASE DispatcherStep
  BY <1>5 DEF DispatcherStep, SelectDue, DispatchDue, CommitDispatch, WorkflowStatus
<1>6. CASE Crash
  <2>1. ASSUME NEW h \in Handlers, WebCrash(h) PROVE TypeOK'
    BY <2>1, AnswerType DEF WebCrash, Fault
  <2>2. ASSUME NEW w \in Workers, WorkerCrash(w) PROVE TypeOK'
    BY <2>2 DEF WorkerCrash, Fault
  <2>3. CASE DispatcherCrash
    BY <2>3 DEF DispatcherCrash, Fault
  <2>4. QED
    BY <1>6, <2>1, <2>2, <2>3 DEF Crash
<1>7. CASE UNCHANGED vars
  BY <1>7 DEF vars
<1>8. QED
  BY <1>1, <1>2, <1>3, <1>4, <1>5, <1>6, <1>7 DEF Next

\* The ticket, the copies requests hold of it and every counter keep their types.
THEOREM TypeCorrect == Spec => []TypeOK
BY TypeInit, TypeStep, PTL DEF Spec
----------------------------------------------------------------------------
(***************************************************************************)
(* Signatures are never withdrawn, so what they back stays backed.         *)
(***************************************************************************)
\* More signatures back at least the nodes that fewer did.
LEMMA ApprovalGrows ==
    ASSUME NEW sg, NEW more, sg \subseteq more
    PROVE  /\ \A n \in Node : SignedBy(n, sg) => SignedBy(n, more)
           /\ FullyApproved(sg) => FullyApproved(more)
BY DEF SignedBy, FullyApproved

\* A chain backed by some signatures is backed by more.
LEMMA ChainGrows ==
    ASSUME NEW sg, NEW more, sg \subseteq more, NEW chain, ChainOK(chain, sg)
    PROVE  ChainOK(chain, more)
BY ApprovalGrows DEF ChainOK

\* So is what a request holds.
LEMMA RequestGrows ==
    ASSUME NEW sg, NEW more, sg \subseteq more, NEW r, RequestBacked(r, sg)
    PROVE  RequestBacked(r, more)
BY ApprovalGrows, ChainGrows DEF RequestBacked

\* A request that holds nothing but what an idle handler holds is backed.
LEMMA IdleIsBacked == ASSUME NEW sg PROVE RequestBacked(Idle, sg)
BY DEF RequestBacked, Idle

\* One handler becomes a backed request, the others keep what they have.
LEMMA BecomeBacked ==
    ASSUME TypeOK, ApprovalInv, signed \subseteq signed', NEW h \in Handlers,
           NEW r, Become(h, r), RequestBacked(r, signed')
    PROVE  \A g \in Handlers : RequestBacked(handler'[g], signed')
<1> SUFFICES ASSUME NEW g \in Handlers PROVE RequestBacked(handler'[g], signed')
  OBVIOUS
<1>1. handler'[g] = IF g = h THEN r ELSE handler[g]
  BY DEF Become, TypeOK
<1>2. RequestBacked(handler[g], signed')
  BY RequestGrows DEF ApprovalInv
<1>3. QED
  BY <1>1, <1>2

\* A request that is answered leaves every handler backed.
LEMMA AnswerBacked ==
    ASSUME TypeOK, ApprovalInv, signed \subseteq signed', NEW h \in Handlers, Answer(h)
    PROVE  \A g \in Handlers : RequestBacked(handler'[g], signed')
BY BecomeBacked, IdleIsBacked DEF Answer

----------------------------------------------------------------------------
(***************************************************************************)
(* The approval of one node keeps a chain in shape, and completes it only  *)
(* when every node is signed.                                              *)
(***************************************************************************)
LEMMA PassNode ==
    ASSUME NEW chain \in [Node -> AuditStatus], NEW sg, ChainOK(chain, sg),
           NEW n \in Node, Current(n, chain), NEW u \in Users, CanApprove(u, n),
           NEW chain2, chain2 = [chain EXCEPT ![n] = "PASSED"],
           NEW sg2, sg2 = sg \cup {<<n, u>>}
    PROVE  /\ ChainOK(chain2, sg2)
           /\ Complete(chain2) => FullyApproved(sg2)
           /\ \A m \in 1..(n - 1) : SignedBy(m, sg2)
<1>1. SignedBy(n, sg2)
  BY DEF SignedBy
<1>2. \A m \in Node : SignedBy(m, sg) => SignedBy(m, sg2)
  BY ApprovalGrows
<1>3. \A m \in Node : chain2[m] = IF m = n THEN "PASSED" ELSE chain[m]
  OBVIOUS
<1>4. \A m \in Node : chain[m] \in {"PENDING", "PASSED"}
  BY DEF ChainOK, Current, AuditStatus
<1>5. \A m \in 1..(n - 1) : m \in Node /\ chain[m] = "PASSED"
  BY <1>4 DEF Current, Node
<1>6. ChainOK(chain2, sg2)
  <2>1. \A m \in Node : chain2[m] \in {"PENDING", "PASSED"}
    BY <1>3, <1>4
  <2>2. \A m \in Node : chain2[m] = "PASSED" => SignedBy(m, sg2)
    BY <1>1, <1>2, <1>3 DEF ChainOK
  <2>3. ASSUME NEW l \in Node, NEW m \in Node, l < m, chain2[m] = "PASSED"
        PROVE  chain2[l] = "PASSED"
    <3>1. CASE m = n
      BY <1>3, <1>5, <2>3, <3>1 DEF Node
    <3>2. CASE m # n
      BY <1>3, <2>3, <3>2 DEF ChainOK
    <3>3. QED
      BY <3>1, <3>2
  <2>4. QED
    BY <2>1, <2>2, <2>3 DEF ChainOK
<1>7. Complete(chain2) => FullyApproved(sg2)
  BY <1>3, <1>4, <1>6 DEF Complete, ChainOK, FullyApproved
<1>8. \A m \in 1..(n - 1) : SignedBy(m, sg2)
  BY <1>2, <1>5 DEF ChainOK
<1>9. QED
  BY <1>6, <1>7, <1>8

\* A chain has one current node.
LEMMA CurrentUnique ==
    ASSUME NEW chain, NEW m \in Node, NEW n \in Node, Current(m, chain), Current(n, chain)
    PROVE  m = n
BY DEF Current, Node

----------------------------------------------------------------------------
(***************************************************************************)
(* ApprovalInv is inductive relative to TypeOK.                            *)
(***************************************************************************)
\* Nothing is signed and nothing stands past the approval.
LEMMA ApprovalInit == Init => ApprovalInv
BY IdleIsBacked DEF Init, ApprovalInv, SignedInOrder, SignedBy, ChainOK, ApprovedStatus, Result

\* No step of a request, a worker, the dispatcher or a crash breaks it.
LEMMA ApprovalStep == TypeOK /\ ApprovalInv /\ [Next]_vars => ApprovalInv'
<1> SUFFICES ASSUME TypeOK, ApprovalInv, [Next]_vars PROVE ApprovalInv'
  OBVIOUS
<1> USE DEF row, ghosts
<1> DEFINE Full == FullyApproved(signed)
           Backed == \A h \in Handlers : RequestBacked(handler[h], signed)
           Onward == /\ status \in ApprovedStatus => Full
                     /\ queue > 0 \/ dispatcher # "idle" \/ runs > 0 => Full
                     /\ \A w \in Workers : worker[w] # "idle" => Full
\* Most steps leave the chain and the signatures alone.
<1>frame. ASSUME UNCHANGED <<nodes, signed>>, Backed', Onward' PROVE ApprovalInv'
  BY <1>frame DEF ApprovalInv, SignedInOrder
<1>1. CASE Submit
  <2>1. /\ UNCHANGED <<handler, signed, queue, dispatcher, runs, worker>>
        /\ status' = "PENDING_REVIEW"
        /\ nodes' = [n \in Node |-> "PENDING"]
    BY <1>1 DEF Submit
  <2>2. ChainOK(nodes', signed')
    BY <2>1 DEF ChainOK
  <2>3. QED
    BY <2>1, <2>2 DEF ApprovalInv, SignedInOrder, ApprovedStatus, Result
<1>2. ASSUME NEW h \in Handlers, StartRequest(h) PROVE ApprovalInv'
  <2>1. ASSUME NEW op \in AuditOps, ReadTicketToAudit(h, op) PROVE ApprovalInv'
    <3> DEFINE r == [Idle EXCEPT !.pc = "audit", !.op = op, !.status = status]
    <3>1. RequestBacked(r, signed')
      BY DEF RequestBacked, Idle
    <3>2. Become(h, r) /\ UNCHANGED <<row, queue, worker, dispatcher, ghosts>>
      BY <2>1 DEF ReadTicketToAudit
    <3> HIDE DEF r
    <3>3. Backed'
      BY <3>1, <3>2, BecomeBacked
    <3>4. QED
      BY <3>2, <3>3, <1>frame DEF ApprovalInv
  <2>2. ASSUME NEW op \in ExecuteOps, NEW u \in Users, ReadTicketToExecute(h, op, u)
        PROVE  ApprovalInv'
    <3> DEFINE r == [Idle EXCEPT !.pc = "commit", !.op = op, !.status = status,
                        !.scheduledAt = scheduledAt]
    <3>1. Full
      BY <2>2 DEF ReadTicketToExecute, ApprovalInv, ApprovedStatus, Confirmable
    <3>2. Become(h, r) /\ UNCHANGED <<row, queue, worker, dispatcher, ghosts>>
      BY <2>2 DEF ReadTicketToExecute
    <3>3. r.op = op
      BY DEF Idle
    <3>4. RequestBacked(r, signed')
      BY <3>1, <3>2, <3>3 DEF RequestBacked, Idle, ExecuteOps
    <3> HIDE DEF r
    <3>5. Backed'
      BY <3>2, <3>4, BecomeBacked
    <3>6. QED
      BY <3>2, <3>5, <1>frame DEF ApprovalInv
  <2>3. QED
    BY <1>2, <2>1, <2>2 DEF StartRequest
<1>3. ASSUME NEW h \in Handlers, ContinueRequest(h) PROVE ApprovalInv'
  <2>req. handler[h] \in Request /\ RequestBacked(handler[h], signed)
    BY DEF TypeOK, ApprovalInv
  <2>1. ASSUME NEW u \in Users, ReadChainToPass(h, u) PROVE ApprovalInv'
    <3> DEFINE r == [handler[h] EXCEPT !.pc = "commit", !.user = u,
                        !.auditStatus = auditStatus, !.nodes = nodes]
    <3>1. r.nodes = nodes /\ r.user = u /\ r.op = "pass" /\ r.pc = "commit"
      BY <2>1, <2>req DEF ReadChainToPass, Request
    <3>2. /\ Become(h, r) /\ UNCHANGED <<row, queue, worker, dispatcher, ghosts>>
          /\ MayPass(u, nodes)
      BY <2>1 DEF ReadChainToPass
    <3> HIDE DEF r
    <3>3. RequestBacked(r, signed')
      BY <3>1, <3>2 DEF RequestBacked, ExecuteOps, ApprovalInv
    <3>4. Backed'
      BY <3>2, <3>3, BecomeBacked
    <3>5. QED
      BY <3>2, <3>4, <1>frame DEF ApprovalInv
  <2>2. ASSUME NEW u \in Users, ReadChainToReject(h, u) PROVE ApprovalInv'
    <3> DEFINE r == [handler[h] EXCEPT !.pc = "commit", !.auditStatus = auditStatus]
    <3>1. r.op = "reject" /\ r.pc = "commit"
      BY <2>2, <2>req DEF ReadChainToReject, Request
    <3>2. Become(h, r) /\ UNCHANGED <<row, queue, worker, dispatcher, ghosts>>
      BY <2>2 DEF ReadChainToReject
    <3> HIDE DEF r
    <3>3. RequestBacked(r, signed')
      BY <3>1 DEF RequestBacked, ExecuteOps
    <3>4. Backed'
      BY <3>2, <3>3, BecomeBacked
    <3>5. QED
      BY <3>2, <3>4, <1>frame DEF ApprovalInv
  <2>3. ASSUME NEW u \in Users, ReadChainToCancel(h, u) PROVE ApprovalInv'
    <3> DEFINE r == [handler[h] EXCEPT !.pc = "commit",
                        !.auditStatus = auditStatus, !.nodes = nodes]
    <3>1. r.op = "cancel" /\ r.pc = "commit" /\ r.nodes = nodes
      BY <2>3, <2>req DEF ReadChainToCancel, Request
    <3>2. /\ Become(h, r) /\ UNCHANGED <<row, queue, worker, dispatcher, ghosts>>
          /\ \A n \in Node : nodes[n] = "PENDING"
      BY <2>3 DEF ReadChainToCancel, MayCancel
    <3> HIDE DEF r
    <3>3. RequestBacked(r, signed')
      BY <3>1, <3>2 DEF RequestBacked, ExecuteOps
    <3>4. Backed'
      BY <3>2, <3>3, BecomeBacked
    <3>5. QED
      BY <3>2, <3>4, <1>frame DEF ApprovalInv
  <2>4. CASE RefuseAudit(h)
    <3>1. Backed'
      BY <2>4, AnswerBacked DEF RefuseAudit
    <3>2. QED
      BY <2>4, <3>1, <1>frame DEF RefuseAudit, ApprovalInv
  <2>5. CASE CommitPass(h)
    <3> DEFINE r == handler[h]
    <3>1. PICK n \in Node :
             /\ Current(n, r.nodes)
             /\ nodes' = [r.nodes EXCEPT ![n] = "PASSED"]
             /\ status' = Written(status, r.status, TicketVerdict(Complete(nodes')))
             /\ signed' = signed \cup {<<n, r.user>>}
      BY <2>5 DEF CommitPass
    <3>2. /\ ChainOK(r.nodes, signed) /\ MayPass(r.user, r.nodes)
          /\ r.nodes \in [Node -> AuditStatus] /\ r.user \in Users
      BY <2>5, <2>req DEF CommitPass, RequestBacked, Request
    <3>3. CanApprove(r.user, n)
      BY <3>1, <3>2, CurrentUnique DEF MayPass
    <3>4. /\ ChainOK(nodes', signed')
          /\ Complete(nodes') => FullyApproved(signed')
          /\ \A m \in 1..(n - 1) : SignedBy(m, signed')
      BY <3>1, <3>2, <3>3, PassNode
    <3>5. Backed'
      BY <2>5, <3>1, AnswerBacked DEF CommitPass
    <3>6. SignedInOrder'
      <4> SUFFICES ASSUME NEW k \in Node, SignedBy(k, signed'), NEW m \in 1..(k - 1)
                   PROVE  SignedBy(m, signed')
        BY DEF SignedInOrder
      <4>1. CASE k = n
        BY <3>4, <4>1
      <4>2. CASE k # n
        <5>1. SignedBy(k, signed)
          BY <3>1, <4>2 DEF SignedBy
        <5>2. SignedBy(m, signed) /\ m \in Node
          BY <5>1 DEF ApprovalInv, SignedInOrder, Node
        <5>3. QED
          BY <3>1, <5>2, ApprovalGrows
      <4>3. QED
        BY <4>1, <4>2
    <3>7. Full => Full'
      BY <3>1, ApprovalGrows
    <3>8. status' \in ApprovedStatus => Full'
      <4>1. CASE status' = status
        BY <3>7, <4>1 DEF ApprovalInv
      <4>2. CASE status' # status
        BY <3>1, <3>4, <4>2 DEF Written, TicketVerdict, ApprovedStatus, Result
      <4>3. QED
        BY <4>1, <4>2
    <3>9. QED
      BY <2>5, <3>4, <3>5, <3>6, <3>7, <3>8 DEF CommitPass, ApprovalInv
  <2>6. CASE CommitReject(h)
    <3>1. Backed'
      BY <2>6, AnswerBacked DEF CommitReject
    <3>2. status' \in ApprovedStatus => Full
      BY <2>6 DEF CommitReject, Written, ApprovedStatus, Result, ApprovalInv
    <3>3. QED
      BY <2>6, <3>1, <3>2, <1>frame DEF CommitReject, ApprovalInv
  <2>7. CASE CommitCancel(h)
    <3>1. Backed'
      BY <2>7, AnswerBacked DEF CommitCancel
    <3>2. status' \in ApprovedStatus => Full
      BY <2>7 DEF CommitCancel, Written, ApprovedStatus, Result, ApprovalInv
    <3>3. \A n \in Node : nodes'[n] = "CANCELED"
      BY <2>7, <2>req DEF CommitCancel, CancelPending, RequestBacked
    <3>4. ChainOK(nodes', signed')
      BY <3>3 DEF ChainOK
    <3>5. QED
      BY <2>7, <3>1, <3>2, <3>4 DEF CommitCancel, ApprovalInv, SignedInOrder
  <2>8. CASE CommitImmediate(h)
    <3> DEFINE r == [Idle EXCEPT !.pc = "publish", !.op = handler[h].op]
    <3>1. Full
      BY <2>8, <2>req DEF CommitImmediate, RequestBacked, ExecuteOps
    <3>2. Become(h, r) /\ UNCHANGED signed
      BY <2>8 DEF CommitImmediate
    <3>3. RequestBacked(r, signed')
      BY <3>1, <3>2 DEF RequestBacked, Idle
    <3> HIDE DEF r
    <3>4. Backed'
      BY <3>2, <3>3, BecomeBacked
    <3>5. QED
      BY <2>8, <3>1, <3>4, <1>frame DEF CommitImmediate
  <2>9. CASE CommitScheduled(h)
    <3>1. Backed'
      BY <2>9, AnswerBacked DEF CommitScheduled
    <3>2. Full
      BY <2>9, <2>req DEF CommitScheduled, RequestBacked, ExecuteOps
    <3>3. QED
      BY <2>9, <3>1, <3>2, <1>frame DEF CommitScheduled
  <2>10. ASSUME NEW result \in Result, CommitExternal(h, result) PROVE ApprovalInv'
    <3>1. Backed'
      BY <2>10, AnswerBacked DEF CommitExternal
    <3>2. Full
      BY <2>10, <2>req DEF CommitExternal, RequestBacked, ExecuteOps
    <3>3. QED
      BY <2>10, <3>1, <3>2, <1>frame DEF CommitExternal
  <2>11. ASSUME NEW result \in Result, SyncFinish(h, result) PROVE ApprovalInv'
    <3>1. Backed'
      BY <2>11, AnswerBacked DEF SyncFinish
    <3>2. Full
      BY <2>11, <2>req DEF SyncFinish, RequestBacked
    <3>3. QED
      BY <2>11, <3>1, <3>2, <1>frame DEF SyncFinish
  <2>12. CASE Publish(h)
    <3>1. Backed'
      BY <2>12, AnswerBacked DEF Publish
    <3>2. Full
      BY <2>12, <2>req DEF Publish, RequestBacked
    <3>3. QED
      BY <2>12, <3>1, <3>2, <1>frame DEF Publish
  <2>13. ASSUME NEW next \in {"sync", "run", "ran"},
                handler[h].pc \in {"publish", "sync", "run", "ran"}, UNCHANGED signed,
                Become(h, [handler[h] EXCEPT !.pc = next])
         PROVE  Full /\ Backed'
    <3> DEFINE r == [handler[h] EXCEPT !.pc = next]
    <3>1. Full
      BY <2>13, <2>req DEF RequestBacked
    <3>2. RequestBacked(r, signed')
      BY <2>13, <2>req, <3>1 DEF RequestBacked, Request
    <3> HIDE DEF r
    <3>3. Become(h, r)
      BY <2>13 DEF r
    <3>4. QED
      BY <2>13, <3>1, <3>2, <3>3, BecomeBacked
  <2>14. CASE PublishFails(h)
    <3>1. Full /\ Backed'
      BY <2>13, <2>14 DEF PublishFails
    <3>2. QED
      BY <2>14, <3>1, <1>frame DEF PublishFails
  <2>15. CASE SyncStart(h)
    <3>1. Full /\ Backed'
      BY <2>13, <2>15, <2>req, AnswerBacked DEF SyncStart, RequestBacked
    <3>2. QED
      BY <2>15, <3>1, <1>frame DEF SyncStart
  <2>16. CASE SyncRun(h)
    <3>1. Full /\ Backed'
      BY <2>13, <2>16 DEF SyncRun
    <3>2. QED
      BY <2>16, <3>1, <1>frame DEF SyncRun
  <2>17. QED
    BY <1>3, <2>1, <2>2, <2>3, <2>4, <2>5, <2>6, <2>7, <2>8, <2>9, <2>10, <2>11,
       <2>12, <2>14, <2>15, <2>16 DEF ContinueRequest
<1>backed. ASSUME UNCHANGED <<handler, signed>> PROVE Backed'
  BY <1>backed DEF ApprovalInv
<1>4. ASSUME NEW w \in Workers, WorkerStep(w) PROVE ApprovalInv'
  <2>1. CASE LoadTicket(w)
    <3>1. Full
      BY <2>1 DEF LoadTicket, ApprovalInv
    <3>2. QED
      BY <2>1, <3>1, <1>backed, <1>frame DEF LoadTicket
  <2>2. ASSUME worker[w] # "idle", UNCHANGED <<handler, nodes, signed>> PROVE ApprovalInv'
    <3>1. Full
      BY <2>2 DEF ApprovalInv
    <3>2. QED
      BY <2>2, <3>1, <1>backed, <1>frame
  <2>3. QED
    BY <1>4, <2>1, <2>2 DEF WorkerStep, StartTicket, RunTicket, FinishTicket
<1>5. CASE DispatcherStep
  <2>1. UNCHANGED <<handler, nodes, signed>>
    BY <1>5 DEF DispatcherStep, SelectDue, DispatchDue, CommitDispatch
  <2>2. Full
    BY <1>5 DEF DispatcherStep, SelectDue, DispatchDue, CommitDispatch, Due,
                ApprovedStatus, ApprovalInv
  <2>3. QED
    BY <2>1, <2>2, <1>backed, <1>frame
<1>6. CASE Crash
  <2>1. ASSUME NEW h \in Handlers, WebCrash(h) PROVE ApprovalInv'
    <3>1. Backed'
      BY <2>1, AnswerBacked DEF WebCrash
    <3>2. QED
      BY <2>1, <3>1, <1>frame DEF WebCrash, ApprovalInv
  <2>2. ASSUME NEW w \in Workers, WorkerCrash(w) PROVE ApprovalInv'
    BY <2>2, <1>backed, <1>frame DEF WorkerCrash, ApprovalInv, TypeOK
  <2>3. CASE DispatcherCrash
    BY <2>3, <1>backed, <1>frame DEF DispatcherCrash, ApprovalInv
  <2>4. QED
    BY <1>6, <2>1, <2>2, <2>3 DEF Crash
<1>7. CASE UNCHANGED vars
  BY <1>7 DEF vars, ApprovalInv, SignedInOrder
<1>8. QED
  BY <1>1, <1>2, <1>3, <1>4, <1>5, <1>6, <1>7 DEF Next

(***************************************************************************)
(* Row, copies, queue and workers stay backed by the signatures, for every *)
(* chain and any number of overlapping requests (audit.py 134-286,         *)
(* workflow.py 534-760, execute_sql.py 43-180).                            *)
(***************************************************************************)
THEOREM ApprovalCorrect == Spec => []ApprovalInv
BY TypeCorrect, ApprovalInit, ApprovalStep, PTL DEF Spec

(***************************************************************************)
(* However requests overlap, whatever crashes: the SQL reaches the target  *)
(* database only after every node was approved by somebody it admits.      *)
(***************************************************************************)
THEOREM ApprovalSound == Spec => []RunsOnlyWhenFullyApproved
<1>1. ApprovalInv => RunsOnlyWhenFullyApproved
  BY DEF ApprovalInv, RunsOnlyWhenFullyApproved
<1>2. QED
  BY <1>1, ApprovalCorrect, PTL

(***************************************************************************)
(* No lost update of the chain lets a node be approved ahead of its turn.  *)
(***************************************************************************)
THEOREM ApprovalInOrder == Spec => []SignedInOrder
<1>1. ApprovalInv => SignedInOrder
  BY DEF ApprovalInv
<1>2. QED
  BY <1>1, ApprovalCorrect, PTL

\* The strengthening as one invariant, as TLC checks it.
THEOREM InductiveCorrect == Spec => []Inductive
BY TypeCorrect, ApprovalCorrect, PTL DEF Inductive

----------------------------------------------------------------------------
(***************************************************************************)
(* Nobody is stranded.  While the dispatcher holds the row no other        *)
(* statement changes the status; once it sent the message, the message is  *)
(* in the queue or with a worker that waits for the row.                   *)
(***************************************************************************)
StrandInv ==
    /\ NeverStranded
    /\ dispatcher # "idle" => status = "TIMING_TASK"
    /\ faults = 0 /\ dispatcher = "dispatched" => queue > 0 \/ WorkerAt({"loaded"})

\* A request that moves on, but not out of pcs, empties no group of handlers.
LEMMA HandlerStays ==
    ASSUME TypeOK, NEW h \in Handlers, NEW r, Become(h, r), NEW pcs,
           handler[h].pc \in pcs => r.pc \in pcs, HandlerAt(pcs)
    PROVE  HandlerAt(pcs)'
<1>1. PICK g \in Handlers : handler[g].pc \in pcs
  BY DEF HandlerAt
<1>2. handler'[g] = IF g = h THEN r ELSE handler[g]
  BY DEF Become, TypeOK
<1>3. handler'[g].pc \in pcs
  BY <1>1, <1>2
<1>4. QED
  BY <1>3 DEF HandlerAt

\* A request that arrives at a place of pcs is one of its handlers.
LEMMA HandlerArrives ==
    ASSUME TypeOK, NEW h \in Handlers, NEW r, Become(h, r), NEW pcs, r.pc \in pcs
    PROVE  HandlerAt(pcs)'
BY DEF Become, TypeOK, HandlerAt

\* Only a request before its commit, or between its reads, leaves both groups.
LEMMA Bystander ==
    ASSUME TypeOK, NEW h \in Handlers, NEW r, Become(h, r),
           handler[h].pc \in {"idle", "audit", "commit"}
    PROVE  /\ HandlerAt({"publish", "sync"}) => HandlerAt({"publish", "sync"})'
           /\ HandlerAt({"run", "ran"}) => HandlerAt({"run", "ran"})'
<1>1. /\ handler[h].pc \notin {"publish", "sync"}
      /\ handler[h].pc \notin {"run", "ran"}
  OBVIOUS
<1>2. QED
  BY <1>1, HandlerStays

\* Nothing waits yet.
LEMMA StrandInit == Init => StrandInv
BY DEF Init, StrandInv, NeverStranded

\* No step of a request strands the ticket.
LEMMA StrandRequest ==
    ASSUME TypeOK, StrandInv, NEW h \in Handlers, StartRequest(h) \/ ContinueRequest(h)
    PROVE  StrandInv'
<1> USE DEF row, ghosts
<1> DEFINE Early == handler[h].pc \in {"idle", "audit", "commit"}
\* A request that has sent nothing: the status it may write, if it writes any.
<1>early. ASSUME NEW r, Become(h, r), Early, UNCHANGED <<queue, worker, dispatcher, faults>>,
                 \/ status' = status
                 \/ dispatcher = "idle" /\ status' \notin {"QUEUING", "EXECUTING"}
          PROVE  StrandInv'
  BY <1>early, Bystander DEF StrandInv, NeverStranded, WorkerAt
<1>1. ASSUME NEW op \in AuditOps, ReadTicketToAudit(h, op) PROVE StrandInv'
  BY <1>1, <1>early DEF ReadTicketToAudit
<1>2. ASSUME NEW op \in ExecuteOps, NEW u \in Users, ReadTicketToExecute(h, op, u)
      PROVE  StrandInv'
  BY <1>2, <1>early DEF ReadTicketToExecute
<1>3. ASSUME NEW u \in Users,
             ReadChainToPass(h, u) \/ ReadChainToReject(h, u) \/ ReadChainToCancel(h, u)
      PROVE  StrandInv'
  BY <1>3, <1>early DEF ReadChainToPass, ReadChainToReject, ReadChainToCancel
<1>4. CASE RefuseAudit(h)
  BY <1>4, <1>early DEF RefuseAudit, Answer
<1>5. CASE CommitPass(h)
  <2>1. PICK verdict \in {"REVIEW_PASS", "PENDING_REVIEW"} :
           /\ RowUnlocked \/ verdict = handler[h].status
           /\ status' = Written(status, handler[h].status, verdict)
    BY <1>5 DEF CommitPass, TicketVerdict
  <2>2. \/ status' = status
        \/ dispatcher = "idle" /\ status' \notin {"QUEUING", "EXECUTING"}
    BY <2>1 DEF Written, RowUnlocked
  <2>3. /\ Become(h, Idle) /\ Early
        /\ UNCHANGED <<queue, worker, dispatcher, faults>>
    BY <1>5 DEF CommitPass, Answer
  <2>4. QED
    BY <2>2, <2>3, <1>early
<1>6. CASE CommitReject(h)
  BY <1>6, <1>early DEF CommitReject, Answer, RowUnlocked, Written
<1>7. CASE CommitCancel(h)
  BY <1>7, <1>early DEF CommitCancel, Answer, RowUnlocked, Written
<1>8. CASE CommitImmediate(h)
  <2> DEFINE r == [Idle EXCEPT !.pc = "publish", !.op = handler[h].op]
  <2>1. r.pc = "publish"
    BY DEF Idle
  <2>2. /\ Become(h, r) /\ Early /\ dispatcher' = "idle"
        /\ UNCHANGED <<queue, worker, faults>>
        /\ status' \in {status, "QUEUING"}
    BY <1>8 DEF CommitImmediate, RowUnlocked, Written
  <2> HIDE DEF r
  <2>3. HandlerAt({"publish", "sync"})'
    BY <2>1, <2>2, HandlerArrives
  <2>4. HandlerAt({"run", "ran"}) => HandlerAt({"run", "ran"})'
    BY <2>2, Bystander
  <2>5. QED
    BY <2>2, <2>3, <2>4 DEF StrandInv, NeverStranded, WorkerAt
<1>9. CASE CommitScheduled(h)
  BY <1>9, <1>early DEF CommitScheduled, Answer, RowUnlocked, Written
<1>10. ASSUME NEW result \in Result, CommitExternal(h, result) PROVE StrandInv'
  BY <1>10, <1>early DEF CommitExternal, Answer, RowUnlocked, Written, Result
<1>11. CASE Publish(h)
  <2>1. /\ queue' > 0 /\ UNCHANGED <<status, worker, dispatcher, faults>>
        /\ Become(h, Idle) /\ handler[h].pc \notin {"run", "ran"}
    BY <1>11 DEF Publish, Answer, TypeOK
  <2>2. HandlerAt({"run", "ran"}) => HandlerAt({"run", "ran"})'
    BY <2>1, HandlerStays
  <2>3. QED
    BY <2>1, <2>2 DEF StrandInv, NeverStranded, WorkerAt
<1>12. CASE PublishFails(h)
  <2> DEFINE r == [handler[h] EXCEPT !.pc = "sync"]
  <2>1. r.pc = "sync"
    BY DEF TypeOK, Request
  <2>2. /\ Become(h, r) /\ handler[h].pc = "publish"
        /\ UNCHANGED <<status, worker, dispatcher>>
        /\ queue' >= queue /\ faults' >= faults
    BY <1>12 DEF PublishFails, Fault, TypeOK
  <2> HIDE DEF r
  <2>3. HandlerAt({"publish", "sync"})'
    BY <2>1, <2>2, HandlerArrives
  <2>4. HandlerAt({"run", "ran"}) => HandlerAt({"run", "ran"})'
    BY <2>2, HandlerStays
  <2>5. faults \in Nat /\ queue \in Nat /\ queue' \in Nat /\ (faults' = 0 => faults = 0)
    BY <1>12 DEF PublishFails, Fault, TypeOK
  <2>6. QED
    BY <2>2, <2>3, <2>4, <2>5 DEF StrandInv, NeverStranded, WorkerAt
<1>13. CASE SyncStart(h)
  <2>0. /\ handler[h].pc = "sync" /\ dispatcher' = "idle"
        /\ UNCHANGED <<queue, worker, faults>>
    BY <1>13 DEF SyncStart, RowUnlocked
  <2>1. CASE status' = "EXCEPTION"
    BY <2>0, <2>1 DEF StrandInv, NeverStranded
  <2>2. CASE status' = "EXECUTING" /\ Become(h, [handler[h] EXCEPT !.pc = "run"])
    <3> DEFINE r == [handler[h] EXCEPT !.pc = "run"]
    <3>1. r.pc = "run"
      BY DEF TypeOK, Request
    <3>2. Become(h, r)
      BY <2>2
    <3> HIDE DEF r
    <3>3. HandlerAt({"run", "ran"})'
      BY <3>1, <3>2, HandlerArrives
    <3>4. QED
      BY <2>0, <2>2, <3>3 DEF StrandInv, NeverStranded
  <2>3. QED
    BY <1>13, <2>1, <2>2 DEF SyncStart
<1>14. CASE SyncRun(h)
  <2> DEFINE r == [handler[h] EXCEPT !.pc = "ran"]
  <2>1. r.pc = "ran"
    BY DEF TypeOK, Request
  <2>2. /\ Become(h, r) /\ handler[h].pc = "run"
        /\ UNCHANGED <<status, queue, worker, dispatcher, faults>>
    BY <1>14 DEF SyncRun
  <2> HIDE DEF r
  <2>3. HandlerAt({"run", "ran"})'
    BY <2>1, <2>2, HandlerArrives
  <2>4. HandlerAt({"publish", "sync"}) => HandlerAt({"publish", "sync"})'
    BY <2>2, HandlerStays
  <2>5. QED
    BY <2>2, <2>3, <2>4 DEF StrandInv, NeverStranded, WorkerAt
<1>15. ASSUME NEW result \in Result, SyncFinish(h, result) PROVE StrandInv'
  BY <1>15 DEF SyncFinish, RowUnlocked, StrandInv, NeverStranded, Result
<1>16. QED
  BY <1>1, <1>2, <1>3, <1>4, <1>5, <1>6, <1>7, <1>8, <1>9, <1>10, <1>11, <1>12,
     <1>13, <1>14, <1>15 DEF StartRequest, ContinueRequest

\* Nor does a worker: it takes the message along until it has written the status.
LEMMA StrandWorker ==
    ASSUME TypeOK, StrandInv, NEW w \in Workers, WorkerStep(w)
    PROVE  StrandInv'
<1> USE DEF row, ghosts
<1>1. CASE LoadTicket(w)
  <2>1. /\ worker[w] = "idle"
        /\ worker' = [worker EXCEPT ![w] = IF status \in Runnable THEN "loaded" ELSE "idle"]
        /\ UNCHANGED <<status, handler, dispatcher, faults>>
    BY <1>1 DEF LoadTicket
  <2>2. WorkerAt({"run", "ran"}) => WorkerAt({"run", "ran"})'
    BY <2>1 DEF WorkerAt, TypeOK
  <2>3. status \in {"QUEUING", "TIMING_TASK"} => WorkerAt({"loaded"})'
    BY <2>1 DEF WorkerAt, TypeOK, Runnable
  <2>4. QED
    BY <2>1, <2>2, <2>3 DEF StrandInv, NeverStranded, HandlerAt
<1>2. CASE StartTicket(w)
  <2>1. dispatcher' = "idle" /\ UNCHANGED <<handler, queue, faults>>
    BY <1>2 DEF StartTicket, RowUnlocked
  <2>2. \/ status' = "EXCEPTION"
        \/ status' = "EXECUTING" /\ WorkerAt({"run", "ran"})'
    BY <1>2 DEF StartTicket, WorkerAt, TypeOK
  <2>3. QED
    BY <2>1, <2>2 DEF StrandInv, NeverStranded
<1>3. CASE RunTicket(w)
  <2>1. /\ worker[w] = "run" /\ worker' = [worker EXCEPT ![w] = "ran"]
        /\ UNCHANGED <<status, handler, queue, dispatcher, faults>>
    BY <1>3 DEF RunTicket
  <2>2. WorkerAt({"loaded"}) => WorkerAt({"loaded"})'
    BY <2>1 DEF WorkerAt, TypeOK
  <2>3. WorkerAt({"run", "ran"})'
    BY <2>1 DEF WorkerAt, TypeOK
  <2>4. QED
    BY <2>1, <2>2, <2>3 DEF StrandInv, NeverStranded, HandlerAt
<1>4. ASSUME NEW result \in Result, FinishTicket(w, result) PROVE StrandInv'
  BY <1>4 DEF FinishTicket, RowUnlocked, StrandInv, NeverStranded, Result
<1>5. QED
  BY <1>1, <1>2, <1>3, <1>4 DEF WorkerStep

\* Nor do the submission and the dispatcher; a crash is a fault.
LEMMA StrandStep == TypeOK /\ StrandInv /\ [Next]_vars => StrandInv'
<1> SUFFICES ASSUME TypeOK, StrandInv, [Next]_vars PROVE StrandInv'
  OBVIOUS
<1> USE DEF row, ghosts
<1>1. CASE Submit
  BY <1>1 DEF Submit, StrandInv, NeverStranded
<1>2. ASSUME NEW h \in Handlers, StartRequest(h) \/ ContinueRequest(h) PROVE StrandInv'
  BY <1>2, StrandRequest
<1>3. ASSUME NEW w \in Workers, WorkerStep(w) PROVE StrandInv'
  BY <1>3, StrandWorker
<1>4. CASE DispatcherStep
  <2>1. CASE SelectDue
    BY <2>1 DEF SelectDue, Due, StrandInv, NeverStranded, HandlerAt, WorkerAt
  <2>2. CASE DispatchDue
    BY <2>2 DEF DispatchDue, StrandInv, NeverStranded, HandlerAt, WorkerAt, TypeOK
  <2>3. CASE CommitDispatch
    BY <2>3 DEF CommitDispatch, StrandInv, NeverStranded, HandlerAt, WorkerAt
  <2>4. QED
    BY <1>4, <2>1, <2>2, <2>3 DEF DispatcherStep
<1>5. CASE Crash
  <2>1. /\ faults' = faults + 1 /\ status' = status
        /\ dispatcher' \in {dispatcher, "idle"}
    BY <1>5 DEF Crash, WebCrash, WorkerCrash, DispatcherCrash, Fault
  <2>2. faults' # 0
    BY <2>1 DEF TypeOK
  <2>3. QED
    BY <2>1, <2>2 DEF StrandInv, NeverStranded
<1>6. CASE UNCHANGED vars
  BY <1>6 DEF vars, StrandInv, NeverStranded, HandlerAt, WorkerAt
<1>7. QED
  BY <1>1, <1>2, <1>3, <1>4, <1>5, <1>6 DEF Next

\* Short of a fault a queued ticket has its message or somebody who acts on
\* it, and an executing one its executor, however many requests, workers
\* and dispatches overlap (workflow.py 606-628, execute_sql.py 60-176).
THEOREM StrandsNobody == Spec => []NeverStranded
<1>1. Init => TypeOK /\ StrandInv
  BY TypeInit, StrandInit
<1>2. (TypeOK /\ StrandInv) /\ [Next]_vars => (TypeOK /\ StrandInv)'
  BY TypeStep, StrandStep
<1>3. TypeOK /\ StrandInv => NeverStranded
  BY DEF StrandInv
<1>4. QED
  BY <1>1, <1>2, <1>3, PTL DEF Spec

----------------------------------------------------------------------------
(***************************************************************************)
(* Executions are owed.  Whatever may still send the SQL is counted: the   *)
(* requests and workers on their way to it, the messages, and the booking  *)
(* that a scheduled ticket is until its message went out.                  *)
(***************************************************************************)
OnTheWay == {"publish", "sync", "run"}
Senders == {h \in Handlers : handler[h].pc \in OnTheWay}
Takers == {w \in Workers : worker[w] \in {"loaded", "run"}}
Sends(r) == IF r.pc \in OnTheWay THEN 1 ELSE 0
Takes(at) == IF at \in {"loaded", "run"} THEN 1 ELSE 0
Booked == IF status = "TIMING_TASK" /\ dispatcher # "dispatched" THEN 1 ELSE 0

OwedInv ==
    /\ dispatcher # "idle" => status = "TIMING_TASK"
    /\ IsFiniteSet(Senders) /\ IsFiniteSet(Takers)
    /\ runs + queue + Cardinality(Senders) + Cardinality(Takers) + Booked <= confirms + faults

\* What a family of things has with one of them moved.
LEMMA CountMoved ==
    ASSUME NEW S, IsFiniteSet(S), NEW T, NEW x, T \ {x} = S \ {x}
    PROVE  /\ IsFiniteSet(T) /\ Cardinality(S) \in Nat /\ Cardinality(T) \in Nat
           /\ Cardinality(T) = Cardinality(S) - (IF x \in S THEN 1 ELSE 0)
                                              + (IF x \in T THEN 1 ELSE 0)
<1>1. /\ IsFiniteSet(S \ {x}) /\ Cardinality(S) \in Nat
      /\ Cardinality(S \ {x}) = Cardinality(S) - (IF x \in S THEN 1 ELSE 0)
  BY FS_RemoveElement, FS_CardinalityType
<1>2. T = IF x \in T THEN (S \ {x}) \cup {x} ELSE S \ {x}
  OBVIOUS
<1>3. /\ IsFiniteSet(T)
      /\ Cardinality(T) = Cardinality(S \ {x}) + (IF x \in T THEN 1 ELSE 0)
  <2>1. CASE x \in T
    <3>1. T = (S \ {x}) \cup {x}
      BY <1>2, <2>1
    <3>2. x \notin S \ {x}
      OBVIOUS
    <3>3. QED
      BY <1>1, <2>1, <3>1, <3>2, FS_AddElement
  <2>2. CASE x \notin T
    <3>1. T = S \ {x}
      BY <1>2, <2>2
    <3>2. QED
      BY <1>1, <2>2, <3>1, FS_CardinalityType
  <2>3. QED
    BY <2>1, <2>2
<1>4. Cardinality(T) \in Nat
  BY <1>3, FS_CardinalityType
<1>5. QED
  BY <1>1, <1>3, <1>4

\* A request that becomes r is counted as r stands.
LEMMA SendersMoved ==
    ASSUME TypeOK, IsFiniteSet(Senders), NEW h \in Handlers, NEW r, Become(h, r)
    PROVE  /\ IsFiniteSet(Senders') /\ Cardinality(Senders) \in Nat /\ Cardinality(Senders') \in Nat
           /\ Cardinality(Senders') = Cardinality(Senders)
                  - Sends(handler[h]) + Sends(r)
<1>1. \A g \in Handlers : handler'[g] = IF g = h THEN r ELSE handler[g]
  BY DEF Become, TypeOK
<1>2. Senders' \ {h} = Senders \ {h}
  BY <1>1 DEF Senders
<1>3. (h \in Senders <=> handler[h].pc \in OnTheWay) /\ (h \in Senders' <=> r.pc \in OnTheWay)
  BY <1>1 DEF Senders
<1> HIDE DEF Senders
<1>4. QED
  BY <1>2, <1>3, CountMoved DEF Sends

\* So is a worker.
LEMMA TakersMoved ==
    ASSUME TypeOK, IsFiniteSet(Takers), NEW w \in Workers, NEW at, worker' = [worker EXCEPT ![w] = at]
    PROVE  /\ IsFiniteSet(Takers') /\ Cardinality(Takers) \in Nat /\ Cardinality(Takers') \in Nat
           /\ Cardinality(Takers') = Cardinality(Takers)
                  - Takes(worker[w]) + Takes(at)
<1>1. \A v \in Workers : worker'[v] = IF v = w THEN at ELSE worker[v]
  BY DEF TypeOK
<1>2. Takers' \ {w} = Takers \ {w}
  BY <1>1 DEF Takers
<1>3. (w \in Takers <=> worker[w] \in {"loaded", "run"}) /\ (w \in Takers' <=> at \in {"loaded", "run"})
  BY <1>1 DEF Takers
<1> HIDE DEF Takers
<1>4. QED
  BY <1>2, <1>3, CountMoved DEF Takes

\* Nothing is owed before the submission.
LEMMA OwedInit == Init => OwedInv
<1> SUFFICES ASSUME Init PROVE OwedInv
  OBVIOUS
<1>1. Senders = {} /\ Takers = {} /\ Booked = 0
  BY DEF Init, Senders, Takers, OnTheWay, Idle, Booked
<1>2. QED
  BY <1>1, FS_EmptySet DEF Init, OwedInv

LEMMA CountTypes ==
    /\ Booked \in Nat /\ Booked \in {0, 1}
    /\ \A r : Sends(r) \in {0, 1}
    /\ \A at : Takes(at) \in {0, 1}
BY DEF Booked, Sends, Takes

\* No step of a request sends what is not owed.
LEMMA OwedRequest ==
    ASSUME TypeOK, OwedInv, NEW h \in Handlers, StartRequest(h) \/ ContinueRequest(h)
    PROVE  OwedInv'
<1> USE DEF row, ghosts
<1>nat. runs \in Nat /\ queue \in Nat /\ confirms \in Nat /\ faults \in Nat
  BY DEF TypeOK
<1>booked. Booked' \in Nat /\ Booked' \in {0, 1}
  BY DEF Booked
\* The request moves, workers do not, and the rest makes up for it.
<1>move. ASSUME NEW r, Become(h, r), UNCHANGED worker,
                dispatcher' # "idle" => status' = "TIMING_TASK",
                runs' \in Nat, queue' \in Nat, confirms' \in Nat, faults' \in Nat,
                runs' + queue' + Sends(r) + Booked' + confirms + faults
                    <= runs + queue + Sends(handler[h]) + Booked + confirms' + faults'
         PROVE  OwedInv'
  <2>1. /\ IsFiniteSet(Senders') /\ Cardinality(Senders) \in Nat /\ Cardinality(Senders') \in Nat
        /\ Cardinality(Senders') = Cardinality(Senders) - Sends(handler[h]) + Sends(r)
    BY <1>move, SendersMoved DEF OwedInv
  <2>2. /\ Takers' = Takers /\ IsFiniteSet(Takers) /\ Cardinality(Takers) \in Nat
    BY <1>move, FS_CardinalityType DEF OwedInv, Takers
  <2>3. runs + queue + Cardinality(Senders) + Cardinality(Takers) + Booked <= confirms + faults
    BY DEF OwedInv
  <2> HIDE DEF Senders, Takers
  <2>4. runs' + queue' + Cardinality(Senders') + Cardinality(Takers) + Booked' <= confirms' + faults'
    <3> DEFINE x == Cardinality(Senders) x1 == Cardinality(Senders') y == Cardinality(Takers)
               d == Sends(handler[h]) d1 == Sends(r) b == Booked b1 == Booked'
               r1 == runs' q1 == queue' c1 == confirms' f1 == faults'
    <3>1. /\ x \in Nat /\ x1 \in Nat /\ y \in Nat /\ b \in Nat /\ b1 \in Nat
          /\ d \in Nat /\ d1 \in Nat
      BY <1>booked, <2>1, <2>2, CountTypes
    <3>2. runs \in Nat /\ queue \in Nat /\ confirms \in Nat /\ faults \in Nat
      BY <1>nat
    <3>3. r1 \in Nat /\ q1 \in Nat /\ c1 \in Nat /\ f1 \in Nat
      BY <1>move
    <3>4. /\ x1 = x - d + d1 /\ runs + queue + x + y + b <= confirms + faults
          /\ r1 + q1 + d1 + b1 + confirms + faults <= runs + queue + d + b + c1 + f1
      BY <1>move, <2>1, <2>3
    <3> HIDE DEF x, x1, y, d, d1, b, b1, r1, q1, c1, f1
    <3>5. r1 + q1 + x1 + y + b1 <= c1 + f1
      BY ONLY <3>1, <3>2, <3>3, <3>4
    <3> QED BY <3>5 DEF x1, y, b1, r1, q1, c1, f1
  <2>5. QED
    BY <1>move, <2>1, <2>2, <2>4 DEF OwedInv
\* A request that has sent nothing, and whose commit schedules nothing.
<1>early. ASSUME NEW r, Become(h, r), r.pc \notin OnTheWay, UNCHANGED <<queue, worker, dispatcher, runs, confirms, faults>>,
                 \/ status' = status
                 \/ dispatcher = "idle" /\ status' # "TIMING_TASK"
          PROVE  OwedInv'
  <2>1. Booked' <= Booked /\ Sends(r) = 0
    BY <1>early DEF Booked, Sends
  <2>2. dispatcher' # "idle" => status' = "TIMING_TASK"
    BY <1>early DEF OwedInv
  <2>3. runs + queue + Sends(r) + Booked' + confirms + faults
            <= runs + queue + Sends(handler[h]) + Booked + confirms + faults
    <3> DEFINE d == Sends(handler[h]) d1 == Sends(r) b == Booked b1 == Booked'
    <3>1. b \in Nat /\ b1 \in Nat /\ d \in Nat /\ d1 = 0 /\ b1 <= b
      BY <1>booked, <2>1, CountTypes
    <3>2. runs \in Nat /\ queue \in Nat /\ confirms \in Nat /\ faults \in Nat
      BY <1>nat
    <3> HIDE DEF d, d1, b, b1
    <3>3. runs + queue + d1 + b1 + confirms + faults <= runs + queue + d + b + confirms + faults
      BY ONLY <3>1, <3>2
    <3> QED BY <3>3 DEF d, d1, b, b1
  <2>4. QED
    BY <1>early, <1>move, <1>nat, <2>2, <2>3
\* A confirmation pays for the message it will send, or for the booking.
<1>pay. ASSUME NEW r, Become(h, r), handler[h].pc = "commit", dispatcher = "idle",
               UNCHANGED <<queue, worker, dispatcher, runs, faults>>, confirms' = confirms + 1,
               \/ r.pc \notin OnTheWay
               \/ status' \in {status, "QUEUING"}
        PROVE  OwedInv'
  <2>1. Sends(handler[h]) = 0
    BY <1>pay DEF OnTheWay, Sends
  <2>2. Sends(r) + Booked' <= Booked + 1
    BY <1>pay DEF Booked, Sends
  <2>3. runs + queue + Sends(r) + Booked' + confirms + faults
            <= runs + queue + Sends(handler[h]) + Booked + confirms' + faults
    <3> DEFINE d == Sends(handler[h]) d1 == Sends(r) b == Booked b1 == Booked' c1 == confirms'
    <3>1. /\ b \in Nat /\ b1 \in Nat /\ d = 0 /\ d1 \in Nat /\ d1 + b1 <= b + 1
          /\ c1 = confirms + 1
      BY <1>pay, <1>booked, <2>1, <2>2, CountTypes
    <3>2. runs \in Nat /\ queue \in Nat /\ confirms \in Nat /\ faults \in Nat
      BY <1>nat
    <3> HIDE DEF d, d1, b, b1, c1
    <3>3. runs + queue + d1 + b1 + confirms + faults <= runs + queue + d + b + c1 + faults
      BY ONLY <3>1, <3>2
    <3> QED BY <3>3 DEF d, d1, b, b1, c1
  <2>4. confirms' \in Nat
    BY <1>pay, <1>nat
  <2>5. QED
    BY <1>pay, <1>move, <1>nat, <2>3, <2>4
\* A request past its commit passes on what it owes.
<1>late. ASSUME NEW r, Become(h, r), handler[h].pc \in OnTheWay, UNCHANGED <<worker, dispatcher, confirms>>,
                queue' \in Nat, runs' \in Nat, faults' \in Nat,
                \/ status' = status
                \/ dispatcher = "idle" /\ status' # "TIMING_TASK",
                runs' + queue' + Sends(r) + faults <= runs + queue + Sends(handler[h]) + faults'
         PROVE  OwedInv'
  <2>1. Booked' <= Booked
    BY <1>late DEF Booked
  <2>2. dispatcher' # "idle" => status' = "TIMING_TASK"
    BY <1>late DEF OwedInv
  <2>3. runs' + queue' + Sends(r) + Booked' + confirms + faults
            <= runs + queue + Sends(handler[h]) + Booked + confirms + faults'
    <3> DEFINE d == Sends(handler[h]) d1 == Sends(r) b == Booked b1 == Booked'
               r1 == runs' q1 == queue' f1 == faults'
    <3>1. runs \in Nat /\ queue \in Nat /\ confirms \in Nat /\ faults \in Nat
      BY <1>nat
    <3>2. r1 \in Nat /\ q1 \in Nat /\ f1 \in Nat /\ b \in Nat /\ b1 \in Nat /\ d \in Nat /\ d1 \in Nat
      BY <1>late, <1>booked, CountTypes
    <3>3. r1 + q1 + d1 + faults <= runs + queue + d + f1 /\ b1 <= b
      BY <1>late, <2>1
    <3> HIDE DEF d, d1, b, b1, r1, q1, f1
    <3>4. r1 + q1 + d1 + b1 + confirms + faults <= runs + queue + d + b + confirms + f1
      BY ONLY <3>1, <3>2, <3>3
    <3> QED BY <3>4 DEF d, d1, b, b1, r1, q1, f1
  <2>4. QED
    BY <1>late, <1>move, <1>nat, <2>2, <2>3
<1>1. ASSUME NEW op \in AuditOps, ReadTicketToAudit(h, op) PROVE OwedInv'
  <2> DEFINE r == [Idle EXCEPT !.pc = "audit", !.op = op, !.status = status]
  <2>1. r.pc \notin OnTheWay
    BY DEF Idle, OnTheWay
  <2> HIDE DEF r
  <2>2. QED
    BY <1>1, <2>1, <1>early DEF ReadTicketToAudit, r
<1>2. ASSUME NEW op \in ExecuteOps, NEW u \in Users, ReadTicketToExecute(h, op, u)
      PROVE  OwedInv'
  <2> DEFINE r == [Idle EXCEPT !.pc = "commit", !.op = op, !.status = status, !.scheduledAt = scheduledAt]
  <2>1. r.pc \notin OnTheWay
    BY DEF Idle, OnTheWay
  <2> HIDE DEF r
  <2>2. QED
    BY <1>2, <2>1, <1>early DEF ReadTicketToExecute, r
<1>3. ASSUME NEW u \in Users,
             ReadChainToPass(h, u) \/ ReadChainToReject(h, u) \/ ReadChainToCancel(h, u)
      PROVE  OwedInv'
  <2>req. handler[h] \in Request
    BY DEF TypeOK
  <2>1. CASE ReadChainToPass(h, u)
    <3> DEFINE r == [handler[h] EXCEPT !.pc = "commit", !.user = u,
                        !.auditStatus = auditStatus, !.nodes = nodes]
    <3>1. r.pc \notin OnTheWay
      BY <2>req DEF Request, OnTheWay
    <3> HIDE DEF r
    <3>2. QED
      BY <2>1, <3>1, <1>early DEF ReadChainToPass, r
  <2>2. CASE ReadChainToReject(h, u)
    <3> DEFINE r == [handler[h] EXCEPT !.pc = "commit", !.auditStatus = auditStatus]
    <3>1. r.pc \notin OnTheWay
      BY <2>req DEF Request, OnTheWay
    <3> HIDE DEF r
    <3>2. QED
      BY <2>2, <3>1, <1>early DEF ReadChainToReject, r
  <2>3. CASE ReadChainToCancel(h, u)
    <3> DEFINE r == [handler[h] EXCEPT !.pc = "commit",
                        !.auditStatus = auditStatus, !.nodes = nodes]
    <3>1. r.pc \notin OnTheWay
      BY <2>req DEF Request, OnTheWay
    <3> HIDE DEF r
    <3>2. QED
      BY <2>3, <3>1, <1>early DEF ReadChainToCancel, r
  <2>4. QED
    BY <1>3, <2>1, <2>2, <2>3
<1>idle. Idle.pc \notin OnTheWay
  BY DEF Idle, OnTheWay
<1>4. CASE RefuseAudit(h)
  BY <1>4, <1>early, <1>idle DEF RefuseAudit, Answer
<1>5. CASE CommitPass(h)
  <2>1. PICK verdict \in {"REVIEW_PASS", "PENDING_REVIEW"} :
           /\ RowUnlocked \/ verdict = handler[h].status
           /\ status' = Written(status, handler[h].status, verdict)
    BY <1>5 DEF CommitPass, TicketVerdict
  <2>2. \/ status' = status
        \/ dispatcher = "idle" /\ status' # "TIMING_TASK"
    BY <2>1 DEF Written, RowUnlocked
  <2>3. Become(h, Idle) /\ UNCHANGED <<queue, worker, dispatcher, runs, confirms, faults>>
    BY <1>5 DEF CommitPass, Answer
  <2>4. QED
    BY <2>2, <2>3, <1>early, <1>idle
<1>6. CASE CommitReject(h)
  BY <1>6, <1>early, <1>idle DEF CommitReject, Answer, RowUnlocked, Written
<1>7. CASE CommitCancel(h)
  BY <1>7, <1>early, <1>idle DEF CommitCancel, Answer, RowUnlocked, Written
<1>8. CASE CommitImmediate(h)
  <2> DEFINE r == [Idle EXCEPT !.pc = "publish", !.op = handler[h].op]
  <2>1. /\ Become(h, r) /\ handler[h].pc = "commit" /\ dispatcher = "idle" /\ confirms' = confirms + 1
        /\ UNCHANGED <<queue, worker, dispatcher, runs, faults>>
        /\ status' \in {status, "QUEUING"}
    BY <1>8 DEF CommitImmediate, RowUnlocked, Written
  <2> HIDE DEF r
  <2>2. QED
    BY <2>1, <1>pay
<1>9. CASE CommitScheduled(h)
  BY <1>9, <1>pay, <1>idle DEF CommitScheduled, Answer, RowUnlocked
<1>10. ASSUME NEW result \in Result, CommitExternal(h, result) PROVE OwedInv'
  BY <1>10, <1>early, <1>idle DEF CommitExternal, Answer, RowUnlocked, Written, Result
<1>sent. /\ Sends(Idle) = 0
         /\ handler[h].pc \in OnTheWay => Sends(handler[h]) = 1
         /\ Sends([handler[h] EXCEPT !.pc = "sync"]) = 1
         /\ Sends([handler[h] EXCEPT !.pc = "ran"]) = 0
         /\ Sends([handler[h] EXCEPT !.pc = "run"]) = 1
  BY DEF TypeOK, Request, OnTheWay, Sends, Idle
<1>11. CASE Publish(h)
  <2>1. /\ Become(h, Idle) /\ handler[h].pc \in OnTheWay /\ queue' = queue + 1
        /\ UNCHANGED <<status, worker, dispatcher, confirms, runs, faults>>
    BY <1>11 DEF Publish, Answer, OnTheWay
  <2>2. queue' \in Nat /\ runs + queue' + Sends(Idle) + faults <= runs + queue + Sends(handler[h]) + faults
    BY <2>1, <1>sent, <1>nat
  <2>3. QED
    BY <2>1, <2>2, <1>late, <1>nat
<1>12. CASE PublishFails(h)
  <2> DEFINE r == [handler[h] EXCEPT !.pc = "sync"]
  <2>1. /\ Become(h, r) /\ handler[h].pc \in OnTheWay
        /\ UNCHANGED <<status, worker, dispatcher, confirms, runs>>
        /\ \/ UNCHANGED <<queue, faults>>
           \/ queue' = queue + 1 /\ faults' = faults + 1
    BY <1>12 DEF PublishFails, Fault, OnTheWay
  <2>2. Sends(r) = 1 /\ Sends(handler[h]) = 1
    BY <2>1, <1>sent
  <2> HIDE DEF r
  <2>3. /\ queue' \in Nat /\ faults' \in Nat
        /\ runs + queue' + Sends(r) + faults <= runs + queue + Sends(handler[h]) + faults'
    BY <2>1, <2>2, <1>nat
  <2>4. QED
    BY <2>1, <2>3, <1>late, <1>nat
<1>13. CASE SyncStart(h)
  <2>1. /\ handler[h].pc \in OnTheWay /\ dispatcher = "idle" /\ status' # "TIMING_TASK"
        /\ UNCHANGED <<queue, worker, dispatcher, confirms, runs, faults>>
    BY <1>13 DEF SyncStart, RowUnlocked, OnTheWay
  <2>2. PICK r : Become(h, r)
    BY <1>13 DEF SyncStart, Answer
  <2>3. runs + queue + Sends(r) + faults <= runs + queue + Sends(handler[h]) + faults
    BY <2>1, <1>sent, <1>nat, CountTypes
  <2>4. QED
    BY <2>1, <2>2, <2>3, <1>late, <1>nat
<1>14. CASE SyncRun(h)
  <2> DEFINE r == [handler[h] EXCEPT !.pc = "ran"]
  <2>1. /\ Become(h, r) /\ handler[h].pc \in OnTheWay /\ runs' = runs + 1
        /\ UNCHANGED <<status, queue, worker, dispatcher, confirms, faults>>
    BY <1>14 DEF SyncRun, OnTheWay
  <2>2. Sends(r) = 0 /\ Sends(handler[h]) = 1
    BY <2>1, <1>sent
  <2> HIDE DEF r
  <2>3. runs' \in Nat /\ runs' + queue + Sends(r) + faults <= runs + queue + Sends(handler[h]) + faults
    BY <2>1, <2>2, <1>nat
  <2>4. QED
    BY <2>1, <2>3, <1>late, <1>nat
<1>15. ASSUME NEW result \in Result, SyncFinish(h, result) PROVE OwedInv'
  BY <1>15, <1>early, <1>idle DEF SyncFinish, Answer, RowUnlocked, Result
<1>16. QED
  BY <1>1, <1>2, <1>3, <1>4, <1>5, <1>6, <1>7, <1>8, <1>9, <1>10, <1>11, <1>12,
     <1>13, <1>14, <1>15 DEF StartRequest, ContinueRequest

\* No step of a worker does: the message it took is what it owes.
LEMMA OwedWorker ==
    ASSUME TypeOK, OwedInv, NEW w \in Workers, WorkerStep(w)
    PROVE  OwedInv'
<1> USE DEF row, ghosts
<1>nat. runs \in Nat /\ queue \in Nat /\ confirms \in Nat /\ faults \in Nat
  BY DEF TypeOK
<1>move. ASSUME NEW at, worker' = [worker EXCEPT ![w] = at], UNCHANGED <<handler, dispatcher, confirms, faults>>,
                \/ status' = status
                \/ dispatcher = "idle" /\ status' # "TIMING_TASK",
                queue' \in Nat, runs' \in Nat,
                runs' + queue' + Takes(at) + faults <= runs + queue + Takes(worker[w]) + faults
         PROVE  OwedInv'
  <2>1. /\ IsFiniteSet(Takers') /\ Cardinality(Takers) \in Nat /\ Cardinality(Takers') \in Nat
        /\ Cardinality(Takers') = Cardinality(Takers) - Takes(worker[w]) + Takes(at)
    BY <1>move, TakersMoved DEF OwedInv
  <2>2. /\ Senders' = Senders /\ IsFiniteSet(Senders) /\ Cardinality(Senders) \in Nat
    BY <1>move, FS_CardinalityType DEF OwedInv, Senders
  <2>3. Booked' <= Booked /\ Booked' \in Nat
    BY <1>move DEF Booked
  <2>4. /\ runs + queue + Cardinality(Senders) + Cardinality(Takers) + Booked <= confirms + faults
        /\ dispatcher' # "idle" => status' = "TIMING_TASK"
    BY <1>move DEF OwedInv
  <2> HIDE DEF Senders, Takers
  <2>5. runs' + queue' + Cardinality(Senders) + Cardinality(Takers') + Booked' <= confirms + faults
    <3> DEFINE x == Cardinality(Senders) y == Cardinality(Takers) y1 == Cardinality(Takers')
               d == Takes(worker[w]) d1 == Takes(at) b == Booked b1 == Booked'
               r1 == runs' q1 == queue'
    <3>1. runs \in Nat /\ queue \in Nat /\ confirms \in Nat /\ faults \in Nat
      BY <1>nat
    <3>2. /\ r1 \in Nat /\ q1 \in Nat /\ x \in Nat /\ y \in Nat /\ y1 \in Nat
          /\ b \in Nat /\ b1 \in Nat
      BY <1>move, <2>1, <2>2, <2>3, CountTypes
    <3>5. d \in Nat /\ d1 \in Nat
      BY CountTypes
    <3>3. /\ y1 = y - d + d1 /\ b1 <= b
          /\ r1 + q1 + d1 + faults <= runs + queue + d + faults
          /\ runs + queue + x + y + b <= confirms + faults
      BY <1>move, <2>1, <2>3, <2>4
    <3> HIDE DEF x, y, y1, d, d1, b, b1, r1, q1
    <3>4. r1 + q1 + x + y1 + b1 <= confirms + faults
      BY ONLY <3>1, <3>2, <3>3, <3>5
    <3> QED BY <3>4 DEF x, y1, b1, r1, q1
  <2>6. QED
    BY <1>move, <2>1, <2>2, <2>4, <2>5 DEF OwedInv
<1>took. /\ Takes("idle") = 0 /\ Takes("ran") = 0 /\ Takes("loaded") = 1 /\ Takes("run") = 1
  BY DEF Takes
<1>1. CASE LoadTicket(w)
  <2>1. PICK at \in {"loaded", "idle"} : worker' = [worker EXCEPT ![w] = at]
    BY <1>1 DEF LoadTicket
  <2>2. /\ worker[w] = "idle" /\ queue > 0 /\ queue' = queue - 1
        /\ UNCHANGED <<status, handler, dispatcher, confirms, faults, runs>>
    BY <1>1 DEF LoadTicket
  <2>3. queue' \in Nat /\ runs + queue' + Takes(at) + faults <= runs + queue + Takes(worker[w]) + faults
    BY <2>2, <1>took, <1>nat
  <2>4. QED
    BY <2>1, <2>2, <2>3, <1>move, <1>nat
<1>2. CASE StartTicket(w)
  <2>1. PICK at \in {"idle", "run"} : worker' = [worker EXCEPT ![w] = at]
    BY <1>2 DEF StartTicket
  <2>2. /\ worker[w] = "loaded" /\ dispatcher = "idle" /\ status' # "TIMING_TASK"
        /\ UNCHANGED <<handler, queue, dispatcher, confirms, runs, faults>>
    BY <1>2 DEF StartTicket, RowUnlocked
  <2>3. runs + queue + Takes(at) + faults <= runs + queue + Takes(worker[w]) + faults
    BY <2>2, <1>took, <1>nat
  <2>4. QED
    BY <2>1, <2>2, <2>3, <1>move, <1>nat
<1>3. CASE RunTicket(w)
  <2>1. /\ worker[w] = "run" /\ worker' = [worker EXCEPT ![w] = "ran"] /\ runs' = runs + 1
        /\ UNCHANGED <<status, handler, queue, dispatcher, confirms, faults>>
    BY <1>3 DEF RunTicket
  <2>2. runs' \in Nat /\ runs' + queue + Takes("ran") + faults <= runs + queue + Takes(worker[w]) + faults
    BY <2>1, <1>took, <1>nat
  <2>3. QED
    BY <2>1, <2>2, <1>move, <1>nat
<1>4. ASSUME NEW result \in Result, FinishTicket(w, result) PROVE OwedInv'
  <2>1. /\ worker[w] = "ran" /\ worker' = [worker EXCEPT ![w] = "idle"]
        /\ dispatcher = "idle" /\ status' # "TIMING_TASK"
        /\ UNCHANGED <<handler, queue, dispatcher, confirms, runs, faults>>
    BY <1>4 DEF FinishTicket, RowUnlocked, Result
  <2>2. runs + queue + Takes("idle") + faults <= runs + queue + Takes(worker[w]) + faults
    BY <2>1, <1>took, <1>nat
  <2>3. QED
    BY <2>1, <2>2, <1>move, <1>nat
<1>5. QED
  BY <1>1, <1>2, <1>3, <1>4 DEF WorkerStep

\* The submission owes nothing, the dispatcher turns the booking into a
\* message, and a crash is a fault that pays for what it makes possible.
LEMMA OwedStep == TypeOK /\ OwedInv /\ [Next]_vars => OwedInv'
<1> SUFFICES ASSUME TypeOK, OwedInv, [Next]_vars PROVE OwedInv'
  OBVIOUS
<1> USE DEF row, ghosts
<1>nat. queue \in Nat /\ runs \in Nat /\ faults \in Nat /\ confirms \in Nat
  BY DEF TypeOK
\* Requests and workers stay where they are.
<1>still. ASSUME UNCHANGED <<handler, worker, runs, confirms>>, queue' \in Nat, faults' \in Nat,
                 dispatcher' # "idle" => status' = "TIMING_TASK",
                 queue' + Booked' + faults <= queue + Booked + faults'
          PROVE  OwedInv'
  <2>1. /\ Senders' = Senders /\ IsFiniteSet(Senders) /\ Cardinality(Senders) \in Nat
        /\ Takers' = Takers /\ IsFiniteSet(Takers) /\ Cardinality(Takers) \in Nat
    BY <1>still, FS_CardinalityType DEF OwedInv, Senders, Takers
  <2>2. /\ runs + queue + Cardinality(Senders) + Cardinality(Takers) + Booked <= confirms + faults
        /\ Booked \in Nat /\ Booked' \in Nat
    BY DEF OwedInv, Booked
  <2> HIDE DEF Senders, Takers
  <2>3. runs + queue' + Cardinality(Senders) + Cardinality(Takers) + Booked' <= confirms + faults'
    <3> DEFINE x == Cardinality(Senders) y == Cardinality(Takers) b == Booked b1 == Booked'
               q1 == queue' f1 == faults'
    <3>1. /\ x \in Nat /\ y \in Nat /\ b \in Nat /\ b1 \in Nat /\ q1 \in Nat /\ f1 \in Nat
          /\ runs + queue + x + y + b <= confirms + faults
          /\ q1 + b1 + faults <= queue + b + f1
      BY <1>still, <2>1, <2>2
    <3>2. runs \in Nat /\ queue \in Nat /\ confirms \in Nat /\ faults \in Nat
      BY <1>nat
    <3> HIDE DEF x, y, b, b1, q1, f1
    <3>3. runs + q1 + x + y + b1 <= confirms + f1
      BY ONLY <3>1, <3>2
    <3> QED BY <3>3 DEF x, y, b1, q1, f1
  <2>4. QED
    BY <1>still, <2>1, <2>3 DEF OwedInv
<1>1. CASE Submit
  BY <1>1, <1>still, <1>nat DEF Submit, Booked, OwedInv
<1>2. ASSUME NEW h \in Handlers, StartRequest(h) \/ ContinueRequest(h) PROVE OwedInv'
  BY <1>2, OwedRequest
<1>3. ASSUME NEW w \in Workers, WorkerStep(w) PROVE OwedInv'
  BY <1>3, OwedWorker
<1>4. CASE DispatcherStep
  <2>1. CASE SelectDue
    BY <2>1, <1>still, <1>nat DEF SelectDue, Due, Booked
  <2>2. CASE DispatchDue
    <3>1. status = "TIMING_TASK" /\ Booked = 1 /\ Booked' = 0 /\ queue' = queue + 1
      BY <2>2 DEF DispatchDue, Booked, OwedInv
    <3>2. QED
      BY <2>2, <3>1, <1>still, <1>nat DEF DispatchDue
  <2>3. CASE CommitDispatch
    BY <2>3, <1>still, <1>nat DEF CommitDispatch, Booked
  <2>4. QED
    BY <1>4, <2>1, <2>2, <2>3 DEF DispatcherStep
<1>5. CASE Crash
  <2>1. ASSUME NEW h \in Handlers, WebCrash(h) PROVE OwedInv'
    <3>1. /\ IsFiniteSet(Senders') /\ Cardinality(Senders) \in Nat /\ Cardinality(Senders') \in Nat
          /\ Cardinality(Senders') <= Cardinality(Senders)
      <4>1. Become(h, Idle) /\ Sends(Idle) = 0
        BY <2>1 DEF WebCrash, Answer, Idle, OnTheWay, Sends
      <4>2. QED
        BY <4>1, SendersMoved, CountTypes DEF OwedInv
    <3>2. /\ Takers' = Takers /\ IsFiniteSet(Takers) /\ Cardinality(Takers) \in Nat
      BY <2>1, FS_CardinalityType DEF WebCrash, OwedInv, Takers
    <3>3. /\ UNCHANGED <<status, dispatcher, runs, queue, confirms, Booked>> /\ faults' = faults + 1
          /\ Booked \in {0, 1}
      BY <2>1 DEF WebCrash, Fault, Booked
    <3> HIDE DEF Senders, Takers
    <3>4. QED
      BY <3>1, <3>2, <3>3, <1>nat DEF OwedInv
  <2>2. ASSUME NEW w \in Workers, WorkerCrash(w) PROVE OwedInv'
    <3>1. /\ IsFiniteSet(Takers') /\ Cardinality(Takers) \in Nat /\ Cardinality(Takers') \in Nat
          /\ Cardinality(Takers') <= Cardinality(Takers)
      <4>1. worker' = [worker EXCEPT ![w] = "idle"] /\ Takes("idle") = 0
        BY <2>2 DEF WorkerCrash, Takes
      <4>2. /\ IsFiniteSet(Takers') /\ Cardinality(Takers) \in Nat /\ Cardinality(Takers') \in Nat
            /\ Cardinality(Takers') = Cardinality(Takers) - Takes(worker[w]) + Takes("idle")
        BY <4>1, TakersMoved DEF OwedInv
      <4>3. QED
        BY <4>1, <4>2, CountTypes
    <3>2. /\ Senders' = Senders /\ IsFiniteSet(Senders) /\ Cardinality(Senders) \in Nat
      BY <2>2, FS_CardinalityType DEF WorkerCrash, OwedInv, Senders
    <3>3. /\ UNCHANGED <<status, dispatcher, runs, queue, confirms, Booked>> /\ faults' = faults + 1
          /\ Booked \in {0, 1}
      BY <2>2 DEF WorkerCrash, Fault, Booked
    <3> HIDE DEF Senders, Takers
    <3>4. QED
      BY <3>1, <3>2, <3>3, <1>nat DEF OwedInv
  <2>3. CASE DispatcherCrash
    BY <2>3, <1>still, <1>nat DEF DispatcherCrash, Fault, Booked
  <2>4. QED
    BY <1>5, <2>1, <2>2, <2>3 DEF Crash
<1>6. CASE UNCHANGED vars
  BY <1>6 DEF vars, OwedInv, Senders, Takers, Booked
<1>7. QED
  BY <1>1, <1>2, <1>3, <1>4, <1>5, <1>6 DEF Next

(***************************************************************************)
(* Every execution is owed to a committed confirmation of its own or to a  *)
(* fault, for any number of requests, workers, confirmations and faults    *)
(* (workflow.py 595-660, execute_sql.py 66, 163-176).                      *)
(***************************************************************************)
THEOREM ExecutionsOwed == Spec => []RunsAreOwed
<1>1. Init => TypeOK /\ OwedInv
  BY TypeInit, OwedInit
<1>2. (TypeOK /\ OwedInv) /\ [Next]_vars => (TypeOK /\ OwedInv)'
  BY TypeStep, OwedStep
<1>3. TypeOK /\ OwedInv => RunsAreOwed
  <2> SUFFICES ASSUME TypeOK, OwedInv PROVE RunsAreOwed
    OBVIOUS
  <2>1. Cardinality(Senders) \in Nat /\ Cardinality(Takers) \in Nat /\ Booked \in {0, 1}
    BY FS_CardinalityType DEF OwedInv, Booked
  <2>2. QED
    BY <2>1 DEF TypeOK, OwedInv, RunsAreOwed
<1>4. QED
  BY <1>1, <1>2, <1>3, PTL DEF Spec
============================================================================

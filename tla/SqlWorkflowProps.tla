-------------------------- MODULE SqlWorkflowProps --------------------------
(***************************************************************************)
(* What the ticket, its queue and its workers keep.  The first group holds *)
(* however requests overlap; the second needs requests that do not (one    *)
(* handler), with workers, dispatcher and crashes as concurrent as ever.   *)
(***************************************************************************)
EXTENDS SqlWorkflow

\* What a web request keeps between its steps.
Request ==
    [pc : {"idle", "audit", "commit", "publish", "sync", "run", "ran"},
     op : AuditOps \cup ExecuteOps \cup {"none"}, user : Users,
     status : WorkflowStatus \cup {"ABSENT"}, scheduledAt : {NoTime, ScheduledTime},
     auditStatus : AuditStatus, nodes : [Node -> AuditStatus]]

\* The state is well-formed: columns hold values of their enumerations, a
\* handler holds copies of columns, every counter respects its bound.
TypeOK ==
    /\ status \in WorkflowStatus \cup {"ABSENT"}
    /\ scheduledAt \in {NoTime, ScheduledTime}
    /\ auditStatus \in AuditStatus
    /\ nodes \in [Node -> AuditStatus]
    /\ handler \in [Handlers -> Request]
    /\ queue \in Nat
    /\ worker \in [Workers -> {"idle", "loaded", "run", "ran"}]
    /\ dispatcher \in {"idle", "selected", "dispatched"}
    /\ signed \in SUBSET (Node \X Users)
    /\ confirms \in Nat
    /\ runs \in Nat
    /\ faults \in 0..MaxFaults

\* sg: a set of <<node, user>> signatures.
SignedBy(n, sg) == \E u \in Users : CanApprove(u, n) /\ <<n, u>> \in sg
FullyApproved(sg) == \A n \in Node : SignedBy(n, sg)

(***************************************************************************)
(* The SQL reaches the target database only after every node of the chain  *)
(* was approved by somebody that node admits, whatever stale copies of the *)
(* chain overlapping requests wrote back (audit.py 163-215,                *)
(* workflow.py 552, execute_sql.py 66).                                    *)
(***************************************************************************)
RunsOnlyWhenFullyApproved == runs > 0 => FullyApproved(signed)

(***************************************************************************)
(* Nodes are approved in order: no lost update of the chain lets a later   *)
(* approver act before an earlier node was approved (audit.py 171-190).    *)
(***************************************************************************)
SignedInOrder ==
    \A n \in Node : SignedBy(n, signed) => \A m \in 1..(n - 1) : SignedBy(m, signed)

(***************************************************************************)
(* Why the two hold, as an inductive invariant.  A chain, in the row or    *)
(* in a copy, is a prefix of approved nodes, each backed by a signature,   *)
(* before a suffix of pending ones - or is canceled throughout.  Whatever  *)
(* stands past the approval (a status, a message, a worker, a request      *)
(* about to execute) is backed by a signature of every node.               *)
(***************************************************************************)
ChainOK(chain, sg) ==
    /\ \A n \in Node : chain[n] # "REJECTED"
    /\ \A m, n \in Node : chain[m] = "CANCELED" => chain[n] = "CANCELED"
    /\ \A n \in Node : chain[n] = "PASSED" => SignedBy(n, sg)
    /\ \A m, n \in Node : m < n /\ chain[n] = "PASSED" => chain[m] = "PASSED"

ApprovedStatus == {"REVIEW_PASS", "TIMING_TASK", "QUEUING", "EXECUTING"} \cup Result

RequestBacked(r, sg) ==
    /\ r.pc = "commit" /\ r.op = "pass" => ChainOK(r.nodes, sg) /\ MayPass(r.user, r.nodes)
    /\ r.pc = "commit" /\ r.op = "cancel" => \A n \in Node : r.nodes[n] = "PENDING"
    /\ r.pc = "commit" /\ r.op \in ExecuteOps => FullyApproved(sg)
    /\ r.pc \in {"publish", "sync", "run", "ran"} => FullyApproved(sg)

ApprovalInv ==
    /\ SignedInOrder
    /\ ChainOK(nodes, signed)
    /\ \A h \in Handlers : RequestBacked(handler[h], signed)
    /\ status \in ApprovedStatus => FullyApproved(signed)
    /\ queue > 0 \/ dispatcher # "idle" \/ runs > 0 => FullyApproved(signed)
    /\ \A w \in Workers : worker[w] # "idle" => FullyApproved(signed)

\* The inductive invariant: the types, and what backs every copy of the row.
Inductive == TypeOK /\ ApprovalInv

(***************************************************************************)
(* Every time the SQL is sent to the target it is owed to a committed      *)
(* request of its own or to a fault: neither the dispatcher's resending,   *)
(* nor the fallback to synchronous execution, nor a second worker runs the *)
(* ticket for free (workflow.py 612-628, execute_sql.py 66, 163-176).      *)
(***************************************************************************)
RunsAreOwed == runs + queue <= confirms + faults

(***************************************************************************)
(* Short of a fault, a ticket that waits in the queue has its message      *)
(* there or with somebody who will act on it, and an executing ticket has  *)
(* an executor: nothing a late commit overwrites strands it                *)
(* (workflow.py 606-628, execute_sql.py 60-107, 170-176).                  *)
(***************************************************************************)
HandlerAt(pcs) == \E h \in Handlers : handler[h].pc \in pcs
WorkerAt(pcs) == \E w \in Workers : worker[w] \in pcs
NeverStranded ==
    faults = 0 =>
      /\ status = "QUEUING" =>
            queue > 0 \/ HandlerAt({"publish", "sync"}) \/ WorkerAt({"loaded"})
      /\ status = "EXECUTING" => HandlerAt({"run", "ran"}) \/ WorkerAt({"run", "ran"})

(***************************************************************************)
(* Short of a fault a queued ticket leaves the queue and a running one     *)
(* reports, even if requests overlap (workflow.py 595-660, execute_sql.py  *)
(* 60-176).                                                                *)
(***************************************************************************)
QueuedLeaves == status = "QUEUING" ~> status # "QUEUING" \/ faults > 0
ExecutionReports == status = "EXECUTING" ~> status \in Result \/ faults > 0
----------------------------------------------------------------------------
(***************************************************************************)
(* One request at a time: workflow, audit record and chain tell one story. *)
(***************************************************************************)
ChainIs(s) == \A n \in Node : nodes[n] = s
AuditAgrees ==
    /\ status \in {"ABSENT", "PENDING_REVIEW"} <=> auditStatus = "PENDING"
    /\ status = "ABORT" <=> auditStatus = "CANCELED"
    /\ status = "ABORT" <=> ChainIs("CANCELED")
    /\ status = "AUTO_REVIEW_FAIL" <=> auditStatus = "REJECTED"
    /\ auditStatus = "PASSED" => ChainIs("PASSED")
    /\ auditStatus = "PENDING" => ~ChainIs("PASSED")
==============================================================================

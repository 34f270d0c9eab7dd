--------------------------- MODULE QueryPrivilege ---------------------------
(***************************************************************************)
(* An application for a query privilege: the approval flow template its    *)
(* chain is a snapshot of, the application itself (status, chain as JSON,  *)
(* last valid day), the overlapping requests that pass, reject or cancel   *)
(* it, and the privileges it is granted.                                   *)
(*                                                                         *)
(* A request reads the application, decides, and commits: the chain as a   *)
(* whole, of the other columns those it changed.  No row is locked.        *)
(***************************************************************************)
EXTENDS Naturals, Sequences

CONSTANTS
    Users,       \* users of the platform
    Superusers,  \* those who may sign at every node
    Applicant,   \* who applies
    Templates,   \* chains an administrator may configure: for each node its approvers
    Handlers,    \* concurrent web requests
    LastDay,     \* bound: days are 1..LastDay, 1 is today
    MaxRequests  \* bound: requests on the application

ASSUME UserAssumption == Superusers \subseteq Users /\ Applicant \in Users
ASSUME TemplateAssumption == Templates \subseteq Seq(SUBSET Users)
ASSUME BoundAssumption == LastDay \in Nat \ {0} /\ MaxRequests \in Nat

VARIABLES
    template,   \* approval_flow_node of the flow, in order
    active,     \* approval_flow.is_active
    status,     \* query_privilege_apply.status, "absent" before
    chain,      \* query_privilege_apply.audit_auth_groups_info
    day,        \* query_privilege_apply.valid_date
    granted,    \* the query_privilege rows inserted for it
    request,    \* what each request has read and wants
    applied,    \* history: chain and day as applied for
    signed,     \* history: who committed a pass of which node
    requests    \* history: requests so far

flow == <<template, active>>
application == <<status, chain, day>>
vars == <<flow, application, granted, request, applied, signed, requests>>
----------------------------------------------------------------------------
NoOverride == 0
Decided(node, verdict, override) == [node EXCEPT !.status = verdict, !.adjusted = override]
Decide(nodes, n, verdict, override) == [nodes EXCEPT ![n] = Decided(@, verdict, override)]
Pending(node) == [approvers |-> node, status |-> "pending", adjusted |-> NoOverride]

\* Mutant of Current: the last pending node instead of the first.
CurrentFromEnd(n, nodes) ==
    /\ n \in DOMAIN nodes /\ nodes[n].status = "pending"
    /\ \A m \in DOMAIN nodes : m > n => nodes[m].status # "pending"
\* n is the first pending node.
Current(n, nodes) ==
    /\ n \in DOMAIN nodes /\ nodes[n].status = "pending"
    /\ \A m \in DOMAIN nodes : m < n => nodes[m].status # "pending"

\* Mutant of Complete: nodes beyond the current template are not waited for.
CompleteByTemplate(nodes) ==
    \A n \in DOMAIN nodes \cap DOMAIN template : nodes[n].status # "pending"
Complete(nodes) == \A n \in DOMAIN nodes : nodes[n].status # "pending"

\* _check_apply_approver_permission of the node as it was at submission.
MaySign(u, node) == u \in Superusers \cup node.approvers

\* The last day of the privilege this request would grant.
Lasting(r) == IF r.override = NoOverride THEN r.day ELSE r.override

\* Mutant of Overrides: any day to come.
OverridesAnyDay(d) == 0..LastDay
\* What a pass may ask the last day to be: none, or between today and d.
Overrides(d) == 0..d

Idle == [op |-> "idle", user |-> Applicant, override |-> NoOverride, chain |-> <<>>, day |-> 1]

Init ==
    /\ template \in Templates
    /\ active = TRUE
    /\ status = "absent"
    /\ chain = <<>>
    /\ day = 1
    /\ granted = <<>>
    /\ request = [h \in Handlers |-> Idle]
    /\ applied = [chain |-> <<>>, day |-> 1]
    /\ signed = {}
    /\ requests = 0
----------------------------------------------------------------------------
\* ApprovalFlowService.update_flow: old nodes deleted, new nodes inserted.
UpdateFlow ==
    /\ template' \in Templates
    /\ active' \in BOOLEAN
    /\ UNCHANGED <<application, granted, request, applied, signed, requests>>

\* ApprovalFlowService.deactivate_flow
DeactivateFlow ==
    /\ active' = FALSE
    /\ UNCHANGED <<template, application, granted, request, applied, signed, requests>>

\* apply_privilege, with snapshot_for_workflow of an active flow.
Apply ==
    /\ status = "absent"
    /\ active /\ template # <<>>
    /\ status' = "pending"
    /\ chain' = [n \in DOMAIN template |-> Pending(template[n])]
    /\ day' \in 1..LastDay
    /\ applied' = [chain |-> template, day |-> day']
    /\ UNCHANGED <<flow, granted, request, signed, requests>>
----------------------------------------------------------------------------
\* A request has read a pending application.
Read(h, op, u, override) ==
    /\ request[h].op = "idle"
    /\ requests < MaxRequests
    /\ requests' = requests + 1
    /\ status = "pending"
    /\ request' = [request EXCEPT ![h] = [op |-> op, user |-> u, override |-> override,
                                          chain |-> chain, day |-> day]]
    /\ UNCHANGED <<flow, application, granted, applied, signed>>

\* audit_apply: its current node must be the auditor's; the day may only be
\* brought forward.
ReadToPass(h) ==
    \E n \in DOMAIN chain, u \in Users, override \in Overrides(day) :
        Current(n, chain) /\ MaySign(u, chain[n]) /\ Read(h, "pass", u, override)

ReadToReject(h) ==
    \E n \in DOMAIN chain, u \in Users :
        Current(n, chain) /\ MaySign(u, chain[n]) /\ Read(h, "reject", u, NoOverride)

\* cancel_apply: before any node was operated.
ReadToCancel(h) ==
    /\ \A n \in DOMAIN chain : chain[n].status = "pending"
    /\ \E u \in {Applicant} \cup Superusers : Read(h, "cancel", u, NoOverride)

Answer(h) == request' = [request EXCEPT ![h] = Idle]

Grant(nodes, until) ==
    granted' = Append(granted, [day |-> until, chain |-> nodes, revoked |-> FALSE])

\* audit_apply "pass": the last node grants the privilege.
CommitPass(h) ==
    LET r == request[h]
    IN  /\ r.op = "pass"
        /\ \E n \in DOMAIN r.chain :
             LET nodes == Decide(r.chain, n, "passed", r.override)
             IN  /\ Current(n, r.chain)
                 /\ chain' = nodes
                 /\ IF Complete(nodes)
                    THEN status' = "passed" /\ Grant(nodes, Lasting(r))
                    ELSE UNCHANGED <<status, granted>>
                 /\ signed' = signed \cup {<<n, r.user>>}
        /\ day' = IF Lasting(r) = r.day THEN day ELSE Lasting(r)
        /\ Answer(h)
        /\ UNCHANGED <<flow, applied, requests>>

\* audit_apply "reject"
CommitReject(h) ==
    LET r == request[h]
    IN  /\ r.op = "reject"
        /\ \E n \in DOMAIN r.chain :
             /\ Current(n, r.chain)
             /\ chain' = Decide(r.chain, n, "rejected", NoOverride)
        /\ status' = "rejected"
        /\ Answer(h)
        /\ UNCHANGED <<flow, day, granted, applied, signed, requests>>

\* cancel_apply, with cancel_pending_nodes: no node was operated.
CommitCancel(h) ==
    LET r == request[h]
    IN  /\ r.op = "cancel"
        /\ chain' = [n \in DOMAIN r.chain |-> Decided(r.chain[n], "canceled", NoOverride)]
        /\ status' = "canceled"
        /\ Answer(h)
        /\ UNCHANGED <<flow, day, granted, applied, signed, requests>>

\* revoke_privilege
Revoke(i) ==
    /\ ~granted[i].revoked
    /\ granted' = [granted EXCEPT ![i] = [@ EXCEPT !.revoked = TRUE]]
    /\ UNCHANGED <<flow, application, request, applied, signed, requests>>

\* The process dies before the commit.
Crash(h) ==
    /\ request[h].op # "idle"
    /\ Answer(h)
    /\ UNCHANGED <<flow, application, granted, applied, signed, requests>>
----------------------------------------------------------------------------
Commit(h) == CommitPass(h) \/ CommitReject(h) \/ CommitCancel(h)

Next ==
    \/ UpdateFlow \/ DeactivateFlow \/ Apply
    \/ \E h \in Handlers :
         ReadToPass(h) \/ ReadToReject(h) \/ ReadToCancel(h) \/ Commit(h) \/ Crash(h)
    \/ \E i \in DOMAIN granted : Revoke(i)

Spec == Init /\ [][Next]_vars
=============================================================================

----------------------------- MODULE TicketLists -----------------------------
(***************************************************************************)
(* Who is shown which ticket, and with which buttons: the lists and details *)
(* of SQL tickets (backend/app/services/workflow.py), of archive jobs      *)
(* (archive.py) and of applications for query privileges (query_priv.py),  *)
(* against what the operations behind the buttons let a person do          *)
(* (audit.py, cancel_policy.py, query_priv.py).  What a person may do is a *)
(* set of powers: permissions, and facts a node of a chain asks about.  A  *)
(* power named as a type of node says that the person is whom a node of    *)
(* that type waits for: a listed user, a member of the resource group or   *)
(* the user group, the applicant's manager, a holder of the role.          *)
(***************************************************************************)
EXTENDS Naturals, Sequences

CONSTANTS
    Staff,          \* people
    Papers,         \* ids of tickets and applications
    Ranks,          \* the sets of powers a person can have
    Chains,         \* the chains of node types that templates have
    NoPaper,
    MaxPromotions   \* bound: times an administrator changes somebody's powers

\* What a ticket or an application is: its chain of nodes and, if it archives, its job.
NodeStatuses == {"pending", "passed", "rejected", "canceled"}
PaperRecords ==
    [by : Staff, kind : {"sql", "archive", "query"},
     status : {"pending", "passed", "rejected", "canceled", "executed"},
     nodes : Seq([type : STRING, status : NodeStatuses, operator : SUBSET Staff]),
     job : {"none", "pending", "approved", "queued", "paused", "canceled", "success", "failed"}]

ASSUME ListsAssumption == MaxPromotions \in Nat /\ \A c \in Chains : c \in Seq(STRING) /\ Len(c) > 0
ASSUME NoPaperAssumption == NoPaper \notin PaperRecords

VARIABLES
    powers,      \* [Staff -> Ranks]
    papers,      \* [Papers -> ticket or NoPaper]
    register,    \* workflow_log and nodes' operators: [paper, who, op]
    promotions

lists_vars == <<powers, papers, register, promotions>>

ListsInit ==
    /\ powers \in [Staff -> Ranks]
    /\ papers = [t \in Papers |-> NoPaper]
    /\ register = {}
    /\ promotions = 0

Lodged == {t \in Papers : papers[t] # NoPaper}
OfKind(k) == {t \in Lodged : papers[t].kind = k}
Super(p) == "superuser" \in powers[p]
Holds(p, permission) == Super(p) \/ permission \in powers[p]

------------------------------------------------------------------------------
(* Signing.                                                                 *)

AuditTypes == {"users", "group", "manager", "user_group", "role"}

\* AuditService._check_approver_permission; a type it does not know is refused.
Signs(p, type, permission) ==
    \/ Super(p)
    \/ type = "any_reviewer" /\ permission \in powers[p]
    \/ type \in AuditTypes /\ type \in powers[p]

\* Applications know three types of nodes.
SignsApplication(p, type) ==
    Super(p) \/ (type \in {"any_reviewer", "users", "manager"} /\ Signs(p, type, "query_review"))

\* The permission a node that any reviewer may sign asks for; it is written into
\* the chain of an archive ticket and is the default elsewhere.
RequiredPermission(t) ==
    IF papers[t].kind = "archive" THEN "archive_review" ELSE "sql_review"

Unsigned(t) == {n \in DOMAIN papers[t].nodes : papers[t].nodes[n].status = "pending"}
NodeWaiting(t) == CHOOSE n \in Unsigned(t) : \A m \in Unsigned(t) : n <= m
TypeWaiting(t) == papers[t].nodes[NodeWaiting(t)].type
Operated(t) == \E n \in DOMAIN papers[t].nodes : papers[t].nodes[n].status # "pending"

\* Whether the operation lets the person sign the node that waits.
MaySign(p, t) ==
    /\ papers[t].status \in {"pending", "passed"} /\ Unsigned(t) # {}
    /\ IF papers[t].kind = "query"
       THEN papers[t].status = "pending" /\ SignsApplication(p, TypeWaiting(t))
       ELSE Signs(p, TypeWaiting(t), RequiredPermission(t))

\* A chain that is complete leaves a passed ticket open to anyone's rejection.
MayReject(p, t) ==
    \/ MaySign(p, t)
    \/ papers[t].kind # "query" /\ papers[t].status = "passed" /\ Unsigned(t) = {}

\* ApplicationCancelPolicy.
CanCancel(p, t) ==
    papers[t].status = "pending" /\ (Super(p) \/ p = papers[t].by) /\ ~Operated(t)

Noted(t, p, op) == register' = register \cup {[paper |-> t, who |-> p, op |-> op]}

------------------------------------------------------------------------------
(* The operations.                                                          *)

File(t, by, k, chain) ==
    /\ papers[t] = NoPaper
    /\ papers' = [papers EXCEPT ![t] =
                    [by |-> by, kind |-> k, status |-> "pending",
                     nodes |-> [n \in DOMAIN chain |->
                                  [type |-> chain[n], status |-> "pending", operator |-> {}]],
                     job |-> IF k = "archive" THEN "pending" ELSE "none"]]
    /\ UNCHANGED <<powers, register, promotions>>

Mark(nodes, n, status, p) ==
    [nodes EXCEPT ![n] = [@ EXCEPT !.status = status, !.operator = {p}]]

SignPaper(p, t) ==
    /\ t \in Lodged /\ MaySign(p, t)
    /\ LET n == NodeWaiting(t)
           complete == Unsigned(t) = {n}
       IN  papers' = [papers EXCEPT
             ![t].nodes = Mark(@, n, "passed", p),
             ![t].status = IF complete THEN "passed" ELSE "pending",
             ![t].job = IF complete /\ @ = "pending" THEN "approved" ELSE @]
    /\ Noted(t, p, "pass")
    /\ UNCHANGED <<powers, promotions>>

\* The rejection of a ticket marks no node and leaves the job of its archive job
\* alone; that of an application marks the node that waits.
RejectPaper(p, t) ==
    /\ t \in Lodged /\ MayReject(p, t)
    /\ papers' = [papers EXCEPT
         ![t].status = "rejected",
         ![t].nodes = IF papers[t].kind = "query"
                      THEN Mark(@, NodeWaiting(t), "rejected", p) ELSE @]
    /\ Noted(t, p, "reject")
    /\ UNCHANGED <<powers, promotions>>

CancelPaper(p, t) ==
    /\ t \in Lodged /\ CanCancel(p, t)
    /\ papers' = [papers EXCEPT
         ![t].status = "canceled",
         ![t].nodes = [n \in DOMAIN @ |-> [@[n] EXCEPT !.status = "canceled", !.operator = {p}]],
         ![t].job = IF papers[t].kind = "archive" THEN "canceled" ELSE @]
    /\ Noted(t, p, "cancel")
    /\ UNCHANGED <<powers, promotions>>

\* The confirmation of a ticket, which does not ask of what kind it is.  From then
\* on its status is one of those of an execution: "executed".
RunPaper(p, t) ==
    /\ t \in Lodged /\ papers[t].kind # "query" /\ papers[t].status = "passed" /\ Holds(p, "sql_execute")
    /\ papers' = [papers EXCEPT ![t].status = "executed"]
    /\ Noted(t, p, "execute")
    /\ UNCHANGED <<powers, promotions>>

\* ArchiveService._assert_archive_execute_scope.
InExecuteScope(p) ==
    \/ Super(p)
    \/ "archive_execute" \in powers[p] /\ powers[p] \cap {"all_instances", "resource_group"} # {}

UnderWay == {"queued", "paused"}
CanExecuteJob(p, t) == papers[t].job \in {"approved", "paused"} /\ InExecuteScope(p)
CanControlJob(p, t) == papers[t].job \in {"approved"} \cup UnderWay /\ InExecuteScope(p)

\* What an operation on a job makes of its ticket: the start queues it, whatever it
\* was; the cancellation ends it unless it is rejected or executing.
TicketsAfter(to, status) ==
    CASE to = "queued"                                      -> {"executed"}
      [] to = "canceled" /\ status \in {"pending", "passed"} -> {"canceled"}
      [] to = "canceled" /\ status = "executed"             -> {"executed", "canceled"}
      [] OTHER                                              -> {status}

\* Start, pause, resume and cancel of a job; the worker ends it.
MoveJob(p, t, to) ==
    /\ t \in OfKind("archive")
    /\ CASE to = "queued"              -> CanExecuteJob(p, t)
         [] to = "paused"              -> papers[t].job = "queued" /\ CanControlJob(p, t)
         [] to = "canceled"            -> CanControlJob(p, t)
         [] to \in {"success", "failed"} -> papers[t].job = "queued"
    /\ \E status \in TicketsAfter(to, papers[t].status) :
           papers' = [papers EXCEPT ![t].job = to, ![t].status = status]
    /\ UNCHANGED <<powers, register, promotions>>

Promote(p, rank) ==
    /\ promotions < MaxPromotions /\ rank # powers[p]
    /\ powers' = [powers EXCEPT ![p] = rank]
    /\ promotions' = promotions + 1
    /\ UNCHANGED <<papers, register>>

ListsNext ==
    \/ \E t \in Papers, p \in Staff, k \in {"sql", "archive", "query"}, c \in Chains :
           File(t, p, k, c)
    \/ \E p \in Staff, t \in Papers :
           \/ SignPaper(p, t)
           \/ RejectPaper(p, t)
           \/ CancelPaper(p, t)
           \/ RunPaper(p, t)
           \/ \E to \in {"queued", "paused", "canceled", "success", "failed"} : MoveJob(p, t, to)
    \/ \E p \in Staff, rank \in Ranks : Promote(p, rank)

ListsSpec == ListsInit /\ [][ListsNext]_lists_vars

------------------------------------------------------------------------------
(* The lists.                                                               *)

ActedByMe(p, t) == \E n \in DOMAIN papers[t].nodes : p \in papers[t].nodes[n].operator

PendingIds(p) ==
    {t \in OfKind("sql") \cup OfKind("archive") :
        /\ papers[t].status = "pending" /\ Unsigned(t) # {}
        /\ Signs(p, TypeWaiting(t), RequiredPermission(t))}
\* Mutant: who audited is read off the nodes, which a rejection leaves unmarked.
AuditedIdsByNode(p) ==
    {t \in Lodged : papers[t].kind # "query" /\ ActedByMe(p, t)}
AuditedIds(p) ==
    {l.paper : l \in {k \in register : k.who = p /\ k.op \in {"pass", "reject"}
                                     /\ papers[k.paper].kind # "query"}}

RecordStatuses == {"passed", "executed"}

MineView(p) == {t \in Lodged : papers[t].kind # "query" /\ papers[t].by = p}
AuditView(p) == PendingIds(p) \cup AuditedIds(p)
ExecuteView(p) ==
    {t \in Lodged : /\ papers[t].kind # "query" /\ papers[t].status \in RecordStatuses
                    /\ Holds(p, "sql_execute") \/ papers[t].by = p}

ListView(p, view) ==
    CASE view = "mine" -> MineView(p) [] view = "audit" -> AuditView(p)
      [] view = "execute" -> ExecuteView(p)

\* get_audit_info hands the nodes on without the permission they ask for, so that
\* the check behind the button falls back on the default.
PermissionHandedOn == "sql_review"
AuditButton(p, t) ==
    /\ papers[t].status = "pending" /\ Unsigned(t) # {}
    /\ Signs(p, TypeWaiting(t), PermissionHandedOn)

Detail(p, t) ==
    [can_audit   |-> AuditButton(p, t),
     can_execute |-> papers[t].status = "passed" /\ Holds(p, "sql_execute"),
     can_cancel  |-> CanCancel(p, t)]

SeesEveryJob(p) == Holds(p, "archive_review") \/ Holds(p, "archive_execute")
ListedJobs(p) ==
    {t \in OfKind("archive") : SeesEveryJob(p) \/ papers[t].by = p \/ t \in AuditView(p)}
CanViewJob(p, t) == SeesEveryJob(p) \/ p = papers[t].by \/ t \in AuditView(p)

\* The list of jobs and the detail of one carry the same four buttons; a job
\* that waits for its review is canceled as its ticket.
JobButtons(p, t) ==
    [can_audit   |-> AuditButton(p, t),
     can_execute |-> CanExecuteJob(p, t),
     can_control |-> CanControlJob(p, t),
     can_cancel  |-> papers[t].job = "pending" /\ CanCancel(p, t)]

CanAuditIds(p) ==
    {t \in OfKind("query") : /\ papers[t].status = "pending" /\ Unsigned(t) # {}
                             /\ SignsApplication(p, TypeWaiting(t))}
AuditRecords(p) == CanAuditIds(p) \cup {t \in OfKind("query") : ActedByMe(p, t)}
MyApplications(p) == {t \in OfKind("query") : papers[t].by = p}
\* The list of a person's own applications has no audit button.
ApplicationItem(p, t, canAuditIds) ==
    [can_audit |-> t \in canAuditIds, can_cancel |-> CanCancel(p, t)]

------------------------------------------------------------------------------
(* Properties.                                                              *)

\* Tickets and what was noted of them are well-formed.
ListsTypeOK ==
    /\ powers \in [Staff -> Ranks]
    /\ papers \in [Papers -> PaperRecords \cup {NoPaper}]
    /\ register \subseteq [paper : Papers, who : Staff, op : {"pass", "reject", "cancel", "execute"}]
    /\ promotions \in 0..MaxPromotions

Decided(p) == {l.paper : l \in {k \in register : k.who = p /\ k.op \in {"pass", "reject"}}}

\* The lists and buttons of SQL tickets are true to the operations behind them
\* (workflow.py 299-529, audit.py 402-456 against audit.py 163-286): a person who
\* may sign has the ticket in the audit view, and the button; who signed or
\* rejected keeps it there, whatever powers change and whether or not a node was
\* marked; who may execute has it in the execute view; who may withdraw has it
\* among his own, unless a superuser.
SqlListsAgree ==
    \A p \in Staff, t \in OfKind("sql") :
        /\ MaySign(p, t) <=> t \in PendingIds(p)
        /\ Detail(p, t).can_audit <=> MaySign(p, t)
        /\ t \in Decided(p) => t \in ListView(p, "audit")
        /\ Detail(p, t).can_execute => t \in ListView(p, "execute")
        /\ Detail(p, t).can_cancel => t \in ListView(p, "mine") \/ Super(p)

\* The same of archive jobs (archive.py 609-809), but for the audit button: who may
\* sign, signed, may start, pause or cancel a job can view and list it.
ArchiveListsAgree ==
    \A p \in Staff, t \in OfKind("archive") :
        /\ MaySign(p, t) <=> t \in PendingIds(p)
        /\ t \in ListedJobs(p) <=> CanViewJob(p, t)
        /\ MaySign(p, t) \/ t \in Decided(p) => CanViewJob(p, t)
        /\ LET b == JobButtons(p, t)
           IN  b.can_execute \/ b.can_control \/ b.can_cancel => CanViewJob(p, t)

\* And of applications (query_priv.py 905-994, 1019-1110).
ApplicationListsAgree ==
    \A p \in Staff, t \in OfKind("query") :
        /\ MaySign(p, t) => t \in AuditRecords(p)
        /\ MaySign(p, t) <=> ApplicationItem(p, t, CanAuditIds(p)).can_audit
        /\ ApplicationItem(p, t, {}).can_cancel => t \in MyApplications(p) \/ Super(p)
        /\ t \in Decided(p) => t \in AuditRecords(p)

ListsAgree == ListsTypeOK /\ SqlListsAgree /\ ArchiveListsAgree /\ ApplicationListsAgree
==============================================================================

----------------------------- MODULE TicketFlow -----------------------------
(***************************************************************************)
(* The ticket under two restrictions on its environment, between which     *)
(* `serial' chooses: either requests follow one another and processes may  *)
(* die, or requests overlap and no process dies.  Liveness, the agreement  *)
(* of the tables and the refinement are stated of it.                      *)
(***************************************************************************)
EXTENDS SqlWorkflowProps

VARIABLE serial

FlowInit == Init /\ serial \in BOOLEAN

FlowNext ==
    /\ Next
    /\ serial => \A g, h \in Handlers : g # h => handler'[g].pc = "idle" \/ handler'[h].pc = "idle"
    /\ ~serial => faults' = 0
    /\ UNCHANGED serial

FlowSpec == FlowInit /\ [][FlowNext]_<<vars, serial>> /\ Fairness

(***************************************************************************)
(* One request at a time: the ticket lives the life its status diagram     *)
(* promises and the platform sends its SQL at most once, although the      *)
(* worker may take the message before the dispatcher has committed.  Where *)
(* requests overlap nothing is claimed: the ticket is as if never filed.   *)
(***************************************************************************)
Lifecycle == INSTANCE WorkflowLifecycle WITH
                 status <- IF serial THEN status ELSE "ABSENT", runs <- IF serial THEN runs ELSE 0
ImplementsLifecycle == Lifecycle!Spec

\* One request at a time: ticket, audit record and chain tell one story.
AuditAgreesSerially == serial => AuditAgrees

(***************************************************************************)
(* One request at a time and short of a fault a scheduled ticket is        *)
(* dispatched once its time has come (execute_sql.py 140-176).  Where      *)
(* confirmations overlap, one may clear the time that the other, which     *)
(* read the same time before, leaves unwritten (workflow.py 578-606).      *)
(***************************************************************************)
ScheduledFiresSerially == serial /\ status = "TIMING_TASK" ~> status # "TIMING_TASK" \/ faults > 0
=============================================================================

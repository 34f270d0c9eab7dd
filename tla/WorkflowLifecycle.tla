------------------------- MODULE WorkflowLifecycle -------------------------
(***************************************************************************)
(* What a SQL ticket promises to the people who handle it: the life of its *)
(* status as the state diagram of the product draws it, and the one time   *)
(* the platform sends its SQL to the target database.                      *)
(***************************************************************************)
EXTENDS Naturals

VARIABLES
    status,   \* the status shown to users
    runs      \* times the platform sent the SQL to the target database

Open == {"PENDING_REVIEW", "REVIEW_PASS"}
Waiting == {"QUEUING", "TIMING_TASK"}
Result == {"FINISH", "EXCEPTION"}

Init == status = "ABSENT" /\ runs = 0

Move(from, to) == status \in from /\ status' \in to /\ UNCHANGED runs

Submit == Move({"ABSENT"}, {"PENDING_REVIEW"})
Approve == Move({"PENDING_REVIEW"}, {"REVIEW_PASS"})
Reject == Move(Open, {"AUTO_REVIEW_FAIL"})
Cancel == Move({"PENDING_REVIEW"}, {"ABORT"})
Confirm == Move({"REVIEW_PASS"}, Waiting)
RecordExternal == Move({"REVIEW_PASS"}, Result)
Dispatch == Move({"TIMING_TASK"}, {"QUEUING"})
Start == Move(Waiting, {"EXECUTING", "EXCEPTION"})
Run == status = "EXECUTING" /\ runs = 0 /\ runs' = 1 /\ UNCHANGED status
Finish == runs = 1 /\ Move({"EXECUTING"}, Result)

Next == \/ Submit \/ Approve \/ Reject \/ Cancel \/ Confirm
        \/ RecordExternal \/ Dispatch \/ Start \/ Run \/ Finish

Spec == Init /\ [][Next]_<<status, runs>>
============================================================================

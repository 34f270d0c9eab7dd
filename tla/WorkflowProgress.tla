-------------------------- MODULE WorkflowProgress --------------------------
(***************************************************************************)
(* The page of a ticket: a WebSocket that reads the ticket every second    *)
(* and sends its status until that is final, composed with the ticket of   *)
(* SqlWorkflow.  All reads of one socket use one database session, whose   *)
(* identity map returns the object read before with the columns it had;    *)
(* the loop holds that object, and nothing commits, expires or refreshes.  *)
(***************************************************************************)
EXTENDS SqlWorkflowProps

CONSTANT Watchers   \* the pages that may be open

VARIABLE page       \* per page: whether it is connected, the status its session holds

NotRead == "none"
Final == {"FINISH", "EXCEPTION", "ABORT"}

ProgressInit == page = [p \in Watchers |-> [open |-> FALSE, held |-> NotRead]]

\* websocket.accept, with a session of its own.
Connect(p) ==
    /\ ~page[p].open
    /\ page' = [page EXCEPT ![p] = [open |-> TRUE, held |-> NotRead]]

\* SELECT of the ticket: a row that the identity map knows changes no object.
Kept(p) == IF page[p].held = NotRead THEN status ELSE page[p].held

\* One round: read, send, and stop when what was read is final or nothing.
Poll(p) ==
    /\ page[p].open
    /\ page' = [page EXCEPT ![p] = [open |-> Kept(p) \notin Final \cup {"ABSENT"}, held |-> Kept(p)]]

\* WebSocketDisconnect
Disconnect(p) ==
    /\ page[p].open
    /\ page' = [page EXCEPT ![p].open = FALSE]

ProgressStep == \E p \in Watchers : Connect(p) \/ Poll(p) \/ Disconnect(p)

ProgressNext == (Next /\ UNCHANGED page) \/ (ProgressStep /\ UNCHANGED vars)

\* The loop of a page wakes every second; nobody is obliged to open or close one.
ProgressSpec ==
    /\ Init /\ ProgressInit
    /\ [][ProgressNext]_<<vars, page>>
    /\ Fairness
    /\ \A p \in Watchers : WF_<<vars, page>>(Poll(p) /\ UNCHANGED vars)

(***************************************************************************)
(* routers/workflow.py:220: "the status is read every second, until it is  *)
(* final or the client disconnects".  The page of a ticket that ends has   *)
(* its loop end.                                                           *)
(***************************************************************************)
ProgressEnds == \A p \in Watchers : page[p].open /\ status \in Final ~> ~page[p].open
=============================================================================

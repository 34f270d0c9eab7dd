------------------------- MODULE MCWorkflowProgress -------------------------
(* One page on a ticket that one person passes and executes. *)
EXTENDS WorkflowProgress

CONSTANTS dev, dba

OneApprover == [n \in 1..N |-> {dba}]
=============================================================================

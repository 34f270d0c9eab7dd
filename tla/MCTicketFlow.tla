---------------------------- MODULE MCTicketFlow ----------------------------
(* Instances of TicketFlow for TLC. *)
EXTENDS TicketFlow, TLC

CONSTANTS dev, lead, dba

MCUsers == {dev, lead, dba}
\* The last node is the DBA's, every earlier one the team lead's.
MCApprovers == [n \in 1..N |-> IF n = N THEN {dba} ELSE {lead}]
============================================================================

---------------------------- MODULE RowTransfer ----------------------------
(***************************************************************************)
(* What an archive job in mode `dest' promises of the rows it moves: a row *)
(* is copied while, or after, it is in the source table, and the job       *)
(* removes from the source only what the destination has.                  *)
(***************************************************************************)
CONSTANT Rows

VARIABLES source, dest

vars == <<source, dest>>

Init == source \in SUBSET Rows /\ dest = {}

Arrive == \E r \in Rows \ (source \cup dest) : source' = source \cup {r} /\ UNCHANGED dest

Copy == \E S \in SUBSET source : dest' = dest \cup S /\ UNCHANGED source

Remove == \E S \in SUBSET (source \cap dest) : source' = source \ S /\ UNCHANGED dest

Next == Arrive \/ Copy \/ Remove

Spec == Init /\ [][Next]_vars
=============================================================================

-------------------------- MODULE MCArchiveBatches --------------------------
(* Small tables for TLC. *)
EXTENDS ArchiveBatchesAlone, TLC

\* Executions are interchangeable, rows are ordered.
Symmetric == Permutations(Executors)
=============================================================================

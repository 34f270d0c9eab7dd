---------------------------- MODULE MCArchiveJob ----------------------------
(* Instances of ArchiveJob for TLC. *)
EXTENDS ArchiveJobProps, TLC

Symmetric == Permutations(Handlers) \cup Permutations(Workers)
=============================================================================

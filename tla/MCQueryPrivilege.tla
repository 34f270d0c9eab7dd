-------------------------- MODULE MCQueryPrivilege --------------------------
(* Chains of up to two nodes. *)
EXTENDS QueryPrivilegeProps

CONSTANTS ann, bob, dba

Short == <<{ann}>>
Long == <<{ann, bob}, {bob}>>
MCTemplates == {<<>>, Short, Long}
=============================================================================

--------------------------- MODULE GovernanceScope ---------------------------
(***************************************************************************)
(* What a signed-in person may see (backend/app/services/                  *)
(* governance_scope.py).  A person is the record the bearer token is       *)
(* turned into: [id, superuser, role, permissions, resourceGroups]; a team *)
(* is a user group [leader, members, active].  The scope of a person is    *)
(* everything, the instances shared through a resource group, the people   *)
(* of the teams that the person leads, or the person alone.                *)
(***************************************************************************)
EXTENDS Integers, FiniteSets

IsGlobalUser(user, domain) ==
    \/ user.superuser
    \/ user.role \in {"superadmin", "dba"}
    \/ domain = "query" /\ "query_all_instances" \in user.permissions

InstanceRights(domain) ==
    IF domain = "query"
    THEN {"query_mgtpriv", "query_resource_group_instance"}
    ELSE {"sql_execute_for_resource_group"}

HasInstanceScope(user, domain) ==
    \/ user.role = "dba_group"
    \/ user.permissions \cap InstanceRights(domain) # {}

\* The active instances that share a resource group with the person.
SharedInstances(user, active, groupsOf) ==
    {i \in active : groupsOf[i] \cap user.resourceGroups # {}}

\* The person and the enabled members of the active teams the person leads;
\* nobody for a person who leads none.
LedUsers(user, teams, enabled) ==
    LET led == {t \in teams : t.leader = user.id /\ t.active}
    IN  {p \in {user.id} \cup (enabled \cap UNION {t.members : t \in led}) : led # {}}

ScopeOf(mode, people, instances) ==
    [mode |-> mode, people |-> people, instances |-> instances]

ResolveScope(user, domain, active, groupsOf, teams, enabled) ==
    LET led == LedUsers(user, teams, enabled)
    IN  CASE IsGlobalUser(user, domain)     -> ScopeOf("global", {}, {})
          [] HasInstanceScope(user, domain) ->
                 ScopeOf("instance_scope", {}, SharedInstances(user, active, groupsOf))
          [] led # {}                       -> ScopeOf("group", led, {})
          [] OTHER                          -> ScopeOf("self", {user.id}, {})

\* Whether a row of `by' on the instance `on' is in the scope.
InScope(scope, by, on) ==
    \/ scope.mode = "global"
    \/ scope.mode \in {"self", "group"} /\ by \in scope.people
    \/ scope.mode = "instance_scope" /\ on \in scope.instances
==============================================================================

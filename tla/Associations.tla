---------------------------- MODULE Associations ----------------------------
(***************************************************************************)
(* Who belongs where: user_group_member, group_resource_group,             *)
(* instance_resource_group and role_permission.  The tables have no key of *)
(* their own.  An update replaces the rows of one user, group, resource    *)
(* group or role by those asked for: it deletes what it sees, inserts, and *)
(* commits; several updates overlap, from either side of a table.          *)
(***************************************************************************)
EXTENDS Naturals, FiniteSets

CONSTANTS
    Members, Groups, ResourceGroups, Instances, Roles, Codes,
    Builtin,      \* roles that cannot be deleted (is_system)
    Editors,      \* overlapping requests
    MaxUpdates    \* bound: updates begun, deletions, changes of activity

ASSUME BuiltinAssumption == Builtin \subseteq Roles
\* A user is no group, and so on.
ASSUME KindsAssumption ==
    /\ (ResourceGroups \cup Instances) \cap (Members \cup Groups \cup Roles \cup Codes) = {}
ASSUME UpdateAssumption == MaxUpdates \in Nat

VARIABLES
    link,      \* the rows of each table, as pairs
    present,   \* users, groups, ... that exist
    stopped,   \* resource groups and instances that are not active; what was deleted
    editor,    \* what each request has read and will write
    asked,     \* history: the rows as the updates, one after the other, asked
    interfered,   \* history: tables of which two updates overlapped
    torn,      \* history: a row of an import was refused half done
    updates    \* history: updates begun, deletions and changes of activity

linkVars == <<link, present, stopped, editor, asked, interfered, torn, updates>>

Tables == {"member", "scope", "holds", "permits"}
Ends == [member |-> <<Members, Groups>>, scope |-> <<Groups, ResourceGroups>>,
         holds |-> <<ResourceGroups, Instances>>, permits |-> <<Roles, Codes>>]
Pairs(t, side, key, others) == IF side = 1 THEN {key} \X others ELSE others \X {key}
Of(t, side, key) == {p \in link[t] : p[side] = key}
Active == present \ stopped
Same == {"unchanged"}    \* an optional field of an update that is not given

\* An update of one table: the rows it found and will delete, those it inserts,
\* and, for the history, what it may drop and what it wants.
Replacement(t, side, key, others) ==
    [table |-> t, seen |-> Of(t, side, key), inserts |-> Pairs(t, side, key, others),
     drops |-> Pairs(t, side, key, Ends[t][3 - side]), wants |-> Pairs(t, side, key, others)]
\* A list assigned to a relationship: only the difference to what was loaded is written.
Difference(t, side, key, others) ==
    LET whole == Replacement(t, side, key, others)
    IN  [whole EXCEPT !.seen = @ \ whole.wants, !.inserts = @ \ whole.seen]
Parts(optional, part) == IF optional = Same THEN {} ELSE {part}

Count == updates < MaxUpdates /\ updates' = updates + 1

Free == [at |-> "free", parts |-> {}]
OpenUpdate(c, parts, makes, then) ==
    /\ editor' = [editor EXCEPT ![c] = [at |-> "open", parts |-> editor[c].parts \cup parts,
                                        makes |-> makes, then |-> then]]
    /\ interfered' = interfered \cup ({e.table : e \in parts}
                                \cap {e.table : e \in UNION {editor[d].parts : d \in Editors \ {c}}})
    /\ UNCHANGED <<link, present, stopped, asked, torn>>
\* Request c has deleted what it found; `makes' are the rows it adds to other tables.
Begin(c, parts, makes) ==
    /\ editor[c] = Free
    /\ makes \cap stopped = {}    \* a new row has a new number
    /\ Count
    /\ OpenUpdate(c, parts, makes, Free)

LinkInit ==
    /\ present \in {(UNION {Members, Groups, ResourceGroups, Instances, Builtin, Codes}) \ G : G \in {{}, Groups \cup Codes}}
    /\ LET Whole(t) == {p \in Ends[t][1] \X Ends[t][2] : {p[1], p[2]} \subseteq present}
       IN  link \in {[t \in Tables |-> {}], [t \in Tables |-> Whole(t)]}
    /\ stopped = {}
    /\ editor = [c \in Editors |-> Free]
    /\ asked = link /\ interfered = {} /\ torn = FALSE /\ updates = 0
----------------------------------------------------------------------------
\* create_user, update_user: groups that do not exist are passed over.
SaveUser(c, u, gs) ==
    /\ Begin(c, {Replacement("member", 1, u, gs \cap present)}, {u} \ present)

\* _get_active_resource_groups refuses what is stopped or missing.
Linkable(rs) == rs = Same \/ rs \subseteq Active
GroupParts(g, rs, ms) ==
    Parts(rs, Replacement("scope", 1, g, rs)) \cup Parts(ms, Replacement("member", 2, g, ms))
\* create_group, update_group.
SaveGroup(c, g, rs, ms) ==
    /\ Linkable(rs)
    /\ Begin(c, GroupParts(g, rs, ms), {g} \ present)

\* ResourceGroupService.create and update: only active instances, groups that exist.
SaveResourceGroup(c, r, is, gs) ==
    /\ Begin(c, Parts(is, Replacement("holds", 1, r, is \cap Active))
               \cup Parts(gs, Replacement("scope", 2, r, gs \cap present)), {r} \ present)
\* update_rg_user_groups inserts whatever it is given.
SetUserGroups(c, r, gs) ==
    /\ r \in present
    /\ Begin(c, {Replacement("scope", 2, r, gs)}, {})

\* InstanceService.create and update.
SaveInstance(c, i, rs) ==
    /\ Begin(c, {Difference("holds", 2, i, rs \cap present)}, {i} \ present)

\* create_role, update_role, init_builtin_roles: codes that are missing are added.
SaveRole(c, r, ps) ==
    /\ Begin(c, {Replacement("permits", 1, r, ps)}, ({r} \cup ps) \ present)
\* grant_permissions: a missing code is added, and not yet granted; revoke_permissions.
GrantPermissions(c, r, ps) ==
    /\ r \in present
    /\ Begin(c, {[table |-> "permits", seen |-> {}, drops |-> {}, inserts |-> {r} \X (ps \cap present),
               wants |-> {r} \X (ps \cap present)]},
            ps \ present)
RevokePermissions(c, r, ps) ==
    /\ r \in present
    /\ Begin(c, {[table |-> "permits", seen |-> Of("permits", 1, r) \cap ({r} \X ps),
                 drops |-> {r} \X ps, inserts |-> {}, wants |-> {}]}, {})
----------------------------------------------------------------------------
\* import_groups: the row names groups that are active and users that exist.
ResolveRow(c, g, rs, ms) ==
    /\ editor[c].at \in {"free", "between"}
    /\ Linkable(rs) /\ ms \subseteq present /\ g \notin stopped
    /\ Count
    /\ editor' = [editor EXCEPT ![c] = [at |-> "resolved", parts |-> editor[c].parts,
                                        group |-> g, rs |-> rs, ms |-> ms]]
    /\ UNCHANGED <<link, present, stopped, asked, interfered, torn>>
Between(parts) == [at |-> "between", parts |-> parts]
\* It is then written as by update_group, and committed, row by row.
WriteRow(c) ==
    /\ editor[c].at = "resolved" /\ Linkable(editor[c].rs)
    /\ OpenUpdate(c, GroupParts(editor[c].group, editor[c].rs, editor[c].ms),
            {editor[c].group} \ present, Between({}))
    /\ UNCHANGED updates
\* Refused, because a resource group was stopped meanwhile, after the first DELETE:
\* that stays in the transaction.
RefuseRow(c) ==
    /\ editor[c].at = "resolved" /\ ~Linkable(editor[c].rs)
    /\ LET deleted == [Replacement("scope", 1, editor[c].group, {}) EXCEPT !.drops = {}]
       IN  editor' = [editor EXCEPT ![c] = Between(editor[c].parts \cup {deleted})]
    /\ torn' = TRUE
    /\ UNCHANGED <<link, present, stopped, asked, interfered, updates>>
\* The commit at the end of the import.
EndImport(c) ==
    /\ editor[c].at = "between"
    /\ editor' = [editor EXCEPT ![c] = [at |-> "open", parts |-> editor[c].parts, makes |-> {}, then |-> Free]]
    /\ UNCHANGED <<link, present, stopped, asked, interfered, torn, updates>>
----------------------------------------------------------------------------
\* The rows that are gone, or inserted anew, are not those another request saw.
Forget(rows) ==
    [c \in Editors |->
        [editor[c] EXCEPT !.parts = {[e EXCEPT !.seen = @ \ rows[e.table]] : e \in @}]]
Union(parts, t, rows(_)) == UNION {rows(e) : e \in {p \in parts : p.table = t}}
\* Mutant of Written: the rows found stay.
WrittenOnTop(parts) ==
    LET Inserts(e) == e.inserts IN [t \in Tables |-> link[t] \cup Union(parts, t, Inserts)]
Written(parts) ==
    LET Seen(e) == e.seen
        Inserts(e) == e.inserts
    IN  [t \in Tables |-> (link[t] \ Union(parts, t, Seen)) \cup Union(parts, t, Inserts)]
Asked(parts) ==
    LET Drops(e) == e.drops
        Wants(e) == e.wants
        Exist(rows) == {p \in rows : {p[1], p[2]} \subseteq present'}
    IN  [t \in Tables |-> (asked[t] \ Union(parts, t, Drops)) \cup Exist(Union(parts, t, Wants))]
Touched(parts) ==
    LET Rows(e) == e.seen \cup e.inserts IN [t \in Tables |-> Union(parts, t, Rows)]
\* Names are unique, and foreign keys refer to rows that exist.
Accepted(parts, makes) ==
    /\ makes \cap present = {}
    /\ \A e \in parts : \A p \in e.inserts : {p[1], p[2]} \subseteq present \cup makes

CommitUpdate(c) ==
    /\ editor[c].at = "open" /\ Accepted(editor[c].parts, editor[c].makes)
    /\ link' = Written(editor[c].parts)
    /\ present' = present \cup editor[c].makes
    /\ asked' = Asked(editor[c].parts)
    /\ editor' = [Forget(Touched(editor[c].parts)) EXCEPT ![c] = editor[c].then]
    /\ UNCHANGED <<stopped, interfered, torn, updates>>
\* The database refuses, or the request ends otherwise: nothing of the transaction stays.
Abandon(c) ==
    /\ editor[c].at # "free"
    /\ editor' = [editor EXCEPT ![c] = Free]
    /\ UNCHANGED <<link, present, stopped, asked, interfered, torn, updates>>

Toggle(x) ==
    /\ x \in present \cap ResourceGroups /\ Count
    /\ stopped' = IF x \in stopped THEN stopped \ {x} ELSE stopped \cup {x}
    /\ UNCHANGED <<link, present, editor, asked, interfered, torn>>
\* InstanceService.delete: an instance without resource groups becomes inactive.
StopInstance(i) ==
    /\ i \in present \cap Instances /\ Of("holds", 2, i) = {} /\ Count
    /\ stopped' = stopped \cup {i}
    /\ UNCHANGED <<link, present, editor, asked, interfered, torn>>
\* A user, group, resource group or role is deleted, with its rows in these tables.
DeleteOwner(x) ==
    /\ x \in present \ (Instances \cup Codes \cup Builtin) /\ Count
    /\ LET Rows(t) == {p \in Ends[t][1] \X Ends[t][2] : x \in {p[1], p[2]}}
           rows == [t \in Tables |-> Rows(t)]
       IN  /\ link' = [t \in Tables |-> link[t] \ rows[t]]
           /\ asked' = [t \in Tables |-> asked[t] \ rows[t]]
           /\ editor' = Forget(rows)
    /\ present' = present \ {x} /\ stopped' = stopped \cup {x}
    /\ UNCHANGED <<interfered, torn>>

Optional(S) == {Same} \cup SUBSET S
LinkNext ==
    \/ \E c \in Editors :
        \/ \E u \in Members, gs \in SUBSET Groups : SaveUser(c, u, gs)
        \/ \E g \in Groups, rs \in Optional(ResourceGroups), ms \in Optional(Members) :
              SaveGroup(c, g, rs, ms)
        \/ \E g \in Groups, rs \in SUBSET ResourceGroups, ms \in SUBSET Members : ResolveRow(c, g, rs, ms)
        \/ \E r \in ResourceGroups, is \in Optional(Instances), gs \in Optional(Groups) :
              SaveResourceGroup(c, r, is, gs)
        \/ \E r \in ResourceGroups, gs \in SUBSET Groups : SetUserGroups(c, r, gs)
        \/ \E i \in Instances, rs \in SUBSET ResourceGroups : SaveInstance(c, i, rs)
        \/ \E r \in Roles, ps \in SUBSET Codes : SaveRole(c, r, ps) \/ GrantPermissions(c, r, ps) \/ RevokePermissions(c, r, ps)
        \/ WriteRow(c) \/ RefuseRow(c) \/ EndImport(c) \/ CommitUpdate(c) \/ Abandon(c)
    \/ \E x \in present : Toggle(x) \/ StopInstance(x) \/ DeleteOwner(x)

LinkSpec == LinkInit /\ [][LinkNext]_linkVars
----------------------------------------------------------------------------
(***************************************************************************)
(* What is linked is what the updates, taken one after the other as they   *)
(* committed, asked for: none is lost, and where none overlapped nothing   *)
(* else remains (role.py 121: an import replaces all members of a group).  *)
(* Two exceptions: an instance's list writes a difference, which another   *)
(* update may make stale, and a row of an import may be refused half done. *)
(***************************************************************************)
LinkedAsAsked ==
    \A t \in Tables :
        /\ t = "holds" \/ torn \/ asked[t] \subseteq link[t]
        /\ t \in interfered \/ torn \/ link[t] = asked[t]
=============================================================================

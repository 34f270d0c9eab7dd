----------------------------- MODULE QueryAccess -----------------------------
(***************************************************************************)
(* An online query, from the statement to the masked rows: the guard of    *)
(* its engine, the privileges that let it pass and limit it, the target,   *)
(* the masking rules, the query log.  Every step reads committed rows of   *)
(* its own, so privileges, rules and registrations change in between.      *)
(*                                                                         *)
(* One user asks; privileges are that user's, on one instance whose chosen *)
(* database is Chosen.                                                     *)
(***************************************************************************)
EXTENDS Naturals, Sequences
Sets == INSTANCE FiniteSetsExt

CONSTANTS
    Askers,    \* query requests
    Schemas,     \* databases and schemas a reference may name
    Chosen,      \* the database the request names
    Unqualified, \* no schema
    QueryTables,
    Questions,  \* what may be asked: kind and tables referred to
    Portfolios,  \* privileges the user may start with, in order of creation
    Offers,      \* privileges that may be granted meanwhile
    Rules,       \* masking rules
    Matches(_),  \* rule -> the columns of the answer whose name it matches
    MostRows,    \* bound: rows a target answers, limits
    LastDay,     \* bound: days are 1..LastDay
    MaxAccessChanges   \* bound: changes while somebody asks

ASSUME AccessBounds ==
    MostRows \in Nat \ {0} /\ LastDay \in Nat \ {0} /\ MaxAccessChanges \in Nat

\* Tables as a statement refers to them.
Refs == [schema : Schemas \cup {Unqualified}, table : QueryTables]
ASSUME StatementAssumption == \A s \in Questions : s.refs \subseteq Refs

\* A row of query_privilege; a limit is at least 1 (schemas/query.py 76).
Privileges ==
    [scope : {"instance", "database", "table"}, db : Schemas, name : Refs, limit : Nat \ {0},
     until : Nat, revoked : BOOLEAN]
ASSUME PrivilegeAssumption ==
    Offers \subseteq Privileges /\ \A own \in Portfolios : own \in Seq(Privileges)
ASSUME ChosenIsSchema == Chosen \in Schemas /\ Unqualified \notin Schemas

VARIABLES
    dialect,  \* sql_instance.db_type: "pgsql" or another
    places,   \* the target: schemas in which a table exists (PostgreSQL)
    standing, \* the user: what they may do without a privilege
    shared,   \* a resource group of the user holds the instance
    enabled,  \* sql_instance.is_active
    listed,   \* instance_database.is_active of Chosen
    grants,   \* query_privilege, in order of creation
    rules,    \* masking_rule.is_active
    today,
    asking,    \* what each request has read, in which step it is
    log,      \* query_log: the rows each request has left
    accessChanges  \* history: changes so far

accessVars == <<dialect, places, standing, shared, enabled, listed, grants, rules, today,
                asking, log, accessChanges>>
target == <<dialect, places>>
platform == <<standing, shared, enabled, listed, grants, rules, today, accessChanges>>
----------------------------------------------------------------------------
\* validate: read-only prefixes, one statement, no EXPLAIN ANALYZE, and after
\* parsing nothing that writes, locks or has a side effect.
Allowed(kind) == kind \in {"select", "show", "explain"}

\* _table_refs_from_tree: a table without a schema is one of the chosen
\* database, except on PostgreSQL.
Resolve(ref) ==
    IF ref.schema = Unqualified /\ dialect # "pgsql" THEN [ref EXCEPT !.schema = Chosen] ELSE ref
----------------------------------------------------------------------------
InForce == {g \in DOMAIN grants : ~grants[g].revoked /\ grants[g].until >= today}
Bare(table) == [schema |-> Unqualified, table |-> table]
HasInstance == \E g \in InForce : grants[g].scope = "instance"
HasDatabase(d) ==
    HasInstance \/ \E g \in InForce : grants[g].scope = "database" /\ grants[g].db = d
HasTable(d, names) ==
    \/ HasInstance
    \/ \E g \in InForce : grants[g].scope = "table" /\ grants[g].db = d /\ grants[g].name \in names

Everything(who) == who \in {"superuser", "all"}
\* user_has_query_bypass
Bypasses(who, linked) == Everything(who) \/ (who = "group" /\ linked)
\* user_has_instance_access
Reaches(who, linked) == Everything(who) \/ linked

\* The names under which a privilege may list a PostgreSQL table found there.
Candidates(schema, table) ==
    {Bare(table)} \cup {[schema |-> s, table |-> table] : s \in {schema} \cap Schemas}
Where(ref, found) == IF ref.schema = Unqualified THEN found[ref.table] ELSE {ref.schema}
\* The one schema of a set with at most one, or none.
Only(S) == IF S = {} THEN Unqualified ELSE CHOOSE s \in S : TRUE
Ambiguous(S) == \E s, t \in S : s # t

\* check_query_priv, of one table: a privilege on the chosen database covers
\* every table of the statement.
Covered(ref, found) ==
    \/ HasDatabase(Chosen)
    \/ IF dialect = "pgsql"
       THEN LET at == Where(ref, found)
            IN  ~Ambiguous(at) /\ HasTable(Chosen, Candidates(Only(at), ref.table))
       ELSE HasTable(ref.schema, {Bare(ref.table)})

\* check_query_priv: identity, resource groups, privileges.
Admitted(who, linked, refs, found) ==
    \/ Bypasses(who, linked)
    \/ /\ Reaches(who, linked)
       /\ IF refs = {} THEN HasDatabase(Chosen) ELSE \A r \in refs : Covered(r, found)

\* _latest_limit: the limit of the newest of these privileges, none if there
\* is none.
Newest(G) == IF G = {} THEN {} ELSE {grants[Sets!Max(G)].limit}
OfScope(scope) == {g \in InForce : grants[g].scope = scope}
OfDatabaseScope(d) == {g \in OfScope("database") : grants[g].db = d}
OfTable(d, names) == {g \in OfScope("table") : grants[g].db = d /\ grants[g].name \in names}
\* The first that is not empty.
Or(A, B) == IF A = {} THEN B ELSE A

\* Mutant of LimitsOf: privileges on the instance do not limit.
LimitsOfNarrower(ref, found) ==
    LET at == Where(ref, found)
        d == IF dialect = "pgsql" THEN Chosen ELSE ref.schema
        names == IF dialect = "pgsql" THEN Candidates(Only(at), ref.table) ELSE {Bare(ref.table)}
    IN  IF dialect = "pgsql" /\ Ambiguous(at) THEN {}
        ELSE Or(Newest(OfTable(d, names)), Newest(OfDatabaseScope(d)))
\* get_effective_query_limit, of one table: the narrowest scope that has a
\* privilege; a table found in several schemas is not limited.
LimitsOf(ref, found) ==
    LET at == Where(ref, found)
        d == IF dialect = "pgsql" THEN Chosen ELSE ref.schema
        names == IF dialect = "pgsql" THEN Candidates(Only(at), ref.table) ELSE {Bare(ref.table)}
    IN  IF dialect = "pgsql" /\ Ambiguous(at) THEN {}
        ELSE Or(Newest(OfTable(d, names)), Or(Newest(OfDatabaseScope(d)), Newest(OfScope("instance"))))

\* get_effective_query_limit
Limit(who, linked, refs, found, wanted) ==
    IF Bypasses(who, linked) THEN wanted
    ELSE Sets!Min({wanted} \cup
             IF refs = {} THEN Newest(OfDatabaseScope(Chosen)) \cup Newest(OfScope("instance"))
             ELSE UNION {LimitsOf(r, found) : r \in refs})
----------------------------------------------------------------------------
\* list_data_dict_tables, for a user without a bypass: what the pages of the
\* data dictionary list of the chosen database.
Dictionary ==
    IF HasDatabase(Chosen) THEN {Bare(t) : t \in QueryTables}
    ELSE {grants[g].name : g \in {h \in OfScope("table") : grants[h].db = Chosen}}

\* check_data_dict_access, of a table of the chosen database.
DictionaryShows(name) ==
    \/ HasDatabase(Chosen)
    \/ HasTable(Chosen, IF dialect = "pgsql" THEN Candidates(name.schema, name.table)
                        ELSE {name, [name EXCEPT !.schema = Chosen]})
----------------------------------------------------------------------------
Fresh == [step |-> "new", refs |-> {}, want |-> 0, slice |-> 0,
          linked |-> FALSE, limit |-> 0, rows |-> 0, affected |-> 0, masked |-> {},
          answer |-> "none", found |-> [t \in QueryTables |-> {}], backed |-> {}, steady |-> FALSE,
          kept |-> {}, unlogged |-> FALSE]

AccessInit ==
    /\ dialect \in {"mysql", "pgsql"}
    /\ places \in [QueryTables -> IF dialect = "pgsql" THEN SUBSET Schemas ELSE {{}}]
    /\ standing \in {"superuser", "all", "group", "nobody"}
    /\ shared \in BOOLEAN
    /\ enabled = TRUE /\ listed = TRUE
    /\ grants \in Portfolios
    /\ rules \in [Rules -> BOOLEAN]
    /\ today = 1
    /\ asking = [r \in Askers |-> Fresh]
    /\ log = [r \in Askers |-> <<>>]
    /\ accessChanges = 0

At(r, step) == asking[r].step = step
\* The request goes on to this step with these fields changed.
Move(r, step, changed) ==
    /\ asking' = [asking EXCEPT ![r] =
                   [f \in DOMAIN Fresh |-> IF f = "step" THEN step
                                           ELSE IF f \in DOMAIN changed THEN changed[f] ELSE @[f]]]
    /\ UNCHANGED <<target, platform, log>>
Unchanged == [f \in {} |-> 0]
Refuse(r) == Move(r, "refuse", Unchanged)
\* What is left of a request once it is answered.
Finish(r, answer, unlogged) ==
    asking' = [asking EXCEPT ![r] = [Fresh EXCEPT !.step = "done", !.answer = answer, !.rows = asking[r].rows,
                                                !.masked = asking[r].masked, !.kept = asking[r].kept,
                                                !.unlogged = unlogged]]

\* _load_instance, current_user, guard.validate.
Ask(r, statement, want, slice) ==
    /\ At(r, "new")
    /\ IF enabled /\ Allowed(statement.kind)
       THEN Move(r, "check", [refs |-> {Resolve(x) : x \in statement.refs}, want |-> want,
                              slice |-> slice, linked |-> shared,
                              kept |-> {x \in Rules : rules[x]}])
       ELSE Refuse(r)

\* _get_pg_table_schema_map: an error of the target is an empty answer.
Resolutions == {places, [t \in QueryTables |-> {}]}

\* check_query_priv
Check(r) ==
    /\ At(r, "check")
    /\ \E found \in Resolutions :
         IF Admitted(standing, asking[r].linked, asking[r].refs, found)
         THEN Move(r, "database", [found |-> found, backed |-> InForce])
         ELSE Refuse(r)

\* The chosen database must be registered and enabled, unless for a superuser.
CheckDatabase(r) ==
    /\ At(r, "database")
    /\ IF standing = "superuser" \/ listed THEN Move(r, "limit", Unchanged) ELSE Refuse(r)

\* get_effective_query_limit
SetLimit(r) ==
    /\ At(r, "limit")
    /\ \E found \in Resolutions :
         Move(r, "ask", [limit |-> Limit(standing, asking[r].linked, asking[r].refs, found,
                                         asking[r].want),
                         steady |-> found = asking[r].found /\ InForce = asking[r].backed])

\* engine.query, of a statement that may have a limit of its own, and the rows
\* beyond the limit cut off.
Query(r) ==
    /\ At(r, "ask")
    /\ \/ \E n \in 0..MostRows :
            Move(r, "mask", [rows |-> IF asking[r].limit > 0 THEN Sets!Min({n, asking[r].limit}) ELSE n])
       \/ Refuse(r)

\* mask_result: each rule masks the first column whose name it matches.
Hidden(on) == {Sets!Min(Matches(x)) : x \in {y \in on : Matches(y) # {}}}
Slice(r) == IF asking[r].slice = 0 THEN asking[r].rows ELSE Sets!Min({asking[r].rows, asking[r].slice})
\* affected_rows of what is answered.
Affected(r) == Slice(r)

\* get_rules_for_instance, mask_result, and the slice of an export.
MaskRows(r) ==
    /\ At(r, "mask")
    /\ Move(r, "log", [rows |-> Slice(r), affected |-> Affected(r),
                       masked |-> IF asking[r].rows = 0 THEN {} ELSE Hidden({x \in Rules : rules[x]})])

\* mask_result changes the rows in place and returns the object it was given.
Reported(r) == FALSE

\* write_log, whose failure is only logged by the process, and the answer.
Log(r) ==
    /\ At(r, "log")
    /\ Finish(r, "rows", FALSE)
    /\ log' = [log EXCEPT ![r] = Append(@, [ok |-> TRUE, rows |-> asking[r].affected,
                                            masking |-> Reported(r)])]
    /\ UNCHANGED <<target, platform>>
LogFails(r) ==
    /\ At(r, "log")
    /\ Finish(r, "rows", TRUE)
    /\ UNCHANGED <<target, platform, log>>

\* _write_failed_query_log after an HTTPException: the failure is logged, too.
LogRefusal(r) ==
    /\ At(r, "refuse")
    /\ Finish(r, "refusal", FALSE)
    /\ log' = [log EXCEPT ![r] = Append(@, [ok |-> FALSE, rows |-> 0, masking |-> FALSE])]
    /\ UNCHANGED <<target, platform>>
LogRefusalFails(r) ==
    /\ At(r, "refuse")
    /\ Finish(r, "refusal", TRUE)
    /\ UNCHANGED <<target, platform, log>>
----------------------------------------------------------------------------
\* Bound: the platform changes only as long as somebody asks, MaxAccessChanges times.
ChangeAccess ==
    /\ \E r \in Askers : ~At(r, "done")
    /\ accessChanges < MaxAccessChanges /\ accessChanges' = accessChanges + 1

\* audit_apply passes the last node (module QueryPrivilege).
GrantAccess(g) ==
    /\ ChangeAccess
    /\ grants' = Append(grants, g)
    /\ UNCHANGED <<target, standing, shared, enabled, listed, rules, today, asking, log>>
\* revoke_privilege
RevokeAccess(g) ==
    /\ ChangeAccess /\ ~grants[g].revoked
    /\ grants' = [grants EXCEPT ![g].revoked = TRUE]
    /\ UNCHANGED <<target, standing, shared, enabled, listed, rules, today, asking, log>>
NextDay ==
    /\ ChangeAccess /\ today < LastDay
    /\ today' = today + 1
    /\ UNCHANGED <<target, standing, shared, enabled, listed, grants, rules, asking, log>>

\* create_rule, update_rule, delete_rule: whether the rule is in force.
ChangeRule(x) ==
    /\ ChangeAccess
    /\ rules' = [rules EXCEPT ![x] = ~@]
    /\ asking' = [r \in Askers |-> [asking[r] EXCEPT !.kept = @ \ {x}]]
    /\ UNCHANGED <<target, standing, shared, enabled, listed, grants, today, log>>
\* A database or an instance is disabled or enabled, a resource group joined or left.
ChangeInstance ==
    /\ ChangeAccess
    /\ \/ listed' = ~listed /\ UNCHANGED <<enabled, shared>>
       \/ enabled' = ~enabled /\ UNCHANGED <<listed, shared>>
       \/ shared' = ~shared /\ UNCHANGED <<listed, enabled>>
    /\ UNCHANGED <<target, standing, grants, rules, today, asking, log>>
----------------------------------------------------------------------------
AccessNext ==
    \/ \E r \in Askers, s \in Questions, slice \in 0..1 : Ask(r, s, MostRows, slice)
    \/ \E r \in Askers :
         \/ Check(r) \/ CheckDatabase(r) \/ SetLimit(r) \/ Query(r) \/ MaskRows(r)
         \/ Log(r) \/ LogFails(r) \/ LogRefusal(r) \/ LogRefusalFails(r)
    \/ \E g \in Offers : GrantAccess(g)
    \/ \E g \in DOMAIN grants : RevokeAccess(g)
    \/ NextDay \/ ChangeInstance \/ \E x \in Rules : ChangeRule(x)

AccessSpec == AccessInit /\ [][AccessNext]_accessVars
----------------------------------------------------------------------------
\* Every table of the statement is in the chosen database, and found once.
LimitKnown(r) ==
    \A x \in asking[r].refs :
        IF dialect = "pgsql" THEN ~Ambiguous(Where(x, asking[r].found)) ELSE x.schema = Chosen

(***************************************************************************)
(* Without a bypass, a statement about tables of the chosen database is    *)
(* answered with no more rows than one of the privileges in force allows,  *)
(* when these did not change between the check and the limit               *)
(* (query_priv.py 494-573 and 596-686 search the same privileges twice, by *)
(* different rules).  Tables of other databases, and PostgreSQL tables     *)
(* found in several schemas, are not limited.                              *)
(***************************************************************************)
LimitedByPrivilege ==
    \A r \in Askers :
        At(r, "log") /\ asking[r].steady /\ LimitKnown(r)
            /\ ~Bypasses(standing, asking[r].linked) =>
            \E g \in asking[r].backed : asking[r].rows <= grants[g].limit

(***************************************************************************)
(* A rule that was in force throughout a request has masked the first      *)
(* column it matches, and every answer and every refusal leaves one row in *)
(* the log, with the rows that were answered, also by an export that       *)
(* slices them (routers/query.py 116-150, 184-219).                        *)
(***************************************************************************)
AnsweredAsLogged ==
    \A r \in Askers : At(r, "done") =>
        /\ asking[r].answer = "rows" /\ asking[r].rows > 0 => Hidden(asking[r].kept) \subseteq asking[r].masked
        /\ Len(log[r]) = IF asking[r].unlogged THEN 0 ELSE 1
        /\ \A l \in DOMAIN log[r] :
             log[r][l].ok = (asking[r].answer = "rows") /\ log[r][l].rows = asking[r].rows

(***************************************************************************)
(* What the data dictionary lists of the chosen database it also shows,    *)
(* and a query of it passes, unless PostgreSQL finds the table in several  *)
(* schemas (query_priv.py 386-465 against 494-573).                        *)
(***************************************************************************)
ListedIsQueryable ==
    standing = "nobody" /\ shared =>
        \A name \in Dictionary :
            name.schema = Unqualified \/ dialect = "pgsql" =>
                /\ DictionaryShows(name)
                /\ ~Ambiguous(Where(name, places)) => Admitted(standing, shared, {Resolve(name)}, places)

(***************************************************************************)
(* Requests keep all three while privileges, rules and the registration of *)
(* the database change under them.                                         *)
(***************************************************************************)
AnswersAreAllowed == LimitedByPrivilege /\ AnsweredAsLogged /\ ListedIsQueryable
=============================================================================

---------------------------- MODULE MCOperations ----------------------------
(***************************************************************************)
(* What is watched, asked and listed, in one run: nine parts, each alone.  *)
(* They share no state: the first state chooses the part that runs, and of *)
(* the others one initial state is enough.                                 *)
(***************************************************************************)
EXTENDS InstanceRegistry, MonitorCollection, MonitorGrants, SlowLog, SessionSampling, SessionKill, QueryAccess,
        Dashboards, TicketLists, TLC

CONSTANTS
    Modelled, \* the parts that may run
    r1, r2,   \* two requests, beats, reviewers, ...: the same names for all parts
    h1, h2,   \* two instances
    ann, bob, cat, none, i1, i2, q1, n1, app, f1, f2, sales, orders, stock, wide

VARIABLE part

\* SlowLog: a statement of the platform, an entry of another engine.
Entered(id, i, print, took, minute) ==
    [id |-> id, inst |-> i, db |-> app, print |-> print, took |-> took, minute |-> minute]
OneStatement == {Entered(q1, i1, f1, 1, FALSE)}
OneNative == {Entered(n1, i2, f2, 2, TRUE)}
\* QueryAccess: a wide rule matches two columns.
Columns(rule) == {1, 2}
Ref(schema) == [schema |-> schema, table |-> orders]
FourQuestions ==
    {[kind |-> "write", refs |-> {Ref(none)}], [kind |-> "show", refs |-> {}],
     [kind |-> "select", refs |-> {Ref(none)}], [kind |-> "select", refs |-> {Ref(sales), Ref(stock)}]}
Offer(scope, db, ref, limit, until) ==
    [scope |-> scope, db |-> db, name |-> ref, limit |-> limit, until |-> until, revoked |-> FALSE]
SomePortfolios ==
    {<<Offer("instance", sales, Ref(none), 1, 2), Offer("table", stock, Ref(none), 2, 2)>>,
     <<Offer("table", sales, Ref(none), 2, 2), Offer("database", sales, Ref(none), 1, 1)>>}
OneOffer == {Offer("table", sales, Ref(none), 1, 2)}
\* Dashboards: a leader of a group, somebody without rights, a DBA of the instance's group.
Reader(id, role, groups) ==
    [id |-> id, superuser |-> FALSE, role |-> role, permissions |-> {}, resourceGroups |-> groups]
ThreeReaders == {Reader(bob, "developer", {}), Reader(cat, "developer", {}), Reader("dbi", "dba_group", {"g1"})}
GroupsOfMachines == [m \in {i1} |-> {"g1"}]
OneTeam == {[leader |-> bob, members |-> {ann, bob}, active |-> TRUE]}
\* TicketLists: the powers that the lists, the buttons and the nodes ask for.
SomeRanks ==
    {{}, {"superuser"}, {"sql_review", "manager"}, {"archive_review"}, {"query_review", "sql_execute"},
     {"archive_execute", "resource_group"}, {"role", "users"}}
SomeChains == {<<"any_reviewer">>, <<"manager", "any_reviewer">>, <<"role">>, <<"users", "any_reviewer">>}

OperationsInit ==
    /\ part \in Modelled
    /\ part # "registry" => visible = {} /\ registered = [n \in Databases |-> Unregistered]
    /\ RegistryInit
    /\ CollectInit
    /\ part # "grants" => grouped = {}
    /\ GrantsInit
    /\ part # "slow" => policy = [i \in Sources |-> NoPolicy]
    /\ SlowInit
    /\ SamplingInit
    /\ part # "kill" => brand = "mysql"
    /\ KillInit
    /\ part # "query" => /\ dialect = "mysql" /\ places = [x \in QueryTables |-> {}] /\ standing = "nobody"
                         /\ shared = FALSE /\ grants = (CHOOSE own \in Portfolios : TRUE) /\ rules = [r \in Rules |-> FALSE]
    /\ AccessInit
    /\ part # "overviews" => kind = "sql"
    /\ DashInit
    /\ part # "lists" => powers = [p \in Staff |-> {}]
    /\ ListsInit

\* Part p takes a step, the others do not.
Turns(p) ==
    /\ part = p /\ UNCHANGED part
    /\ p # "registry" => UNCHANGED registryVars
    /\ p # "collect" => UNCHANGED collectVars
    /\ p # "grants" => UNCHANGED grantVars
    /\ p # "slow" => UNCHANGED slowVars
    /\ p # "sampling" => UNCHANGED samplingVars
    /\ p # "kill" => UNCHANGED killVars
    /\ p # "query" => UNCHANGED accessVars
    /\ p # "overviews" => UNCHANGED dash_vars
    /\ p # "lists" => UNCHANGED lists_vars

RegistryStep == Turns("registry") /\ RegistryNext
CollectStep == Turns("collect") /\ CollectNext
GrantsStep == Turns("grants") /\ GrantsNext
SlowStep == Turns("slow") /\ SlowNext
SamplingStep == Turns("sampling") /\ SamplingNext
KillStep == Turns("kill") /\ KillNext
QueryStep == Turns("query") /\ AccessNext
OverviewsStep == Turns("overviews") /\ DashNext
ListsStep == Turns("lists") /\ ListsNext

OperationsNext ==
    \/ RegistryStep \/ CollectStep \/ GrantsStep \/ SlowStep \/ SamplingStep
    \/ KillStep \/ QueryStep \/ OverviewsStep \/ ListsStep

OperationsVars == <<part, registryVars, collectVars, grantVars, slowVars, samplingVars, killVars, accessVars,
                     dash_vars, lists_vars>>
OperationsSpec == OperationsInit /\ [][OperationsNext]_OperationsVars

\* Requests are interchangeable, and so are instances.
Symmetry == Permutations({r1, r2}) \cup Permutations({h1, h2})
=============================================================================

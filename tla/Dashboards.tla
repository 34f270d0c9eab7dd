------------------------------ MODULE Dashboards -----------------------------
(***************************************************************************)
(* The overviews of SQL tickets, of queries and of archive jobs            *)
(* (backend/app/services/monitor.py, DashboardService), over rows that the *)
(* rest of the platform writes.  A row is a ticket, an application for a   *)
(* query privilege or an archive job, as `kind' says.  A time is the       *)
(* number of its day: `created < end of day d' is created <= d.            *)
(***************************************************************************)
EXTENDS GovernanceScope
Sums == INSTANCE FiniteSetsExt

CONSTANTS
    Rows,          \* tickets, applications or jobs
    Readers,       \* the people who open an overview, as GovernanceScope has them
    Owners,        \* ids of the people who submit
    Approvers,     \* ids of the people whom every chain waits for
    Machines,      \* instances
    MachineGroups, \* [Machines -> sets of resource groups]
    Teams,         \* user groups
    EnabledUsers,  \* ids of the users that are active
    Days,          \* the length of the overview's period
    LastDate,      \* bound: the last day
    MaxAsked,      \* bound: queries logged
    MaxSwitched,   \* bound: times an instance is enabled or disabled
    NoRow

ASSUME DashboardAssumption ==
    /\ IsFiniteSet(Rows)
    /\ Days \in Nat \ {0}
    /\ LastDate \in Nat
    /\ MaxAsked \in Nat
    /\ MaxSwitched \in Nat

\* What is kept of a row; `updated' and `finished' are days, as `created' is.
RowRecords ==
    [by : Owners, on : Machines, type : {"sql", "archive"},
     status : {"pending", "passed", "rejected", "canceled", "queuing", "executing", "finish", "exception",
               "approved", "queued", "running", "paused", "success", "failed"},
     ticket : {"pending", "passed", "reject", "cancel"},
     created : 0..LastDate, updated : 0..LastDate, finished : 0..LastDate]
ASSUME NoRowAssumption == NoRow \notin RowRecords

VARIABLES
    kind,      \* "sql", "query" or "job": which rows there are
    date,      \* today
    rows,      \* [Rows -> row or NoRow]
    wlogs,     \* workflow_log: [row, op, final, who, day]; `final' says that the
               \* remark is the one written for a last signature
    asks,      \* query_log
    withdrawn, \* query privileges that were revoked: [row, day]
    up,        \* active instances
    switched,  \* how often an instance was switched
    waiting    \* history: [day -> the rows that were pending at its end]

dash_vars == <<kind, date, rows, wlogs, asks, withdrawn, up, switched, waiting>>

DashInit ==
    /\ kind \in {"sql", "query", "job"}
    /\ date = 0
    /\ rows = [r \in Rows |-> NoRow]
    /\ wlogs = {} /\ asks = {} /\ withdrawn = {}
    /\ up = Machines /\ switched = 0
    /\ waiting = [d \in 0..LastDate |-> {}]

Filed == {r \in Rows : rows[r] # NoRow}
Have(states) == {r \in Filed : rows[r].status \in states}

------------------------------------------------------------------------------
(* How rows move, as far as the overviews tell it.                          *)

\* The execution of a ticket and of a job; their ends stamp finished_at.
Moves ==
    [sql   |-> {<<"passed", "queuing">>, <<"queuing", "executing">>,
                <<"executing", "finish">>, <<"executing", "exception">>},
     query |-> {},
     job   |-> {<<"approved", "queued">>, <<"queued", "running">>,
                <<"running", "paused">>, <<"paused", "queued">>,
                <<"running", "success">>, <<"running", "failed">>}
               \cup {<<s, "canceled">> : s \in {"approved", "queued", "running", "paused"}}]
EndStates == {"finish", "exception", "success", "failed", "canceled"}
ActiveStates == {"pending", "approved", "queued", "running", "paused"}

\* What a decision makes of a row.  The rejection of its ticket leaves an archive
\* job as it is.
Verdict(r, op) ==
    CASE op = "cancel"                 -> "canceled"
      [] kind = "job" /\ op = "reject" -> rows[r].status
      [] kind = "job"                  -> "approved"
      [] OTHER                         -> IF op = "pass" THEN "passed" ELSE "rejected"

OpenRow(r, by, on, type) ==
    /\ rows[r] = NoRow
    /\ (type = "archive" => kind = "sql")
    /\ rows' = [rows EXCEPT ![r] =
                  [by |-> by, on |-> on, type |-> type, status |-> "pending",
                   ticket |-> "pending", created |-> date, updated |-> date, finished |-> date]]
    /\ UNCHANGED <<kind, date, wlogs, asks, withdrawn, up, switched, waiting>>

LogRow(r, op, final, who) ==
    [row |-> r, op |-> op, final |-> final, who |-> who, day |-> date]

\* A signature before the last one changes the chain and its log, not the ticket.
SignNode(r, who) ==
    /\ kind # "query" /\ r \in Have({"pending"})
    /\ ~\E l \in wlogs : l.row = r
    /\ wlogs' = wlogs \cup {LogRow(r, "pass", FALSE, who)}
    /\ UNCHANGED <<kind, date, rows, asks, withdrawn, up, switched, waiting>>

StampRow(r, to, ticket) ==
    rows' = [rows EXCEPT ![r].status = to, ![r].ticket = ticket, ![r].updated = date,
                         ![r].finished = IF to \in EndStates THEN date ELSE @]

\* The last signature, a rejection, or the withdrawal by the person who
\* submitted, which nothing may precede.  A ticket that is passed may still be
\* rejected, by whoever may call the operation.  The remark of a person who signs
\* takes the place of the one written for a last signature.  An application's
\* decision is kept in its chain and leaves no row in workflow_log.
MayDecide(r, op, who) ==
    CASE op = "cancel" -> /\ rows[r].ticket = "pending" /\ who = rows[r].by
                          /\ ~\E l \in wlogs : l.row = r
      [] op = "pass"   -> rows[r].ticket = "pending" /\ who \in Approvers
      [] OTHER         -> \/ rows[r].ticket = "pending" /\ who \in Approvers
                          \/ /\ kind # "query" /\ rows[r].ticket = "passed"
                             /\ rows[r].status \in {"passed", "approved"}

Decide(r, op, who, ownRemark) ==
    /\ r \in Filed /\ MayDecide(r, op, who)
    /\ StampRow(r, Verdict(r, op), IF op = "pass" THEN "passed" ELSE op)
    /\ wlogs' = wlogs \cup
          {l \in {LogRow(r, op, op = "pass" /\ ~ownRemark, who)} : kind # "query"}
    /\ UNCHANGED <<kind, date, asks, withdrawn, up, switched, waiting>>

MoveRow(r, to) ==
    /\ r \in Filed /\ <<rows[r].status, to>> \in Moves[kind]
    /\ StampRow(r, to, rows[r].ticket)
    /\ UNCHANGED <<kind, date, wlogs, asks, withdrawn, up, switched, waiting>>

\* The privilege of a passed application is revoked; the application is not.
Withdraw(r) ==
    /\ kind = "query" /\ r \in Have({"passed"})
    /\ ~\E w \in withdrawn : w.row = r
    /\ withdrawn' = withdrawn \cup {[row |-> r, day |-> date]}
    /\ UNCHANGED <<kind, date, rows, wlogs, asks, up, switched, waiting>>

\* A query is logged; privCheck says whether it was let through.
AskQuery(by, on, privCheck) ==
    /\ kind = "query" /\ Cardinality(asks) < MaxAsked
    /\ asks' = asks \cup {[n |-> Cardinality(asks), by |-> by, on |-> on,
                           ok |-> privCheck, day |-> date]}
    /\ UNCHANGED <<kind, date, rows, wlogs, withdrawn, up, switched, waiting>>

SwitchMachine(h) ==
    /\ switched < MaxSwitched
    /\ up' = IF h \in up THEN up \ {h} ELSE up \cup {h}
    /\ switched' = switched + 1
    /\ UNCHANGED <<kind, date, rows, wlogs, asks, withdrawn, waiting>>

NextDate ==
    /\ date < LastDate
    /\ date' = date + 1
    /\ waiting' = [waiting EXCEPT ![date] = Have({"pending"})]
    /\ UNCHANGED <<kind, rows, wlogs, asks, withdrawn, up, switched>>

DashNext ==
    \/ \E r \in Rows, by \in Owners, on \in Machines, type \in {"sql", "archive"} :
           OpenRow(r, by, on, type)
    \/ \E r \in Rows, who \in Approvers : SignNode(r, who)
    \/ \E r \in Rows, op \in {"pass", "reject", "cancel"}, who \in Owners \cup Approvers,
          ownRemark \in BOOLEAN : Decide(r, op, who, ownRemark)
    \/ \E r \in Rows : Withdraw(r)
    \/ \E r \in Rows, to \in {m[2] : m \in Moves[kind]} : MoveRow(r, to)
    \/ \E by \in Owners, on \in Machines, privCheck \in BOOLEAN : AskQuery(by, on, privCheck)
    \/ \E h \in Machines : SwitchMachine(h)
    \/ NextDate

DashSpec == DashInit /\ [][DashNext]_dash_vars

------------------------------------------------------------------------------
(* The period and its sums.                                                 *)

PeriodStart == date - (Days - 1)
TrendDays == {PeriodStart + n : n \in 0..(Days - 1)}

\* A card counts what happened since the start of the period, a trend what
\* happened on each of its days, a stock what was there at the end of each.
Card(S, DayOf(_)) == Cardinality({x \in S : DayOf(x) >= PeriodStart})
DailyTrend(S, DayOf(_)) ==
    [d \in TrendDays |-> Cardinality({x \in S : DayOf(x) = d})]
Stock(Held(_)) == [d \in TrendDays |-> Held(d)]

CreatedOn(r) == rows[r].created
UpdatedOn(r) == rows[r].updated
FinishedOn(r) == rows[r].finished
DayOfLog(l) == l.day

\* The ten heads of a list of submitters; here there are never more than ten.
TopTen(S, Key(_)) ==
    LET keys == {Key(x) : x \in S}
    IN  [k \in keys |-> Cardinality({x \in S : Key(x) = k})]

------------------------------------------------------------------------------
(* The overview of SQL tickets.                                             *)

WorkflowScope(u) == ResolveScope(u, "workflow", up, MachineGroups, Teams, EnabledUsers)

Tickets(u) ==
    {r \in Filed : /\ rows[r].type = "sql"
                  /\ InScope(WorkflowScope(u), rows[r].by, rows[r].on)}
TicketLogs(u, op, final) ==
    {l \in wlogs : l.row \in Tickets(u) /\ l.op = op /\ (final => l.final)}
Marked(u, op, final) ==
    {l.row : l \in {k \in TicketLogs(u, op, final) : k.day >= PeriodStart}}

WorkflowCards(u) ==
    LET T == Tickets(u)
        Ended(s) == {r \in T \cap Have({s}) : rows[r].finished >= PeriodStart}
    IN  [submit   |-> Card(T, CreatedOn),
         approved |-> Cardinality(Marked(u, "pass", TRUE)),
         rejected |-> Cardinality(Marked(u, "reject", FALSE)),
         canceled |-> Cardinality(Marked(u, "cancel", FALSE)),
         pending  |-> Cardinality(T \cap Have({"pending"})),
         queued   |-> Cardinality(T \cap Have({"queuing"})),
         running  |-> Cardinality(T \cap Have({"executing"})),
         success  |-> Cardinality(Ended("finish")),
         failed   |-> Cardinality(Ended("exception")),
         finished |-> Cardinality(Ended("finish") \cup Ended("exception")
                                    \cup Marked(u, "cancel", FALSE)
                                    \cup Marked(u, "reject", FALSE))]

\* What a ticket's day says of the stock of day d: it was submitted by then and
\* is pending, or has been written since.
PendingTickets(u, d) ==
    {r \in Tickets(u) : /\ rows[r].created <= d
                        /\ rows[r].status = "pending" \/ rows[r].updated > d}

WorkflowTrends(u) ==
    LET T == Tickets(u)
        By(S) == {r \in T : rows[r].status \in S}
        PerDay(op, final) ==
            [d \in TrendDays |->
               Cardinality({l.row : l \in {k \in TicketLogs(u, op, final) : k.day = d}})]
        Created(S) == Stock(LAMBDA d : Cardinality({r \in By(S) : rows[r].created <= d}))
    IN  [submit   |-> DailyTrend(T, CreatedOn),
         approved |-> PerDay("pass", TRUE),
         rejected |-> PerDay("reject", FALSE),
         canceled |-> PerDay("cancel", FALSE),
         success  |-> DailyTrend(By({"finish"}), FinishedOn),
         failed   |-> DailyTrend(By({"exception"}), FinishedOn),
         pending  |-> Stock(LAMBDA d : Cardinality(PendingTickets(u, d))),
         queued   |-> Created({"queuing"}),
         running  |-> Created({"executing"})]

WorkflowTops(u) ==
    LET Recent == {r \in Tickets(u) : rows[r].created >= PeriodStart}
    IN  [submitters |-> TopTen(Recent, LAMBDA r : rows[r].by),
         instances  |-> TopTen(Recent, LAMBDA r : rows[r].on),
         executed   |-> TopTen({r \in Tickets(u) \cap Have({"finish", "exception"}) :
                                  rows[r].finished >= PeriodStart},
                               LAMBDA r : rows[r].on),
         approvers  |-> TopTen({l \in TicketLogs(u, "pass", FALSE)
                                       \cup TicketLogs(u, "reject", FALSE) :
                                  l.day >= PeriodStart},
                               LAMBDA l : l.who)]

WorkflowOverview(u) ==
    [cards |-> WorkflowCards(u), trends |-> WorkflowTrends(u), tops |-> WorkflowTops(u)]

\* The front page: every ticket of a period that is one day longer, by status.
Stats ==
    LET Recent == {r \in Filed : rows[r].created >= date - Days}
    IN  [total    |-> Cardinality(Recent),
         byStatus |-> TopTen(Recent, LAMBDA r : rows[r].status)]

\* The front page's chart: the tickets of each day, archive jobs' among them.
WorkflowTrend ==
    [d \in TrendDays |->
       LET Of(S) == Cardinality({r \in Have(S) : rows[r].created = d})
       IN  [submit |-> Cardinality({r \in Filed : rows[r].created = d}),
            finish |-> Of({"finish"}), reject |-> Of({"rejected"}),
            canceled |-> Of({"canceled"}), exception |-> Of({"exception"})]]

------------------------------------------------------------------------------
(* The overview of queries.                                                 *)

QueryScope(u) == ResolveScope(u, "query", up, MachineGroups, Teams, EnabledUsers)
AsksOf(u) == {q \in asks : InScope(QueryScope(u), q.by, q.on)}
ApplicationsOf(u) == {r \in Filed : InScope(QueryScope(u), rows[r].by, rows[r].on)}
Revoked(u) == {w \in withdrawn : w.row \in ApplicationsOf(u)}
AskedOn(q) == q.day

QueryCards(u) ==
    LET P == ApplicationsOf(u)
        Recent == {q \in AsksOf(u) : q.day >= PeriodStart}
        failures == Cardinality({q \in Recent : ~q.ok})
        rejected == Card(P \cap Have({"rejected"}), UpdatedOn)
    IN  [queries  |-> Cardinality(Recent),
         users    |-> Cardinality({q.by : q \in Recent}),
         failures |-> failures + rejected,
         pending  |-> Cardinality(P \cap Have({"pending"})),
         approved |-> Card(P \cap Have({"passed"}), UpdatedOn),
         rejected |-> rejected,
         revoked  |-> Card(Revoked(u), LAMBDA w : w.day)]

\* Mutant of PendingApplications: what is decided on the day still counts for it.
PendingApplicationsThen(u, d) ==
    {r \in ApplicationsOf(u) :
        /\ rows[r].created <= d
        /\ rows[r].status \in {"passed", "rejected"} => rows[r].updated >= d
        /\ rows[r].status \in {"pending", "passed", "rejected"}}
\* An application counts for a day when it was submitted by then and is pending
\* or was passed or rejected since; a canceled one counts for no day.
PendingApplications(u, d) ==
    {r \in ApplicationsOf(u) :
        /\ rows[r].created <= d
        /\ \/ rows[r].status = "pending"
           \/ rows[r].status \in {"passed", "rejected"} /\ rows[r].updated > d}

QueryTrends(u) ==
    LET P == ApplicationsOf(u)
        rejected == DailyTrend(P \cap Have({"rejected"}), UpdatedOn)
        refused == DailyTrend({q \in AsksOf(u) : ~q.ok}, AskedOn)
    IN  [queries  |-> DailyTrend(AsksOf(u), AskedOn),
         users    |-> [d \in TrendDays |-> Cardinality({q.by : q \in {x \in AsksOf(u) : x.day = d}})],
         failures |-> [d \in TrendDays |-> refused[d] + rejected[d]],
         approved |-> DailyTrend(P \cap Have({"passed"}), UpdatedOn),
         rejected |-> rejected,
         revoked  |-> DailyTrend(Revoked(u), LAMBDA w : w.day),
         pending  |-> Stock(LAMBDA d : Cardinality(PendingApplications(u, d)))]

QueryTop(u) == TopTen({q \in AsksOf(u) : q.day >= PeriodStart}, LAMBDA q : q.by)

QueryOverview(u) ==
    [cards |-> QueryCards(u), trends |-> QueryTrends(u), tops |-> QueryTop(u)]

------------------------------------------------------------------------------
(* The overview of archive jobs, for those who see every job, and of        *)
(* instances.                                                               *)

\* A reviewer or an executor of archive jobs sees all of them; others see their
\* own, those that wait for their signature and those that they decided on.
VisibleJobs(u) ==
    {r \in Filed : rows[r].ticket = "pending" /\ u.id \in Approvers}
        \cup {l.row : l \in {k \in wlogs : k.who = u.id /\ k.op \in {"pass", "reject"}}}
Jobs(u) ==
    {r \in Filed : \/ u.superuser
                  \/ u.permissions \cap {"archive_review", "archive_execute"} # {}
                  \/ rows[r].by = u.id
                  \/ r \in VisibleJobs(u)}

ArchiveCards(u) ==
    LET J == Jobs(u)
        Ended(s) == Card(J \cap Have({s}), FinishedOn)
        Now(S) == Cardinality(J \cap Have(S))
    IN  [submit  |-> Card(J, CreatedOn), success |-> Ended("success"),
         failed  |-> Ended("failed"), canceled |-> Ended("canceled"),
         pending |-> Now({"pending"}), approved |-> Now({"approved"}),
         running |-> Now({"queued", "running"}), paused |-> Now({"paused"})]

ActiveJobs(u, d) == {r \in Jobs(u) \cap Have(ActiveStates) : rows[r].created <= d}

ArchiveTrends(u) ==
    LET J == Jobs(u)
        Ended(s) == DailyTrend(J \cap Have({s}), FinishedOn)
    IN  [submit  |-> DailyTrend(J, CreatedOn), success |-> Ended("success"),
         failed  |-> Ended("failed"), canceled |-> Ended("canceled"),
         active  |-> Stock(LAMBDA d : Cardinality(ActiveJobs(u, d)))]

ArchiveTops(u) ==
    LET Recent == {r \in Jobs(u) : rows[r].created >= PeriodStart}
    IN  [submitters |-> TopTen(Recent, LAMBDA r : rows[r].by),
         instances  |-> TopTen(Recent, LAMBDA r : rows[r].on)]

ArchiveOverview(u) ==
    [cards |-> ArchiveCards(u), trends |-> ArchiveTrends(u), tops |-> ArchiveTops(u)]

\* Only the active instances of the resource groups count for most people, so
\* that a disabled one is counted for those who see all of them.
InstanceScope(u) ==
    IF u.superuser \/ u.role \in {"dba", "superadmin"}
    THEN Machines
    ELSE SharedInstances(u, up, MachineGroups)

InstanceOverview(u) ==
    LET seen == InstanceScope(u)
    IN  [visible |-> Cardinality(seen \cap up), disabled |-> Cardinality(seen \ up)]

------------------------------------------------------------------------------
(* Properties.                                                              *)

Total(f) == Sums!SumFunction(f)
SumsOf(cards, trends, fields) == \A f \in fields : cards[f] = Total(trends[f])

WorkflowAddsUp(u) ==
    LET all == WorkflowOverview(u)
        c == all.cards
        t == all.trends
    IN  /\ SumsOf(c, t, {"submit", "approved", "rejected", "canceled", "success", "failed"})
        /\ c.finished = c.rejected + c.canceled + c.success + c.failed
        /\ \A f \in {"pending", "queued", "running"} : c[f] = t[f][date]
        /\ \A d \in TrendDays \cap 0..(date - 1) :
               waiting[d] \cap Tickets(u) \subseteq PendingTickets(u, d)
        /\ c.submit = Total(all.tops.submitters) /\ c.submit = Total(all.tops.instances)
        /\ c.success + c.failed = Total(all.tops.executed)
        /\ c.approved + c.rejected <= Total(all.tops.approvers)
        /\ \A d \in TrendDays : t.submit[d] <= WorkflowTrend[d].submit
        /\ c.submit <= Stats.total /\ Stats.total = Total(Stats.byStatus)

QueryAddsUp(u) ==
    LET all == QueryOverview(u)
        c == all.cards
        t == all.trends
    IN  /\ SumsOf(c, t, {"queries", "failures", "approved", "rejected", "revoked"})
        /\ c.users <= Total(t.users)
        /\ c.pending = t.pending[date]
        /\ c.queries = Total(all.tops)

ArchiveAddsUp(u) ==
    LET all == ArchiveOverview(u)
        c == all.cards
        t == all.trends
    IN  /\ SumsOf(c, t, {"submit", "success", "failed", "canceled"})
        /\ t.active[date] = c.pending + c.approved + c.running + c.paused
        /\ c.submit = Total(all.tops.submitters)

\* The numbers of an overview agree with each other, though each is a query of
\* its own (monitor.py 1049-1250, 1445-1633, 1753-2019): a card is the sum of
\* its daily trend, whatever was decided, run or withdrawn on which day; the
\* last day of a stock is the card of what is pending, waiting or running; the
\* finished tickets are the four kinds of ends, none counted twice; and no
\* ticket that was pending at the end of a day is missing from that day's stock.
TrendsAddUp ==
    \A u \in Readers :
        /\ kind = "sql" /\ Filed # {} => WorkflowAddsUp(u)
        /\ kind = "query" => QueryAddsUp(u)
        /\ kind = "job" => ArchiveAddsUp(u)
        /\ InstanceOverview(u).disabled > 0 => u.superuser \/ u.role \in {"dba", "superadmin"}
==============================================================================

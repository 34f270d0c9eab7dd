\* Instances, monitoring, slow log, sessions, queries, overviews and lists, each on its own.
SPECIFICATION OperationsSpec
CONSTANTS
    Modelled = {"registry", "collect", "grants", "slow", "sampling", "kill", "query", "overviews", "lists"}
    r1 = r1  r2 = r2  h1 = h1  h2 = h2
    ann = ann  bob = bob  cat = cat  none = none
    i1 = i1  i2 = i2  q1 = q1  n1 = n1  app = app  f1 = f1  f2 = f2
    sales = sales  orders = orders  stock = stock  wide = wide
    \* InstanceRegistry
    Databases = {d1, d2}
    Syncs = {r1, r2}
    MaxTurns = 5
    \* MonitorCollection
    Watched = {h1, h2}
    Beats = {r1, r2}
    Interval = 2
    SizeInterval = 3
    Retentions = {1}
    LastTime = 3
    MaxBeats = 2
    MaxConfigs = 2
    \* MonitorGrants
    Viewers = {ann}
    Hosts = {i1}
    Applications = {a1, a2}
    Reviewers = {r1, r2}
    LastGrantDay = 2
    \* SlowStats, SlowLog
    TopGroups = 1
    LastBuckets = 2
    Statements <- OneStatement
    Natives <- OneNative
    Sources = {i1, i2}
    Copiers = {r1, r2}
    Span = 2
    Most = 1
    Keeps = {1}
    DefaultKeep = 2
    LastHourRun = 3
    MaxCopies = 2
    \* SessionSampling
    Engines = {h1, h2}
    Samplers = {r1, r2}
    Period = 2
    Terms = {1}
    DefaultTerm = 2
    LastBeat = 3
    MaxSamplings = 3
    \* SessionKill
    SessionIds = {k1}
    Operators = {r1, r2}
    MaxSerial = 3
    \* QueryAccess
    Askers = {q}
    Schemas = {sales, stock}
    Chosen = sales
    Unqualified = none
    QueryTables = {orders}
    Questions <- FourQuestions
    Offers <- OneOffer
    Portfolios <- SomePortfolios
    Rules = {wide}
    Matches <- Columns
    MostRows = 2
    LastDay = 2
    MaxAccessChanges = 1
    \* GovernanceScope, Dashboards
    Rows = {w1}
    Readers <- ThreeReaders
    Owners = {ann}
    Approvers = {cat}
    Machines = {i1}
    MachineGroups <- GroupsOfMachines
    Teams <- OneTeam
    EnabledUsers = {ann, bob}
    Days = 2
    LastDate = 2
    MaxAsked = 1
    MaxSwitched = 1
    NoRow = none
    \* TicketLists
    Staff = {r1, r2}
    Papers = {t1}
    Ranks <- SomeRanks
    Chains <- SomeChains
    NoPaper = none
    MaxPromotions = 1
     
PROPERTIES RegistryAgrees   SampledAndKept
SYMMETRY Symmetry
CHECK_DEADLOCK FALSE

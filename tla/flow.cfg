SPECIFICATION FlowSpec
CONSTANTS
    dev = dev
    lead = lead
    dba = dba
    N = 2
    Users <- MCUsers
    Superusers = {dba}
    Executors = {dba}
    Engineer = dev
    Approvers <- MCApprovers
    Handlers = {h1, h2}
    Workers = {w1, w2}
    ScheduledTime = t1
    NoTime = NoTime
    MaxConfirms = 3
    FaultKinds = {"web", "worker"}
    MaxFaults = 2
CHECK_DEADLOCK FALSE
INVARIANTS AuditAgreesSerially
PROPERTIES ImplementsLifecycle QueuedLeaves ExecutionReports ScheduledFiresSerially

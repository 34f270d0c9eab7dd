SPECIFICATION Spec
CONSTANTS
    dev = dev
    lead = lead
    dba = dba
    N = 2
    Users <- MCUsers
    Superusers = {}
    Executors = {dba}
    Engineer = dev
    Approvers <- MCApprovers
    Handlers = {h1, h2, h3}
    Workers = {w1, w2}
    ScheduledTime = t1
    NoTime = NoTime
    MaxConfirms = 3
    FaultKinds = {"web", "worker", "dispatcher", "broker"}
    MaxFaults = 1
CHECK_DEADLOCK FALSE
SYMMETRY Symmetric
INVARIANTS RunsOnlyWhenFullyApproved Inductive RunsAreOwed NeverStranded

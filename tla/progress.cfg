\* A page that is opened before the ticket ends.
SPECIFICATION ProgressSpec
CONSTANTS
    dev = dev  dba = dba
    N = 1
    Users = {dev, dba}
    Superusers = {dba}
    Executors = {dba}
    Engineer = dev
    Approvers <- OneApprover
    Handlers = {h1}
    Workers = {w1}
    ScheduledTime = t1
    NoTime = NoTime
    MaxConfirms = 1
    FaultKinds = {}
    MaxFaults = 0
    Watchers = {p1}
CHECK_DEADLOCK FALSE
PROPERTY ProgressEnds

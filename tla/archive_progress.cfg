SPECIFICATION FairSpec
CONSTANTS
    Handlers = {h1}
    Workers = {w1}
    Batches = 2
    Requests = {"pass", "start", "schedule", "external", "pause", "resume", "cancel"}
    MaxRequests = 4
    LazyContent = FALSE
    FaultKinds = {}
    MaxFaults = 0
CHECK_DEADLOCK FALSE
 
PROPERTIES QueuedLeaves  ScheduledFires

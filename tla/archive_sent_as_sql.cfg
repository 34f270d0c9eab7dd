SPECIFICATION Spec
CONSTANTS
    Handlers = {h1}
    Workers = {w1}
    Batches = 2
    Requests = {"pass", "schedule"}
    MaxRequests = 2
    LazyContent = TRUE
    FaultKinds = {}
    MaxFaults = 0
CHECK_DEADLOCK FALSE
INVARIANT ArchiveIsNeverSentAsSql

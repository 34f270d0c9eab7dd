SPECIFICATION Spec
CONSTANTS
    Handlers = {h1, h2}
    Workers = {w1}
    Batches = 2
    Requests = {"pass", "reject", "withdraw", "execute", "start", "schedule", "external", "pause", "resume", "cancel"}
    MaxRequests = 4
    LazyContent = TRUE
    FaultKinds = {"web", "worker", "dispatcher", "broker"}
    MaxFaults = 1
CHECK_DEADLOCK FALSE
SYMMETRY Symmetric
INVARIANTS Inductive RunsAfterApproval QueuedIsOwed 

SPECIFICATION ExecutionsSpec
CONSTANTS
    Rows = {1, 2, 3}
    BatchSize = 2
    MaxBatches = 3
    Executors = {e1}
    Modes = {"dest"}
    StableOrder = TRUE
    MaxInserts = 1
    MaxDeletes = 0
    MaxCrashes = 0
CHECK_DEADLOCK FALSE
INVARIANTS NoRowLost

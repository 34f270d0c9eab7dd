SPECIFICATION ExecutionsSpec
CONSTANTS
    Rows = {1, 2, 3, 4}
    BatchSize = 2
    MaxBatches = 2
    Executors = {e1, e2}
    Modes = {"purge", "purge_mongo", "dest", "dest_mongo", "single"}
    StableOrder = FALSE
    MaxInserts = 2
    MaxDeletes = 1
    MaxCrashes = 1
CHECK_DEADLOCK FALSE
SYMMETRY Symmetric
INVARIANTS MigrationKeepsRows InductiveAlone ProcessedIsHonestAlone SuccessIsCompleteAlone SuccessMovesWholeAlone
PROPERTY ImplementsTransfer

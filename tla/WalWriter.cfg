SPECIFICATION Spec
CONSTANTS
    Callers = {c1, c2}
    Sizes = {1, 2}
    SegmentSize = 2
    BatchSize = 2
    MaxLsn = 4
    MaxCrashes = 2
    PowerLoss = TRUE
    Zero = Zero
INVARIANTS
    FlushedIsDurable
    NoRecordBehindHole
PROPERTIES
    FlushToReturnsEventually
CHECK_DEADLOCK FALSE

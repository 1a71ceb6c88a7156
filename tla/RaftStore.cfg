\* A log of three entries, a failing rewrite and two crashes.
CONSTANTS
    Garbage = Garbage
    MaxIndex = 3
    MaxTermS = 3
    MaxDies = 2
    MaxAppendErrors = 0
    MaxRewriteErrors = 1
    MaxReopenErrors = 0
CHECK_DEADLOCK FALSE
SPECIFICATION StoreSpec
INVARIANTS FailedWritesRefused

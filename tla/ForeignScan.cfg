\* Five rows in batches of two: the last batch is short, and then the end.
SPECIFICATION Spec
CONSTANTS
    Rows = 5
    fetch_size = 2
    MaxRescans = 3
    DriverFails = TRUE
INVARIANTS
    TypeOK
    EndIsComplete
    InsideBatch
PROPERTIES
    ImplementsRowStream
CHECK_DEADLOCK FALSE

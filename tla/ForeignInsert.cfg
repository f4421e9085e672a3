\* Every shape of a table with three attributes, statements of two rows.
SPECIFICATION Spec
CONSTANTS
    natts = 3
    MaxRows = 2
    DriverFails = TRUE
INVARIANTS
    TypeOK
    ColumnsAligned
    FirstRowSent
CHECK_DEADLOCK FALSE

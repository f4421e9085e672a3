\* A table without dropped or generated attributes would do as well.
SPECIFICATION Spec
CONSTANTS
    natts = 1
    MaxRows = 2
    DriverFails = FALSE
INVARIANTS
    EveryRowSent
CHECK_DEADLOCK FALSE

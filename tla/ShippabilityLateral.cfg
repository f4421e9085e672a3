\* One operator that compares a column with a variable of an outer relation.
SPECIFICATION Spec
CONSTANTS
    MaxNodes = 3
    Collations = {}
    Lateral = TRUE
INVARIANTS
    DeparserIsComplete
CHECK_DEADLOCK FALSE

\* One operator and its arguments.
SPECIFICATION Spec
CONSTANTS
    MaxNodes = 3
    Collations = {}
    Lateral = FALSE
INVARIANTS
    NoForeignOperators
CHECK_DEADLOCK FALSE

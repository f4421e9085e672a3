\* Conditions of up to three nodes, one collation besides the default.
SPECIFICATION Spec
CONSTANTS
    MaxNodes = 3
    Collations = {"C"}
    Lateral = FALSE
INVARIANTS
    TypeOK
    RemoteIsSafe
    DeparserIsComplete
CHECK_DEADLOCK FALSE

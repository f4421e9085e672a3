\* No failure at all, only an ALTER SERVER between two statements.
SPECIFICATION Spec
CONSTANTS
    m1 = m1
    m2 = m2
    s1 = s1
    s2 = s2
    Mappings = {m1, m2}
    Servers = {s1}
    ServerOf <- OneServer
    Inserting = {m1}
    MaxXact = 1
    MaxVersion = 1
    Faults = {}
    Subxacts = FALSE
    AllowPrepare = FALSE
    ErrorTrouble = FALSE
INVARIANTS
    InsertStaysVisible
CHECK_DEADLOCK FALSE

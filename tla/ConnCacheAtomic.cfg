\* Statements may fail, the end of a transaction and session set-up do not; PREPARE and error recursion trouble may happen.
SPECIFICATION Spec
CONSTANTS
    m1 = m1
    m2 = m2
    s1 = s1
    s2 = s2
    Mappings = {m1, m2}
    Servers = {s1, s2}
    ServerOf <- TwoServers
    Inserting = {m1, m2}
    MaxXact = 3
    MaxVersion = 0
    Faults = {"connect", "lookup", "use"}
    Subxacts = FALSE
    AllowPrepare = TRUE
    ErrorTrouble = TRUE
INVARIANTS
    AllOrNothing
CHECK_DEADLOCK FALSE

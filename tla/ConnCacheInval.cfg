\* One server, two mappings, ALTERs at any time, their invalidations accepted wherever catalogs are read; the driver does not fail.
SPECIFICATION Spec
CONSTANTS
    m1 = m1
    m2 = m2
    s1 = s1
    s2 = s2
    Mappings = {m1, m2}
    Servers = {s1}
    ServerOf <- OneServer
    Inserting = {}
    MaxXact = 2
    MaxVersion = 1
    Faults = {}
    Subxacts = FALSE
    AllowPrepare = FALSE
    ErrorTrouble = FALSE

    
PROPERTIES
    MappingOptionsFresh
CHECK_DEADLOCK FALSE

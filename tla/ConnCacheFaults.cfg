\* Two servers, every driver call may fail, errors may be trapped; no ALTER.
SPECIFICATION FairSpec
CONSTANTS
    m1 = m1
    m2 = m2
    s1 = s1
    s2 = s2
    Mappings = {m1, m2}
    Servers = {s1, s2}
    ServerOf <- TwoServers
    Inserting = {m1}
    MaxXact = 2
    MaxVersion = 0
    Faults = {"connect", "setup", "lookup", "use", "endtran", "disconnect", "local"}
    Subxacts = TRUE
    AllowPrepare = FALSE
    ErrorTrouble = TRUE
INVARIANTS
    TypeOK
    Quiescent
    GotInv
    LoopInv
    RemoteIsolation
    PendingIsCurrent
    OpenIsLive
    NonKeepClosed
PROPERTIES
    ImplementsRemoteCommit
    XactEnds
CHECK_DEADLOCK FALSE

SPECIFICATION FairSpec
CONSTANTS
    Replica = {A, B, C}
    Authority = A
    Worker = {ticker}
    EventId = {e1, e2}
    Genesis = Genesis
    Nobody = Nobody
    Grants <- FullGrants
    Looseness = {FALSE}
    Limit = 1
    MaxCauses = 1
    MaxSeq = 2
    MaxRevoking = 0
    MaxFaults = 1
CHECK_DEADLOCK FALSE
INVARIANTS
    HistoryComplete
    HubAhead
    PulledOriginsRostered

    

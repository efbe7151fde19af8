SPECIFICATION FairSpec
CONSTANTS
    Replica = {A, B, C}
    Authority = A
    Worker = {ticker, admin}
    EventId = {e1}
    Genesis = Genesis
    Nobody = Nobody
    Grants <- FullGrants
    Looseness = {FALSE}
    Limit = 1
    MaxCauses = 0
    MaxSeq = 0
    MaxRevoking = 1
    MaxFaults = 0
CHECK_DEADLOCK FALSE
PROPERTIES
    RevocationReaches

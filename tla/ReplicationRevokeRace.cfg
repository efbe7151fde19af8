SPECIFICATION Spec
CONSTANTS
    Replica = {A, B}
    Authority = A
    Worker = {ticker}
    EventId = {e1, e2}
    Genesis = Genesis
    Nobody = Nobody
    Grants <- FullGrants
    Looseness = {FALSE}
    Limit = 1
    MaxCauses = 0
    MaxSeq = 2
    MaxRevoking = 1
    MaxFaults = 0
CHECK_DEADLOCK FALSE
INVARIANTS
    AcceptedHistoryAdmitted

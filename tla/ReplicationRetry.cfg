SPECIFICATION Spec
CONSTANTS
    Replica = {A, B}
    Authority = A
    Worker = {ticker, admin}
    EventId = {e1, e2, e3}
    Genesis = Genesis
    Nobody = Nobody
    Grants <- MixedGrants
    Looseness = {TRUE}
    Limit = 1
    MaxCauses = 0
    MaxSeq = 2
    MaxRevoking = 1
    MaxFaults = 1
SYMMETRY Symmetry
CHECK_DEADLOCK FALSE
INVARIANTS
    IInv
    OnlyGrantedOriginsAccepted
PROPERTIES
    NothingForgotten
    RevokedOriginFrozen
    ImplementsHistory

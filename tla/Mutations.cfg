SPECIFICATION Spec
CONSTANTS
    Key = {k1, k2, k3}
    Run = {r1, r2}
    Trajectory = {t1, t2}
    Call = {c1, c2}
    Commit = {a}
    Reported <- Reports
    None = None
SYMMETRY Interchangeable
CHECK_DEADLOCK FALSE
INVARIANTS
    DeliveryFollowsEnd
    RowsFollowLog
    MutationsInv
PROPERTIES
    MergeNeedsMergedState
    ImplementsRequests

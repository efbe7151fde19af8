SPECIFICATION FairEvaluationSpec
CONSTANTS
    A = A
    B = B
    Lane = {A, B}
    Initial = A
    Dependent = B
    Preparer = {p1}
    Requests = 4
    TokenRequest <- TokenOf
    MaxFaults = 2
    MaxRuns = 3
INVARIANTS
    PreparedWorld
    DependentWaitsForBarrier
    CompletedIsComplete
    ScoreTruthful
PROPERTIES
    EventuallyPrepared
    EpisodeEnds

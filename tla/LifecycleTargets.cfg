SPECIFICATION Spec
CONSTANTS
    A = A
    B = B
    C = C
    D = D
    Replica = {A, B, C}
    Authority = A
    Note = {n1, n2, n3}
    None = None
    Time = {1}
    Collation <- ABC
    Limit = 2
    Careless = {}
    MaxEvents = 3
SYMMETRY NoteSymmetry
CHECK_DEADLOCK FALSE
INVARIANTS
    TargetsArriveFirst

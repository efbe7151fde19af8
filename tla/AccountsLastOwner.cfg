SPECIFICATION Spec
CONSTANTS
    User = {u1, u2}
    Workspace = {home}
    Home = home
    Link = {l1}
    Session = {s1, s2}
    Token = {}
    Password = {p1}
    Caller = {c1, c2}
    None = None
SYMMETRY Interchangeable
CHECK_DEADLOCK FALSE
INVARIANTS
    OwnerRemains

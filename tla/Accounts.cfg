SPECIFICATION Spec
CONSTANTS
    User = {u1, u2}
    Workspace = {home, other}
    Home = home
    Link = {l1}
    Session = {s1, s2}
    Token = {t1}
    Password = {p1, p2}
    Caller = {c1}
    None = None
SYMMETRY Interchangeable
CHECK_DEADLOCK FALSE
INVARIANTS
    AccountsInv
    LinkUsedOnce
PROPERTIES
    SettledStaysSettled
    OnlyOwnersChangeMembers
    PasswordKept

SPECIFICATION Spec
CONSTANTS
    Request = {q1, q2}
    Person = {ann, bob}
    Workspace = {}
    Slug = {s1, s2}
    Handler = {h1, h2}
    Call = {c1, c2}
    Token = {t1, t2}
    Members = {}
    None = None
SYMMETRY Interchangeable
CONSTRAINT FewAtOnce
CHECK_DEADLOCK FALSE
INVARIANTS
    SetupInv
    GrantConsistent
    FileHoldsHanded
PROPERTIES
    ImplementsHandout

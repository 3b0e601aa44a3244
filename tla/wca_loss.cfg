CONSTANTS
    p1 = p1
    p2 = p2
    c1 = c1
    c2 = c2
    i1 = i1
    i2 = i2
    i3 = i3
    Procs = {p1, p2}
    Caps = {c1}
    Invocations = {i1, i2, i3}
    MaxUses <- Uses2
    NotBefore <- From
    ExpiresAt <- Until
    Times <- ThreeTimes
    None = None
    Faults <- CrashAndLoss
SPECIFICATION Spec
SYMMETRY Symmetry
INVARIANTS
    TypeOK
    AuthorityInvariant
    SealedByControl
    UsesBounded
    StoreNeverRejectsItself
PROPERTIES
    ControlMonotone
    ImplementsBook

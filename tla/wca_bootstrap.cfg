CONSTANTS
    p1 = p1
    p2 = p2
    c1 = c1
    c2 = c2
    i1 = i1
    i2 = i2
    i3 = i3
    Procs = {p1, p2}
    Caps = {c1}
    Invocations = {i1}
    MaxUses <- Uses1
    NotBefore <- From
    ExpiresAt <- Until
    Times <- TwoTimes
    None = None
    Faults <- MisreadAfterCrash
SPECIFICATION Spec
PROPERTIES
    ControlMonotone

CONSTANTS
    s1 = s1
    s2 = s2
    r1 = r1
    Slots = {s1, s2}
    Reviewers = {r1}
    ProcessLimit = 2
    InitialTarget = 2
    MinTarget = 2
    MaxGen = 1
    MaxMishaps = 1
    TrackCounts = TRUE
    None = None
SPECIFICATION Spec
INVARIANT
    LimitIsCurrent

CONSTANTS
    s1 = s1
    s2 = s2
    r1 = r1
    Slots = {s1, s2}
    Reviewers = {r1}
    ProcessLimit = 2
    InitialTarget = 2
    MinTarget = 1
    MaxGen = 2
    MaxMishaps = 1
    TrackCounts = FALSE
    None = None
SPECIFICATION LiveSpec
INVARIANTS
    TypeOK
    Owned
    ContainedMeansGone
    IdleIsUsable
PROPERTIES
    CapacityRestored

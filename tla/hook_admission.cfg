CONSTANTS
    h1 = h1
    h2 = h2
    h3 = h3
    Hooks = {h1, h2, h3}
    HarnessOf <- OneGroup
    ClientOf <- Client
    LaneOf <- Lane
    PayloadOf <- Payload
    Bare = {h3}
    Cancellable = {h2}
    Budgets = {2}
    Estimates = {1, 2}
    Reserve = 1
    AgeBoost = 1
    ActiveLimits = {0, 2}
    PerHarnessActive = 2
    QueuedLimit = 2
    PerHarnessQueued = 2
    PerClientQueued = 2
    RetainedLimit = 3
    Sizes = {2}
    None = None
SPECIFICATION Spec
INVARIANTS
    TypeOK
    Accounted
    NothingLeaked
    WithinLimits
    GroupsReachable
    NoByteWaitLost
PROPERTIES
    AdmissionsJustified

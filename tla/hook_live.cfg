CONSTANTS
    h1 = h1
    h2 = h2
    h3 = h3
    Hooks = {h1, h2, h3}
    HarnessOf <- SharedHarness
    ClientOf <- Client
    LaneOf <- Lane
    PayloadOf <- Payload
    Bare = {}
    Cancellable = {}
    Budgets = {1}
    Estimates = {1}
    Reserve = 0
    AgeBoost = 1
    ActiveLimits = {0, 2}
    PerHarnessActive = 1
    QueuedLimit = 2
    PerHarnessQueued = 2
    PerClientQueued = 2
    RetainedLimit = 3
    Sizes = {2}
    None = None
SPECIFICATION LiveSpec
PROPERTIES
    NoLostWakeup
    RequestsAnswered

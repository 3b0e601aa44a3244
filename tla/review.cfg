CONSTANTS
    q1 = q1
    t1 = t1
    t2 = t2
    h1 = h1
    wk = wk
    cn = cn
    None = None
    Requests = {q1}
    Accounts = {"a", "b"}
    Machines = {"m", "n"}
    Logins <- ThreeLogins
    FirstLogins <- NobodyOrFirst
    Refreshers = {wk, cn}
    Worker = wk
    BatchLimit = 2
    MaxWrites = 2
    Scenarios <- Few
    Calls = {t1, t2}
    Hooks = {h1}
SPECIFICATION ReviewSpec
INVARIANTS
    TypeOK
    NothingLost
    OrderKept
    ConsentedOnly
    OneOutcome
    SpentWithCompletion
PROPERTIES
    CompletedIsFinal
    Drains
CHECK_DEADLOCK FALSE

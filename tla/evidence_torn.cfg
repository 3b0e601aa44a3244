CONSTANTS
    w1 = w1
    w2 = w2
    r1 = r1
    r2 = r2
    r3 = r3
    r4 = r4
    Writers = {w1}
    Records = {r1, r2}
    Receipts = {r1}
    MaxRecords = 1
    MaxBatch = 1
    JournalLimit = 2
    MaxTorn = 1
    Faults <- TornOnly
SPECIFICATION Spec
INVARIANTS
    DurableIsRecoverable

CONSTANTS
    k1 = k1
    s1 = s1
    s2 = s2
    sim = sim
    x = x
    y = y
    u1 = u1
    u2 = u2
    t1 = t1
    t2 = t2
    Cases = {k1}
    Sources = {s1}
    Simulator = sim
    Bodies = {x, y}
    MaxSeq = 1
    Submitters = {u1}
    Clients = {t1}
    MaxSessions = 2
    MaxReceipts = 2
    QueueCap = 1
    Batch = 2
    SimCount = 1
    MaxRestarts = 1
SPECIFICATION FairSpec
CHECK_DEADLOCK FALSE
INVARIANT QuarantineIsFinal
INVARIANT QuarantineInv
PROPERTY ImplementsLedger
PROPERTY ReceiptsSettle

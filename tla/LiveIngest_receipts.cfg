CONSTANTS
    k1 = k1
    s1 = s1
    s2 = s2
    sim = sim
    x = x
    y = y
    u1 = u1
    u2 = u2
    t1 = t1
    t2 = t2
    Cases = {k1}
    Sources = {s1}
    Simulator = sim
    Bodies = {x}
    MaxSeq = 0
    Submitters = {u1, u2}
    Clients = {t1, t2}
    MaxSessions = 2
    MaxReceipts = 3
    QueueCap = 2
    Batch = 2
    SimCount = 2
    MaxRestarts = 1
SPECIFICATION Spec
CHECK_DEADLOCK FALSE
INVARIANT TypeOK
INVARIANT CompletedIsRecorded
INVARIANT QueuedIsHeld
PROPERTY GivenUpIsFinal
SYMMETRY ClientSymmetry

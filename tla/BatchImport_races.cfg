CONSTANTS
    k1 = k1
    c1 = c1
    c2 = c2
    t1 = t1
    t2 = t2
    NoBytes = NoBytes
    Cases = {k1}
    Contents = {c1}
    Clients = {t1, t2}
    MaxImports = 2
    QueueCap = 1
    MaxRestarts = 1
    MaxDamages = 0
    ContentVerdict <- MCMixed
    DamagedVerdict = "accepted"
SPECIFICATION Spec
CHECK_DEADLOCK FALSE
INVARIANT TypeOK
INVARIANT OneCommitPerHash
INVARIANT CommittedWithConsent
INVARIANT SettledPointsAtCommitted
INVARIANT QueuedIsHeld
SYMMETRY ClientSymmetry

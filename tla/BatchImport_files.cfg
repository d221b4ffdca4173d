CONSTANTS
    k1 = k1
    c1 = c1
    c2 = c2
    t1 = t1
    t2 = t2
    NoBytes = NoBytes
    Cases = {k1}
    Contents = {c1, c2}
    Clients = {t1}
    MaxImports = 2
    QueueCap = 1
    MaxRestarts = 1
    MaxDamages = 1
    ContentVerdict <- MCMixed
    DamagedVerdict = "accepted"
SPECIFICATION FairSpec
CHECK_DEADLOCK FALSE
INVARIANT CommittedIsWhatWasValidated
INVARIANT CommitInv
PROPERTY UncancelledSettles

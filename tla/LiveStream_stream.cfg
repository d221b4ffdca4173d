CONSTANTS
    Cases = {ours, other}
    Ours = ours
    Retention = 2
    BatchLimit = 2
    MaxIssued = 4
    MaxRebuilds = 1
SPECIFICATION Spec
CHECK_DEADLOCK FALSE
INVARIANT GapsAnnounced

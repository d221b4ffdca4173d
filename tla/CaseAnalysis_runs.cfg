CONSTANTS
    e1 = e1
    e2 = e2
    f1 = f1
    f2 = f2
    a1 = a1
    LiveEvents = {e1, e2}
    FileEvents = {f1, f2}
    Analysts = {a1}
    MaxTimes = 4
    MaxFailures = 1
    MaxRestarts = 1
SPECIFICATION Spec
CHECK_DEADLOCK FALSE
INVARIANT TypeOK
INVARIANT RunsRestOnStoredEvents
INVARIANT RunsAreDistinct
INVARIANT EventsAreAnalysed
INVARIANT AnalysisInv

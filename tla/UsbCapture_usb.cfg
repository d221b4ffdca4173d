CONSTANTS
    Cases = {a, b}
    MaxCaptures = 2
    MaxSessions = 2
    MaxDeaths = 1
SPECIFICATION Spec
CHECK_DEADLOCK FALSE
PROPERTY StopIsHonoured

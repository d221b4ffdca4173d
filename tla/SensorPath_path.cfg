CONSTANTS
    MaxSeq = 2
    Slots = 1
    SpoolCap = 2
    MaxAttempts = 2
    BrokerCap = 2
    MaxFaults = 2
SPECIFICATION FairSpec
CHECK_DEADLOCK FALSE
INVARIANT TypeOK
INVARIANT ReleasedIsAccepted
INVARIANT SpooledIsKept
INVARIANT RefusedStaysRefused
PROPERTY SpoolDrains
PROPERTY AcceptedIsReleased

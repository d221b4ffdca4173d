CONSTANTS
    d1 = d1
    t1 = t1
    c1 = c1
    c2 = c2
    Drafts = {d1}
    Texts = {t1}
    Allowed = {t1}
    MaxData = 4
    MaxVersions = 1
    Gone = {1,3}
    Threads = {c1,c2}
    MaxSends = 2
SPECIFICATION Spec
CHECK_DEADLOCK FALSE
INVARIANT TypeOK
INVARIANT VersionsAreFiled
INVARIANT RowShowsLatest
INVARIANT SentIsNotified
INVARIANT OnlyOvertakenIsUnapproved
PROPERTY OnlyOverlapIsResent
SYMMETRY ThreadSymmetry

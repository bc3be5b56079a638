SPECIFICATION FairSpec
CONSTANTS
    Sessions = {s1, s2, s3}
    MaxCommits = 2
INVARIANTS
    DurableUnlessLate
PROPERTIES
    EveryCommitReturns
CHECK_DEADLOCK FALSE

SPECIFICATION MCSpec
CONSTANTS
    Sessions = {s1, s2, s3}
    Tables = {a, b, c}
    Levels = {"RC", "RR", "SER"}
    AutoOps = {"insert", "update", "delete"}
    Filled = {a, b, c}
    Busy = {a}
    MaxId = 4
    MaxVersions = 3
INVARIANTS
    OneLiveVersion
    FreshReadIsCommitted
    QuietSnapshotRepeats
    SkewNeedsARace
PROPERTY RollbackLeavesNoTrace
SYMMETRY SessionSymmetry
CHECK_DEADLOCK FALSE

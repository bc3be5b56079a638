SPECIFICATION Spec
CONSTANTS
    Sessions = {s1, s2}
    Tables = {t1, t2}
    Kinds = {"auto", "commit"}
    WriteFails = TRUE
    SyncFails = TRUE
    MaxId = 3
    MaxCrashes = 1
    NoTable = NoTable
    NoSession = NoSession
CONSTRAINT FewOverTwoTables
SYMMETRY Symmetry
INVARIANTS AckedRecoverable OnlyCommittedRecovered RecoversOneVersion
CHECK_DEADLOCK FALSE

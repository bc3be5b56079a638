SPECIFICATION Spec
CONSTANTS
    Sessions = {s1, s2}
    Tables = {t1}
    Kinds = {"auto"}
    WriteFails = FALSE
    SyncFails = FALSE
    MaxId = 2
    MaxCrashes = 1
    NoTable = NoTable
    NoSession = NoSession
INVARIANT RecoversInAnyOrder
CHECK_DEADLOCK FALSE

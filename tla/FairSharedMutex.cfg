SPECIFICATION FairSpec
CONSTANTS
    Writers = {t1, t2, t3}
    Readers = {t1, t2, t3}
    CountModulus = 3
INVARIANTS NoLostWakeup
PROPERTIES ReadersDoNotStarveWriters ImplementsRWLock

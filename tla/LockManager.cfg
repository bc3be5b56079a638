\* Row and gap waits, predicate reads, deadlines and KILL QUERY.
CONSTANTS
    Txns = {t1, t2, t3}
    Rows = {r1, r2}
    Tables = {tb}
    NoTxn = NoTxn
    contended = r1
    bystander = t3
    MaxDeadlocks = 1
SPECIFICATION MCSpec
INVARIANTS SleeperEdgeIsCurrent NoLostRowWakeup
PROPERTIES ImplementsRowLockTable EveryWaitEnds

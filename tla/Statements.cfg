SPECIFICATION Spec
CONSTANTS
    Sessions = {s1, s2}
    Rows = {"a", "b"}
    Order <- MCOrder
    Parents <- MCParents
    Menu <- MCMenu
    MaxStmts <- MCMaxStmts
    s1 = s1
    s2 = s2
    None = None
INVARIANTS
    NoTornTable
    AnswersAreCurrent
CHECK_DEADLOCK FALSE
PROPERTY
    EveryStatementEnds

\* The parts that keep tables, one at a time.
CONSTANTS
    s1 = s1
    s2 = s2
    Sessions = {s1, s2}
    Zero = Zero
    Null = Null
    MaxStmts <- MCMax
    Menu <- MCMenu
    Rules <- MCRules
    Bases <- MCBases
SPECIFICATION TablesSpec
INVARIANTS
    OneRowPerKey OrphanNeedsARace TreeAnswersAsAMap CatalogSurvives
    IndexesAnswerAsScans ProbesHideNothing LogsReadBack

\* Every case of every family; a behaviour takes one case and stops.
SPECIFICATION Spec
INVARIANTS
    JoinsAgree QueriesAsMeant WritesAsMeant ProceduresAsMeant TextsAsMeant FilesAsMeant ExpressionsAsMeant
CHECK_DEADLOCK FALSE

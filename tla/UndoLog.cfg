CONSTANTS
  Sessions = {s1, s2}
  Keys = {k1, k2}
  Values = {v1, v2}
  Names = {a}
  MaxWrites = 3
  MaxTxns = 2
  MaxSaves = 1
  MaxCrashes = 2
  Legacy = TRUE
SPECIFICATION Spec
INVARIANTS RecoveredIsCommitted RollbackToRestores
SYMMETRY Sym
CHECK_DEADLOCK FALSE

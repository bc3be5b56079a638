CONSTANTS
  Sessions = {s1}
  Keys = {k1, k2}
  Values = {v1, v2}
  Names = {a, b}
  MaxWrites = 3
  MaxTxns = 2
  MaxSaves = 2
  MaxCrashes = 1
  Legacy = TRUE
SPECIFICATION Spec
INVARIANT RollbackToIsExact
SYMMETRY Sym
CHECK_DEADLOCK FALSE

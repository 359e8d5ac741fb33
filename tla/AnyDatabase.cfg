SPECIFICATION Spec
CONSTANTS
  w1 = w1
  w2 = w2
  Work = {w1, w2}
  NoSavepoint = NoSavepoint
  Settings <- AnyDatabase
  AllowManual = TRUE
  Unchecked = TRUE
  MaxDepth = 2
  MaxSavepoints = 2
  MaxHooks = 0
SYMMETRY WorkSymmetry
INVARIANT BlockIsOneTransaction
PROPERTIES MemoryDatabaseKept BoundaryEndsDrift

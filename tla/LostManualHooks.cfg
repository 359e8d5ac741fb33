SPECIFICATION Spec
CONSTANTS
  w1 = w1
  w2 = w2
  Work = {w1, w2}
  NoSavepoint = NoSavepoint
  Settings <- InMemoryDefaults
  AllowManual = TRUE
  Unchecked = FALSE
  MaxDepth = 2
  MaxSavepoints = 2
  MaxHooks = 1
SYMMETRY WorkSymmetry
INVARIANTS AllHooksFollowCommit

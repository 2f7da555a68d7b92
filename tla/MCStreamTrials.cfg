SPECIFICATION Spec
CONSTANTS
  MaxSize = 3
  SparseLimit = 1
  MaxTrials = 2
  MaxRetries = 2
  Modes = {37, 39, 42}
INVARIANTS CutsLoseNothing OneStreamLeft ThreadsAgree
CHECK_DEADLOCK FALSE

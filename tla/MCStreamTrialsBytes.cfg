SPECIFICATION Spec
CONSTANTS
  MaxSize = 3
  SparseLimit = 1
  MaxTrials = 2
  MaxRetries = 2
  Modes = {37, 39, 42}
INVARIANT ThreadCountKeepsBytes
CHECK_DEADLOCK FALSE

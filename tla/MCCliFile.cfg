SPECIFICATION Spec
CONSTANTS
  batch = batch
  pack = pack
  Commands = {batch, pack}
  Targets = {a, b}
  Pids = {1}
  Attempts = 2
  MaxItems <- TwoAndOne
  Counts = {1, 3}
  None = None
  Old = Old
INVARIANTS TypeOK TargetWhole OwnTemporary NoTempLeft SuccessMeansWritten ThreadBudget
PROPERTY CommandEnds
CHECK_DEADLOCK FALSE

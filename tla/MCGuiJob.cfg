SPECIFICATION FairSpec
CONSTANTS
  imageA = imageA
  imageB = imageB
  fileA = fileA
  fileB = fileB
  None = None
  Inputs <- TwoInputs
  Files <- TwoFiles
INVARIANTS SaveOnlyVerified NoOrphanFile OneHandleOwner QuietClose
PROPERTY BusyEnds
CHECK_DEADLOCK FALSE

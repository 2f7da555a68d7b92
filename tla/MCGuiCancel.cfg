SPECIFICATION Spec
CONSTANTS
  imageA = imageA
  imageB = imageB
  fileA = fileA
  fileB = fileB
  None = None
  Inputs <- TwoInputs
  Files <- TwoFiles
SYMMETRY Symmetry
INVARIANT CancelStopsCodecWork
CHECK_DEADLOCK FALSE

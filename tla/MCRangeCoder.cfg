SPECIFICATION Spec
CONSTANTS
  Base = 8
  Top = 512
  ProbOne = 64
  Adapt = 4
  Slow = 1
  FlushShifts = 5
  Kinds <- AllKinds
  Starts <- EdgeStarts
  Limits <- CutLimits
  Rooms <- CutRooms
  MaxBits = 5
CONSTRAINT LongOnesPlain
INVARIANTS PrecisionKept EveryBitPossible RoundTrip TruncationSeen CutIsHonest
CHECK_DEADLOCK FALSE

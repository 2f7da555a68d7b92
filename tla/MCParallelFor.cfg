SPECIFICATION FairSpec
CONSTANTS
  MaxCount = 4
  MaxWorkers = 3
  Platforms <- AllPlatforms
INVARIANTS TypeOK ExactlyOnce ResultsReadable FrameOutlivesHelpers WorkerLimit
PROPERTIES ImplementsTaskSet Termination
CHECK_DEADLOCK FALSE

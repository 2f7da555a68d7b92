SPECIFICATION FairSpec
CONSTANTS
  slotA = slotA
  slotB = slotB
  slotC = slotC
  slotD = slotD
  None = None
  Slots <- FourSlots
  MaxPending = 3
  MaxFrames = 3
INVARIANTS OneResultOwner PictureIsCurrentFrame
PROPERTY LoadingEnds
CHECK_DEADLOCK FALSE

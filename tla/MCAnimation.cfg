SPECIFICATION CodecSpec
CONSTANTS
  Shapes <- NoShapes
  Tilings = {0, 1}
  Presets = {9, 13}
  RunBits = 2
  ModePlanes <- NoModePlanes
  CountBits = 4
  PatternsStored = 4
  PatternsKept = 2
  VarintBase = 2
  Periods = {1, 2}
  Blocks = {0, 2}
  SmallPalette = 2
  IdByte = 2
  HotColours = 1
  TileLogs = {0, 1}
  BlockLog = 2
  RegionLog = 1
  BandHeights = {1, 2}
  Plans <- FewPlans
  Mixes <- FewMixes
  MoveArea = 4
  MoveVotes = 1
  Pictures <- MarkedMoves
  Families <- FewColours
  WideImages <- NoWideImages
  SliceBits = 2
  MaxChunks = 7
  MaxMetadata = 50
INVARIANTS AnimationLossless

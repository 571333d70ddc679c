SPECIFICATION FairSpec
CONSTANTS
  NumCells = 4
  TileSize = 2
  Stride = 3
  Open = {0}
  PerCell <- WithEmpty
  MaxParticles = 6
  HeapSize = 20
  MaxTries = 2
INVARIANTS
  ParticlesKept
  Arrived
  Compact
  HeapExact
PROPERTY ShiftEnds
CHECK_DEADLOCK FALSE

SPECIFICATION Spec
CONSTANTS
  NumCells = 4
  TileSize = 2
  Stride = 3
  Open = {0}
  PerCell <- ThirdEmpty
  MaxParticles = 6
  HeapSize = 20
  MaxTries = 2
INVARIANT NoneOverwritten

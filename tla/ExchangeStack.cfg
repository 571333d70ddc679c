CONSTANTS
  Blocks = {b1, b2}
  NoCell = NoCell
  MaxSize = 3
  TileSize = 2
  MaxFrames = 3
SPECIFICATION FairSpec
INVARIANTS
  TypeOK
  GrantsDisjoint
  NoHoles
  IndexInBounds
  RoundComplete
PROPERTY GuardEmptied
CHECK_DEADLOCK FALSE

SPECIFICATION Spec
CONSTANTS
  Res = 3
  SuperCellSize = 3
  SuperCells <- MCSuperCells
  GUARD_SIZE = 1
  Solvers <- VillaBuneOnly
  Starts <- MCStarts
  Moves <- MCMoves
  Pulse = 1
  MaxSteps = 2
INVARIANTS
  VillaBuneGauss
CHECK_DEADLOCK FALSE

CONSTANTS
  A = A
  B = B
  Ranks <- MCRanks
  Channels <- MCChannels
  Src <- MCSrc
  Dst <- MCDst
  MaxStep = 1
  MaxGuard = 2
  MaxSize = 1
  Protocols <- Unbuffered
SPECIFICATION FairSpec
PROPERTY EveryStepEnds
CHECK_DEADLOCK FALSE

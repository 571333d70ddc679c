CONSTANTS
  A = A
  B = B
  Ranks <- MCRanks
  Channels <- MCChannels
  Src <- MCSrc
  Dst <- MCDst
  MaxStep = 2
  MaxGuard = 1
  MaxSize = 1
  Protocols <- MixedProtocols
SPECIFICATION FairSpec
INVARIANTS
  BuffersExclusive
  MessageIntact
  RoundsAgree
PROPERTIES
  Delivers
  EveryStepEnds
CHECK_DEADLOCK FALSE

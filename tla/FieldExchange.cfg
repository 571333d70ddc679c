SPECIFICATION FairSpec
CONSTANTS
  NumRanks = 2
  Filters = {TRUE, FALSE}
  Protocols <- MCProtocols
  MaxStep = 2
INVARIANTS
  GuardsFresh
  BordersStable
  CurrentComplete
PROPERTY
  StepsEnd
CHECK_DEADLOCK FALSE

CONSTANT MaxId = 7
SPECIFICATION FairSpec
INVARIANTS
  IteratorValid
  RunningAlive
  ObserversAlive
  JoinExact
PROPERTY WaitsEnd

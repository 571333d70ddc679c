SPECIFICATION FairSpec
CONSTANTS
  StepsPerGPU = 2
  StepsInFuture = 3
  Devices = 3
  SlidingWindowActive = TRUE
  RunSteps = 8
  CheckpointPeriod = 3
  Background = TRUE
  AllowRestartStep = TRUE
  MaxCrash = 2
INVARIANTS
  CheckpointUsable
  OneSlidePerStep
  DataInPlace
  BackgroundOnce
PROPERTY Completes
CHECK_DEADLOCK FALSE

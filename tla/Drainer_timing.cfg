CONSTANTS
  pod1 = pod1
  again1 = again1
  pod2 = pod2
  daemon = daemon
  bare = bare
  Pods = {pod2}
  NameOf <- Names
  OwnersOf <- Owners
  Timeout = 2
  ErrorCarriesPod = FALSE
  EvictionSupported = TRUE
SPECIFICATION FairSpec
INVARIANTS ElapsedBound
PROPERTIES DrainAdvances DrainReturns
CHECK_DEADLOCK FALSE

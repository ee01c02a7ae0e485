CONSTANTS
  pod1 = pod1
  again1 = again1
  pod2 = pod2
  daemon = daemon
  bare = bare
  Pods = {pod1}
  NameOf <- Names
  OwnersOf <- Owners
  Timeout = 1
  ErrorCarriesPod = TRUE
  EvictionSupported = TRUE
SPECIFICATION Spec
INVARIANTS DrainedNodeIsEmpty
CHECK_DEADLOCK FALSE

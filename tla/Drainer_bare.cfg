CONSTANTS
  pod1 = pod1
  again1 = again1
  pod2 = pod2
  daemon = daemon
  bare = bare
  Pods = {bare}
  NameOf <- Names
  OwnersOf <- Owners
  Timeout = 1
  ErrorCarriesPod = TRUE
  EvictionSupported = TRUE
SPECIFICATION Spec
INVARIANTS OnlyDaemonsLeft
CHECK_DEADLOCK FALSE

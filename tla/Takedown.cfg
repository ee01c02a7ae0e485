CONSTANTS
  n1 = n1
  pod1 = pod1
  again1 = again1
  Nodes = {n1}
  Host = n1
  NoNode = NoNode
  LabelsOf <- Labels
  ProviderOf <- Provider
  Plugins <- Aws
  Statuses <- NotReady
  Configs <- Variants
  MaxGen = 1
  MaxChanges = 1
  MaxCrashes = 1
  MaxUint = 255
  Pods = {pod1}
  NameOf <- Names
  OwnersOf <- Owners
  Timeout = 1
  ErrorCarriesPod = TRUE
  EvictionSupported = TRUE
  MaxDrains = 2
SPECIFICATION TakedownSpec
INVARIANTS TakedownOK CountersAgree
PROPERTIES ReapedWasEmptied WorkerReturns

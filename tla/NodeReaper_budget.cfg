CONSTANTS
  n1 = n1
  n2 = n2
  n3 = n3
  Nodes = {n1, n2, n3}
  NoNode = NoNode
  LabelsOf <- TwoZones
  ProviderOf <- AllAws
  Plugins <- Aws
  Statuses <- TwoStatuses
  Configs <- Limits
  MaxGen = 1
  MaxChanges = 1
  MaxCrashes = 1
  MaxUint = 255
SPECIFICATION Spec
INVARIANTS BlastRadius ZoneBlastRadius
PROPERTIES KeepsBudget

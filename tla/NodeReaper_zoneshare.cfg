CONSTANTS
  n1 = n1
  n2 = n2
  n3 = n3
  Nodes = {n1, n2, n3}
  NoNode = NoNode
  LabelsOf <- TwoZones
  ProviderOf <- AllAws
  Plugins <- Aws
  Statuses <- TwoStatuses
  Configs <- ZonePercent
  MaxGen = 1
  MaxChanges = 0
  MaxCrashes = 0
  MaxUint = 255
SPECIFICATION Spec
PROPERTIES ZoneShareRespected

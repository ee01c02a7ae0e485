CONSTANTS
  n1 = n1
  n2 = n2
  n3 = n3
  Nodes = {n1}
  NoNode = NoNode
  LabelsOf <- OneZone
  ProviderOf <- AllAws
  Plugins <- Aws
  Statuses <- TwoStatuses
  Configs <- JustDefault
  MaxGen = 1
  MaxChanges = 0
  MaxCrashes = 0
  MaxUint = 255
SPECIFICATION Spec
PROPERTIES ReapsRegardless

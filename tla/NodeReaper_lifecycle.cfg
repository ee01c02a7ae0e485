CONSTANTS
  n1 = n1
  n2 = n2
  n3 = n3
  Nodes = {n1, n2}
  NoNode = NoNode
  LabelsOf <- NoZone
  ProviderOf <- SomeAws
  Plugins <- Aws
  Statuses <- TwoStatuses
  Configs <- Variants
  MaxGen = 2
  MaxChanges = 3
  MaxCrashes = 1
  MaxUint = 255
SPECIFICATION Spec
INVARIANTS TypeOK GraceRespected
PROPERTIES DefaultCordonsFirst

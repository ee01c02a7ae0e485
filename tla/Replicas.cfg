CONSTANTS
  Nodes = {n1, n2, n3}
  NoNode = NoNode
  LabelsOf <- Labels
  ProviderOf <- Provider
  Plugins <- Aws
  Statuses <- TwoStatuses
  Configs <- Strict
  MaxGen = 1
  MaxChanges = 2
  MaxCrashes = 0
  MaxUint = 255
SYMMETRY EqualNodes
SPECIFICATION SettledSpec
INVARIANTS TypeOK SharedBlastRadius

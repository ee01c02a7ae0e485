CONSTANTS
  Null = Null
  MaxUint = 4095
  Second = 4
  Documents <- SomeDocuments
  Arguments <- SomeArguments
  Disks <- SomeDisks
  Files <- SomeFiles
  Types <- SomeTypes
  TypeOfPlugin <- SomeTypeOf
SPECIFICATION FairSpec
INVARIANTS TypeOK OnlyWhatWasAsked DurationsHold NoPluginLost ZeroMeansAsked NothingUnheard
PROPERTIES EndsWhenTold
CHECK_DEADLOCK FALSE

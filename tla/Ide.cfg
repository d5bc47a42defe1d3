SPECIFICATION FairSpec
CONSTANTS
  PciFunctions <- SomeFunctions PciConfigs <- SomePciConfigs Kinds <- SomeKinds
  Reach = 2 MaxWrites = 2
INVARIANTS ProbeExact  WorksWhileWaited
PROPERTIES OnlyAskedWritten Settles
CHECK_DEADLOCK FALSE

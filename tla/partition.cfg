CONSTANTS
  IntWidth = 8
  PortLimit = 2
  SwPeriod = 2
  HwPeriod = 3
  Unit = 48
  Tasks <- MCTasks
  Scripts <- MCScripts
  PoolSize = 2
SPECIFICATION Spec
INVARIANTS TypeOK EveryPartitionOnce PinnedAgrees ConfigClosed CostMatchesConfig HardwareNumbered

CONSTANTS
  Classes <- MCClasses
  Programs <- BenchOnly
  Files <- CapacityFiles
  Fresh <- MCFresh
  FifoSize = 7
  CpuSetSize = 6
  MaxActors = 4
  MaxConnects = 3
SPECIFICATION Spec
INVARIANT CapacitiesOnly

CONSTANTS
  Classes <- MCClasses
  Programs <- MCPrograms
  Files <- MCFiles
  Fresh <- MCFresh
  FifoSize = 7
  CpuSetSize = 6
  MaxActors = 4
  MaxConnects = 3
SPECIFICATION Spec
INVARIANTS TypeOK ShapeHolds WiredAsDeclared CapacityRight PlacedAsAsked Reproduced

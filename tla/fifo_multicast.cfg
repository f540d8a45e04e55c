CONSTANTS
  Port <- MCPort
  Wr = "w"
  On <- MCOn
  Cap = 4
  Units = {1, 2}
  Width = 4
  Total = 10
SPECIFICATION Spec
INVARIANTS TypeOK NoSharedSlot
PROPERTY RefinesChannel

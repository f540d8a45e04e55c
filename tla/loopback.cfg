CONSTANT Options <- MCOptions
SPECIFICATION FairSpec
INVARIANTS TypeOK NoConflict Echoed ReleasedComplete StatsComplete NoAssertionFails
PROPERTY Exits

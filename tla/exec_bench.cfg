CONSTANTS
  NetName = "bench"
  N <- NetN
  Actor <- NetActor
  Chan <- NetChan
  ActorsOn <- NetActorsOn
  CpuOf <- NetCpuOf
  Ins <- NetIns
  Outs <- NetOuts
  Writer <- NetWriter
  Cap <- NetCap
  Taken <- NetTaken
  Given <- NetGiven
  Horizon <- NetHorizon
  Loops <- NetLoops
  Terminating <- NetTerminating
  Active <- NetActive
  Source = "src"
  Pass = "pass"
  Out = "out"
  Back = "back"
  NUM_LOOPS = 2
  TxSize = 4
  WordWidth = 3
  Mantissa = 5
  Readings <- MCReadings
  Nobody = Nobody
  TryWaitBlocks = FALSE
SPECIFICATION BenchSpec
INVARIANTS TypeOK ViewsSafe Measured
PROPERTIES RefinesDataflow EventuallyJoined

CONSTANTS
  NetName = "fan"
  N <- NetN
  Actor <- NetActor
  Chan <- NetChan
  ActorsOn <- NetActorsOn
  CpuOf <- NetCpuOf
  Ins <- NetIns
  Outs <- NetOuts
  Writer <- NetWriter
  Cap <- NetCap
  Taken <- NetTaken
  Given <- NetGiven
  Horizon <- NetHorizon
  Loops <- NetLoops
  Terminating <- NetTerminating
  Active <- NetActive
  Class <- NetClass
  NumActions <- NetNumActions
  ActionAt <- NetActionAt
  Consumption <- NetConsumption
  Production <- NetProduction
  Nobody = Nobody
  TryWaitBlocks = FALSE
SPECIFICATION TracedSpec
INVARIANTS OutcomeUnique TerminationSound TraceReplays TraceComplete
PROPERTIES AffectedUnshared RefinesFiring

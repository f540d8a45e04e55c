CONSTANTS
  NetName = "pipe"
  N <- NetN
  Actor <- NetActor
  Chan <- NetChan
  ActorsOn <- NetActorsOn
  CpuOf <- NetCpuOf
  Ins <- NetIns
  Outs <- NetOuts
  Writer <- NetWriter
  Cap <- NetCap
  Taken <- NetTaken
  Given <- NetGiven
  Horizon <- NetHorizon
  Loops <- NetLoops
  Terminating <- NetTerminating
  Active <- NetActive
  Nobody = Nobody
  TryWaitBlocks = FALSE
SPECIFICATION Spec
INVARIANTS TerminationSound

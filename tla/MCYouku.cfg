SPECIFICATION FairSpec
CONSTANTS
  NClips = 2
  Callers = {1, 2}
  MaxCalls = 3
  MaxChanges = 3
  MaxErrors = 1
INVARIANTS CompleteMeansDownloaded
PROPERTIES OnlyChangeInterrupts CallsReturn StopReturns AllDownloaded
CHECK_DEADLOCK FALSE

SPECIFICATION FairSpec
CONSTANTS
  Streams = {"video"}
  MaxPackets <- MCVideo2
  MaxFrames = 1
  MaxBuffer = 1
  DqSize = 1
  MaxSeeks = 1
  MaxPauses = 1
  MayStop = TRUE
  StartSeek = FALSE
  InitFails = FALSE
PROPERTIES SeekTaken StopReturns Completes
CHECK_DEADLOCK FALSE

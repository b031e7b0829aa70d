SPECIFICATION Spec
CONSTANTS
  Streams = {"audio"}
  MaxPackets <- MCAudio6
  MaxFrames = 2
  MaxBuffer = 2
  DqSize = 1
  MaxSeeks = 1
  MaxPauses = 0
  MayStop = TRUE
  StartSeek = TRUE
  InitFails = TRUE
INVARIANTS TypeOK StaleBounded ReadAheadBounded FullMeansPackets
CHECK_DEADLOCK FALSE

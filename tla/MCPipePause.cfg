SPECIFICATION Spec
CONSTANTS
  Streams = {"audio","video"}
  MaxPackets <- MCBoth53
  MaxFrames = 1
  MaxBuffer = 0
  DqSize = 2
  MaxSeeks = 0
  MaxPauses = 1
  MayStop = FALSE
  StartSeek = FALSE
  InitFails = FALSE
INVARIANT PauseBounded
PROPERTY LittleLeftAtEnd

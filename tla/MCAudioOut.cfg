SPECIFICATION AudioFairSpec
CONSTANTS
  BUFFER_COUNT = 8
  FrameBlocks = 5
  MaxBlocks = 20
  m_buffer_size = 24
  m_min_free_space = 4
  DsoundFrame = 2
  DsoundBlocks = 14
  MaxFails = 2
  PipeSize = 6
  len = 2
  SdlFrame = 3
  SdlBlocks = 15
INVARIANTS NoOverwrite NoCallbackAfterFree 
PROPERTIES PlaysInOrder DsoundInOrder AllPlayed
CHECK_DEADLOCK FALSE

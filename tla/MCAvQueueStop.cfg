SPECIFICATION FairSpec
CONSTANTS
  MaxCells = 4
  MaxGen = 1
  DqSize = 2
PROPERTIES StopEndsConsumer
CHECK_DEADLOCK FALSE

SPECIFICATION FairSpec
CONSTANTS
  PieceLength = 3
  TorrentSize = 7
  BaseOffset = 0
  DataSize = 7
  IOBuffer = 2
  IntLimit = 16
  MaxErrors = 0
  MaxWakeups = 0
PROPERTY DestoryCloses
CHECK_DEADLOCK FALSE

SPECIFICATION ServedSpec
CONSTANTS
  PieceLength = 3
  TorrentSize = 7
  BaseOffset = 0
  DataSize = 7
  IOBuffer = 2
  IntLimit = 16
  MaxErrors = 1
  MaxWakeups = 1
INVARIANTS  AnswersAwaited
 
CHECK_DEADLOCK FALSE

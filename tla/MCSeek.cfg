SPECIFICATION FairSpec
CONSTANTS
  Positions = {0, 3, 8}
  MaxCalls = 3
 
PROPERTIES Settles SavedSeekDone
CHECK_DEADLOCK FALSE

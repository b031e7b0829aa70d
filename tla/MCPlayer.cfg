SPECIFICATION FairSpec
CONSTANTS
  Usages = {"direct", "thread"}
  MaxOpens = 2
  MaxPlays = 2
  MaxLoads = 1
  CreateFails = TRUE
INVARIANTS  AvplayFreedOnce 
PROPERTIES JoinsValid 
CHECK_DEADLOCK FALSE

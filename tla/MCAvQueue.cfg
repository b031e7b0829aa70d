SPECIFICATION FairSpec
CONSTANTS
  MaxCells = 5
  MaxGen = 2
  DqSize = 2
INVARIANTS ListWhole SleepsOnlyWhenEmpty NoCellLeak NothingStale PeekSafe DrainSeparates
PROPERTIES FlushPktFirst ImplementsFifo Delivered
CHECK_DEADLOCK FALSE

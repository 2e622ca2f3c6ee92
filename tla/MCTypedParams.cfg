CONSTANTS
  MaxParams = 2
SPECIFICATION FairSpec
INVARIANTS MemoryIsSafe NothingLeaks ListsArriveWhole
PROPERTIES CallsEnd

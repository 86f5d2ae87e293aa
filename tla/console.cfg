SPECIFICATION FairSpec
CONSTANTS
  Chars = {a, b}
  MaxScreen = 2
  MaxKeys = 3
  MaxBatch = 2
  MaxChanges = 2
  MaxFailures = 1
  None = None
INVARIANTS TypeOK NothingForgotten ScreenAgrees
PROPERTIES KeysInOrder KeysArrive ScreenArrives
CHECK_DEADLOCK FALSE

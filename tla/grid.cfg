SPECIFICATION FairSpec
CONSTANTS
  NumCols = 3
  SortCols = {1, 2}
  NumRows = 3
  FirstDbs = {{1}, {1, 2}}
  RpOptions = {1, 2}
  FirstRp = 2
  None = None
  MaxChanges = 1
INVARIANTS TypeOK CellsUnderHeaders PagerDescribesBody
PROPERTIES NeverOlder LoadingEnds UpToDate

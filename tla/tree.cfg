SPECIFICATION FairSpec
CONSTANTS
  Pools = {p1, p2}
  Root = Root
  Smart = Smart
  Names = {a, b}
  FirstName = a
  None = None
  MaxRequests = 2
  MaxChanges = 3
INVARIANTS TypeOK CurrentIsShown
PROPERTIES  GoneVanishes NewAppears

SPECIFICATION FairSpec
CONSTANTS
  Searches = {p1, p2}
  OldId = old
  None = None
  MaxFaults = 1
  MaxLapses = 1
  MaxCrashes = 1
INVARIANTS CatalogSound SlugOpensSet
PROPERTY SearchesEnd
CHECK_DEADLOCK FALSE

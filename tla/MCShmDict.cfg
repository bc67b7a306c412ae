CONSTANTS
  l1 = l1
  l2 = l2
  r1 = r1
  d1 = d1
  d2 = d2
  Loaders = {l1, l2}
  Readers = {r1}
  Dicts = {d1, d2}
  Size <- TwoSizes
  Blocks <- OneAndTwo
  Reached <- OneAndTwo
  Far = 5
  None = None
  MaxLoads = 2
SPECIFICATION FairSpec
INVARIANTS IndInv ReadsInside OneDictionary SettledRead LoadReports
PROPERTIES Reclaimed
CHECK_DEADLOCK FALSE

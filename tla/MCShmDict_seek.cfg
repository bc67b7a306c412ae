CONSTANTS
  l1 = l1
  r1 = r1
  d1 = d1
  d2 = d2
  Loaders = {l1}
  Readers = {r1}
  Dicts = {d1, d2}
  Size <- TwoSizes
  Blocks <- OneAndTwo
  Reached <- OneAndTwo
  Far = 5
  None = None
  MaxLoads = 2
SPECIFICATION Spec
INVARIANTS SeekAnswers
CHECK_DEADLOCK FALSE

CONSTANTS
  Inputs <- LongWords
  Letters = {"a", "b"}
  WordChars = {"a", "b"}
  KeepTags <- OneKeepTag
  None = None
  CHUNK = 2
  WIDTH = 4
  GROUP = 8
  RING = 16
SPECIFICATION Spec
INVARIANTS FindsLongestWords
CHECK_DEADLOCK FALSE

CONSTANTS
  Inputs <- ShortTexts
  Letters = {"a", "b"}
  WordChars = {"a", "b"}
  KeepTags <- OneKeepTag
  None = None
  CHUNK = 2
  WIDTH = 4
  GROUP = 8
  RING = 16
SPECIFICATION Spec
INVARIANTS MaskIsOfMatches
CHECK_DEADLOCK FALSE

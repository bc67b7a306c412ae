CONSTANTS
  Inputs <- AllInputs
  Letters = {"a", "b"}
  WordChars = {"a", "b"}
  KeepTags <- OneKeepTag
  None = None
  CHUNK = 2
  WIDTH = 4
  GROUP = 8
  RING = 16
SPECIFICATION Spec
INVARIANTS IndInv MatchesInText FitsBuffer FindsLongestWords Followed NothingUncovered MatchesVisibleText
PROPERTIES Terminates
CHECK_DEADLOCK FALSE

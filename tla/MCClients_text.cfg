CONSTANTS
  Dict <- Words
  Width <- Bytewidth
  RSZ = 140
  None = None
  Scripts <- OneMap
SPECIFICATION Spec
INVARIANTS PositionsInText
CHECK_DEADLOCK FALSE

CONSTANTS
  Dict <- Words
  Width <- Bytewidth
  RSZ = 140
  None = None
  Scripts <- SomeScripts
SPECIFICATION Spec
INVARIANTS IndInv AnswerIsOwn RightAnswers RepliesFit CloseLosesNothing
PROPERTIES CallsEnd
CHECK_DEADLOCK FALSE

CONSTANTS
  Files <- AllFiles
  Tab = "t"
  Newline = "n"
  Low <- LowBits
  Strings <- UpToFive
  Hashes <- SomeHashes
  KeyChar <- KeyChars
  Commands <- SomeCommands
  CHUNK = 2
  BSIZE = 2
  None = None
SPECIFICATION CtlSpec
INVARIANTS ListFits
CHECK_DEADLOCK FALSE

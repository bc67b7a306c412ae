\* One patient client beside one that may stall, half-close or hang up.
CONSTANTS
  c1 = c1
  c2 = c2
  Conns = {c1, c2}
  Patient = {c1}
  None = None
  MaxLines = 2
  SockBuf = 1
  MaxOpen = 2
SPECIFICATION FairSpec
INVARIANTS IndInv SlotAlive NoLostWakeup RepliesInOrder
PROPERTIES ServiceSafe Answered Reclaimed ServiceSpec
CHECK_DEADLOCK FALSE

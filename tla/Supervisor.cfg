CONSTANTS
  s1 = s1
  s2 = s2
  s3 = s3
  Servers = {s1, s2, s3}
  MaxFaults = 3
  None = None
SPECIFICATION Spec
INVARIANTS IndInv ReachableOnceUp
PROPERTIES ComesBack
CHECK_DEADLOCK FALSE

\* Every stream of up to eleven bytes; lines of up to three fit the buffer.
CONSTANTS
  Cap = 5
  MaxLength = 11
SPECIFICATION Spec
INVARIANTS IndInv LinePerRequest Drained
CHECK_DEADLOCK FALSE

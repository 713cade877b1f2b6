CONSTANTS
  b0 = b0
  b1 = b1
  Bytes <- TwoBytes
  Zero = b0
  Capacity = 4
  Cautious = TRUE
SPECIFICATION Spec
INVARIANTS TypeOK PositionsOrdered AssertsHold
PROPERTIES QueueKept

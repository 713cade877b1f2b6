CONSTANTS
  ChannelCount = 3
  PriorityCount = 1
  PriorityOf <- OneLevel
SPECIFICATION Spec
INVARIANTS CallsReturn
CHECK_DEADLOCK FALSE

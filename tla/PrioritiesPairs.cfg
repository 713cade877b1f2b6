CONSTANTS
  ChannelCount = 3
  PriorityCount = 2
  PriorityOf <- TwoLevels
SPECIFICATION FairSpec
INVARIANTS TypeOK CallsReturn RequestKept AloneHasReason
PROPERTIES UrgentFirst EveryAskerServed
CHECK_DEADLOCK FALSE

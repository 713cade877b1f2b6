CONSTANTS
  ChannelCount = 6
  PriorityCount = 2
  PriorityOf <- TwoLevels
SPECIFICATION Spec
INVARIANTS TypeOK RequestsExact RecentBehind
PROPERTIES  TakesTurns

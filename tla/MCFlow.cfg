CONSTANTS
  MaxPosition = 3
  MaxInFlight = 3
SPECIFICATION FlowSpec
INVARIANTS TypeOK SeqExpected CreditKept FlowInv
PROPERTIES CreditGrows
CHECK_DEADLOCK FALSE

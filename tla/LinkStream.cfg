CONSTANTS
  A = A
  B = B
  ChannelCount = 1
  PriorityCount = 1
  PriorityOf <- OneLevel
  Peers <- TwoPeers
  Align = 1
  MaxPayload <- Packets2
  WireSize = 2
  Wrap = 1000
  Accepts <- Accept
  AddSizes = {1, 2}
  XmitLimits = {1, 3}
  RecvLimits = {3}
  XmitTotal <- A3
  RecvTotal <- B3
  PingTotal <- NoPing
SPECIFICATION Spec
INVARIANTS TypeOK FramingKept WriteRequestKept
 
CHECK_DEADLOCK FALSE

CONSTANTS
  A = A
  B = B
  ChannelCount = 1
  PriorityCount = 1
  PriorityOf <- OneLevel
  Peers <- TwoPeers
  Align = 2
  MaxPayload <- Packets3
  WireSize = 2
  Wrap = 1000
  Accepts <- Accept
  AddSizes = {1}
  XmitLimits = {}
  RecvLimits = {}
  XmitTotal <- A2
  RecvTotal <- B2
  PingTotal <- NoPing
SPECIFICATION Spec
INVARIANTS FramingKept
CHECK_DEADLOCK FALSE

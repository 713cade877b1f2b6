CONSTANTS
  A = A
  B = B
  ChannelCount = 1
  PriorityCount = 1
  PriorityOf <- OneLevel
  Peers <- TwoPeers
  Align = 1
  MaxPayload <- Packets1
  WireSize = 2
  Wrap = 1000
  Accepts <- Accept
  AddSizes = {2}
  XmitLimits = {}
  RecvLimits = {}
  XmitTotal <- A2
  RecvTotal <- B2
  PingTotal <- NoPing
SPECIFICATION FairSpec
PROPERTIES Delivered
CHECK_DEADLOCK FALSE

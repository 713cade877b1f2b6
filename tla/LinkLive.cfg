CONSTANTS
  A = A
  B = B
  ChannelCount = 2
  PriorityCount = 2
  PriorityOf <- EachOwn
  Peers <- TwoPeers
  Align = 2
  MaxPayload <- Packets2
  WireSize = 14
  Wrap = 1000
  Accepts <- Accept
  AddSizes = {1}
  XmitLimits = {}
  RecvLimits = {}
  XmitTotal <- A1
  RecvTotal <- B21
  PingTotal <- NoPing
SPECIFICATION FairSpec
INVARIANTS FramingKept
PROPERTIES StreamsKept Delivered
CHECK_DEADLOCK FALSE

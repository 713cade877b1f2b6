CONSTANTS
  A = A
  B = B
  ChannelCount = 1
  PriorityCount = 1
  PriorityOf <- OneLevel
  Peers <- TwoPeers
  Align = 1
  MaxPayload <- Packets1
  WireSize = 2
  Wrap = 1000
  Accepts <- MayReject
  AddSizes = {1}
  XmitLimits = {}
  RecvLimits = {}
  XmitTotal <- Each1
  RecvTotal <- Each1
  PingTotal <- PingA
SPECIFICATION FairSpec
INVARIANTS WriteRequestKept
PROPERTIES StreamsKept TrafficAfterAccept RejectionReported PingAnswered
CHECK_DEADLOCK FALSE

CONSTANTS
  A = A
  B = B
  ChannelCount = 1
  PriorityCount = 1
  PriorityOf <- OneLevel
  Peers <- TwoPeers
  Align = 2
  MaxPayload <- Packets2
  WireSize = 2
  Wrap = 1000
  Accepts <- MayReject
  Threaded <- ThreadOfA
  AddSizes = {1}
  XmitTotal <- Send30
  RecvTotal <- Recv30
SPECIFICATION FairSpec
PROPERTIES StreamsKept Delivered RejectionReported
CHECK_DEADLOCK FALSE

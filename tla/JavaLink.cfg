CONSTANTS
  A = A
  B = B
  ChannelCount = 1
  PriorityCount = 1
  PriorityOf <- OneLevel
  Peers <- TwoPeers
  Align = 2
  MaxPayload <- Packets2
  WireSize = 2
  Wrap = 3
  Accepts <- MayReject
  Threaded <- ThreadOfA
  AddSizes = {1}
  XmitTotal <- Send31
  RecvTotal <- Recv31
SPECIFICATION Spec
INVARIANTS TypeOK NoProtocolError
PROPERTIES StreamsKept
CHECK_DEADLOCK FALSE

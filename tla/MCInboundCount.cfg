CONSTANTS
  MaxMessagePayload = 16
  MaxUserAgentLen = 1
  MaxAddrPerMsg = 1
  MaxInvPerMsg = 2
  MaxObjectPayload = 11
  Checksum <- MCChecksum
  StampModulus = 128
  ZeroTime <- MCZeroTime
  MaxAlloc = 90
  bmnet <- MCNet
  DiscardChunk = 2
  ReadFaults = {}
  Segments <- MCSegments
  MaxWire = 7
SPECIFICATION InboundSpec
INVARIANT CountIsBytesRead
CHECK_DEADLOCK FALSE

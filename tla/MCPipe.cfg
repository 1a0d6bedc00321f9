CONSTANTS
  MaxMessagePayload = 8
  MaxUserAgentLen = 1
  MaxAddrPerMsg = 1
  MaxInvPerMsg = 2
  MaxObjectPayload = 8
  Checksum <- MCChecksum
  StampModulus = 128
  ZeroTime <- MCZeroTime
  MaxAlloc = 500
  bmnet <- MCNet
  DiscardChunk = 2
  ReadFaults = {"Timeout"}
  WriteFaults = TRUE
  Messages <- MCMessages
  MaxWire = 6
SPECIFICATION Spec
INVARIANTS
  NothingInvented
CHECK_DEADLOCK FALSE

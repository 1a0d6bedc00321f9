CONSTANTS
  MaxMessagePayload = 8
  MaxUserAgentLen = 1
  MaxAddrPerMsg = 1
  MaxInvPerMsg = 2
  MaxObjectPayload = 8
  Checksum <- MCChecksum
  StampModulus = 128
  ZeroTime <- MCZeroTime
  MaxAlloc = 500
  bmnet <- MCNet
  DiscardChunk = 2
  ReadFaults = {}
  WriteFaults = FALSE
  Messages <- MCMessages
  MaxWire = 8
SPECIFICATION FairSpec
INVARIANTS
  NothingMixed
  OnlyForeignRefused
PROPERTIES
  IsOneChannel
  ArrivesInTheEnd
CHECK_DEADLOCK FALSE

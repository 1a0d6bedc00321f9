CONSTANTS
  MaxMessagePayload = 17
  MaxUserAgentLen = 1
  MaxAddrPerMsg = 2
  MaxInvPerMsg = 2
  MaxObjectPayload = 13
  Checksum <- MCChecksum
  StampModulus = 128
  ZeroTime <- MCZeroTime
  MaxAlloc = 500
  bmnet <- MCNet
  Messages <- MCMessages
  WriteFaults = TRUE
  MaxWire = 5
SPECIFICATION WriterSpec
INVARIANTS
  WriteTypeOK
  WriteCountAccounts
  WritesOneFrame
  WrittenIsReadable
CHECK_DEADLOCK FALSE

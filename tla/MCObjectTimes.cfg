CONSTANTS
  MaxMessagePayload = 16
  MaxUserAgentLen = 3
  MaxAddrPerMsg = 3
  MaxInvPerMsg = 3
  MaxObjectPayload = 16
  Checksum <- Len
  StampModulus = 128
  ZeroTime <- MCZeroTime
  MaxAlloc = 90
  NewMessages <- MCNewMessages
  Payloads <- MCPayloads
  Additions <- MCAdditions
  Vectors = {63, 64}
  AgentParts <- MCAgentParts
  Services = {2, 3}
SPECIFICATION Spec
INVARIANT EncodedTimeIsExact
CHECK_DEADLOCK FALSE

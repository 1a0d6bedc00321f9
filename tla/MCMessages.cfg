CONSTANTS
  Cells = {1, 2}
  Payloads <- MCPayloads
  MaxAddrPerMsg = 2
  MaxInvPerMsg = 1
  MaxObjects = 8
SPECIFICATION Spec
INVARIANTS
  OwnedMessagesKeep
PROPERTIES
  DecodeIsLocal
  LengthsKeep
CHECK_DEADLOCK FALSE

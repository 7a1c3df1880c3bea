SPECIFICATION Spec
CONSTANTS
  FifoLen = 8
  Codes <- MCCodes
  MaxUnread = 7
INVARIANTS TypeOK InOrder
PROPERTIES Delivered
